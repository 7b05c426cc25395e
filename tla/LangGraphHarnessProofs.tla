----------------------- MODULE LangGraphHarnessProofs -----------------------
(* How a driver of a run ends, and what it leaves of an operator's decisions, *)
(* for any plans, limits and number of decisions.                             *)
EXTENDS LangGraphHarness, RunStatesProofs, FiniteSetTheorems, WellFoundedInduction

-----------------------------------------------------------------------------
(* The inductive invariant *)

\* The task table of a copy: whoever is ready has what it waits for.
ReadyIsReady(s) ==
  \A n \in DOMAIN s.dag : s.tasks[n].status = "ready" => s.dag[n].deps \subseteq Completed(s)

\* The problems that will not be dispatched again, if none was blocked.
Done(s) == {n \in DOMAIN s.dag \ {Terminal} : s.tasks[n].status \in {"completed", "failed"}}

Blocked(s) == \E i \in DOMAIN s.reports : s.reports[i].outcome = "blocked"

Good(s) == IsRun(s) /\ NoneStranded(s) /\ AllDone(s)

RowInv == run # None => Good(run)

\* The copy is the row, or an earlier version of it.
CopyInv ==
  copy # None =>
    /\ Good(copy) /\ copy.dag \in Opening /\ ReadyIsReady(copy)
    /\ run # None /\ copy.version <= run.version
    /\ copy.version = run.version => copy = run

\* Where the driver is, and how many nodes it can have executed by then.
PhaseInv ==
  /\ phase \in {"start", "render"} \cup Nodes \cup Ends /\ steps \in Nat
  /\ phase = "start" => run = None /\ copy = None /\ steps = 0
  /\ phase \notin {"start", "died"} => copy # None
  /\ run # None => copy # None
  /\ phase \in Nodes => ~copy.terminal
  /\ phase = "compose" => Publishable(copy)
  /\ phase = "dispatch" => Blocked(copy) \/ steps <= Cardinality(Done(copy))
  /\ phase = "compose" => Blocked(copy) \/ steps <= Cardinality(Done(copy)) + 1

Inv == RowInv /\ CopyInv /\ PhaseInv /\ EndsForAReason

-----------------------------------------------------------------------------
(* Counting *)

\* The tasks that ended are finitely many, and no more than there are.
LEMMA DoneIsSmall ==
  ASSUME NEW s, IsRun(s)
  PROVE  /\ IsFiniteSet(DOMAIN s.dag) /\ IsFiniteSet(Done(s))
         /\ Cardinality(DOMAIN s.dag) \in Nat /\ Cardinality(Done(s)) \in Nat
         /\ Cardinality(Done(s)) <= Cardinality(DOMAIN s.dag)
<1>1. DOMAIN s.dag \subseteq Id
  BY RunFields DEF IsPlan
<1>2. IsFiniteSet(DOMAIN s.dag)
  BY <1>1, DriverAssumption, FS_Subset
<1>3. Done(s) \in SUBSET DOMAIN s.dag
  BY DEF Done
<1>4. QED BY <1>2, <1>3, FS_Subset, FS_CardinalityType

\* The limit is beyond what a run without blocked problems takes.
LEMMA LimitIsEnough ==
  ASSUME NEW p, IsFiniteSet(DOMAIN p)
  PROVE  Limit(p) \in Nat /\ Cardinality(DOMAIN p) + 1 < Limit(p)
<1>1. Cardinality(DOMAIN p) \in Nat /\ MaxIterations \in Nat
  <2>1. Cardinality(DOMAIN p) \in Nat
    BY FS_CardinalityType
  <2>2. MaxIterations \in 1 .. 20
    BY DriverAssumption
  <2>3. QED BY <2>1, <2>2
<1>2. ASSUME NEW a \in Nat, NEW b \in Nat
      PROVE  a * (b + 3) \in Nat /\ a * (b + 3) >= a
  OBVIOUS
<1>3. Cardinality(DOMAIN p) * (MaxIterations + 3) \in Nat
      /\ Cardinality(DOMAIN p) * (MaxIterations + 3) >= Cardinality(DOMAIN p)
  BY <1>1, <1>2
<1>4. QED BY <1>1, <1>3 DEF Limit

-----------------------------------------------------------------------------
(* What is ready *)

\* A nonempty set of naturals has a least element.
LEMMA LeastNat ==
  ASSUME NEW T, T \subseteq Nat, T # {}
  PROVE  \E n \in T : \A m \in T : n <= m
<1>1. PICK x \in T : \A y \in T : ~ (<<y, x>> \in OpToRel(<, Nat))
  BY NatLessThanWellFounded, WFMin
<1>2. \A y \in T : ~ (y < x)
  BY <1>1 DEF OpToRel
<1>3. QED BY <1>2

\* The first task the graph takes is a ready one.
LEMMA FirstIsReady ==
  ASSUME NEW s, IsRun(s), ReadyAt(s) # {}
  PROVE  Ready(s, FirstReady(s)) /\ FirstReady(s) \in DOMAIN s.dag \ {Terminal}
<1>1. ReadyAt(s) \subseteq Nat
  BY DriverAssumption DEF ReadyAt
<1>2. \E i \in ReadyAt(s) : \A j \in ReadyAt(s) : i <= j
  BY <1>1, LeastNat
<1>3. \E i \in ReadyAt(s) : FirstReady(s) = Listing[i]
  BY <1>2 DEF FirstReady
<1>4. QED BY <1>3 DEF ReadyAt, Ready

\* The end of the graph without a paper: among the problems that are not
\* completed is one that waits for none of them; it is neither ready nor blocked.
LEMMA StoppedHasFailed ==
  ASSUME NEW s, Good(s), s.dag \in Opening, ReadyIsReady(s),
         ReadyAt(s) = {}, ~ Publishable(s)
  PROVE  \E n \in DOMAIN s.dag : s.tasks[n].status = "failed"
<1> DEFINE Open == DOMAIN s.dag \ ({Terminal} \cup Completed(s))
<1>1. IsPlan(s.dag) /\ s.tasks \in [DOMAIN s.dag -> Task]
  BY RunFields DEF Good
<1>2. Open # {} /\ Open \in SUBSET DOMAIN s.dag
  BY DEF Publishable
<1> HIDE DEF Open
<1>3. PICK n \in Open : s.dag[n].deps \cap Open = {}
  BY <1>2, AcyclicAssumption
<1> USE DEF Open
<1>4. n \in DOMAIN s.dag \ {Terminal} /\ n \notin Completed(s)
  BY <1>3
<1>5. s.dag[n].deps \subseteq Completed(s)
  BY <1>1, <1>3, <1>4 DEF IsPlan
<1>6. s.tasks[n].status # "blocked"
  BY <1>4, <1>5 DEF Good, NoneStranded
<1>7. s.tasks[n].status # "ready"
  <2>1. ASSUME s.tasks[n].status = "ready" PROVE FALSE
    <3>1. Ready(s, n)
      BY <1>4, <1>5, <2>1 DEF Ready
    <3>2. PICK i \in DOMAIN Listing : Listing[i] = n
      BY <1>1, <1>4, DriverAssumption DEF IsPlan
    <3>3. QED BY <3>1, <3>2 DEF ReadyAt
  <2>2. QED BY <2>1
<1>8. s.tasks[n].status \in Status /\ s.tasks[n].status # "completed"
  BY <1>1, <1>4 DEF Task, Completed
<1>9. QED BY <1>4, <1>6, <1>7, <1>8 DEF Status

-----------------------------------------------------------------------------
(* What a dispatch makes of the copy *)

\* What a solved task, or one that could not be, leaves of a state.
SolvedAs(s, n, t) ==
  \/ t = Attempted(s, n, "failed")
  \/ \E outcome \in Outcome : t = Reported(s, n, outcome, Basis(s, n))

\* What a task rests on are reports there are.
LEMMA BasisIsOfReports ==
  ASSUME NEW s, IsRun(s), NEW n
  PROVE  Basis(s, n) \in SUBSET DOMAIN s.reports /\ DOMAIN s.reports \subseteq Nat
<1>1. s.reports \in Seq(Report)
  BY RunFields
<1>2. QED BY <1>1 DEF Basis, Newest

\* The status of every task after a dispatch.
LEMMA SolvedFields ==
  ASSUME NEW p \in Plan, NEW s \in RunOf(p), IsRun(s), NEW n \in DOMAIN p, NEW t,
         SolvedAs(s, n, t), Ready(s, n)
  PROVE  /\ t \in RunOf(p) /\ t.dag = p /\ t.terminal = s.terminal /\ t.decisions = s.decisions
         /\ Blocked(s) => Blocked(t)
         /\ \E status \in Status :
              /\ status \in {"completed", "failed"} \/ Blocked(t)
              /\ t.tasks[n].status = status \/ Blocked(t)
              /\ n \in Completed(t) <=> status = "completed"
              /\ \A m \in DOMAIN p \ {n} :
                   \/ t.tasks[m].status = s.tasks[m].status
                   \/ /\ s.tasks[m].status = "blocked" /\ t.tasks[m].status = "ready"
                      /\ p[m].deps \subseteq Completed(t)
<1>1. s.dag = p /\ s.tasks \in [DOMAIN p -> Task] /\ s.reports \in Seq(Report)
  BY DEF RunOf
<1>2. CASE t = Attempted(s, n, "failed")
  <2>1. "failed" \in Status
    BY DEF Status
  <2>2. /\ t \in RunOf(p) /\ t.dag = p /\ t.reports = s.reports /\ t.terminal = s.terminal
        /\ t.decisions = s.decisions
        /\ \A m \in DOMAIN p :
             t.tasks[m].status = IF m = n THEN "failed" ELSE s.tasks[m].status
    BY <1>2, <2>1, AttemptedFields
  <2>3. n \notin Completed(t)
    BY <2>2 DEF Completed
  <2>4. Blocked(s) => Blocked(t)
    BY <2>2 DEF Blocked
  <2>5. QED BY <2>1, <2>2, <2>3, <2>4
<1>3. ASSUME NEW outcome \in Outcome, t = Reported(s, n, outcome, Basis(s, n))
      PROVE  /\ t \in RunOf(p) /\ t.dag = p /\ t.terminal = s.terminal /\ t.decisions = s.decisions
             /\ Blocked(s) => Blocked(t)
             /\ outcome \in Status
             /\ outcome \in {"completed", "failed"} \/ Blocked(t)
             /\ t.tasks[n].status = outcome \/ Blocked(t)
             /\ n \in Completed(t) <=> outcome = "completed"
             /\ \A m \in DOMAIN p \ {n} :
                  \/ t.tasks[m].status = s.tasks[m].status
                  \/ /\ s.tasks[m].status = "blocked" /\ t.tasks[m].status = "ready"
                     /\ p[m].deps \subseteq Completed(t)
  <2> DEFINE a == Attempted(s, n, outcome)
             r == [task |-> n, outcome |-> outcome, basis |-> Basis(s, n)]
  <2>1. outcome \in Status /\ outcome \in Answers /\ n \in Id /\ Basis(s, n) \in SUBSET Nat
    BY OutcomeAssumption, PlanAssumption, BasisIsOfReports DEF Answers, Status, IsPlan
  <2>2. /\ a.dag = p
        /\ \A m \in DOMAIN p :
             a.tasks[m].status = IF m = n THEN outcome ELSE s.tasks[m].status
    BY <2>1, AttemptedFields
  <2>3. /\ t \in RunOf(p) /\ t.dag = p /\ t.terminal = s.terminal /\ t.decisions = s.decisions
        /\ t.reports = Append(s.reports, r) /\ Completed(t) = Completed(a)
        /\ \A m \in DOMAIN p :
             t.tasks[m].status =
               IF a.tasks[m].status = "blocked" /\ p[m].deps \subseteq Completed(a)
               THEN "ready" ELSE a.tasks[m].status
    BY <1>3, <2>1, ReportedFields
  <2>4. r \in Report /\ r.outcome = outcome
    BY <2>1 DEF Report
  <2> HIDE DEF a, r
  <2>5. Len(s.reports) \in Nat /\ Len(t.reports) = Len(s.reports) + 1
        /\ t.reports[Len(s.reports) + 1] = r
        /\ \A i \in 1 .. Len(s.reports) : t.reports[i] = s.reports[i]
    BY <1>1, <2>3, <2>4, AppendProperties, LenProperties
  <2>6. DOMAIN s.reports = 1 .. Len(s.reports) /\ DOMAIN t.reports = 1 .. Len(t.reports)
    BY <1>1, <2>3, <2>4, AppendProperties, LenProperties
  <2>7. Blocked(s) => Blocked(t)
    BY <2>5, <2>6 DEF Blocked
  <2>8. outcome = "blocked" => Blocked(t)
    BY <2>4, <2>5, <2>6 DEF Blocked
  <2>9. n \in Completed(t) <=> outcome = "completed"
    BY <2>2, <2>3 DEF Completed
  <2>10. \A m \in DOMAIN p \ {n} :
           \/ t.tasks[m].status = s.tasks[m].status
           \/ /\ s.tasks[m].status = "blocked" /\ t.tasks[m].status = "ready"
              /\ p[m].deps \subseteq Completed(t)
    BY <2>2, <2>3
  <2>11. outcome # "blocked" => t.tasks[n].status = outcome
    BY <2>2, <2>3
  <2>12. QED BY <2>1, <2>3, <2>7, <2>8, <2>9, <2>10, <2>11 DEF Answers
<1>4. QED BY <1>2, <1>3 DEF SolvedAs

\* A dispatch, and what the invariant says of the copy.
LEMMA SolvedKeeps ==
  ASSUME NEW s, Good(s), s.dag \in Opening, ReadyIsReady(s),
         NEW n, Ready(s, n), NEW t0, SolvedAs(s, n, t0)
  PROVE  LET t == Committed(t0) IN
         /\ Good(t) /\ t.dag = s.dag /\ ReadyIsReady(t) /\ ~t.terminal
         /\ t.version = s.version + 1 /\ t.decisions = s.decisions /\ Step(s, t)
         /\ Blocked(s) => Blocked(t)
         /\ Blocked(t) \/ Cardinality(Done(t)) = Cardinality(Done(s)) + 1
         /\ Route(t0) = Route(t)
<1> DEFINE t == Committed(t0)
           p == s.dag
<1>1. p \in Plan /\ s \in RunOf(p) /\ IsRun(s) /\ n \in DOMAIN p \ {Terminal}
      /\ n \notin Completed(s) /\ ~s.terminal /\ s.tasks[n].status = "ready"
      /\ p[n].deps \subseteq Completed(s)
  BY RunFields, ReadyIsOpen DEF Good, Ready
<1>2. Step(s, t)
  BY <1>1, BasisIsOfReports DEF Step, SolvedAs
<1>3. Good(t) /\ t.version = s.version + 1
  BY <1>2, StepKeeps DEF Good
<1> HIDE DEF p
<1>4. PICK status \in Status :
        /\ t0 \in RunOf(p) /\ t0.dag = p /\ t0.terminal = s.terminal /\ t0.decisions = s.decisions
        /\ Blocked(s) => Blocked(t0)
        /\ status \in {"completed", "failed"} \/ Blocked(t0)
        /\ t0.tasks[n].status = status \/ Blocked(t0)
        /\ n \in Completed(t0) <=> status = "completed"
        /\ \A m \in DOMAIN p \ {n} :
             \/ t0.tasks[m].status = s.tasks[m].status
             \/ /\ s.tasks[m].status = "blocked" /\ t0.tasks[m].status = "ready"
                /\ p[m].deps \subseteq Completed(t0)
  BY <1>1, SolvedFields
<1>5. t.dag = p /\ t.tasks = t0.tasks /\ t.reports = t0.reports /\ t.terminal = t0.terminal
      /\ t0.dag = p /\ t.decisions = t0.decisions
  BY <1>1, <1>4, CommittedFields
<1> HIDE DEF t
<1>6. Completed(t) = Completed(t0) /\ (Blocked(t) <=> Blocked(t0))
  BY <1>5 DEF Completed, Blocked
<1>7. Completed(s) \subseteq Completed(t)
  BY <1>1, <1>4, <1>5, <1>6 DEF Completed, p
<1>8. ReadyIsReady(t)
  BY <1>1, <1>4, <1>5, <1>6, <1>7 DEF ReadyIsReady, p
<1>9. ASSUME ~ Blocked(t)
      PROVE  Cardinality(Done(t)) = Cardinality(Done(s)) + 1
  <2>1. Done(t) = Done(s) \cup {n} /\ n \notin Done(s)
    BY <1>1, <1>4, <1>5, <1>6, <1>9 DEF Done, p
  <2>2. IsFiniteSet(Done(s))
    BY <1>1, DoneIsSmall
  <2>3. QED BY <2>1, <2>2, FS_AddElement
<1>10. Route(t0) = Route(t)
  BY <1>5, <1>6 DEF Route, ReadyAt, Ready, Publishable
<1>11. QED BY <1>1, <1>2, <1>3, <1>4, <1>5, <1>6, <1>8, <1>9, <1>10 DEF t, p

-----------------------------------------------------------------------------
(* The steps *)

\* What a step does to the row: nothing, or one operation of the harness.
RowMoves ==
  \/ UNCHANGED run
  \/ run = None /\ \E p \in Opening : run' = Begun(p)
  \/ run # None /\ Step(run, run') /\ run'.decisions >= run.decisions

\* The driver's invariant holds at the start.
LEMMA InvInit == Init => Inv
BY DEF Init, Inv, RowInv, CopyInv, PhaseInv, EndsForAReason, Nodes, Ends

\* A dispatch or a publication does not count as a decision.
LEMMA NoDecision ==
  ASSUME NEW s, IsRun(s), NEW t, t.decisions = s.decisions
  PROVE  t.decisions >= s.decisions
BY RunFields

\* A run begins: nothing is done, and nothing has been executed.
LEMMA StartKeeps ==
  ASSUME Inv, Start
  PROVE  Inv' /\ RowMoves
<1>1. PICK p \in Opening : run' = Begun(p) /\ copy' = Begun(p)
  BY DEF Start
<1>2. run = None /\ steps' = 0 /\ phase' = "dispatch"
  BY DEF Start, Inv, PhaseInv
<1> DEFINE b == Begun(p)
<1>3. p \in Plan /\ IsRun(b) /\ NoneStranded(b) /\ AllDone(b) /\ b.version = 1
      /\ p \in Opening /\ b.dag = p /\ b.terminal = FALSE
      /\ \A n \in DOMAIN p : b.tasks[n].status = "ready" => p[n].deps = {}
  BY PlanAssumption, BegunKeeps DEF Begun
<1> HIDE DEF b
<1>4. Good(b) /\ ReadyIsReady(b)
  BY <1>3 DEF Good, ReadyIsReady
<1>5. b # None
  BY <1>3, RunFields, NoneAssumption
<1>6. Cardinality(Done(b)) \in Nat
  BY <1>3, DoneIsSmall
<1>7. run' = b /\ copy' = b
  BY <1>1 DEF b
<1>8. RowInv' /\ CopyInv'
  BY <1>3, <1>4, <1>5, <1>7 DEF RowInv, CopyInv
<1>9. PhaseInv' /\ EndsForAReason'
  BY <1>2, <1>3, <1>5, <1>6, <1>7 DEF PhaseInv, EndsForAReason, Nodes, Ends
<1>10. RowMoves
  BY <1>1, <1>2 DEF RowMoves
<1>11. QED BY <1>8, <1>9, <1>10 DEF Inv

\* The copy that is saved is the row, which it replaces.
LEMMA SaveKeepsRow ==
  ASSUME Inv, copy # None, NEW t, NEW next, Saves(t, next), IsCurrent,
         Step(copy, Committed(t)), Committed(t).decisions = copy.decisions
  PROVE  /\ RowInv' /\ RowMoves /\ run' = copy' /\ copy' = Committed(t)
         /\ run' # None /\ phase' = next
<1>1. run = copy /\ run # None /\ Good(copy)
  BY DEF Inv, CopyInv, IsCurrent
<1>2. run' = Committed(t) /\ copy' = Committed(t) /\ phase' = next
  BY DEF Saves
<1>3. Good(Committed(t))
  BY <1>1, StepKeeps DEF Good
<1>4. Committed(t) # None
  BY <1>3, RunFields, NoneAssumption DEF Good
<1>5. RowMoves
  BY <1>1, <1>2, NoDecision DEF RowMoves, Good
<1>6. QED BY <1>2, <1>3, <1>4, <1>5 DEF RowInv

\* What ends the graph with an exception, at the limit or with the process.
LEMMA RaiseKeeps ==
  ASSUME Inv, UNCHANGED <<run, copy>>, steps' \in Nat,
         phase' = "raised" \/ phase' = "died", phase' = "died" \/ copy # None
  PROVE  Inv' /\ RowMoves
BY DEF Inv, RowInv, CopyInv, PhaseInv, EndsForAReason, RowMoves, Nodes, Ends

\* Where a copy that is not published goes.
LEMMA RouteOfOpen ==
  ASSUME NEW s, ~s.terminal
  PROVE  /\ Route(s) \in {"dispatch", "compose", "stopped"}
         /\ Route(s) = "dispatch" => ReadyAt(s) # {}
         /\ Route(s) = "compose" => Publishable(s)
         /\ Route(s) = "stopped" => ReadyAt(s) = {} /\ ~ Publishable(s)
BY DEF Route

\* A node that dispatches: nothing, or the first of the ready.
LEMMA DispatchKeeps ==
  ASSUME Inv, Dispatch
  PROVE  Inv' /\ RowMoves
<1>1. /\ phase = "dispatch" /\ copy # None /\ steps \in Nat /\ steps' = steps + 1
      /\ Good(copy) /\ copy.dag \in Opening /\ ReadyIsReady(copy) /\ ~copy.terminal
      /\ run # None /\ copy.version <= run.version /\ RowInv
      /\ copy.version = run.version => copy = run
      /\ Blocked(copy) \/ steps <= Cardinality(Done(copy))
  BY DEF Dispatch, Goes, Inv, CopyInv, PhaseInv, Nodes
<1>2. CASE ReadyAt(copy) = {} /\ phase' = Route(copy) /\ UNCHANGED <<run, copy>>
  <2>1. \/ phase' = "compose" /\ Publishable(copy)
        \/ phase' = "stopped" /\ ~Publishable(copy)
    BY <1>1, <1>2, RouteOfOpen
  <2>2. phase' = "stopped" => \E n \in DOMAIN copy.dag : copy.tasks[n].status = "failed"
    BY <1>1, <1>2, <2>1, StoppedHasFailed
  <2>3. Cardinality(Done(copy)) \in Nat
    BY <1>1, DoneIsSmall DEF Good
  <2>4. RowInv' /\ CopyInv'
    BY <1>1, <1>2 DEF RowInv, CopyInv
  <2>5. Blocked(copy) \/ steps' <= Cardinality(Done(copy)) + 1
    BY <1>1, <2>3
  <2>6. PhaseInv'
    BY <1>1, <1>2, <2>1, <2>5 DEF PhaseInv, Nodes, Ends
  <2>7. EndsForAReason'
    BY <1>2, <2>1, <2>2 DEF EndsForAReason
  <2>8. QED BY <1>2, <2>4, <2>6, <2>7 DEF Inv, RowMoves
<1>3. CASE phase' = "raised" /\ UNCHANGED <<run, copy>>
  BY <1>1, <1>3, RaiseKeeps
<1>4. ASSUME NEW n, Ready(copy, n), NEW t0, SolvedAs(copy, n, t0), Saves(t0, Route(t0)), IsCurrent
      PROVE  Inv' /\ RowMoves
  <2> DEFINE t == Committed(t0)
  <2>1. /\ Good(t) /\ t.dag = copy.dag /\ ReadyIsReady(t) /\ ~t.terminal
        /\ Step(copy, t) /\ t.decisions = copy.decisions
        /\ Blocked(copy) => Blocked(t)
        /\ Blocked(t) \/ Cardinality(Done(t)) = Cardinality(Done(copy)) + 1
        /\ Route(t0) = Route(t)
    BY <1>1, <1>4, SolvedKeeps
  <2>3. RowInv' /\ RowMoves /\ run' = copy' /\ copy' = t /\ run' # None /\ phase' = Route(t)
    BY <1>1, <1>4, <2>1, SaveKeepsRow
  <2> HIDE DEF t
  <2>4. CopyInv'
    <3>1. t.version \in Nat
      BY <2>1, RunFields DEF Good
    <3>2. QED BY <1>1, <2>1, <2>3, <3>1 DEF CopyInv
  <2>5. phase' = "stopped" => \E m \in DOMAIN t.dag : t.tasks[m].status = "failed"
    BY <1>1, <2>1, <2>3, RouteOfOpen, StoppedHasFailed
  <2>6. Cardinality(Done(copy)) \in Nat /\ Cardinality(Done(t)) \in Nat
    BY <1>1, <2>1, DoneIsSmall DEF Good
  <2>7. Blocked(t) \/ steps' <= Cardinality(Done(t))
    BY <1>1, <2>1, <2>6
  <2>8. phase' \in {"dispatch", "compose", "stopped"} /\ (phase' = "compose" => Publishable(t))
    BY <2>1, <2>3, RouteOfOpen
  <2>9. PhaseInv'
    BY <1>1, <2>1, <2>3, <2>6, <2>7, <2>8 DEF PhaseInv, Nodes, Ends
  <2>10. EndsForAReason'
    BY <2>3, <2>5, <2>8 DEF EndsForAReason
  <2>11. QED BY <2>3, <2>4, <2>9, <2>10 DEF Inv
<1>5. ASSUME ReadyAt(copy) # {},
             NEW t0 \in {Reported(copy, FirstReady(copy), outcome, Basis(copy, FirstReady(copy))) :
                           outcome \in Outcome} \cup {Attempted(copy, FirstReady(copy), "failed")},
             Saves(t0, Route(t0))
      PROVE  Inv' /\ RowMoves
  <2>1. Ready(copy, FirstReady(copy)) /\ SolvedAs(copy, FirstReady(copy), t0)
    BY <1>1, <1>5, FirstIsReady DEF Good, SolvedAs
  <2>2. CASE IsCurrent
    BY <1>4, <1>5, <2>1, <2>2
  <2>3. CASE ~IsCurrent
    <3>1. phase' = "raised" /\ UNCHANGED <<run, copy>>
      BY <1>5, <2>3 DEF Saves
    <3>2. QED BY <1>1, <3>1, RaiseKeeps
  <2>4. QED BY <2>2, <2>3
<1>6. QED BY <1>2, <1>3, <1>5 DEF Dispatch

\* The publication of the paper.
LEMMA ComposeKeeps ==
  ASSUME Inv, Compose
  PROVE  Inv' /\ RowMoves
<1>1. /\ phase = "compose" /\ copy # None /\ steps \in Nat /\ steps' = steps + 1
      /\ Good(copy) /\ copy.dag \in Opening /\ ReadyIsReady(copy) /\ Publishable(copy)
      /\ run # None
  BY DEF Compose, Goes, Inv, CopyInv, PhaseInv
<1>2. CASE phase' = "raised" /\ UNCHANGED <<run, copy>>
  BY <1>1, <1>2, RaiseKeeps
<1>3. ASSUME Saves(Published(copy), "render"), IsCurrent
      PROVE  Inv' /\ RowMoves
  <2> DEFINE t0 == Published(copy)
             p == copy.dag
  <2>1. p \in Plan /\ copy \in RunOf(p) /\ IsPlan(p)
    BY <1>1, RunFields DEF Good
  <2>2. t0 \in RunOf(p) /\ t0.dag = p /\ t0.terminal = TRUE /\ t0.decisions = copy.decisions
        /\ \A m \in DOMAIN p :
             t0.tasks[m].status = IF m = Terminal THEN "completed" ELSE copy.tasks[m].status
    <3>1. p \in Plan /\ copy \in RunOf(p)
      BY <2>1
    <3> HIDE DEF p
    <3>2. t0 \in RunOf(p) /\ t0.dag = p /\ t0.terminal = TRUE /\ t0.decisions = copy.decisions
          /\ \A m \in DOMAIN p :
               /\ t0.tasks[m].status = IF m = Terminal THEN "completed" ELSE copy.tasks[m].status
               /\ t0.tasks[m].attempts = copy.tasks[m].attempts
      BY <3>1, PublishedFields
    <3> HIDE DEF t0
    <3>3. QED BY <3>2
  <2> DEFINE t == Committed(t0)
  <2>3. Step(copy, t)
    BY <1>1 DEF Step
  <2>4. Good(t)
    BY <1>1, <2>3, StepKeeps DEF Good
  <2> HIDE DEF p, t0
  <2>5. t.dag = p /\ t.tasks = t0.tasks /\ t.terminal = TRUE /\ t.decisions = copy.decisions
    BY <2>1, <2>2, CommittedFields
  <2>6. Saves(t0, "render")
    BY <1>3 DEF t0
  <2>7. RowInv' /\ RowMoves /\ run' = copy' /\ copy' = t /\ run' # None /\ phase' = "render"
    BY <1>1, <1>3, <2>3, <2>5, <2>6, SaveKeepsRow
  <2> HIDE DEF t
  <2>8. ReadyIsReady(t)
    BY <1>1, <2>2, <2>5 DEF ReadyIsReady, Publishable, Completed, p
  <2>9. t.version \in Nat
    BY <2>4, RunFields DEF Good
  <2>10. CopyInv'
    BY <1>1, <2>4, <2>5, <2>7, <2>8, <2>9 DEF CopyInv, p
  <2>11. PhaseInv' /\ EndsForAReason'
    BY <1>1, <2>5, <2>7 DEF PhaseInv, EndsForAReason, Nodes, Ends
  <2>12. QED BY <2>7, <2>10, <2>11 DEF Inv
<1>4. CASE Saves(Published(copy), "render")
  <2>1. CASE IsCurrent
    BY <1>3, <1>4, <2>1
  <2>2. CASE ~IsCurrent
    <3>1. phase' = "raised" /\ UNCHANGED <<run, copy>>
      BY <1>4, <2>2 DEF Saves
    <3>2. QED BY <1>1, <3>1, RaiseKeeps
  <2>3. QED BY <2>1, <2>2
<1>5. QED BY <1>2, <1>4 DEF Compose

\* The limit is not reached unless a problem was blocked.
LEMMA RunsOutKeeps ==
  ASSUME Inv, RunsOut
  PROVE  Inv' /\ RowMoves
<1>1. /\ phase \in Nodes /\ copy # None /\ steps \in Nat /\ Good(copy)
      /\ steps = Limit(copy.dag)
      /\ Blocked(copy) \/ steps <= Cardinality(Done(copy)) + 1
  <2>1. /\ phase \in Nodes /\ copy # None /\ steps \in Nat /\ Good(copy)
        /\ steps = Limit(copy.dag)
        /\ phase = "dispatch" => Blocked(copy) \/ steps <= Cardinality(Done(copy))
        /\ phase = "compose" => Blocked(copy) \/ steps <= Cardinality(Done(copy)) + 1
    BY DEF RunsOut, Inv, CopyInv, PhaseInv, Nodes
  <2>2. Cardinality(Done(copy)) \in Nat
    BY <2>1, DoneIsSmall DEF Good
  <2>3. QED BY <2>1, <2>2 DEF Nodes
<1>2. Blocked(copy)
  <2> DEFINE d == Cardinality(Done(copy))
             c == Cardinality(DOMAIN copy.dag)
             limit == Limit(copy.dag)
  <2>1. d \in Nat /\ c \in Nat /\ d <= c /\ limit \in Nat /\ c + 1 < limit
    BY <1>1, DoneIsSmall, LimitIsEnough DEF Good
  <2>2. Blocked(copy) \/ limit <= d + 1
    BY <1>1
  <2> HIDE DEF d, c, limit
  <2>3. QED BY <2>1, <2>2
<1>3. QED
  BY <1>1, <1>2
     DEF RunsOut, Inv, RowInv, CopyInv, PhaseInv, EndsForAReason, RowMoves, Nodes, Ends, Blocked

\* What is rendered is the published row.
LEMMA RenderKeeps ==
  ASSUME Inv, Render
  PROVE  Inv' /\ RowMoves
<1>1. UNCHANGED <<run, copy, steps>> /\ phase = "render" /\ phase' \in {"rendered", "raised"}
  BY DEF Render
<1>2. copy # None /\ copy.terminal /\ run = copy /\ steps \in Nat
  BY <1>1 DEF Inv, PhaseInv, EndsForAReason
<1>3. PhaseInv' /\ EndsForAReason'
  BY <1>1, <1>2 DEF PhaseInv, EndsForAReason, Nodes, Ends
<1>4. RowInv' /\ CopyInv'
  BY <1>1 DEF Inv, RowInv, CopyInv
<1>5. QED BY <1>1, <1>3, <1>4 DEF Inv, RowMoves

\* A decision, and how many were made.
LEMMA DecisionCounts ==
  ASSUME NEW s, IsRun(s), NEW t,
         \/ \E n \in DOMAIN s.dag : t = Committed(RolledBack(s, n))
         \/ \E p \in Plan : t = Committed(Replanned(s, p))
  PROVE  t.decisions >= s.decisions
<1>1. s \in RunOf(s.dag) /\ s.dag \in Plan /\ s.decisions \in Nat /\ s.version \in Nat
  BY RunFields
<1>2. DOMAIN s = {"dag", "tasks", "reports", "decisions", "terminal", "version"}
  BY <1>1 DEF RunOf
<1>3. \A n : Committed(RolledBack(s, n)).decisions = s.decisions + 1
  BY <1>1, <1>2 DEF Committed, RolledBack, RunOf
<1>4. \A p : Committed(Replanned(s, p)).decisions = s.decisions + 1
  BY <1>1, <1>2 DEF Committed, Replanned, RunOf
<1>5. QED BY <1>1, <1>3, <1>4

\* An operator's decision makes the copy an earlier version; it is made over a
\* run that is not published.
LEMMA DecideKeeps ==
  ASSUME Inv, Decide
  PROVE  Inv' /\ RowMoves
<1>1. run # None /\ ~run.terminal /\ Good(run) /\ UNCHANGED <<copy, phase, steps>>
      /\ copy # None
      /\ \/ \E n \in DOMAIN run.dag : run' = Committed(RolledBack(run, n))
         \/ \E p \in Plan : run' = Committed(Replanned(run, p))
  BY DEF Decide, MayDecide, Inv, RowInv, PhaseInv
<1>2. Step(run, run')
  BY <1>1 DEF Step
<1>3. Good(run') /\ run'.version = run.version + 1
  BY <1>1, <1>2, StepKeeps DEF Good
<1>4. run'.decisions >= run.decisions
  BY <1>1, DecisionCounts DEF Good
<1>5. run' # None
  BY <1>3, RunFields, NoneAssumption DEF Good
<1>6. run.version \in Nat /\ copy.version \in Nat
  BY <1>1, RunFields DEF Good, Inv, CopyInv
<1>7. RowInv' /\ CopyInv'
  BY <1>1, <1>3, <1>5, <1>6 DEF Inv, RowInv, CopyInv
<1>8. PhaseInv'
  BY <1>1, <1>5 DEF Inv, PhaseInv
<1>9. EndsForAReason'
  <2>1. phase \notin {"render", "rendered"}
    BY <1>1 DEF Inv, EndsForAReason
  <2>2. QED BY <1>1, <2>1 DEF Inv, EndsForAReason
<1>10. QED BY <1>1, <1>2, <1>4, <1>7, <1>8, <1>9 DEF Inv, RowMoves

\* A driver dies.
LEMMA CrashKeeps ==
  ASSUME Inv, Crash
  PROVE  Inv' /\ RowMoves
<1>1. UNCHANGED <<run, copy>> /\ steps' \in Nat /\ phase' = "died"
  BY DEF Crash, Inv, PhaseInv
<1>2. QED BY <1>1, RaiseKeeps

\* A step of the driver, or of anyone else.
LEMMA NextKeeps ==
  ASSUME Inv, Next
  PROVE  Inv' /\ RowMoves
BY StartKeeps, DispatchKeeps, ComposeKeeps, RunsOutKeeps, RenderKeeps, DecideKeeps, CrashKeeps
   DEF Next, DriverStep

\* And where nothing changes.
LEMMA StutterKeeps ==
  ASSUME Inv, UNCHANGED vars
  PROVE  Inv'
BY DEF vars, Inv, RowInv, CopyInv, PhaseInv, EndsForAReason, MayDecide

\* The inductive invariant holds.
THEOREM DriverInvariant == Spec => []Inv
<1>1. Init => Inv
  BY InvInit
<1>2. Inv /\ [Next]_vars => Inv'
  BY NextKeeps, StutterKeeps
<1>3. QED BY <1>1, <1>2, PTL DEF Spec

-----------------------------------------------------------------------------
(* Theorems *)

\* Row and copy are states of a run.
THEOREM DriverTypes == Spec => []TypeOK
<1>1. Inv => TypeOK
  BY DEF Inv, RowInv, CopyInv, PhaseInv, TypeOK, Good
<1>2. QED BY <1>1, DriverInvariant, PTL

\* How a driver ends is true of the run it leaves, for any plans without cycles,
\* any max_iterations and any decisions of the operator: in particular the
\* recursion limit cuts no run in which no problem was blocked.
THEOREM DriverEndsForAReason == Spec => []EndsForAReason
<1>1. Inv => EndsForAReason
  BY DEF Inv
<1>2. QED BY <1>1, DriverInvariant, PTL

\* The copy of the graph overwrites no decision of the operator.
THEOREM DriverKeepsDecisions == Spec => DecisionsStand
<1>1. Inv /\ [Next]_vars =>
        [run # None =>
           /\ run'.version = run.version + 1 /\ run'.decisions >= run.decisions
           /\ Len(run'.reports) >= Len(run.reports)
           /\ SubSeq(run'.reports, 1, Len(run.reports)) = run.reports]_run
  <2> SUFFICES ASSUME Inv, Next, run # None, ~ UNCHANGED run
               PROVE  /\ run'.version = run.version + 1 /\ run'.decisions >= run.decisions
                      /\ Extends(run', run)
    BY DEF Extends, vars
  <2>1. Step(run, run') /\ run'.decisions >= run.decisions
    BY NextKeeps DEF RowMoves
  <2>2. Good(run)
    BY DEF Inv, RowInv
  <2>3. QED BY <2>1, <2>2, StepKeeps DEF Good
<1>2. QED BY <1>1, DriverInvariant, PTL DEF Spec, DecisionsStand

\* The abstract module speaks of the same operations.
LEMMA SameOperations ==
  ASSUME NEW s, NEW n, NEW p, NEW outcome, NEW basis, NEW status
  PROVE  /\ Lifecycle!Begun(p) = Begun(p) /\ (Lifecycle!Ready(s, n) <=> Ready(s, n))
         /\ Lifecycle!Committed(s) = Committed(s)
         /\ Lifecycle!Attempted(s, n, status) = Attempted(s, n, status)
         /\ Lifecycle!Reported(s, n, outcome, basis) = Reported(s, n, outcome, basis)
         /\ (Lifecycle!Publishable(s) <=> Publishable(s))
         /\ Lifecycle!Published(s) = Published(s)
         /\ Lifecycle!RolledBack(s, n) = RolledBack(s, n)
         /\ Lifecycle!Replanned(s, p) = Replanned(s, p)
<1> USE DEF Lifecycle!Completed, Completed
<1>1. Lifecycle!Begun(p) = Begun(p)
  BY DEF Lifecycle!Begun, Begun
<1>2. /\ Lifecycle!Ready(s, n) <=> Ready(s, n)
      /\ Lifecycle!Publishable(s) <=> Publishable(s)
  BY DEF Lifecycle!Ready, Ready, Lifecycle!Publishable, Publishable
<1>3. /\ Lifecycle!Committed(s) = Committed(s) /\ Lifecycle!Published(s) = Published(s)
      /\ Lifecycle!Attempted(s, n, status) = Attempted(s, n, status)
  BY DEF Lifecycle!Committed, Committed, Lifecycle!Published, Published,
         Lifecycle!Attempted, Attempted
<1>4. Lifecycle!Reported(s, n, outcome, basis) = Reported(s, n, outcome, basis)
  BY DEF Lifecycle!Reported, Reported, Lifecycle!Unlock, Unlock, Lifecycle!WithReport,
         WithReport, Lifecycle!Attempted, Attempted
<1>5. Lifecycle!RolledBack(s, n) = RolledBack(s, n)
  BY DEF Lifecycle!RolledBack, RolledBack, Lifecycle!Affected, Affected,
         Lifecycle!ClosedUnder, ClosedUnder
<1>6. Lifecycle!Replanned(s, p) = Replanned(s, p)
  BY DEF Lifecycle!Replanned, Replanned, Lifecycle!Kept, Kept
<1>7. QED BY <1>1, <1>2, <1>3, <1>4, <1>5, <1>6

\* The driver and the operator beside it do to the row what one client would do.
THEOREM DriverImplementsRun == Spec => ImplementsRun
<1>1. Init => Lifecycle!Init
  BY DEF Init, Lifecycle!Init
<1>2. ASSUME Step(run, run'), run # None PROVE Lifecycle!Next
  <2>1. ASSUME NEW n \in DOMAIN run.dag, Ready(run, n),
               run' = Committed(Attempted(run, n, "failed"))
        PROVE  Lifecycle!SolveFails(n)
    BY <2>1, SameOperations DEF Lifecycle!SolveFails, Lifecycle!Become
  <2>2. ASSUME NEW n \in DOMAIN run.dag, Ready(run, n), NEW outcome \in Outcome,
               NEW basis \in SUBSET DOMAIN run.reports,
               run' = Committed(Reported(run, n, outcome, basis))
        PROVE  Lifecycle!SolveReports(n)
    BY <2>2, SameOperations DEF Lifecycle!SolveReports, Lifecycle!Become
  <2>3. ASSUME Publishable(run), run' = Committed(Published(run)) PROVE Lifecycle!Publish
    BY <2>3, SameOperations DEF Lifecycle!Publish, Lifecycle!Become
  <2>4. ASSUME NEW n \in DOMAIN run.dag, ~run.terminal, run' = Committed(RolledBack(run, n))
        PROVE  Lifecycle!Rollback(n)
    BY <2>4, SameOperations DEF Lifecycle!Rollback, Lifecycle!Become
  <2>5. ASSUME NEW p \in Plan, ~run.terminal, run' = Committed(Replanned(run, p))
        PROVE  Lifecycle!Replan(p)
    BY <2>5, SameOperations DEF Lifecycle!Replan, Lifecycle!Become
  <2>6. QED BY <1>2, <2>1, <2>2, <2>3, <2>4, <2>5 DEF Step, Lifecycle!Next
<1>3. Inv /\ [Next]_vars => [Lifecycle!Next]_run
  <2> SUFFICES ASSUME Inv, Next PROVE UNCHANGED run \/ Lifecycle!Next
    BY DEF vars
  <2>1. RowMoves
    BY NextKeeps
  <2>2. CASE run = None /\ \E p \in Opening : run' = Begun(p)
    BY <2>2, SameOperations DEF Lifecycle!Next, Lifecycle!Start
  <2>3. QED BY <1>2, <2>1, <2>2 DEF RowMoves
<1>4. QED BY <1>1, <1>3, DriverInvariant, PTL DEF Spec, ImplementsRun, Lifecycle!Spec
=============================================================================
