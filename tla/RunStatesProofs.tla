--------------------------- MODULE RunStatesProofs ---------------------------
(***************************************************************************)
(* What the operations of the Main Harness do to a state, for any plan.    *)
(***************************************************************************)
EXTENDS RunStates, SequenceTheorems, TLAPS

-----------------------------------------------------------------------------
(* The operations, field by field *)

\* What a state consists of.
LEMMA RunFields ==
  ASSUME NEW s, IsRun(s)
  PROVE  /\ s.dag \in Plan /\ IsPlan(s.dag)
         /\ s.tasks \in [DOMAIN s.dag -> Task]
         /\ s.reports \in Seq(Report) /\ s.decisions \in Nat
         /\ s.terminal \in BOOLEAN /\ s.version \in Nat \ {0}
         /\ Len(s.reports) < s.version
         /\ \A n \in DOMAIN s.dag : s.tasks[n].attempts < s.version
         /\ s \in RunOf(s.dag)
<1>1. PICK p \in Plan : s \in RunOf(p)
  BY DEF IsRun
<1>2. s.dag = p
  BY <1>1 DEF RunOf
<1> QED
  BY <1>1, <1>2, PlanAssumption DEF IsRun, RunOf

\* Anything with these fields is a state.
LEMMA MakeRun ==
  ASSUME NEW p \in Plan, NEW s \in RunOf(p), Len(s.reports) < s.version,
         \A n \in DOMAIN p : s.tasks[n].attempts < s.version
  PROVE  IsRun(s)
<1>1. s.dag = p
  BY DEF RunOf
<1> QED
  BY <1>1 DEF IsRun

\* A commit changes the version only.
LEMMA CommittedFields ==
  ASSUME NEW p \in Plan, NEW s \in RunOf(p)
  PROVE  /\ Committed(s) \in RunOf(p)
         /\ Committed(s).version = s.version + 1
         /\ Committed(s).dag = s.dag /\ Committed(s).tasks = s.tasks
         /\ Committed(s).reports = s.reports /\ Committed(s).decisions = s.decisions
         /\ Committed(s).terminal = s.terminal
BY DEF Committed, RunOf

\* An attempt changes its task, not its neighbours.
LEMMA AttemptedFields ==
  ASSUME NEW p \in Plan, NEW s \in RunOf(p), NEW n \in DOMAIN p, NEW status \in Status
  PROVE  LET t == Attempted(s, n, status) IN
         /\ t \in RunOf(p)
         /\ t.dag = p /\ t.reports = s.reports /\ t.decisions = s.decisions
         /\ t.terminal = s.terminal /\ t.version = s.version
         /\ \A m \in DOMAIN p :
              /\ t.tasks[m].status = IF m = n THEN status ELSE s.tasks[m].status
              /\ t.tasks[m].attempts = IF m = n THEN s.tasks[n].attempts + 1 ELSE s.tasks[m].attempts
<1>1. s.dag = p /\ s.tasks \in [DOMAIN p -> Task]
  BY DEF RunOf
<1> DEFINE task == [status |-> status, attempts |-> s.tasks[n].attempts + 1]
<1>2. task \in Task /\ task.status = status /\ task.attempts = s.tasks[n].attempts + 1
  BY <1>1 DEF Task
<1>3. Attempted(s, n, status) = [s EXCEPT !.tasks = [s.tasks EXCEPT ![n] = task]]
  BY DEF Attempted
<1> HIDE DEF task
<1>4. /\ Attempted(s, n, status) \in RunOf(p)
      /\ Attempted(s, n, status).dag = p /\ Attempted(s, n, status).reports = s.reports
      /\ Attempted(s, n, status).decisions = s.decisions
      /\ Attempted(s, n, status).terminal = s.terminal
      /\ Attempted(s, n, status).version = s.version
      /\ Attempted(s, n, status).tasks = [s.tasks EXCEPT ![n] = task]
  BY <1>1, <1>2, <1>3 DEF RunOf
<1> QED
  BY <1>1, <1>2, <1>4

\* Unlocking makes blocked tasks ready, and completes none.
LEMMA UnlockFields ==
  ASSUME NEW p \in Plan, NEW s \in RunOf(p)
  PROVE  /\ Unlock(s) \in RunOf(p)
         /\ Unlock(s).dag = p /\ Unlock(s).reports = s.reports
         /\ Unlock(s).decisions = s.decisions
         /\ Unlock(s).terminal = s.terminal /\ Unlock(s).version = s.version
         /\ \A m \in DOMAIN p :
              /\ Unlock(s).tasks[m].attempts = s.tasks[m].attempts
              /\ Unlock(s).tasks[m].status =
                   IF s.tasks[m].status = "blocked" /\ p[m].deps \subseteq Completed(s)
                   THEN "ready" ELSE s.tasks[m].status
         /\ Completed(Unlock(s)) = Completed(s)
<1> DEFINE Task1(m) ==
      IF s.tasks[m].status = "blocked" /\ s.dag[m].deps \subseteq Completed(s)
      THEN [s.tasks[m] EXCEPT !.status = "ready"] ELSE s.tasks[m]
           tasks == [m \in DOMAIN s.dag |-> Task1(m)]
<1>1. s.dag = p /\ s.tasks \in [DOMAIN p -> Task]
  BY DEF RunOf
<1>2. \A m \in DOMAIN p : /\ Task1(m) \in Task
                          /\ Task1(m).attempts = s.tasks[m].attempts
                          /\ Task1(m).status =
                               IF s.tasks[m].status = "blocked" /\ p[m].deps \subseteq Completed(s)
                               THEN "ready" ELSE s.tasks[m].status
  <2> SUFFICES ASSUME NEW m \in DOMAIN p
               PROVE  /\ Task1(m) \in Task
                      /\ Task1(m).attempts = s.tasks[m].attempts
                      /\ Task1(m).status =
                           IF s.tasks[m].status = "blocked" /\ p[m].deps \subseteq Completed(s)
                           THEN "ready" ELSE s.tasks[m].status
    OBVIOUS
  <2>1. s.tasks[m] \in Task
    BY <1>1
  <2> QED
    BY <1>1, <2>1 DEF Task, Status
<1> HIDE DEF Task1
<1>3. tasks \in [DOMAIN p -> Task]
  BY <1>1, <1>2
<1>4. Unlock(s) = [s EXCEPT !.tasks = tasks]
  BY DEF Unlock, Task1
<1> HIDE DEF tasks
<1>5. /\ Unlock(s) \in RunOf(p)
      /\ Unlock(s).dag = p /\ Unlock(s).reports = s.reports
      /\ Unlock(s).decisions = s.decisions
      /\ Unlock(s).terminal = s.terminal /\ Unlock(s).version = s.version
      /\ Unlock(s).tasks = tasks
  BY <1>1, <1>3, <1>4 DEF RunOf
<1>6. \A m \in DOMAIN p : tasks[m] = Task1(m)
  BY <1>1 DEF tasks
<1>7. Completed(Unlock(s)) = Completed(s)
  BY <1>1, <1>2, <1>5, <1>6 DEF Completed
<1> QED
  BY <1>2, <1>5, <1>6, <1>7

\* A report is added behind the others.
LEMMA WithReportFields ==
  ASSUME NEW p \in Plan, NEW s \in RunOf(p), NEW n \in Id,
         NEW outcome \in Outcome, NEW basis \in SUBSET Nat
  PROVE  LET t == WithReport(s, n, outcome, basis) IN
         /\ t \in RunOf(p)
         /\ t.dag = p /\ t.tasks = s.tasks /\ t.decisions = s.decisions
         /\ t.terminal = s.terminal /\ t.version = s.version
         /\ t.reports = Append(s.reports, [task |-> n, outcome |-> outcome, basis |-> basis])
<1> DEFINE r == [task |-> n, outcome |-> outcome, basis |-> basis]
<1>1. s.reports \in Seq(Report) /\ r \in Report
  BY DEF RunOf, Report
<1>2. Append(s.reports, r) \in Seq(Report)
  BY <1>1
<1>3. WithReport(s, n, outcome, basis) = [s EXCEPT !.reports = Append(s.reports, r)]
  BY DEF WithReport
<1> HIDE DEF r
<1>4. WithReport(s, n, outcome, basis).reports = Append(s.reports, r)
  BY <1>2, <1>3 DEF RunOf
<1>5. /\ WithReport(s, n, outcome, basis) \in RunOf(p)
      /\ WithReport(s, n, outcome, basis).dag = p
      /\ WithReport(s, n, outcome, basis).tasks = s.tasks
      /\ WithReport(s, n, outcome, basis).decisions = s.decisions
      /\ WithReport(s, n, outcome, basis).terminal = s.terminal
      /\ WithReport(s, n, outcome, basis).version = s.version
  BY <1>2, <1>3 DEF RunOf
<1> QED
  BY <1>4, <1>5 DEF r

\* A reported task, and the tasks its completion unlocks.
LEMMA ReportedFields ==
  ASSUME NEW p \in Plan, NEW s \in RunOf(p), NEW n \in DOMAIN p,
         NEW outcome \in Outcome, NEW basis \in SUBSET Nat
  PROVE  LET t == Reported(s, n, outcome, basis)
             a == Attempted(s, n, outcome) IN
         /\ t \in RunOf(p)
         /\ t.dag = p /\ t.decisions = s.decisions
         /\ t.terminal = s.terminal /\ t.version = s.version
         /\ t.reports = Append(s.reports, [task |-> n, outcome |-> outcome, basis |-> basis])
         /\ Completed(t) = Completed(a)
         /\ \A m \in DOMAIN p :
              /\ t.tasks[m].attempts = a.tasks[m].attempts
              /\ t.tasks[m].status =
                   IF a.tasks[m].status = "blocked" /\ p[m].deps \subseteq Completed(a)
                   THEN "ready" ELSE a.tasks[m].status
<1> DEFINE a == Attempted(s, n, outcome)
           w == WithReport(a, n, outcome, basis)
<1>1. n \in Id /\ outcome \in Status
  BY PlanAssumption, OutcomeAssumption DEF IsPlan, Answers, Status
<1>2. a \in RunOf(p) /\ a.dag = p /\ a.reports = s.reports /\ a.decisions = s.decisions
      /\ a.terminal = s.terminal /\ a.version = s.version
  BY <1>1, AttemptedFields
<1> HIDE DEF a
<1>3. /\ w \in RunOf(p)
      /\ w.dag = p /\ w.tasks = a.tasks /\ w.decisions = a.decisions
      /\ w.terminal = a.terminal /\ w.version = a.version
      /\ w.reports = Append(a.reports, [task |-> n, outcome |-> outcome, basis |-> basis])
  BY <1>1, <1>2, WithReportFields
<1> HIDE DEF w
<1>4. Completed(w) = Completed(a)
  BY <1>2, <1>3 DEF Completed
<1>5. Reported(s, n, outcome, basis) = Unlock(w)
  BY DEF Reported, w, a
<1>6. /\ Unlock(w) \in RunOf(p)
      /\ Unlock(w).dag = p /\ Unlock(w).reports = w.reports
      /\ Unlock(w).decisions = w.decisions
      /\ Unlock(w).terminal = w.terminal /\ Unlock(w).version = w.version
      /\ \A m \in DOMAIN p :
           /\ Unlock(w).tasks[m].attempts = w.tasks[m].attempts
           /\ Unlock(w).tasks[m].status =
                IF w.tasks[m].status = "blocked" /\ p[m].deps \subseteq Completed(w)
                THEN "ready" ELSE w.tasks[m].status
      /\ Completed(Unlock(w)) = Completed(w)
  BY <1>1, <1>3, UnlockFields
<1> QED
  BY <1>2, <1>3, <1>4, <1>5, <1>6 DEF a

\* Publication completes the terminal and no other task.
LEMMA PublishedFields ==
  ASSUME NEW p \in Plan, NEW s \in RunOf(p)
  PROVE  LET t == Published(s) IN
         /\ t \in RunOf(p)
         /\ t.dag = p /\ t.reports = s.reports /\ t.decisions = s.decisions
         /\ t.terminal = TRUE /\ t.version = s.version
         /\ \A m \in DOMAIN p :
              /\ t.tasks[m].status = IF m = Terminal THEN "completed" ELSE s.tasks[m].status
              /\ t.tasks[m].attempts = s.tasks[m].attempts
         /\ Terminal \in DOMAIN p
<1>1. s.dag = p /\ s.tasks \in [DOMAIN p -> Task] /\ Terminal \in DOMAIN p
  BY PlanAssumption DEF RunOf, IsPlan
<1> DEFINE task == [status |-> "completed", attempts |-> s.tasks[Terminal].attempts]
<1>2. s.tasks[Terminal] \in Task
  BY <1>1
<1>3. task \in Task /\ [s.tasks[Terminal] EXCEPT !.status = "completed"] = task
  BY <1>2 DEF Task, Status
<1>4. Published(s) = [s EXCEPT !.tasks = [s.tasks EXCEPT ![Terminal] = task], !.terminal = TRUE]
  BY <1>3 DEF Published
<1> HIDE DEF task
<1>5. [s.tasks EXCEPT ![Terminal] = task] \in [DOMAIN p -> Task]
  BY <1>1, <1>3
<1>6. /\ Published(s) \in RunOf(p)
      /\ Published(s).dag = p /\ Published(s).reports = s.reports
      /\ Published(s).decisions = s.decisions
      /\ Published(s).terminal = TRUE /\ Published(s).version = s.version
      /\ Published(s).tasks = [s.tasks EXCEPT ![Terminal] = task]
  BY <1>1, <1>4, <1>5 DEF RunOf
<1>7. \A m \in DOMAIN p :
        /\ Published(s).tasks[m].status = IF m = Terminal THEN "completed" ELSE s.tasks[m].status
        /\ Published(s).tasks[m].attempts = s.tasks[m].attempts
  BY <1>1, <1>6 DEF task
<1> QED
  BY <1>1, <1>6, <1>7

\* A rollback makes its task ready and blocks the tasks below it.
LEMMA RolledBackFields ==
  ASSUME NEW p \in Plan, NEW s \in RunOf(p), NEW n \in DOMAIN p
  PROVE  LET t == RolledBack(s, n) IN
         /\ t \in RunOf(p)
         /\ t.dag = p /\ t.reports = s.reports
         /\ t.terminal = s.terminal /\ t.version = s.version
         /\ \A m \in DOMAIN p :
              /\ t.tasks[m].attempts = s.tasks[m].attempts
              /\ t.tasks[m].status =
                   IF m \notin Affected(p, n) THEN s.tasks[m].status
                   ELSE IF m = n THEN "ready" ELSE "blocked"
<1> DEFINE Task1(m) ==
      IF m \notin Affected(s.dag, n) THEN s.tasks[m]
      ELSE [s.tasks[m] EXCEPT !.status = IF m = n THEN "ready" ELSE "blocked"]
           tasks == [m \in DOMAIN s.dag |-> Task1(m)]
<1>1. s.dag = p /\ s.tasks \in [DOMAIN p -> Task] /\ s.decisions \in Nat
  BY DEF RunOf
<1>2. \A m \in DOMAIN p :
        /\ Task1(m) \in Task
        /\ Task1(m).attempts = s.tasks[m].attempts
        /\ Task1(m).status = IF m \notin Affected(p, n) THEN s.tasks[m].status
                             ELSE IF m = n THEN "ready" ELSE "blocked"
  <2> SUFFICES ASSUME NEW m \in DOMAIN p
               PROVE  /\ Task1(m) \in Task
                      /\ Task1(m).attempts = s.tasks[m].attempts
                      /\ Task1(m).status = IF m \notin Affected(p, n) THEN s.tasks[m].status
                                           ELSE IF m = n THEN "ready" ELSE "blocked"
    OBVIOUS
  <2>1. s.tasks[m] \in Task
    BY <1>1
  <2> QED
    BY <1>1, <2>1 DEF Task, Status
<1>3. RolledBack(s, n) = [s EXCEPT !.tasks = tasks, !.decisions = s.decisions + 1]
  BY DEF RolledBack
<1> HIDE DEF Task1
<1>4. tasks \in [DOMAIN p -> Task] /\ \A m \in DOMAIN p : tasks[m] = Task1(m)
  BY <1>1, <1>2
<1> HIDE DEF tasks
<1>5. tasks \in [DOMAIN p -> Task] /\ s.decisions + 1 \in Nat
  BY <1>1, <1>4
<1>6. RolledBack(s, n) \in RunOf(p)
  BY <1>1, <1>3, <1>5 DEF RunOf
<1>7. /\ RolledBack(s, n).dag = p /\ RolledBack(s, n).reports = s.reports
      /\ RolledBack(s, n).terminal = s.terminal /\ RolledBack(s, n).version = s.version
      /\ RolledBack(s, n).tasks = tasks
  BY <1>1, <1>3, <1>5 DEF RunOf
<1> QED
  BY <1>2, <1>4, <1>6, <1>7

\* A new plan keeps the completed tasks it does not change; the others start over.
LEMMA ReplannedFields ==
  ASSUME NEW q \in Plan, NEW s \in RunOf(q), NEW p \in Plan
  PROVE  LET t == Replanned(s, p) IN
         /\ t \in RunOf(p)
         /\ t.dag = p /\ t.reports = s.reports
         /\ t.terminal = s.terminal /\ t.version = s.version
         /\ \A m \in DOMAIN p :
              /\ t.tasks[m].status =
                   IF m \in Kept(s, p) THEN s.tasks[m].status
                   ELSE IF p[m].deps \subseteq Kept(s, p) THEN "ready" ELSE "blocked"
              /\ t.tasks[m].attempts = IF m \in Kept(s, p) THEN s.tasks[m].attempts ELSE 0
<1> DEFINE Task1(m) ==
      IF m \in Kept(s, p) THEN s.tasks[m]
      ELSE [status |-> IF p[m].deps \subseteq Kept(s, p) THEN "ready" ELSE "blocked", attempts |-> 0]
           tasks == [m \in DOMAIN p |-> Task1(m)]
<1>1. s.dag = q /\ s.tasks \in [DOMAIN q -> Task] /\ s.decisions \in Nat
  BY DEF RunOf
<1>2. \A m \in DOMAIN p : Task1(m) \in Task
  BY <1>1 DEF Kept, Completed, Task, Status
<1>3. \A m \in DOMAIN p :
        /\ Task1(m).status =
             IF m \in Kept(s, p) THEN s.tasks[m].status
             ELSE IF p[m].deps \subseteq Kept(s, p) THEN "ready" ELSE "blocked"
        /\ Task1(m).attempts = IF m \in Kept(s, p) THEN s.tasks[m].attempts ELSE 0
  OBVIOUS
<1>4. Replanned(s, p) = [s EXCEPT !.dag = p, !.tasks = tasks, !.decisions = s.decisions + 1]
  BY DEF Replanned
<1> HIDE DEF Task1
<1>5. tasks \in [DOMAIN p -> Task] /\ \A m \in DOMAIN p : tasks[m] = Task1(m)
  BY <1>2
<1> HIDE DEF tasks
<1>6. tasks \in [DOMAIN p -> Task] /\ s.decisions + 1 \in Nat
  BY <1>1, <1>5
<1>7. Replanned(s, p) \in RunOf(p)
  BY <1>1, <1>4, <1>6 DEF RunOf
<1>8. /\ Replanned(s, p).dag = p /\ Replanned(s, p).reports = s.reports
      /\ Replanned(s, p).terminal = s.terminal /\ Replanned(s, p).version = s.version
      /\ Replanned(s, p).tasks = tasks
  BY <1>1, <1>4, <1>6 DEF RunOf
<1> QED
  BY <1>5, <1>7, <1>8, <1>3

-----------------------------------------------------------------------------
(* What the operations preserve *)

\* In a published run every task is completed.
AllDone(s) == s.terminal => DOMAIN s.dag \subseteq Completed(s)

\* From s to t a task loses its order only over a completed dependency that changed.
KeepsOrder(s, t) ==
  \A n \in OutOfOrder(t) \ OutOfOrder(s) :
    \E m \in t.dag[n].deps : m \in Completed(s) /\ t.dag[m] # s.dag[m]

\* An operation on s adds to its reports, and to nothing of it once published.
Extends(t, s) ==
  /\ Len(t.reports) >= Len(s.reports)
  /\ SubSeq(t.reports, 1, Len(s.reports)) = s.reports
  /\ s.terminal => t.tasks = s.tasks /\ t.terminal

\* What a state is, after a commit as before it.
LEMMA CommitKeeps ==
  ASSUME NEW p \in Plan, NEW t \in RunOf(p), Len(t.reports) <= t.version,
         \A n \in DOMAIN p : t.tasks[n].attempts <= t.version
  PROVE  /\ IsRun(Committed(t)) /\ Committed(t).version = t.version + 1
         /\ Completed(Committed(t)) = Completed(t)
         /\ \A s : KeepsOrder(s, t) => KeepsOrder(s, Committed(t))
         /\ NoneStranded(t) => NoneStranded(Committed(t))
         /\ AllDone(t) => AllDone(Committed(t))
         /\ \A s : Extends(t, s) => Extends(Committed(t), s)
<1> DEFINE c == Committed(t)
<1>1. /\ c \in RunOf(p) /\ c.version = t.version + 1 /\ c.dag = t.dag /\ c.tasks = t.tasks
      /\ c.reports = t.reports /\ c.terminal = t.terminal /\ t.dag = p
      /\ t.version \in Nat /\ Len(t.reports) \in Nat
      /\ \A n \in DOMAIN p : t.tasks[n].attempts \in Nat
  <2>1. t.dag = p /\ t.version \in Nat /\ t.reports \in Seq(Report) /\ t.tasks \in [DOMAIN p -> Task]
    BY DEF RunOf
  <2> QED
    BY <2>1, CommittedFields DEF Task
<1> HIDE DEF c
<1>2. IsRun(c)
  BY <1>1, MakeRun
<1>3. Completed(c) = Completed(t)
  BY <1>1 DEF Completed
<1>4. /\ NoneStranded(t) => NoneStranded(c)
      /\ AllDone(t) => AllDone(c)
  BY <1>1, <1>3 DEF NoneStranded, AllDone
<1>5. OutOfOrder(c) = OutOfOrder(t)
  BY <1>1, <1>3 DEF OutOfOrder
<1>6. \A s : KeepsOrder(s, t) => KeepsOrder(s, c)
  BY <1>1, <1>5 DEF KeepsOrder
<1>7. \A s : Extends(t, s) => Extends(c, s)
  BY <1>1 DEF Extends
<1> QED
  BY <1>1, <1>2, <1>3, <1>4, <1>6, <1>7 DEF c

\* A task that is ready is not completed, and the run is not published.
LEMMA ReadyIsOpen ==
  ASSUME NEW s, IsRun(s), AllDone(s), NEW n, Ready(s, n)
  PROVE  n \in DOMAIN s.dag /\ n \in Id /\ n \notin Completed(s) /\ ~s.terminal
<1>1. IsPlan(s.dag) /\ s.terminal \in BOOLEAN
  BY RunFields
<1> QED
  BY <1>1 DEF Ready, Completed, AllDone, IsPlan

\* Sequences keep what they had when something is appended, and when nothing is.
LEMMA AppendExtends ==
  ASSUME NEW q \in Seq(Report), NEW r \in Report
  PROVE  /\ Append(q, r) \in Seq(Report) /\ Len(Append(q, r)) = Len(q) + 1
         /\ SubSeq(Append(q, r), 1, Len(q)) = q
         /\ SubSeq(q, 1, Len(q)) = q
<1>1. Append(q, r) \in Seq(Report) /\ Len(Append(q, r)) = Len(q) + 1 /\ Len(q) \in Nat
  BY AppendProperties, LenProperties
<1>2. \A i \in 1..Len(q) : Append(q, r)[i] = q[i]
  BY AppendProperties
<1>3. SubSeq(q, 1, Len(q)) = q
  BY SubSeqFull
<1>4. SubSeq(Append(q, r), 1, Len(q)) = SubSeq(q, 1, Len(q))
  BY <1>1, <1>2
<1> QED
  BY <1>1, <1>3, <1>4

\* A run that has just begun.
LEMMA BegunKeeps ==
  ASSUME NEW p \in Plan
  PROVE  /\ IsRun(Begun(p)) /\ Begun(p).version = 1
         /\ OutOfOrder(Begun(p)) = {} /\ NoneStranded(Begun(p)) /\ AllDone(Begun(p))
         /\ Begun(p).reports = <<>>
<1> DEFINE tasks == [n \in DOMAIN p |->
             [status |-> IF p[n].deps = {} THEN "ready" ELSE "blocked", attempts |-> 0]]
<1>1. tasks \in [DOMAIN p -> Task]
  BY DEF Task, Status
<1>2. \A n \in DOMAIN p : /\ tasks[n].attempts = 0
                          /\ tasks[n].status = IF p[n].deps = {} THEN "ready" ELSE "blocked"
  OBVIOUS
<1>3. Begun(p) = [dag |-> p, tasks |-> tasks, reports |-> <<>>, decisions |-> 0,
                  terminal |-> FALSE, version |-> 1]
  BY DEF Begun
<1> HIDE DEF tasks
<1>4. <<>> \in Seq(Report) /\ Len(<<>>) = 0
  BY EmptySeq
<1>5. Begun(p) \in RunOf(p)
  BY <1>1, <1>3, <1>4 DEF RunOf
<1>6. IsRun(Begun(p))
  BY <1>2, <1>3, <1>4, <1>5, MakeRun
<1>7. Completed(Begun(p)) = {}
  BY <1>2, <1>3 DEF Completed
<1>8. OutOfOrder(Begun(p)) = {} /\ NoneStranded(Begun(p)) /\ AllDone(Begun(p))
  <2>1. Begun(p).dag = p /\ Begun(p).tasks = tasks /\ Begun(p).terminal = FALSE
    BY <1>3
  <2>2. OutOfOrder(Begun(p)) = {} /\ AllDone(Begun(p))
    BY <1>7, <2>1 DEF OutOfOrder, AllDone
  <2>3. \A n \in DOMAIN p : tasks[n].status = "blocked" => ~(p[n].deps \subseteq {})
    BY <1>2
  <2> QED
    BY <1>7, <2>1, <2>2, <2>3 DEF NoneStranded
<1>9. Begun(p).version = 1 /\ Begun(p).reports = <<>>
  BY <1>3
<1> QED
  BY <1>6, <1>8, <1>9

\* A dispatch that ends without a report.
LEMMA AttemptedKeeps ==
  ASSUME NEW s, IsRun(s), NoneStranded(s), AllDone(s), NEW n, Ready(s, n)
  PROVE  LET t == Committed(Attempted(s, n, "failed")) IN
         /\ IsRun(t) /\ NoneStranded(t) /\ AllDone(t) /\ Extends(t, s)
         /\ t.version = s.version + 1
         /\ KeepsOrder(s, t)
<1> DEFINE p == s.dag
           t == Attempted(s, n, "failed")
<1>1. p \in Plan /\ s \in RunOf(p) /\ s.reports \in Seq(Report) /\ s.version \in Nat \ {0}
      /\ Len(s.reports) < s.version /\ s.tasks \in [DOMAIN p -> Task]
      /\ \A m \in DOMAIN p : s.tasks[m].attempts \in Nat /\ s.tasks[m].attempts < s.version
  BY RunFields DEF Task
<1>2. n \in DOMAIN p /\ n \notin Completed(s) /\ ~s.terminal
  BY ReadyIsOpen
<1>3. "failed" \in Status
  BY DEF Status
<1> HIDE DEF p
<1>4. /\ t \in RunOf(p)
      /\ t.dag = p /\ t.reports = s.reports /\ t.decisions = s.decisions
      /\ t.terminal = s.terminal /\ t.version = s.version
      /\ \A m \in DOMAIN p :
           /\ t.tasks[m].status = IF m = n THEN "failed" ELSE s.tasks[m].status
           /\ t.tasks[m].attempts = IF m = n THEN s.tasks[n].attempts + 1 ELSE s.tasks[m].attempts
  BY <1>1, <1>2, <1>3, AttemptedFields
<1> HIDE DEF t
<1>5. Completed(t) = Completed(s)
  BY <1>2, <1>4 DEF Completed, p
<1>6. NoneStranded(t) /\ AllDone(t) /\ OutOfOrder(t) = OutOfOrder(s)
  BY <1>2, <1>4, <1>5 DEF NoneStranded, AllDone, OutOfOrder, p
<1>7. Extends(t, s)
  BY <1>1, <1>2, <1>4, SubSeqFull DEF Extends
<1>8. Len(t.reports) <= t.version /\ \A m \in DOMAIN p : t.tasks[m].attempts <= t.version
  <2>1. Len(s.reports) \in Nat
    BY <1>1
  <2> QED
    BY <1>1, <1>2, <1>4, <2>1
<1> QED
  BY <1>1, <1>4, <1>6, <1>7, <1>8, CommitKeeps DEF t, KeepsOrder

\* A dispatch that ends with a report.
LEMMA ReportedKeeps ==
  ASSUME NEW s, IsRun(s), NoneStranded(s), AllDone(s), NEW n, Ready(s, n),
         NEW outcome \in Outcome, NEW basis \in SUBSET Nat
  PROVE  LET t == Committed(Reported(s, n, outcome, basis)) IN
         /\ IsRun(t) /\ NoneStranded(t) /\ AllDone(t) /\ Extends(t, s)
         /\ t.version = s.version + 1
         /\ KeepsOrder(s, t)
<1> DEFINE p == s.dag
           a == Attempted(s, n, outcome)
           t == Reported(s, n, outcome, basis)
           r == [task |-> n, outcome |-> outcome, basis |-> basis]
<1>1. p \in Plan /\ s \in RunOf(p) /\ s.reports \in Seq(Report) /\ s.version \in Nat \ {0}
      /\ Len(s.reports) < s.version /\ s.tasks \in [DOMAIN p -> Task]
      /\ \A m \in DOMAIN p : s.tasks[m].attempts \in Nat /\ s.tasks[m].attempts < s.version
  BY RunFields DEF Task
<1>2. n \in DOMAIN p /\ n \in Id /\ n \notin Completed(s) /\ ~s.terminal /\ p[n].deps \subseteq Completed(s)
  BY ReadyIsOpen DEF Ready
<1>3. outcome \in Status /\ r \in Report
  BY <1>2, OutcomeAssumption DEF Status, Answers, Report
<1> HIDE DEF p
<1>4. /\ a.dag = p
      /\ \A m \in DOMAIN p :
           /\ a.tasks[m].status = IF m = n THEN outcome ELSE s.tasks[m].status
           /\ a.tasks[m].attempts = IF m = n THEN s.tasks[n].attempts + 1 ELSE s.tasks[m].attempts
  BY <1>1, <1>2, <1>3, AttemptedFields
<1>5. /\ t \in RunOf(p)
      /\ t.dag = p /\ t.decisions = s.decisions
      /\ t.terminal = s.terminal /\ t.version = s.version
      /\ t.reports = Append(s.reports, r)
      /\ Completed(t) = Completed(a)
      /\ \A m \in DOMAIN p :
           /\ t.tasks[m].attempts = a.tasks[m].attempts
           /\ t.tasks[m].status =
                IF a.tasks[m].status = "blocked" /\ p[m].deps \subseteq Completed(a)
                THEN "ready" ELSE a.tasks[m].status
  BY <1>1, <1>2, ReportedFields
<1> HIDE DEF a, t, r
<1>6. Completed(s) \subseteq Completed(t)
      /\ \A m \in Completed(t) : m \in Completed(s) \/ m = n
  BY <1>2, <1>4, <1>5 DEF Completed, p
<1>7. NoneStranded(t)
  BY <1>5 DEF NoneStranded
<1>8. AllDone(t) /\ OutOfOrder(t) \subseteq OutOfOrder(s)
  BY <1>2, <1>5, <1>6 DEF AllDone, OutOfOrder, p
<1>9. Len(s.reports) \in Nat /\ Len(t.reports) = Len(s.reports) + 1
      /\ SubSeq(t.reports, 1, Len(s.reports)) = s.reports
  BY <1>1, <1>3, <1>5, AppendExtends
<1>10. Extends(t, s)
  BY <1>2, <1>9 DEF Extends
<1>11. Len(t.reports) <= t.version /\ \A m \in DOMAIN p : t.tasks[m].attempts <= t.version
  BY <1>1, <1>2, <1>4, <1>5, <1>9
<1> QED
  BY <1>1, <1>5, <1>7, <1>8, <1>10, <1>11, CommitKeeps DEF t, KeepsOrder

\* The publication of the paper.
LEMMA PublishedKeeps ==
  ASSUME NEW s, IsRun(s), NoneStranded(s), AllDone(s), Publishable(s)
  PROVE  LET t == Committed(Published(s)) IN
         /\ IsRun(t) /\ NoneStranded(t) /\ AllDone(t) /\ Extends(t, s)
         /\ t.version = s.version + 1
         /\ KeepsOrder(s, t)
<1> DEFINE p == s.dag
           t == Published(s)
<1>1. p \in Plan /\ IsPlan(p) /\ s \in RunOf(p) /\ s.reports \in Seq(Report)
      /\ s.version \in Nat \ {0} /\ Len(s.reports) < s.version
      /\ s.tasks \in [DOMAIN p -> Task] /\ s.terminal \in BOOLEAN
      /\ \A m \in DOMAIN p : s.tasks[m].attempts \in Nat /\ s.tasks[m].attempts < s.version
  BY RunFields DEF Task
<1>2. Terminal \in DOMAIN p /\ \A m \in DOMAIN p : p[m].deps \subseteq DOMAIN p \ {Terminal}
  BY <1>1 DEF IsPlan
<1>3. DOMAIN p \ {Terminal} \subseteq Completed(s)
  BY DEF Publishable
<1> HIDE DEF p
<1>4. /\ t \in RunOf(p)
      /\ t.dag = p /\ t.reports = s.reports /\ t.decisions = s.decisions
      /\ t.terminal = TRUE /\ t.version = s.version
      /\ \A m \in DOMAIN p :
           /\ t.tasks[m].status = IF m = Terminal THEN "completed" ELSE s.tasks[m].status
           /\ t.tasks[m].attempts = s.tasks[m].attempts
  <2>1. p \in Plan /\ s \in RunOf(p)
    BY <1>1
  <2> QED
    BY <2>1, PublishedFields
<1> HIDE DEF t
<1>5. Completed(t) = DOMAIN p
  BY <1>2, <1>3, <1>4 DEF Completed, p
<1>6. OutOfOrder(t) = {} /\ AllDone(t)
  BY <1>2, <1>4, <1>5 DEF AllDone, OutOfOrder
<1>7. NoneStranded(t)
  BY <1>4, <1>5 DEF NoneStranded, Completed
<1>8. ASSUME s.terminal PROVE t.tasks = s.tasks
  <2>1. \A m \in DOMAIN p : s.tasks[m].status = "completed"
    BY <1>8 DEF AllDone, Completed, p
  <2>2. t.tasks \in [DOMAIN p -> Task]
    BY <1>4 DEF RunOf
  <2>3. \A m \in DOMAIN p : t.tasks[m] = s.tasks[m]
    <3> SUFFICES ASSUME NEW m \in DOMAIN p PROVE t.tasks[m] = s.tasks[m]
      OBVIOUS
    <3>1. t.tasks[m] \in Task /\ s.tasks[m] \in Task
      BY <1>1, <2>2
    <3>2. t.tasks[m].status = s.tasks[m].status /\ t.tasks[m].attempts = s.tasks[m].attempts
      BY <1>4, <2>1
    <3> QED
      BY <3>1, <3>2 DEF Task
  <2> QED
    BY <1>1, <2>2, <2>3
<1>9. Extends(t, s)
  <2>1. Len(s.reports) \in Nat /\ SubSeq(s.reports, 1, Len(s.reports)) = s.reports
    BY <1>1, SubSeqFull
  <2> QED
    BY <1>4, <1>8, <2>1 DEF Extends
<1>10. Len(t.reports) <= t.version /\ \A m \in DOMAIN p : t.tasks[m].attempts <= t.version
  <2>1. Len(s.reports) \in Nat
    BY <1>1
  <2> QED
    BY <1>1, <1>4, <2>1
<1> QED
  BY <1>1, <1>4, <1>6, <1>7, <1>9, <1>10, CommitKeeps DEF t, KeepsOrder

\* The affected tasks are closed under dependence, and every one but the first
\* depends on another of them.
LEMMA AffectedProperties ==
  ASSUME NEW p \in Plan, NEW n \in DOMAIN p
  PROVE  /\ n \in Affected(p, n) /\ Affected(p, n) \subseteq DOMAIN p
         /\ \A m \in DOMAIN p : p[m].deps \cap Affected(p, n) # {} => m \in Affected(p, n)
         /\ \A m \in Affected(p, n) \ {n} : p[m].deps \cap Affected(p, n) # {}
<1>1. n \in Affected(p, n) /\ Affected(p, n) \subseteq DOMAIN p
  BY DEF Affected
<1>2. ASSUME NEW m \in DOMAIN p, p[m].deps \cap Affected(p, n) # {}
      PROVE  m \in Affected(p, n)
  <2> SUFFICES ASSUME NEW set \in SUBSET DOMAIN p, n \in set, ClosedUnder(p, set)
               PROVE  m \in set
    BY DEF Affected
  <2>1. Affected(p, n) \subseteq set
    BY DEF Affected
  <2> QED
    BY <1>2, <2>1 DEF ClosedUnder
<1>3. ASSUME NEW m \in Affected(p, n) \ {n}, p[m].deps \cap Affected(p, n) = {}
      PROVE  FALSE
  <2> DEFINE rest == Affected(p, n) \ {m}
  <2>1. rest \in SUBSET DOMAIN p /\ n \in rest
    BY <1>1
  <2>2. ClosedUnder(p, rest)
    BY <1>2, <1>3 DEF ClosedUnder
  <2> QED
    BY <2>1, <2>2 DEF Affected
<1> QED
  BY <1>1, <1>2, <1>3

\* A rollback.
LEMMA RolledBackKeeps ==
  ASSUME NEW s, IsRun(s), NoneStranded(s), ~s.terminal, NEW n \in DOMAIN s.dag
  PROVE  LET t == Committed(RolledBack(s, n)) IN
         /\ IsRun(t) /\ NoneStranded(t) /\ AllDone(t) /\ Extends(t, s)
         /\ t.version = s.version + 1
         /\ KeepsOrder(s, t)
<1> DEFINE p == s.dag
           t == RolledBack(s, n)
           below == Affected(p, n)
<1>1. p \in Plan /\ IsPlan(p) /\ s \in RunOf(p) /\ s.reports \in Seq(Report)
      /\ s.version \in Nat \ {0} /\ Len(s.reports) < s.version
      /\ \A m \in DOMAIN p : s.tasks[m].attempts \in Nat /\ s.tasks[m].attempts < s.version
  BY RunFields DEF Task
<1>2. n \in DOMAIN p /\ \A m \in DOMAIN p : p[m].deps \subseteq DOMAIN p
  BY <1>1 DEF IsPlan
<1> HIDE DEF p
<1>3. /\ t \in RunOf(p)
      /\ t.dag = p /\ t.reports = s.reports
      /\ t.terminal = s.terminal /\ t.version = s.version
      /\ \A m \in DOMAIN p :
           /\ t.tasks[m].attempts = s.tasks[m].attempts
           /\ t.tasks[m].status =
                IF m \notin below THEN s.tasks[m].status
                ELSE IF m = n THEN "ready" ELSE "blocked"
  BY <1>1, <1>2, RolledBackFields
<1>4. /\ n \in below /\ below \subseteq DOMAIN p
      /\ \A m \in DOMAIN p : p[m].deps \cap below # {} => m \in below
      /\ \A m \in below \ {n} : p[m].deps \cap below # {}
  BY <1>1, <1>2, AffectedProperties
<1> HIDE DEF t, below
<1>5. Completed(t) = Completed(s) \ below
  BY <1>3 DEF Completed, p
<1>6. NoneStranded(t)
  <2> SUFFICES ASSUME NEW m \in DOMAIN p, t.tasks[m].status = "blocked", p[m].deps \subseteq Completed(t)
               PROVE  FALSE
    BY <1>3 DEF NoneStranded
  <2>1. CASE m \in below
    BY <1>3, <1>4, <1>5, <2>1
  <2>2. CASE m \notin below
    BY <1>3, <1>5, <2>2 DEF NoneStranded, p
  <2> QED
    BY <2>1, <2>2
<1>7. OutOfOrder(t) \subseteq OutOfOrder(s)
  <2> SUFFICES ASSUME NEW m \in Completed(t), p[m].deps \subseteq Completed(s)
               PROVE  p[m].deps \subseteq Completed(t)
    BY <1>3, <1>5 DEF OutOfOrder, p
  <2>1. m \in DOMAIN p /\ m \notin below
    BY <1>5 DEF Completed, p
  <2> QED
    BY <1>4, <1>5, <2>1
<1>8. AllDone(t) /\ Extends(t, s)
  <2>1. Len(s.reports) \in Nat /\ SubSeq(s.reports, 1, Len(s.reports)) = s.reports
    BY <1>1, SubSeqFull
  <2> QED
    BY <1>3, <2>1 DEF AllDone, Extends
<1>9. Len(t.reports) <= t.version /\ \A m \in DOMAIN p : t.tasks[m].attempts <= t.version
  <2>1. Len(s.reports) \in Nat
    BY <1>1
  <2> QED
    BY <1>1, <1>3, <2>1
<1> QED
  BY <1>1, <1>3, <1>6, <1>7, <1>8, <1>9, CommitKeeps DEF t, p, KeepsOrder

\* A new plan; the tasks it keeps may rest on some it does not.
LEMMA ReplannedKeeps ==
  ASSUME NEW s, IsRun(s), ~s.terminal, NEW q \in Plan
  PROVE  LET t == Committed(Replanned(s, q)) IN
         /\ IsRun(t) /\ NoneStranded(t) /\ AllDone(t) /\ Extends(t, s)
         /\ t.version = s.version + 1
         /\ KeepsOrder(s, t)
<1> DEFINE p == s.dag
           t == Replanned(s, q)
<1>1. p \in Plan /\ s \in RunOf(p) /\ s.reports \in Seq(Report)
      /\ s.version \in Nat \ {0} /\ Len(s.reports) < s.version
      /\ \A m \in DOMAIN p : s.tasks[m].attempts \in Nat /\ s.tasks[m].attempts < s.version
  BY RunFields DEF Task
<1>2. \A m \in DOMAIN q : q[m].deps \subseteq DOMAIN q
  BY PlanAssumption DEF IsPlan
<1> HIDE DEF p
<1>3. /\ t \in RunOf(q)
      /\ t.dag = q /\ t.reports = s.reports
      /\ t.terminal = s.terminal /\ t.version = s.version
      /\ \A m \in DOMAIN q :
           /\ t.tasks[m].status =
                IF m \in Kept(s, q) THEN s.tasks[m].status
                ELSE IF q[m].deps \subseteq Kept(s, q) THEN "ready" ELSE "blocked"
           /\ t.tasks[m].attempts = IF m \in Kept(s, q) THEN s.tasks[m].attempts ELSE 0
  BY <1>1, ReplannedFields
<1> HIDE DEF t
<1>4. \A m \in Kept(s, q) : m \in DOMAIN q /\ m \in DOMAIN p /\ s.tasks[m].status = "completed" /\ q[m] = p[m]
  BY DEF Kept, Completed, p
<1>5. Completed(t) = Kept(s, q)
  BY <1>3, <1>4 DEF Completed
<1>6. NoneStranded(t)
  BY <1>3, <1>4, <1>5 DEF NoneStranded
<1>7. KeepsOrder(s, t)
  <2> SUFFICES ASSUME NEW m \in Kept(s, q), ~(q[m].deps \subseteq Kept(s, q)), m \notin OutOfOrder(s)
               PROVE  \E d \in q[m].deps : d \in Completed(s) /\ q[d] # p[d]
    BY <1>3, <1>5 DEF KeepsOrder, OutOfOrder, p
  <2>1. PICK d \in q[m].deps : d \notin Kept(s, q)
    OBVIOUS
  <2>2. m \in Completed(s) /\ d \in DOMAIN q /\ d \in p[m].deps
    BY <1>2, <1>4 DEF Kept
  <2>3. d \in Completed(s)
    BY <2>2 DEF OutOfOrder, p
  <2> QED
    BY <2>1, <2>2, <2>3 DEF Kept, p
<1>8. AllDone(t) /\ Extends(t, s)
  <2>1. Len(s.reports) \in Nat /\ SubSeq(s.reports, 1, Len(s.reports)) = s.reports
    BY <1>1, SubSeqFull
  <2> QED
    BY <1>3, <2>1 DEF AllDone, Extends
<1>9. Len(t.reports) <= t.version /\ \A m \in DOMAIN q : t.tasks[m].attempts <= t.version
  <2>1. Len(s.reports) \in Nat
    BY <1>1
  <2>2. \A m \in DOMAIN q : t.tasks[m].attempts <= s.version
    BY <1>1, <1>3, <1>4
  <2> QED
    BY <1>1, <1>3, <2>1, <2>2
<1> QED
  BY <1>3, <1>6, <1>7, <1>8, <1>9, CommitKeeps DEF t

\* One operation of the harness: it makes the next version t of s.
Step(s, t) ==
  \/ \E n \in DOMAIN s.dag : Ready(s, n) /\ t = Committed(Attempted(s, n, "failed"))
  \/ \E n \in DOMAIN s.dag, outcome \in Outcome, basis \in SUBSET DOMAIN s.reports :
       Ready(s, n) /\ t = Committed(Reported(s, n, outcome, basis))
  \/ Publishable(s) /\ t = Committed(Published(s))
  \/ \E n \in DOMAIN s.dag : ~s.terminal /\ t = Committed(RolledBack(s, n))
  \/ \E p \in Plan : ~s.terminal /\ t = Committed(Replanned(s, p))

\* What every operation preserves.
LEMMA StepKeeps ==
  ASSUME NEW s, NEW t, IsRun(s), NoneStranded(s), AllDone(s), Step(s, t)
  PROVE  /\ IsRun(t) /\ NoneStranded(t) /\ AllDone(t) /\ Extends(t, s)
         /\ t.version = s.version + 1
         /\ KeepsOrder(s, t)
<1>1. CASE \E n \in DOMAIN s.dag : Ready(s, n) /\ t = Committed(Attempted(s, n, "failed"))
  BY <1>1, AttemptedKeeps
<1>2. ASSUME NEW n \in DOMAIN s.dag, NEW outcome \in Outcome, NEW basis \in SUBSET DOMAIN s.reports,
             Ready(s, n), t = Committed(Reported(s, n, outcome, basis))
      PROVE  /\ IsRun(t) /\ NoneStranded(t) /\ AllDone(t) /\ Extends(t, s)
             /\ t.version = s.version + 1
             /\ KeepsOrder(s, t)
  <2>1. s.reports \in Seq(Report)
    BY RunFields
  <2>2. basis \in SUBSET Nat
    BY <2>1
  <2> QED
    BY <1>2, <2>2, ReportedKeeps
<1>3. CASE Publishable(s) /\ t = Committed(Published(s))
  BY <1>3, PublishedKeeps
<1>4. CASE \E n \in DOMAIN s.dag : ~s.terminal /\ t = Committed(RolledBack(s, n))
  BY <1>4, RolledBackKeeps
<1>5. CASE \E p \in Plan : ~s.terminal /\ t = Committed(Replanned(s, p))
  BY <1>5, ReplannedKeeps
<1> QED
  BY <1>1, <1>2, <1>3, <1>4, <1>5 DEF Step
=============================================================================
