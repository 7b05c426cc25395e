-------------------------- MODULE MainHarnessProofs --------------------------
(* What holds of a run of the Main Harness for any plans, drivers and bounds. *)
(* The operations themselves are in RunStatesProofs; here is that the version *)
(* check makes them operations on the row, and, after that, what holds of     *)
(* task tables (module TaskGraph, and the tables of MCMainHarness).           *)
EXTENDS MCMainHarness, RunStatesProofs, FiniteSetTheorems

-----------------------------------------------------------------------------
(* The inductive invariant *)

\* The variables but for the states of the run.
Shape ==
  /\ tool \in [Key -> Row]
  /\ held = [d \in Driver |-> held[d]]
  /\ pc \in [Driver -> Label] /\ call \in [Driver -> Call]
  /\ crashes \in 0..MaxCrashes

RowInv ==
  saved # None =>
    /\ IsRun(saved) /\ NoneStranded(saved) /\ AllDone(saved)
    /\ saved.version \in 1..MaxVersion

\* A copy is the row or an earlier state of it, and a version says which.
CopyInv(d) ==
  held[d] # None =>
    /\ IsRun(held[d]) /\ saved # None
    /\ held[d].version <= saved.version
    /\ held[d].version = saved.version => held[d] = saved
    /\ Len(held[d].reports) <= Len(saved.reports)

Reports == IF saved = None THEN {} ELSE DOMAIN saved.reports

\* A call in progress is for a ready task of the copy and for its next attempt,
\* on reports that are in the row.
CallInv(d) ==
  pc[d] # "idle" =>
    /\ held[d] # None /\ held[d].version < MaxVersion
    /\ Ready(held[d], call[d].task)
    /\ call[d].attempt = held[d].tasks[call[d].task].attempts + 1
    /\ call[d].result.basis \subseteq Reports

ToolInv == \A k \in Key : tool[k].result.basis \subseteq Reports

Inv ==
  /\ Shape /\ RowInv /\ ToolInv
  /\ \A d \in Driver : CopyInv(d) /\ CallInv(d)

-----------------------------------------------------------------------------
(* Saving *)

\* A run is not None.
LEMMA RunIsSome ==
  ASSUME NEW s, IsRun(s)
  PROVE  s # None
BY NoneAssumption DEF IsRun

\* The attempt that follows is one the bound leaves room for.
LEMMA NextKey ==
  ASSUME NEW s, IsRun(s), s.version < MaxVersion, NEW n, Ready(s, n)
  PROVE  <<n, s.tasks[n].attempts + 1>> \in Key
<1>1. n \in DOMAIN s.dag /\ IsPlan(s.dag) /\ s.version \in Nat \ {0}
      /\ s.tasks[n].attempts \in Nat /\ s.tasks[n].attempts < s.version
  BY RunFields DEF Ready, Task
<1>2. n \in Id
  BY <1>1 DEF IsPlan
<1>3. s.tasks[n].attempts + 1 \in 1..MaxVersion
  BY <1>1, BoundAssumption
<1> QED
  BY <1>2, <1>3 DEF Key

\* A save is an operation on the row, or does nothing.
LEMMA SaveKeeps ==
  ASSUME Shape, RowInv, \A e \in Driver : CopyInv(e),
         NEW d \in Driver, held[d] # None, held[d].version < MaxVersion,
         NEW s, Step(held[d], Committed(s)), Save(d, s)
  PROVE  /\ RowInv' /\ \A e \in Driver : CopyInv(e)'
         /\ held' = [e \in Driver |-> held'[e]]
         /\ Reports \subseteq Reports'
         /\ UNCHANGED saved \/ (saved # None /\ Step(saved, saved'))
         /\ \A e \in Driver : e # d => held'[e] = held[e]
<1>1. CASE ~IsCurrent(d)
  <2>1. UNCHANGED <<saved, held>>
    BY <1>1 DEF Save
  <2> QED
    BY <2>1 DEF RowInv, CopyInv, Reports, Shape
<1>2. CASE IsCurrent(d)
  <2> DEFINE t == Committed(s)
  <2>1. saved # None /\ held[d] = saved /\ saved' = t /\ held' = [held EXCEPT ![d] = t]
    BY <1>2 DEF Save, IsCurrent, CopyInv
  <2>2. Step(saved, t) /\ saved.version < MaxVersion
    BY <2>1
  <2> HIDE DEF t
  <2>3. /\ IsRun(saved) /\ NoneStranded(saved) /\ AllDone(saved)
        /\ saved.version \in 1..MaxVersion
    BY <2>1 DEF RowInv
  <2>4. /\ IsRun(t) /\ NoneStranded(t) /\ AllDone(t) /\ Extends(t, saved)
        /\ t.version = saved.version + 1
    BY <2>2, <2>3, StepKeeps
  <2>5. t # None
    BY <2>4, RunIsSome
  <2>6. Len(saved.reports) \in Nat /\ Len(t.reports) \in Nat /\ Len(saved.reports) <= Len(t.reports)
    <3>1. saved.reports \in Seq(Report)
      BY <2>3, RunFields
    <3>2. t.reports \in Seq(Report)
      BY <2>4, RunFields
    <3> QED
      BY <2>4, <3>1, <3>2 DEF Extends
  <2>7. RowInv'
    BY <2>1, <2>2, <2>3, <2>4, BoundAssumption DEF RowInv
  <2>8. held'[d] = t /\ \A e \in Driver : e # d => held'[e] = held[e]
    BY <2>1 DEF Shape
  <2>9. \A e \in Driver : CopyInv(e)'
    <3> SUFFICES ASSUME NEW e \in Driver, held'[e] # None
                 PROVE  /\ IsRun(held'[e]) /\ t # None
                        /\ held'[e].version <= t.version
                        /\ held'[e].version = t.version => held'[e] = t
                        /\ Len(held'[e].reports) <= Len(t.reports)
      BY <2>1 DEF CopyInv
    <3>1. CASE e = d
      <4>1. t.version \in Nat
        BY <2>4, RunFields
      <4> QED
        BY <2>4, <2>5, <2>6, <2>8, <3>1, <4>1
    <3>2. CASE e # d
      <4>1. /\ IsRun(held[e]) /\ held[e].version <= saved.version
            /\ Len(held[e].reports) <= Len(saved.reports)
        BY <2>8, <3>2 DEF CopyInv
      <4>2. held[e].version \in Nat /\ held[e].reports \in Seq(Report)
        BY <4>1, RunFields
      <4>3. Len(held[e].reports) \in Nat
        BY <4>2
      <4>4. saved.version \in Nat /\ t.version \in Nat
        BY <2>3, <2>4, RunFields
      <4>5. held[e].version < t.version /\ Len(held[e].reports) <= Len(t.reports)
        BY <2>4, <2>6, <4>1, <4>2, <4>3, <4>4
      <4>6. held'[e] = held[e]
        BY <2>8, <3>2
      <4> QED
        BY <2>5, <4>1, <4>2, <4>4, <4>5, <4>6
    <3> QED
      BY <3>1, <3>2
  <2>10. Reports \subseteq Reports'
    <3>1. saved.reports \in Seq(Report) /\ t.reports \in Seq(Report)
      BY <2>3, <2>4, RunFields
    <3>2. DOMAIN saved.reports = 1..Len(saved.reports) /\ DOMAIN t.reports = 1..Len(t.reports)
      BY <3>1
    <3>3. DOMAIN saved.reports \subseteq DOMAIN t.reports
      BY <2>6, <3>2
    <3> QED
      BY <2>1, <2>5, <3>3 DEF Reports
  <2>11. held' = [e \in Driver |-> held'[e]]
    BY <2>1 DEF Shape
  <2> QED
    BY <2>1, <2>2, <2>7, <2>8, <2>9, <2>10, <2>11
<1> QED
  BY <1>1, <1>2

-----------------------------------------------------------------------------
(* Invariance *)

\* What the invariant implies.
LEMMA InvProperties ==
  ASSUME Inv
  PROVE  TypeOK /\ CopiesAreCurrent /\ NothingIsStranded
<1>1. ASSUME NEW d \in Driver, pc[d] # "idle" PROVE held[d] # None /\ KeyOf(d) \in Key
  <2>1. /\ IsRun(held[d]) /\ held[d] # None /\ held[d].version < MaxVersion
        /\ Ready(held[d], call[d].task)
        /\ call[d].attempt = held[d].tasks[call[d].task].attempts + 1
    BY <1>1 DEF Inv, CallInv, CopyInv
  <2> QED
    BY <2>1, NextKey DEF KeyOf
<1>2. TypeOK
  BY <1>1 DEF Inv, TypeOK, Shape, RowInv, CopyInv
<1> QED
  BY <1>2 DEF Inv, CopiesAreCurrent, CopyInv, NothingIsStranded, RowInv

\* The initial state.
LEMMA InvInit == Init => Inv
<1> SUFFICES ASSUME Init PROVE Inv
  OBVIOUS
<1>1. AbsentRow \in Row /\ NoCall \in Call /\ AbsentRow.result.basis = {} /\ "idle" \in Label
  <2>1. NoResult \in Result /\ NoResult.basis = {}
    BY DEF NoResult, Result
  <2> QED
    BY <2>1, PlanAssumption DEF AbsentRow, Row, NoCall, Call, Label
<1>2. Shape
  BY <1>1, BoundAssumption DEF Init, Shape
<1> QED
  BY <1>1, <1>2 DEF Init, Inv, RowInv, ToolInv, CopyInv, CallInv, Reports

\* What a step does to the row.
Moves == UNCHANGED saved \/ (saved # None /\ Step(saved, saved'))

\* A driver starts the run, with nobody else in it.
LEMMA StartKeeps ==
  ASSUME Inv, NEW d \in Driver, NEW p \in Opening, Start(d, p)
  PROVE  Inv' /\ saved = None /\ saved' = Begun(p)
<1> DEFINE b == Begun(p)
<1>1. saved = None /\ saved' = b /\ held' = [held EXCEPT ![d] = b] /\ pc[d] = "idle"
      /\ UNCHANGED <<tool, pc, call, crashes>>
  BY DEF Start
<1>2. /\ IsRun(b) /\ NoneStranded(b) /\ AllDone(b) /\ b.version = 1
      /\ b.reports = <<>>
  BY PlanAssumption, BegunKeeps
<1> HIDE DEF b
<1>3. b # None
  BY <1>2, RunIsSome
<1>4. \A e \in Driver : held[e] = None /\ pc[e] = "idle"
  BY <1>1 DEF Inv, CopyInv, CallInv
<1>5. held'[d] = b /\ \A e \in Driver : e # d => held'[e] = None
  BY <1>1, <1>4 DEF Inv, Shape
<1>6. Shape' /\ RowInv'
  <2>1. held' = [e \in Driver |-> held'[e]]
    BY <1>1 DEF Inv, Shape
  <2>2. RowInv'
    BY <1>1, <1>2, BoundAssumption DEF RowInv
  <2> QED
    BY <1>1, <2>1, <2>2 DEF Inv, Shape
<1>7. \A e \in Driver : CopyInv(e)' /\ CallInv(e)'
  <2>1. \A e \in Driver : held'[e] # None => held'[e] = b
    BY <1>5
  <2> QED
    BY <1>1, <1>2, <1>3, <1>4, <2>1 DEF CopyInv, CallInv
<1>8. ToolInv'
  BY <1>1 DEF Inv, ToolInv, Reports
<1> QED
  BY <1>1, <1>6, <1>7, <1>8 DEF Inv, b

\* A driver reads the row.
LEMMA GetKeeps ==
  ASSUME Inv, NEW d \in Driver, Get(d)
  PROVE  Inv' /\ UNCHANGED saved
<1>1. saved # None /\ held' = [held EXCEPT ![d] = saved] /\ pc[d] = "idle"
      /\ UNCHANGED <<saved, tool, pc, call, crashes>>
  BY DEF Get
<1>2. held'[d] = saved /\ \A e \in Driver : e # d => held'[e] = held[e]
  BY <1>1 DEF Inv, Shape
<1>3. IsRun(saved) /\ saved.version \in Nat /\ Len(saved.reports) \in Nat
  <2>1. IsRun(saved)
    BY <1>1 DEF Inv, RowInv
  <2>2. saved.reports \in Seq(Report) /\ saved.version \in Nat
    BY <2>1, RunFields
  <2> QED
    BY <2>1, <2>2
<1>4. Shape' /\ RowInv' /\ ToolInv'
  BY <1>1 DEF Inv, Shape, RowInv, ToolInv, Reports
<1>5. \A e \in Driver : CopyInv(e)'
  BY <1>1, <1>2, <1>3 DEF Inv, CopyInv
<1>6. \A e \in Driver : CallInv(e)'
  BY <1>1, <1>2 DEF Inv, CallInv, Reports
<1> QED
  BY <1>1, <1>4, <1>5, <1>6 DEF Inv

\* An operation that is one save.
LEMMA SaveOnlyKeeps ==
  ASSUME Inv, NEW d \in Driver, Idle(d), NEW s, Step(held[d], Committed(s)),
         Save(d, s), UNCHANGED <<tool, pc, call, crashes>>
  PROVE  Inv' /\ Moves
<1>1. held[d] # None /\ held[d].version < MaxVersion /\ pc[d] = "idle"
  BY DEF Idle
<1>2. /\ RowInv' /\ \A e \in Driver : CopyInv(e)'
      /\ held' = [e \in Driver |-> held'[e]]
      /\ Reports \subseteq Reports'
      /\ UNCHANGED saved \/ (saved # None /\ Step(saved, saved'))
      /\ \A e \in Driver : e # d => held'[e] = held[e]
  BY <1>1, SaveKeeps DEF Inv
<1>3. Shape' /\ ToolInv'
  BY <1>2 DEF Inv, Shape, ToolInv
<1>4. \A e \in Driver : CallInv(e)'
  <2> SUFFICES ASSUME NEW e \in Driver, pc[e] # "idle" PROVE CallInv(e)'
    BY DEF CallInv
  <2>1. e # d
    BY <1>1
  <2> QED
    BY <1>2, <2>1 DEF Inv, CallInv
<1> QED
  BY <1>2, <1>3, <1>4 DEF Inv, Moves

\* A driver calls the tool with the next attempt of a ready task.
LEMMA DispatchKeeps ==
  ASSUME Inv, NEW d \in Driver, NEW n \in Id, Dispatch(d, n)
  PROVE  Inv' /\ UNCHANGED saved
<1> DEFINE k == <<n, held[d].tasks[n].attempts + 1>>
           answer == IF tool[k].status = "completed" THEN tool[k].result
                     ELSE [outcome |-> Error, basis |-> Basis(held[d], n)]
           label == IF tool[k].status = "completed" THEN "answered" ELSE "reserving"
           c == [task |-> n, attempt |-> held[d].tasks[n].attempts + 1, result |-> answer]
<1>1. /\ held[d] # None /\ held[d].version < MaxVersion /\ pc[d] = "idle"
      /\ Ready(held[d], n)
      /\ call' = [call EXCEPT ![d] = c] /\ pc' = [pc EXCEPT ![d] = label]
      /\ UNCHANGED <<saved, tool, held, crashes>>
  BY DEF Dispatch, Idle
<1>2. /\ IsRun(held[d]) /\ saved # None /\ IsRun(saved)
      /\ Len(held[d].reports) <= Len(saved.reports)
  BY <1>1 DEF Inv, CopyInv, RowInv
<1>3. k \in Key /\ held[d].tasks[n].attempts \in Nat
  <2>1. held[d].tasks \in [DOMAIN held[d].dag -> Task] /\ n \in DOMAIN held[d].dag
    BY <1>1, <1>2, RunFields DEF Ready
  <2> QED
    BY <1>1, <1>2, <2>1, NextKey DEF Task
<1>4. Basis(held[d], n) \subseteq Reports /\ Basis(held[d], n) \subseteq Nat
  <2>1. held[d].reports \in Seq(Report) /\ saved.reports \in Seq(Report)
    BY <1>2, RunFields
  <2>2. Basis(held[d], n) \subseteq DOMAIN held[d].reports
    BY DEF Basis, Newest
  <2> QED
    BY <1>2, <2>1, <2>2 DEF Reports
<1>5. answer \in Result /\ answer.basis \subseteq Reports
  <2>1. tool[k] \in Row /\ tool[k].result.basis \subseteq Reports
    BY <1>3 DEF Inv, Shape, ToolInv
  <2> QED
    BY <1>4, <2>1 DEF Row, Result
<1> HIDE DEF k, answer
<1>6. c \in Call /\ label \in Label
      /\ c.task = n /\ c.attempt = held[d].tasks[n].attempts + 1 /\ c.result = answer
  BY <1>3, <1>5 DEF Call, Label
<1> HIDE DEF c, label
<1>7. call'[d] = c /\ \A e \in Driver : e # d => call'[e] = call[e] /\ pc'[e] = pc[e]
  BY <1>1 DEF Inv, Shape
<1>8. Shape' /\ RowInv' /\ ToolInv' /\ Reports' = Reports
  BY <1>1, <1>6 DEF Inv, Shape, RowInv, ToolInv, Reports
<1>9. \A e \in Driver : CopyInv(e)'
  BY <1>1 DEF Inv, CopyInv
<1>10. \A e \in Driver : CallInv(e)'
  <2> SUFFICES ASSUME NEW e \in Driver PROVE CallInv(e)'
    OBVIOUS
  <2>1. CASE e = d
    BY <1>1, <1>5, <1>6, <1>7, <1>8, <2>1 DEF CallInv
  <2>2. CASE e # d
    BY <1>1, <1>7, <1>8, <2>2 DEF Inv, CallInv
  <2> QED
    BY <2>1, <2>2
<1> QED
  BY <1>1, <1>8, <1>9, <1>10 DEF Inv

\* A step inside the tool runtime: the driver that takes it stays in its call,
\* with a result on known reports.
LEMMA ToolKeeps ==
  ASSUME Inv, NEW d \in Driver, pc[d] # "idle", NEW label \in Label, NEW r \in Result,
         r.basis \subseteq Reports,
         pc' = [pc EXCEPT ![d] = label], call' = [call EXCEPT ![d].result = r],
         tool' \in [Key -> Row], \A k \in Key : tool'[k].result.basis \subseteq Reports,
         UNCHANGED <<saved, held, crashes>>
  PROVE  Inv' /\ UNCHANGED saved
<1>1. call[d] \in Call
  BY DEF Inv, Shape
<1>2. /\ call'[d] \in Call
      /\ call'[d].task = call[d].task /\ call'[d].attempt = call[d].attempt
      /\ call'[d].result = r
      /\ \A e \in Driver : e # d => call'[e] = call[e] /\ pc'[e] = pc[e]
  BY <1>1 DEF Inv, Shape, Call
<1>3. call' \in [Driver -> Call]
  BY <1>2 DEF Inv, Shape
<1>4. Shape' /\ RowInv' /\ ToolInv' /\ Reports' = Reports
  BY <1>3 DEF Inv, Shape, RowInv, ToolInv, Reports
<1>5. \A e \in Driver : CopyInv(e)'
  BY DEF Inv, CopyInv
<1>6. \A e \in Driver : CallInv(e)'
  <2> SUFFICES ASSUME NEW e \in Driver PROVE CallInv(e)'
    OBVIOUS
  <2>1. CASE e = d
    BY <1>2, <1>4, <2>1 DEF Inv, CallInv
  <2>2. CASE e # d
    BY <1>2, <1>4, <2>2 DEF Inv, CallInv
  <2> QED
    BY <2>1, <2>2
<1> QED
  BY <1>4, <1>5, <1>6 DEF Inv

\* The rows a call leaves behind.
LEMMA RowsOfCalls ==
  ASSUME NEW d \in Driver, NEW r \in Result
  PROVE  /\ NoResult \in Result /\ NoResult.basis = {}
         /\ RunningRow(d) \in Row /\ RunningRow(d).result = NoResult
         /\ CompletedRow(r) \in Row /\ CompletedRow(r).result = r
<1>1. NoResult \in Result /\ NoResult.basis = {}
  BY DEF NoResult, Result
<1> QED
  BY <1>1 DEF RunningRow, CompletedRow, Row

\* The reservation of the call's key, or its refusal.
LEMMA ReserveKeeps ==
  ASSUME Inv, NEW d \in Driver, Reserve(d)
  PROVE  Inv' /\ UNCHANGED saved
<1>1. pc[d] = "reserving" /\ KeyOf(d) \in Key /\ UNCHANGED <<saved, held, crashes>>
  BY InvProperties DEF Reserve, TypeOK
<1>2. call[d].result \in Result /\ call[d].result.basis \subseteq Reports
  BY <1>1 DEF Inv, Shape, CallInv, Call
<1>3. CASE tool' = [tool EXCEPT ![KeyOf(d)] = RunningRow(d)]
           /\ pc' = [pc EXCEPT ![d] = "solving"] /\ UNCHANGED call
  <2>1. call' = [call EXCEPT ![d].result = call[d].result]
    <3>1. call[d] = [call[d] EXCEPT !.result = call[d].result]
      BY DEF Inv, Shape, Call
    <3>2. call = [call EXCEPT ![d] = call[d]]
      BY DEF Inv, Shape
    <3> QED
      BY <1>3, <3>1, <3>2
  <2>2. tool' \in [Key -> Row] /\ \A k \in Key : tool'[k].result.basis \subseteq Reports
    BY <1>1, <1>2, <1>3, RowsOfCalls DEF Inv, Shape, ToolInv
  <2>3. "solving" \in Label
    BY DEF Label
  <2> QED
    BY <1>1, <1>2, <1>3, <2>1, <2>2, <2>3, ToolKeeps
<1>4. CASE Answer(d, NoResult) /\ UNCHANGED tool
  <2>1. "answered" \in Label /\ NoResult \in Result /\ NoResult.basis = {}
    BY <1>2, RowsOfCalls DEF Label
  <2> QED
    BY <1>1, <1>4, <2>1, ToolKeeps DEF Answer, Inv, Shape, ToolInv
<1> QED
  BY <1>3, <1>4 DEF Reserve

\* The tool ends.
LEMMA SolveEndsKeeps ==
  ASSUME Inv, NEW d \in Driver, SolveEnds(d)
  PROVE  Inv' /\ UNCHANGED saved
<1>1. pc[d] = "solving" /\ KeyOf(d) \in Key /\ UNCHANGED <<saved, held, crashes>>
  BY InvProperties DEF SolveEnds, TypeOK
<1>2. call[d].result \in Result /\ call[d].result.basis \subseteq Reports
  BY <1>1 DEF Inv, Shape, CallInv, Call
<1>3. "answered" \in Label /\ NoResult \in Result /\ NoResult.basis = {}
  BY <1>2, RowsOfCalls DEF Label
<1>4. ASSUME NEW r \in Result, r.basis = call[d].result.basis,
             tool' = [tool EXCEPT ![KeyOf(d)] = CompletedRow(r)], Answer(d, r)
      PROVE  Inv' /\ UNCHANGED saved
  <2>1. tool' \in [Key -> Row] /\ \A k \in Key : tool'[k].result.basis \subseteq Reports
    BY <1>1, <1>2, <1>4, RowsOfCalls DEF Inv, Shape, ToolInv
  <2> QED
    BY <1>1, <1>2, <1>3, <1>4, <2>1, ToolKeeps DEF Answer
<1>5. CASE Answer(d, NoResult) /\ UNCHANGED tool
  BY <1>1, <1>3, <1>5, ToolKeeps DEF Answer, Inv, Shape, ToolInv
<1>6. \A outcome \in Outcome \cup {Error} :
        LET r == [outcome |-> outcome, basis |-> call[d].result.basis]
        IN r \in Result /\ r.basis = call[d].result.basis
  BY <1>2 DEF Result
<1> QED
  BY <1>4, <1>5, <1>6 DEF SolveEnds

\* The outcome of a call is saved, and the driver is idle again.
LEMMA ConcludeKeeps ==
  ASSUME Inv, NEW d \in Driver, Conclude(d)
  PROVE  Inv' /\ Moves
<1>1. /\ pc[d] = "answered" /\ pc' = [pc EXCEPT ![d] = "idle"]
      /\ call' = [call EXCEPT ![d] = NoCall]
      /\ UNCHANGED <<tool, crashes>>
  BY DEF Conclude
<1>2. /\ held[d] # None /\ held[d].version < MaxVersion /\ saved # None
      /\ IsRun(held[d]) /\ Ready(held[d], call[d].task)
      /\ call[d].result \in Result /\ call[d].result.basis \subseteq DOMAIN saved.reports
  BY <1>1 DEF Inv, CallInv, CopyInv, Reports, Shape, Call
<1> DEFINE n == call[d].task
           failed == Attempted(held[d], n, "failed")
           reported == Reported(held[d], n, call[d].result.outcome, call[d].result.basis)
<1>3. n \in DOMAIN held[d].dag
  BY <1>2 DEF Ready
<1>4. NoCall \in Call /\ "idle" \in Label
  <2>1. NoResult \in Result
    BY <1>2, RowsOfCalls
  <2> QED
    BY <2>1, PlanAssumption DEF NoCall, Call, Label
<1>5. ASSUME NEW s, Save(d, s), IsCurrent(d) => Step(held[d], Committed(s))
      PROVE  Inv' /\ Moves
  <2>1. /\ RowInv' /\ \A e \in Driver : CopyInv(e)'
        /\ held' = [e \in Driver |-> held'[e]]
        /\ Reports \subseteq Reports'
        /\ UNCHANGED saved \/ (saved # None /\ Step(saved, saved'))
        /\ \A e \in Driver : e # d => held'[e] = held[e]
    <3>1. CASE IsCurrent(d)
      BY <1>2, <1>5, <3>1, SaveKeeps DEF Inv
    <3>2. CASE ~IsCurrent(d)
      <4>1. UNCHANGED <<saved, held>>
        BY <1>5, <3>2 DEF Save
      <4> QED
        BY <4>1 DEF Inv, RowInv, CopyInv, Reports, Shape
    <3> QED
      BY <3>1, <3>2
  <2>2. pc'[d] = "idle" /\ \A e \in Driver : e # d => pc'[e] = pc[e] /\ call'[e] = call[e]
    BY <1>1 DEF Inv, Shape
  <2>3. Shape' /\ ToolInv'
    BY <1>1, <1>4, <2>1 DEF Inv, Shape, ToolInv
  <2>4. \A e \in Driver : CallInv(e)'
    <3> SUFFICES ASSUME NEW e \in Driver, e # d PROVE CallInv(e)'
      BY <2>2 DEF CallInv
    <3> QED
      BY <2>1, <2>2 DEF Inv, CallInv
  <2> QED
    BY <2>1, <2>3, <2>4 DEF Inv, Moves
<1>6. CASE Save(d, failed)
  BY <1>2, <1>3, <1>5, <1>6 DEF Step
<1>7. CASE call[d].result.outcome # Error /\ Save(d, reported)
  <2>1. call[d].result.outcome \in Outcome
    BY <1>2, <1>7 DEF Result
  <2>2. IsCurrent(d) => held[d] = saved
    BY <1>2 DEF IsCurrent, Inv, CopyInv
  <2>3. IsCurrent(d) => Step(held[d], Committed(reported))
    BY <1>2, <1>3, <2>1, <2>2 DEF Step
  <2> QED
    BY <1>5, <1>7, <2>3
<1> QED
  BY <1>6, <1>7 DEF Conclude

\* A driver forgets its copy and its call.
LEMMA CrashKeeps ==
  ASSUME Inv, NEW d \in Driver, Crash(d)
  PROVE  Inv' /\ UNCHANGED saved
<1>1. /\ crashes < MaxCrashes /\ crashes' = crashes + 1
      /\ held' = [held EXCEPT ![d] = None] /\ pc' = [pc EXCEPT ![d] = "idle"]
      /\ call' = [call EXCEPT ![d] = NoCall]
      /\ UNCHANGED <<saved, tool>>
  BY DEF Crash
<1>2. NoCall \in Call /\ "idle" \in Label
  <2>1. NoResult \in Result
    BY DEF NoResult, Result
  <2> QED
    BY <2>1, PlanAssumption DEF NoCall, Call, Label
<1>3. /\ held'[d] = None /\ pc'[d] = "idle"
      /\ \A e \in Driver : e # d => held'[e] = held[e] /\ pc'[e] = pc[e] /\ call'[e] = call[e]
  BY <1>1 DEF Inv, Shape
<1>4. Shape'
  <2>1. crashes' \in 0..MaxCrashes
    BY <1>1, BoundAssumption DEF Inv, Shape
  <2>2. held' = [e \in Driver |-> held'[e]]
    BY <1>1 DEF Inv, Shape
  <2> QED
    BY <1>1, <1>2, <2>1, <2>2 DEF Inv, Shape
<1>5. RowInv' /\ ToolInv' /\ Reports' = Reports
  BY <1>1 DEF Inv, RowInv, ToolInv, Reports
<1>6. ASSUME NEW e \in Driver PROVE CopyInv(e)' /\ CallInv(e)'
  <2>1. CASE e = d
    BY <1>3, <2>1 DEF CopyInv, CallInv
  <2>2. CASE e # d
    BY <1>1, <1>3, <1>5, <2>2 DEF Inv, CopyInv, CallInv
  <2> QED
    BY <2>1, <2>2
<1> QED
  BY <1>1, <1>4, <1>5, <1>6 DEF Inv

\* Every step of every driver: it starts the run, moves it by one operation, or
\* leaves it alone.
LEMMA NextKeeps ==
  ASSUME Inv, Next
  PROVE  Inv' /\ (Moves \/ (saved = None /\ \E p \in Opening : saved' = Begun(p)))
<1> DEFINE Goal == Inv' /\ (Moves \/ (saved = None /\ \E p \in Opening : saved' = Begun(p)))
<1> SUFFICES ASSUME NEW d \in Driver, Drive(d) \/ Crash(d) PROVE Goal
  BY DEF Next
<1>1. CASE \E p \in Opening : Start(d, p)
  BY <1>1, StartKeeps
<1>2. ASSUME NEW p \in Plan, Replan(d, p) PROVE Goal
  <2>1. /\ Idle(d) /\ ~held[d].terminal /\ Save(d, Replanned(held[d], p))
        /\ UNCHANGED <<tool, pc, call, crashes>>
    BY <1>2 DEF Replan, Decide
  <2>2. Step(held[d], Committed(Replanned(held[d], p)))
    BY <2>1 DEF Step
  <2> QED
    BY <2>1, <2>2, SaveOnlyKeeps
<1>3. CASE Get(d)
  BY <1>3, GetKeeps DEF Moves
<1>4. CASE \E n \in Id : Dispatch(d, n)
  BY <1>4, DispatchKeeps DEF Moves
<1>5. ASSUME NEW n \in Id, Rollback(d, n) PROVE Goal
  <2>1. /\ Idle(d) /\ ~held[d].terminal /\ Save(d, RolledBack(held[d], n))
        /\ n \in DOMAIN held[d].dag /\ UNCHANGED <<tool, pc, call, crashes>>
    BY <1>5 DEF Rollback, Decide
  <2>2. Step(held[d], Committed(RolledBack(held[d], n)))
    BY <2>1 DEF Step
  <2> QED
    BY <2>1, <2>2, SaveOnlyKeeps
<1>6. CASE Reserve(d)
  BY <1>6, ReserveKeeps DEF Moves
<1>7. CASE SolveEnds(d)
  BY <1>7, SolveEndsKeeps DEF Moves
<1>8. CASE Conclude(d)
  BY <1>8, ConcludeKeeps
<1>9. CASE Publish(d)
  <2>1. /\ Idle(d) /\ Publishable(held[d]) /\ Save(d, Published(held[d]))
        /\ UNCHANGED <<tool, pc, call, crashes>>
    BY <1>9 DEF Publish
  <2>2. Step(held[d], Committed(Published(held[d])))
    BY <2>1 DEF Step
  <2> QED
    BY <2>1, <2>2, SaveOnlyKeeps
<1>10. CASE Crash(d)
  BY <1>10, CrashKeeps DEF Moves
<1> QED
  BY <1>1, <1>2, <1>3, <1>4, <1>5, <1>6, <1>7, <1>8, <1>9, <1>10 DEF Drive

\* A step that takes no action.
LEMMA StutterKeeps ==
  ASSUME Inv, UNCHANGED vars
  PROVE  Inv'
BY DEF vars, Inv, Shape, RowInv, ToolInv, CopyInv, CallInv, Reports

\* The inductive invariant holds.
THEOREM HarnessInvariant == Spec => []Inv
<1>1. Init => Inv
  BY InvInit
<1>2. Inv /\ [Next]_vars => Inv'
  BY NextKeeps, StutterKeeps
<1> QED
  BY <1>1, <1>2, PTL DEF Spec

-----------------------------------------------------------------------------
(* Theorems *)

\* Rows, copies and calls have their types; in particular the key of a call in
\* progress is a key of the tool table.
THEOREM HarnessTypes == Spec => []TypeOK
<1>1. Inv => TypeOK
  BY InvProperties
<1> QED
  BY <1>1, HarnessInvariant, PTL

\* The optimistic lock of SQLiteMainHarnessRepository.save works: a copy with
\* the version of the row is the row.
THEOREM HarnessCopiesAreCurrent == Spec => []CopiesAreCurrent
<1>1. Inv => CopiesAreCurrent
  BY InvProperties
<1> QED
  BY <1>1, HarnessInvariant, PTL

\* No run has a blocked task whose dependencies are completed, after any number
\* of dispatches, rollbacks and replans by any drivers.
THEOREM HarnessStrandsNothing == Spec => []NothingIsStranded
<1>1. Inv => NothingIsStranded
  BY InvProperties
<1> QED
  BY <1>1, HarnessInvariant, PTL

\* The abstract module speaks of the same operations.
LEMMA SameOperations ==
  ASSUME NEW s, NEW n, NEW p, NEW outcome, NEW basis, NEW status
  PROVE  /\ Run!Begun(p) = Begun(p) /\ (Run!Ready(s, n) <=> Ready(s, n))
         /\ Run!Committed(s) = Committed(s) /\ Run!Attempted(s, n, status) = Attempted(s, n, status)
         /\ Run!Reported(s, n, outcome, basis) = Reported(s, n, outcome, basis)
         /\ (Run!Publishable(s) <=> Publishable(s)) /\ Run!Published(s) = Published(s)
         /\ Run!RolledBack(s, n) = RolledBack(s, n) /\ Run!Replanned(s, p) = Replanned(s, p)
<1> USE DEF Run!Completed, Completed
<1>1. Run!Begun(p) = Begun(p)
  BY DEF Run!Begun, Begun
<1>2. (Run!Ready(s, n) <=> Ready(s, n)) /\ (Run!Publishable(s) <=> Publishable(s))
  BY DEF Run!Ready, Ready, Run!Publishable, Publishable
<1>3. Run!Committed(s) = Committed(s) /\ Run!Published(s) = Published(s)
      /\ Run!Attempted(s, n, status) = Attempted(s, n, status)
  BY DEF Run!Committed, Committed, Run!Published, Published, Run!Attempted, Attempted
<1>4. Run!Reported(s, n, outcome, basis) = Reported(s, n, outcome, basis)
  BY DEF Run!Reported, Reported, Run!Unlock, Unlock, Run!WithReport, WithReport,
         Run!Attempted, Attempted
<1>5. Run!RolledBack(s, n) = RolledBack(s, n)
  BY DEF Run!RolledBack, RolledBack, Run!Affected, Affected, Run!ClosedUnder, ClosedUnder
<1>6. Run!Replanned(s, p) = Replanned(s, p)
  BY DEF Run!Replanned, Replanned, Run!Kept, Kept
<1> QED
  BY <1>1, <1>2, <1>3, <1>4, <1>5, <1>6

\* The operations of concurrent drivers, with stale copies, refused calls and
\* crashes, are seen in the row as those of one driver.
THEOREM HarnessImplementsRun == Spec => ImplementsRun
<1>1. Init => Run!Init
  BY DEF Init, Run!Init
<1>2. ASSUME Step(saved, saved'), saved # None PROVE Run!Next
  <2>1. ASSUME NEW n \in DOMAIN saved.dag, Ready(saved, n),
               saved' = Committed(Attempted(saved, n, "failed"))
        PROVE  Run!SolveFails(n)
    BY <2>1, SameOperations DEF Run!SolveFails, Run!Become
  <2>2. ASSUME NEW n \in DOMAIN saved.dag, Ready(saved, n), NEW outcome \in Outcome,
               NEW basis \in SUBSET DOMAIN saved.reports,
               saved' = Committed(Reported(saved, n, outcome, basis))
        PROVE  Run!SolveReports(n)
    BY <2>2, SameOperations DEF Run!SolveReports, Run!Become
  <2>3. ASSUME Publishable(saved), saved' = Committed(Published(saved)) PROVE Run!Publish
    BY <2>3, SameOperations DEF Run!Publish, Run!Become
  <2>4. ASSUME NEW n \in DOMAIN saved.dag, ~saved.terminal,
               saved' = Committed(RolledBack(saved, n))
        PROVE  Run!Rollback(n)
    BY <2>4, SameOperations DEF Run!Rollback, Run!Become
  <2>5. ASSUME NEW p \in Plan, ~saved.terminal, saved' = Committed(Replanned(saved, p))
        PROVE  Run!Replan(p)
    BY <2>5, SameOperations DEF Run!Replan, Run!Become
  <2> QED
    BY <1>2, <2>1, <2>2, <2>3, <2>4, <2>5 DEF Step, Run!Next
<1>3. Inv /\ [Next]_vars => [Run!Next]_saved
  <2> SUFFICES ASSUME Inv, Next PROVE UNCHANGED saved \/ Run!Next
    BY DEF vars
  <2>1. Moves \/ (saved = None /\ \E p \in Opening : saved' = Begun(p))
    BY NextKeeps
  <2>2. CASE saved = None /\ \E p \in Opening : saved' = Begun(p)
    BY <2>2, SameOperations DEF Run!Next, Run!Start
  <2> QED
    BY <1>2, <2>1, <2>2 DEF Moves
<1> QED
  BY <1>1, <1>3, HarnessInvariant, PTL DEF Spec, ImplementsRun, Run!Spec

\* Reports are only added, and a published run stays as it was published.
THEOREM HarnessKeepsHistory == Spec => HistoryIsKept
<1>1. Inv /\ [Next]_vars =>
        [saved # None =>
           /\ Len(saved'.reports) >= Len(saved.reports)
           /\ SubSeq(saved'.reports, 1, Len(saved.reports)) = saved.reports
           /\ saved.terminal => saved'.tasks = saved.tasks /\ saved'.terminal]_vars
  <2> SUFFICES ASSUME Inv, Next, saved # None
               PROVE  Extends(saved', saved)
    BY DEF Extends
  <2>1. IsRun(saved) /\ NoneStranded(saved) /\ AllDone(saved)
    BY DEF Inv, RowInv
  <2>2. UNCHANGED saved \/ Step(saved, saved')
    BY NextKeeps DEF Moves
  <2>3. Extends(saved, saved)
    <3>1. saved.reports \in Seq(Report)
      BY <2>1, RunFields
    <3> QED
      BY <3>1, SubSeqFull DEF Extends
  <2> QED
    BY <2>1, <2>2, <2>3, StepKeeps
<1> QED
  BY <1>1, HarnessInvariant, PTL DEF Spec, HistoryIsKept

\* Only a replan that changes a dependency of a completed task has it completed
\* out of order, for any plans.
THEOREM HarnessLosesOrderByReplanOnly == Spec => OrderLostByReplanOnly
<1>1. Inv /\ [Next]_vars =>
        [saved # None =>
           \A n \in OutOfOrder(saved') \ OutOfOrder(saved) :
             \E m \in saved'.dag[n].deps :
               m \in Completed(saved) /\ saved'.dag[m] # saved.dag[m]]_vars
  <2> SUFFICES ASSUME Inv, Next, saved # None
               PROVE  KeepsOrder(saved, saved')
    BY DEF KeepsOrder
  <2>1. IsRun(saved) /\ NoneStranded(saved) /\ AllDone(saved)
    BY DEF Inv, RowInv
  <2>2. UNCHANGED saved \/ Step(saved, saved')
    BY NextKeeps DEF Moves
  <2>3. KeepsOrder(saved, saved)
    BY DEF KeepsOrder
  <2>4. CASE Step(saved, saved')
    BY <2>1, <2>4, StepKeeps
  <2> QED
    BY <2>2, <2>3, <2>4
<1> QED
  BY <1>1, HarnessInvariant, PTL DEF Spec, OrderLostByReplanOnly

-----------------------------------------------------------------------------
(* Lists of task ids, as sort() leaves them *)

\* How many members of S come before n.
Rank(S, n) == Cardinality({m \in S : m < n})

\* Ranks grow with the members, and are less than their number.
LEMMA RanksGrow ==
  ASSUME NEW S, S \subseteq Nat, IsFiniteSet(S), NEW n \in S
  PROVE  /\ Rank(S, n) \in 0 .. Cardinality(S) - 1
         /\ \A m \in S : m < n => Rank(S, m) < Rank(S, n)
<1>1. \A k : IsFiniteSet({m \in S : m < k}) /\ Cardinality({m \in S : m < k}) \in Nat
  BY FS_Subset, FS_CardinalityType
<1>2. Rank(S, n) < Cardinality(S)
  <2> DEFINE below == {m \in S : m < n}
  <2>1. below \in SUBSET S /\ n \notin below
    OBVIOUS
  <2>2. Cardinality(below) <= Cardinality(S) /\ Cardinality(below) # Cardinality(S)
    <3> HIDE DEF below
    <3> QED BY <2>1, FS_Subset
  <2>3. Cardinality(below) \in Nat /\ Cardinality(S) \in Nat
    BY <1>1, FS_CardinalityType
  <2>4. Rank(S, n) = Cardinality(below)
    BY DEF Rank
  <2> HIDE DEF below
  <2> QED BY <2>2, <2>3, <2>4
<1>3. ASSUME NEW m \in S, m < n PROVE Rank(S, m) < Rank(S, n)
  <2> DEFINE a == {k \in S : k < m}
             b == {k \in S : k < n}
  <2>1. a \in SUBSET b /\ m \in b /\ m \notin a
    <3>1. \A k \in S : k \in Nat
      OBVIOUS
    <3>2. \A k \in S : k < m => k < n
      BY <1>3, <3>1
    <3>3. ~ m < m
      BY <3>1
    <3> QED BY <1>3, <3>2, <3>3
  <2>2. IsFiniteSet(b) /\ Cardinality(a) \in Nat /\ Cardinality(b) \in Nat
    BY <1>1
  <2>3. Cardinality(a) <= Cardinality(b) /\ Cardinality(a) # Cardinality(b)
    <3> HIDE DEF a, b
    <3> QED BY <2>1, <2>2, FS_Subset
  <2> QED BY <2>2, <2>3 DEF Rank
<1> QED
  BY <1>1, <1>2, <1>3, FS_CardinalityType DEF Rank

\* How many places a list of c members has.
LEMMA UpTo ==
  ASSUME NEW c \in Nat
  PROVE  IsFiniteSet(1 .. c) /\ Cardinality(1 .. c) = c
BY FS_Interval

\* sort() lists the members of a finite set, each once and in order.
LEMMA SortedList ==
  ASSUME NEW S, S \subseteq Nat, IsFiniteSet(S)
  PROVE  /\ Cardinality(S) \in Nat
         /\ Sorted(S) \in [1 .. Cardinality(S) -> S]
         /\ \A i, j \in 1 .. Cardinality(S) : i < j => Sorted(S)[i] < Sorted(S)[j]
         /\ \A n \in S : \E i \in 1 .. Cardinality(S) : Sorted(S)[i] = n
<1> DEFINE c == Cardinality(S)
           r == [n \in S |-> Rank(S, n) + 1]
           s == [i \in 1 .. c |-> CHOOSE n \in S : r[n] = i]
<1>1. c \in Nat
  BY FS_CardinalityType
<1>2. \A n \in S : r[n] \in 1 .. c
  <2>1. \A n \in S : Rank(S, n) \in 0 .. c - 1
    BY RanksGrow
  <2> HIDE DEF c
  <2> QED BY <1>1, <2>1
<1>3. \A m, n \in S : m < n => r[m] < r[n]
  <2> TAKE m, n \in S
  <2>1. Rank(S, m) \in Nat /\ Rank(S, n) \in Nat
    <3>1. Rank(S, m) \in 0 .. Cardinality(S) - 1 /\ Rank(S, n) \in 0 .. Cardinality(S) - 1
      BY RanksGrow
    <3> QED BY <1>1, <3>1
  <2>2. m < n => Rank(S, m) < Rank(S, n)
    BY RanksGrow
  <2> QED BY <2>1, <2>2
<1> HIDE DEF c, r
<1>4. \A m, n \in S : m # n => r[m] # r[n]
  <2>1. \A m, n \in S : m # n => m < n \/ n < m
    OBVIOUS
  <2> QED BY <1>1, <1>2, <1>3, <2>1
<1>5. r \in Surjection(S, 1 .. c)
  <2>1. r \in [S -> 1 .. c]
    BY <1>2 DEF r
  <2>2. r \in Injection(S, 1 .. c)
    BY <1>4, <2>1 DEF Injection, IsInjective
  <2> QED BY <1>1, <2>2, FS_Interval, FS_Injection DEF c
<1>6. \A i \in 1 .. c : \E n \in S : r[n] = i
  BY <1>5 DEF Surjection
<1>7. \A i \in 1 .. c : s[i] \in S /\ r[s[i]] = i
  BY <1>6
<1>8. \A n \in S : s[r[n]] = n
  BY <1>2, <1>4, <1>7
<1>9. s \in [1 .. c -> S]
  BY <1>7
<1> HIDE DEF s
<1>10. \A i, j \in 1 .. c : i < j => s[i] < s[j]
  <2> TAKE i, j \in 1 .. c
  <2>1. s[i] \in S /\ s[j] \in S /\ r[s[i]] = i /\ r[s[j]] = j
    BY <1>7
  <2>2. s[i] \in Nat /\ s[j] \in Nat
    BY <2>1
  <2> HIDE DEF s
  <2>5. i \in Nat /\ j \in Nat
    BY <1>1
  <2>3. s[j] < s[i] => j < i
    BY <1>3, <2>1
  <2>4. s[i] = s[j] => i = j
    BY <2>1
  <2> QED BY <2>2, <2>3, <2>4, <2>5
<1> DEFINE Good(f) == \A i, j \in DOMAIN f : i < j => f[i] < f[j]
<1>11. SetToSeqs(S) = {f \in [1 .. c -> S] : \A i, j \in 1 .. c : i # j => f[i] # f[j]}
  BY DEF SetToSeqs, c
<1>12. s \in SetToSeqs(S) /\ Good(s)
  <2>1. \A i, j \in 1 .. c : i # j => s[i] # s[j]
    BY <1>7
  <2> QED BY <1>9, <1>10, <1>11, <2>1
<1>13. Sorted(S) \in SetToSeqs(S) /\ Good(Sorted(S))
  BY <1>12 DEF Sorted
<1>14. /\ Sorted(S) \in [1 .. c -> S]
       /\ \A i, j \in 1 .. c : i # j => Sorted(S)[i] # Sorted(S)[j]
       /\ \A i, j \in 1 .. c : i < j => Sorted(S)[i] < Sorted(S)[j]
  BY <1>11, <1>13
<1>15. Sorted(S) \in Surjection(1 .. c, S)
  <2>1. Sorted(S) \in Injection(1 .. c, S)
    BY <1>14 DEF Injection, IsInjective
  <2> QED BY <1>1, <2>1, FS_Interval, FS_Injection DEF c
<1> QED
  BY <1>1, <1>14, <1>15 DEF Surjection, c

\* A least member of a set of naturals.
LEMMA LeastOf ==
  ASSUME NEW T, T \subseteq Nat, T # {}
  PROVE  \E n \in T : \A m \in T : n <= m
<1>1. PICK x \in T : \A y \in T : ~ (<<y, x>> \in OpToRel(<, Nat))
  BY NatLessThanWellFounded, WFMin
<1>2. \A y \in T : ~ (y < x)
  BY <1>1 DEF OpToRel
<1> QED
  BY <1>2

\* A table as a list of nodes: whatever ids it repeats and whatever it depends on.
IsTable(t) ==
  /\ Len(t.tasks) \in Nat /\ DOMAIN t.tasks = 1 .. Len(t.tasks)
  /\ \A i \in 1 .. Len(t.tasks) :
       t.tasks[i].id \in Nat /\ t.tasks[i].depends_on \in Seq(Nat)

\* Its ids, and the node and dependencies of each.
LEMMA TableFacts ==
  ASSUME NEW t, IsTable(t)
  PROVE  /\ Len(t.tasks) \in Nat
         /\ Ids(t) \subseteq Nat /\ IsFiniteSet(Ids(t))
         /\ Cardinality(Ids(t)) \in Nat /\ Cardinality(Ids(t)) <= Len(t.tasks)
         /\ \A n \in Ids(t) :
              /\ Node(t, n).id = n
              /\ Node(t, n).depends_on \in Seq(Nat)
              /\ Parents(t, n) = {Node(t, n).depends_on[i] : i \in 1 .. Len(Node(t, n).depends_on)}
              /\ Parents(t, n) \subseteq Nat
<1>1. /\ Len(t.tasks) \in Nat /\ DOMAIN t.tasks = 1 .. Len(t.tasks)
      /\ \A i \in 1 .. Len(t.tasks) :
           t.tasks[i].id \in Nat /\ t.tasks[i].depends_on \in Seq(Nat)
  BY DEF IsTable
<1>2. Ids(t) \subseteq Nat
  BY <1>1 DEF Ids
<1>3. IsFiniteSet(Ids(t)) /\ Cardinality(Ids(t)) \in Nat /\ Cardinality(Ids(t)) <= Len(t.tasks)
  <2> DEFINE f == [i \in 1 .. Len(t.tasks) |-> t.tasks[i].id]
  <2>1. f \in Surjection(1 .. Len(t.tasks), Ids(t))
    BY <1>1 DEF Surjection, Ids
  <2>2. IsFiniteSet(1 .. Len(t.tasks)) /\ Cardinality(1 .. Len(t.tasks)) = Len(t.tasks)
    BY <1>1, UpTo
  <2> HIDE DEF f
  <2>3. IsFiniteSet(Ids(t)) /\ Cardinality(Ids(t)) <= Cardinality(1 .. Len(t.tasks))
    BY <2>1, <2>2, FS_Surjection
  <2> QED BY <2>2, <2>3, FS_CardinalityType
<1>4. ASSUME NEW n \in Ids(t)
      PROVE  /\ Node(t, n).id = n
             /\ Node(t, n).depends_on \in Seq(Nat)
  BY <1>1 DEF Ids, Node
<1>5. ASSUME NEW n \in Ids(t)
      PROVE  /\ Parents(t, n) = {Node(t, n).depends_on[i] : i \in 1 .. Len(Node(t, n).depends_on)}
             /\ Parents(t, n) \subseteq Nat
  <2> DEFINE d == Node(t, n).depends_on
  <2>1. d \in Seq(Nat)
    BY <1>4
  <2>2. Parents(t, n) = {d[i] : i \in DOMAIN d}
    BY DEF Parents, ToSet
  <2> HIDE DEF d
  <2>3. Parents(t, n) = {d[i] : i \in 1 .. Len(d)} /\ Parents(t, n) \subseteq Nat
    BY <2>1, <2>2
  <2> QED BY <2>3 DEF d
<1> QED
  BY <1>1, <1>2, <1>3, <1>4, <1>5

\* How often n names a dependency that is not in done.
Missing(t, n, done) ==
  Cardinality({i \in 1 .. Len(Node(t, n).depends_on) : Node(t, n).depends_on[i] \notin done})

\* It is 0 when every dependency is in, and less by those that come in.
LEMMA MissingFacts ==
  ASSUME NEW t, IsTable(t), NEW n \in Ids(t), NEW done
  PROVE  /\ Missing(t, n, done) \in Nat
         /\ Missing(t, n, done) = 0 <=> Parents(t, n) \subseteq done
         /\ \A c : c \notin done =>
              Missing(t, n, done \cup {c}) = Missing(t, n, done) - Times(t, c, n)
<1> DEFINE d == Node(t, n).depends_on
           left == {i \in 1 .. Len(d) : d[i] \notin done}
           these(c) == {i \in 1 .. Len(d) : d[i] = c}
<1>1. d \in Seq(Nat) /\ Len(d) \in Nat /\ DOMAIN d = 1 .. Len(d)
  BY TableFacts
<1>2. Parents(t, n) = {d[i] : i \in 1 .. Len(d)}
  BY TableFacts
<1>3. Missing(t, n, done) = Cardinality(left)
  BY DEF Missing
<1>4. left = {} <=> Parents(t, n) \subseteq done
  BY <1>2
<1>5. left \in SUBSET (1 .. Len(d))
  OBVIOUS
<1>6. \A c : Times(t, c, n) = Cardinality(these(c))
  BY <1>1 DEF Times
<1>7. ASSUME NEW c, c \notin done
      PROVE  /\ Missing(t, n, done \cup {c}) = Cardinality(left \ these(c))
             /\ left \cap these(c) = these(c)
  <2>1. {i \in 1 .. Len(d) : d[i] \notin done \cup {c}} = left \ these(c)
    OBVIOUS
  <2> QED BY <1>7, <2>1 DEF Missing
<1> HIDE DEF d, left, these
<1>8. IsFiniteSet(left) /\ Cardinality(left) \in Nat
  <2>1. IsFiniteSet(1 .. Len(d))
    BY <1>1, UpTo
  <2>2. IsFiniteSet(left)
    BY <1>5, <2>1, FS_Subset
  <2> QED BY <2>2, FS_CardinalityType
<1>9. Cardinality(left) = 0 <=> left = {}
  BY <1>8, FS_EmptySet
<1>10. ASSUME NEW c, c \notin done
       PROVE  Missing(t, n, done \cup {c}) = Missing(t, n, done) - Times(t, c, n)
  <2>1. Cardinality(left \ these(c)) = Cardinality(left) - Cardinality(left \cap these(c))
    BY <1>8, FS_Difference
  <2> QED BY <1>3, <1>6, <1>7, <1>10, <2>1
<1> QED
  BY <1>3, <1>4, <1>8, <1>9, <1>10

-----------------------------------------------------------------------------
(* A state of the loop *)

\* The tasks that are not taken, with every dependency taken.
Open(t, done) == {n \in Ids(t) \ done : Parents(t, n) \subseteq done}

\* order is a beginning of an order with every task after its dependencies.
Sound(t, order) ==
  /\ order \in Seq(Ids(t))
  /\ \A i, j \in 1 .. Len(order) : order[i] = order[j] => i = j
  /\ \A i \in 1 .. Len(order) : \A p \in Parents(t, order[i]) : \E j \in 1 .. i - 1 : order[j] = p

\* No such order of all tasks comes before it.
Leads(t, order) ==
  \A o \in Extensions(t) :
    \/ \A i \in 1 .. Len(order) : order[i] = o[i]
    \/ \E i \in 1 .. Len(order) : order[i] < o[i] /\ \A j \in 1 .. i - 1 : order[j] = o[j]

LoopInv(t, s) ==
  /\ Sound(t, s.order) /\ Leads(t, s.order)
  /\ s.indegree = [n \in Ids(t) |-> Missing(t, n, ToSet(s.order))]
  /\ s.ready = Sorted(Open(t, ToSet(s.order)))

\* A sorted list as a sequence.
LEMMA ListFacts ==
  ASSUME NEW S, S \subseteq Nat, IsFiniteSet(S)
  PROVE  /\ Sorted(S) \in Seq(S)
         /\ ToSet(Sorted(S)) = S
         /\ Sorted(S) = <<>> <=> S = {}
         /\ S # {} => /\ Head(Sorted(S)) \in S
                      /\ \A n \in S : Head(Sorted(S)) <= n
                      /\ ToSet(Tail(Sorted(S))) = S \ {Head(Sorted(S))}
<1> DEFINE q == Sorted(S)
           c == Cardinality(S)
<1>1. /\ c \in Nat /\ q \in [1 .. c -> S]
      /\ \A i, j \in 1 .. c : i < j => q[i] < q[j]
      /\ \A n \in S : \E i \in 1 .. c : q[i] = n
  BY SortedList
<1> HIDE DEF q, c
<1>2. q \in Seq(S) /\ Len(q) = c /\ DOMAIN q = 1 .. c
  BY <1>1
<1>3. ToSet(q) = S
  BY <1>1, <1>2 DEF ToSet
<1>4. (q = <<>> <=> S = {}) /\ (c = 0 <=> S = {})
  <2>1. c = 0 <=> S = {}
    BY FS_EmptySet DEF c
  <2> QED BY <1>2, <2>1
<1>5. ASSUME S # {}
      PROVE  /\ Head(q) \in S
             /\ \A n \in S : Head(q) <= n
             /\ ToSet(Tail(q)) = S \ {Head(q)}
  <2>1. c # 0 /\ q # <<>>
    BY <1>4, <1>5
  <2>2. c >= 1 /\ Head(q) = q[1] /\ 1 \in 1 .. c
    BY <1>1, <1>2, <2>1
  <2>3. q[1] \in S /\ q[1] \in Nat
    BY <1>1, <2>2
  <2>4. \A i \in 2 .. c : q[1] < q[i]
    BY <1>1, <2>2
  <2>5. \A n \in S : q[1] = n \/ q[1] < n
    <3> TAKE n \in S
    <3>1. PICK i \in 1 .. c : q[i] = n
      BY <1>1
    <3> QED BY <1>1, <2>4, <3>1
  <2>6. \A n \in S : n \in Nat
    OBVIOUS
  <2>7. \A n \in S : q[1] <= n
    BY <2>3, <2>5, <2>6
  <2>8. Tail(q) \in Seq(S) /\ Len(Tail(q)) = c - 1 /\ \A i \in 1 .. c - 1 : Tail(q)[i] = q[i + 1]
    BY <1>2, <2>1
  <2>9. ToSet(Tail(q)) = {q[i + 1] : i \in 1 .. c - 1}
    <3>1. DOMAIN Tail(q) = 1 .. c - 1
      BY <2>8
    <3> QED BY <2>8, <3>1 DEF ToSet
  <2>10. ASSUME NEW n \in S, n # q[1] PROVE n \in ToSet(Tail(q))
    <3>1. PICK i \in 1 .. c : q[i] = n
      BY <1>1
    <3>2. i - 1 \in 1 .. c - 1 /\ i - 1 + 1 = i
      BY <1>1, <2>10, <3>1
    <3> QED BY <2>9, <3>1, <3>2
  <2>11. ASSUME NEW n \in ToSet(Tail(q)) PROVE n \in S /\ n # q[1]
    <3>1. PICK i \in 1 .. c - 1 : q[i + 1] = n
      BY <2>9
    <3>2. i + 1 \in 2 .. c /\ i + 1 \in 1 .. c
      BY <1>1, <3>1
    <3>3. q[i + 1] \in S /\ q[1] < q[i + 1] /\ q[i + 1] \in Nat
      BY <1>1, <2>4, <3>2
    <3> QED BY <2>3, <3>1, <3>3
  <2> QED BY <2>2, <2>3, <2>7, <2>10, <2>11
<1> QED
  BY <1>2, <1>3, <1>4, <1>5 DEF q

\* The orders of all tasks that respect the dependencies.
LEMMA ExtensionFacts ==
  ASSUME NEW t, IsTable(t), NEW o \in Extensions(t)
  PROVE  /\ DOMAIN o = 1 .. Cardinality(Ids(t))
         /\ \A i \in 1 .. Cardinality(Ids(t)) : o[i] \in Ids(t)
         /\ \A i, j \in 1 .. Cardinality(Ids(t)) : o[i] = o[j] => i = j
         /\ \A n \in Ids(t) : \E i \in 1 .. Cardinality(Ids(t)) : o[i] = n
         /\ \A i, j \in 1 .. Cardinality(Ids(t)) : o[i] \in Parents(t, o[j]) => i < j
<1> DEFINE c == Cardinality(Ids(t))
<1>1. c \in Nat /\ IsFiniteSet(Ids(t))
  BY TableFacts
<1>2. /\ o \in [1 .. c -> Ids(t)]
      /\ \A i, j \in 1 .. c : i # j => o[i] # o[j]
      /\ \A i, j \in DOMAIN o : o[i] \in Parents(t, o[j]) => i < j
  BY DEF Extensions, SetToSeqs
<1>3. o \in Injection(1 .. c, Ids(t))
  BY <1>2 DEF Injection, IsInjective
<1>4. o \in Surjection(1 .. c, Ids(t))
  <2>1. Cardinality(1 .. c) = c /\ IsFiniteSet(1 .. c)
    BY <1>1, UpTo
  <2> QED BY <1>1, <1>3, <2>1, FS_Injection
<1> QED
  BY <1>2, <1>4 DEF Surjection

\* What is open when nothing is taken, and when one that is open is taken.
LEMMA OpenFacts ==
  ASSUME NEW t, IsTable(t), NEW order, Sound(t, order),
         NEW c \in Open(t, ToSet(order))
  PROVE  LET done == ToSet(order)
             now == {n \in Children(t, c) : Parents(t, n) \subseteq done \cup {c}}
         IN  /\ c \notin done /\ c \in Ids(t) /\ Parents(t, c) \subseteq done
             /\ (Open(t, done) \ {c}) \cup now = Open(t, done \cup {c})
<1> DEFINE done == ToSet(order)
           now == {n \in Children(t, c) : Parents(t, n) \subseteq done \cup {c}}
<1>1. c \notin done /\ c \in Ids(t) /\ Parents(t, c) \subseteq done
  BY DEF Open
<1>2. done = {order[i] : i \in 1 .. Len(order)} /\ Len(order) \in Nat
  BY DEF Sound, ToSet
<1>3. \A n \in done : Parents(t, n) \subseteq done
  <2> SUFFICES ASSUME NEW i \in 1 .. Len(order), NEW p \in Parents(t, order[i])
               PROVE  p \in done
    BY <1>2
  <2>1. PICK j \in 1 .. i - 1 : order[j] = p
    BY DEF Sound
  <2>2. j \in 1 .. Len(order)
    BY <1>2
  <2> QED BY <1>2, <2>1, <2>2
<1> HIDE DEF done
<1>4. \A n : n \in now => n \in Ids(t) /\ n \notin done \cup {c}
  BY <1>1, <1>3 DEF Children
<1>5. ASSUME NEW n \in Open(t, done \cup {c}) PROVE n \in (Open(t, done) \ {c}) \cup now
  <2>1. n \in Ids(t) /\ n \notin done /\ n # c /\ Parents(t, n) \subseteq done \cup {c}
    BY <1>5 DEF Open
  <2>2. CASE c \in Parents(t, n)
    BY <2>1, <2>2 DEF Children
  <2>3. CASE c \notin Parents(t, n)
    BY <2>1, <2>3 DEF Open
  <2> QED BY <2>2, <2>3
<1>6. ASSUME NEW n \in (Open(t, done) \ {c}) \cup now PROVE n \in Open(t, done \cup {c})
  BY <1>4, <1>6 DEF Open
<1>7. (Open(t, done) \ {c}) \cup now = Open(t, done \cup {c})
  BY <1>5, <1>6
<1> QED
  BY <1>1, <1>7 DEF done

\* Taking one more.
LEMMA TakeOne ==
  ASSUME NEW t, IsTable(t), NEW order, Sound(t, order), NEW c \in Open(t, ToSet(order))
  PROVE  /\ Sound(t, Append(order, c))
         /\ ToSet(Append(order, c)) = ToSet(order) \cup {c}
<1> DEFINE a == Append(order, c)
<1>1. /\ order \in Seq(Ids(t)) /\ c \in Ids(t)
      /\ c \notin ToSet(order) /\ Parents(t, c) \subseteq ToSet(order)
  BY DEF Sound, Open
<1>2. /\ Len(order) \in Nat /\ a \in Seq(Ids(t)) /\ Len(a) = Len(order) + 1 /\ a[Len(order) + 1] = c
      /\ \A i \in 1 .. Len(order) : a[i] = order[i]
  BY <1>1
<1>3. ToSet(order) = {order[i] : i \in 1 .. Len(order)} /\ DOMAIN a = 1 .. Len(order) + 1
  BY <1>1, <1>2 DEF ToSet
<1> HIDE DEF a
<1>4. \A i \in 1 .. Len(order) + 1 : i \in 1 .. Len(order) \/ i = Len(order) + 1
  BY <1>2
<1>5. \A i \in 1 .. Len(order) : i \in 1 .. Len(order) + 1
  BY <1>2
<1>6. ToSet(a) = ToSet(order) \cup {c}
  <2>1. ToSet(a) = {a[i] : i \in 1 .. Len(order) + 1}
    BY <1>3 DEF ToSet
  <2>2. Len(order) + 1 \in 1 .. Len(order) + 1
    BY <1>2
  <2>3. \A n \in ToSet(a) : n \in ToSet(order) \cup {c}
    BY <1>2, <1>3, <1>4, <2>1
  <2>4. \A n \in ToSet(order) : n \in ToSet(a)
    BY <1>2, <1>3, <1>5, <2>1
  <2>5. c \in ToSet(a)
    BY <1>2, <2>1, <2>2
  <2> QED BY <2>3, <2>4, <2>5
<1>7. \A i, j \in 1 .. Len(order) + 1 : a[i] = a[j] => i = j
  BY <1>1, <1>2, <1>3, <1>4 DEF Sound
<1>8. \A i \in 1 .. Len(order) + 1 : \A p \in Parents(t, a[i]) : \E j \in 1 .. i - 1 : a[j] = p
  <2> TAKE i \in 1 .. Len(order) + 1
  <2> TAKE p \in Parents(t, a[i])
  <2>1. CASE i \in 1 .. Len(order)
    <3>1. PICK j \in 1 .. i - 1 : order[j] = p
      BY <1>2, <2>1 DEF Sound
    <3>2. j \in 1 .. Len(order)
      BY <1>2, <2>1
    <3> QED BY <1>2, <3>1, <3>2
  <2>2. CASE i = Len(order) + 1
    <3>1. PICK j \in 1 .. Len(order) : order[j] = p
      BY <1>1, <1>2, <1>3, <2>2
    <3>2. j \in 1 .. i - 1
      BY <1>2, <2>2
    <3> QED BY <1>2, <3>1, <3>2
  <2> QED BY <1>4, <2>1, <2>2
<1> QED
  BY <1>2, <1>6, <1>7, <1>8 DEF Sound, a

\* As many tasks are taken as the order has places: at most all of them.
LEMMA OrderLength ==
  ASSUME NEW t, IsTable(t), NEW order, Sound(t, order)
  PROVE  /\ Len(order) \in Nat
         /\ ToSet(order) \subseteq Ids(t) /\ IsFiniteSet(ToSet(order))
         /\ Cardinality(ToSet(order)) = Len(order)
         /\ Len(order) <= Cardinality(Ids(t))
         /\ Len(order) = Cardinality(Ids(t)) <=> ToSet(order) = Ids(t)
<1>1. order \in Seq(Ids(t)) /\ Len(order) \in Nat /\ DOMAIN order = 1 .. Len(order)
  BY DEF Sound
<1>2. ToSet(order) = {order[i] : i \in 1 .. Len(order)} /\ ToSet(order) \subseteq Ids(t)
  BY <1>1 DEF ToSet
<1>3. order \in Bijection(1 .. Len(order), ToSet(order))
  <2>1. order \in [1 .. Len(order) -> ToSet(order)]
    BY <1>1, <1>2
  <2> QED BY <1>2, <2>1 DEF Sound, Bijection, Injection, Surjection, IsInjective
<1>4. Cardinality(ToSet(order)) = Len(order)
  BY <1>1, <1>3, FS_CountingElements DEF ExistsBijection
<1>5. IsFiniteSet(Ids(t))
  BY TableFacts
<1> HIDE DEF ToSet
<1>6. /\ IsFiniteSet(ToSet(order)) /\ Cardinality(ToSet(order)) <= Cardinality(Ids(t))
      /\ Cardinality(Ids(t)) = Cardinality(ToSet(order)) => Ids(t) = ToSet(order)
  BY <1>2, <1>5, FS_Subset
<1> QED
  BY <1>1, <1>2, <1>4, <1>6

\* Every dependency is a task, if only the task itself.
AllKnown(t) == \A n \in Ids(t) : Parents(t, n) \subseteq Ids(t)

\* The least open task is where an order that comes before would have to differ.
LEMMA LeadsOn ==
  ASSUME NEW t, IsTable(t), AllKnown(t), NEW order, Sound(t, order), Leads(t, order),
         NEW c \in Open(t, ToSet(order)), \A n \in Open(t, ToSet(order)) : c <= n
  PROVE  Leads(t, Append(order, c))
<1> DEFINE a == Append(order, c)
           k == Len(order)
<1>1. order \in Seq(Ids(t)) /\ c \in Ids(t) /\ c \notin ToSet(order)
  BY DEF Sound, Open
<1>2. /\ k \in Nat /\ Len(a) = k + 1 /\ a[k + 1] = c
      /\ \A i \in 1 .. k : a[i] = order[i]
  BY <1>1
<1>3. ToSet(order) = {order[i] : i \in 1 .. k} /\ ToSet(order) \subseteq Ids(t)
  BY <1>1 DEF ToSet
<1>4. k + 1 \in 1 .. Cardinality(Ids(t)) /\ Cardinality(Ids(t)) \in Nat
  <2>1. ToSet(order) # Ids(t)
    BY <1>1
  <2> QED BY <1>2, <2>1, OrderLength, TableFacts
<1> HIDE DEF a
<1> SUFFICES ASSUME NEW o \in Extensions(t)
             PROVE  \/ \A i \in 1 .. k + 1 : a[i] = o[i]
                    \/ \E i \in 1 .. k + 1 : a[i] < o[i] /\ \A j \in 1 .. i - 1 : a[j] = o[j]
  BY <1>2 DEF Leads, a
<1>5. CASE \E i \in 1 .. k : order[i] < o[i] /\ \A j \in 1 .. i - 1 : order[j] = o[j]
  <2>1. PICK i \in 1 .. k : order[i] < o[i] /\ \A j \in 1 .. i - 1 : order[j] = o[j]
    BY <1>5
  <2>2. i \in 1 .. k + 1 /\ \A j \in 1 .. i - 1 : j \in 1 .. k
    BY <1>2, <2>1
  <2> QED BY <1>2, <2>1, <2>2
<1>6. CASE \A i \in 1 .. k : order[i] = o[i]
  <2>1. o[k + 1] \in Ids(t) /\ o[k + 1] \in Nat /\ c \in Nat
    BY <1>1, <1>4, ExtensionFacts, TableFacts
  <2>2. \A i \in 1 .. k : i \in 1 .. Cardinality(Ids(t)) /\ i # k + 1
    BY <1>2, <1>4
  <2>3. o[k + 1] \notin ToSet(order)
    BY <1>3, <1>4, <1>6, <2>2, ExtensionFacts
  <2>4. ASSUME NEW p \in Parents(t, o[k + 1]) PROVE p \in ToSet(order)
    <3>1. p \in Ids(t)
      BY <2>1, <2>4 DEF AllKnown
    <3>2. PICK i \in 1 .. Cardinality(Ids(t)) : o[i] = p
      BY <3>1, ExtensionFacts
    <3>3. i < k + 1
      BY <1>4, <2>4, <3>2, ExtensionFacts
    <3>4. i \in 1 .. k
      BY <1>2, <1>4, <3>3
    <3> QED BY <1>3, <1>6, <3>2, <3>4
  <2>5. o[k + 1] \in Open(t, ToSet(order))
    BY <2>1, <2>3, <2>4 DEF Open
  <2>6. c <= o[k + 1]
    BY <2>5
  <2>7. \A i \in 1 .. k + 1 : i \in 1 .. k \/ i = k + 1
    BY <1>2
  <2>8. CASE c = o[k + 1]
    BY <1>2, <1>6, <2>7, <2>8
  <2>9. CASE c < o[k + 1]
    <3>1. k + 1 \in 1 .. k + 1 /\ \A j \in 1 .. k + 1 - 1 : j \in 1 .. k
      BY <1>2
    <3> QED BY <1>2, <1>6, <2>9, <3>1
  <2> QED BY <2>1, <2>6, <2>8, <2>9
<1> QED
  BY <1>2, <1>5, <1>6 DEF Leads

\* The start of the loop.
LEMMA StartInv ==
  ASSUME NEW t, IsTable(t)
  PROVE  LoopInv(t, OrderStart(t))
<1> DEFINE s == OrderStart(t)
<1>1. s.order = <<>> /\ ToSet(s.order) = {} /\ Len(s.order) = 0
  BY DEF OrderStart, ToSet
<1>2. Sound(t, s.order) /\ Leads(t, s.order)
  <2> HIDE DEF s
  <2> QED BY <1>1 DEF Sound, Leads
<1>3. \A n \in Ids(t) : Len(Node(t, n).depends_on) = Missing(t, n, {})
  <2> TAKE n \in Ids(t)
  <2> DEFINE d == Node(t, n).depends_on
  <2>1. Len(d) \in Nat
    BY TableFacts
  <2>2. {i \in 1 .. Len(d) : d[i] \notin {}} = 1 .. Len(d)
    OBVIOUS
  <2>3. Cardinality(1 .. Len(d)) = Len(d)
    BY <2>1, UpTo
  <2> QED BY <2>2, <2>3 DEF Missing
<1>4. s.indegree = [n \in Ids(t) |-> Missing(t, n, {})]
  BY <1>3 DEF OrderStart
<1>5. \A n \in Ids(t) : Missing(t, n, {}) = 0 <=> Parents(t, n) \subseteq {}
  BY MissingFacts
<1>6. {n \in Ids(t) : s.indegree[n] = 0} = Open(t, {})
  <2> HIDE DEF s
  <2> QED BY <1>4, <1>5 DEF Open
<1>7. s.ready = Sorted({n \in Ids(t) : s.indegree[n] = 0})
  BY DEF OrderStart
<1> HIDE DEF s
<1> QED
  BY <1>1, <1>2, <1>4, <1>6, <1>7 DEF LoopInv, s

\* A turn of the loop takes the least open task.
LEMMA TurnInv ==
  ASSUME NEW t, IsTable(t), AllKnown(t), NEW s, LoopInv(t, s), s.ready # <<>>
  PROVE  /\ LoopInv(t, OrderStep(t, s))
         /\ Len(OrderStep(t, s).order) = Len(s.order) + 1
<1> DEFINE done == ToSet(s.order)
           c == Head(s.ready)
           u == OrderStep(t, s)
           now == {n \in Children(t, c) : Parents(t, n) \subseteq done \cup {c}}
<1>1. Open(t, done) \subseteq Nat /\ IsFiniteSet(Open(t, done))
  <2>1. Open(t, done) \in SUBSET Ids(t)
    BY DEF Open
  <2> QED BY <2>1, TableFacts, FS_Subset
<1>2. /\ s.ready = Sorted(Open(t, done)) /\ Sound(t, s.order) /\ Leads(t, s.order)
      /\ s.indegree = [n \in Ids(t) |-> Missing(t, n, done)]
  BY DEF LoopInv
<1>3. /\ c \in Open(t, done) /\ \A n \in Open(t, done) : c <= n
      /\ ToSet(Tail(s.ready)) = Open(t, done) \ {c}
  <2> HIDE DEF done
  <2> QED BY <1>1, <1>2, ListFacts
<1>4. /\ c \notin done /\ c \in Ids(t)
      /\ (Open(t, done) \ {c}) \cup now = Open(t, done \cup {c})
  BY <1>2, <1>3, OpenFacts
<1>5. /\ u.order = Append(s.order, c)
      /\ u.indegree = [n \in Ids(t) |-> s.indegree[n] - Times(t, c, n)]
      /\ u.ready = Listed(Tail(s.ready),
                          {n \in Children(t, c) : s.indegree[n] - Times(t, c, n) = 0})
  <2>1. \A n \in Children(t, c) : n \in Ids(t)
    BY DEF Children
  <2>2. {n \in Children(t, c) : [m \in Ids(t) |-> s.indegree[m] - Times(t, c, m)][n] = 0}
        = {n \in Children(t, c) : s.indegree[n] - Times(t, c, n) = 0}
    BY <2>1
  <2> QED BY <2>2 DEF OrderStep
<1> HIDE DEF c, u, done
<1>6. \A n \in Ids(t) :
        /\ Missing(t, n, done \cup {c}) = s.indegree[n] - Times(t, c, n)
        /\ Missing(t, n, done \cup {c}) = 0 <=> Parents(t, n) \subseteq done \cup {c}
  <2> TAKE n \in Ids(t)
  <2>1. Missing(t, n, done \cup {c}) = s.indegree[n] - Times(t, c, n)
    BY <1>2, <1>4, MissingFacts
  <2>3. Missing(t, n, done \cup {c}) = 0 <=> Parents(t, n) \subseteq done \cup {c}
    BY MissingFacts
  <2> QED BY <2>1, <2>3
<1>7. {n \in Children(t, c) : s.indegree[n] - Times(t, c, n) = 0} = now
  <2>1. \A n \in Children(t, c) : n \in Ids(t)
    BY DEF Children
  <2> QED BY <1>6, <2>1
<1>8. ToSet(u.order) = done \cup {c} /\ Sound(t, u.order)
  BY <1>2, <1>3, <1>5, TakeOne DEF done
<1>9. Leads(t, u.order)
  BY <1>2, <1>3, <1>5, LeadsOn DEF done
<1>10. u.indegree = [n \in Ids(t) |-> Missing(t, n, ToSet(u.order))]
  BY <1>5, <1>6, <1>8
<1>11. u.ready = Sorted(Open(t, ToSet(u.order)))
  BY <1>3, <1>4, <1>5, <1>7, <1>8 DEF Listed
<1>12. Len(u.order) = Len(s.order) + 1
  BY <1>2, <1>4, <1>5 DEF Sound
<1> QED
  BY <1>8, <1>9, <1>10, <1>11, <1>12 DEF LoopInv, u

\* A turn, and the turns up to the kth.
Turn(t, s) == IF s.ready = <<>> THEN s ELSE OrderStep(t, s)
Turns(t, k, f) == [i \in 0 .. k |-> IF i = 0 THEN OrderStart(t) ELSE Turn(t, f[i - 1])]

\* They are a function: one turn more extends it.
LEMMA TurnsExist ==
  ASSUME NEW t, NEW k \in Nat
  PROVE  \E f : f = Turns(t, k, f)
<1> DEFINE T == {n \in Nat : ~ \E f : f = Turns(t, n, f)}
<1> SUFFICES ASSUME T # {} PROVE FALSE
  OBVIOUS
<1>1. PICK n \in T : \A m \in T : n <= m
  BY LeastOf
<1>2. n # 0
  <2> DEFINE f == [i \in 0 .. 0 |-> OrderStart(t)]
  <2>1. f = Turns(t, 0, f)
    BY DEF Turns
  <2> HIDE DEF f
  <2> QED BY <2>1
<1>3. n - 1 \in Nat /\ n - 1 \notin T /\ n \in Nat
  BY <1>1, <1>2
<1>4. PICK f : f = Turns(t, n - 1, f)
  BY <1>3
<1>5. \A i \in 0 .. n - 1 : f[i] = IF i = 0 THEN OrderStart(t) ELSE Turn(t, f[i - 1])
  BY <1>4 DEF Turns
<1> DEFINE g == [i \in 0 .. n |-> IF i = n THEN Turn(t, f[n - 1]) ELSE f[i]]
<1>6. \A i \in 0 .. n : g[i] = IF i = 0 THEN OrderStart(t) ELSE Turn(t, g[i - 1])
  <2> TAKE i \in 0 .. n
  <2>1. CASE i = 0
    BY <1>2, <1>3, <1>5, <2>1
  <2>2. CASE i = n
    <3>1. n - 1 \in 0 .. n /\ n - 1 # n
      BY <1>3
    <3> QED BY <1>2, <2>2, <3>1
  <2>3. CASE i # 0 /\ i # n
    <3>1. i \in 0 .. n - 1 /\ i - 1 \in 0 .. n /\ i - 1 # n
      BY <1>3, <2>3
    <3> QED BY <1>5, <2>3, <3>1
  <2> QED BY <2>1, <2>2, <2>3
<1>7. g = [i \in 0 .. n |-> g[i]]
  OBVIOUS
<1> HIDE DEF g
<1>8. g = Turns(t, n, g)
  BY <1>6, <1>7 DEF Turns
<1> QED
  BY <1>1, <1>8

\* topological_order() as a sequence of loop states.
LEMMA LoopRuns ==
  ASSUME NEW t, IsTable(t)
  PROVE  \E f : /\ f[0] = OrderStart(t)
                /\ \A k \in 1 .. Len(t.tasks) : f[k] = Turn(t, f[k - 1])
                /\ Ordered(t) = f[Len(t.tasks)].order
<1>1. Len(t.tasks) \in Nat
  BY TableFacts
<1> DEFINE f == CHOOSE f : f = Turns(t, Len(t.tasks), f)
<1>2. f = Turns(t, Len(t.tasks), f)
  BY <1>1, TurnsExist
<1>3. Ordered(t) = f[Len(t.tasks)].order
  BY DEF Ordered, Turns, Turn
<1> HIDE DEF f
<1>4. \A i \in 0 .. Len(t.tasks) : f[i] = IF i = 0 THEN OrderStart(t) ELSE Turn(t, f[i - 1])
  BY <1>2 DEF Turns
<1>5. f[0] = OrderStart(t) /\ \A k \in 1 .. Len(t.tasks) : f[k] = Turn(t, f[k - 1])
  BY <1>1, <1>4
<1> QED
  BY <1>3, <1>5

\* What the loop leaves.
LEMMA LoopEnds ==
  ASSUME NEW t, IsTable(t), AllKnown(t)
  PROVE  /\ Sound(t, Ordered(t)) /\ Leads(t, Ordered(t))
         /\ HasOrder(t) \/ Open(t, ToSet(Ordered(t))) = {}
<1>1. Len(t.tasks) \in Nat
  BY TableFacts
<1>2. PICK f : /\ f[0] = OrderStart(t)
               /\ \A k \in 1 .. Len(t.tasks) : f[k] = Turn(t, f[k - 1])
               /\ Ordered(t) = f[Len(t.tasks)].order
  BY LoopRuns
<1> DEFINE Good(k) == LoopInv(t, f[k]) /\ (f[k].ready = <<>> \/ Len(f[k].order) = k)
           T == {k \in 0 .. Len(t.tasks) : ~ Good(k)}
<1>3. T = {}
  <2> SUFFICES ASSUME T # {} PROVE FALSE
    OBVIOUS
  <2>1. PICK k \in T : \A m \in T : k <= m
    <3>1. T \subseteq Nat
      BY <1>1
    <3> HIDE DEF T
    <3> QED BY <3>1, LeastOf
  <2>2. k # 0
    <3>1. LoopInv(t, f[0]) /\ Len(f[0].order) = 0
      BY <1>2, StartInv DEF OrderStart
    <3> QED BY <2>1, <3>1
  <2>3. k \in 1 .. Len(t.tasks) /\ k - 1 \in 0 .. Len(t.tasks) /\ k - 1 < k /\ k \in Nat
    BY <1>1, <2>1, <2>2
  <2>4. Good(k - 1)
    <3>1. k - 1 \notin T
      BY <2>1, <2>3
    <3> QED BY <2>3, <3>1
  <2>5. f[k] = Turn(t, f[k - 1])
    BY <1>2, <2>3
  <2>6. CASE f[k - 1].ready = <<>>
    BY <2>1, <2>4, <2>5, <2>6 DEF Turn
  <2>7. CASE f[k - 1].ready # <<>>
    <3>1. f[k] = OrderStep(t, f[k - 1]) /\ LoopInv(t, f[k - 1])
      BY <2>4, <2>5, <2>7 DEF Turn
    <3>2. LoopInv(t, f[k]) /\ Len(f[k].order) = Len(f[k - 1].order) + 1
      BY <2>7, <3>1, TurnInv
    <3>3. Len(f[k].order) = k
      BY <2>3, <2>4, <2>7, <3>2
    <3> QED BY <2>1, <3>2, <3>3
  <2> QED BY <2>6, <2>7
<1>4. Good(Len(t.tasks))
  BY <1>1, <1>3
<1> HIDE DEF T
<1>5. Sound(t, Ordered(t)) /\ Leads(t, Ordered(t))
  BY <1>2, <1>4 DEF LoopInv
<1>6. CASE Len(Ordered(t)) = Len(t.tasks)
  BY <1>2, <1>5, <1>6, OrderLength, TableFacts DEF HasOrder
<1>7. CASE f[Len(t.tasks)].ready = <<>>
  <2> DEFINE open == Open(t, ToSet(Ordered(t)))
  <2>1. Sorted(open) = <<>>
    BY <1>2, <1>4, <1>7 DEF LoopInv
  <2>2. open \in SUBSET Ids(t)
    BY DEF Open
  <2>3. open \subseteq Nat /\ IsFiniteSet(open)
    BY <2>2, TableFacts, FS_Subset
  <2> HIDE DEF open
  <2>4. open = {}
    BY <2>1, <2>3, ListFacts
  <2> QED BY <1>5, <2>4 DEF open
<1> QED
  BY <1>2, <1>4, <1>5, <1>6, <1>7

\* A table has an order exactly if no set of its tasks waits for itself.
LEMMA OrderedIfAcyclic ==
  ASSUME NEW t, IsTable(t), AllKnown(t)
  PROVE  HasOrder(t) <=> Acyclic(t)
<1> DEFINE done == ToSet(Ordered(t))
<1>1. Sound(t, Ordered(t)) /\ (HasOrder(t) \/ Open(t, done) = {})
  BY LoopEnds
<1>2. done \subseteq Ids(t) /\ (HasOrder(t) <=> done = Ids(t))
  BY <1>1, OrderLength DEF HasOrder
<1>3. ASSUME ~ HasOrder(t) PROVE ~ Acyclic(t)
  <2> DEFINE rest == Ids(t) \ done
  <2>1. rest \in SUBSET Ids(t) /\ rest # {}
    BY <1>2, <1>3
  <2>2. Open(t, done) = {}
    BY <1>1, <1>3
  <2>3. \A n \in rest : Parents(t, n) \cap rest # {}
    <3> TAKE n \in rest
    <3>1. ~ Parents(t, n) \subseteq done /\ Parents(t, n) \subseteq Ids(t)
      BY <2>2 DEF Open, AllKnown
    <3> QED BY <3>1
  <2> HIDE DEF rest
  <2> QED BY <2>1, <2>3 DEF Acyclic
<1>4. ASSUME HasOrder(t) PROVE Acyclic(t)
  <2> SUFFICES ASSUME NEW set \in SUBSET Ids(t), set # {}
               PROVE  \E n \in set : Parents(t, n) \cap set = {}
    BY DEF Acyclic
  <2> DEFINE o == Ordered(t)
             T == {i \in 1 .. Len(o) : o[i] \in set}
  <2>1. o \in Seq(Ids(t)) /\ Len(o) \in Nat /\ DOMAIN o = 1 .. Len(o)
    BY <1>1 DEF Sound
  <2>2. Ids(t) = {o[i] : i \in 1 .. Len(o)}
    BY <1>2, <1>4, <2>1 DEF ToSet
  <2> HIDE DEF o
  <2>3. T # {} /\ T \subseteq Nat
    BY <2>1, <2>2
  <2>4. PICK i \in T : \A j \in T : i <= j
    <3> HIDE DEF T
    <3> QED BY <2>3, LeastOf
  <2>5. ASSUME NEW p \in Parents(t, o[i]), p \in set PROVE FALSE
    <3>1. PICK j \in 1 .. i - 1 : o[j] = p
      BY <1>1, <2>4, <2>5 DEF Sound, o
    <3>2. j \in T /\ j < i
      BY <2>1, <2>4, <2>5, <3>1
    <3> QED BY <2>1, <2>4, <3>2
  <2> QED BY <2>4, <2>5
<1> QED
  BY <1>3, <1>4

\* And then it is the first of all that respect the dependencies.
LEMMA OrderedIsLeast ==
  ASSUME NEW t, IsTable(t), AllKnown(t), HasOrder(t)
  PROVE  IsLeast(t, Ordered(t))
<1> DEFINE o == Ordered(t)
           c == Cardinality(Ids(t))
<1>1. Sound(t, o) /\ Leads(t, o) /\ Len(o) = c /\ c \in Nat
  BY LoopEnds, TableFacts DEF HasOrder
<1>2. o \in [1 .. c -> Ids(t)] /\ DOMAIN o = 1 .. c
  BY <1>1 DEF Sound
<1> HIDE DEF o, c
<1>3. o \in Extensions(t)
  <2>1. o \in SetToSeqs(Ids(t))
    BY <1>1, <1>2 DEF SetToSeqs, Sound, c
  <2>2. ASSUME NEW i \in 1 .. c, NEW j \in 1 .. c, o[i] \in Parents(t, o[j]) PROVE i < j
    <3>1. PICK k \in 1 .. j - 1 : o[k] = o[i]
      BY <1>1, <2>2 DEF Sound
    <3>2. k \in 1 .. c
      BY <1>1, <3>1
    <3>3. k = i
      BY <1>1, <3>1, <3>2 DEF Sound
    <3> QED BY <1>1, <3>1, <3>3
  <2> QED BY <1>2, <2>1, <2>2 DEF Extensions
<1>4. ASSUME NEW e \in Extensions(t), e # o PROVE Before(o, e)
  <2>1. DOMAIN e = 1 .. c /\ e \in [1 .. c -> Ids(t)]
    BY DEF Extensions, SetToSeqs, c
  <2>2. ~ \A i \in 1 .. c : o[i] = e[i]
    <3>1. o = [i \in 1 .. c |-> o[i]] /\ e = [i \in 1 .. c |-> e[i]]
      BY <1>2, <2>1
    <3> QED BY <1>4, <3>1
  <2>3. PICK i \in 1 .. c : o[i] < e[i] /\ \A j \in 1 .. i - 1 : o[j] = e[j]
    BY <1>1, <2>2 DEF Leads
  <2> QED BY <1>2, <2>3 DEF Before
<1> QED
  BY <1>3, <1>4 DEF IsLeast, o

\* What the validator accepts can be worked through by the harness.
LEMMA AcceptedFits ==
  ASSUME NEW t, IsTable(t), Accepted(t)
  PROVE  FitsTheHarness(t) /\ Acyclic(t)
<1>1. KnownParents(t) /\ EndsInPublication(t) /\ HasOrder(t)
  BY DEF Accepted
<1>2. AllKnown(t)
  BY <1>1 DEF KnownParents, AllKnown
<1>3. \A n \in Ids(t) : t.terminal \notin Parents(t, n)
  BY <1>1 DEF EndsInPublication, Children
<1>4. FitsTheHarness(t)
  BY <1>1, <1>3 DEF FitsTheHarness, KnownParents, EndsInPublication
<1> QED
  BY <1>1, <1>2, <1>4, OrderedIfAcyclic

\* Of the tables that do not wait for themselves it can finish those that have
\* nothing but problems to solve before the paper.
LEMMA FinishesIfItSolves ==
  ASSUME NEW t, Acyclic(t)
  PROVE  CanFinish(t) <=> OnlySolves(t)
<1>1. ASSUME CanFinish(t), NEW n \in Ids(t) \ {t.terminal}
      PROVE  Node(t, n).kind = "solve_problem"
  <2>1. {n} \in SUBSET (Ids(t) \ {t.terminal}) /\ {n} # {}
    OBVIOUS
  <2> QED BY <1>1, <2>1 DEF CanFinish
<1>2. ASSUME OnlySolves(t), NEW set \in SUBSET (Ids(t) \ {t.terminal}), set # {}
      PROVE  \E n \in set : Node(t, n).kind = "solve_problem" /\ Parents(t, n) \cap set = {}
  <2>1. PICK n \in set : Parents(t, n) \cap set = {}
    BY <1>2 DEF Acyclic
  <2> QED BY <1>2, <2>1 DEF OnlySolves
<1> QED
  BY <1>1, <1>2 DEF CanFinish, OnlySolves

-----------------------------------------------------------------------------
(* The canonical tables *)

\* The questions are 1 .. count, each after the one before; 0 is the paper.
IsChain(t, count) ==
  /\ IsTable(t) /\ Len(t.tasks) = count + 1 /\ t.terminal = 0
  /\ Ids(t) = 0 .. count
  /\ Parents(t, 0) = {count} /\ Parents(t, 1) = {}
  /\ \A k \in 2 .. count : Parents(t, k) = {k - 1}
  /\ Node(t, 0).terminal /\ \A n \in 1 .. count : ~ Node(t, n).terminal
  /\ Node(t, 0).kind = "publish_latex"
  /\ \A n \in 1 .. count : Node(t, n).kind = "solve_problem"

\* canonical_main_harness_dag() is that.
LEMMA CanonicalFacts ==
  ASSUME NEW count \in Nat \ {0}, NEW t, t = Canonical(count)
  PROVE  IsChain(t, count)
<1> DEFINE publish == [id |-> 0, kind |-> "publish_latex", terminal |-> TRUE,
                       depends_on |-> <<count>>]
           q == [k \in 1 .. count |-> Solve(k)]
<1>1. t.tasks = Append(q, publish) /\ t.terminal = 0
  BY DEF Canonical, Paper
<1>2. \A k \in 1 .. count : /\ Solve(k).id = k /\ Solve(k).terminal = FALSE
                             /\ Solve(k).kind = "solve_problem"
  BY DEF Solve
<1>3. /\ Solve(1).depends_on = <<>>
      /\ \A k \in 2 .. count : Solve(k).depends_on = <<k - 1>>
  BY DEF Solve
<1>4. ASSUME NEW k \in 1 .. count PROVE Solve(k).depends_on \in Seq(Nat)
  <2>1. CASE k = 1
    <3>1. <<>> \in Seq(Nat)
      OBVIOUS
    <3> QED BY <1>3, <2>1, <3>1
  <2>2. CASE k # 1
    <3>1. k \in 2 .. count /\ k - 1 \in Nat
      BY <2>2
    <3>2. <<k - 1>> \in Seq(Nat)
      BY <3>1
    <3> QED BY <1>3, <3>1, <3>2
  <2> QED BY <2>1, <2>2
<1>5. publish.id = 0 /\ publish.terminal = TRUE /\ publish.kind = "publish_latex"
      /\ publish.depends_on = <<count>>
  OBVIOUS
<1> HIDE DEF publish
<1>6. /\ q \in Seq({Solve(k) : k \in 1 .. count}) /\ Len(q) = count
      /\ \A k \in 1 .. count : q[k] = Solve(k)
  OBVIOUS
<1> HIDE DEF q
<1>7. /\ Len(t.tasks) = count + 1 /\ DOMAIN t.tasks = 1 .. count + 1
      /\ \A k \in 1 .. count : t.tasks[k] = Solve(k)
      /\ t.tasks[count + 1] = publish
  <2>1. q \in Seq({Solve(k) : k \in 1 .. count} \cup {publish})
    BY <1>6
  <2> QED BY <1>1, <1>6, <2>1
<1>8. IsTable(t)
  <2>1. <<count>> \in Seq(Nat)
    OBVIOUS
  <2>2. \A k \in 1 .. count + 1 : k \in 1 .. count \/ k = count + 1
    OBVIOUS
  <2>3. \A k \in 1 .. count : t.tasks[k].id \in Nat /\ t.tasks[k].depends_on \in Seq(Nat)
    BY <1>2, <1>4, <1>7
  <2>4. t.tasks[count + 1].id = 0 /\ t.tasks[count + 1].depends_on = <<count>>
    BY <1>5, <1>7
  <2>5. t.tasks[count + 1].id \in Nat /\ t.tasks[count + 1].depends_on \in Seq(Nat)
    BY <2>1, <2>4
  <2> QED BY <1>7, <2>2, <2>3, <2>5 DEF IsTable
<1>9. \A i \in 1 .. count + 1 : t.tasks[i].id = IF i = count + 1 THEN 0 ELSE i
  <2> TAKE i \in 1 .. count + 1
  <2>1. CASE i = count + 1
    BY <1>5, <1>7, <2>1
  <2>2. CASE i # count + 1
    <3>1. i \in 1 .. count
      BY <2>2
    <3> QED BY <1>2, <1>7, <2>2, <3>1
  <2> QED BY <2>1, <2>2
<1>10. Ids(t) = 0 .. count
  <2>1. Ids(t) = {t.tasks[i].id : i \in 1 .. count + 1}
    BY <1>7 DEF Ids
  <2>2. \A n \in Ids(t) : n \in 0 .. count
    BY <1>9, <2>1
  <2>3. \A n \in 0 .. count : n \in Ids(t)
    <3> TAKE n \in 0 .. count
    <3> DEFINE i == IF n = 0 THEN count + 1 ELSE n
    <3>1. i \in 1 .. count + 1 /\ (IF i = count + 1 THEN 0 ELSE i) = n
      OBVIOUS
    <3> HIDE DEF i
    <3> QED BY <1>9, <2>1, <3>1
  <2> QED BY <2>2, <2>3
<1>11. ASSUME NEW n \in 0 .. count
      PROVE  Node(t, n) = IF n = 0 THEN publish ELSE Solve(n)
  <2> DEFINE i == CHOOSE i \in DOMAIN t.tasks : t.tasks[i].id = n
  <2>1. \E j \in 1 .. count + 1 : t.tasks[j].id = n
    BY <1>7, <1>10 DEF Ids
  <2>2. i \in 1 .. count + 1 /\ t.tasks[i].id = n /\ Node(t, n) = t.tasks[i]
    BY <1>7, <2>1 DEF Node
  <2> HIDE DEF i
  <2>3. n = IF i = count + 1 THEN 0 ELSE i
    BY <1>9, <2>2
  <2>4. CASE i = count + 1
    BY <1>7, <2>2, <2>3, <2>4
  <2>5. CASE i # count + 1
    <3>1. i \in 1 .. count /\ n = i /\ n # 0
      BY <2>2, <2>3, <2>5
    <3> QED BY <1>7, <2>2, <3>1
  <2> QED BY <2>4, <2>5
<1>12. /\ \A k \in 2 .. count : Parents(t, k) = {k - 1}
      /\ Parents(t, 1) = {}
  <2>1. ASSUME NEW k \in 2 .. count PROVE Parents(t, k) = {k - 1}
    <3>1. k \in 1 .. count /\ k \in 0 .. count /\ k # 0 /\ k # 1
      OBVIOUS
    <3>2. Node(t, k).depends_on = <<k - 1>>
      BY <1>3, <1>11, <3>1
    <3> QED BY <3>2 DEF Parents, ToSet
  <2>2. Node(t, 1).depends_on = <<>>
    <3>1. 1 \in 1 .. count /\ 1 \in 0 .. count
      OBVIOUS
    <3> QED BY <1>3, <1>11, <3>1
  <2>3. Parents(t, 1) = {}
    BY <2>2 DEF Parents, ToSet
  <2> QED BY <2>1, <2>3
<1>13. Parents(t, 0) = {count}
  <2>1. Node(t, 0).depends_on = <<count>>
    BY <1>5, <1>11
  <2> QED BY <2>1 DEF Parents, ToSet
<1>14. /\ Node(t, 0).terminal /\ \A n \in 1 .. count : ~ Node(t, n).terminal
       /\ Node(t, 0).kind = "publish_latex"
       /\ \A n \in 1 .. count : Node(t, n).kind = "solve_problem"
  <2>1. \A n \in 1 .. count : n \in 0 .. count /\ n # 0
    OBVIOUS
  <2> QED BY <1>2, <1>5, <1>11, <2>1
<1> QED
  BY <1>1, <1>7, <1>8, <1>10, <1>12, <1>13, <1>14 DEF IsChain

\* No set of its tasks waits for itself, and the paper comes last.
LEMMA CanonicalOrder ==
  ASSUME NEW count \in Nat \ {0}, NEW t, t = Canonical(count)
  PROVE  HasOrder(t) /\ Last(Ordered(t)) = 0
<1>1. /\ IsTable(t) /\ Ids(t) = 0 .. count
      /\ Parents(t, 0) = {count} /\ Parents(t, 1) = {}
      /\ \A k \in 2 .. count : Parents(t, k) = {k - 1}
  <2>1. IsChain(t, count)
    BY CanonicalFacts
  <2> QED BY <2>1 DEF IsChain
<1>2. \A n \in 0 .. count : n = 0 \/ n = 1 \/ n \in 2 .. count
  OBVIOUS
<1>3. IsTable(t) /\ AllKnown(t)
  <2> SUFFICES ASSUME NEW n \in Ids(t), NEW p \in Parents(t, n) PROVE p \in 0 .. count
    BY <1>1 DEF AllKnown
  <2>1. CASE n \in 2 .. count
    BY <1>1, <2>1
  <2> QED BY <1>1, <1>2, <2>1
<1>4. ASSUME NEW set \in SUBSET Ids(t), set # {}
      PROVE  \E n \in set : Parents(t, n) \cap set = {}
  <2> DEFINE T == set \ {0}
  <2>1. T \subseteq Nat /\ set \subseteq 0 .. count
    BY <1>1
  <2>2. CASE T = {}
    <3>1. set = {0}
      BY <1>4, <2>2
    <3> QED BY <1>1, <3>1
  <2>3. CASE T # {}
    <3>1. PICK k \in T : \A j \in T : k <= j
      <4> HIDE DEF T
      <4> QED BY <2>1, <2>3, LeastOf
    <3>2. k \in 1 .. count /\ k \in set
      BY <2>1, <3>1
    <3>3. ASSUME NEW p \in Parents(t, k), p \in set PROVE FALSE
      <4>1. k \in 2 .. count /\ p = k - 1
        BY <1>1, <1>2, <3>2, <3>3
      <4>2. p \in T /\ p < k
        BY <3>2, <3>3, <4>1
      <4> QED BY <2>1, <3>1, <3>2, <4>2
    <3> QED BY <3>2, <3>3
  <2> QED BY <2>2, <2>3
<1>5. HasOrder(t)
  BY <1>3, <1>4, OrderedIfAcyclic DEF Acyclic
<1> DEFINE o == Ordered(t)
<1>6. Sound(t, o) /\ ToSet(o) = 0 .. count
  <2>1. Sound(t, o) /\ Len(o) = Cardinality(Ids(t))
    BY <1>3, <1>5, LoopEnds DEF HasOrder
  <2> HIDE DEF o
  <2> QED BY <1>3, <1>1, <2>1, OrderLength
<1> HIDE DEF o
<1>7. Len(o) \in Nat /\ 0 .. count = {o[i] : i \in 1 .. Len(o)}
  <2>1. o \in Seq(Ids(t))
    BY <1>6 DEF Sound
  <2>2. DOMAIN o = 1 .. Len(o) /\ Len(o) \in Nat
    BY <2>1
  <2> QED BY <1>6, <2>2 DEF ToSet
<1>8. Len(o) \in 1 .. Len(o)
  <2>1. 0 \in 0 .. count
    OBVIOUS
  <2>2. \E i \in 1 .. Len(o) : TRUE
    BY <1>7, <2>1
  <2> QED BY <1>7, <2>2
<1>9. ASSUME o[Len(o)] # 0 PROVE FALSE
  <2>1. PICK k \in 1 .. count : k = o[Len(o)]
    <3>1. o[Len(o)] \in 0 .. count
      BY <1>7, <1>8
    <3> QED BY <1>9, <3>1
  <2>2. PICK m \in Ids(t) : k \in Parents(t, m)
    <3>1. CASE k = count
      <4>1. 0 \in Ids(t)
        BY <1>1
      <4> QED BY <1>1, <3>1, <4>1
    <3>2. CASE k # count
      <4>1. k + 1 \in 2 .. count /\ k + 1 \in Ids(t) /\ k + 1 - 1 = k
        BY <1>1, <3>2
      <4>2. k \in Parents(t, k + 1)
        BY <1>1, <4>1
      <4> QED BY <4>1, <4>2
    <3> QED BY <3>1, <3>2
  <2>3. PICK i \in 1 .. Len(o) : o[i] = m
    BY <1>1, <1>7
  <2>4. PICK j \in 1 .. i - 1 : o[j] = k
    BY <1>6, <2>2, <2>3 DEF Sound
  <2>5. j \in 1 .. Len(o) /\ j < Len(o)
    BY <1>7, <2>3, <2>4
  <2> QED BY <1>6, <1>7, <1>8, <2>1, <2>4, <2>5 DEF Sound
<1> QED
  BY <1>5, <1>9 DEF Last, o

\* _reachable_from_roots() as its turns.
Grow(t, k, f) ==
  [i \in 0 .. k |-> IF i = 0 THEN {n \in Ids(t) : Parents(t, n) = {}}
                    ELSE f[i - 1] \cup UNION {Children(t, n) : n \in f[i - 1]}]

\* It is a function: one turn more extends it.
LEMMA GrowthExists ==
  ASSUME NEW t, NEW k \in Nat
  PROVE  \E f : f = Grow(t, k, f)
<1> DEFINE T == {n \in Nat : ~ \E f : f = Grow(t, n, f)}
           roots == {n \in Ids(t) : Parents(t, n) = {}}
           More(set) == set \cup UNION {Children(t, n) : n \in set}
<1> SUFFICES ASSUME T # {} PROVE FALSE
  OBVIOUS
<1>1. PICK n \in T : \A m \in T : n <= m
  BY LeastOf
<1>2. n # 0
  <2> DEFINE f == [i \in 0 .. 0 |-> roots]
  <2>1. f = Grow(t, 0, f)
    BY DEF Grow
  <2> HIDE DEF f
  <2> QED BY <2>1
<1>3. n - 1 \in Nat /\ n - 1 \notin T /\ n \in Nat
  BY <1>1, <1>2
<1>4. PICK f : f = Grow(t, n - 1, f)
  BY <1>3
<1>5. \A i \in 0 .. n - 1 : f[i] = IF i = 0 THEN roots ELSE More(f[i - 1])
  BY <1>4 DEF Grow
<1> DEFINE g == [i \in 0 .. n |-> IF i = n THEN More(f[n - 1]) ELSE f[i]]
<1> HIDE DEF roots, More
<1>6. \A i \in 0 .. n : g[i] = IF i = 0 THEN roots ELSE More(g[i - 1])
  <2> TAKE i \in 0 .. n
  <2>1. CASE i = 0
    BY <1>2, <1>3, <1>5, <2>1
  <2>2. CASE i = n
    <3>1. n - 1 \in 0 .. n /\ n - 1 # n
      BY <1>3
    <3> QED BY <1>2, <2>2, <3>1
  <2>3. CASE i # 0 /\ i # n
    <3>1. i \in 0 .. n - 1 /\ i - 1 \in 0 .. n /\ i - 1 # n
      BY <1>3, <2>3
    <3> QED BY <1>5, <2>3, <3>1
  <2> QED BY <2>1, <2>2, <2>3
<1>7. g = [i \in 0 .. n |-> g[i]]
  OBVIOUS
<1> HIDE DEF g
<1>8. g = Grow(t, n, g)
  BY <1>6, <1>7 DEF Grow, roots, More
<1> QED
  BY <1>1, <1>8

\* Every question is reached from the first, and the paper from the last.
LEMMA CanonicalReached ==
  ASSUME NEW count \in Nat \ {0}, NEW t, t = Canonical(count)
  PROVE  Reachable(t) = Ids(t)
<1>1. /\ Len(t.tasks) = count + 1 /\ Ids(t) = 0 .. count
      /\ Parents(t, 0) = {count} /\ Parents(t, 1) = {}
      /\ \A k \in 2 .. count : Parents(t, k) = {k - 1}
  <2>1. IsChain(t, count)
    BY CanonicalFacts
  <2> QED BY <2>1 DEF IsChain
<1> DEFINE f == CHOOSE f : f = Grow(t, Len(t.tasks), f)
<1>2. f = Grow(t, Len(t.tasks), f)
  BY <1>1, GrowthExists
<1>3. Reachable(t) = f[Len(t.tasks)]
  BY DEF Reachable, Grow
<1> HIDE DEF f
<1>4. /\ f[0] = {n \in Ids(t) : Parents(t, n) = {}}
      /\ \A i \in 1 .. count + 1 : f[i] = f[i - 1] \cup UNION {Children(t, n) : n \in f[i - 1]}
  <2>1. f = [i \in 0 .. count + 1 |->
               IF i = 0 THEN {n \in Ids(t) : Parents(t, n) = {}}
               ELSE f[i - 1] \cup UNION {Children(t, n) : n \in f[i - 1]}]
    BY <1>1, <1>2 DEF Grow
  <2>2. \A i \in 0 .. count + 1 :
          f[i] = IF i = 0 THEN {n \in Ids(t) : Parents(t, n) = {}}
                 ELSE f[i - 1] \cup UNION {Children(t, n) : n \in f[i - 1]}
    BY <2>1
  <2>3. 0 \in 0 .. count + 1 /\ \A i \in 1 .. count + 1 : i \in 0 .. count + 1 /\ i # 0
    OBVIOUS
  <2> QED BY <2>2, <2>3
<1> DEFINE Good(i) == /\ f[i] \subseteq Ids(t)
                      /\ \A n \in 1 .. count : n <= i + 1 => n \in f[i]
                      /\ i = count + 1 => 0 \in f[i]
           T == {i \in 0 .. count + 1 : ~ Good(i)}
<1>5. T = {}
  <2> SUFFICES ASSUME T # {} PROVE FALSE
    OBVIOUS
  <2>1. PICK i \in T : \A j \in T : i <= j
    <3>1. T \subseteq Nat
      OBVIOUS
    <3> HIDE DEF T
    <3> QED BY <3>1, LeastOf
  <2>2. i # 0
    <3>1. \A n \in 1 .. count : n <= 0 + 1 => n = 1
      OBVIOUS
    <3>2. 1 \in f[0] /\ f[0] \subseteq Ids(t) /\ 0 # count + 1
      BY <1>1, <1>4
    <3>3. Good(0)
      BY <3>1, <3>2
    <3> QED BY <2>1, <3>3
  <2>3. i \in 1 .. count + 1 /\ i - 1 \in 0 .. count + 1 /\ i - 1 < i
    BY <2>1, <2>2
  <2>4. Good(i - 1)
    <3>1. i - 1 \notin T
      BY <2>1, <2>3
    <3> QED BY <2>3, <3>1
  <2>5. f[i] = f[i - 1] \cup UNION {Children(t, n) : n \in f[i - 1]}
    BY <1>4, <2>3
  <2>6. f[i] \subseteq Ids(t)
    BY <2>4, <2>5 DEF Children
  <2>7. ASSUME NEW n \in 1 .. count, n <= i + 1 PROVE n \in f[i]
    <3>1. CASE n <= i
      BY <2>3, <2>4, <2>5, <3>1
    <3>2. CASE n = i + 1
      <4>1. n \in 2 .. count /\ n - 1 \in 1 .. count /\ n - 1 <= i - 1 + 1 /\ n \in Ids(t)
        BY <1>1, <2>3, <3>2
      <4>2. n \in Children(t, n - 1)
        BY <1>1, <4>1 DEF Children
      <4>3. n - 1 \in f[i - 1]
        BY <2>4, <4>1
      <4> QED BY <2>5, <4>2, <4>3
    <3> QED BY <2>3, <2>7, <3>1, <3>2
  <2>8. ASSUME i = count + 1 PROVE 0 \in f[i]
    <3>1. count \in f[i - 1]
      BY <2>4, <2>8
    <3>2. 0 \in Children(t, count)
      BY <1>1 DEF Children
    <3> QED BY <2>5, <3>1, <3>2
  <2> QED BY <2>1, <2>6, <2>7, <2>8
<1>6. Good(count + 1)
  BY <1>5
<1>7. \A n \in 0 .. count : n = 0 \/ (n \in 1 .. count /\ n <= count + 1 + 1)
  OBVIOUS
<1>8. Ids(t) \subseteq f[count + 1] /\ f[count + 1] \subseteq Ids(t)
  BY <1>1, <1>6, <1>7
<1>9. Reachable(t) = f[count + 1]
  BY <1>1, <1>3
<1> QED
  BY <1>8, <1>9

\* The canonical table of any number of questions is accepted.
LEMMA CanonicalAccepted ==
  ASSUME NEW count \in Nat \ {0}
  PROVE  Accepted(Canonical(count))
<1> SUFFICES ASSUME NEW t, t = Canonical(count) PROVE Accepted(t)
  OBVIOUS
<1>2. /\ Len(t.tasks) = count + 1 /\ t.terminal = 0 /\ Ids(t) = 0 .. count
      /\ Parents(t, 0) = {count} /\ Parents(t, 1) = {}
      /\ \A k \in 2 .. count : Parents(t, k) = {k - 1}
      /\ Node(t, 0).terminal /\ \A n \in 1 .. count : ~ Node(t, n).terminal
      /\ Node(t, 0).kind = "publish_latex"
  <2>1. IsChain(t, count)
    BY CanonicalFacts
  <2> QED BY <2>1 DEF IsChain
<1>3. \A n \in 0 .. count : n = 0 \/ n = 1 \/ n \in 2 .. count
  OBVIOUS
<1>4. ASSUME NEW n \in Ids(t), NEW p \in Parents(t, n)
      PROVE  p \in 1 .. count /\ p # n
  <2>1. CASE n \in 2 .. count
    BY <1>2, <1>4, <2>1
  <2>2. CASE n = 0
    BY <1>2, <1>4, <2>2
  <2> QED BY <1>2, <1>3, <1>4, <2>1, <2>2
<1>5. KnownParents(t)
  BY <1>2, <1>4 DEF KnownParents
<1>6. EndsInPublication(t)
  <2>1. 0 \in Ids(t)
    BY <1>2
  <2>2. Children(t, 0) = {}
    BY <1>4 DEF Children
  <2>3. {n \in Ids(t) : Node(t, n).terminal} = {0}
    <3>1. \A n \in 0 .. count : n = 0 \/ n \in 1 .. count
      OBVIOUS
    <3> QED BY <1>2, <2>1, <3>1
  <2> QED BY <1>2, <2>1, <2>2, <2>3 DEF EndsInPublication
<1>7. Cardinality(Ids(t)) = Len(t.tasks)
  BY <1>2, FS_Interval
<1> QED
  BY <1>2, <1>5, <1>6, <1>7, CanonicalOrder, CanonicalReached DEF Accepted

-----------------------------------------------------------------------------
(* What the tables of a run are *)

\* For every table whose dependencies are tasks: the order is complete exactly
\* if no set of tasks waits for itself, and it is then, of those with every task
\* after its dependencies, the first in the dictionary
\* (DAGTaskTable.topological_order).
THEOREM TaskOrder ==
  ASSUME NEW t, IsTable(t), AllKnown(t)
  PROVE  /\ HasOrder(t) <=> Acyclic(t)
         /\ HasOrder(t) => IsLeast(t, Ordered(t))
BY OrderedIfAcyclic, OrderedIsLeast

\* Hence the order is of the names and the dependencies, not of how a table
\* lists them.
THEOREM OrderByNames ==
  ASSUME NEW t, IsTable(t), AllKnown(t), HasOrder(t), NEW u, IsTable(u), Ids(u) = Ids(t),
         \A n \in Ids(t) : Parents(u, n) = Parents(t, n)
  PROVE  Ordered(u) = Ordered(t)
<1>1. AllKnown(u)
  BY DEF AllKnown
<1>2. Acyclic(u)
  <2>1. Acyclic(t)
    BY OrderedIfAcyclic
  <2> QED BY <2>1 DEF Acyclic
<1>3. HasOrder(u)
  BY <1>1, <1>2, OrderedIfAcyclic
<1>4. Extensions(u) = Extensions(t)
  <2>1. ASSUME NEW o \in SetToSeqs(Ids(t)), NEW j \in DOMAIN o
        PROVE  Parents(u, o[j]) = Parents(t, o[j])
    BY DEF SetToSeqs
  <2> QED BY <2>1 DEF Extensions
<1>5. IsLeast(t, Ordered(t)) /\ IsLeast(u, Ordered(u))
  BY <1>1, <1>3, OrderedIsLeast
<1> SUFFICES ASSUME Ordered(u) # Ordered(t) PROVE FALSE
  OBVIOUS
<1> DEFINE a == Ordered(t)
           b == Ordered(u)
           c == Cardinality(Ids(t))
<1>6. Before(a, b) /\ Before(b, a) /\ a \in Extensions(t) /\ b \in Extensions(t)
  BY <1>4, <1>5 DEF IsLeast
<1>7. a \in [1 .. c -> Ids(t)] /\ b \in [1 .. c -> Ids(t)] /\ Ids(t) \subseteq Nat /\ c \in Nat
  BY <1>6, TableFacts DEF Extensions, SetToSeqs
<1> HIDE DEF a, b, c
<1>8. PICK i \in 1 .. c : a[i] < b[i] /\ \A k \in 1 .. i - 1 : a[k] = b[k]
  BY <1>6, <1>7 DEF Before
<1>9. PICK j \in 1 .. c : b[j] < a[j] /\ \A k \in 1 .. j - 1 : b[k] = a[k]
  BY <1>6, <1>7 DEF Before
<1>10. a[i] \in Nat /\ b[i] \in Nat /\ a[j] \in Nat /\ b[j] \in Nat
  BY <1>7
<1>11. i # j /\ ~ i < j /\ ~ j < i
  <2>1. i < j => i \in 1 .. j - 1
    BY <1>7
  <2>2. j < i => j \in 1 .. i - 1
    BY <1>7
  <2> QED BY <1>8, <1>9, <1>10, <2>1, <2>2
<1> QED
  BY <1>7, <1>11

\* What the validator accepts is a plan as the operations of the harness rely
\* on it, and one that does not wait for itself; the harness can finish it if it
\* has nothing but problems to solve before the paper (DAGTaskTable's validator).
THEOREM AcceptedIsPlan ==
  ASSUME NEW t, IsTable(t), Accepted(t), Ids(t) \subseteq Id, t.terminal = Terminal,
         NEW p, DOMAIN p = Ids(t), \A n \in Ids(t) : p[n].deps = Parents(t, n)
  PROVE  /\ IsPlan(p)
         /\ \A set \in SUBSET DOMAIN p : set # {} => \E n \in set : p[n].deps \cap set = {}
         /\ CanFinish(t) <=> OnlySolves(t)
<1>1. FitsTheHarness(t) /\ Acyclic(t) /\ (CanFinish(t) <=> OnlySolves(t))
  BY AcceptedFits, FinishesIfItSolves
<1>2. IsPlan(p)
  BY <1>1 DEF FitsTheHarness, IsPlan
<1>3. ASSUME NEW set \in SUBSET DOMAIN p, set # {}
      PROVE  \E n \in set : p[n].deps \cap set = {}
  BY <1>1, <1>3 DEF Acyclic
<1> QED
  BY <1>1, <1>2, <1>3

\* The graphs of the run are tables of known tasks.
LEMMA GraphsAreTables ==
  ASSUME NEW t \in Graphs
  PROVE  IsTable(t) /\ AllKnown(t)
<1> DEFINE Deps == {<<>>, <<1>>, <<2>>, <<3>>, <<4>>,
                    <<2, 2>>, <<1, 2>>, <<2, 3>>, <<3, 1>>, <<1, 4>>}
<1>1. PICK deps \in [1 .. 4 -> Deps] :
        t = [tasks |-> [i \in 1 .. 4 |-> Named(i, deps[i])], terminal |-> 4]
  BY DEF Graphs
<1>2. \A d \in Deps : d \in Seq(1 .. 4)
  <2>1. /\ <<>> \in Seq(1 .. 4)
        /\ \A i \in 1 .. 4 : <<i>> \in Seq(1 .. 4)
        /\ \A i, j \in 1 .. 4 : <<i, j>> \in Seq(1 .. 4)
    OBVIOUS
  <2>2. 1 \in 1 .. 4 /\ 2 \in 1 .. 4 /\ 3 \in 1 .. 4 /\ 4 \in 1 .. 4
    OBVIOUS
  <2> QED BY <2>1, <2>2
<1> HIDE DEF Deps
<1>3. /\ Len(t.tasks) = 4 /\ DOMAIN t.tasks = 1 .. 4
      /\ \A i \in 1 .. 4 : t.tasks[i].id = i /\ t.tasks[i].depends_on = deps[i]
  BY <1>1 DEF Named
<1>4. \A i \in 1 .. 4 : deps[i] \in Seq(1 .. 4) /\ deps[i] \in Seq(Nat)
  BY <1>1, <1>2
<1>5. IsTable(t)
  BY <1>3, <1>4 DEF IsTable
<1>6. Ids(t) = 1 .. 4
  BY <1>3 DEF Ids
<1>7. ASSUME NEW n \in Ids(t) PROVE Parents(t, n) \subseteq Ids(t)
  <2>1. \E i \in 1 .. 4 : Node(t, n) = t.tasks[i]
    BY <1>3, <1>6, <1>7 DEF Node
  <2>2. Node(t, n).depends_on \in Seq(1 .. 4)
    BY <1>3, <1>4, <2>1
  <2> QED BY <1>6, <2>2 DEF Parents, ToSet
<1> QED
  BY <1>5, <1>7 DEF AllKnown

\* So are the other lists of nodes, but for the known.
LEMMA TablesAreTables ==
  ASSUME NEW t \in Tables
  PROVE  IsTable(t)
<1>1. CASE t \in Graphs
  BY <1>1, GraphsAreTables
<1>2. ASSUME NEW nodes \in Lists, t = [tasks |-> nodes, terminal |-> 3]
      PROVE  IsTable(t)
  <2>1. PICK m \in 1 .. 3 : nodes \in [1 .. m -> Nodes]
    BY DEF Lists
  <2>2. /\ Len(t.tasks) = m /\ DOMAIN t.tasks = 1 .. m /\ m \in Nat
        /\ \A i \in 1 .. m : t.tasks[i].id = nodes[i].id
                             /\ t.tasks[i].depends_on = nodes[i].depends_on
    BY <1>2, <2>1
  <2>3. \A i \in 1 .. m : nodes[i].id \in Nat /\ nodes[i].depends_on \in Seq(Nat)
    <3> DEFINE Deps == {<<>>, <<1>>, <<2>>, <<3>>}
    <3>1. \A d \in Deps : d \in Seq(Nat)
      <4>1. <<>> \in Seq(Nat) /\ <<1>> \in Seq(Nat) /\ <<2>> \in Seq(Nat) /\ <<3>> \in Seq(Nat)
        OBVIOUS
      <4> QED BY <4>1
    <3>2. \A i \in 1 .. m : nodes[i].id \in 1 .. 3 /\ nodes[i].depends_on \in Deps
      BY <2>1 DEF Nodes
    <3> HIDE DEF Deps
    <3> QED BY <3>1, <3>2
  <2> QED BY <2>2, <2>3 DEF IsTable
<1> QED
  BY <1>1, <1>2 DEF Tables

\* The tables that TLC goes through are a case of TaskOrder
\* (DAGTaskTable.topological_order).
THEOREM HarnessOrders == Spec => []OrderIsLeast
<1>1. OrderIsLeast
  BY GraphsAreTables, TaskOrder DEF OrderIsLeast
<1> QED
  BY <1>1, PTL

\* What the validator accepts can be finished if every task before the paper is a
\* solve_problem and only then, and the canonical tables are of that kind, for
\* any number of questions (DAGTaskTable's validator, dispatch(),
\* canonical_main_harness_dag).
THEOREM HarnessAccepts ==
  /\ \A count \in Nat \ {0} : Accepted(Canonical(count)) /\ CanFinish(Canonical(count))
  /\ Spec => []OnlySolvesFinish
<1>1. ASSUME NEW count \in Nat \ {0}
      PROVE  Accepted(Canonical(count)) /\ CanFinish(Canonical(count))
  <2> DEFINE t == Canonical(count)
  <2>1. IsChain(t, count)
    BY CanonicalFacts
  <2>2. Accepted(t)
    BY CanonicalAccepted
  <2> HIDE DEF t
  <2>3. OnlySolves(t)
    <3>1. \A n \in 0 .. count : n # 0 => n \in 1 .. count
      OBVIOUS
    <3> QED BY <2>1, <3>1 DEF IsChain, OnlySolves
  <2>4. Acyclic(t)
    BY <2>1, <2>2, AcceptedFits DEF IsChain
  <2>5. CanFinish(t)
    BY <2>3, <2>4, FinishesIfItSolves
  <2> QED BY <2>2, <2>5 DEF t
<1>2. OnlySolvesFinish
  <2>1. \A count \in 1 .. 4 : Accepted(Canonical(count)) /\ CanFinish(Canonical(count))
    BY <1>1
  <2>2. ASSUME NEW t \in Tables, Accepted(t)
        PROVE  FitsTheHarness(t) /\ Acyclic(t) /\ (CanFinish(t) <=> OnlySolves(t))
    BY <2>2, TablesAreTables, AcceptedFits, FinishesIfItSolves
  <2> QED BY <2>1, <2>2 DEF OnlySolvesFinish
<1>3. Spec => []OnlySolvesFinish
  BY <1>2, PTL
<1> QED
  BY <1>1, <1>3
=============================================================================
