------------------------------ MODULE RunStates ------------------------------
(***************************************************************************)
(* The state of a run of the Main Harness (MainHarnessState) and what each *)
(* operation of MainHarness makes of it (application/main_harness.py).     *)
(*                                                                         *)
(* A plan is a validated DAGTaskTable: a function from task ids to the     *)
(* tasks they depend on and to the rest of what the node says.  Only       *)
(* Terminal is a publish_latex node; the others are solve_problem nodes.   *)
(* The validator accepts other kinds too, and no run finishes such a plan  *)
(* (module TaskGraph).                                                     *)
(***************************************************************************)
EXTENDS FiniteSets, Integers, Sequences

CONSTANTS
  Id,        \* task ids
  Terminal,  \* terminal_task_id of every plan
  Plan,      \* the plans the planner may give
  Opening,   \* those a run may start with
  Outcome,   \* what solve_problem may answer: some of Answers
  None

\* What the validator of DAGTaskTable ensures and the operations rely on: known
\* dependencies, and no task that depends on itself or on the terminal.
IsPlan(p) ==
  /\ DOMAIN p \subseteq Id /\ Terminal \in DOMAIN p
  /\ \A n \in DOMAIN p :
       p[n].deps \subseteq DOMAIN p \ {n, Terminal}

ASSUME PlanAssumption ==
  Terminal \in Id /\ Opening \subseteq Plan /\ \A p \in Plan : IsPlan(p)

\* revision_required is an unfinished failure.
Answers == {"completed", "blocked", "failed"}

ASSUME OutcomeAssumption == Outcome \subseteq Answers

-----------------------------------------------------------------------------
(* States *)

Status == {"blocked", "ready", "completed", "failed"}

Task == [status : Status, attempts : Nat]

\* A report, and the reports of its dependencies that were its context.
Report == [task : Id, outcome : Outcome, basis : SUBSET Nat]

RunOf(p) ==
  [dag : {p}, tasks : [DOMAIN p -> Task], reports : Seq(Report),
   decisions : Nat, terminal : BOOLEAN, version : Nat \ {0}]

ASSUME NoneAssumption == \A p \in Plan : None \notin RunOf(p)

\* Every attempt and every report came with a save.
IsRun(s) ==
  /\ \E p \in Plan : s \in RunOf(p)
  /\ Len(s.reports) < s.version
  /\ \A n \in DOMAIN s.dag : s.tasks[n].attempts < s.version

Completed(s) == {n \in DOMAIN s.dag : s.tasks[n].status = "completed"}

\* Mutant: the dependencies are taken to be those the status waited for.
ReadyByStatus(s, n) ==
  n \in DOMAIN s.dag \ {Terminal} /\ s.tasks[n].status = "ready"

Ready(s, n) ==
  /\ n \in DOMAIN s.dag \ {Terminal}
  /\ s.tasks[n].status = "ready"
  /\ s.dag[n].deps \subseteq Completed(s)

\* _commit(): the next version.
Committed(s) == [s EXCEPT !.version = @ + 1]

-----------------------------------------------------------------------------
(* start() *)

Begun(p) ==
  [dag |-> p,
   tasks |-> [n \in DOMAIN p |->
                [status |-> IF p[n].deps = {} THEN "ready" ELSE "blocked", attempts |-> 0]],
   reports |-> <<>>, decisions |-> 0, terminal |-> FALSE, version |-> 1]

-----------------------------------------------------------------------------
(* dispatch() *)

\* The newest completed report of each direct dependency.
Newest(s, n) ==
  {i \in DOMAIN s.reports :
     /\ s.reports[i].task = n /\ s.reports[i].outcome = "completed"
     /\ \A j \in DOMAIN s.reports :
          s.reports[j].task = n /\ s.reports[j].outcome = "completed" => j <= i}

Basis(s, n) == UNION {Newest(s, m) : m \in s.dag[n].deps}

\* The attempt counts once its outcome is saved, whatever that is.
Attempted(s, n, status) ==
  [s EXCEPT !.tasks[n] = [status |-> status, attempts |-> @.attempts + 1]]

Unlock(s) ==
  [s EXCEPT !.tasks = [n \in DOMAIN s.dag |->
     IF s.tasks[n].status = "blocked" /\ s.dag[n].deps \subseteq Completed(s)
     THEN [s.tasks[n] EXCEPT !.status = "ready"] ELSE s.tasks[n]]]

WithReport(s, n, outcome, basis) ==
  [s EXCEPT !.reports = Append(@, [task |-> n, outcome |-> outcome, basis |-> basis])]

\* Mutant: the dependents are unlocked before the task is completed.
ReportedLate(s, n, outcome, basis) ==
  WithReport(Attempted(Unlock(s), n, outcome), n, outcome, basis)
Reported(s, n, outcome, basis) ==
  Unlock(WithReport(Attempted(s, n, outcome), n, outcome, basis))

-----------------------------------------------------------------------------
(* publish(), rollback(), replan() *)

Publishable(s) == DOMAIN s.dag \ {Terminal} \subseteq Completed(s)

Published(s) == [s EXCEPT !.tasks[Terminal].status = "completed", !.terminal = TRUE]

\* A task and all its descendants: the least set that holds the task and every
\* task with a dependency in it.
ClosedUnder(p, set) ==
  \A m \in DOMAIN p : p[m].deps \cap set # {} => m \in set

Affected(p, n) ==
  {m \in DOMAIN p :
     \A set \in SUBSET DOMAIN p : n \in set /\ ClosedUnder(p, set) => m \in set}

RolledBack(s, n) ==
  [s EXCEPT
     !.tasks = [m \in DOMAIN s.dag |->
       IF m \notin Affected(s.dag, n) THEN s.tasks[m]
       ELSE [s.tasks[m] EXCEPT !.status = IF m = n THEN "ready" ELSE "blocked"]],
     !.decisions = @ + 1]

\* Completed tasks whose node is in both plans and the same.
Kept(s, p) == {n \in DOMAIN p \cap Completed(s) : p[n] = s.dag[n]}

\* Every other task starts over, with no attempt made.
Replanned(s, p) ==
  [s EXCEPT
     !.dag = p,
     !.tasks = [n \in DOMAIN p |->
       IF n \in Kept(s, p) THEN s.tasks[n]
       ELSE [status |-> IF p[n].deps \subseteq Kept(s, p) THEN "ready" ELSE "blocked",
             attempts |-> 0]],
     !.decisions = @ + 1]

-----------------------------------------------------------------------------
(* What makes a state sound *)

\* The tasks that are completed while a task they depend on is not.
OutOfOrder(s) == {n \in Completed(s) : ~(s.dag[n].deps \subseteq Completed(s))}

\* No task is completed before the tasks it depends on.
InOrder(s) == OutOfOrder(s) = {}

\* No task waits for dependencies that are completed.
NoneStranded(s) ==
  \A n \in DOMAIN s.dag :
    s.tasks[n].status = "blocked" => ~(s.dag[n].deps \subseteq Completed(s))
=============================================================================
