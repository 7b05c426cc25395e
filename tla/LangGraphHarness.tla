-------------------------- MODULE LangGraphHarness --------------------------
(* The driver of a run of the Main Harness                                    *)
(* (application/langgraph_main_harness.py), as the command line calls it: it  *)
(* starts the run, goes round its graph with a copy of the state, dispatching *)
(* one task a step, has the paper composed and rendered, and returns.  An     *)
(* operator may decide over the run meanwhile.  A driver that has ended, or   *)
(* died, is not started again: the run already exists.                        *)
EXTENDS RunStates

CONSTANTS
  Listing,        \* the order in which a table lists its tasks
  MaxIterations,  \* max_iterations, of the command and of every dispatch
  MaxDecisions    \* a bound: decisions of the operator

\* A table has no cycle: among any of its tasks is one that waits for none of them.
ASSUME AcyclicAssumption ==
  \A p \in Opening : \A set \in SUBSET DOMAIN p :
    set # {} => \E n \in set : p[n].deps \cap set = {}

ASSUME DriverAssumption ==
  /\ IsFiniteSet(Id)
  /\ Listing \in Seq(Id) /\ \A n \in Id : \E i \in DOMAIN Listing : Listing[i] = n
  /\ MaxIterations \in 1 .. 20 /\ MaxDecisions \in Nat

VARIABLES
  run,    \* the row
  copy,   \* run_state, in the graph
  phase,  \* the node the graph is at, or how it ended
  steps   \* the nodes it has executed

vars == <<run, copy, phase, steps>>

Nodes == {"dispatch", "compose"}
Ends == {"stopped", "cut", "raised", "rendered", "died"}

Init == run = None /\ copy = None /\ phase = "start" /\ steps = 0

\* recursion_limit
\* Mutant: a step for every problem.
LimitOfProblems(p) == Cardinality(DOMAIN p) - 1
Limit(p) ==
  LET wanted == Cardinality(DOMAIN p) * (MaxIterations + 3) + 8
  IN IF wanted < 32 THEN 32 ELSE wanted

-----------------------------------------------------------------------------
(* The graph *)

ReadyAt(s) == {i \in DOMAIN Listing : Ready(s, Listing[i])}
FirstReady(s) == Listing[CHOOSE i \in ReadyAt(s) : \A j \in ReadyAt(s) : i <= j]

\* Every problem solved: the paper; none to dispatch: the end.
Route(s) ==
  IF s.terminal THEN "render"
  ELSE IF ReadyAt(s) # {} THEN "dispatch"
  ELSE IF Publishable(s) THEN "compose" ELSE "stopped"

\* A node commits what it made of the copy, or finds the row at another version:
\* that is an exception, which ends the graph.
\* Mutant: the row is taken to be the copy.
AnyVersion == TRUE
IsCurrent == run.version = copy.version

Saves(s, next) ==
  IF IsCurrent
  THEN run' = Committed(s) /\ copy' = Committed(s) /\ phase' = next
  ELSE phase' = "raised" /\ UNCHANGED <<run, copy>>

Start ==
  /\ phase = "start"
  /\ \E p \in Opening : run' = Begun(p) /\ copy' = Begun(p)
  /\ phase' = "dispatch" /\ UNCHANGED steps

Goes(node) ==
  /\ phase = node /\ steps < Limit(copy.dag) /\ steps' = steps + 1

\* The node that dispatches; only its first step can find no problem ready.
Dispatch ==
  /\ Goes("dispatch")
  /\ IF ReadyAt(copy) = {}
     THEN phase' = Route(copy) /\ UNCHANGED <<run, copy>>
     ELSE LET n == FirstReady(copy) IN
            \/ \E s \in {Reported(copy, n, outcome, Basis(copy, n)) : outcome \in Outcome}
                        \cup {Attempted(copy, n, "failed")} :
                 Saves(s, Route(s))
            \/ phase' = "raised" /\ UNCHANGED <<run, copy>>

\* generate_paper(): the composer, or the validator of its paper, may raise.
Compose ==
  /\ Goes("compose")
  /\ \/ Saves(Published(copy), "render")
     \/ phase' = "raised" /\ UNCHANGED <<run, copy>>

\* LangGraph raises when the limit is reached before the end.
RunsOut ==
  /\ phase \in Nodes /\ steps = Limit(copy.dag)
  /\ phase' = "cut" /\ UNCHANGED <<run, copy, steps>>

\* The command has the published report rendered, a tool call that may fail.
Render ==
  /\ phase = "render" /\ phase' \in {"rendered", "raised"}
  /\ UNCHANGED <<run, copy, steps>>

DriverStep == Start \/ Dispatch \/ Compose \/ RunsOut \/ Render

-----------------------------------------------------------------------------
(* Others *)

\* Mutant: a published run is decided over as well.
MayDecideAlways == run # None
MayDecide == run # None /\ ~run.terminal

\* An operator's rollback or replan, from the row as it is.
Decide ==
  /\ MayDecide /\ run.decisions < MaxDecisions
  /\ \/ \E n \in DOMAIN run.dag : run' = Committed(RolledBack(run, n))
     \/ \E p \in Plan : run' = Committed(Replanned(run, p))
  /\ UNCHANGED <<copy, phase, steps>>

Crash ==
  /\ phase \notin Ends /\ phase' = "died"
  /\ UNCHANGED <<run, copy, steps>>

Next == DriverStep \/ Decide \/ Crash

Spec == Init /\ [][Next]_vars

-----------------------------------------------------------------------------
(* Properties *)

\* The variables keep their domains.
TypeOK ==
  /\ run = None \/ IsRun(run)
  /\ copy = None \/ IsRun(copy)
  /\ phase \in {"start", "render"} \cup Nodes \cup Ends
  /\ steps \in Nat

\* How a driver ends is true of the run it leaves: it stops short of the paper
\* only if a problem has failed, it is cut only if a problem was reported
\* blocked, and what it renders is the published row, whoever decided over the
\* run meanwhile (route(), recursion_limit, generate_paper()).
EndsForAReason ==
  /\ phase = "stopped" => \E n \in DOMAIN copy.dag : copy.tasks[n].status = "failed"
  /\ phase = "cut" => \E i \in DOMAIN copy.reports : copy.reports[i].outcome = "blocked"
  /\ phase \in {"render", "rendered"} => copy.terminal /\ run = copy

\* No decision of the operator is lost, and no report: the copy the graph goes
\* round with never overwrites a row it does not come from (_commit()).
DecisionsStand ==
  [][run # None =>
       /\ run'.version = run.version + 1 /\ run'.decisions >= run.decisions
       /\ Len(run'.reports) >= Len(run.reports)
       /\ SubSeq(run'.reports, 1, Len(run.reports)) = run.reports]_run

Lifecycle == INSTANCE RunLifecycle

\* The driver, with an operator beside it, is one of the run's lifecycles.
ImplementsRun == Lifecycle!Spec
=============================================================================
