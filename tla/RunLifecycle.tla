---------------------------- MODULE RunLifecycle ----------------------------
(***************************************************************************)
(* What the Main Harness promises of a run, with nobody racing it: each    *)
(* operation is one step from the current state to the next version.       *)
(***************************************************************************)
EXTENDS RunStates

VARIABLE run

\* What an operation made of the state is the next version.
Become(s) == run' = Committed(s)

Start == run = None /\ \E p \in Opening : run' = Begun(p)

\* No report: the tool failed, or its report is invalid or could not be stored.
SolveFails(n) == Ready(run, n) /\ Become(Attempted(run, n, "failed"))

SolveReports(n) ==
  /\ Ready(run, n)
  /\ \E outcome \in Outcome, basis \in SUBSET DOMAIN run.reports :
       Become(Reported(run, n, outcome, basis))

Publish == Publishable(run) /\ Become(Published(run))

Rollback(n) == ~run.terminal /\ Become(RolledBack(run, n))

Replan(p) == ~run.terminal /\ Become(Replanned(run, p))

Init == run = None

Next ==
  \/ Start
  \/ /\ run # None
     /\ \/ \E n \in DOMAIN run.dag : SolveFails(n) \/ SolveReports(n) \/ Rollback(n)
        \/ \E p \in Plan : Replan(p)
        \/ Publish

Spec == Init /\ [][Next]_run
=============================================================================
