----------------------------- MODULE MainHarness -----------------------------
(***************************************************************************)
(* MainHarness (application/main_harness.py) over                          *)
(* SQLiteMainHarnessRepository (infrastructure/db/main_harness.py).        *)
(*                                                                         *)
(* A driver is a client of the harness in a process of its own.  It holds  *)
(* a copy of the state of the run; every operation is made on that copy    *)
(* and saved only if the row still has the copy's version.                 *)
(*                                                                         *)
(* The solve_problem tool is called through the tool runtime, whose table  *)
(* is modelled by key: module ToolRuntime has it in detail.  A driver      *)
(* makes one call at a time, so the cache of its process never differs     *)
(* from the table.                                                         *)
(***************************************************************************)
EXTENDS RunStates

CONSTANTS
  Driver,
  MaxVersion,    \* bound: versions of the run
  MaxDecisions,  \* bound: rollbacks and replans
  MaxCrashes     \* bound: crashes of drivers

ASSUME BoundAssumption ==
  MaxVersion \in Nat \ {0} /\ MaxDecisions \in Nat /\ MaxCrashes \in Nat

Error == "error"

\* The idempotency key of an attempt, but for the run.
Key == Id \X (1..MaxVersion)

\* What the tool returned: an error, or a report on the context it was given.
Result == [outcome : Outcome \cup {Error}, basis : SUBSET Nat]
NoResult == [outcome |-> Error, basis |-> {}]

VARIABLES
  saved,    \* the row of the run in main_harness_runs, or None
  tool,     \* the row of each key in m2_tool_runs
  held,     \* the copy each driver holds, or None
  pc,       \* where in dispatch() each driver is
  call,     \* the task, attempt and result of its dispatch
  crashes

vars == <<saved, tool, held, pc, call, crashes>>

-----------------------------------------------------------------------------
(* The tool table *)

Row == [status : {"absent", "running", "completed"},
        owner : Driver \cup {None}, result : Result]
AbsentRow == [status |-> "absent", owner |-> None, result |-> NoResult]

RunningRow(d) == [status |-> "running", owner |-> d, result |-> NoResult]
CompletedRow(r) == [status |-> "completed", owner |-> None, result |-> r]

Owns(d, k) == tool[k].status = "running" /\ tool[k].owner = d

Label == {"idle", "reserving", "solving", "answered"}

Call == [task : Id, attempt : Nat, result : Result]
NoCall == [task |-> Terminal, attempt |-> 0, result |-> NoResult]

KeyOf(d) == <<call[d].task, call[d].attempt>>

Answer(d, r) ==
  /\ call' = [call EXCEPT ![d].result = r]
  /\ pc' = [pc EXCEPT ![d] = "answered"]

-----------------------------------------------------------------------------
(* The repository *)

Idle(d) == pc[d] = "idle" /\ held[d] # None /\ held[d].version < MaxVersion

\* _commit() and save(): without the row's version it is a conflict, and the
\* driver is left with the copy it had.
\* Mutant: any copy that is not newer will do.
AnyVersion(d) == saved.version >= held[d].version
IsCurrent(d) == saved.version = held[d].version

\* Mutant: the version of the copy is saved again.
SaveInPlace(d, s) ==
  \/ IsCurrent(d) /\ saved' = s /\ held' = [held EXCEPT ![d] = s]
  \/ ~IsCurrent(d) /\ UNCHANGED <<saved, held>>
Save(d, s) ==
  \/ /\ IsCurrent(d)
     /\ saved' = Committed(s)
     /\ held' = [held EXCEPT ![d] = Committed(s)]
  \/ ~IsCurrent(d) /\ UNCHANGED <<saved, held>>

\* start(): create() refuses a second run of the same id.
Start(d, p) ==
  /\ pc[d] = "idle" /\ saved = None
  /\ saved' = Begun(p)
  /\ held' = [held EXCEPT ![d] = Begun(p)]
  /\ UNCHANGED <<tool, pc, call, crashes>>

Get(d) ==
  /\ pc[d] = "idle" /\ saved # None
  /\ held' = [held EXCEPT ![d] = saved]
  /\ UNCHANGED <<saved, tool, pc, call, crashes>>

-----------------------------------------------------------------------------
(* dispatch() *)

\* Up to the tool runtime's lookup: a recorded result is returned at once.
Dispatch(d, n) ==
  LET k == <<n, held[d].tasks[n].attempts + 1>>
      answer == IF tool[k].status = "completed" THEN tool[k].result
                ELSE [outcome |-> Error, basis |-> Basis(held[d], n)]
  IN /\ Idle(d) /\ Ready(held[d], n)
     /\ call' = [call EXCEPT ![d] = [task |-> k[1], attempt |-> k[2], result |-> answer]]
     /\ pc' = [pc EXCEPT ![d] = IF tool[k].status = "completed" THEN "answered" ELSE "reserving"]
     /\ UNCHANGED <<saved, tool, held, crashes>>

\* A reservation that is not too old, or a result recorded since the lookup,
\* makes the call a failure.  Nothing renews a reservation: at any time it may
\* be older than idempotency_lease_seconds.
Reserve(d) ==
  /\ pc[d] = "reserving"
  /\ \/ /\ tool[KeyOf(d)].status # "completed"
        /\ tool' = [tool EXCEPT ![KeyOf(d)] = RunningRow(d)]
        /\ pc' = [pc EXCEPT ![d] = "solving"]
        /\ UNCHANGED call
     \/ /\ tool[KeyOf(d)].status # "absent"
        /\ Answer(d, NoResult)
        /\ UNCHANGED tool
  /\ UNCHANGED <<saved, held, crashes>>

\* The tool ends, and its result is recorded unless the lease was lost.
SolveEnds(d) ==
  /\ pc[d] = "solving"
  /\ \E outcome \in Outcome \cup {Error} :
       LET r == [outcome |-> outcome, basis |-> call[d].result.basis]
       IN \/ /\ Owns(d, KeyOf(d))
             /\ tool' = [tool EXCEPT ![KeyOf(d)] = CompletedRow(r)]
             /\ Answer(d, r)
          \/ ~Owns(d, KeyOf(d)) /\ Answer(d, NoResult) /\ UNCHANGED tool
  /\ UNCHANGED <<saved, held, crashes>>

\* A report that is invalid or cannot be stored fails the task like an error.
Conclude(d) ==
  /\ pc[d] = "answered"
  /\ \/ Save(d, Attempted(held[d], call[d].task, "failed"))
     \/ /\ call[d].result.outcome # Error
        /\ Save(d, Reported(held[d], call[d].task, call[d].result.outcome, call[d].result.basis))
  /\ pc' = [pc EXCEPT ![d] = "idle"]
  /\ call' = [call EXCEPT ![d] = NoCall]
  /\ UNCHANGED <<tool, crashes>>

-----------------------------------------------------------------------------
(* The other operations *)

\* generate_paper() and publish(); the composer works between their checks, on
\* the same copy.
Publish(d) ==
  /\ Idle(d) /\ Publishable(held[d])
  /\ Save(d, Published(held[d]))
  /\ UNCHANGED <<tool, pc, call, crashes>>

\* Mutant: a published run is rolled back or replanned.
DecideAnyway(d) == Idle(d) /\ held[d].decisions < MaxDecisions
Decide(d) == Idle(d) /\ ~held[d].terminal /\ held[d].decisions < MaxDecisions

Rollback(d, n) ==
  /\ Decide(d) /\ n \in DOMAIN held[d].dag
  /\ Save(d, RolledBack(held[d], n))
  /\ UNCHANGED <<tool, pc, call, crashes>>

Replan(d, p) ==
  /\ Decide(d)
  /\ Save(d, Replanned(held[d], p))
  /\ UNCHANGED <<tool, pc, call, crashes>>

-----------------------------------------------------------------------------
(* Crashes *)

\* The reservation, if there is one, is left behind.
Crash(d) ==
  /\ held[d] # None
  /\ crashes < MaxCrashes /\ crashes' = crashes + 1
  /\ held' = [held EXCEPT ![d] = None]
  /\ pc' = [pc EXCEPT ![d] = "idle"]
  /\ call' = [call EXCEPT ![d] = NoCall]
  /\ UNCHANGED <<saved, tool>>

-----------------------------------------------------------------------------
(* The specification *)

Init ==
  /\ saved = None
  /\ tool = [k \in Key |-> AbsentRow]
  /\ held = [d \in Driver |-> None]
  /\ pc = [d \in Driver |-> "idle"]
  /\ call = [d \in Driver |-> NoCall]
  /\ crashes = 0

Drive(d) ==
  \/ \E p \in Opening : Start(d, p)
  \/ \E p \in Plan : Replan(d, p)
  \/ Get(d)
  \/ \E n \in Id : Dispatch(d, n) \/ Rollback(d, n)
  \/ Reserve(d) \/ SolveEnds(d) \/ Conclude(d)
  \/ Publish(d)

Next == \E d \in Driver : Drive(d) \/ Crash(d)

Spec == Init /\ [][Next]_vars

-----------------------------------------------------------------------------
(* Properties *)

\* Type correctness: rows and copies are states of a run, keys of calls in
\* progress are keys of the tool table.
TypeOK ==
  /\ saved # None => IsRun(saved) /\ saved.version \in 1..MaxVersion
  /\ tool \in [Key -> Row]
  /\ \A d \in Driver : held[d] # None => IsRun(held[d])
  /\ pc \in [Driver -> Label]
  /\ call \in [Driver -> Call]
  /\ \A d \in Driver : pc[d] # "idle" => held[d] # None /\ KeyOf(d) \in Key
  /\ crashes \in 0..MaxCrashes

\* The optimistic lock works: a copy with the version of the row is the row, so
\* a save replaces exactly the state its operation was made on.
CopiesAreCurrent ==
  \A d \in Driver :
    held[d] # None =>
      /\ saved # None /\ held[d].version <= saved.version
      /\ held[d].version = saved.version => held[d] = saved

\* A task is completed only after those it depends on, and stays so through every
\* dispatch, publication and rollback, on whichever copy: only a replan loses that
\* order, for a task it keeps over a completed dependency that it changes
\* (replan() compares each node with itself alone).
OrderLostByReplanOnly ==
  [][saved # None =>
       \A n \in OutOfOrder(saved') \ OutOfOrder(saved) :
         \E m \in saved'.dag[n].deps :
           m \in Completed(saved) /\ saved'.dag[m] # saved.dag[m]]_vars

\* "rollback() and replan() operations invalidate downstream state" (README.md:18
\* of the repository): a completed task has completed dependencies.  It does not
\* hold: in MainHarness_replan.cfg a replan changes a task above one it keeps.
CompletedInOrder == saved # None => InOrder(saved)

\* A task that waits has a dependency to wait for: a run never halts with a task
\* blocked that nothing will unlock.
NothingIsStranded == saved # None => NoneStranded(saved)

\* A published run stays published with its tasks and reports as they are, and
\* an operation never removes a report: "preserve historical reports/files".
HistoryIsKept ==
  [][saved # None =>
       /\ Len(saved'.reports) >= Len(saved.reports)
       /\ SubSeq(saved'.reports, 1, Len(saved.reports)) = saved.reports
       /\ saved.terminal => saved'.tasks = saved.tasks /\ saved'.terminal]_vars

\* Concurrent drivers are not seen: the run goes through the steps of one.
Run == INSTANCE RunLifecycle WITH run <- saved
ImplementsRun == Run!Spec

\* A completed task was solved from the current reports of its dependencies.
\* The reports of a rolled back task are history.
BuiltOnCurrentReports ==
  saved # None =>
    \A n \in Completed(saved) \ {Terminal} : \A i \in Newest(saved, n) :
      saved.reports[i].basis = Basis(saved, n)
=============================================================================
