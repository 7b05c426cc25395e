--------------------------- MODULE WorkflowEngine ---------------------------
(* The event-sourced workflow engine (application/workflow_engine.py) over    *)
(* its SQLite state table and its event log with an outbox. Every operation   *)
(* of a caller reads the state, saves it under an optimistic version and then *)
(* appends its event, in two transactions. Callers share one workflow and a   *)
(* database; each may crash between its steps.                                *)
EXTENDS WorkflowStates, FiniteSets, SequencesExt

CONSTANTS Callers,            \* processes that hold an engine
          MaxVersion,         \* a bound: versions of the state
          MaxCommands,        \* a bound: commands of the operator that were saved
          MaxDelivered,       \* a bound: events the publisher looks at
          MaxCrashes          \* a bound: crashes of callers and publisher

ASSUME EngineAssumption ==
    /\ MaxVersion \in Nat \ {0} /\ MaxCommands \in Nat
    /\ MaxDelivered \in Nat /\ MaxCrashes \in Nat

VARIABLES state,              \* the row of m2_workflow_states
          log,                \* m2_events of the workflow, by aggregate_version
          op,                 \* the operation of every caller
          planned,            \* activities handed to workers
          outbox,             \* events marked published
          sending,            \* the event the publisher has handed over
          delivered,          \* events the publisher ever handed over
          crashes,            \* crashes so far
          history             \* the events that made the versions, in order

vars == <<state, log, op, planned, outbox, sending, delivered, crashes, history>>

NoOp == [phase |-> "idle", copy |-> NoWorkflow, event |-> Started]

TypeOK ==
    /\ state \in State \cup {NoWorkflow}
    /\ log \in Seq(Events \cup {Started}) /\ history \in Seq(Events \cup {Started})
    /\ op \in [Callers -> [phase : {"idle", "save", "append"},
                           copy : State \cup {NoWorkflow},
                           event : Events \cup {Started}]]
    /\ planned \subseteq Stages \X Nat
    /\ outbox \subseteq DOMAIN log /\ delivered \subseteq DOMAIN log
    /\ sending \in {0} \cup DOMAIN log
    /\ crashes \in 0 .. MaxCrashes

Init ==
    /\ state = NoWorkflow
    /\ log = <<>> /\ history = <<>>
    /\ op = [c \in Callers |-> NoOp]
    /\ planned = {}
    /\ outbox = {} /\ sending = 0 /\ delivered = {}
    /\ crashes = 0

Idle(c) == op[c].phase = "idle"
Delivery == <<outbox, sending, delivered, crashes>>

-----------------------------------------------------------------------------
(* The operations.                                                           *)

\* WorkflowEngine.start: the row is created under a fresh identity.
Start(c) ==
    /\ Idle(c) /\ state = NoWorkflow
    /\ state' = Initial /\ history' = <<Started>>
    /\ op' = [op EXCEPT ![c].phase = "append"]
    /\ UNCHANGED <<log, planned, Delivery>>

\* The operator's commands are few.
MayCommand == Cardinality({n \in DOMAIN history : history[n] \in Commands}) < MaxCommands

\* Mutant: a workflow that ended is not told apart.
LiveAnyway == state # NoWorkflow
Live == state # NoWorkflow /\ ~ state.terminal

\* apply_activity_result, for an activity of this stage that was planned once,
\* or pause, resume and cancel. Nobody knows the workflow before start returns,
\* and one that ended is left alone.
Get(c, e) ==
    /\ Idle(c) /\ log # <<>> /\ Live
    /\ state.version < MaxVersion
    /\ Takes(state, e)
    /\ e \in Commands => MayCommand
    /\ e \in Results => \E activity \in planned : activity[1] = e.stage
    /\ op' = [op EXCEPT ![c] = [phase |-> "save", copy |-> state, event |-> e]]
    /\ UNCHANGED <<state, log, planned, Delivery, history>>

\* Mutant: the last caller to save wins.
IsCurrentAlways(copy) == TRUE
IsCurrent(copy) == copy.version = state.version

\* SQLiteWorkflowRepository.save, or its conflict.
Save(c) ==
    /\ op[c].phase = "save" /\ IsCurrent(op[c].copy)
    /\ state' = Reduce(op[c].copy, op[c].event)
    /\ history' = Append(history, op[c].event)
    /\ op' = [op EXCEPT ![c].phase = "append"]
    /\ UNCHANGED <<log, planned, Delivery>>

SaveConflict(c) ==
    /\ op[c].phase = "save" /\ ~ IsCurrent(op[c].copy)
    /\ op' = [op EXCEPT ![c] = NoOp]
    /\ UNCHANGED <<state, log, planned, Delivery, history>>

\* The version the event is appended after, and the state it leads to.
Before(c) == IF op[c].copy = NoWorkflow THEN 0 ELSE op[c].copy.version
Saved(c) == IF op[c].copy = NoWorkflow THEN Initial ELSE Reduce(op[c].copy, op[c].event)

\* Mutant: an event is appended after whatever is there.
IsNextAlways(c) == TRUE
IsNext(c) == Len(log) = Before(c)

\* SQLiteEventStore.append_domain with its outbox row; then the activities of
\* the new state are planned, but not for a command of the operator.
AppendEvent(c) ==
    /\ op[c].phase = "append" /\ IsNext(c)
    /\ log' = Append(log, op[c].event)
    /\ planned' = IF op[c].event \in Commands THEN planned
                                              ELSE planned \cup Plan(Saved(c))
    /\ op' = [op EXCEPT ![c] = NoOp]
    /\ UNCHANGED <<state, Delivery, history>>

\* The state stays saved when the log refuses its event.
AppendConflict(c) ==
    /\ op[c].phase = "append" /\ ~ IsNext(c)
    /\ op' = [op EXCEPT ![c] = NoOp]
    /\ UNCHANGED <<state, log, planned, Delivery, history>>

-----------------------------------------------------------------------------
(* The outbox and its publisher, and crashes.                                *)

\* Mutant: events of transactions that are not committed yet are read, too.
UncommittedToo == {n \in DOMAIN history \ outbox : n <= MaxDelivered}
Unpublished == {n \in DOMAIN log \ outbox : n <= MaxDelivered}

\* Mutant: the rows are read latest first.
Latest(events) == CHOOSE n \in events : \A m \in events : n >= m
Earliest(events) == CHOOSE n \in events : \A m \in events : n <= m

\* The publisher takes the first of unpublished().
Deliver ==
    /\ sending = 0 /\ Unpublished # {}
    /\ sending' = Earliest(Unpublished)
    /\ delivered' = delivered \cup {sending'}
    /\ UNCHANGED <<state, log, op, planned, outbox, crashes, history>>

MarkPublished ==
    /\ sending # 0
    /\ outbox' = outbox \cup {sending} /\ sending' = 0
    /\ UNCHANGED <<state, log, op, planned, delivered, crashes, history>>

CallerCrash(c) ==
    /\ ~ Idle(c) /\ crashes < MaxCrashes
    /\ op' = [op EXCEPT ![c] = NoOp] /\ crashes' = crashes + 1
    /\ UNCHANGED <<state, log, planned, outbox, sending, delivered, history>>

PublisherCrash ==
    /\ sending # 0 /\ crashes < MaxCrashes
    /\ sending' = 0 /\ crashes' = crashes + 1
    /\ UNCHANGED <<state, log, op, planned, outbox, delivered, history>>

Next ==
    \/ \E c \in Callers :
          \/ Start(c) \/ (\E e \in Events : Get(c, e)) \/ Save(c) \/ SaveConflict(c)
          \/ AppendEvent(c) \/ AppendConflict(c) \/ CallerCrash(c)
    \/ Deliver \/ MarkPublished \/ PublisherCrash

Spec == Init /\ [][Next]_vars

-----------------------------------------------------------------------------
(* What the engine promises.                                                 *)

\* The log never holds an event that did not move the state, nor one out of
\* place: it is what the history of the state begins with, though two callers
\* append out of the order they saved in (save 51-67, append_domain 83-131).
LogIsAPrefix == IsPrefix(log, history)

\* When the log is complete, the state can be rebuilt from it (reduce 22-50).
Replay(events) ==
    FoldLeft(LAMBDA s, e : IF e = Started THEN Initial ELSE Reduce(s, e),
             NoWorkflow, events)
ReplayRebuildsState ==
    state # NoWorkflow /\ Len(log) = state.version => Replay(log) = state

\* Events are handed over in the order of the log, each at least once before it
\* is marked, whatever crashes in between (unpublished 175-186).
DeliveredInOrder ==
    /\ outbox \subseteq delivered
    /\ \A n \in delivered : 1 .. n \subseteq delivered

\* Seen from its callers the state moves by one event at a time and never after
\* its end: WorkflowLifecycle, with the state of the table for its state.
Lifecycle == INSTANCE WorkflowLifecycle
ImplementsLifecycle == Lifecycle!Spec

\* README.md:34 "Versioned domain Event Envelope with SQLite optimistic
\* aggregate versions and transactional outbox": with no operation under way,
\* every version of the state has its event.
LogIsComplete ==
    (\A c \in Callers : Idle(c)) /\ state # NoWorkflow => Len(log) = state.version
=============================================================================
