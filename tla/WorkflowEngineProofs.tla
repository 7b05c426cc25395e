------------------------ MODULE WorkflowEngineProofs ------------------------
(* What module WorkflowEngine says of the state, its event log and the outbox, *)
(* for any number of callers, versions, commands, deliveries and crashes.      *)
EXTENDS WorkflowEngine, WellFoundedInduction, TLAPS

-----------------------------------------------------------------------------
(* The definition's states *)

Logged == Events \cup {Started}

\* Reducing a state by an event makes the next version of one.
LEMMA ReduceState ==
  ASSUME NEW s \in State, NEW e \in Events
  PROVE  Reduce(s, e) \in State /\ Reduce(s, e).version = s.version + 1
<1> DEFINE t == IF e \in Commands THEN Obey(s, e.type) ELSE Advance(s, e.revise)
<1>1. After[s.stage] \in Stages
  BY DEF After, State, Stages
<1>2. Obey(s, e.type) \in State
  BY DEF Obey, State
<1>3. Advance(s, e.revise) \in State
  <2>1. [s EXCEPT !.terminal = TRUE] \in State
    BY DEF State
  <2>2. [s EXCEPT !.stage = "revision", !.revision = @ + 1] \in State
    <3>1. s.revision + 1 \in Nat /\ "revision" \in Stages
      BY DEF State, Stages
    <3>2. QED BY <3>1 DEF State
  <2>3. [s EXCEPT !.stage = After[s.stage]] \in State
    BY <1>1 DEF State
  <2>4. QED BY <2>1, <2>2, <2>3 DEF Advance
<1>4. t \in State
  BY <1>2, <1>3
<1>5. [t EXCEPT !.version = s.version + 1] \in State
      /\ [t EXCEPT !.version = s.version + 1].version = s.version + 1
  <2> HIDE DEF t
  <2>1. s.version + 1 \in Nat \ {0}
    BY DEF State
  <2>2. QED BY <1>4, <2>1 DEF State
<1>6. QED BY <1>5 DEF Reduce

\* A workflow starts at version 1.
LEMMA InitialState == Initial \in State /\ Initial.version = 1
BY DEF Initial, State, Stages

\* What is planned are activities: a stage, and a revision.
LEMMA PlanType ==
  ASSUME NEW s \in State
  PROVE  Plan(s) \subseteq Stages \X Nat
BY DEF Plan, Activity, State

-----------------------------------------------------------------------------
(* The inductive invariant *)

Version == IF state = NoWorkflow THEN 0 ELSE state.version

\* Every version has its event, and the log begins like that history.
RowInv ==
  /\ Len(history) = Version
  /\ Len(log) <= Len(history)
  /\ \A n \in 1 .. Len(log) : log[n] = history[n]

\* A copy is the row or older, and a saved event is the one of its version.
OpInv(c) ==
  /\ op[c].phase = "idle" => op[c] = NoOp
  /\ op[c].phase = "save" =>
       /\ op[c].copy \in State /\ ~ op[c].copy.terminal
       /\ op[c].event \in Events /\ Takes(op[c].copy, op[c].event)
       /\ state # NoWorkflow /\ op[c].copy.version <= state.version
       /\ op[c].copy.version = state.version => op[c].copy = state
  /\ op[c].phase = "append" =>
       /\ Before(c) < Len(history) /\ history[Before(c) + 1] = op[c].event
       /\ op[c].copy # NoWorkflow => op[c].event \in Events

\* What is marked or under way was handed over, and all before it.
SendInv ==
  /\ DeliveredInOrder
  /\ sending # 0 => sending \in delivered

Inv == TypeOK /\ RowInv /\ SendInv /\ \A c \in Callers : OpInv(c)

\* A nonempty set of naturals has a least element.
LEMMA LeastNat ==
  ASSUME NEW T, T \subseteq Nat, T # {}
  PROVE  \E n \in T : \A m \in T : n <= m
<1>1. PICK x \in T : \A y \in T : ~ (<<y, x>> \in OpToRel(<, Nat))
  BY NatLessThanWellFounded, WFMin
<1>2. \A y \in T : ~ (y < x)
  BY <1>1 DEF OpToRel
<1>3. QED BY <1>2

\* It holds of an empty store.
LEMMA InitInv == Init => Inv
<1>1. Init => TypeOK
  BY EngineAssumption DEF Init, TypeOK, NoOp
<1>2. Init => RowInv /\ SendInv
  BY DEF Init, RowInv, Version, SendInv, DeliveredInOrder
<1>3. Init => \A c \in Callers : OpInv(c)
  BY DEF Init, OpInv, NoOp
<1>4. QED BY <1>1, <1>2, <1>3 DEF Inv

-----------------------------------------------------------------------------
(* Every step keeps it *)

\* The types, as facts.
LEMMA Types ==
  ASSUME TypeOK
  PROVE  /\ state = NoWorkflow \/ (state \in State /\ state.version \in Nat \ {0})
         /\ log \in Seq(Logged) /\ history \in Seq(Logged)
         /\ Len(log) \in Nat /\ Len(history) \in Nat /\ Version \in Nat
         /\ DOMAIN log = 1 .. Len(log) /\ DOMAIN history = 1 .. Len(history)
         /\ \A c \in Callers :
              /\ op[c].phase \in {"idle", "save", "append"}
              /\ op[c].copy \in State \cup {NoWorkflow}
              /\ op[c].event \in Logged
              /\ Before(c) \in Nat
BY DEF TypeOK, Logged, Version, Before, State

\* A caller that does nothing, while the row stays.
LEMMA OpStays ==
  ASSUME NEW d \in Callers, OpInv(d), UNCHANGED <<state, history>>, op'[d] = op[d]
  PROVE  OpInv(d)'
BY DEF OpInv, Before

\* The operation of a caller ends, and the row stays.
LEMMA EndsOp ==
  ASSUME Inv, NEW c \in Callers, UNCHANGED <<state, history>>,
         op' = [op EXCEPT ![c] = NoOp]
  PROVE  /\ \A d \in Callers : OpInv(d)'
         /\ op' \in [Callers -> [phase : {"idle", "save", "append"},
                                 copy : State \cup {NoWorkflow},
                                 event : Events \cup {Started}]]
<1>1. op \in [Callers -> [phase : {"idle", "save", "append"},
                         copy : State \cup {NoWorkflow}, event : Events \cup {Started}]]
  BY DEF Inv, TypeOK
<1>2. op'[c] = NoOp /\ \A d \in Callers \ {c} : op'[d] = op[d]
  BY <1>1
<1>3. OpInv(c)'
  BY <1>2 DEF OpInv, NoOp
<1>4. \A d \in Callers \ {c} : OpInv(d)'
  BY <1>2, OpStays DEF Inv
<1>5. QED BY <1>1, <1>3, <1>4 DEF NoOp

\* A start makes the first version and the first event of the history.
LEMMA StartKeeps ==
  ASSUME Inv, NEW c \in Callers, Start(c)
  PROVE  Inv'
<1>1. /\ state = NoWorkflow /\ state' = Initial /\ history' = <<Started>>
      /\ op' = [op EXCEPT ![c].phase = "append"]
      /\ UNCHANGED <<log, planned, outbox, sending, delivered, crashes>>
      /\ op[c] = NoOp
  BY DEF Start, Delivery, Idle, Inv, OpInv
<1>2. Len(history) = 0 /\ Len(log) = 0
  BY <1>1, Types DEF Inv, RowInv, Version
<1>3. op \in [Callers -> [phase : {"idle", "save", "append"},
                         copy : State \cup {NoWorkflow}, event : Events \cup {Started}]]
  BY DEF Inv, TypeOK
<1>4. /\ op'[c].phase = "append" /\ op'[c].copy = NoWorkflow /\ op'[c].event = Started
      /\ \A d \in Callers \ {c} : op'[d] = op[d]
  BY <1>1, <1>3 DEF NoOp
<1>5. TypeOK'
  <2>1. op' \in [Callers -> [phase : {"idle", "save", "append"},
                            copy : State \cup {NoWorkflow}, event : Events \cup {Started}]]
    BY <1>1, <1>3
  <2>2. history' \in Seq(Events \cup {Started})
    BY <1>1
  <2>3. QED BY <1>1, <2>1, <2>2, InitialState DEF Inv, TypeOK
<1>6. RowInv'
  BY <1>1, <1>2, InitialState, NoWorkflowAssumption DEF RowInv, Version
<1>7. OpInv(c)'
  BY <1>1, <1>4 DEF OpInv, Before
<1>8. ASSUME NEW d \in Callers \ {c} PROVE OpInv(d)'
  <2>1. op[d].phase = "idle"
    BY <1>1, <1>2, Types DEF Inv, OpInv
  <2>2. QED BY <1>4, <2>1 DEF Inv, OpInv
<1>9. SendInv'
  BY <1>1 DEF Inv, SendInv, DeliveredInOrder
<1>10. QED BY <1>5, <1>6, <1>7, <1>8, <1>9 DEF Inv

\* A caller that reads has a copy of the current version.
LEMMA GetKeeps ==
  ASSUME Inv, NEW c \in Callers, NEW e \in Events, Get(c, e)
  PROVE  Inv'
<1>1. /\ state # NoWorkflow /\ ~ state.terminal /\ Takes(state, e)
      /\ op' = [op EXCEPT ![c] = [phase |-> "save", copy |-> state, event |-> e]]
      /\ UNCHANGED <<state, log, planned, outbox, sending, delivered, crashes, history>>
  BY DEF Get, Delivery, Live
<1>2. state \in State /\ state.version \in Nat
  BY <1>1, Types DEF Inv
<1>3. op \in [Callers -> [phase : {"idle", "save", "append"},
                         copy : State \cup {NoWorkflow}, event : Events \cup {Started}]]
  BY DEF Inv, TypeOK
<1>4. /\ op'[c].phase = "save" /\ op'[c].copy = state /\ op'[c].event = e
      /\ \A d \in Callers \ {c} : op'[d] = op[d]
  BY <1>1, <1>3
<1>5. TypeOK'
  <2>1. op' \in [Callers -> [phase : {"idle", "save", "append"},
                            copy : State \cup {NoWorkflow}, event : Events \cup {Started}]]
    BY <1>1, <1>2, <1>3
  <2>2. QED BY <1>1, <2>1 DEF Inv, TypeOK
<1>6. RowInv' /\ SendInv'
  BY <1>1 DEF Inv, RowInv, Version, SendInv, DeliveredInOrder
<1>7. OpInv(c)'
  BY <1>1, <1>2, <1>4 DEF OpInv
<1>8. \A d \in Callers \ {c} : OpInv(d)'
  BY <1>1, <1>4, OpStays DEF Inv
<1>9. QED BY <1>5, <1>6, <1>7, <1>8 DEF Inv

\* A save keeps it, and reduces the state by an event the state takes.
LEMMA SaveKeeps ==
  ASSUME Inv, NEW c \in Callers, Save(c)
  PROVE  /\ Inv' /\ ~ state.terminal /\ op[c].event \in Events /\ Takes(state, op[c].event)
         /\ state # NoWorkflow /\ state' = Reduce(state, op[c].event)
<1>1. /\ state' = Reduce(op[c].copy, op[c].event)
      /\ history' = Append(history, op[c].event)
      /\ op' = [op EXCEPT ![c].phase = "append"]
      /\ UNCHANGED <<log, planned, outbox, sending, delivered, crashes>>
  BY DEF Save, Delivery
<1>2. /\ op[c].copy = state /\ state # NoWorkflow /\ ~ state.terminal
      /\ op[c].event \in Events /\ Takes(state, op[c].event)
  BY DEF Save, IsCurrent, Inv, OpInv
<1>3. state \in State /\ state.version \in Nat \ {0} /\ Len(history) = state.version
  BY <1>2, Types DEF Inv, RowInv, Version
<1>4. state' \in State /\ state'.version = state.version + 1
  BY <1>1, <1>2, <1>3, ReduceState
<1>5. op \in [Callers -> [phase : {"idle", "save", "append"},
                         copy : State \cup {NoWorkflow}, event : Events \cup {Started}]]
  BY DEF Inv, TypeOK
<1>6. /\ op'[c].phase = "append" /\ op'[c].copy = state /\ op'[c].event = op[c].event
      /\ \A d \in Callers \ {c} : op'[d] = op[d]
  BY <1>1, <1>2, <1>5
<1>7. /\ history' \in Seq(Logged) /\ Len(history') = Len(history) + 1
      /\ history'[Len(history) + 1] = op[c].event
      /\ \A n \in 1 .. Len(history) : history'[n] = history[n]
  BY <1>1, Types DEF Inv
<1>8. TypeOK'
  <2>1. op' \in [Callers -> [phase : {"idle", "save", "append"},
                            copy : State \cup {NoWorkflow}, event : Events \cup {Started}]]
    BY <1>1, <1>5
  <2>2. QED BY <1>1, <1>4, <1>7, <2>1 DEF Inv, TypeOK, Logged
<1>9. state' # NoWorkflow
  BY <1>4, NoWorkflowAssumption
<1>10. RowInv'
  <2>1. Len(history') = Version'
    BY <1>3, <1>4, <1>7, <1>9 DEF Version
  <2>2. Len(log) \in Nat /\ Len(history) \in Nat
    BY Types DEF Inv
  <2>3. QED BY <1>1, <1>7, <2>1, <2>2 DEF Inv, RowInv
<1>11. OpInv(c)'
  <2>1. Before(c)' = Len(history)
    BY <1>2, <1>3, <1>6 DEF Before
  <2>2. QED BY <1>2, <1>3, <1>6, <1>7, <2>1 DEF OpInv
<1>12. ASSUME NEW d \in Callers \ {c} PROVE OpInv(d)'
  <2>1. op'[d] = op[d] /\ Before(d)' = Before(d) /\ OpInv(d)
    BY <1>6 DEF Before, Inv
  <2>2. op[d].phase = "save" => op[d].copy.version \in Nat /\ op[d].copy.version < state'.version
    BY <1>3, <1>4, <2>1 DEF OpInv, State
  <2>3. op[d].phase = "append" => Before(d) + 1 \in 1 .. Len(history)
    BY <1>3, <2>1, Types DEF OpInv, Inv
  <2>4. Len(history) \in Nat /\ Before(d) \in Nat
    BY Types DEF Inv
  <2>5. (op[d].phase = "idle" => op[d] = NoOp)'
    BY <2>1 DEF OpInv
  <2>6. op[d].phase = "append" =>
          /\ Before(d) < Len(history') /\ history'[Before(d) + 1] = op[d].event
          /\ op[d].copy # NoWorkflow => op[d].event \in Events
    BY <1>7, <2>1, <2>3, <2>4 DEF OpInv
  <2>7. op[d].phase = "save" =>
          /\ op[d].copy \in State /\ ~ op[d].copy.terminal
          /\ op[d].event \in Events /\ Takes(op[d].copy, op[d].event)
          /\ state' # NoWorkflow /\ op[d].copy.version <= state'.version
          /\ op[d].copy.version # state'.version
    BY <1>3, <1>4, <1>9, <2>1, <2>2 DEF OpInv
  <2>8. QED BY <2>1, <2>5, <2>6, <2>7 DEF OpInv
<1>13. SendInv'
  BY <1>1 DEF Inv, SendInv, DeliveredInOrder
<1>14. QED BY <1>1, <1>2, <1>8, <1>10, <1>11, <1>12, <1>13 DEF Inv

\* The conflicts and the crash of a caller.
LEMMA StopKeeps ==
  ASSUME Inv, NEW c \in Callers, SaveConflict(c) \/ AppendConflict(c) \/ CallerCrash(c)
  PROVE  Inv'
<1>1. /\ op' = [op EXCEPT ![c] = NoOp]
      /\ UNCHANGED <<state, log, planned, outbox, sending, delivered, history>>
      /\ crashes' \in 0 .. MaxCrashes
  BY EngineAssumption DEF SaveConflict, AppendConflict, CallerCrash, Delivery, Inv, TypeOK
<1>2. TypeOK' /\ \A d \in Callers : OpInv(d)'
  BY <1>1, EndsOp DEF Inv, TypeOK
<1>3. RowInv' /\ SendInv'
  BY <1>1 DEF Inv, RowInv, Version, SendInv, DeliveredInOrder
<1>4. QED BY <1>2, <1>3 DEF Inv

\* An append puts the event of the next version at the end of the log.
LEMMA AppendKeeps ==
  ASSUME Inv, NEW c \in Callers, AppendEvent(c)
  PROVE  Inv'
<1>1. /\ op[c].phase = "append" /\ Len(log) = Before(c) /\ log' = Append(log, op[c].event)
      /\ planned' \in {planned, planned \cup Plan(Saved(c))}
      /\ op' = [op EXCEPT ![c] = NoOp]
      /\ UNCHANGED <<state, outbox, sending, delivered, crashes, history>>
  BY DEF AppendEvent, IsNext, Delivery
<1>2. /\ Before(c) < Len(history) /\ history[Before(c) + 1] = op[c].event
      /\ op[c].copy # NoWorkflow => op[c].event \in Events
  BY <1>1 DEF Inv, OpInv
<1>3. /\ log' \in Seq(Logged) /\ Len(log') = Len(log) + 1 /\ log'[Len(log) + 1] = op[c].event
      /\ \A n \in 1 .. Len(log) : log'[n] = log[n]
      /\ Len(log) \in Nat /\ Len(history) \in Nat /\ Len(log) < Len(history)
  BY <1>1, <1>2, Types DEF Inv
<1>4. DOMAIN log \subseteq DOMAIN log'
  BY <1>3, Types DEF Inv
<1>5. RowInv'
  BY <1>1, <1>2, <1>3 DEF Inv, RowInv, Version
<1>6. Saved(c) \in State
  BY <1>2, Types, ReduceState, InitialState DEF Inv, Saved
<1>7. planned' \subseteq Stages \X Nat
  BY <1>1, <1>6, PlanType DEF Inv, TypeOK
<1>8. TypeOK' /\ \A d \in Callers : OpInv(d)'
  BY <1>1, <1>3, <1>4, <1>7, EndsOp DEF Inv, TypeOK, Logged
<1>9. SendInv'
  BY <1>1 DEF Inv, SendInv, DeliveredInOrder
<1>10. QED BY <1>5, <1>8, <1>9 DEF Inv

\* The publisher goes by the order of the log: what comes before the first
\* unpublished event is published, and so delivered.
LEMMA PublisherKeeps ==
  ASSUME Inv, Deliver \/ MarkPublished \/ PublisherCrash
  PROVE  Inv'
<1>1. UNCHANGED <<state, log, op, planned, history>>
  BY DEF Deliver, MarkPublished, PublisherCrash
<1>2. RowInv' /\ \A d \in Callers : OpInv(d)'
  BY <1>1 DEF Inv, RowInv, Version, OpInv, Before
<1>3. DOMAIN log = 1 .. Len(log) /\ Len(log) \in Nat
  BY Types DEF Inv
<1>4. CASE Deliver
  <2>1. Unpublished \subseteq Nat /\ Unpublished # {}
    BY <1>3, <1>4 DEF Deliver, Unpublished
  <2>2. \E n \in Unpublished : \A m \in Unpublished : n <= m
    BY <2>1, LeastNat
  <2>3. Earliest(Unpublished) \in Unpublished
        /\ \A m \in Unpublished : Earliest(Unpublished) <= m
    BY <2>2 DEF Earliest
  <2>4. PICK n \in Unpublished :
          /\ \A m \in Unpublished : n <= m
          /\ sending' = n /\ delivered' = delivered \cup {n} /\ UNCHANGED <<outbox, crashes>>
    BY <1>4, <2>3 DEF Deliver
  <2>5. n \in 1 .. Len(log) /\ n \notin outbox /\ MaxDelivered \in Nat /\ n <= MaxDelivered
    BY <1>3, EngineAssumption DEF Unpublished
  <2>6. \A m \in 1 .. n : m < n => m \in outbox
    BY <1>3, <2>4, <2>5 DEF Unpublished
  <2>7. \A m \in 1 .. n : m \in delivered'
    BY <2>4, <2>5, <2>6 DEF Inv, SendInv, DeliveredInOrder
  <2>8. \A k \in delivered' : 1 .. k \subseteq delivered'
    BY <2>4, <2>7 DEF Inv, SendInv, DeliveredInOrder
  <2>9. SendInv'
    BY <2>4, <2>8 DEF Inv, SendInv, DeliveredInOrder
  <2>10. TypeOK'
    BY <1>1, <1>3, <2>4, <2>5 DEF Inv, TypeOK
  <2>11. QED BY <1>2, <2>9, <2>10 DEF Inv
<1>5. CASE MarkPublished \/ PublisherCrash
  <2>1. /\ delivered' = delivered /\ sending' = 0
        /\ outbox' \in {outbox, outbox \cup {sending}} /\ sending # 0
        /\ crashes' \in 0 .. MaxCrashes
    BY <1>5, EngineAssumption DEF MarkPublished, PublisherCrash, Inv, TypeOK
  <2>2. SendInv'
    BY <2>1 DEF Inv, SendInv, DeliveredInOrder
  <2>3. TypeOK'
    BY <1>1, <2>1 DEF Inv, TypeOK
  <2>4. QED BY <1>2, <2>2, <2>3 DEF Inv
<1>6. QED BY <1>4, <1>5

\* Every step keeps it.
LEMMA StepKeeps == Inv /\ [Next]_vars => Inv'
<1>1. ASSUME Inv, UNCHANGED vars PROVE Inv'
  BY <1>1
  DEF vars, Inv, TypeOK, RowInv, Version, SendInv, DeliveredInOrder, OpInv, Before
<1>2. QED
  BY <1>1, StartKeeps, GetKeeps, SaveKeeps, StopKeeps, AppendKeeps, PublisherKeeps DEF Next

\* It is an invariant of the engine.
LEMMA EngineInvariant == Spec => []Inv
BY InitInv, StepKeeps, PTL DEF Spec

-----------------------------------------------------------------------------
(* What it gives *)

\* Rows, operations and the publisher's sets keep their domains.
THEOREM EngineTypes == Spec => []TypeOK
<1>1. Inv => TypeOK BY DEF Inv
<1>2. QED BY <1>1, EngineInvariant, PTL

\* Whatever callers race and crash, the log is what the history of the state
\* begins with (append_domain()'s expected version).
THEOREM EngineLogIsAPrefix == Spec => []LogIsAPrefix
<1>1. ASSUME Inv PROVE LogIsAPrefix
  <2>1. /\ log \in Seq(Logged) /\ history \in Seq(Logged)
        /\ Len(log) \in Nat /\ Len(history) \in Nat /\ Len(log) <= Len(history)
        /\ \A n \in 1 .. Len(log) : log[n] = history[n]
    BY <1>1, Types DEF Inv, RowInv
  <2>2. SubSeq(log, 1, Len(log)) = SubSeq(history, 1, Len(log))
    BY <2>1
  <2>3. QED BY <2>1, <2>2 DEF LogIsAPrefix, IsPrefix
<1>2. QED BY <1>1, EngineInvariant, PTL

\* Events are handed over in the log's order, and before they are marked,
\* whenever the publisher crashes (unpublished(), mark_published()).
THEOREM EngineDeliversInOrder == Spec => []DeliveredInOrder
<1>1. Inv => DeliveredInOrder BY DEF Inv, SendInv
<1>2. QED BY <1>1, EngineInvariant, PTL

-----------------------------------------------------------------------------
(* Replaying the log.  Replay is a fold over the indices of a sequence, which *)
(* the library defines by a function over all sets of indices: that there is  *)
(* such a function, and what it gives for one more event.                     *)

Replayed(s, e) == IF e = Started THEN Initial ELSE Reduce(s, e)

\* The equation of the fold, for the first k events of a sequence.
Fold(h, k, it) ==
  [s \in SUBSET (1 .. k) |->
     IF s = {} THEN NoWorkflow ELSE Replayed(it[s \ {Max(s)}], h[Max(s)])]

FoldOf(h, k) == CHOOSE it : it = Fold(h, k, it)

\* The fold of the library, at the reduction of the workflow.
LEMMA ReplayIsFold ==
  ASSUME NEW E, NEW h \in Seq(E)
  PROVE  Replay(h) = FoldOf(h, Len(h))[1 .. Len(h)]
<1> DEFINE D == DOMAIN h
           It == CHOOSE it : it = [s \in SUBSET D |->
                   IF s = {} THEN NoWorkflow ELSE Replayed(it[s \ {Max(s)}], h[Max(s)])]
<1>1. Replay(h) = It[D]
  BY DEF Replay, FoldLeft, MapThenFoldSet, Replayed
<1>2. D = 1 .. Len(h)
  OBVIOUS
<1> HIDE DEF D
<1> QED
  BY <1>1, <1>2 DEF Fold, FoldOf

\* A nonempty set of indices has a greatest one.
LEMMA MaxIndex ==
  ASSUME NEW k \in Nat, NEW s, s \subseteq 1 .. k, s # {}
  PROVE  Max(s) \in s /\ \A i \in s : i <= Max(s)
<1> DEFINE T == {k - i : i \in s}
<1>1. T \subseteq Nat /\ T # {}
  OBVIOUS
<1>2. PICK n \in T : \A m \in T : n <= m
  <2> HIDE DEF T
  <2> QED BY <1>1, LeastNat
<1>3. PICK j \in s : n = k - j
  BY <1>2
<1>4. \A i \in s : j >= i
  <2> TAKE i \in s
  <2>1. k - i \in T /\ k - i \in Nat
    OBVIOUS
  <2> QED BY <1>2, <1>3, <2>1
<1>5. \E x \in s : \A y \in s : x >= y
  BY <1>4
<1>6. Max(s) \in s /\ \A y \in s : Max(s) >= y
  BY <1>5 DEF Max
<1> QED
  BY <1>6

\* The equation of the fold of no event has a solution, and with a solution
\* for k events one for k + 1.
LEMMA FoldGrows ==
  ASSUME NEW h, NEW k \in Nat, NEW g, g = Fold(h, k, g)
  PROVE  \E it : it = Fold(h, k + 1, it)
<1> DEFINE it == [s \in SUBSET (1 .. k + 1) |->
                    IF k + 1 \in s THEN Replayed(g[s \ {k + 1}], h[k + 1]) ELSE g[s]]
<1>1. ASSUME NEW s \in SUBSET (1 .. k + 1)
      PROVE  it[s] = IF s = {} THEN NoWorkflow ELSE Replayed(it[s \ {Max(s)}], h[Max(s)])
  <2>1. CASE s = {}
    <3>1. it[s] = g[s]
      BY <2>1
    <3>2. g[s] = NoWorkflow
      BY <2>1 DEF Fold
    <3> QED BY <2>1, <3>1, <3>2
  <2>2. CASE s # {} /\ k + 1 \in s
    <3>1. Max(s) = k + 1
      <4>1. k + 1 \in Nat /\ s \subseteq 1 .. k + 1 /\ s # {}
        BY <2>2
      <4>2. Max(s) \in s /\ \A i \in s : i <= Max(s)
        BY <4>1, MaxIndex
      <4>3. Max(s) \in 1 .. k + 1 /\ k + 1 <= Max(s)
        BY <2>2, <4>1, <4>2
      <4> QED BY <4>3
    <3>2. s \ {k + 1} \in SUBSET (1 .. k) /\ s \ {k + 1} \in SUBSET (1 .. k + 1)
      OBVIOUS
    <3>3. it[s \ {k + 1}] = g[s \ {k + 1}]
      BY <3>2
    <3>4. it[s] = Replayed(g[s \ {k + 1}], h[k + 1])
      BY <2>2
    <3> HIDE DEF it
    <3> QED BY <2>2, <3>1, <3>3, <3>4
  <2>3. CASE s # {} /\ k + 1 \notin s
    <3>1. s \in SUBSET (1 .. k)
      BY <2>3
    <3>2. Max(s) \in s
      BY <2>3, <3>1, MaxIndex
    <3>3. g[s] = Replayed(g[s \ {Max(s)}], h[Max(s)])
      BY <2>3, <3>1 DEF Fold
    <3>4. it[s] = g[s] /\ it[s \ {Max(s)}] = g[s \ {Max(s)}]
      BY <2>3, <3>1, <3>2
    <3> HIDE DEF it
    <3> QED BY <2>3, <3>3, <3>4
  <2> QED BY <2>1, <2>2, <2>3
<1>2. it = Fold(h, k + 1, it)
  BY <1>1 DEF Fold
<1> QED
  BY <1>2

\* So it has one for every number of events.
LEMMA FoldExists ==
  ASSUME NEW h, NEW k \in Nat
  PROVE  FoldOf(h, k) = Fold(h, k, FoldOf(h, k))
<1> DEFINE T == {n \in Nat : ~ \E it : it = Fold(h, n, it)}
<1>1. T = {}
  <2> SUFFICES ASSUME T # {} PROVE FALSE
    OBVIOUS
  <2>1. PICK n \in T : \A m \in T : n <= m
    BY LeastNat
  <2>2. n # 0
    <3> DEFINE it == [s \in SUBSET (1 .. 0) |-> NoWorkflow]
    <3>1. it = Fold(h, 0, it)
      BY DEF Fold
    <3> HIDE DEF it
    <3> QED BY <3>1
  <2>3. n - 1 \in Nat /\ n - 1 \notin T
    BY <2>1, <2>2
  <2>4. PICK g : g = Fold(h, n - 1, g)
    BY <2>3
  <2>5. \E it : it = Fold(h, n - 1 + 1, it)
    BY <2>3, <2>4, FoldGrows
  <2> QED BY <2>1, <2>5
<1>2. \E it : it = Fold(h, k, it)
  BY <1>1
<1> QED
  BY <1>2 DEF FoldOf

\* The fold of the first j + 1 events.
LEMMA FoldAt ==
  ASSUME NEW h, NEW k \in Nat, NEW j \in Nat, j < k
  PROVE  /\ FoldOf(h, k)[1 .. 0] = NoWorkflow
         /\ FoldOf(h, k)[1 .. j + 1] = Replayed(FoldOf(h, k)[1 .. j], h[j + 1])
<1>1. 1 .. j + 1 \in SUBSET (1 .. k) /\ 1 .. 0 \in SUBSET (1 .. k)
  OBVIOUS
<1>2. Max(1 .. j + 1) = j + 1
  BY MaxIndex
<1>3. (1 .. j + 1) \ {j + 1} = 1 .. j
  OBVIOUS
<1>4. 1 .. 0 = {} /\ 1 .. j + 1 # {}
  <2>1. 1 \in 1 .. j + 1
    OBVIOUS
  <2>2. \A i : i \notin 1 .. 0
    OBVIOUS
  <2> QED BY <2>1, <2>2
<1>5. ASSUME NEW it, it = Fold(h, k, it)
      PROVE  /\ it[1 .. 0] = NoWorkflow
             /\ it[1 .. j + 1] = Replayed(it[1 .. j], h[j + 1])
  BY <1>1, <1>2, <1>3, <1>4, <1>5 DEF Fold
<1> QED
  BY <1>5, FoldExists

\* Nothing is the replay of an empty log, and an event more moves the replay
\* by one reduction.
LEMMA ReplayEmpty == Replay(<<>>) = NoWorkflow
<1>1. <<>> \in Seq(Logged) /\ Len(<<>>) = 0
  OBVIOUS
<1>2. Replay(<<>>) = FoldOf(<<>>, 0)[1 .. 0]
  BY <1>1, ReplayIsFold
<1>3. ASSUME NEW it, it = Fold(<<>>, 0, it) PROVE it[1 .. 0] = NoWorkflow
  BY <1>3 DEF Fold
<1> QED
  BY <1>2, <1>3, FoldExists

\* An event more moves the replay by one reduction.
LEMMA ReplayAppend ==
  ASSUME NEW h \in Seq(Logged), NEW e \in Logged
  PROVE  Replay(Append(h, e)) = Replayed(Replay(h), e)
<1> DEFINE n == Len(h)
           a == Append(h, e)
           T == {j \in 0 .. n : FoldOf(a, n + 1)[1 .. j] # FoldOf(h, n)[1 .. j]}
<1>1. /\ n \in Nat /\ a \in Seq(Logged) /\ Len(a) = n + 1 /\ a[n + 1] = e
      /\ \A i \in 1 .. n : a[i] = h[i]
  OBVIOUS
<1>2. /\ Replay(h) = FoldOf(h, n)[1 .. n]
      /\ Replay(a) = FoldOf(a, n + 1)[1 .. n + 1]
  <2> HIDE DEF a
  <2> QED BY <1>1, ReplayIsFold
<1> HIDE DEF n, a
<1>3. FoldOf(a, n + 1)[1 .. n] = FoldOf(h, n)[1 .. n]
  <2> SUFFICES ASSUME T # {} PROVE FALSE
    BY <1>1
  <2>1. PICK j \in T : \A m \in T : j <= m
    <3>1. T \subseteq Nat
      BY <1>1
    <3> HIDE DEF T
    <3> QED BY <3>1, LeastNat
  <2>2. j # 0
    <3>1. FoldOf(a, n + 1)[1 .. 0] = NoWorkflow
      BY <1>1, FoldAt
    <3>2. ASSUME NEW it, it = Fold(h, n, it) PROVE it[1 .. 0] = NoWorkflow
      BY <1>1, <3>2 DEF Fold
    <3> QED BY <1>1, <2>1, <3>1, <3>2, FoldExists
  <2>3. j - 1 \in Nat /\ j - 1 < n /\ j - 1 \notin T /\ j - 1 \in 0 .. n /\ j - 1 + 1 = j
    BY <1>1, <2>1, <2>2
  <2>4. FoldOf(a, n + 1)[1 .. j - 1] = FoldOf(h, n)[1 .. j - 1]
    BY <2>3
  <2>5. /\ FoldOf(a, n + 1)[1 .. j] = Replayed(FoldOf(a, n + 1)[1 .. j - 1], a[j])
        /\ FoldOf(h, n)[1 .. j] = Replayed(FoldOf(h, n)[1 .. j - 1], h[j])
    <3>1. n + 1 \in Nat /\ j - 1 < n + 1
      BY <1>1, <2>3
    <3> QED BY <1>1, <2>3, <3>1, FoldAt
  <2>6. a[j] = h[j]
    BY <1>1, <2>1, <2>2
  <2> QED BY <2>1, <2>4, <2>5, <2>6
<1>4. FoldOf(a, n + 1)[1 .. n + 1] = Replayed(FoldOf(a, n + 1)[1 .. n], a[n + 1])
  <2>1. n + 1 \in Nat /\ n < n + 1
    BY <1>1
  <2> QED BY <1>1, <2>1, FoldAt
<1> QED
  BY <1>1, <1>2, <1>3, <1>4 DEF a

-----------------------------------------------------------------------------
(* The state is its history, replayed *)

\* The history, replayed, is the state.
ReplayInv == Replay(history) = state

\* A start or a save adds to the history what it does to the state.
LEMMA HistoryKeeps ==
  ASSUME Inv, ReplayInv, [Next]_vars
  PROVE  ReplayInv'
<1>1. history \in Seq(Logged)
  BY Types DEF Inv
<1>2. ASSUME NEW c \in Callers, Start(c) PROVE ReplayInv'
  <2>1. history = <<>>
    BY <1>1, <1>2, Types DEF Inv, RowInv, Version, Start
  <2>2. history' = Append(history, Started) /\ state' = Initial
    BY <1>2, <2>1 DEF Start
  <2> QED BY <1>1, <2>2, ReplayAppend DEF Replayed, Logged, ReplayInv
<1>3. ASSUME NEW c \in Callers, Save(c) PROVE ReplayInv'
  <2>1. op[c].event \in Events /\ state' = Reduce(state, op[c].event)
    BY <1>3, SaveKeeps
  <2>2. history' = Append(history, op[c].event)
    BY <1>3 DEF Save
  <2>3. op[c].event # Started
    BY <2>1 DEF Events, Commands, Command, Results, Completed, Started
  <2> QED BY <1>1, <2>1, <2>2, <2>3, ReplayAppend DEF Replayed, Logged, ReplayInv
<1>4. CASE UNCHANGED <<state, history>>
  BY <1>4 DEF ReplayInv
<1>5. UNCHANGED <<state, history>> \/ \E c \in Callers : Start(c) \/ Save(c)
  BY DEF Next, vars, Get, SaveConflict, AppendEvent, AppendConflict, CallerCrash, Deliver,
         MarkPublished, PublisherCrash
<1> QED
  BY <1>2, <1>3, <1>4, <1>5

\* Whenever the log has caught up, replaying it gives the state of the table,
\* whatever was lost, refused or crashed before (reduce()).
THEOREM EngineReplays == Spec => []ReplayRebuildsState
<1>1. Init => ReplayInv
  BY ReplayEmpty DEF Init, ReplayInv
<1>2. Inv /\ ReplayInv /\ [Next]_vars => ReplayInv'
  BY HistoryKeeps
<1>3. ASSUME Inv, ReplayInv PROVE ReplayRebuildsState
  <2> SUFFICES ASSUME state # NoWorkflow, Len(log) = state.version PROVE Replay(log) = state
    BY DEF ReplayRebuildsState
  <2>1. /\ log \in Seq(Logged) /\ history \in Seq(Logged) /\ Len(log) = Len(history)
        /\ \A n \in 1 .. Len(log) : log[n] = history[n]
    BY <1>3, Types DEF Inv, RowInv, Version
  <2>2. log = history
    BY <2>1
  <2> QED BY <1>3, <2>2 DEF ReplayInv
<1>4. QED
  BY <1>1, <1>2, <1>3, EngineInvariant, PTL DEF Spec

-----------------------------------------------------------------------------
(* The refinement *)

\* The abstract module speaks of the same states.
LEMMA SameStates ==
  ASSUME NEW s, NEW e
  PROVE  /\ Lifecycle!Initial = Initial /\ Lifecycle!Events = Events
         /\ (Lifecycle!Takes(s, e) <=> Takes(s, e)) /\ Lifecycle!Reduce(s, e) = Reduce(s, e)
<1>1. /\ Lifecycle!Commands = Commands /\ Lifecycle!Results = Results
      /\ Lifecycle!Initial = Initial /\ Lifecycle!After = After
  BY DEF Lifecycle!Commands, Commands, Lifecycle!Command, Command, Lifecycle!Results, Results,
         Lifecycle!Completed, Completed, Lifecycle!Stages, Stages, Lifecycle!Initial, Initial,
         Lifecycle!After, After
<1>2. Lifecycle!Events = Events
  BY <1>1 DEF Lifecycle!Events, Events
<1>3. Lifecycle!Takes(s, e) <=> Takes(s, e)
  BY <1>1 DEF Lifecycle!Takes, Takes
<1>4. Lifecycle!Obey(s, e.type) = Obey(s, e.type)
  BY DEF Lifecycle!Obey, Obey
<1>5. Lifecycle!Advance(s, e.revise) = Advance(s, e.revise)
  BY <1>1 DEF Lifecycle!Advance, Advance
<1>6. QED BY <1>1, <1>2, <1>3, <1>4, <1>5 DEF Lifecycle!Reduce, Reduce

\* Concurrent callers, lost saves and refused events are seen in the state as
\* one caller that moves it an event at a time, until its end.
THEOREM EngineImplementsLifecycle == Spec => ImplementsLifecycle
<1>1. Init => Lifecycle!Init
  BY DEF Init, Lifecycle!Init
<1>2. Inv /\ [Next]_vars => [Lifecycle!Next]_state
  <2>1. ASSUME NEW c \in Callers, Start(c) PROVE Lifecycle!Next
    BY <2>1, SameStates DEF Start, Lifecycle!Next, Lifecycle!Begin
  <2>2. ASSUME Inv, NEW c \in Callers, Save(c) PROVE Lifecycle!Next
    <3>1. /\ state # NoWorkflow /\ ~ state.terminal /\ op[c].event \in Events
          /\ Takes(state, op[c].event) /\ state' = Reduce(state, op[c].event)
      BY <2>2, SaveKeeps
    <3>2. QED BY <3>1, SameStates DEF Lifecycle!Next, Lifecycle!Move
  <2>3. ASSUME Next PROVE UNCHANGED state \/ \E c \in Callers : Start(c) \/ Save(c)
    BY <2>3
    DEF Next, Get, SaveConflict, AppendEvent, AppendConflict, CallerCrash, Deliver,
        MarkPublished, PublisherCrash
  <2>4. QED BY <2>1, <2>2, <2>3 DEF vars
<1>3. QED
  BY <1>1, <1>2, EngineInvariant, PTL DEF Spec, ImplementsLifecycle, Lifecycle!Spec
=============================================================================
