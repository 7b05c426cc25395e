---------------------------- MODULE RuntimeProofs ----------------------------
(***************************************************************************)
(* Proofs about the two runtimes that work for the solver: ToolRuntime,    *)
(* for any processes, calls, keys and leases, and DshRuntime, for any      *)
(* number of proposals.                                                    *)
(***************************************************************************)
EXTENDS ToolRuntime, DshRuntime, SequenceTheorems, TLAPS

-----------------------------------------------------------------------------
(* Types *)

\* A completed row is a row.
LEMMA CompletedIsRun ==
  ASSUME NEW run \in Run, NEW r \in Result
  PROVE  CompletedRun(run, r) \in Run
BY DEF CompletedRun, Run

\* A result known to the process or to the store is a result.
LEMMA KnownIsResult ==
  ASSUME TypeOK, NEW p \in Process, NEW k \in Key
  PROVE  Known(p, k) \in Result \cup {None}
<1> runs[k] \in Run /\ cache[p][k] \in Result \cup {None}
  BY DEF TypeOK
<1> QED
  BY DEF Known, Run

\* The initial state is well typed.
LEMMA TypeInit == Init => TypeOK
BY TickAssumption DEF Init, TypeOK, AbsentRun, Run, Label, Lapsed

\* Every step keeps the types.
LEMMA TypeNext == TypeOK /\ [Next]_vars => TypeOK'
<1> SUFFICES ASSUME TypeOK, [Next]_vars PROVE TypeOK'
  OBVIOUS
<1>1. ASSUME NEW c \in Call, NEW k \in Key, Begin(c, k) PROVE TypeOK'
  BY <1>1 DEF TypeOK, Begin, Goto, Label, Inside, Returned
<1>2. ASSUME NEW c \in Call, Execute(c) PROVE TypeOK'
  <2>1. CASE Lookup(c)
    <3>1. pc[c] # "new" /\ key[c] \in Key /\ ProcessOf[c] \in Process
      BY <2>1, ProcessAssumption DEF TypeOK, Lookup
    <3>2. Known(ProcessOf[c], key[c]) \in Result \cup {None}
      BY <3>1, KnownIsResult
    <3>3. result' \in [Call -> Result \cup {None}] /\ faults' \in 0..MaxFaults
      BY <2>1, <3>2, TickAssumption DEF TypeOK, Lookup, Fault
    <3>4. PICK label \in {"cached", "reserving", "refused"} : pc' = [pc EXCEPT ![c] = label]
      BY <2>1 DEF Lookup, Goto
    <3>5. \A d \in Call : d # c => result'[d] = result[d] /\ pc'[d] = pc[d]
      BY <2>1, <3>4 DEF TypeOK, Lookup
    <3> QED
      BY <2>1, <3>1, <3>3, <3>4, <3>5 DEF TypeOK, Lookup, Label, Inside, Returned
  <2>2. CASE Reserve(c)
    <3>1. key[c] \in Key
      BY <2>2 DEF TypeOK, Reserve
    <3>2. [status |-> "running", token |-> c, result |-> None] \in Run
      BY DEF Run
    <3>3. runs' \in [Key -> Run]
      BY <2>2, <3>1, <3>2 DEF TypeOK, Reserve
    <3>4. age' \in [Call -> 0..Lapsed] /\ faults' \in 0..MaxFaults
      BY <2>2, TickAssumption DEF TypeOK, Reserve, Fault, Lapsed
    <3> QED
      BY <2>2, <3>1, <3>3, <3>4 DEF TypeOK, Reserve, Goto, Label, Inside, Returned
  <2>3. CASE HandlerEnds(c)
    BY <2>3 DEF TypeOK, HandlerEnds, Goto, Label, Inside
  <2>4. CASE HandlerTimesOut(c)
    BY <2>4 DEF TypeOK, HandlerTimesOut, Goto, Label, Inside, Result
  <2>5. CASE HandlerUnwinds(c)
    BY <2>5 DEF TypeOK, HandlerUnwinds
  <2>6. CASE CacheResult(c)
    <3>1. ProcessOf[c] \in Process /\ key[c] \in Key /\ result[c] \in Result
      BY <2>6, ProcessAssumption DEF TypeOK, CacheResult
    <3> QED
      BY <2>6, <3>1 DEF TypeOK, CacheResult, Goto, Label, Inside
  <2>7. CASE Record(c)
    <3>1. key[c] \in Key /\ result[c] \in Result
      BY <2>7 DEF TypeOK, Record
    <3>2. runs' \in [Key -> Run] /\ faults' \in 0..MaxFaults
      BY <2>7, <3>1, CompletedIsRun, TickAssumption DEF TypeOK, Record, Fault
    <3> QED
      BY <2>7, <3>1, <3>2 DEF TypeOK, Record, Goto, Label, Inside, Returned
  <2>8. CASE Withdraw(c)
    <3>1. ProcessOf[c] \in Process /\ key[c] \in Key
      BY <2>8, ProcessAssumption DEF TypeOK, Withdraw
    <3> QED
      BY <2>8, <3>1 DEF TypeOK, Withdraw, Goto, Label, Inside, Returned
  <2> QED
    BY <1>2, <2>1, <2>2, <2>3, <2>4, <2>5, <2>6, <2>7, <2>8 DEF Execute
<1>3. ASSUME NEW p \in Process, Crash(p) PROVE TypeOK'
  <2>1. cache' \in [Process -> [Key -> Result \cup {None}]] /\ faults' \in 0..MaxFaults
    BY <1>3, TickAssumption DEF TypeOK, Crash, Fault
  <2>2. pc' \in [Call -> Label] /\ handling' \in [Call -> BOOLEAN]
    BY <1>3 DEF TypeOK, Crash, Label
  <2>3. \A c \in Call : pc'[c] = pc[c] \/ (pc[c] \in Inside /\ pc'[c] = "dead")
    BY <1>3 DEF Crash
  <2>4. /\ \A c \in Call : pc'[c] # "new" => key[c] \in Key
        /\ \A c \in Call : pc'[c] \in {"answered", "storing", "stored"} => result[c] \in Result
    BY <2>3 DEF TypeOK, Inside
  <2> QED
    BY <1>3, <2>1, <2>2, <2>4 DEF TypeOK, Crash
<1>4. CASE Tick
  <2>1. age' \in [Call -> 0..Lapsed]
    BY <1>4, TickAssumption DEF TypeOK, Tick, Lapsed
  <2> QED
    BY <1>4, <2>1 DEF TypeOK, Tick
<1>5. CASE UNCHANGED vars
  BY <1>5 DEF TypeOK, vars
<1> QED
  BY <1>1, <1>2, <1>3, <1>4, <1>5 DEF Next

\* Rows, cache and calls keep to their domains (tools.py, tool_runs.py).
THEOREM RuntimeTypeCorrect == Spec => []TypeOK
BY TypeInit, TypeNext, PTL DEF Spec

-----------------------------------------------------------------------------
(* Completed rows *)

\* Only a reservation and a completion write to the table, each to a row that
\* is not completed.
LEMMA RunsStay ==
  ASSUME TypeOK, [Next]_vars, NEW k \in Key
  PROVE  \/ runs'[k] = runs[k]
         \/ \E c \in Call : key[c] = k /\ (Reserve(c) \/ Record(c)) /\ runs[k].status # "completed"
<1>1. ASSUME NEW c \in Call, Execute(c), runs'[k] # runs[k]
      PROVE  key[c] = k /\ (Reserve(c) \/ Record(c)) /\ runs[k].status # "completed"
  <2>1. CASE Reserve(c)
    BY <1>1, <2>1 DEF TypeOK, Reserve, Free
  <2>2. CASE Record(c)
    BY <1>1, <2>2 DEF TypeOK, Record, HoldsToken
  <2>3. CASE ~Reserve(c) /\ ~Record(c)
    BY <1>1, <2>3 DEF Execute, Lookup, HandlerEnds, HandlerTimesOut, HandlerUnwinds, CacheResult, Withdraw
  <2> QED
    BY <2>1, <2>2, <2>3
<1>2. ASSUME ~(\E c \in Call : Execute(c)) PROVE runs'[k] = runs[k]
  BY <1>2 DEF Next, vars, Begin, Crash, Tick
<1> QED
  BY <1>1, <1>2

\* A completed row never changes, for any number of callers, lapsed leases,
\* crashes and late completions.
THEOREM CompletedForGood == Spec => CompletedIsImmutable
<1>1. TypeOK /\ [Next]_vars => [\A k \in Key : runs[k].status = "completed" => runs'[k] = runs[k]]_vars
  BY RunsStay
<1> QED
  BY <1>1, RuntimeTypeCorrect, PTL DEF Spec, CompletedIsImmutable

\* A step leaves a call that has stored its result as it is.
LEMMA StoredStays ==
  ASSUME TypeOK, [Next]_vars, NEW c \in Call, pc[c] = "stored"
  PROVE  pc'[c] = "stored" /\ key'[c] = key[c] /\ result'[c] = result[c]
<1>1. ASSUME NEW d \in Call, NEW k \in Key, Begin(d, k) PROVE pc'[c] = pc[c] /\ key'[c] = key[c] /\ result'[c] = result[c]
  BY <1>1 DEF TypeOK, Begin, Goto
<1>2. ASSUME NEW d \in Call, Execute(d) PROVE pc'[c] = pc[c] /\ key'[c] = key[c] /\ result'[c] = result[c]
  BY <1>2 DEF TypeOK, Execute, Lookup, Reserve, HandlerEnds, HandlerTimesOut, HandlerUnwinds,
       CacheResult, Record, Withdraw, Goto
<1>3. ASSUME NEW p \in Process, Crash(p) PROVE pc'[c] = pc[c] /\ key'[c] = key[c] /\ result'[c] = result[c]
  BY <1>3 DEF Crash, Inside
<1>4. CASE Tick \/ UNCHANGED vars
  BY <1>4 DEF Tick, vars
<1> QED
  BY <1>1, <1>2, <1>3, <1>4 DEF Next

\* Every step keeps a stored result in its row.
LEMMA StoredNext == TypeOK /\ StoredIsRecorded /\ [Next]_vars => StoredIsRecorded'
<1> SUFFICES ASSUME TypeOK, StoredIsRecorded, [Next]_vars, NEW c \in Call, pc'[c] = "stored"
             PROVE  runs'[key'[c]] = [status |-> "completed", token |-> c, result |-> result'[c]]
  BY DEF StoredIsRecorded
<1>1. CASE pc[c] = "stored"
  <2>1. key[c] \in Key /\ runs[key[c]] = [status |-> "completed", token |-> c, result |-> result[c]]
    BY <1>1 DEF TypeOK, StoredIsRecorded
  <2>2. runs'[key[c]] = runs[key[c]]
    BY <2>1, RunsStay
  <2> QED
    BY <1>1, <2>1, <2>2, StoredStays
<1>2. CASE pc[c] # "stored"
  <2>1. Record(c) /\ HoldsToken(c)
    <3>1. ASSUME NEW d \in Call, Execute(d) PROVE Record(c) /\ HoldsToken(c)
      BY <1>2, <3>1 DEF TypeOK, Execute, Lookup, Reserve, HandlerEnds, HandlerTimesOut,
           HandlerUnwinds, CacheResult, Record, Withdraw, Goto
    <3>2. ASSUME ~(\E d \in Call : Execute(d)) PROVE FALSE
      BY <1>2, <3>2 DEF TypeOK, Next, Begin, Crash, Tick, vars, Goto
    <3> QED
      BY <3>1, <3>2
  <2>2. key[c] \in Key /\ runs[key[c]] \in Run
    BY <2>1 DEF TypeOK, Record
  <2>3. runs'[key[c]] = CompletedRun(runs[key[c]], result[c])
    BY <1>2, <2>1, <2>2 DEF TypeOK, Record, Goto
  <2> QED
    BY <2>1, <2>2, <2>3 DEF Record, HoldsToken, CompletedRun, Run
<1> QED
  BY <1>1, <1>2

\* A result the store accepted stays the recorded one, so a key has one.
THEOREM StoredForGood == Spec => []StoredIsRecorded
<1>1. Init => StoredIsRecorded
  BY DEF Init, StoredIsRecorded
<1> QED
  BY <1>1, StoredNext, RuntimeTypeCorrect, PTL DEF Spec

-----------------------------------------------------------------------------
(* Handlers *)

\* A handler that has not outlived its lease belongs to the call that holds its
\* key's reservation, if only as the last to have held it.
Holds(run, c) == run.status # "absent" /\ run.token = c

HandlerHolds ==
  \A c \in Call :
    handling[c] =>
      /\ pc[c] \notin {"new", "calling", "reserving"}
      /\ HasLapsed(c) \/ Holds(runs[key[c]], c)

\* Every step keeps the handlers with the reservations.
LEMMA HandlerNext == TypeOK /\ HandlerHolds /\ [Next]_vars => HandlerHolds'
<1> SUFFICES ASSUME TypeOK, HandlerHolds, [Next]_vars, NEW c \in Call, handling'[c]
             PROVE  /\ pc'[c] \notin {"new", "calling", "reserving"}
                    /\ age'[c] > LeaseTicks \/ Holds(runs'[key'[c]], c)
  BY DEF HandlerHolds, HasLapsed
<1>1. CASE Reserve(c) /\ ~handling[c]
  <2>1. /\ pc' = [pc EXCEPT ![c] = "executing"] /\ key' = key
        /\ runs' = [runs EXCEPT ![key[c]] = [status |-> "running", token |-> c, result |-> None]]
    BY <1>1 DEF Reserve, Goto
  <2>2. key[c] \in Key
    BY <1>1 DEF TypeOK, Reserve
  <2> QED
    BY <2>1, <2>2 DEF TypeOK, Holds
<1>2. CASE handling[c]
  <2>1. pc[c] \notin {"new", "calling", "reserving"} /\ key[c] \in Key /\ runs[key[c]] \in Run
    BY <1>2 DEF HandlerHolds, TypeOK
  <2>2. pc'[c] \notin {"new", "calling", "reserving"} /\ key'[c] = key[c]
    <3>1. ASSUME NEW d \in Call, NEW k \in Key, Begin(d, k) PROVE pc'[c] = pc[c] /\ key'[c] = key[c]
      BY <2>1, <3>1 DEF TypeOK, Begin, Goto
    <3>2. ASSUME NEW d \in Call, Execute(d)
          PROVE  pc'[c] \notin {"new", "calling", "reserving"} /\ key'[c] = key[c]
      BY <2>1, <3>2 DEF TypeOK, Execute, Lookup, Reserve, HandlerEnds, HandlerTimesOut, HandlerUnwinds,
           CacheResult, Record, Withdraw, Goto
    <3>3. ASSUME NEW p \in Process, Crash(p)
          PROVE  pc'[c] \notin {"new", "calling", "reserving"} /\ key'[c] = key[c]
      BY <2>1, <3>3 DEF Crash
    <3>4. CASE Tick \/ UNCHANGED vars
      BY <2>1, <3>4 DEF Tick, vars
    <3> QED
      BY <2>1, <3>1, <3>2, <3>3, <3>4 DEF Next
  <2>3. age[c] > LeaseTicks => age'[c] > LeaseTicks
    <3>1. age'[c] = age[c] \/ Tick
      <4>1. ASSUME NEW d \in Call, Execute(d) PROVE age'[c] = age[c]
        BY <2>1, <4>1 DEF TypeOK, Execute, Lookup, Reserve, HandlerEnds, HandlerTimesOut,
             HandlerUnwinds, CacheResult, Record, Withdraw
      <4> QED
        BY <4>1 DEF Next, Begin, Crash, vars
    <3> QED
      BY <3>1, TickAssumption DEF TypeOK, Tick, Lapsed
  <2>4. ASSUME ~HasLapsed(c) PROVE Holds(runs'[key[c]], c)
    <3>1. Holds(runs[key[c]], c)
      BY <1>2, <2>4 DEF HandlerHolds
    <3>2. CASE runs'[key[c]] = runs[key[c]]
      BY <3>1, <3>2
    <3>3. CASE runs'[key[c]] # runs[key[c]]
      <4>1. PICK d \in Call : key[d] = key[c] /\ (Reserve(d) \/ Record(d))
        BY <2>1, <3>3, RunsStay
      <4>2. ~(Reserve(d) /\ Free(key[d]))
        BY <2>4, <3>1, <4>1 DEF Free, Holds
      <4>3. Record(d) /\ HoldsToken(d)
        BY <3>3, <4>1, <4>2 DEF Reserve, Record
      <4>4. runs'[key[c]] = CompletedRun(runs[key[c]], result[d])
        BY <2>1, <3>3, <4>1, <4>3 DEF TypeOK, Record
      <4> QED
        BY <2>1, <3>1, <4>4 DEF CompletedRun, Run, Holds
    <3> QED
      BY <3>2, <3>3
  <2> QED
    BY <2>2, <2>3, <2>4 DEF HasLapsed
<1>3. ASSUME ~handling[c] PROVE Reserve(c)
  <2>1. ASSUME NEW d \in Call, Execute(d) PROVE Reserve(c)
    BY <1>3, <2>1 DEF TypeOK, Execute, Lookup, Reserve, HandlerEnds, HandlerTimesOut, HandlerUnwinds,
         CacheResult, Record, Withdraw
  <2>2. ASSUME ~(\E d \in Call : Execute(d)) PROVE FALSE
    BY <1>3, <2>2 DEF Next, Begin, Crash, Tick, vars
  <2> QED
    BY <2>1, <2>2
<1> QED
  BY <1>1, <1>2, <1>3

\* Two handlers of one key never run at once within their leases.
THEOREM HandlersTakeTurns == Spec => []OneHandlerPerLease
<1>1. Init => HandlerHolds
  BY DEF Init, HandlerHolds
<1>2. TypeOK /\ HandlerHolds => OneHandlerPerLease
  BY DEF HandlerHolds, OneHandlerPerLease, Holds
<1> QED
  BY <1>1, <1>2, HandlerNext, RuntimeTypeCorrect, PTL DEF Spec

-----------------------------------------------------------------------------
(* Types of a session *)

\* What a waiter is given, and its queue.
Item == Response \cup {Error}
Queue == {<<>>} \cup {<<item>> : item \in Item}

\* A proposal makes two requests at most, one to initialize and one to prompt.
CountInv ==
  /\ caller.phase # "idle" => proposals >= 1
  /\ caller.phase \in {"idle", "run", "handoff"} => counter <= 2 * proposals
  /\ caller.phase \in {"start", "register"} /\ caller.method = "initialize" =>
       counter + 2 <= 2 * proposals
  /\ caller.phase \in {"start", "register"} /\ caller.method = "session/prompt" =>
       counter + 1 <= 2 * proposals
  /\ caller.phase = "record" => counter + 1 <= 2 * proposals
  /\ caller.phase \in {"write", "wait"} => counter >= 1 /\ counter <= 2 * proposals
  /\ caller.phase \in {"write", "wait"} /\ caller.method = "initialize" =>
       counter + 1 <= 2 * proposals

\* A request in the table has got nothing yet; one that is being made is in the
\* table or has got something.
TableInv ==
  /\ \A i \in registered : waiter[i] = <<>>
  /\ caller.phase \in {"write", "wait"} => counter \in registered \/ waiter[counter] # <<>>

\* The queue of a waiter that has got nothing takes an item; one with an item
\* is empty once that is taken.
LEMMA QueueTakesOne ==
  ASSUME NEW item \in Item
  PROVE  /\ Append(<<>>, item) = <<item>>
         /\ Append(<<>>, item) \in Queue
         /\ Append(<<>>, item) # <<>>
         /\ Head(<<item>>) = item /\ Tail(<<item>>) = <<>>
BY DEF Queue

\* _fail() gives every registered waiter an error.
LEMMA FailTells ==
  ASSUME SessionTypeOK, TableInv, Fail
  PROVE  /\ registered' = {}
         /\ waiter' \in [Ids -> Queue]
         /\ \A i \in Ids : /\ i \in registered => waiter'[i] = <<Error>>
                           /\ i \notin registered => waiter'[i] = waiter[i]
         /\ notifications' \in Seq(Notification \cup {Error})
         /\ notifications' = Append(notifications, Error)
<1>1. Error \in Item /\ Error \in Notification \cup {Error}
  BY DEF Item
<1>2. waiter \in [Ids -> Queue] /\ registered \subseteq Ids
  BY DEF SessionTypeOK, Queue, Item
<1>3. \A i \in registered : Append(waiter[i], Error) = <<Error>>
  BY <1>1, QueueTakesOne DEF TableInv
<1>4. <<Error>> \in Queue
  BY <1>1 DEF Queue
<1>5. notifications \in Seq(Notification \cup {Error})
  BY DEF SessionTypeOK
<1>6. notifications' \in Seq(Notification \cup {Error})
  BY <1>1, <1>5, AppendProperties DEF Fail
<1> QED
  BY <1>2, <1>3, <1>4, <1>6 DEF Fail

\* The initial state.
LEMMA SessionTypesInit == SessionInit => SessionTypeOK /\ CountInv /\ TableInv
<1> SUFFICES ASSUME SessionInit PROVE SessionTypeOK /\ CountInv /\ TableInv
  OBVIOUS
<1>1. 1 \in Proposals
  BY ProposalsAssumption DEF Proposals
<1>2. caller \in Caller /\ turn \in Turn
  BY <1>1 DEF SessionInit, Caller, Phases, Methods, Turn, NoTurn
<1>3. waiter \in [Ids -> {<<>>} \cup {<<item>> : item \in Response \cup {Error}}]
  BY DEF SessionInit
<1>4. /\ stdin \in Seq(Request) /\ stdout \in Seq(Response \cup Notification)
      /\ notifications \in Seq(Notification \cup {Error})
  BY EmptySeq DEF SessionInit
<1> QED
  BY <1>2, <1>3, <1>4, ProposalsAssumption DEF SessionInit, SessionTypeOK, CountInv, TableInv

\* The caller moves on, and nothing else of it changes.
LEMMA CallerGoes ==
  ASSUME caller \in Caller, NEW phase \in Phases, GoesTo(phase)
  PROVE  /\ caller' \in Caller
         /\ caller'.phase = phase /\ caller'.initialized = caller.initialized
         /\ caller'.method = caller.method /\ caller'.message = caller.message
         /\ caller'.received = caller.received /\ caller'.prompts = caller.prompts
BY DEF GoesTo, Caller

\* What a caller makes of an answer.
LEMMA TakeFields ==
  ASSUME SessionTypeOK, CountInv, Take
  PROVE  /\ counter \in Ids
         /\ waiter' \in [Ids -> Queue]
         /\ waiter'[counter] = <<>>
         /\ \A i \in Ids : i # counter => waiter'[i] = waiter[i]
         /\ \E item \in Item :
              /\ waiter[counter] = <<item>>
              /\ \/ GoesTo("idle")
                 \/ /\ caller.method = "initialize"
                    /\ caller' = [caller EXCEPT !.phase = "record", !.initialized = TRUE]
                 \/ /\ item \in Response /\ caller.method = "session/prompt"
                    /\ caller' = [caller EXCEPT !.phase = "run", !.message = item.prompt,
                                                !.received = FALSE, !.prompts = {}]
<1>1. counter \in Ids
  BY ProposalsAssumption DEF SessionTypeOK, CountInv, Take, Ids
<1>2. waiter \in [Ids -> Queue]
  BY DEF SessionTypeOK, Queue, Item
<1>3. PICK item \in Item : waiter[counter] = <<item>>
  BY <1>1, <1>2 DEF Queue, Take
<1>4. Head(waiter[counter]) = item /\ Tail(waiter[counter]) = <<>>
  BY <1>3, QueueTakesOne
<1>5. waiter' = [waiter EXCEPT ![counter] = <<>>]
  BY <1>4 DEF Take
<1>6. /\ waiter' \in [Ids -> Queue] /\ waiter'[counter] = <<>>
      /\ \A i \in Ids : i # counter => waiter'[i] = waiter[i]
  BY <1>1, <1>2, <1>5 DEF Queue
<1>7. item.kind # "error" => item \in Response
  BY DEF Item, Error
<1>8. caller.method \in {"initialize", "session/prompt"}
  BY DEF SessionTypeOK, Caller, Methods
<1>9. \/ GoesTo("idle")
      \/ /\ caller.method = "initialize"
         /\ caller' = [caller EXCEPT !.phase = "record", !.initialized = TRUE]
      \/ /\ item \in Response /\ caller.method = "session/prompt"
         /\ caller' = [caller EXCEPT !.phase = "run", !.message = item.prompt,
                                     !.received = FALSE, !.prompts = {}]
  BY <1>4, <1>7, <1>8 DEF Take, Raise
<1> QED
  BY <1>1, <1>3, <1>6, <1>9

\* What a caller makes of a notification.
LEMMA HearFields ==
  ASSUME SessionTypeOK, Hear
  PROVE  /\ notifications # <<>> /\ notifications' = Tail(notifications)
         /\ notifications' \in Seq(Notification \cup {Error})
         /\ \E item \in Notification \cup {Error} :
              /\ item = Head(notifications)
              /\ \/ item.kind = "error" /\ GoesTo("idle")
                 \/ item.kind = "idle" /\ caller.received /\ GoesTo("handoff")
                 \/ /\ item.kind # "error" /\ ~(item.kind = "idle" /\ caller.received)
                    /\ caller' \in Caller
                    /\ caller'.phase = "run" /\ caller'.initialized = caller.initialized
                    /\ caller'.method = caller.method /\ caller'.message = caller.message
                    /\ caller'.received = (\/ caller.received
                                           \/ item.kind = "receipt" /\ caller.message \in item.prompts)
                    /\ caller'.prompts =
                         IF item.kind = "message" THEN item.prompts ELSE caller.prompts
<1>1. notifications \in Seq(Notification \cup {Error}) /\ caller \in Caller /\ caller.phase = "run"
  BY DEF SessionTypeOK, Hear
<1>2. PICK item \in Notification \cup {Error} : item = Head(notifications)
  BY <1>1, HeadTailProperties DEF Hear
<1>3. notifications' \in Seq(Notification \cup {Error})
  BY <1>1, HeadTailProperties DEF Hear
<1>4. CASE item.kind = "error"
  BY <1>2, <1>3, <1>4 DEF Hear, Raise
<1>5. CASE item.kind = "idle" /\ caller.received
  BY <1>2, <1>3, <1>5 DEF Hear, EndsRun
<1>6. CASE item.kind # "error" /\ ~(item.kind = "idle" /\ caller.received)
  <2> DEFINE received == caller.received \/ (item.kind = "receipt" /\ caller.message \in item.prompts)
             prompts == IF item.kind = "message" THEN item.prompts ELSE caller.prompts
  <2>1. caller' = [caller EXCEPT !.received = received, !.prompts = prompts]
    BY <1>2, <1>6 DEF Hear, EndsRun
  <2>2. received \in BOOLEAN
    BY <1>1 DEF Caller
  <2>3. prompts \in SUBSET Proposals
    BY <1>1 DEF Caller, Notification, Receipt, Message, Idle, Error
  <2> HIDE DEF received, prompts
  <2>4. /\ caller' \in Caller
        /\ caller'.phase = "run" /\ caller'.initialized = caller.initialized
        /\ caller'.method = caller.method /\ caller'.message = caller.message
        /\ caller'.received = received /\ caller'.prompts = prompts
    BY <1>1, <2>1, <2>2, <2>3 DEF Caller
  <2> QED
    BY <1>2, <1>3, <1>6, <2>4 DEF Hear, received, prompts
<1> QED
  BY <1>4, <1>5, <1>6

\* The reader hands a response to the one who waits for it.
LEMMA ReadResponse ==
  ASSUME SessionTypeOK, TableInv, Read, Head(stdout).kind = "response"
  PROVE  /\ Head(stdout) \in Response
         /\ registered' = registered \ {Head(stdout).id}
         /\ waiter' \in [Ids -> Queue]
         /\ \A i \in Ids : i # Head(stdout).id \/ i \notin registered => waiter'[i] = waiter[i]
         /\ Head(stdout).id \in registered => waiter'[Head(stdout).id] = <<Head(stdout)>>
         /\ UNCHANGED notifications
<1> DEFINE frame == Head(stdout)
<1>1. frame \in Response \cup Notification
  BY HeadTailProperties DEF SessionTypeOK, Read
<1>2. frame \in Response /\ frame \in Item /\ frame.id \in Ids
  BY <1>1 DEF Response, Notification, Receipt, Message, Idle, Item
<1>3. waiter \in [Ids -> Queue]
  BY DEF SessionTypeOK, Queue, Item
<1> HIDE DEF frame
<1>4. /\ registered' = registered \ {frame.id} /\ UNCHANGED notifications
      /\ waiter' = IF frame.id \in registered
                   THEN [waiter EXCEPT ![frame.id] = Append(@, frame)] ELSE waiter
  BY DEF Read, Unregistered, frame
<1>5. frame.id \in registered => waiter' = [waiter EXCEPT ![frame.id] = <<frame>>]
  BY <1>2, <1>3, <1>4, QueueTakesOne DEF TableInv
<1>6. <<frame>> \in Queue
  BY <1>2 DEF Queue
<1>7. CASE frame.id \in registered
  BY <1>2, <1>3, <1>4, <1>5, <1>6, <1>7 DEF frame
<1>8. CASE frame.id \notin registered
  BY <1>2, <1>3, <1>4, <1>8 DEF frame
<1> QED
  BY <1>7, <1>8

\* The reader puts a notification in the queue of the session.
LEMMA ReadNotification ==
  ASSUME SessionTypeOK, Read, Head(stdout).kind # "response"
  PROVE  /\ Head(stdout) \in Notification
         /\ notifications' = Append(notifications, Head(stdout))
         /\ notifications' \in Seq(Notification \cup {Error})
         /\ UNCHANGED <<registered, waiter>>
<1>1. Head(stdout) \in Response \cup Notification
  BY HeadTailProperties DEF SessionTypeOK, Read
<1>2. Head(stdout) \in Notification
  BY <1>1 DEF Response
<1>3. notifications \in Seq(Notification \cup {Error})
  BY DEF SessionTypeOK
<1>4. notifications' = Append(notifications, Head(stdout)) /\ UNCHANGED <<registered, waiter>>
  BY DEF Read
<1> QED
  BY <1>2, <1>3, <1>4, AppendProperties

\* The counter and the table count on the types, and keep them.
SessionInv == SessionTypeOK /\ CountInv /\ TableInv

\* Every step of the caller keeps the types.
LEMMA CallerTypes ==
  ASSUME SessionInv, Propose \/ CallerStep \/ TimeOut
  PROVE  SessionInv'
<1> USE DEF SessionInv
<1>0. /\ proposals \in 0 .. MaxProposals /\ counter \in 0 .. 2 * MaxProposals
      /\ caller \in Caller /\ caller.phase \in Phases /\ MaxProposals \in Nat
      /\ waiter \in [Ids -> Queue] /\ registered \subseteq Ids
  BY ProposalsAssumption DEF SessionTypeOK, Caller, Queue, Item
<1> USE DEF runtimeVars, peerVars, threadVars
<1>1. CASE Propose
  <2>1. proposals' \in 1 .. MaxProposals /\ proposals' = proposals + 1
    BY <1>0, <1>1 DEF Propose
  <2>2. PICK phase \in {"record", "start"} :
          /\ phase = IF caller.initialized THEN "record" ELSE "start"
          /\ caller' = [caller EXCEPT !.phase = phase, !.method = "initialize"]
    BY <1>1 DEF Propose
  <2>3. /\ caller' \in Caller /\ caller'.phase = phase /\ caller'.method = "initialize"
    BY <1>0, <2>2 DEF Caller, Phases, Methods
  <2>4. SessionTypeOK'
    BY <1>0, <1>1, <2>1, <2>3 DEF SessionTypeOK, Propose
  <2>5. counter <= 2 * proposals /\ counter' = counter
    BY <1>1 DEF Propose, CountInv
  <2>6. CountInv'
    BY <1>0, <2>1, <2>3, <2>5 DEF CountInv
  <2>7. TableInv'
    BY <1>1, <2>3 DEF TableInv, Propose
  <2> QED
    BY <2>4, <2>6, <2>7
<1>2. CASE RecordContext
  <2>1. \/ caller'.phase = "idle"
        \/ caller'.phase = "start" /\ caller'.method = "session/prompt"
    BY <1>0, <1>2 DEF RecordContext, Raise, GoesTo, Caller
  <2>2. caller' \in Caller
    BY <1>0, <1>2 DEF RecordContext, Raise, GoesTo, Caller, Phases, Methods
  <2>3. manifest' \in {"absent", "own", "other"}
    BY <1>2 DEF RecordContext, SessionTypeOK
  <2>4. SessionTypeOK'
    BY <1>0, <1>2, <2>2, <2>3 DEF SessionTypeOK, RecordContext
  <2>5. counter + 1 <= 2 * proposals /\ proposals >= 1 /\ counter' = counter /\ proposals' = proposals
    BY <1>2 DEF RecordContext, CountInv
  <2>6. CountInv'
    BY <1>0, <2>1, <2>5 DEF CountInv
  <2>7. TableInv'
    BY <1>2, <2>1 DEF TableInv, RecordContext
  <2> QED
    BY <2>4, <2>6, <2>7
<1>3. CASE Start
  <2>1. PICK phase \in {"register", "idle"} : GoesTo(phase)
    BY <1>3 DEF Start, Raise
  <2>2. /\ caller' \in Caller /\ caller'.phase = phase /\ caller'.method = caller.method
        /\ caller.method \in {"initialize", "session/prompt"}
    BY <1>0, <2>1, CallerGoes DEF Phases, Caller, Methods
  <2>3. /\ process' \in {"none", "alive", "exited"}
        /\ reader' \in {"none", "reading", "failing", "gone"}
        /\ stderr' \in {"none", "reading", "gone"}
    BY <1>3 DEF Start, SessionTypeOK
  <2>4. SessionTypeOK'
    BY <1>0, <1>3, <2>2, <2>3 DEF SessionTypeOK, Start
  <2>5. CountInv'
    BY <1>0, <1>3, <2>2 DEF CountInv, Start
  <2>6. TableInv'
    BY <1>3, <2>2 DEF TableInv, Start
  <2> QED
    BY <2>4, <2>5, <2>6
<1>4. CASE Register
  <2>1. caller' \in Caller /\ caller'.phase = "write" /\ caller'.method = caller.method
    BY <1>0, <1>4, CallerGoes DEF Register, Phases
  <2>2. /\ counter' = counter + 1 /\ proposals' = proposals /\ proposals >= 1
        /\ caller.method = "initialize" => counter + 2 <= 2 * proposals
        /\ counter + 1 <= 2 * proposals
    BY <1>0, <1>4 DEF Register, NextId, CountInv, Caller, Methods
  <2>3. counter' \in Ids /\ counter' \in 0 .. 2 * MaxProposals
    BY <1>0, <2>2 DEF Ids
  <2>4. registered' = registered \cup {counter'} /\ waiter' = [waiter EXCEPT ![counter'] = <<>>]
    BY <1>4 DEF Register
  <2>5. waiter' \in [Ids -> Queue] /\ registered' \subseteq Ids
    BY <1>0, <2>3, <2>4 DEF Queue
  <2>6. SessionTypeOK'
    BY <1>0, <1>4, <2>1, <2>3, <2>5 DEF SessionTypeOK, Register, Queue, Item
  <2>7. CountInv'
    BY <1>0, <2>1, <2>2 DEF CountInv
  <2>8. TableInv'
    BY <1>0, <2>1, <2>3, <2>4 DEF TableInv
  <2> QED
    BY <2>6, <2>7, <2>8
<1>5. CASE Write
  <2>0. counter \in Ids /\ proposals \in Proposals /\ counter' = counter /\ proposals' = proposals
        /\ waiter' = waiter
    BY <1>0, <1>5 DEF Write, CountInv, Ids, Proposals
  <2>1. PICK phase \in {"wait", "idle"} : GoesTo(phase) /\ (phase = "wait" => registered' = registered)
    BY <1>5 DEF Write, Raise
  <2>2. caller' \in Caller /\ caller'.phase = phase /\ caller'.method = caller.method
    BY <1>0, <2>1, CallerGoes DEF Phases
  <2>3. registered' \subseteq registered
    BY <1>5 DEF Write
  <2>4. stdin' \in Seq(Request)
    <3>1. [id |-> counter, method |-> caller.method, prompt |-> proposals] \in Request
      BY <1>0, <2>0 DEF Request, Caller
    <3>2. Append(stdin, [id |-> counter, method |-> caller.method, prompt |-> proposals]) \in Seq(Request)
      BY <3>1, AppendProperties DEF SessionTypeOK
    <3>3. stdin' = stdin
          \/ stdin' = Append(stdin, [id |-> counter, method |-> caller.method, prompt |-> proposals])
      BY <1>5 DEF Write
    <3> QED
      BY <3>2, <3>3 DEF SessionTypeOK
  <2>5. SessionTypeOK'
    BY <1>0, <1>5, <2>2, <2>3, <2>4 DEF SessionTypeOK, Write
  <2>6. CountInv'
    BY <1>0, <1>5, <2>0, <2>2 DEF CountInv, Write
  <2>7. TableInv'
    BY <1>5, <2>0, <2>1, <2>2, <2>3 DEF TableInv, Write
  <2> QED
    BY <2>5, <2>6, <2>7
<1>6. CASE Take
  <2>1. PICK item \in Item :
          \/ GoesTo("idle")
          \/ /\ caller.method = "initialize"
             /\ caller' = [caller EXCEPT !.phase = "record", !.initialized = TRUE]
          \/ /\ item \in Response /\ caller.method = "session/prompt"
             /\ caller' = [caller EXCEPT !.phase = "run", !.message = item.prompt,
                                         !.received = FALSE, !.prompts = {}]
    BY <1>6, TakeFields
  <2>2. /\ waiter' \in [Ids -> Queue] /\ waiter'[counter] = <<>>
        /\ \A i \in Ids : i # counter => waiter'[i] = waiter[i]
    BY <1>6, TakeFields
  <2>3. /\ caller' \in Caller
        /\ \/ caller'.phase \in {"idle", "run"}
           \/ caller'.phase = "record" /\ caller.method = "initialize"
    BY <1>0, <2>1 DEF GoesTo, Caller, Phases, Response
  <2>4. SessionTypeOK'
    BY <1>0, <1>6, <2>2, <2>3 DEF SessionTypeOK, Take, Queue, Item
  <2>5. CountInv'
    BY <1>0, <1>6, <2>3 DEF CountInv, Take
  <2>6. TableInv'
    BY <1>0, <1>6, <2>2, <2>3 DEF TableInv, Take
  <2> QED
    BY <2>4, <2>5, <2>6
<1>7. CASE TimeOut
  <2>1. caller' \in Caller /\ caller'.phase = "idle"
    BY <1>0, <1>7, CallerGoes DEF TimeOut, Raise, Phases
  <2>2. SessionTypeOK'
    BY <1>0, <1>7, <2>1 DEF SessionTypeOK, TimeOut
  <2>3. CountInv' /\ TableInv'
    BY <1>0, <1>7, <2>1 DEF CountInv, TableInv, TimeOut
  <2> QED
    BY <2>2, <2>3
<1>8. CASE Hear
  <2>1. caller' \in Caller /\ caller'.phase \in {"idle", "run", "handoff"}
    <3>1. PICK item \in Notification \cup {Error} :
              \/ GoesTo("idle") \/ GoesTo("handoff")
              \/ caller' \in Caller /\ caller'.phase = "run"
      BY <1>8, HearFields
    <3> QED
      BY <1>0, <3>1, CallerGoes DEF Phases
  <2>2. notifications' \in Seq(Notification \cup {Error})
    BY <1>8, HearFields
  <2>3. SessionTypeOK'
    BY <1>0, <1>8, <2>1, <2>2 DEF SessionTypeOK, Hear
  <2>4. CountInv' /\ TableInv'
    BY <1>0, <1>8, <2>1 DEF CountInv, TableInv, Hear
  <2> QED
    BY <2>3, <2>4
<1>9. CASE TakeHandoff
  <2>1. caller' \in Caller /\ caller'.phase = "idle"
    BY <1>0, <1>9, CallerGoes DEF TakeHandoff, Phases
  <2>2. SessionTypeOK'
    BY <1>0, <1>9, <2>1 DEF SessionTypeOK, TakeHandoff
  <2>3. CountInv' /\ TableInv'
    BY <1>0, <1>9, <2>1 DEF CountInv, TableInv, TakeHandoff
  <2> QED
    BY <2>2, <2>3
<1> QED
  BY <1>1, <1>2, <1>3, <1>4, <1>5, <1>6, <1>7, <1>8, <1>9 DEF CallerStep

\* Every step of the threads keeps the types.
LEMMA ThreadTypes ==
  ASSUME SessionInv, ReaderStep \/ ReaderFails \/ StderrFails
  PROVE  SessionInv'
<1> USE DEF SessionInv
<1>0. /\ waiter \in [Ids -> Queue] /\ registered \subseteq Ids
      /\ counter \in 0 .. 2 * MaxProposals /\ MaxProposals \in Nat
      /\ caller.phase \in {"write", "wait"} => counter \in Ids
  BY ProposalsAssumption DEF SessionTypeOK, Queue, Item, CountInv, Ids
<1> USE DEF runtimeVars, callerVars, threadVars
<1>1. CASE Read
  <2>1. stdout' \in Seq(Response \cup Notification)
    BY <1>1, HeadTailProperties DEF Read, SessionTypeOK
  <2>2. CASE Head(stdout).kind = "response"
    <3>1. /\ Head(stdout) \in Response /\ registered' = registered \ {Head(stdout).id}
          /\ waiter' \in [Ids -> Queue]
          /\ \A i \in Ids : i # Head(stdout).id \/ i \notin registered => waiter'[i] = waiter[i]
          /\ Head(stdout).id \in registered => waiter'[Head(stdout).id] = <<Head(stdout)>>
          /\ UNCHANGED notifications
      BY <1>1, <2>2, ReadResponse
    <3>2. SessionTypeOK'
      BY <1>0, <1>1, <2>1, <3>1 DEF SessionTypeOK, Read, Queue, Item
    <3>3. CountInv'
      BY <1>1 DEF CountInv, Read
    <3>4. TableInv'
      <4>1. \A i \in registered' : waiter'[i] = <<>>
        BY <1>0, <3>1 DEF TableInv
      <4>2. ASSUME caller.phase \in {"write", "wait"}
            PROVE  counter \in registered' \/ waiter'[counter] # <<>>
        <5>1. counter \in registered \/ waiter[counter] # <<>>
          BY <4>2 DEF TableInv
        <5>2. <<Head(stdout)>> # <<>>
          OBVIOUS
        <5> QED
          BY <1>0, <3>1, <4>2, <5>1, <5>2
      <4> QED
        BY <1>1, <4>1, <4>2 DEF TableInv, Read
    <3> QED
      BY <3>2, <3>3, <3>4
  <2>3. CASE Head(stdout).kind # "response"
    <3>1. /\ notifications' \in Seq(Notification \cup {Error})
          /\ UNCHANGED <<registered, waiter>>
      BY <1>1, <2>3, ReadNotification
    <3>2. SessionTypeOK'
      BY <1>1, <2>1, <3>1 DEF SessionTypeOK, Read
    <3>3. CountInv' /\ TableInv'
      BY <1>1, <3>1 DEF CountInv, TableInv, Read
    <3> QED
      BY <3>2, <3>3
  <2> QED
    BY <2>2, <2>3
<1>2. ASSUME Fail, UNCHANGED <<process, stdin, turn, callerVars>>,
             stdout' \in Seq(Response \cup Notification),
             reader' \in {"none", "reading", "failing", "gone"}, stderr' \in {"none", "reading", "gone"}
      PROVE  SessionInv'
  <2>1. /\ registered' = {} /\ waiter' \in [Ids -> Queue]
        /\ \A i \in Ids : /\ i \in registered => waiter'[i] = <<Error>>
                          /\ i \notin registered => waiter'[i] = waiter[i]
        /\ notifications' \in Seq(Notification \cup {Error})
    BY <1>2, FailTells
  <2>2. SessionTypeOK'
    BY <1>0, <1>2, <2>1 DEF SessionTypeOK, Queue, Item
  <2>3. CountInv'
    BY <1>2 DEF CountInv
  <2>4. TableInv'
    <3>1. ASSUME caller.phase \in {"write", "wait"} PROVE waiter'[counter] # <<>>
      <4>1. counter \in registered \/ waiter[counter] # <<>>
        BY <3>1 DEF TableInv
      <4>2. <<Error>> # <<>>
        OBVIOUS
      <4> QED
        BY <1>0, <2>1, <3>1, <4>1, <4>2
    <3> QED
      BY <1>2, <2>1, <3>1 DEF TableInv
  <2> QED
    BY <2>2, <2>3, <2>4
<1>3. CASE ReaderFails
  <2>1. stdout' \in Seq(Response \cup Notification)
    BY <1>3, HeadTailProperties DEF ReaderFails, SessionTypeOK
  <2> QED
    BY <1>2, <1>3, <2>1 DEF ReaderFails, SessionTypeOK
<1>4. CASE ReaderEnds
  BY <1>2, <1>4 DEF ReaderEnds, SessionTypeOK
<1>5. CASE StderrFails
  BY <1>2, <1>5 DEF StderrFails, SessionTypeOK
<1> QED
  BY <1>1, <1>3, <1>4, <1>5 DEF ReaderStep

\* What the runtime does to its pipes and its turn.
LEMMA RuntimeTypes ==
  ASSUME SessionInv, RuntimeStep \/ Exit
  PROVE  SessionInv'
<1> USE DEF SessionInv
<1>0. /\ UNCHANGED <<peerVars, threadVars, callerVars>>
      /\ process' \in {"none", "alive", "exited"}
  BY DEF RuntimeStep, Accept, Refuse, Respond, Splice, Reply, GoIdle, Exit, SessionTypeOK
<1>1. stdin' \in Seq(Request)
  BY HeadTailProperties
     DEF RuntimeStep, Accept, Refuse, Respond, Splice, Reply, GoIdle, Exit, SessionTypeOK
<1>2. ASSUME NEW r \in Request, NEW ok \in BOOLEAN PROVE Answer(r, ok) \in Response
  BY DEF Answer, Request, Response
<1>3. \/ UNCHANGED stdout
      \/ \E frame \in Response \cup Notification : Tells(frame)
  <2>1. CASE Accept \/ Exit
    BY <2>1 DEF Accept, Exit
  <2>2. CASE Refuse
    <3>1. Head(stdin) \in Request
      BY <2>2, HeadTailProperties DEF Refuse, SessionTypeOK
    <3> QED
      BY <1>2, <2>2, <3>1 DEF Refuse
  <2>3. CASE Respond
    BY <1>2, <2>3 DEF Respond, SessionTypeOK, Turn
  <2>4. CASE Splice
    BY <2>4 DEF Splice, SessionTypeOK, Turn, Notification, Receipt
  <2>5. CASE Reply
    BY <2>5 DEF Reply, SessionTypeOK, Turn, Notification, Message
  <2>6. CASE GoIdle
    BY <2>6 DEF GoIdle, Notification
  <2> QED
    BY <2>1, <2>2, <2>3, <2>4, <2>5, <2>6 DEF RuntimeStep
<1>4. stdout' \in Seq(Response \cup Notification)
  <2>1. \A frame \in Response \cup Notification :
          Append(stdout, frame) \in Seq(Response \cup Notification)
    BY AppendProperties DEF SessionTypeOK
  <2> QED
    BY <1>3, <2>1 DEF Tells, SessionTypeOK
<1>5. turn' \in Turn
  <2>1. CASE Accept
    <3>1. Head(stdin) \in Request
      BY <2>1, HeadTailProperties DEF Accept, SessionTypeOK
    <3> QED
      BY <2>1, <3>1 DEF Accept, SessionTypeOK, Turn, Request
  <2>2. CASE Respond \/ Splice \/ Reply \/ GoIdle
    BY <2>2 DEF Respond, Splice, Reply, GoIdle, SessionTypeOK, Turn
  <2>3. CASE Refuse \/ Exit
    BY <2>3 DEF Refuse, Exit, SessionTypeOK
  <2> QED
    BY <2>1, <2>2, <2>3 DEF RuntimeStep
<1>6. SessionTypeOK'
  BY <1>0, <1>1, <1>4, <1>5 DEF SessionTypeOK, peerVars, threadVars, callerVars
<1> QED
  BY <1>0, <1>6 DEF CountInv, TableInv, peerVars, callerVars

\* The types, the counter and the table are inductive.
LEMMA SessionInductive == SessionInv /\ [SessionNext]_sessionVars => SessionInv'
<1> SUFFICES ASSUME SessionInv, [SessionNext]_sessionVars PROVE SessionInv'
  OBVIOUS
<1>1. CASE SessionNext
  BY <1>1, CallerTypes, ThreadTypes, RuntimeTypes DEF SessionNext
<1>2. CASE UNCHANGED sessionVars
  BY <1>2 DEF SessionInv, SessionTypeOK, CountInv, TableInv,
              sessionVars, runtimeVars, peerVars, threadVars, callerVars
<1> QED
  BY <1>1, <1>2

\* In every reachable state of a session, the variables keep their domains and no
\* waiter's queue is given a second item (Queue(maxsize=1)).
THEOREM SessionTypes == SessionSpec => []SessionTypeOK
<1>1. SessionInit => SessionInv
  BY SessionTypesInit DEF SessionInv
<1> QED
  BY <1>1, SessionInductive, PTL DEF SessionSpec, SessionInv

\* No answer and no end is missed: a caller that waits has an item or is in the
\* table (request(), _read_stdout(), _fail()).
THEOREM NoAnswerMissed == SessionSpec => []WaiterIsKnown
<1>1. SessionInit => SessionInv
  BY SessionTypesInit DEF SessionInv
<1>2. SessionInv => WaiterIsKnown
  BY DEF SessionInv, TableInv, WaiterIsKnown
<1> QED
  BY <1>1, <1>2, SessionInductive, PTL DEF SessionSpec

-----------------------------------------------------------------------------
(* Requests and their answers *)

\* A request or a response f, of now or of before: the id of the request in
\* progress is that of no other, and the prompt with it is the proposal's.
Mine(f) ==
  /\ f.id <= counter
  /\ caller.phase = "write" => f.id < counter
  /\ caller.phase = "wait" /\ f.id = counter => f.prompt = proposals

OurRequests == {q \in Request : Mine(q)}
OurFrames == {f \in Response \cup Notification : f.kind = "response" => Mine(f)}
OurItems(i) == {f \in Item : f.kind = "response" => Mine(f) /\ f.id = i}

\* What is in the pipes, owed or in a queue is ours; the message a run follows is
\* the proposal's.
FrameInv ==
  /\ stdin \in Seq(OurRequests)
  /\ turn.owed \subseteq OurRequests
  /\ stdout \in Seq(OurFrames)
  /\ \A i \in Ids : waiter[i] = <<>> \/ \E item \in OurItems(i) : waiter[i] = <<item>>
  /\ caller.phase = "run" => caller.message = proposals

\* Frames that are ours stay ours.
LEMMA StillOurs ==
  ASSUME SessionInv, [SessionNext]_sessionVars
  PROVE  \A f : f.id \in Ids /\ Mine(f) => Mine(f)'
<1> SUFFICES ASSUME NEW f, f.id \in Ids, Mine(f) PROVE Mine(f)'
  OBVIOUS
<1>1. f.id \in Nat /\ counter \in Nat /\ caller \in Caller
  BY ProposalsAssumption DEF SessionInv, SessionTypeOK, Ids
<1>2. CASE UNCHANGED <<counter, caller, proposals>>
  BY <1>2 DEF Mine
<1>3. CASE counter' = counter /\ caller'.phase \notin {"write", "wait"}
  BY <1>3 DEF Mine
<1>4. CASE Register
  <2>1. counter' = counter + 1 /\ caller'.phase = "write"
    BY <1>1, <1>4, CallerGoes DEF Register, NextId, Phases
  <2> QED
    BY <1>1, <2>1 DEF Mine
<1>5. ASSUME Take \/ Hear PROVE counter' = counter /\ caller'.phase \notin {"write", "wait"}
  <2>1. CASE Take
    <3>1. PICK item \in Item :
            \/ GoesTo("idle")
            \/ caller' = [caller EXCEPT !.phase = "record", !.initialized = TRUE]
            \/ caller' = [caller EXCEPT !.phase = "run", !.message = item.prompt,
                                        !.received = FALSE, !.prompts = {}]
      BY <2>1, TakeFields DEF SessionInv
    <3> QED
      BY <1>1, <2>1, <3>1 DEF Take, GoesTo, Caller
  <2>2. CASE Hear
    <3>1. PICK item \in Notification \cup {Error} :
              \/ GoesTo("idle") \/ GoesTo("handoff")
              \/ caller'.phase = "run"
      BY <2>2, HearFields DEF SessionInv
    <3> QED
      BY <1>1, <2>2, <3>1, CallerGoes DEF Hear, Phases
  <2> QED
    BY <1>5, <2>1, <2>2
<1>6. ASSUME Propose \/ RecordContext \/ Start \/ TimeOut \/ TakeHandoff
      PROVE  counter' = counter /\ caller'.phase \notin {"write", "wait"}
  BY <1>1, <1>6 DEF Propose, RecordContext, Start, TimeOut, TakeHandoff, Raise, GoesTo, Caller
<1>7. CASE Write
  <2>1. counter' = counter /\ caller'.phase \in {"idle", "wait"} /\ f.id < counter
    BY <1>1, <1>7 DEF Write, Raise, GoesTo, Caller, Mine
  <2> QED
    BY <1>1, <2>1 DEF Mine
<1>8. CASE UNCHANGED sessionVars
  BY <1>2, <1>8 DEF sessionVars, callerVars
<1>9. CASE ReaderStep \/ ReaderFails \/ StderrFails \/ RuntimeStep \/ Exit
  BY <1>2, <1>9 DEF ReaderStep, Read, ReaderFails, ReaderEnds, StderrFails, RuntimeStep, Accept,
                    Refuse, Respond, Splice, Reply, GoIdle, Exit, callerVars
<1> QED
  BY <1>3, <1>4, <1>5, <1>6, <1>7, <1>8, <1>9 DEF SessionNext, CallerStep

\* Frames that stay ours leave FrameInv true of what does not change.
LEMMA OursGrow ==
  ASSUME \A f : f.id \in Ids /\ Mine(f) => Mine(f)'
  PROVE  /\ OurRequests \subseteq OurRequests'
         /\ OurFrames \subseteq OurFrames'
         /\ \A i \in Ids : OurItems(i) \subseteq OurItems(i)'
<1>1. \A q \in Request : q.id \in Ids
  BY DEF Request
<1>2. \A f \in Response \cup Notification : f.kind = "response" => f.id \in Ids
  BY DEF Response, Notification, Receipt, Message, Idle
<1>3. \A f \in Item : f.kind = "response" => f.id \in Ids
  BY DEF Item, Response, Error
<1> QED
  BY <1>1, <1>2, <1>3 DEF OurRequests, OurFrames, OurItems

\* The initial state.
LEMMA FrameInit == SessionInit => FrameInv
BY EmptySeq DEF SessionInit, FrameInv, NoTurn

\* The caller writes its own request and hears its own answer.
LEMMA CallerFrames ==
  ASSUME SessionInv, FrameInv, Propose \/ CallerStep \/ TimeOut
  PROVE  FrameInv'
<1> USE DEF runtimeVars, peerVars, threadVars
<1>0. /\ counter \in Nat /\ caller \in Caller /\ waiter \in [Ids -> Queue]
      /\ \A f : f.id \in Ids /\ Mine(f) => Mine(f)'
      /\ OurRequests \subseteq OurRequests' /\ OurFrames \subseteq OurFrames'
      /\ \A i \in Ids : OurItems(i) \subseteq OurItems(i)'
  BY StillOurs, OursGrow, ProposalsAssumption
     DEF SessionNext, SessionInv, SessionTypeOK, Queue, Item
<1>1. UNCHANGED <<stdout, turn>>
  BY DEF Propose, CallerStep, RecordContext, Start, Register, Write, Take, Hear, TakeHandoff, TimeOut
<1>2. turn'.owed \subseteq OurRequests' /\ stdout' \in Seq(OurFrames')
  BY <1>0, <1>1, SeqMonotonic DEF FrameInv
<1>3. stdin \in Seq(OurRequests')
  BY <1>0, SeqMonotonic DEF FrameInv
<1>4. \A i \in Ids : waiter[i] = <<>> \/ \E item \in OurItems(i)' : waiter[i] = <<item>>
  BY <1>0 DEF FrameInv
<1>5. CASE Propose \/ RecordContext \/ Start \/ TimeOut \/ TakeHandoff
  <2>1. caller'.phase # "run" /\ UNCHANGED <<stdin, waiter>>
    BY <1>0, <1>5 DEF Propose, RecordContext, Start, TimeOut, TakeHandoff, Raise, GoesTo, Caller
  <2> QED
    BY <1>2, <1>3, <1>4, <2>1 DEF FrameInv
<1>6. CASE Register
  <2>1. caller'.phase = "write" /\ UNCHANGED stdin
    BY <1>0, <1>6 DEF Register, GoesTo, Caller
  <2>2. waiter' = [waiter EXCEPT ![counter'] = <<>>]
    BY <1>6 DEF Register
  <2>3. \A i \in Ids : waiter'[i] = waiter[i] \/ waiter'[i] = <<>>
    BY <1>0, <2>2
  <2>4. \A i \in Ids : waiter'[i] = <<>> \/ \E item \in OurItems(i)' : waiter'[i] = <<item>>
    BY <1>4, <2>3
  <2> QED
    BY <1>2, <1>3, <2>1, <2>4 DEF FrameInv
<1>7. CASE Write
  <2>1. waiter' = waiter /\ caller'.phase # "run"
    BY <1>0, <1>7 DEF Write, Raise, GoesTo, Caller
  <2>2. CASE process = "exited"
    BY <1>2, <1>3, <1>4, <1>7, <2>1, <2>2 DEF FrameInv, Write
  <2>3. CASE process # "exited"
    <3>0. PICK q : q = [id |-> counter, method |-> caller.method, prompt |-> proposals]
      OBVIOUS
    <3>1. stdin' = Append(stdin, q) /\ counter' = counter /\ proposals' = proposals
          /\ caller'.phase = "wait"
      BY <1>0, <1>7, <2>3, <3>0 DEF Write, GoesTo, Caller
    <3>2. q \in Request
      BY <1>7, <3>0, ProposalsAssumption
         DEF SessionInv, SessionTypeOK, CountInv, Write, Request, Caller, Ids, Proposals
    <3>3. Mine(q)'
      BY <1>0, <3>0, <3>1 DEF Mine
    <3>4. q \in OurRequests'
      BY <3>2, <3>3 DEF OurRequests
    <3>5. stdin' \in Seq(OurRequests')
      BY <1>3, <3>1, <3>4, AppendProperties
    <3> QED
      BY <1>2, <1>4, <2>1, <3>5 DEF FrameInv
  <2> QED
    BY <2>2, <2>3
<1>8. CASE Take
  <2>1. PICK item \in Item :
          /\ waiter[counter] = <<item>>
          /\ \/ GoesTo("idle")
             \/ caller' = [caller EXCEPT !.phase = "record", !.initialized = TRUE]
             \/ /\ item \in Response
                /\ caller' = [caller EXCEPT !.phase = "run", !.message = item.prompt,
                                            !.received = FALSE, !.prompts = {}]
    BY <1>8, TakeFields DEF SessionInv
  <2>2. /\ counter \in Ids
        /\ waiter'[counter] = <<>> /\ \A i \in Ids : i # counter => waiter'[i] = waiter[i]
    BY <1>8, TakeFields DEF SessionInv
  <2>3. \A i \in Ids : waiter'[i] = <<>> \/ \E it \in OurItems(i)' : waiter'[i] = <<it>>
    BY <1>4, <2>2
  <2>4. caller.phase = "wait" /\ UNCHANGED <<stdin, proposals>>
    BY <1>8 DEF Take
  <2>5. ASSUME caller'.phase = "run" PROVE caller'.message = proposals
    <3>1. item \in Response /\ caller'.message = item.prompt
      BY <1>0, <2>1, <2>5 DEF GoesTo, Caller
    <3>2. item \in OurItems(counter)
      <4>0. <<item>> # <<>>
        OBVIOUS
      <4>1. PICK it \in OurItems(counter) : waiter[counter] = <<it>>
        BY <2>1, <2>2, <4>0 DEF FrameInv
      <4> QED
        BY <2>1, <4>1
    <3>3. item.kind = "response" /\ item.id = counter /\ Mine(item)
      BY <3>1, <3>2 DEF OurItems, Response
    <3> QED
      BY <1>0, <2>4, <3>1, <3>2, <3>3 DEF Mine
  <2> QED
    BY <1>2, <1>3, <2>3, <2>4, <2>5 DEF FrameInv
<1>9. CASE Hear
  <2>1. caller'.phase = "run" => caller'.message = caller.message
    BY <1>0, <1>9, HearFields, CallerGoes DEF SessionInv, Phases
  <2> QED
    BY <1>2, <1>3, <1>4, <1>9, <2>1 DEF FrameInv, Hear
<1> QED
  BY <1>5, <1>6, <1>7, <1>8, <1>9 DEF CallerStep

\* The threads move frames to the queues they are for.
LEMMA ThreadFrames ==
  ASSUME SessionInv, FrameInv, ReaderStep \/ ReaderFails \/ StderrFails
  PROVE  FrameInv'
<1> USE DEF callerVars, threadVars
<1>1. /\ UNCHANGED <<stdin, turn, counter, caller, proposals>>
      /\ stdout' = stdout \/ (stdout # <<>> /\ stdout' = Tail(stdout))
  BY DEF ReaderStep, Read, ReaderFails, ReaderEnds, StderrFails, runtimeVars
<1>2. /\ OurRequests' = OurRequests /\ OurFrames' = OurFrames
      /\ \A i \in Ids : OurItems(i)' = OurItems(i)
  BY <1>1 DEF OurRequests, OurFrames, OurItems, Mine
<1>3. stdout' \in Seq(OurFrames)
  BY <1>1, HeadTailProperties DEF FrameInv
<1>4. \A i \in Ids : waiter'[i] = <<>> \/ \E item \in OurItems(i) : waiter'[i] = <<item>>
  <2>1. CASE Fail
    <3>1. \A i \in Ids : waiter'[i] = <<Error>> \/ waiter'[i] = waiter[i]
      BY <2>1, FailTells DEF SessionInv
    <3>2. \A i \in Ids : Error \in OurItems(i)
      BY DEF OurItems, Item, Error
    <3> QED
      BY <3>1, <3>2 DEF FrameInv
  <2>2. CASE Read /\ Head(stdout).kind = "response"
    <3> DEFINE frame == Head(stdout)
    <3>1. /\ frame \in Response
          /\ \A i \in Ids : i # frame.id \/ i \notin registered => waiter'[i] = waiter[i]
          /\ frame.id \in registered => waiter'[frame.id] = <<frame>>
      BY <2>2, ReadResponse DEF SessionInv
    <3>2. frame \in OurFrames
      BY <2>2, HeadTailProperties DEF FrameInv, Read
    <3>3. frame.kind = "response"
      BY <2>2
    <3> HIDE DEF frame
    <3>4. frame \in OurItems(frame.id)
      BY <3>1, <3>2, <3>3 DEF OurFrames, OurItems, Item
    <3>5. ASSUME NEW i \in Ids
          PROVE  waiter'[i] = <<>> \/ \E item \in OurItems(i) : waiter'[i] = <<item>>
      <4>1. CASE i = frame.id /\ i \in registered
        BY <3>1, <3>4, <4>1
      <4>2. CASE i # frame.id \/ i \notin registered
        BY <3>1, <4>2 DEF FrameInv
      <4> QED
        BY <4>1, <4>2
    <3> QED
      BY <3>5
  <2>3. CASE Read /\ Head(stdout).kind # "response"
    BY <2>3, ReadNotification DEF SessionInv, FrameInv
  <2> QED
    BY <2>1, <2>2, <2>3 DEF ReaderStep, ReaderEnds, ReaderFails, StderrFails
<1> QED
  BY <1>1, <1>2, <1>3, <1>4 DEF FrameInv

\* The runtime answers what it was sent.
LEMMA RuntimeFrames ==
  ASSUME SessionInv, FrameInv, RuntimeStep \/ Exit
  PROVE  FrameInv'
<1> USE DEF peerVars, callerVars, threadVars
<1>1. UNCHANGED <<counter, caller, proposals, waiter>>
  BY DEF RuntimeStep, Accept, Refuse, Respond, Splice, Reply, GoIdle, Exit
<1>2. /\ OurRequests' = OurRequests /\ OurFrames' = OurFrames
      /\ \A i \in Ids : OurItems(i)' = OurItems(i)
  BY <1>1 DEF OurRequests, OurFrames, OurItems, Mine
<1>3. ASSUME NEW q \in OurRequests, NEW ok \in BOOLEAN PROVE Answer(q, ok) \in OurFrames
  BY DEF OurRequests, OurFrames, Answer, Request, Response, Mine
<1>4. stdin' \in Seq(OurRequests)
  BY HeadTailProperties
     DEF RuntimeStep, Accept, Refuse, Respond, Splice, Reply, GoIdle, Exit, FrameInv
<1>5. turn'.owed \subseteq OurRequests
  <2>1. CASE Accept
    <3>1. Head(stdin) \in OurRequests
      BY <2>1, HeadTailProperties DEF Accept, FrameInv
    <3> QED
      BY <2>1, <3>1 DEF Accept, FrameInv, SessionInv, SessionTypeOK, Turn
  <2>2. CASE Refuse \/ Respond \/ Splice \/ Reply \/ GoIdle \/ Exit
    BY <2>2 DEF Refuse, Respond, Splice, Reply, GoIdle, Exit, FrameInv, SessionInv, SessionTypeOK, Turn
  <2> QED
    BY <2>1, <2>2 DEF RuntimeStep
<1>6. UNCHANGED stdout \/ \E frame \in OurFrames : Tells(frame)
  <2>1. CASE Accept \/ Exit
    BY <2>1 DEF Accept, Exit
  <2>2. CASE Refuse
    <3>1. Head(stdin) \in OurRequests
      BY <2>2, HeadTailProperties DEF Refuse, FrameInv
    <3> QED
      BY <1>3, <2>2, <3>1 DEF Refuse
  <2>3. CASE Respond
    BY <1>3, <2>3 DEF Respond, FrameInv
  <2>4. CASE Splice
    BY <2>4 DEF Splice, SessionInv, SessionTypeOK, Turn, Notification, Receipt, OurFrames
  <2>5. CASE Reply
    BY <2>5 DEF Reply, SessionInv, SessionTypeOK, Turn, Notification, Message, OurFrames
  <2>6. CASE GoIdle
    BY <2>6 DEF GoIdle, Notification, Idle, OurFrames
  <2> QED
    BY <2>1, <2>2, <2>3, <2>4, <2>5, <2>6 DEF RuntimeStep
<1>7. stdout' \in Seq(OurFrames)
  <2>1. \A frame \in OurFrames : Append(stdout, frame) \in Seq(OurFrames)
    BY AppendProperties DEF FrameInv
  <2> QED
    BY <1>6, <2>1 DEF Tells, FrameInv
<1> QED
  BY <1>1, <1>2, <1>4, <1>5, <1>7 DEF FrameInv

\* Requests and answers stay the session's.
LEMMA FrameStep ==
  ASSUME SessionInv, FrameInv, [SessionNext]_sessionVars
  PROVE  FrameInv'
<1>1. CASE UNCHANGED sessionVars
  BY <1>1 DEF FrameInv, OurRequests, OurFrames, OurItems, Mine,
              sessionVars, runtimeVars, peerVars, threadVars, callerVars
<1> QED
  BY <1>1, CallerFrames, ThreadFrames, RuntimeFrames DEF SessionNext

-----------------------------------------------------------------------------
(* What follows a receipt *)

\* Between positions r and k of a stream of frames no turn ends; a message comes.
Quiet(s, r, k) == \A i \in r + 1 .. k - 1 : s[i].kind # "idle"
Replied(s, r, k) == \E i \in r + 1 .. k - 1 : s[i].kind = "message"

\* After position r a prompt p is in a turn: until that ends its messages answer
\* p, and it does not end without one, unless p is among the answered already.
Answers(s, r, p, answered) ==
  \A k \in r + 1 .. Len(s) : Quiet(s, r, k) =>
    /\ s[k].kind = "message" => p \in s[k].prompts
    /\ s[k].kind = "idle" => p \in answered \/ Replied(s, r, k)

\* If it has not ended, the runtime has p in its turn t, and has replied only if
\* the stream says so.
Owes(s, r, p, answered, t) ==
  Quiet(s, r, Len(s) + 1) =>
    p \in t.spliced /\ (t.replied => p \in answered \/ Replied(s, r, Len(s) + 1))

\* Frames that neither end a turn nor reply in it.
Inert(f) == f.kind \notin {"idle", "message"}

\* u is s without its position j.
Without(u, s, j) ==
  /\ Len(s) \in Nat /\ Len(u) \in Nat /\ Len(s) = Len(u) + 1 /\ j \in 1 .. Len(s)
  /\ \A k \in 1 .. Len(u) : u[k] = s[IF k < j THEN k ELSE k + 1]

\* A frame before position r, or an inert one after it, makes no difference.
LEMMA WithoutFollows ==
  ASSUME NEW s, NEW u, NEW j, Without(u, s, j), NEW r \in 0 .. Len(s), r < j => Inert(s[j]),
         NEW p, NEW answered, NEW t,
         NEW q, q = (IF r < j THEN r ELSE r - 1)
  PROVE  /\ Answers(s, r, p, answered) <=> Answers(u, q, p, answered)
         /\ Owes(s, r, p, answered, t) <=> Owes(u, q, p, answered, t)
<1> DEFINE at(k) == IF k < j THEN k ELSE k + 1
<1>1. Len(s) \in Nat /\ Len(u) \in Nat /\ Len(s) = Len(u) + 1 /\ j \in 1 .. Len(s) /\ q \in Nat
  BY DEF Without
<1>2. \A k \in 1 .. Len(u) : u[k] = s[at(k)]
  BY DEF Without
<1>3. \A i \in q + 1 .. Len(u) + 1 : i \in Nat /\ at(i) \in r + 1 .. Len(s) + 1 /\ at(i) # j
  BY <1>1
<1>4. \A i, k \in q + 1 .. Len(u) + 1 : i < k <=> at(i) < at(k)
  BY <1>1
<1>5. \A i \in r + 1 .. Len(s) + 1 : i = j \/ \E h \in q + 1 .. Len(u) + 1 : i = at(h)
  <2> SUFFICES ASSUME NEW i \in r + 1 .. Len(s) + 1, i # j
               PROVE  \E h \in q + 1 .. Len(u) + 1 : i = at(h)
    OBVIOUS
  <2>1. CASE i < j
    <3>1. i \in q + 1 .. Len(u) + 1 /\ i = at(i)
      BY <1>1, <2>1
    <3> QED
      BY <3>1
  <2>2. CASE i > j
    <3>1. i - 1 \in q + 1 .. Len(u) + 1 /\ i = at(i - 1)
      BY <1>1, <2>2
    <3> QED
      BY <3>1
  <2> QED
    BY <1>1, <2>1, <2>2
<1>6. \A i \in r + 1 .. Len(s) + 1 : i = j => Inert(s[j])
  BY <1>1
<1>7. at(Len(u) + 1) = Len(s) + 1
  BY <1>1
<1> HIDE DEF at
<1>8. ASSUME NEW k \in q + 1 .. Len(u) + 1
      PROVE  /\ Quiet(u, q, k) <=> Quiet(s, r, at(k))
             /\ Replied(u, q, k) <=> Replied(s, r, at(k))
  <2>1. ASSUME NEW i \in q + 1 .. k - 1
        PROVE  at(i) \in r + 1 .. at(k) - 1 /\ u[i] = s[at(i)]
    <3>1. i \in q + 1 .. Len(u) + 1 /\ i < k /\ i \in 1 .. Len(u)
      BY <1>1
    <3>2. at(i) \in r + 1 .. Len(s) + 1 /\ at(k) \in r + 1 .. Len(s) + 1 /\ at(i) < at(k)
      BY <1>3, <1>4, <3>1
    <3> QED
      BY <1>1, <1>2, <3>1, <3>2
  <2>2. ASSUME NEW i \in r + 1 .. at(k) - 1, i # j
        PROVE  \E h \in q + 1 .. k - 1 : u[h] = s[i]
    <3>1. i \in r + 1 .. Len(s) + 1 /\ at(k) \in Int
      BY <1>1, <1>3
    <3>2. PICK h \in q + 1 .. Len(u) + 1 : i = at(h)
      BY <1>5, <2>2, <3>1
    <3>3. h < k
      BY <1>1, <1>4, <3>1, <3>2
    <3>4. h \in q + 1 .. k - 1 /\ h \in 1 .. Len(u)
      BY <1>1, <3>3
    <3> QED
      BY <1>2, <3>2, <3>4
  <2>3. \A i \in r + 1 .. at(k) - 1 : i = j => Inert(s[j])
    BY <1>1, <1>3, <1>6
  <2>4. Quiet(u, q, k) <=> Quiet(s, r, at(k))
    <3>1. ASSUME Quiet(s, r, at(k)) PROVE Quiet(u, q, k)
      BY <2>1, <3>1 DEF Quiet
    <3>2. ASSUME Quiet(u, q, k) PROVE Quiet(s, r, at(k))
      BY <2>2, <2>3, <3>2 DEF Quiet, Inert
    <3> QED
      BY <3>1, <3>2
  <2>5. Replied(u, q, k) <=> Replied(s, r, at(k))
    <3>1. ASSUME Replied(s, r, at(k)) PROVE Replied(u, q, k)
      BY <2>2, <2>3, <3>1 DEF Replied, Inert
    <3>2. ASSUME Replied(u, q, k) PROVE Replied(s, r, at(k))
      BY <2>1, <3>2 DEF Replied
    <3> QED
      BY <3>1, <3>2
  <2> QED
    BY <2>4, <2>5
<1>9. Len(u) + 1 \in q + 1 .. Len(u) + 1
  BY <1>1
<1>10. Owes(s, r, p, answered, t) <=> Owes(u, q, p, answered, t)
  BY <1>7, <1>8, <1>9 DEF Owes
<1>11. ASSUME Answers(s, r, p, answered) PROVE Answers(u, q, p, answered)
  <2> SUFFICES ASSUME NEW k \in q + 1 .. Len(u), Quiet(u, q, k)
               PROVE  /\ u[k].kind = "message" => p \in u[k].prompts
                      /\ u[k].kind = "idle" => p \in answered \/ Replied(u, q, k)
    BY DEF Answers
  <2>1. k \in q + 1 .. Len(u) + 1 /\ k \in 1 .. Len(u) /\ k < Len(u) + 1
    BY <1>1
  <2>2. at(k) \in r + 1 .. Len(s)
    BY <1>1, <1>3, <1>4, <1>7, <1>9, <2>1
  <2> QED
    BY <1>2, <1>8, <1>11, <2>1, <2>2 DEF Answers
<1>12. ASSUME Answers(u, q, p, answered) PROVE Answers(s, r, p, answered)
  <2> SUFFICES ASSUME NEW k \in r + 1 .. Len(s), Quiet(s, r, k)
               PROVE  /\ s[k].kind = "message" => p \in s[k].prompts
                      /\ s[k].kind = "idle" => p \in answered \/ Replied(s, r, k)
    BY DEF Answers
  <2>1. k \in r + 1 .. Len(s) + 1 /\ k < Len(s) + 1
    BY <1>1
  <2>2. CASE k = j
    BY <1>6, <2>1, <2>2 DEF Inert
  <2>3. CASE k # j
    <3>1. PICK h \in q + 1 .. Len(u) + 1 : k = at(h)
      BY <1>5, <2>1, <2>3
    <3>2. h < Len(u) + 1
      BY <1>4, <1>7, <1>9, <2>1, <3>1
    <3>3. h \in q + 1 .. Len(u) /\ h \in 1 .. Len(u)
      BY <1>1, <3>2
    <3> QED
      BY <1>2, <1>8, <1>12, <3>1, <3>3 DEF Answers
  <2> QED
    BY <2>2, <2>3
<1> QED
  BY <1>10, <1>11, <1>12

\* u is s with a frame behind.
Longer(u, s) ==
  /\ Len(s) \in Nat /\ Len(u) \in Nat /\ Len(u) = Len(s) + 1
  /\ \A k \in 1 .. Len(s) : u[k] = s[k]

\* What a frame behind adds.
LEMMA LongerFollows ==
  ASSUME NEW s, NEW u, Longer(u, s), NEW r \in 0 .. Len(s), NEW p, NEW answered,
         Answers(s, r, p, answered),
         Quiet(s, r, Len(s) + 1) =>
           /\ u[Len(u)].kind = "message" => p \in u[Len(u)].prompts
           /\ u[Len(u)].kind = "idle" => p \in answered \/ Replied(s, r, Len(s) + 1)
  PROVE  /\ Answers(u, r, p, answered)
         /\ Quiet(u, r, Len(u) + 1) =>
              Quiet(s, r, Len(s) + 1) /\ u[Len(u)].kind # "idle"
         /\ Replied(s, r, Len(s) + 1) \/ u[Len(u)].kind = "message" => Replied(u, r, Len(u) + 1)
<1>1. Len(s) \in Nat /\ Len(u) = Len(s) + 1 /\ \A k \in 1 .. Len(s) : u[k] = s[k]
  BY DEF Longer
<1>2. \A k \in r + 1 .. Len(s) + 1 : \A i \in r + 1 .. k - 1 : u[i] = s[i]
  BY <1>1
<1>3. \A k \in r + 1 .. Len(s) + 1 :
        (Quiet(u, r, k) <=> Quiet(s, r, k)) /\ (Replied(u, r, k) <=> Replied(s, r, k))
  BY <1>2 DEF Quiet, Replied
<1>4. Answers(u, r, p, answered)
  <2> SUFFICES ASSUME NEW k \in r + 1 .. Len(u), Quiet(u, r, k)
               PROVE  /\ u[k].kind = "message" => p \in u[k].prompts
                      /\ u[k].kind = "idle" => p \in answered \/ Replied(u, r, k)
    BY DEF Answers
  <2>1. k \in r + 1 .. Len(s) + 1
    BY <1>1
  <2>2. CASE k = Len(u)
    BY <1>1, <1>3, <2>1, <2>2
  <2>3. CASE k # Len(u)
    <3>1. k \in r + 1 .. Len(s) /\ u[k] = s[k]
      BY <1>1, <2>3
    <3> QED
      BY <1>3, <2>1, <3>1 DEF Answers
  <2> QED
    BY <2>2, <2>3
<1>5. Len(s) + 1 \in r + 1 .. Len(s) + 1 /\ Len(u) \in r + 1 .. Len(u) + 1 - 1
  BY <1>1
<1>6. \A i \in r + 1 .. Len(s) + 1 - 1 : i \in r + 1 .. Len(u) + 1 - 1
  BY <1>1
<1>7. Quiet(u, r, Len(u) + 1) => Quiet(u, r, Len(s) + 1) /\ u[Len(u)].kind # "idle"
  BY <1>5, <1>6 DEF Quiet
<1>8. Replied(u, r, Len(s) + 1) \/ u[Len(u)].kind = "message" => Replied(u, r, Len(u) + 1)
  BY <1>5, <1>6 DEF Replied
<1> QED
  BY <1>3, <1>4, <1>5, <1>7, <1>8

\* What holds of a stream holds of its beginning.
LEMMA BeginningFollows ==
  ASSUME NEW s, NEW u, Len(s) \in Nat, Len(u) \in Nat, Len(s) <= Len(u),
         \A k \in 1 .. Len(s) : u[k] = s[k],
         NEW r \in 0 .. Len(s), NEW p, NEW answered, Answers(u, r, p, answered)
  PROVE  Answers(s, r, p, answered)
<1> SUFFICES ASSUME NEW k \in r + 1 .. Len(s), Quiet(s, r, k)
             PROVE  /\ s[k].kind = "message" => p \in s[k].prompts
                    /\ s[k].kind = "idle" => p \in answered \/ Replied(s, r, k)
  BY DEF Answers
<1>1. k \in r + 1 .. Len(u) /\ k \in 1 .. Len(s)
  OBVIOUS
<1>2. \A i \in r + 1 .. k - 1 : u[i] = s[i]
  OBVIOUS
<1>3. (Quiet(u, r, k) <=> Quiet(s, r, k)) /\ (Replied(u, r, k) <=> Replied(s, r, k))
  BY <1>2 DEF Quiet, Replied
<1> QED
  BY <1>1, <1>3 DEF Answers

\* One who has heard the first frame goes on from there.
LEMMA HeardFollows ==
  ASSUME NEW s, Len(s) \in Nat \ {0}, s[1].kind # "idle", NEW p, NEW t,
         NEW answered, NEW now, p \in answered \/ s[1].kind = "message" => p \in now
  PROVE  /\ Answers(s, 0, p, answered) => Answers(s, 1, p, now)
         /\ Owes(s, 0, p, answered, t) => Owes(s, 1, p, now, t)
<1>1. ASSUME NEW k \in 1 + 1 .. Len(s) + 1
      PROVE  /\ Quiet(s, 1, k) => Quiet(s, 0, k)
             /\ Replied(s, 0, k) => s[1].kind = "message" \/ Replied(s, 1, k)
  <2>1. \A i \in 0 + 1 .. k - 1 : i = 1 \/ i \in 1 + 1 .. k - 1
    OBVIOUS
  <2> QED
    BY <2>1 DEF Quiet, Replied
<1>2. \A k \in 1 + 1 .. Len(s) : k \in 0 + 1 .. Len(s) /\ k \in 1 + 1 .. Len(s) + 1
  OBVIOUS
<1>3. Answers(s, 0, p, answered) => Answers(s, 1, p, now)
  BY <1>1, <1>2 DEF Answers
<1>4. Len(s) + 1 \in 1 + 1 .. Len(s) + 1
  OBVIOUS
<1>5. Owes(s, 0, p, answered, t) => Owes(s, 1, p, now, t)
  BY <1>1, <1>4 DEF Owes
<1> QED
  BY <1>3, <1>5

\* A prompt that is still to be answered may have been answered before.
LEMMA AgainFollows ==
  ASSUME NEW s, NEW r, NEW p, NEW t, NEW answered
  PROVE  /\ Answers(s, r, p, {}) => Answers(s, r, p, answered)
         /\ Owes(s, r, p, {}, t) => Owes(s, r, p, answered, t)
BY DEF Answers, Owes

-----------------------------------------------------------------------------
(* The final response answers the prompt *)

\* What a caller is still to hear, as things are.
Stream == IF reader = "reading" THEN notifications \o stdout ELSE notifications

\* What is to follow position r for p to be answered.
Follows(r, p, answered) ==
  /\ Answers(Stream, r, p, answered)
  /\ reader = "reading" => Owes(Stream, r, p, answered, turn)

\* A receipt of p at position r.
Receives(s, r, p) == s[r].kind = "receipt" /\ p \in s[r].prompts

StreamInv ==
  /\ process = "none" =>
       reader = "none" /\ stderr = "none" /\ stdout = <<>> /\ notifications = <<>>
  /\ \A r \in 1 .. Len(Stream), p \in Proposals : Receives(Stream, r, p) => Follows(r, p, {})
  /\ caller.phase = "run" /\ caller.received =>
       Follows(0, proposals, caller.prompts)
  /\ caller.phase = "handoff" => proposals \in caller.prompts

\* The frames of a stream.
Frame == Response \cup Notification \cup {Error}

\* What is in the stream.
StreamParts ==
  /\ Stream \in Seq(Frame) /\ Len(Stream) \in Nat
  /\ notifications \in Seq(Frame) /\ stdout \in Seq(Frame)
  /\ Len(notifications) \in Nat /\ Len(stdout) \in Nat
  /\ \A k \in 1 .. Len(notifications) : Stream[k] = notifications[k]
  /\ Len(Stream) = IF reader = "reading" THEN Len(notifications) + Len(stdout)
                   ELSE Len(notifications)
  /\ reader = "reading" =>
       \A k \in 1 .. Len(stdout) : Stream[Len(notifications) + k] = stdout[k]

\* The stream is a sequence with these parts.
LEMMA StreamIsSeq == SessionInv => StreamParts
<1> SUFFICES ASSUME SessionInv PROVE StreamParts
  OBVIOUS
<1>1. notifications \in Seq(Frame)
  <2>1. notifications \in Seq(Notification \cup {Error}) /\ Notification \cup {Error} \subseteq Frame
    BY DEF SessionInv, SessionTypeOK, Frame
  <2> QED
    BY <2>1, SeqMonotonic
<1>2. stdout \in Seq(Frame)
  <2>1. stdout \in Seq(Response \cup Notification) /\ Response \cup Notification \subseteq Frame
    BY DEF SessionInv, SessionTypeOK, Frame
  <2> QED
    BY <2>1, SeqMonotonic
<1>3. Len(notifications) \in Nat /\ Len(stdout) \in Nat
  BY <1>1, <1>2, LenProperties
<1>4. CASE reader = "reading"
  <2>1. /\ Stream \in Seq(Frame) /\ Len(Stream) = Len(notifications) + Len(stdout)
        /\ \A i \in 1 .. Len(notifications) + Len(stdout) :
             Stream[i] = IF i <= Len(notifications) THEN notifications[i]
                         ELSE stdout[i - Len(notifications)]
    BY <1>1, <1>2, <1>4, ConcatProperties DEF Stream
  <2>2. ASSUME NEW k \in 1 .. Len(stdout) PROVE Stream[Len(notifications) + k] = stdout[k]
    <3>1. Len(notifications) + k \in 1 .. Len(notifications) + Len(stdout)
          /\ ~(Len(notifications) + k <= Len(notifications))
          /\ Len(notifications) + k - Len(notifications) = k
      BY <1>3
    <3> QED
      BY <2>1, <3>1
  <2>3. \A k \in 1 .. Len(notifications) : k \in 1 .. Len(notifications) + Len(stdout)
    BY <1>3
  <2> QED
    BY <1>1, <1>2, <1>3, <1>4, <2>1, <2>2, <2>3 DEF StreamParts
<1>5. CASE reader # "reading"
  BY <1>1, <1>2, <1>3, <1>5 DEF Stream, StreamParts
<1> QED
  BY <1>4, <1>5

\* An error is inert, and so is a response or a receipt.
LEMMA InertFrames ==
  /\ Inert(Error) /\ Error \in Frame
  /\ \A f \in Frame : f.kind \in {"response", "receipt"} => Inert(f)
  /\ \A f \in Response : f \in Frame /\ Inert(f) /\ f.kind = "response"
BY DEF Inert, Error, Frame, Response

\* A step that leaves the stream and the turn alone, and a caller who does not
\* come to follow it.
LEMMA StreamKept ==
  ASSUME StreamInv, Stream' = Stream, UNCHANGED <<reader, turn>>,
         process' = "none" =>
           process = "none" /\ UNCHANGED <<reader, stderr, stdout, notifications>>,
         \/ UNCHANGED <<caller, proposals>>
         \/ caller'.phase # "handoff" /\ ~(caller'.phase = "run" /\ caller'.received)
  PROVE  StreamInv'
BY DEF StreamInv, Follows

\* A step that makes the stream u of the stream: positions r of u come from
\* positions of the stream and keep what follows them, or hold no receipt.
LEMMA StreamMoves ==
  ASSUME StreamInv, UNCHANGED <<caller, proposals>>, process' # "none",
         \A r \in 1 .. Len(Stream'), p \in Proposals :
           Receives(Stream', r, p) => Follows(r, p, {})',
         \A p, answered : Follows(0, p, answered) => Follows(0, p, answered)'
  PROVE  StreamInv'
<1>1. ASSUME caller'.phase = "run", caller'.received
      PROVE  Follows(0, proposals, caller.prompts)'
  <2>1. PICK p, answered : p = proposals /\ answered = caller.prompts
    OBVIOUS
  <2>2. Follows(0, p, answered)
    BY <1>1, <2>1 DEF StreamInv
  <2>3. Follows(0, p, answered)'
    BY <2>2
  <2> QED
    BY <2>1, <2>3 DEF Follows
<1> QED
  BY <1>1 DEF StreamInv

\* A frame the runtime tells is behind the others of a live stream.
LEMMA TellsLonger ==
  ASSUME SessionInv, SessionInv', reader = "reading", UNCHANGED <<reader, notifications>>,
         NEW frame \in Response \cup Notification, Tells(frame)
  PROVE  Longer(Stream', Stream) /\ Stream'[Len(Stream')] = frame
<1>1. /\ Len(Stream) \in Nat /\ Len(notifications) \in Nat /\ Len(stdout) \in Nat
      /\ \A k \in 1 .. Len(notifications) : Stream[k] = notifications[k]
      /\ Len(Stream) = Len(notifications) + Len(stdout)
      /\ \A k \in 1 .. Len(stdout) : Stream[Len(notifications) + k] = stdout[k]
  BY StreamIsSeq DEF StreamParts
<1>2. /\ Len(Stream') \in Nat
      /\ \A k \in 1 .. Len(notifications) : Stream'[k] = notifications[k]
      /\ Len(Stream') = Len(notifications) + Len(stdout')
      /\ \A k \in 1 .. Len(stdout') : Stream'[Len(notifications) + k] = stdout'[k]
  <2>1. StreamParts'
    BY StreamIsSeq, PTL
  <2> QED
    BY <2>1 DEF StreamParts
<1>3. stdout \in Seq(Response \cup Notification) /\ stdout' = Append(stdout, frame)
  BY DEF SessionInv, SessionTypeOK, Tells
<1>4. /\ Len(stdout') = Len(stdout) + 1 /\ stdout'[Len(stdout) + 1] = frame
      /\ \A k \in 1 .. Len(stdout) : stdout'[k] = stdout[k]
  BY <1>3, AppendProperties
<1>5. ASSUME NEW k \in 1 .. Len(Stream) PROVE Stream'[k] = Stream[k]
  <2>1. CASE k <= Len(notifications)
    BY <1>1, <1>2, <2>1
  <2>2. CASE k > Len(notifications)
    <3>1. PICK i \in 1 .. Len(stdout) : k = Len(notifications) + i
      <4>1. k - Len(notifications) \in 1 .. Len(stdout) /\ k = Len(notifications) + (k - Len(notifications))
        BY <1>1, <2>2
      <4> QED
        BY <4>1
    <3>2. i \in 1 .. Len(stdout')
      BY <1>1, <1>4
    <3> QED
      BY <1>1, <1>2, <1>4, <3>1, <3>2
  <2> QED
    BY <1>1, <2>1, <2>2
<1>6. Stream'[Len(Stream')] = frame
  <2>1. Len(stdout) + 1 \in 1 .. Len(stdout')
    BY <1>1, <1>4
  <2> QED
    BY <1>1, <1>2, <1>4, <2>1
<1> QED
  BY <1>1, <1>2, <1>4, <1>5, <1>6 DEF Longer

\* The runtime answers the prompts it has spliced before it ends their turn.
LEMMA RuntimeStream ==
  ASSUME SessionInv, StreamInv, RuntimeStep \/ Exit
  PROVE  StreamInv'
<1> USE DEF peerVars, threadVars, callerVars
<1>1. /\ UNCHANGED <<reader, stderr, notifications, caller, proposals>>
      /\ process' # "none" /\ process = "alive"
  BY DEF RuntimeStep, Accept, Refuse, Respond, Splice, Reply, GoIdle, Exit
<1>2. SessionInv'
  BY RuntimeTypes
<1>3. CASE reader # "reading"
  <2>1. Stream' = Stream /\ reader' # "reading"
    BY <1>1, <1>3 DEF Stream
  <2>2. \A r, p, answered : Follows(r, p, answered) => Follows(r, p, answered)'
    BY <2>1 DEF Follows
  <2>3. \A r \in 1 .. Len(Stream'), p \in Proposals :
          Receives(Stream', r, p) => Follows(r, p, {})'
    BY <2>1, <2>2 DEF StreamInv
  <2> QED
    BY <1>1, <2>2, <2>3, StreamMoves
<1>4. ASSUME reader = "reading", UNCHANGED stdout,
             turn'.spliced = turn.spliced, turn'.replied = turn.replied
      PROVE  StreamInv'
  <2>1. Stream' = Stream /\ reader' = "reading"
    BY <1>1, <1>4 DEF Stream
  <2>2. \A r, p, answered : Follows(r, p, answered) => Follows(r, p, answered)'
    BY <1>4, <2>1 DEF Follows, Owes
  <2>3. \A r \in 1 .. Len(Stream'), p \in Proposals :
          Receives(Stream', r, p) => Follows(r, p, {})'
    BY <2>1, <2>2 DEF StreamInv
  <2> QED
    BY <1>1, <2>2, <2>3, StreamMoves
\* It is enough to look at what the new frame adds.
<1>5. ASSUME reader = "reading", NEW frame \in Response \cup Notification, Tells(frame),
             \A r \in 0 .. Len(Stream) : \A p, answered :
               Owes(Stream, r, p, answered, turn) =>
                 /\ Quiet(Stream, r, Len(Stream) + 1) =>
                      /\ frame.kind = "message" => p \in frame.prompts
                      /\ frame.kind = "idle" => p \in answered \/ Replied(Stream, r, Len(Stream) + 1)
                 /\ Quiet(Stream, r, Len(Stream) + 1) /\ frame.kind # "idle" =>
                      /\ p \in turn'.spliced
                      /\ turn'.replied =>
                           p \in answered \/ Replied(Stream, r, Len(Stream) + 1) \/ frame.kind = "message",
             frame.kind = "receipt" => frame.prompts \subseteq turn'.spliced /\ ~turn'.replied
      PROVE  StreamInv'
  <2>1. Longer(Stream', Stream) /\ Stream'[Len(Stream')] = frame
    BY <1>1, <1>2, <1>5, TellsLonger
  <2>2. reader' = "reading" /\ Len(Stream) \in Nat /\ Len(Stream') = Len(Stream) + 1
    BY <1>1, <1>5, <2>1 DEF Longer
  <2>3. ASSUME NEW r \in 0 .. Len(Stream), NEW p, NEW answered,
               Answers(Stream, r, p, answered), Owes(Stream, r, p, answered, turn)
        PROVE  Answers(Stream', r, p, answered) /\ Owes(Stream', r, p, answered, turn')
    <3>1. /\ Quiet(Stream, r, Len(Stream) + 1) =>
               /\ frame.kind = "message" => p \in frame.prompts
               /\ frame.kind = "idle" => p \in answered \/ Replied(Stream, r, Len(Stream) + 1)
          /\ Quiet(Stream, r, Len(Stream) + 1) /\ frame.kind # "idle" =>
               /\ p \in turn'.spliced
               /\ turn'.replied =>
                    p \in answered \/ Replied(Stream, r, Len(Stream) + 1) \/ frame.kind = "message"
      BY <1>5, <2>3
    <3>2. /\ Answers(Stream', r, p, answered)
          /\ Quiet(Stream', r, Len(Stream') + 1) =>
               Quiet(Stream, r, Len(Stream) + 1) /\ frame.kind # "idle"
          /\ Replied(Stream, r, Len(Stream) + 1) \/ frame.kind = "message" =>
               Replied(Stream', r, Len(Stream') + 1)
      BY <2>1, <2>3, <3>1, LongerFollows
    <3> QED
      BY <3>1, <3>2 DEF Owes
  <2>4. \A r \in 0 .. Len(Stream) : \A p, answered : Follows(r, p, answered) => Follows(r, p, answered)'
    BY <1>5, <2>2, <2>3 DEF Follows
  <2>5. ASSUME NEW r \in 1 .. Len(Stream'), NEW p \in Proposals, Receives(Stream', r, p)
        PROVE  Follows(r, p, {})'
    <3>1. CASE r = Len(Stream')
      <4>1. p \in turn'.spliced /\ ~turn'.replied
        BY <1>5, <2>1, <2>5, <3>1 DEF Receives
      <4>2. Answers(Stream', r, p, {})
        <5>1. \A k \in r + 1 .. Len(Stream') : FALSE
          BY <2>2, <3>1
        <5> QED
          BY <5>1 DEF Answers
      <4> QED
        BY <4>1, <4>2 DEF Follows, Owes
    <3>2. CASE r # Len(Stream')
      <4>1. r \in 1 .. Len(Stream) /\ r \in 0 .. Len(Stream) /\ Stream'[r] = Stream[r]
        BY <2>1, <2>2, <3>2 DEF Longer
      <4>2. Follows(r, p, {})
        BY <2>5, <4>1 DEF StreamInv, Receives
      <4> QED
        BY <2>4, <4>1, <4>2
    <3> QED
      BY <3>1, <3>2
  <2>6. 0 \in 0 .. Len(Stream)
    BY <2>2
  <2> QED
    BY <1>1, <2>4, <2>5, <2>6, StreamMoves
<1>6. turn \in Turn
  BY DEF SessionInv, SessionTypeOK
<1>7. ASSUME reader = "reading", Refuse \/ Respond PROVE StreamInv'
  <2>1. PICK frame \in Response : Tells(frame)
    <3>1. CASE Refuse
      <4>1. Head(stdin) \in Request
        BY <3>1, HeadTailProperties DEF Refuse, SessionInv, SessionTypeOK
      <4> QED
        BY <3>1, <4>1 DEF Refuse, Answer, Request, Response
    <3>2. CASE Respond
      BY <1>6, <3>2 DEF Respond, Turn, Answer, Request, Response
    <3> QED
      BY <1>7, <3>1, <3>2
  <2>2. turn'.spliced = turn.spliced /\ turn'.replied = turn.replied /\ frame.kind = "response"
    BY <1>6, <1>7 DEF Refuse, Respond, Turn, Response
  <2> QED
    BY <1>5, <1>7, <2>1, <2>2 DEF Owes
<1>8. ASSUME reader = "reading", Splice PROVE StreamInv'
  <2>1. PICK frame : frame = [kind |-> "receipt", prompts |-> turn.inbox]
    OBVIOUS
  <2>2. frame \in Notification /\ frame.kind = "receipt" /\ frame.prompts = turn.inbox /\ Tells(frame)
    BY <1>6, <1>8, <2>1 DEF Splice, Turn, Notification, Receipt
  <2>3. turn'.spliced = turn.spliced \cup turn.inbox /\ turn'.replied = FALSE
    BY <1>6, <1>8 DEF Splice, Turn
  <2> QED
    BY <1>5, <1>8, <2>2, <2>3 DEF Owes
<1>9. ASSUME reader = "reading", Reply PROVE StreamInv'
  <2>1. PICK frame : frame = [kind |-> "message", prompts |-> turn.spliced]
    OBVIOUS
  <2>2. frame \in Notification /\ frame.kind = "message" /\ frame.prompts = turn.spliced /\ Tells(frame)
    BY <1>6, <1>9, <2>1 DEF Reply, Turn, Notification, Message
  <2>3. turn'.spliced = turn.spliced
    BY <1>6, <1>9 DEF Reply, Turn
  <2> QED
    BY <1>5, <1>9, <2>2, <2>3 DEF Owes
<1>10. ASSUME reader = "reading", GoIdle PROVE StreamInv'
  <2>1. Idle \in Notification /\ Idle.kind = "idle" /\ Tells(Idle) /\ turn.replied
    BY <1>10 DEF GoIdle, Notification, Idle
  <2> QED
    BY <1>5, <1>10, <2>1 DEF Owes
<1>11. ASSUME reader = "reading", Accept \/ Exit PROVE StreamInv'
  <2>1. UNCHANGED stdout /\ turn'.spliced = turn.spliced /\ turn'.replied = turn.replied
    BY <1>6, <1>11 DEF Accept, Exit, Turn
  <2> QED
    BY <1>4, <1>11, <2>1
<1> QED
  BY <1>3, <1>7, <1>8, <1>9, <1>10, <1>11 DEF RuntimeStep

\* A step that takes out of the stream, or puts into it, a frame that is inert.
LEMMA InertMoves ==
  ASSUME SessionInv, SessionInv', StreamInv, NEW j,
         UNCHANGED <<reader, turn, caller, proposals>>, process' # "none",
         \/ Without(Stream', Stream, j) /\ Inert(Stream[j])
         \/ Without(Stream, Stream', j) /\ Inert(Stream'[j]) /\ Stream'[j].kind # "receipt"
  PROVE  StreamInv'
<1>1. CASE Without(Stream', Stream, j) /\ Inert(Stream[j])
  <2>1. /\ Len(Stream) \in Nat /\ Len(Stream') \in Nat /\ Len(Stream) = Len(Stream') + 1
        /\ j \in 1 .. Len(Stream)
        /\ \A k \in 1 .. Len(Stream') : Stream'[k] = Stream[IF k < j THEN k ELSE k + 1]
    BY <1>1 DEF Without
  <2>2. ASSUME NEW r \in 0 .. Len(Stream), NEW q, q = (IF r < j THEN r ELSE r - 1),
               NEW p, NEW answered, Follows(r, p, answered)
        PROVE  Follows(q, p, answered)'
    <3>1. /\ Answers(Stream, r, p, answered) => Answers(Stream', q, p, answered)
          /\ Owes(Stream, r, p, answered, turn) => Owes(Stream', q, p, answered, turn)
      BY <1>1, <2>2, WithoutFollows
    <3> QED
      BY <2>2, <3>1 DEF Follows
  <2>3. ASSUME NEW q \in 1 .. Len(Stream'), NEW p \in Proposals, Receives(Stream', q, p)
        PROVE  Follows(q, p, {})'
    <3>1. PICK r : r = IF q < j THEN q ELSE q + 1
      OBVIOUS
    <3>2. r \in 1 .. Len(Stream) /\ r \in 0 .. Len(Stream) /\ Stream'[q] = Stream[r]
          /\ q = IF r < j THEN r ELSE r - 1
      BY <2>1, <3>1
    <3>3. Follows(r, p, {})
      BY <2>3, <3>2 DEF StreamInv, Receives
    <3> QED
      BY <2>2, <3>2, <3>3
  <2>4. 0 \in 0 .. Len(Stream) /\ 0 = IF 0 < j THEN 0 ELSE 0 - 1
    BY <2>1
  <2>5. \A p, answered : Follows(0, p, answered) => Follows(0, p, answered)'
    BY <2>2, <2>4
  <2> QED
    BY <2>3, <2>5, StreamMoves
<1>2. CASE Without(Stream, Stream', j) /\ Inert(Stream'[j]) /\ Stream'[j].kind # "receipt"
  <2>1. /\ Len(Stream) \in Nat /\ Len(Stream') \in Nat /\ Len(Stream') = Len(Stream) + 1
        /\ j \in 1 .. Len(Stream')
        /\ \A k \in 1 .. Len(Stream) : Stream[k] = Stream'[IF k < j THEN k ELSE k + 1]
    BY <1>2 DEF Without
  <2>2. ASSUME NEW r \in 0 .. Len(Stream'), NEW q, q = (IF r < j THEN r ELSE r - 1),
               NEW p, NEW answered, Follows(q, p, answered)
        PROVE  Follows(r, p, answered)'
    <3>1. /\ Answers(Stream, q, p, answered) => Answers(Stream', r, p, answered)
          /\ Owes(Stream, q, p, answered, turn) => Owes(Stream', r, p, answered, turn)
      BY <1>2, <2>2, WithoutFollows
    <3> QED
      BY <2>2, <3>1 DEF Follows
  <2>3. ASSUME NEW r \in 1 .. Len(Stream'), NEW p \in Proposals, Receives(Stream', r, p)
        PROVE  Follows(r, p, {})'
    <3>1. PICK q : q = IF r < j THEN r ELSE r - 1
      OBVIOUS
    <3>2. r # j
      BY <1>2, <2>3 DEF Receives
    <3>3. q \in 1 .. Len(Stream) /\ r \in 0 .. Len(Stream') /\ Stream[q] = Stream'[r]
      BY <2>1, <3>1, <3>2
    <3>4. Follows(q, p, {})
      BY <2>3, <3>3 DEF StreamInv, Receives
    <3> QED
      BY <2>2, <3>1, <3>3, <3>4
  <2>4. 0 \in 0 .. Len(Stream') /\ 0 = IF 0 < j THEN 0 ELSE 0 - 1
    BY <2>1
  <2>5. \A p, answered : Follows(0, p, answered) => Follows(0, p, answered)'
    BY <2>2, <2>4
  <2> QED
    BY <2>3, <2>5, StreamMoves
<1> QED
  BY <1>1, <1>2

\* Once the reader is gone, what was heard ends with an error.
LEMMA EndMoves ==
  ASSUME SessionInv, SessionInv', StreamInv, process' # "none", UNCHANGED <<turn, caller, proposals>>,
         Fail, reader' # "reading"
  PROVE  StreamInv'
<1>1. StreamParts
  BY StreamIsSeq
<1>2. notifications' = Append(notifications, Error) /\ Stream' = notifications'
  BY <1>1, FailTells DEF SessionInv, Stream
<1>3. Error \in Frame
  BY InertFrames
<1>4. /\ Len(Stream') = Len(notifications) + 1 /\ Stream'[Len(notifications) + 1] = Error
      /\ \A k \in 1 .. Len(notifications) : Stream'[k] = notifications[k]
  BY <1>1, <1>2, <1>3, AppendProperties DEF StreamParts
<1>5. /\ Len(notifications) \in Nat /\ Len(Stream) \in Nat /\ Len(notifications) <= Len(Stream)
      /\ \A k \in 1 .. Len(notifications) : Stream[k] = notifications[k]
  BY <1>1 DEF StreamParts
<1>6. Longer(Stream', notifications)
  BY <1>4, <1>5 DEF Longer
<1>7. ASSUME NEW r \in 0 .. Len(notifications), NEW p, NEW answered, Follows(r, p, answered)
      PROVE  Follows(r, p, answered)'
  <2>1. Answers(Stream, r, p, answered)
    BY <1>7 DEF Follows
  <2>2. Answers(notifications, r, p, answered)
    BY <1>5, <2>1, BeginningFollows
  <2>3. Stream'[Len(Stream')].kind \notin {"message", "idle"}
    BY <1>4 DEF Error
  <2>4. Answers(Stream', r, p, answered)
    BY <1>6, <2>2, <2>3, LongerFollows
  <2> QED
    BY <2>4 DEF Follows
<1>8. ASSUME NEW r \in 1 .. Len(Stream'), NEW p \in Proposals, Receives(Stream', r, p)
      PROVE  Follows(r, p, {})'
  <2>1. r # Len(notifications) + 1
    BY <1>4, <1>8 DEF Receives, Error
  <2>2. r \in 1 .. Len(notifications) /\ r \in 0 .. Len(notifications) /\ r \in 1 .. Len(Stream)
        /\ Stream'[r] = Stream[r]
    BY <1>4, <1>5, <2>1
  <2>3. Follows(r, p, {})
    BY <1>8, <2>2 DEF StreamInv, Receives
  <2> QED
    BY <1>7, <2>2, <2>3
<1>9. 0 \in 0 .. Len(notifications)
  BY <1>5
<1> QED
  BY <1>7, <1>8, <1>9, StreamMoves

\* The threads leave the order of what is to be heard.
LEMMA ThreadStream ==
  ASSUME SessionInv, StreamInv, ReaderStep \/ ReaderFails \/ StderrFails
  PROVE  StreamInv'
<1> USE DEF callerVars, threadVars, runtimeVars
<1>0. SessionInv' /\ StreamParts /\ StreamParts'
  <2>1. SessionInv'
    BY ThreadTypes
  <2>2. SessionInv' => StreamParts'
    BY StreamIsSeq, PTL
  <2> QED
    BY <2>1, <2>2, StreamIsSeq
<1>1. UNCHANGED <<process, turn, caller, proposals>> /\ process' # "none"
  BY DEF ReaderStep, Read, ReaderFails, ReaderEnds, StderrFails, StreamInv
<1>2. CASE Read
  <2>1. /\ reader = "reading" /\ reader' = "reading" /\ UNCHANGED stderr
        /\ stdout # <<>> /\ stdout' = Tail(stdout)
    BY <1>2 DEF Read
  <2>2. /\ Len(stdout) \in Nat \ {0} /\ Len(stdout') = Len(stdout) - 1 /\ Head(stdout) = stdout[1]
        /\ \A k \in 1 .. Len(stdout') : stdout'[k] = stdout[k + 1]
    BY <1>0, <2>1, EmptySeq, HeadTailProperties DEF StreamParts
  <2>3. /\ Len(notifications) \in Nat /\ Len(Stream) = Len(notifications) + Len(stdout)
        /\ \A k \in 1 .. Len(notifications) : Stream[k] = notifications[k]
        /\ \A k \in 1 .. Len(stdout) : Stream[Len(notifications) + k] = stdout[k]
        /\ Len(Stream') = Len(notifications') + Len(stdout')
        /\ \A k \in 1 .. Len(notifications') : Stream'[k] = notifications'[k]
        /\ \A k \in 1 .. Len(stdout') : Stream'[Len(notifications') + k] = stdout'[k]
    BY <1>0, <2>1 DEF StreamParts
  <2>4. CASE Head(stdout).kind = "response"
    <3>1. notifications' = notifications
      BY <1>2, <2>4, ReadResponse DEF SessionInv
    <3>2. Inert(Stream[Len(notifications) + 1])
      <4>1. 1 \in 1 .. Len(stdout)
        BY <2>2
      <4> QED
        BY <2>2, <2>3, <2>4, <4>1 DEF Inert
    <3>3. Without(Stream', Stream, Len(notifications) + 1)
      <4>1. ASSUME NEW k \in 1 .. Len(Stream')
            PROVE  Stream'[k] = Stream[IF k < Len(notifications) + 1 THEN k ELSE k + 1]
        <5>1. CASE k < Len(notifications) + 1
          <6>1. k \in 1 .. Len(notifications)
            BY <2>2, <2>3, <3>1, <5>1
          <6> QED
            BY <2>3, <3>1, <5>1, <6>1
        <5>2. CASE ~(k < Len(notifications) + 1)
          <6>1. PICK i \in 1 .. Len(stdout') : k = Len(notifications) + i
            <7>1. k - Len(notifications) \in 1 .. Len(stdout') /\ k = Len(notifications) + (k - Len(notifications))
              BY <2>2, <2>3, <3>1, <5>2
            <7> QED
              BY <7>1
          <6>2. i + 1 \in 1 .. Len(stdout) /\ k + 1 = Len(notifications) + (i + 1)
            BY <2>2, <2>3, <6>1
          <6>3. Stream'[k] = stdout'[i] /\ stdout'[i] = stdout[i + 1]
            BY <2>2, <2>3, <3>1, <6>1
          <6>4. Stream[k + 1] = stdout[i + 1]
            BY <2>3, <6>2
          <6> QED
            BY <5>2, <6>3, <6>4
        <5> QED
          BY <5>1, <5>2
      <4>2. /\ Len(Stream) \in Nat /\ Len(Stream') \in Nat /\ Len(Stream) = Len(Stream') + 1
            /\ Len(notifications) + 1 \in 1 .. Len(Stream)
        BY <2>2, <2>3, <3>1
      <4> QED
        BY <4>1, <4>2 DEF Without
    <3>4. PICK j : j = Len(notifications) + 1
      OBVIOUS
    <3> QED
      BY <1>0, <1>1, <2>1, <3>2, <3>3, <3>4, InertMoves
  <2>5. CASE Head(stdout).kind # "response"
    <3>1. notifications' = Append(notifications, stdout[1]) /\ stdout[1] \in Frame
      BY <1>2, <2>2, <2>5, ReadNotification DEF SessionInv, Frame
    <3>2. /\ Len(notifications') = Len(notifications) + 1
          /\ notifications'[Len(notifications) + 1] = stdout[1]
          /\ \A k \in 1 .. Len(notifications) : notifications'[k] = notifications[k]
      BY <1>0, <3>1, AppendProperties DEF StreamParts
    <3>3. ASSUME NEW k \in 1 .. Len(Stream) PROVE Stream'[k] = Stream[k]
      <4>1. CASE k <= Len(notifications)
        <5>1. k \in 1 .. Len(notifications) /\ k \in 1 .. Len(notifications')
          BY <2>3, <3>2, <4>1
        <5> QED
          BY <2>3, <3>2, <5>1
      <4>2. CASE k = Len(notifications) + 1
        <5>1. 1 \in 1 .. Len(stdout) /\ k \in 1 .. Len(notifications')
          BY <2>2, <2>3, <3>2, <4>2
        <5> QED
          BY <2>3, <3>2, <4>2, <5>1
      <4>3. CASE k > Len(notifications) + 1
        <5>1. PICK i \in 1 .. Len(stdout') : k = Len(notifications) + 1 + i
          <6>1. /\ k - (Len(notifications) + 1) \in 1 .. Len(stdout')
                /\ k = Len(notifications) + 1 + (k - (Len(notifications) + 1))
            BY <2>2, <2>3, <4>3
          <6> QED
            BY <6>1
        <5>2. i + 1 \in 1 .. Len(stdout) /\ k = Len(notifications) + (i + 1) /\ k = Len(notifications') + i
          BY <2>2, <2>3, <3>2, <5>1
        <5>3. Stream'[k] = stdout'[i] /\ stdout'[i] = stdout[i + 1]
          BY <2>2, <2>3, <5>1, <5>2
        <5>4. Stream[k] = stdout[i + 1]
          BY <2>3, <5>2
        <5> QED
          BY <5>3, <5>4
      <4>4. k \in Int /\ Len(notifications) \in Int
        BY <2>2, <2>3
      <4> QED
        BY <4>1, <4>2, <4>3, <4>4
    <3>4. Len(Stream') = Len(Stream)
      BY <2>2, <2>3, <3>2
    <3>5. Stream' = Stream
      BY <1>0, <3>3, <3>4, SeqEqual DEF StreamParts
    <3> QED
      BY <1>1, <2>1, <3>5, StreamKept
  <2> QED
    BY <2>4, <2>5
<1>3. CASE ReaderFails
  BY <1>0, <1>1, <1>3, EndMoves DEF ReaderFails
<1>4. CASE ReaderEnds
  BY <1>0, <1>1, <1>4, EndMoves DEF ReaderEnds
<1>5. CASE StderrFails /\ reader # "reading"
  BY <1>0, <1>1, <1>5, EndMoves DEF StderrFails
<1>6. CASE StderrFails /\ reader = "reading"
  <2>1. reader' = "reading" /\ UNCHANGED stdout /\ Fail
    BY <1>6 DEF StderrFails
  <2>2. /\ Len(notifications') = Len(notifications) + 1
        /\ notifications'[Len(notifications) + 1] = Error
        /\ \A k \in 1 .. Len(notifications) : notifications'[k] = notifications[k]
    <3>1. notifications' = Append(notifications, Error) /\ Error \in Frame
      BY <2>1, FailTells, InertFrames DEF SessionInv
    <3> QED
      BY <1>0, <3>1, AppendProperties DEF StreamParts
  <2>3. /\ Len(notifications) \in Nat /\ Len(stdout) \in Nat
        /\ Len(Stream) = Len(notifications) + Len(stdout)
        /\ \A k \in 1 .. Len(notifications) : Stream[k] = notifications[k]
        /\ \A k \in 1 .. Len(stdout) : Stream[Len(notifications) + k] = stdout[k]
        /\ Len(Stream') = Len(notifications') + Len(stdout)
        /\ \A k \in 1 .. Len(notifications') : Stream'[k] = notifications'[k]
        /\ \A k \in 1 .. Len(stdout) : Stream'[Len(notifications') + k] = stdout[k]
    BY <1>0, <1>6, <2>1 DEF StreamParts
  <2>4. Stream'[Len(notifications) + 1] = Error
    <3>1. Len(notifications) + 1 \in 1 .. Len(notifications')
      BY <2>2, <2>3
    <3> QED
      BY <2>2, <2>3, <3>1
  <2>5. Without(Stream, Stream', Len(notifications) + 1)
    <3>1. ASSUME NEW k \in 1 .. Len(Stream)
          PROVE  Stream[k] = Stream'[IF k < Len(notifications) + 1 THEN k ELSE k + 1]
      <4>1. CASE k < Len(notifications) + 1
        <5>1. k \in 1 .. Len(notifications) /\ k \in 1 .. Len(notifications')
          BY <2>2, <2>3, <4>1
        <5> QED
          BY <2>2, <2>3, <4>1, <5>1
      <4>2. CASE ~(k < Len(notifications) + 1)
        <5>1. PICK i \in 1 .. Len(stdout) : k = Len(notifications) + i
          <6>1. k - Len(notifications) \in 1 .. Len(stdout) /\ k = Len(notifications) + (k - Len(notifications))
            BY <2>3, <4>2
          <6> QED
            BY <6>1
        <5>2. k + 1 = Len(notifications') + i
          BY <2>2, <2>3, <5>1
        <5> QED
          BY <2>3, <4>2, <5>1, <5>2
      <4> QED
        BY <4>1, <4>2
    <3>2. /\ Len(Stream) \in Nat /\ Len(Stream') \in Nat /\ Len(Stream') = Len(Stream) + 1
          /\ Len(notifications) + 1 \in 1 .. Len(Stream')
      BY <2>2, <2>3
    <3> QED
      BY <3>1, <3>2 DEF Without
  <2>6. PICK j : j = Len(notifications) + 1
    OBVIOUS
  <2>7. Without(Stream, Stream', j) /\ Inert(Stream'[j]) /\ Stream'[j].kind # "receipt"
    BY <2>4, <2>5, <2>6, InertFrames DEF Error
  <2>8. UNCHANGED <<reader, turn, caller, proposals>>
    BY <1>1, <1>6, <2>1
  <2> QED
    BY <1>0, <1>1, <2>7, <2>8, InertMoves
<1> QED
  BY <1>2, <1>3, <1>4, <1>5, <1>6 DEF ReaderStep

\* The caller who follows a turn hears of its prompt before the turn ends.
LEMMA HearStream ==
  ASSUME SessionInv, FrameInv, StreamInv, Hear
  PROVE  StreamInv'
<1>0. SessionInv' /\ StreamParts /\ StreamParts'
  <2>1. SessionInv'
    BY CallerTypes DEF CallerStep
  <2>2. SessionInv' => StreamParts'
    BY StreamIsSeq, PTL
  <2> QED
    BY <2>1, <2>2, StreamIsSeq
<1>1. /\ UNCHANGED <<process, stdout, turn, reader, stderr, proposals>>
      /\ caller.phase = "run" /\ caller.message = proposals
      /\ notifications # <<>> /\ notifications' = Tail(notifications)
  BY DEF Hear, runtimeVars, threadVars, FrameInv
<1>2. process # "none"
  BY <1>1 DEF StreamInv
<1>3. /\ Len(notifications) \in Nat \ {0} /\ Len(notifications') = Len(notifications) - 1
      /\ Head(notifications) = notifications[1]
      /\ \A k \in 1 .. Len(notifications') : notifications'[k] = notifications[k + 1]
  BY <1>0, <1>1, EmptySeq, HeadTailProperties DEF StreamParts
<1>4. /\ Len(stdout) \in Nat /\ Len(Stream) \in Nat /\ Len(Stream') \in Nat
      /\ \A k \in 1 .. Len(notifications) : Stream[k] = notifications[k]
      /\ \A k \in 1 .. Len(notifications') : Stream'[k] = notifications'[k]
      /\ Len(Stream) = IF reader = "reading" THEN Len(notifications) + Len(stdout)
                       ELSE Len(notifications)
      /\ Len(Stream') = IF reader = "reading" THEN Len(notifications') + Len(stdout)
                        ELSE Len(notifications')
      /\ reader = "reading" =>
           /\ \A k \in 1 .. Len(stdout) : Stream[Len(notifications) + k] = stdout[k]
           /\ \A k \in 1 .. Len(stdout) : Stream'[Len(notifications') + k] = stdout[k]
  BY <1>0, <1>1 DEF StreamParts
<1>5. Len(Stream) = Len(Stream') + 1 /\ 1 \in 1 .. Len(Stream) /\ Stream[1] = Head(notifications)
  <2>1. 1 \in 1 .. Len(notifications)
    BY <1>3
  <2> QED
    BY <1>3, <1>4, <2>1
<1>6. ASSUME NEW k \in 1 .. Len(Stream') PROVE Stream'[k] = Stream[k + 1]
  <2>1. CASE k <= Len(notifications')
    <3>1. k \in 1 .. Len(notifications') /\ k + 1 \in 1 .. Len(notifications)
      BY <1>3, <2>1
    <3> QED
      BY <1>3, <1>4, <3>1
  <2>2. CASE k > Len(notifications')
    <3>1. PICK i \in 1 .. Len(stdout) : k = Len(notifications') + i
      <4>1. k - Len(notifications') \in 1 .. Len(stdout) /\ k = Len(notifications') + (k - Len(notifications'))
        BY <1>3, <1>4, <2>2
      <4> QED
        BY <4>1
    <3>2. reader = "reading" /\ k + 1 = Len(notifications) + i
      BY <1>3, <1>4, <2>2, <3>1
    <3> QED
      BY <1>4, <3>1, <3>2
  <2>3. k \in Int /\ Len(notifications') \in Int
    BY <1>3
  <2> QED
    BY <2>1, <2>2, <2>3
<1>7. Without(Stream', Stream, 1)
  BY <1>4, <1>5, <1>6 DEF Without
<1>8. ASSUME NEW r \in 1 .. Len(Stream), NEW q, q = r - 1, NEW p, NEW answered, Follows(r, p, answered)
      PROVE  Follows(q, p, answered)'
  <2>1. r \in 0 .. Len(Stream) /\ ~(r < 1) /\ q = IF r < 1 THEN r ELSE r - 1
    BY <1>4, <1>8
  <2>2. /\ Answers(Stream, r, p, answered) => Answers(Stream', q, p, answered)
        /\ Owes(Stream, r, p, answered, turn) => Owes(Stream', q, p, answered, turn)
    BY <1>7, <2>1, WithoutFollows
  <2> QED
    BY <1>1, <1>8, <2>2 DEF Follows
<1>9. ASSUME NEW q \in 1 .. Len(Stream'), NEW p \in Proposals, Receives(Stream', q, p)
      PROVE  Follows(q, p, {})'
  <2>0. Len(Stream) \in Nat /\ Len(Stream') \in Nat /\ Len(Stream) = Len(Stream') + 1
    BY <1>4, <1>5
  <2>1. q + 1 \in 1 .. Len(Stream) /\ q = (q + 1) - 1
    BY <2>0
  <2>2. Follows(q + 1, p, {})
    BY <1>6, <1>9, <2>1 DEF StreamInv, Receives
  <2> QED
    BY <1>8, <2>1, <2>2
<1>10. proposals \in Proposals
  BY <1>1, ProposalsAssumption DEF SessionInv, SessionTypeOK, CountInv, Proposals
<1>11. PICK item : item = Head(notifications)
  OBVIOUS
<1>12. /\ caller'.phase = "run" =>
             /\ ~(item.kind = "idle" /\ caller.received)
             /\ caller'.received = (\/ caller.received
                                    \/ item.kind = "receipt" /\ proposals \in item.prompts)
             /\ caller'.prompts = IF item.kind = "message" THEN item.prompts ELSE caller.prompts
       /\ caller'.phase = "handoff" =>
             item.kind = "idle" /\ caller.received /\ caller'.prompts = caller.prompts
  <2>0. caller \in Caller
    BY DEF SessionInv, SessionTypeOK
  <2>1. \/ item.kind = "error" /\ GoesTo("idle")
        \/ item.kind = "idle" /\ caller.received /\ GoesTo("handoff")
        \/ /\ ~(item.kind = "idle" /\ caller.received)
           /\ caller'.phase = "run"
           /\ caller'.received = (\/ caller.received
                                  \/ item.kind = "receipt" /\ caller.message \in item.prompts)
           /\ caller'.prompts = IF item.kind = "message" THEN item.prompts ELSE caller.prompts
    BY <1>11, HearFields DEF SessionInv
  <2> QED
    BY <1>1, <2>0, <2>1 DEF GoesTo, Caller
<1>13. Stream[1] = item
  BY <1>5, <1>11
<1>14. ASSUME caller'.phase = "run", caller'.received PROVE Follows(0, proposals, caller.prompts)'
  <2>1. PICK p, before, now : p = proposals /\ before = caller.prompts /\ now = caller'.prompts
    OBVIOUS
  <2>2. CASE caller.received
    <3>1. Follows(0, p, before) /\ item.kind # "idle"
      BY <1>1, <1>12, <1>14, <2>1, <2>2 DEF StreamInv
    <3>2. item.kind = "message" => p \in item.prompts
      <4>1. Answers(Stream, 0, p, before) /\ 1 \in 0 + 1 .. Len(Stream)
        BY <1>5, <3>1 DEF Follows
      <4>2. Quiet(Stream, 0, 1)
        BY DEF Quiet
      <4> QED
        BY <1>13, <4>1, <4>2 DEF Answers
    <3>3. p \in before \/ item.kind = "message" => p \in now
      BY <1>12, <1>14, <2>1, <3>2
    <3>4. Len(Stream) \in Nat \ {0}
      BY <1>4, <1>5
    <3>5. Stream[1].kind # "idle" /\ (p \in before \/ Stream[1].kind = "message" => p \in now)
      BY <1>13, <3>1, <3>3
    <3>6. /\ Answers(Stream, 0, p, before) => Answers(Stream, 1, p, now)
          /\ Owes(Stream, 0, p, before, turn) => Owes(Stream, 1, p, now, turn)
      BY <3>4, <3>5, HeardFollows
    <3>7. Follows(1, p, now)
      BY <3>1, <3>6 DEF Follows
    <3>8. Follows(0, p, now)'
      BY <1>5, <1>8, <3>7
    <3> QED
      BY <1>1, <2>1, <3>8 DEF Follows
  <2>3. CASE ~caller.received
    <3>1. item.kind = "receipt" /\ p \in item.prompts
      BY <1>12, <1>14, <2>1, <2>3
    <3>2. Follows(1, p, {})
      BY <1>5, <1>10, <1>13, <2>1, <3>1 DEF StreamInv, Receives
    <3>3. Follows(1, p, now)
      BY <3>2, AgainFollows DEF Follows
    <3>4. Follows(0, p, now)'
      BY <1>5, <1>8, <3>3
    <3> QED
      BY <1>1, <2>1, <3>4 DEF Follows
  <2> QED
    BY <2>2, <2>3
<1>15. ASSUME caller'.phase = "handoff" PROVE proposals' \in caller'.prompts
  <2>1. item.kind = "idle" /\ caller.received /\ caller'.prompts = caller.prompts
    BY <1>12, <1>15
  <2>2. Answers(Stream, 0, proposals, caller.prompts) /\ 1 \in 0 + 1 .. Len(Stream)
    BY <1>1, <1>5, <2>1 DEF StreamInv, Follows
  <2>3. Quiet(Stream, 0, 1) /\ ~Replied(Stream, 0, 1)
    BY DEF Quiet, Replied
  <2>4. proposals \in caller.prompts
    BY <1>13, <2>1, <2>2, <2>3 DEF Answers
  <2> QED
    BY <1>1, <2>1, <2>4
<1> QED
  BY <1>1, <1>2, <1>9, <1>14, <1>15 DEF StreamInv

\* A caller who does not hear changes nothing of the stream.
LEMMA CallerStream ==
  ASSUME SessionInv, FrameInv, StreamInv, Propose \/ CallerStep \/ TimeOut
  PROVE  StreamInv'
<1> USE DEF runtimeVars, peerVars, threadVars
<1>0. caller \in Caller
  BY DEF SessionInv, SessionTypeOK
<1>1. CASE Hear
  BY <1>1, HearStream
<1>2. ASSUME Propose \/ RecordContext \/ Start \/ Register \/ Write \/ TakeHandoff \/ TimeOut
      PROVE  caller'.phase \notin {"run", "handoff"}
  <2>1. CASE Propose
    BY <1>0, <2>1 DEF Propose, Caller
  <2>2. CASE RecordContext
    BY <1>0, <2>2 DEF RecordContext, Raise, GoesTo, Caller
  <2>3. CASE Start \/ Register \/ Write \/ TakeHandoff \/ TimeOut
    BY <1>0, <2>3 DEF Start, Register, Write, TakeHandoff, TimeOut, Raise, GoesTo, Caller
  <2> QED
    BY <1>2, <2>1, <2>2, <2>3
<1>3. ASSUME Take
      PROVE  caller'.phase # "handoff" /\ ~(caller'.phase = "run" /\ caller'.received)
  <2>1. PICK item \in Item :
          \/ GoesTo("idle")
          \/ caller' = [caller EXCEPT !.phase = "record", !.initialized = TRUE]
          \/ caller' = [caller EXCEPT !.phase = "run", !.message = item.prompt,
                                      !.received = FALSE, !.prompts = {}]
    BY <1>3, TakeFields DEF SessionInv
  <2>2. CASE caller' = [caller EXCEPT !.phase = "run", !.message = item.prompt,
                                      !.received = FALSE, !.prompts = {}]
    BY <1>0, <2>2 DEF Caller
  <2>3. CASE GoesTo("idle") \/ caller' = [caller EXCEPT !.phase = "record", !.initialized = TRUE]
    <3>1. caller'.phase \in {"idle", "record"}
      BY <1>0, <2>3 DEF GoesTo, Caller
    <3> QED
      BY <3>1
  <2> QED
    BY <2>1, <2>2, <2>3
<1>4. CASE Propose \/ RecordContext \/ Register \/ Write \/ Take \/ TakeHandoff \/ TimeOut
  <2>1. UNCHANGED <<process, stdout, turn, reader, stderr, notifications>>
    BY <1>4 DEF Propose, RecordContext, Register, Write, Take, TakeHandoff, TimeOut
  <2>2. Stream' = Stream
    BY <2>1 DEF Stream
  <2> QED
    BY <1>2, <1>3, <1>4, <2>1, <2>2, StreamKept
<1>5. CASE Start
  <2>1. UNCHANGED <<stdout, turn, notifications>>
    BY <1>5 DEF Start
  <2>2. CASE UNCHANGED <<process, reader, stderr>>
    <3>1. Stream' = Stream
      BY <2>1, <2>2 DEF Stream
    <3> QED
      BY <1>2, <1>5, <2>1, <2>2, <3>1, StreamKept
  <2>3. CASE process = "none" /\ process' = "alive"
    <3>1. stdout = <<>> /\ notifications = <<>>
      BY <2>3 DEF StreamInv
    <3>2. Stream' = <<>>
      BY <2>1, <3>1 DEF Stream
    <3>3. \A r \in 1 .. Len(Stream') : FALSE
      BY <3>2
    <3> QED
      BY <1>2, <1>5, <2>3, <3>3 DEF StreamInv
  <2> QED
    BY <1>5, <2>2, <2>3 DEF Start
<1> QED
  BY <1>1, <1>4, <1>5 DEF CallerStep

\* What is proved of the session by induction.
FollowedInv == SessionInv /\ FrameInv /\ StreamInv

\* It holds at the start.
LEMMA FollowedInit == SessionInit => FollowedInv
<1> SUFFICES ASSUME SessionInit PROVE FollowedInv
  OBVIOUS
<1>1. SessionInv /\ FrameInv
  BY SessionTypesInit, FrameInit DEF SessionInv
<1>2. Stream = <<>>
  BY DEF SessionInit, Stream
<1>3. \A r \in 1 .. Len(Stream) : FALSE
  BY <1>2
<1> QED
  BY <1>1, <1>3 DEF FollowedInv, StreamInv, SessionInit

\* And every step keeps it.
LEMMA FollowedStep == FollowedInv /\ [SessionNext]_sessionVars => FollowedInv'
<1> SUFFICES ASSUME FollowedInv, [SessionNext]_sessionVars PROVE FollowedInv'
  OBVIOUS
<1>1. SessionInv' /\ FrameInv'
  BY SessionInductive, FrameStep DEF FollowedInv
<1>2. CASE UNCHANGED sessionVars
  <2>1. Stream' = Stream
    BY <1>2 DEF Stream, sessionVars, runtimeVars, peerVars, threadVars, callerVars
  <2>2. StreamInv'
    BY <1>2, <2>1, StreamKept DEF FollowedInv, sessionVars, runtimeVars, peerVars, threadVars, callerVars
  <2> QED
    BY <1>1, <2>2 DEF FollowedInv
<1>3. CASE SessionNext
  BY <1>1, <1>3, CallerStream, ThreadStream, RuntimeStream DEF SessionNext, FollowedInv
<1> QED
  BY <1>2, <1>3

\* For any number of proposals, the final response of a run answers the prompt of
\* this proposal, whatever answers and notifications of earlier ones are still on
\* their way, and whichever of its threads or of its runtime end (run()).
THEOREM ResponseAnswersItsPrompt == SessionSpec => []AnswersItsPrompt
<1>1. FollowedInv => AnswersItsPrompt
  BY DEF FollowedInv, StreamInv, AnswersItsPrompt
<1> QED
  BY <1>1, FollowedInit, FollowedStep, PTL DEF SessionSpec
==============================================================================
