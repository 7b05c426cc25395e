----------------------------- MODULE DshRuntime -----------------------------
(* One session of the DSH code agent (infrastructure/dsh_code_harness.py):    *)
(* the provider, which makes one proposal at a time through requests to the   *)
(* runtime; the threads that read the runtime's stdout and stderr; and the    *)
(* runtime, a process that answers requests, puts prompts into a turn and     *)
(* tells of its turns by notifications.  A runtime that has ended is never    *)
(* started again.                                                             *)
EXTENDS Naturals, Sequences

CONSTANT MaxProposals      \* a bound: proposals asked for in the session

ASSUME ProposalsAssumption == MaxProposals \in Nat \ {0}

Proposals == 1 .. MaxProposals

\* No proposal makes more than two requests.
Ids == 1 .. 2 * MaxProposals

VARIABLES
  process,        \* the runtime: none, alive or exited
  stdin, stdout,  \* the lines in its pipes
  turn,           \* its requests to answer, its inbox and the turn it is in
  reader,         \* the thread of _read_stdout
  stderr,         \* the thread of _read_stderr
  counter,        \* _counter: the last request's id
  registered,     \* the ids in _responses
  waiter,         \* the queue each request waits on
  notifications,  \* _notifications
  caller,         \* the thread in propose()
  proposals,      \* proposals asked for so far
  manifest        \* session.json of the session's directory

runtimeVars == <<process, stdin, stdout, turn>>
peerVars == <<registered, waiter, notifications>>
threadVars == <<reader, stderr>>
callerVars == <<counter, caller, proposals, manifest>>
sessionVars == <<runtimeVars, peerVars, threadVars, callerVars>>

-----------------------------------------------------------------------------
(* Frames.  A prompt, and the message id it is given, are the proposal's      *)
(* number.                                                                    *)

Methods == {"initialize", "session/prompt"}
Request == [id : Ids, method : Methods, prompt : Proposals]
Response == [kind : {"response"}, id : Ids, ok : BOOLEAN, prompt : Proposals]
Receipt == [kind : {"receipt"}, prompts : SUBSET Proposals]
Message == [kind : {"message"}, prompts : SUBSET Proposals]
Idle == [kind |-> "idle", prompts |-> {}]
Error == [kind |-> "error", prompts |-> {}]
Notification == Receipt \cup Message \cup {Idle}

Answer(r, ok) == [kind |-> "response", id |-> r.id, ok |-> ok, prompt |-> r.prompt]

NoTurn == [owed |-> {}, inbox |-> {}, spliced |-> {}, replied |-> FALSE]
Turn ==
  [owed : SUBSET Request, inbox : SUBSET Proposals, spliced : SUBSET Proposals,
   replied : BOOLEAN]

\* Where propose() is: before a request, about to write it, waiting for its
\* answer, about to record the prompt, in the loop of run(), or with a
\* final response.
Phases == {"idle", "start", "register", "write", "wait", "record", "run", "handoff"}

Caller ==
  [phase : Phases, initialized : BOOLEAN, method : Methods, message : Proposals,
   received : BOOLEAN, prompts : SUBSET Proposals]

SessionInit ==
  /\ process = "none" /\ stdin = <<>> /\ stdout = <<>> /\ turn = NoTurn
  /\ reader = "none" /\ stderr = "none"
  /\ counter = 0 /\ registered = {} /\ waiter = [i \in Ids |-> <<>>]
  /\ notifications = <<>>
  /\ caller = [phase |-> "idle", initialized |-> FALSE, method |-> "initialize",
               message |-> 1, received |-> FALSE, prompts |-> {}]
  /\ proposals = 0
  /\ manifest \in {"absent", "own", "other"}

-----------------------------------------------------------------------------
(* _fail(): whoever waits is told, now or at the next notification.           *)

\* Mutant: the waiters are collected once the table is cleared.
FailedTooLate ==
  /\ registered' = {}
  /\ waiter' = [i \in Ids |-> IF i \in registered' THEN Append(waiter[i], Error) ELSE waiter[i]]
  /\ notifications' = Append(notifications, Error)

\* Mutant: the loop of run() is not told.
FailedWaiters ==
  /\ registered' = {}
  /\ waiter' = [i \in Ids |-> IF i \in registered THEN Append(waiter[i], Error) ELSE waiter[i]]
  /\ UNCHANGED notifications
Fail ==
  /\ registered' = {}
  /\ waiter' = [i \in Ids |-> IF i \in registered THEN Append(waiter[i], Error) ELSE waiter[i]]
  /\ notifications' = Append(notifications, Error)

-----------------------------------------------------------------------------
(* propose(), run() and request()                                             *)

GoesTo(phase) == caller' = [caller EXCEPT !.phase = phase]

\* DshRuntimeError: the proposal fails; a later one has the same session.
Raise == GoesTo("idle")

Propose ==
  /\ caller.phase = "idle" /\ proposals < MaxProposals
  /\ proposals' = proposals + 1
  /\ caller' = [caller EXCEPT
       !.phase = IF caller.initialized THEN "record" ELSE "start",
       !.method = "initialize"]
  /\ UNCHANGED <<runtimeVars, peerVars, threadVars, counter, manifest>>

\* _record_session_context(): a directory of another run is refused.
RecordContext ==
  /\ caller.phase = "record"
  /\ IF manifest = "other"
     THEN Raise /\ UNCHANGED manifest
     ELSE /\ caller' = [caller EXCEPT !.phase = "start", !.method = "session/prompt"]
          /\ manifest' = "own"
  /\ UNCHANGED <<runtimeVars, peerVars, threadVars, counter, proposals>>

\* start(): the runtime is launched if it never was, which may fail.
Start ==
  /\ caller.phase = "start"
  /\ \/ /\ process = "none" /\ GoesTo("register")
        /\ process' = "alive" /\ reader' = "reading" /\ stderr' = "reading"
     \/ /\ process \in {"none", "exited"} /\ Raise /\ UNCHANGED <<process, threadVars>>
     \/ /\ process = "alive" /\ GoesTo("register") /\ UNCHANGED <<process, threadVars>>
  /\ UNCHANGED <<stdin, stdout, turn, peerVars, counter, proposals, manifest>>

\* Mutant: a request that got no answer leaves its id to the next one.
NextOrSameId == IF counter \in registered THEN counter ELSE counter + 1
NextId == counter + 1

Register ==
  /\ caller.phase = "register"
  /\ counter' = NextId
  /\ registered' = registered \cup {NextId}
  /\ waiter' = [waiter EXCEPT ![NextId] = <<>>]
  /\ GoesTo("write")
  /\ UNCHANGED <<runtimeVars, notifications, threadVars, proposals, manifest>>

Write ==
  /\ caller.phase = "write"
  /\ IF process = "exited"
     THEN registered' = registered \ {counter} /\ Raise /\ UNCHANGED stdin
     ELSE /\ stdin' = Append(stdin, [id |-> counter, method |-> caller.method, prompt |-> proposals])
          /\ GoesTo("wait") /\ UNCHANGED registered
  /\ UNCHANGED <<process, stdout, turn, waiter, notifications, threadVars, counter, proposals, manifest>>

\* The answer to the request, an error response, or the end of the reader.
Take ==
  /\ caller.phase = "wait" /\ waiter[counter] # <<>>
  /\ LET item == Head(waiter[counter]) IN
       IF item.kind = "error" THEN Raise
       ELSE IF ~item.ok THEN Raise
       ELSE IF caller.method = "initialize"
       THEN caller' = [caller EXCEPT !.phase = "record", !.initialized = TRUE]
       ELSE caller' = [caller EXCEPT !.phase = "run", !.message = item.prompt,
                                     !.received = FALSE, !.prompts = {}]
  /\ waiter' = [waiter EXCEPT ![counter] = Tail(@)]
  /\ UNCHANGED <<runtimeVars, registered, notifications, threadVars, counter, proposals, manifest>>

\* With a request_timeout_seconds the wait may end before; the request stands.
TimeOut ==
  /\ caller.phase = "wait" /\ waiter[counter] = <<>>
  /\ Raise
  /\ UNCHANGED <<runtimeVars, peerVars, threadVars, counter, proposals, manifest>>

\* Mutant: any idle status ends the run.
EndsRunAtIdle(item) == item.kind = "idle"
EndsRun(item) == item.kind = "idle" /\ caller.received

\* One notification of the session; the last message is the final response.
Hear ==
  /\ caller.phase = "run" /\ notifications # <<>>
  /\ LET item == Head(notifications) IN
       IF item.kind = "error" THEN Raise
       ELSE IF EndsRun(item) THEN GoesTo("handoff")
       ELSE caller' = [caller EXCEPT
              !.received = @ \/ (item.kind = "receipt" /\ caller.message \in item.prompts),
              !.prompts = IF item.kind = "message" THEN item.prompts ELSE @]
  /\ notifications' = Tail(notifications)
  /\ UNCHANGED <<runtimeVars, registered, waiter, threadVars, counter, proposals, manifest>>

\* The handoff names a source the agent wrote, or is refused: either way the
\* call is over.
TakeHandoff ==
  /\ caller.phase = "handoff" /\ GoesTo("idle")
  /\ UNCHANGED <<runtimeVars, peerVars, threadVars, counter, proposals, manifest>>

CallerStep ==
  \/ RecordContext \/ Start \/ Register \/ Write \/ Take \/ Hear \/ TakeHandoff

-----------------------------------------------------------------------------
(* _read_stdout(), _read_stderr() *)

\* Mutant: the request stays in the table when it is answered.
LeftRegistered(id) == registered
Unregistered(id) == registered \ {id}

Read ==
  /\ reader = "reading" /\ stdout # <<>>
  /\ LET frame == Head(stdout) IN
       IF frame.kind = "response"
       THEN /\ registered' = Unregistered(frame.id)
            /\ waiter' = IF frame.id \in registered
                         THEN [waiter EXCEPT ![frame.id] = Append(@, frame)] ELSE waiter
            /\ UNCHANGED notifications
       ELSE notifications' = Append(notifications, frame) /\ UNCHANGED <<registered, waiter>>
  /\ stdout' = Tail(stdout)
  /\ UNCHANGED <<process, stdin, turn, threadVars, callerVars>>

\* The event sink could not write a line.
ReaderFails ==
  /\ reader = "reading" /\ stdout # <<>>
  /\ stdout' = Tail(stdout)
  /\ reader' = "failing" /\ Fail
  /\ UNCHANGED <<process, stdin, turn, stderr, callerVars>>

\* The finally of _read_stdout(), at the end of the stream or after a failure.
ReaderEnds ==
  /\ \/ reader = "failing"
     \/ reader = "reading" /\ stdout = <<>> /\ process = "exited"
  /\ reader' = "gone" /\ Fail
  /\ UNCHANGED <<runtimeVars, stderr, callerVars>>

ReaderStep == Read \/ ReaderEnds

StderrFails ==
  /\ stderr = "reading" /\ stderr' = "gone" /\ Fail
  /\ UNCHANGED <<runtimeVars, reader, callerVars>>

-----------------------------------------------------------------------------
(* The runtime: not in this repository.  It answers each request once, and a  *)
(* turn into which a prompt was put has a message after that before it ends.  *)

Tells(frame) == stdout' = Append(stdout, frame)

Accept ==
  /\ process = "alive" /\ stdin # <<>>
  /\ LET r == Head(stdin) IN
       turn' = [turn EXCEPT !.owed = @ \cup {r},
                            !.inbox = IF r.method = "initialize" THEN @ ELSE @ \cup {r.prompt}]
  /\ stdin' = Tail(stdin)
  /\ UNCHANGED <<process, stdout, peerVars, threadVars, callerVars>>

Refuse ==
  /\ process = "alive" /\ stdin # <<>>
  /\ stdin' = Tail(stdin) /\ Tells(Answer(Head(stdin), FALSE))
  /\ UNCHANGED <<process, turn, peerVars, threadVars, callerVars>>

Respond ==
  /\ process = "alive"
  /\ \E r \in turn.owed : turn' = [turn EXCEPT !.owed = @ \ {r}] /\ Tells(Answer(r, TRUE))
  /\ UNCHANGED <<process, stdin, peerVars, threadVars, callerVars>>

Splice ==
  /\ process = "alive" /\ turn.inbox # {}
  /\ turn' = [turn EXCEPT !.inbox = {}, !.spliced = @ \cup turn.inbox, !.replied = FALSE]
  /\ Tells([kind |-> "receipt", prompts |-> turn.inbox])
  /\ UNCHANGED <<process, stdin, peerVars, threadVars, callerVars>>

Reply ==
  /\ process = "alive" /\ turn.spliced # {} /\ ~turn.replied
  /\ turn' = [turn EXCEPT !.replied = TRUE]
  /\ Tells([kind |-> "message", prompts |-> turn.spliced])
  /\ UNCHANGED <<process, stdin, peerVars, threadVars, callerVars>>

GoIdle ==
  /\ process = "alive" /\ turn.replied
  /\ turn' = [turn EXCEPT !.spliced = {}, !.replied = FALSE]
  /\ Tells(Idle)
  /\ UNCHANGED <<process, stdin, peerVars, threadVars, callerVars>>

Exit ==
  /\ process = "alive" /\ process' = "exited"
  /\ UNCHANGED <<stdin, stdout, turn, peerVars, threadVars, callerVars>>

RuntimeStep == Accept \/ Refuse \/ Respond \/ Splice \/ Reply \/ GoIdle

-----------------------------------------------------------------------------

SessionNext ==
  \/ Propose \/ CallerStep \/ TimeOut
  \/ ReaderStep \/ ReaderFails \/ StderrFails
  \/ RuntimeStep \/ Exit

\* The threads of the provider run; the runtime may hang or end.
SessionSpec ==
  SessionInit /\ [][SessionNext]_sessionVars /\ WF_sessionVars(CallerStep) /\ WF_sessionVars(ReaderStep)

-----------------------------------------------------------------------------
(* Properties *)

\* The variables keep their domains; a waiter's queue has room for one item
\* (Queue(maxsize=1)), so a second put would hold its thread for good.
SessionTypeOK ==
  /\ process \in {"none", "alive", "exited"}
  /\ stdin \in Seq(Request)
  /\ stdout \in Seq(Response \cup Notification)
  /\ turn \in Turn
  /\ reader \in {"none", "reading", "failing", "gone"}
  /\ stderr \in {"none", "reading", "gone"}
  /\ counter \in 0 .. 2 * MaxProposals
  /\ registered \subseteq Ids
  /\ waiter \in [Ids -> {<<>>} \cup {<<item>> : item \in Response \cup {Error}}]
  /\ notifications \in Seq(Notification \cup {Error})
  /\ caller \in Caller
  /\ proposals \in 0 .. MaxProposals
  /\ manifest \in {"absent", "own", "other"}

\* While the reader is there to tell, a caller that waits has an item or is in
\* the table the reader and _fail() look in: no answer and no end is missed
\* (request(), _read_stdout(), _fail()).
WaiterIsKnown ==
  caller.phase = "wait" /\ reader = "reading" =>
    waiter[counter] # <<>> \/ counter \in registered

\* The final response of a run answers the prompt of this proposal, whatever
\* answers and notifications of earlier ones are still on their way (run()).
AnswersItsPrompt == caller.phase = "handoff" => proposals \in caller.prompts

\* A caller does not outwait the runtime: once it has exited, with a thread
\* there to notice, the call ends (the finally of _read_stdout()).
ExitIsNoticed == process = "exited" /\ reader = "reading" ~> caller.phase = "idle"
=============================================================================
