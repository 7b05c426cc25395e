------------------------- MODULE SolveProblemProofs -------------------------
(* Proofs about SolveProblem, for any jobs, sources, commands, attempts,      *)
(* iterations and crashes.                                                    *)
EXTENDS SolveProblem, TLAPS, SequenceTheorems, FiniteSetTheorems, WellFoundedInduction

-----------------------------------------------------------------------------
(* Vocabulary *)

Found == {NoEvidence} \cup {{e} : e \in Evidence}
Context == [cursor : Nat, instructions : Seq(Batches), allow : SUBSET Paths]
Round ==
  [iteration : Iterations, start : Iterations, resumed : BOOLEAN,
   contract : 0 .. MaxCalls, evidence : Found, decision : Decisions, asked : Targets,
   unified : {FALSE}]
Ended == {"completed", "failed", "blocked", "raised"}
Marks == {"none", "running"} \cup Ended
USE DEF Ended, Marks
Report ==
  [status : Marks,
   rounds : Seq(Snapshots), allow : SUBSET Paths, call : 0 .. MaxCalls]

\* No number is past the place of its command.
CommandTypes ==
  /\ commands \in Seq(Commands) /\ Len(commands) \in 0 .. MaxCommands
  /\ \A n \in 1 .. Len(commands) : commands[n].number \in 1 .. n
MemoryTypes ==
  /\ ctx \in Context
  /\ round \in Round /\ round.contract \in 0 .. call
  /\ rounds \in Seq(Snapshots)
\* The exchange files when that many calls were begun.
Archives(calls) == [Paths -> 0 .. calls \cup {Overwritten}]

FileTypes ==
  /\ archive \in Archives(call)
  /\ results \in [Attempts -> Report]
  /\ \A a \in Attempts : results[a].call \in 0 .. call
  /\ saved \subseteq Attempts

\* A script that is run has been written.
LaneSound ==
  /\ LaneTypeOK
  /\ agent.phase \in {"accepting", "accepted"} => source[agent.script] # NoSource

\* Past the last iteration there is no next one, and no attempt past the last
\* one is dispatched.
CallTypes ==
  /\ stage \in Stages /\ call \in 0 .. MaxCalls
  /\ record \in [status : {"ready"} \cup Marks, attempts : 0 .. MaxAttempts]
  /\ stage # "idle" => Attempt \in Attempts
  /\ stage = "next" => round.iteration < Limit

Types == LaneSound /\ CommandTypes /\ CallTypes /\ MemoryTypes /\ FileTypes

\* The bounds as numbers, from the assumptions on the constants.
LEMMA Numbers ==
  /\ MaxCommands \in Nat /\ MaxCalls \in Nat \ {0} /\ MaxAttempts \in Nat \ {0}
  /\ MaxWrites \in Nat /\ Limit \in Nat \ {0}
  /\ Iterations = 1 .. Limit /\ Attempts = 1 .. MaxAttempts
  /\ 1 \in Iterations /\ FirstLane \in Lanes /\ ResumeFrom \subseteq Iterations /\ Reviews \subseteq Decisions
BY MaxCommandsAssumption, LaneAssumption, CallAssumption
   DEF Limit, MAX_REVISION_ROUNDS, Iterations, Attempts, Lanes, FirstLane

\* What a round may have found.
LEMMA FoundParts ==
  /\ NoEvidence \in Found
  /\ \A e \in Evidence : {e} \in Found
  /\ \A f \in Found : f \subseteq Evidence
BY DEF Found, NoEvidence

\* The type of a snapshot, with Found by its name.
LEMMA SnapshotsAre ==
  Snapshots = [iteration : Iterations, contract : 0 .. MaxCalls, evidence : Found,
               decision : Decisions, unified : BOOLEAN]
BY DEF Snapshots, Found

\* An idle agent has the type of agents.
LEMMA IdleAgentType ==
  ASSUME NEW lane \in Lanes
  PROVE  IdleAgent(lane) \in
           [phase : Phases, lane : Lanes, script : Lanes,
            held : SUBSET (Sources \cup {NoSource}), job : Jobs \cup {NoJob},
            tool : {"execute", "continue"}, ran : Sources \cup {NoSource},
            evidence : Found]
BY FoundParts DEF IdleAgent, Phases

\* What a round begins with.
LEMMA Defaults == "revise" \in Decisions /\ "code" \in Targets
BY DEF Decisions, Targets

\* The types hold before the first dispatch.
LEMMA TypesInit == Init => Types
<1> SUFFICES ASSUME Init PROVE Types
  OBVIOUS
<1>1. LaneSound
  <2>1. agent = IdleAgent(FirstLane)
    BY DEF Init, LaneInit
  <2>2. outputs \in [Lanes -> 0 .. MaxWrites] /\ source \in [Lanes -> Sources \cup {NoSource}]
    BY Numbers DEF Init, LaneInit
  <2>3. jobs \in [Jobs -> [state : JobStates, lane : Lanes, known : BOOLEAN]]
    BY Numbers DEF Init, LaneInit, NoProcess, JobStates
  <2>4. QED BY <2>1, <2>2, <2>3, Numbers, IdleAgentType DEF LaneSound, LaneTypeOK, Found, IdleAgent
<1>2. CommandTypes
  BY Numbers DEF Init, NoCommands, CommandTypes
<1>3. CallTypes
  BY Numbers DEF Init, CallTypes, Stages
<1>4. MemoryTypes
  <2>1. NewContext \in Context /\ NewContext.cursor = 0
    BY DEF NewContext, Context
  <2>2. NewRound(1, FALSE) \in Round /\ NewRound(1, FALSE).contract = 0
    BY Numbers, FoundParts, Defaults DEF NewRound, Round
  <2>3. call = 0 /\ rounds \in Seq(Snapshots)
    BY DEF Init
  <2>4. ctx = NewContext /\ round = NewRound(1, FALSE)
    BY DEF Init
  <2>5. 0 \in 0 .. call
    BY <2>3
  <2>6. QED BY <2>1, <2>2, <2>3, <2>4, <2>5 DEF MemoryTypes
<1>5. FileTypes
  <2>1. NoReport \in Report /\ NoReport.call = 0
    BY Numbers DEF NoReport, Report
  <2>2. QED BY <2>1, Numbers DEF Init, FileTypes, Archives
<1>6. QED BY <1>1, <1>2, <1>3, <1>4, <1>5 DEF Types

-----------------------------------------------------------------------------
(* Types: the code lane *)

Agents ==
  [phase : Phases, lane : Lanes, script : Lanes,
   held : SUBSET (Sources \cup {NoSource}), job : Jobs \cup {NoJob},
   tool : {"execute", "continue"}, ran : Sources \cup {NoSource}, evidence : Found]
Processes == [state : JobStates, lane : Lanes, known : BOOLEAN]

\* The type invariant of the code lane, variable by variable.
LEMMA LaneTypesAre ==
  LaneTypeOK <=>
    /\ agent \in Agents /\ source \in [Lanes -> Sources \cup {NoSource}]
    /\ outputs \in [Lanes -> 0 .. MaxWrites] /\ jobs \in [Jobs -> Processes]
BY DEF LaneTypeOK, Agents, Processes, Found

\* A free job has the type of processes.
LEMMA NoProcessType == NoProcess \in Processes
BY Numbers DEF NoProcess, Processes, JobStates

\* What a tool does to the agent.
LEMMA ReportsTypes ==
  ASSUME LaneTypeOK, NEW failed \in BOOLEAN, Reports(failed)
  PROVE  agent' \in Agents
<1>1. agent \in Agents
  BY LaneTypesAre
<1>2. (IF agent.tool # "execute" THEN agent.held
       ELSE IF failed THEN {agent.ran} ELSE {}) \in SUBSET (Sources \cup {NoSource})
  BY <1>1 DEF Agents
<1>3. QED BY <1>1, <1>2 DEF Reports, Agents, Phases

\* A tool of the agent, or a step of its harness.
LEMMA AgentTypes ==
  ASSUME LaneSound, AgentStep
  PROVE  LaneSound'
<1> DEFINE HasSource == agent.phase \in {"accepting", "accepted"} => source[agent.script] # NoSource
<1>1. /\ agent \in Agents /\ source \in [Lanes -> Sources \cup {NoSource}]
      /\ outputs \in [Lanes -> 0 .. MaxWrites] /\ jobs \in [Jobs -> Processes]
  BY LaneTypesAre DEF LaneSound
<1> SUFFICES
      /\ agent' \in Agents /\ source' \in [Lanes -> Sources \cup {NoSource}]
      /\ outputs' \in [Lanes -> 0 .. MaxWrites] /\ jobs' \in [Jobs -> Processes]
      /\ HasSource'
  BY DEF LaneSound, LaneTypeOK, Agents, Processes, Found
<1>w. HasSource
  BY DEF LaneSound
<1>2. ASSUME NEW s \in Sources, WriteSource(s) \/ AppendSource(s)
      PROVE  /\ source' \in [Lanes -> Sources \cup {NoSource}] /\ UNCHANGED <<agent, outputs, jobs>>
             /\ HasSource'
  BY <1>1, <1>2 DEF WriteSource, AppendSource, Here, Proposing, Agents
<1>3. ASSUME NEW j \in Jobs, PythonExecute(j)
      PROVE  agent' \in Agents /\ jobs' \in [Jobs -> Processes] /\ UNCHANGED <<source, outputs>> /\ HasSource'
  <2>1. [state |-> "running", lane |-> Here, known |-> TRUE] \in Processes
    BY <1>1 DEF Processes, JobStates, Here, Agents
  <2>2. source[Here] \in Sources \cup {NoSource}
    BY <1>1 DEF Here, Agents
  <2>3. QED BY <1>1, <1>3, <2>1, <2>2 DEF PythonExecute, Agents, Phases
<1>4. ASSUME NEW j \in Jobs, PythonContinue(j) \/ PythonCancel(j)
      PROVE  agent' \in Agents /\ jobs' \in [Jobs -> Processes] /\ UNCHANGED <<source, outputs>> /\ HasSource'
  <2>1. CASE PythonContinue(j)
    BY <1>1, <2>1 DEF PythonContinue, Proposing, Agents, Phases
  <2>2. CASE PythonCancel(j)
    BY <1>1, <2>2, NoProcessType DEF PythonCancel, Proposing
  <2>3. QED BY <1>4, <2>1, <2>2
<1>5. ASSUME SoftCheckpoint
      PROVE  agent' \in Agents /\ UNCHANGED <<source, outputs, jobs>> /\ HasSource'
  BY <1>1, <1>5, ReportsTypes DEF LaneSound, SoftCheckpoint, Reports, Agents
<1>6. ASSUME JobReturns
      PROVE  agent' \in Agents /\ jobs' \in [Jobs -> Processes] /\ UNCHANGED <<source, outputs>> /\ HasSource'
  BY <1>1, <1>6, ReportsTypes, NoProcessType DEF LaneSound, JobReturns, Reports, Agents
<1>7. ASSUME NEW l \in Lanes, Handoff(l)
      PROVE  agent' \in Agents /\ UNCHANGED <<source, outputs, jobs>> /\ HasSource'
  <2>1. IdleAgent(Here) \in Agents
    BY <1>1, IdleAgentType DEF Agents, Here
  <2>2. agent' \in Agents /\ agent'.script = l
    BY <1>7, <2>1 DEF Handoff, Agents, Phases
  <2>3. QED BY <1>7, <2>2 DEF Handoff
<1>8. ASSUME AcceptanceRuns
      PROVE  agent' \in Agents /\ UNCHANGED <<source, outputs, jobs>> /\ HasSource'
  BY <1>1, <1>w, <1>8 DEF AcceptanceRuns, Agents, Phases
<1>9. ASSUME EvidenceIsTaken
      PROVE  agent' \in Agents /\ UNCHANGED <<source, outputs, jobs>> /\ HasSource'
  <2>1. [lane |-> agent.script, source |-> source[agent.script],
         outputs |-> outputs[agent.script]] \in Evidence
    BY <1>1, <1>w, <1>9 DEF EvidenceIsTaken, Evidence, Agents
  <2>2. QED BY <1>1, <1>9, <2>1, FoundParts DEF EvidenceIsTaken, Agents, Phases
<1>10. ASSUME AgentFails \/ InterruptCode
       PROVE  agent' \in Agents /\ UNCHANGED <<source, outputs, jobs>> /\ HasSource'
  BY <1>1, <1>10, FoundParts DEF AgentFails, InterruptCode, Agents, Phases
<1>11. QED
  BY <1>1, <1>w, <1>2, <1>3, <1>4, <1>5, <1>6, <1>7, <1>8, <1>9, <1>10 DEF AgentStep

\* The agent is set to work, or idle.
LEMMA IdleTypes ==
  ASSUME LaneTypeOK, NEW lane \in Lanes, UNCHANGED <<source, outputs, jobs>>,
         agent' = IdleAgent(lane) \/ agent' = [IdleAgent(lane) EXCEPT !.phase = "proposing"]
  PROVE  LaneSound'
<1>1. IdleAgent(lane) \in Agents
  BY IdleAgentType DEF Agents
<1>2. agent' \in Agents /\ agent'.phase \notin {"accepting", "accepted"}
  BY <1>1 DEF Agents, IdleAgent, Phases
<1>3. QED BY <1>2 DEF LaneSound, LaneTypeOK, Agents, Found

\* A job exits, or the process that started it ends.
LEMMA JobTypes ==
  ASSUME LaneSound, JobStep \/ LaneCrash
  PROVE  LaneSound'
<1>1. /\ agent \in Agents /\ source \in [Lanes -> Sources \cup {NoSource}]
      /\ outputs \in [Lanes -> 0 .. MaxWrites] /\ jobs \in [Jobs -> Processes]
  BY LaneTypesAre DEF LaneSound
<1>3. ASSUME NEW j \in Jobs, NEW state \in JobStates, JobExits(j, state)
      PROVE  jobs' \in [Jobs -> Processes] /\ UNCHANGED <<agent, source, outputs>>
  <2>1. [jobs[j] EXCEPT !.state = state] \in Processes
    BY <1>1 DEF Processes
  <2>2. jobs' = [jobs EXCEPT ![j] = IF jobs[j].known THEN [jobs[j] EXCEPT !.state = state]
                                                    ELSE NoProcess]
    BY <1>3 DEF JobExits
  <2>3. QED BY <1>1, <1>3, <2>1, <2>2, NoProcessType DEF JobExits
<1>4. ASSUME LaneCrash
      PROVE  /\ jobs' \in [Jobs -> Processes] /\ agent' = IdleAgent(FirstLane)
             /\ UNCHANGED <<source, outputs>>
  <2>1. [NoProcess EXCEPT !.state = "running"] \in Processes
    BY NoProcessType DEF Processes, JobStates
  <2>2. ASSUME CancelPythonJobs PROVE jobs' \in [Jobs -> Processes]
    BY <1>1, <2>2, NoProcessType DEF CancelPythonJobs
  <2>3. ASSUME AbandonPythonJobs PROVE jobs' \in [Jobs -> Processes]
    BY <1>1, <2>1, <2>3, NoProcessType DEF AbandonPythonJobs
  <2>4. QED BY <1>4, <2>2, <2>3 DEF LaneCrash
<1>5. CASE JobStep
  BY <1>1, <1>3, <1>5 DEF JobStep, LaneSound, LaneTypeOK, Agents, Processes, Found
<1>6. CASE LaneCrash
  <2>1. agent' \in Agents /\ agent'.phase = "idle"
    BY <1>4, <1>6, Numbers, IdleAgentType DEF Agents, IdleAgent
  <2>2. QED BY <1>1, <1>4, <1>6, <2>1 DEF LaneSound, LaneTypeOK, Agents, Processes, Found
<1>7. QED BY <1>5, <1>6

\* Generated code writes: a source that is written over was there.
LEMMA WritesTypes ==
  ASSUME LaneSound, ScriptWrites
  PROVE  /\ LaneSound' /\ UNCHANGED <<agent, jobs>>
         /\ \A l \in Lanes : source[l] = NoSource => source'[l] = NoSource
<1>1. /\ agent \in Agents /\ source \in [Lanes -> Sources \cup {NoSource}]
      /\ outputs \in [Lanes -> 0 .. MaxWrites] /\ jobs \in [Jobs -> Processes]
      /\ agent.phase \in {"accepting", "accepted"} => source[agent.script] # NoSource
      /\ UNCHANGED <<agent, jobs>>
  BY LaneTypesAre DEF LaneSound, ScriptWrites
<1>2. ASSUME NEW l \in Lanes, outputs[l] < MaxWrites, outputs' = [outputs EXCEPT ![l] = @ + 1]
      PROVE  outputs' \in [Lanes -> 0 .. MaxWrites]
  BY <1>1, <1>2, Numbers
<1>3. ASSUME NEW l \in Lanes, NEW s \in Sources, source[l] # NoSource,
             source' = [source EXCEPT ![l] = s]
      PROVE  /\ source' \in [Lanes -> Sources \cup {NoSource}]
             /\ \A m \in Lanes : source[m] # NoSource <=> source'[m] # NoSource
  BY <1>1, <1>3, LaneAssumption
<1>4. /\ outputs' \in [Lanes -> 0 .. MaxWrites] /\ source' \in [Lanes -> Sources \cup {NoSource}]
      /\ \A m \in Lanes : source[m] # NoSource <=> source'[m] # NoSource
  <2>1. CASE \E l \in Lanes : /\ outputs[l] < MaxWrites /\ outputs' = [outputs EXCEPT ![l] = @ + 1]
                             /\ UNCHANGED source
    BY <1>1, <1>2, <2>1
  <2>2. CASE \E l \in Lanes : /\ source[l] # NoSource /\ UNCHANGED outputs
                             /\ \E s \in Sources : source' = [source EXCEPT ![l] = s]
    BY <1>1, <1>3, <2>2
  <2> QED BY <2>1, <2>2 DEF ScriptWrites
<1>5. agent.script \in Lanes
  BY <1>1 DEF Agents
<1> QED
  BY <1>1, <1>4, <1>5 DEF LaneSound, LaneTypeOK, Agents, Processes, Found

-----------------------------------------------------------------------------
(* Types: what the steps of a call are made of                                *)

\* A nonempty set of bounded numbers has a greatest one.
LEMMA MaxOf ==
  ASSUME NEW k \in Nat, NEW S, S \subseteq 0 .. k, S # {}
  PROVE  Max(S) \in S /\ \A i \in S : i <= Max(S)
<1> DEFINE T == {k - i : i \in S}
<1>1. T \subseteq Nat /\ T # {}
  OBVIOUS
<1>2. PICK n \in T : \A m \in T : n <= m
  <2> HIDE DEF T
  <2>1. PICK x \in T : \A y \in T : ~ (<<y, x>> \in OpToRel(<, Nat))
    BY <1>1, NatLessThanWellFounded, WFMin
  <2>2. \A y \in T : ~ (y < x)
    BY <1>1, <2>1 DEF OpToRel
  <2> QED BY <1>1, <2>2
<1>3. PICK j \in S : n = k - j
  BY <1>2
<1>4. \A i \in S : j >= i
  <2> TAKE i \in S
  <2>1. k - i \in T /\ i \in Nat /\ j \in Nat
    OBVIOUS
  <2>2. n <= k - i
    <3> HIDE DEF T
    <3> QED BY <1>2, <2>1
  <2> QED BY <1>3, <2>1, <2>2
<1>5. \E x \in S : \A y \in S : x >= y
  BY <1>4
<1>6. Max(S) \in S /\ \A y \in S : Max(S) >= y
  BY <1>5 DEF Max
<1> QED
  BY <1>6

\* The commands of the file and those past a cursor.
LEMMA PendingFacts ==
  ASSUME Types
  PROVE  /\ Len(commands) \in Nat /\ DOMAIN commands = 1 .. Len(commands)
         /\ \A n \in 1 .. Len(commands) : commands[n].number \in Nat /\ commands[n].number \in 1 .. n
         /\ ctx \in Context /\ ctx.cursor \in Nat /\ Pending(ctx.cursor) \subseteq 1 .. Len(commands)
         /\ Pending(ctx.cursor) # {} =>
              LET last == Max(Numbered(Pending(ctx.cursor))) IN
              /\ last \in Nat
              /\ \E n \in Pending(ctx.cursor) : last = commands[n].number
              /\ \A n \in Pending(ctx.cursor) : commands[n].number <= last
<1>1. /\ Len(commands) \in Nat /\ DOMAIN commands = 1 .. Len(commands)
      /\ \A n \in 1 .. Len(commands) : commands[n].number \in 1 .. n
      /\ ctx \in Context /\ ctx.cursor \in Nat
  BY LenProperties DEF Types, CommandTypes, MemoryTypes, Context
<1>2. Pending(ctx.cursor) \subseteq 1 .. Len(commands)
  BY <1>1 DEF Pending
<1> DEFINE numbers == Numbered(Pending(ctx.cursor))
<1>3. ASSUME Pending(ctx.cursor) # {}
      PROVE  numbers \subseteq 0 .. Len(commands) /\ numbers # {}
  BY <1>1, <1>2, <1>3 DEF Numbered
<1>4. ASSUME Pending(ctx.cursor) # {}
      PROVE  Max(numbers) \in numbers /\ \A i \in numbers : i <= Max(numbers)
  <2> HIDE DEF numbers
  <2> QED BY <1>1, <1>3, <1>4, MaxOf
<1>5. ASSUME Pending(ctx.cursor) # {}
      PROVE  /\ Max(numbers) \in Nat
             /\ \E n \in Pending(ctx.cursor) : Max(numbers) = commands[n].number
             /\ \A n \in Pending(ctx.cursor) : commands[n].number <= Max(numbers)
  <2>1. PICK n \in Pending(ctx.cursor) : Max(numbers) = commands[n].number
    BY <1>4, <1>5 DEF Numbered
  <2>2. \A m \in Pending(ctx.cursor) : commands[m].number \in numbers
    BY DEF Numbered
  <2> HIDE DEF numbers
  <2> QED BY <1>1, <1>2, <1>4, <1>5, <2>1, <2>2
<1> QED
  BY <1>1, <1>2, <1>5

\* A batch of suggestions, or of a review.
LEMMA BatchTypes ==
  /\ \A places \in SUBSET Nat : CommandBatch(places) \in Batches
  /\ \A i \in Nat : ReviewBatch(i) \in Batches
BY DEF CommandBatch, ReviewBatch, Batches

\* A checkpoint moves the cursor to the greatest number there is.
LEMMA ConsumedTypes ==
  ASSUME Types
  PROVE  Consumed \in Context /\ Consumed.allow = ctx.allow
<1>1. /\ ctx \in Context /\ Pending(ctx.cursor) \in SUBSET Nat
      /\ Pending(ctx.cursor) # {} => Max(Numbered(Pending(ctx.cursor))) \in Nat
  BY PendingFacts
<1>2. CommandBatch(Pending(ctx.cursor)) \in Batches
  BY <1>1, BatchTypes
<1>3. CASE Pending(ctx.cursor) = {}
  BY <1>1, <1>3 DEF Consumed
<1>4. CASE Pending(ctx.cursor) # {}
  <2>1. Append(ctx.instructions, CommandBatch(Pending(ctx.cursor))) \in Seq(Batches)
    BY <1>1, <1>2 DEF Context
  <2> QED BY <1>1, <1>4, <2>1 DEF Consumed, Context
<1>5. QED BY <1>3, <1>4

\* A call returns.
LEMMA ReturnTypes ==
  ASSUME Types, stage # "idle", NEW allowed \in SUBSET Paths, NEW snapshots \in Seq(Snapshots),
         NEW status \in Ended,
         Return(status, allowed, snapshots), UNCHANGED call
  PROVE  /\ stage' = "persist"
         /\ results' \in [Attempts -> Report]
         /\ \A a \in Attempts : results'[a].call \in 0 .. call'
         /\ \A a \in Attempts : a # Attempt => results'[a] = results[a]
         /\ results'[Attempt] = [status |-> status, rounds |-> snapshots,
                                 allow |-> allowed, call |-> call]
<1>1. /\ Attempt \in Attempts /\ call \in 0 .. MaxCalls /\ results \in [Attempts -> Report]
      /\ \A a \in Attempts : results[a].call \in 0 .. call
  BY DEF Types, CallTypes, FileTypes
<1>2. [status |-> status, rounds |-> snapshots, allow |-> allowed, call |-> call] \in Report
  BY <1>1 DEF Report
<1>3. /\ \A a \in Attempts : a # Attempt => results'[a] = results[a]
      /\ results'[Attempt] = [status |-> status, rounds |-> snapshots, allow |-> allowed, call |-> call]
      /\ results' \in [Attempts -> Report]
  BY <1>1, <1>2 DEF Return
<1>4. QED BY <1>1, <1>3, Numbers DEF Return

\* An exchange file is written and named to the next reader.
LEMMA ArchiveTypes ==
  ASSUME Types, stage # "idle", NEW name \in Names, ArchiveAs(name), UNCHANGED call
  PROVE  /\ Archived(name) \in Paths
         /\ archive' \in Archives(call') /\ archive'[Archived(name)] = call
         /\ \A p \in Paths : p # Archived(name) => archive'[p] = archive[p]
         /\ ctx' \in Context /\ ctx'.cursor = ctx.cursor /\ ctx'.instructions = ctx.instructions
         /\ ctx'.allow = ctx.allow \cup {Archived(name)}
<1>1. /\ Attempt \in Attempts /\ call \in 0 .. MaxCalls /\ archive \in Archives(call)
      /\ ctx \in Context /\ round.iteration \in Iterations
  BY DEF Types, CallTypes, FileTypes, MemoryTypes, Round
<1>2. Archived(name) \in Paths
  BY <1>1 DEF Archived, Paths
<1>3. call \in 0 .. call
  BY <1>1, Numbers
<1>4. archive' \in Archives(call') /\ archive'[Archived(name)] = call
  BY <1>1, <1>2, <1>3 DEF ArchiveAs, Archives
<1>5. \A p \in Paths : p # Archived(name) => archive'[p] = archive[p]
  BY <1>1, <1>2 DEF ArchiveAs, Archives
<1>6. QED BY <1>1, <1>2, <1>4, <1>5 DEF ArchiveAs, Context

-----------------------------------------------------------------------------
(* Types: the steps of a call                                                 *)

\* What a step of a call may leave as it is.
LEMMA SameMemory ==
  ASSUME Types, UNCHANGED <<commands, call>>
  PROVE  /\ CommandTypes'
         /\ UNCHANGED <<ctx, round, rounds>> => MemoryTypes'
         /\ UNCHANGED <<archive, results, saved>> => FileTypes'
BY DEF Types, CommandTypes, MemoryTypes, FileTypes

\* A step within a call keeps the types of the call.
LEMMA SameCall ==
  ASSUME Types, stage # "idle", stage' \in Stages, UNCHANGED <<call, record>>,
         stage' = "next" => round'.iteration < Limit
  PROVE  CallTypes'
BY DEF Types, CallTypes, Attempt

\* A step that leaves the code lane alone keeps its types.
LEMMA SameLane ==
  ASSUME Types, UNCHANGED laneVars
  PROVE  LaneSound'
BY DEF Types, LaneSound, LaneTypeOK, laneVars

\* A call that returns, whatever it has archived and consumed.
LEMMA ReturnKeepsTypes ==
  ASSUME Types, stage # "idle", UNCHANGED <<commands, call, record, saved>>, LaneSound',
         NEW allowed \in SUBSET Paths, NEW snapshots \in Seq(Snapshots),
         NEW status \in Ended,
         Return(status, allowed, snapshots), MemoryTypes', archive' \in Archives(call')
  PROVE  Types'
<1>1. /\ stage' = "persist" /\ results' \in [Attempts -> Report]
      /\ \A a \in Attempts : results'[a].call \in 0 .. call'
  BY ReturnTypes
<1>2. CallTypes'
  BY <1>1, SameCall DEF Stages
<1>3. FileTypes'
  BY <1>1 DEF Types, FileTypes
<1>4. QED BY <1>2, <1>3, SameMemory DEF Types

\* A checkpoint that stops the call, or lets it go on.
LEMMA CheckpointTypes ==
  ASSUME Types, stage # "idle", ctx' = Consumed, LaneSound',
         UNCHANGED <<commands, call, record, saved>>,
         \/ Interrupted(ctx.allow)
         \/ stage' \in Stages \ {"next"} /\ UNCHANGED <<round, rounds, archive, results>>
  PROVE  Types'
<1>1. UNCHANGED <<round, rounds, archive>>
  BY DEF Interrupted
<1>2. MemoryTypes'
  BY <1>1, ConsumedTypes DEF Types, MemoryTypes
<1>3. CASE Interrupted(ctx.allow)
  <2>1. ctx.allow \in SUBSET Paths /\ <<>> \in Seq(Snapshots) /\ archive' \in Archives(call')
    BY <1>1 DEF Types, MemoryTypes, Context, FileTypes
  <2>2. QED BY <1>2, <1>3, <2>1, ReturnKeepsTypes DEF Interrupted
<1>4. CASE stage' \in Stages \ {"next"} /\ UNCHANGED <<round, rounds, archive, results>>
  BY <1>2, <1>4, SameMemory, SameCall DEF Types
<1>5. QED BY <1>3, <1>4

\* A model call that goes on, with an exchange file or without one.
LEMMA ModelTypes ==
  ASSUME Types, stage # "idle", LaneUnchanged, UNCHANGED results, stage' \in Stages,
         stage' = "next" => round'.iteration < Limit,
         UNCHANGED <<ctx, archive>> \/ (\E name \in Names : ArchiveAs(name)),
         round' \in Round, round'.contract \in 0 .. call, rounds' \in Seq(Snapshots)
  PROVE  Types'
<1>1. LaneSound' /\ UNCHANGED <<commands, call, record, saved>>
  BY SameLane DEF LaneUnchanged
<1>2. /\ ctx' \in Context /\ ctx'.cursor = ctx.cursor
      /\ archive' \in Archives(call')
  BY <1>1, ArchiveTypes DEF Types, MemoryTypes, FileTypes
<1>3. MemoryTypes'
  BY <1>1, <1>2 DEF Types, MemoryTypes
<1>4. FileTypes'
  BY <1>1, <1>2 DEF Types, FileTypes
<1>5. QED BY <1>1, <1>3, <1>4, SameMemory, SameCall DEF Types

\* What a call does to its round.
LEMMA RoundTypes ==
  ASSUME Types
  PROVE  /\ round \in Round /\ rounds \in Seq(Snapshots) /\ call \in 0 .. call
         /\ ctx.allow \in SUBSET Paths /\ <<>> \in Seq(Snapshots)
         /\ [round EXCEPT !.contract = call] \in Round
         /\ \A f \in Found : [round EXCEPT !.evidence = f] \in Round
         /\ round.iteration < Limit => [round EXCEPT !.iteration = @ + 1, !.evidence = NoEvidence] \in Round
         /\ Append(rounds, Snapshot) \in Seq(Snapshots)
         /\ Append(rounds, [Snapshot EXCEPT !.unified = TRUE]) \in Seq(Snapshots)
<1>1. /\ round \in Round /\ rounds \in Seq(Snapshots) /\ call \in 0 .. MaxCalls
      /\ ctx.allow \in SUBSET Paths
  BY DEF Types, MemoryTypes, CallTypes, Context
<1>2. /\ Snapshot \in Snapshots /\ [Snapshot EXCEPT !.unified = TRUE] \in Snapshots
  BY <1>1, SnapshotsAre DEF Snapshot, Round
<1>3. call \in 0 .. call
  BY <1>1, Numbers
<1>4. /\ [round EXCEPT !.contract = call] \in Round
      /\ \A f \in Found : [round EXCEPT !.evidence = f] \in Round
  BY <1>1 DEF Round
<1>5. round.iteration < Limit =>
        [round EXCEPT !.iteration = @ + 1, !.evidence = NoEvidence] \in Round
  <2>1. round.iteration < Limit => round.iteration + 1 \in Iterations
    BY <1>1, Numbers DEF Round
  <2>2. QED BY <1>1, <2>1, FoundParts DEF Round
<1>6. QED BY <1>1, <1>2, <1>3, <1>4, <1>5, EmptySeq

\* A review sets its decision and what it asks for, and no other field.
LEMMA ReviewTypes ==
  ASSUME Types, Review
  PROVE  /\ round' \in Round /\ round'.contract = round.contract
         /\ round'.iteration = round.iteration /\ round'.start = round.start
         /\ round'.resumed = round.resumed /\ round'.unified = round.unified
<1>1. round \in Round /\ "code" \in Targets
  BY Defaults DEF Types, MemoryTypes
<1>2. PICK d \in Decisions, t \in Targets : round' = [round EXCEPT !.decision = d, !.asked = t]
  BY <1>1, Numbers DEF Review
<1> QED BY <1>1, <1>2 DEF Round

\* The checkpoints.
LEMMA PassingTypes ==
  ASSUME Types, SolveStart \/ CodeStart \/ CodeDone \/ ReviewStart \/ FinalStart
  PROVE  Types'
<1>1. /\ stage # "idle" /\ ctx' = Consumed /\ UNCHANGED <<source, outputs, jobs>>
      /\ UNCHANGED <<commands, call, record, saved>>
  BY DEF SolveStart, CodeStart, CodeDone, ReviewStart, FinalStart, Checkpoint
<1>2. \/ Interrupted(ctx.allow) /\ UNCHANGED agent
      \/ /\ stage' \in Stages \ {"next"} /\ UNCHANGED <<round, rounds, archive, results>>
         /\ UNCHANGED agent \/ BeginLane(<<Attempt, round.iteration>>)
  BY DEF SolveStart, CodeStart, CodeDone, ReviewStart, FinalStart, Stages, Checkpoints, ModelCalls
<1>3. <<Attempt, round.iteration>> \in Lanes
  BY <1>1 DEF Types, CallTypes, MemoryTypes, Round, Lanes
<1>4. LaneSound'
  BY <1>1, <1>2, <1>3, SameLane, IdleTypes DEF Types, LaneSound, BeginLane, laneVars
<1>5. QED BY <1>1, <1>2, <1>4, CheckpointTypes

\* The start of an iteration, with the instructions of the last review.
LEMMA IterationTypes ==
  ASSUME Types, IterationStart
  PROVE  Types'
<1>1. /\ stage # "idle" /\ LaneSound' /\ UNCHANGED <<commands, call, record, saved>>
  BY SameLane DEF IterationStart, LaneUnchanged
<1>2. CASE StopsHere
  BY <1>1, <1>2, CheckpointTypes DEF IterationStart
<1>3. CASE ~StopsHere /\ rounds = <<>>
  BY <1>1, <1>3, CheckpointTypes DEF IterationStart, Stages, Checkpoints, ModelCalls
<1>4. CASE ~StopsHere /\ rounds # <<>>
  <2>1. round.iteration - 1 \in Nat
    BY Numbers DEF Types, MemoryTypes, Round
  <2>2. ReviewBatch(round.iteration - 1) \in Batches
    BY <2>1, BatchTypes
  <2>3. PICK list \in Seq(Batches) : ctx' = [Consumed EXCEPT !.instructions = list]
    <3>1. Append(Consumed.instructions, ReviewBatch(round.iteration - 1)) \in Seq(Batches)
      BY <2>2, ConsumedTypes DEF Context
    <3>2. QED BY <1>4, <3>1 DEF IterationStart
  <2>4. ctx' \in Context /\ ctx'.cursor = Consumed.cursor
    BY <2>3, ConsumedTypes DEF Context
  <2>5. UNCHANGED <<round, rounds, archive, results>> /\ stage' \in Stages \ {"next"}
    BY <1>4 DEF IterationStart, Stages, Checkpoints, ModelCalls
  <2>6. MemoryTypes'
    BY <1>1, <2>4, <2>5, ConsumedTypes DEF Types, MemoryTypes
  <2>7. QED BY <1>1, <2>5, <2>6, SameMemory, SameCall DEF Types
<1>5. QED BY <1>2, <1>3, <1>4

\* The model calls that go on.
LEMMA GoingTypes ==
  ASSUME Types,
         \/ Prepare \/ Explore \/ Reexplore \/ Summarize \/ Formulate \/ ModelToCode
         \/ CodeToModel \/ Review \/ Revision \/ NextRound \/ Unify
  PROVE  Types'
<1> USE RoundTypes, Numbers DEF ModelCall
<1>1. CASE Explore \/ Reexplore \/ Summarize
  BY <1>1, ModelTypes DEF Explore, Reexplore, Summarize, Stages, ModelCalls, Types, MemoryTypes
<1>2. CASE Prepare
  <2>1. LaneUnchanged /\ UNCHANGED <<ctx, rounds, archive, results>> /\ stage' = "iteration_start" /\ stage # "idle"
    BY <1>2 DEF Prepare
  <2>2. ASSUME NEW i \in ResumeFrom
        PROVE  [NewRound(i, TRUE) EXCEPT !.contract = call] \in Round
    BY FoundParts, Defaults DEF NewRound, Round, Types, CallTypes
  <2>3. ASSUME NEW i \in ResumeFrom
        PROVE  [NewRound(i, TRUE) EXCEPT !.contract = call].contract = call
    BY DEF NewRound
  <2>4. round' \in Round /\ round'.contract \in 0 .. call
    BY <1>2, <2>2, <2>3 DEF Prepare, Types, MemoryTypes
  <2>5. QED BY <2>1, <2>4, ModelTypes DEF Stages, Checkpoints
<1>3. CASE Formulate
  <2>1. round'.contract = call
    BY <1>3 DEF Formulate, Types, MemoryTypes, Round
  <2>2. QED BY <1>3, <2>1, ModelTypes DEF Formulate, Stages, Names
<1>4. CASE ModelToCode \/ CodeToModel
  BY <1>4, ModelTypes DEF ModelToCode, CodeToModel, Stages, Checkpoints, Names, Types, MemoryTypes
<1>5. CASE Review
  <2>1. round'.contract = round.contract /\ round' \in Round
    BY <1>5, ReviewTypes
  <2>2. QED BY <1>5, <2>1, ModelTypes DEF Review, Stages, Types, MemoryTypes
<1>6. CASE Revision
  <2>1. ~Closing => round.iteration < Limit
    <3>1. round.iteration \in 1 .. Limit /\ Limit \in Nat
      BY DEF Round
    <3> QED BY <3>1 DEF Closing
  <2>2. QED BY <1>6, <2>1, ModelTypes DEF Revision, Stages, ModelCalls, Names, Types, MemoryTypes
<1>7. CASE NextRound
  <2>1. round.iteration < Limit
    BY <1>7 DEF NextRound, Types, CallTypes
  <2>2. round'.contract = round.contract /\ round' \in Round
    BY <1>7, <2>1 DEF NextRound, Round
  <2>3. QED BY <1>7, <2>2, ModelTypes DEF NextRound, Stages, Checkpoints, Types, MemoryTypes
<1>8. CASE Unify
  BY <1>8, ModelTypes DEF Unify, Stages, Checkpoints, Names, Types, MemoryTypes
<1>9. QED BY <1>1, <1>2, <1>3, <1>4, <1>5, <1>6, <1>7, <1>8

\* The model calls that return.
LEMMA ReturningTypes ==
  ASSUME Types, NoRoute \/ Disclose \/ Compose \/ Raise
  PROVE  Types'
<1> USE RoundTypes DEF ModelCall
<1>1. /\ stage # "idle" /\ LaneSound' /\ UNCHANGED <<commands, call, record, saved>> /\ LaneUnchanged
  BY SameLane DEF NoRoute, Disclose, Compose, Raise, LaneUnchanged, ModelCalls
<1>2. CASE NoRoute \/ Compose \/ Raise
  <2>1. UNCHANGED <<ctx, round, rounds, archive>>
    BY <1>2 DEF NoRoute, Compose, Raise
  <2>2. MemoryTypes' /\ archive' \in Archives(call')
    BY <1>1, <2>1, SameMemory DEF Types, FileTypes
  <2>3. PICK status \in {"completed", "failed", "raised"}, allowed \in SUBSET Paths,
             snapshots \in Seq(Snapshots) : Return(status, allowed, snapshots)
    BY <1>2 DEF NoRoute, Compose, Raise
  <2>4. QED BY <1>1, <2>2, <2>3, ReturnKeepsTypes
<1>3. CASE Disclose
  <2>1. UNCHANGED <<round, rounds>>
    BY <1>3 DEF Disclose
  <2>2. CASE UNCHANGED <<ctx, archive, results>> /\ stage' \in {"reexplore", "summarize"}
    BY <1>1, <2>1, <2>2, ModelTypes DEF Stages, ModelCalls, Types, MemoryTypes
  <2>3. CASE /\ ArchiveAs("disclosure-failure")
             /\ Return("failed", ctx.allow \cup {Archived("disclosure-failure")}, rounds)
    <3>1. "disclosure-failure" \in Names
      BY DEF Names
    <3>2. /\ Archived("disclosure-failure") \in Paths
          /\ archive' \in Archives(call')
          /\ ctx' \in Context /\ ctx'.cursor = ctx.cursor
      BY <1>1, <2>3, <3>1, ArchiveTypes
    <3>3. MemoryTypes'
      BY <1>1, <2>1, <3>2 DEF Types, MemoryTypes
    <3>4. ctx.allow \cup {Archived("disclosure-failure")} \in SUBSET Paths
      BY <3>2
    <3>5. QED BY <1>1, <2>3, <3>2, <3>3, <3>4, ReturnKeepsTypes
  <2>4. QED BY <1>3, <2>2, <2>3 DEF Disclose
<1>4. QED BY <1>2, <1>3

\* While the loop waits for the code harness, and its return.
LEMMA CodeTypes ==
  ASSUME Types, Code \/ CodeReturns
  PROVE  Types'
<1>1. CASE Code
  <2>1. LaneSound' /\ UNCHANGED <<commands, stage, call, record, ctx, round, rounds, archive, results, saved>>
    BY <1>1, AgentTypes DEF Code, Types
  <2>2. QED BY <1>1, <2>1, SameMemory, SameCall DEF Code, Types, CallTypes
<1>2. CASE CodeReturns
  <2>1. /\ stage # "idle" /\ UNCHANGED <<commands, source, outputs, jobs, call, record, ctx, saved>>
        /\ agent' = IdleAgent(FirstLane)
    BY <1>2 DEF CodeReturns
  <2>2. LaneSound'
    BY <2>1, Numbers, IdleTypes DEF Types, LaneSound
  <2>3. CASE Interrupted(ctx.allow)
    <3>1. UNCHANGED <<round, rounds, archive>>
      BY <2>3 DEF Interrupted
    <3>2. MemoryTypes' /\ archive' \in Archives(call')
      BY <2>1, <3>1, SameMemory DEF Types, FileTypes
    <3>3. QED BY <2>1, <2>2, <2>3, <3>2, RoundTypes, ReturnKeepsTypes DEF Interrupted
  <2>4. CASE /\ stage' = "code_execute_complete"
             /\ round' = [round EXCEPT !.evidence = agent.evidence]
             /\ UNCHANGED <<rounds, archive, results>>
    <3>1. agent.evidence \in Found
      BY LaneTypesAre DEF Types, LaneSound, Agents
    <3>2. round' \in Round /\ round'.contract = round.contract
      BY <2>4, <3>1, RoundTypes DEF Round
    <3>3. MemoryTypes'
      BY <2>1, <2>4, <3>2 DEF Types, MemoryTypes
    <3>4. QED BY <2>1, <2>2, <2>4, <3>3, SameMemory, SameCall DEF Types, Stages, Checkpoints
  <2>5. QED BY <1>2, <2>3, <2>4 DEF CodeReturns
<1>3. QED BY <1>1, <1>2

-----------------------------------------------------------------------------
(* Types: before and after a call                                             *)

\* What a new call starts from has its type.
LEMMA ForgottenTypes ==
  ASSUME Types, Forgets, UNCHANGED <<commands, call>>
  PROVE  MemoryTypes'
<1>1. NewContext \in Context /\ NewContext.cursor = 0
  BY DEF NewContext, Context
<1>2. NewRound(1, FALSE) \in Round /\ NewRound(1, FALSE).contract = 0
  BY Numbers, FoundParts, Defaults DEF NewRound, Round
<1>3. 0 \in 0 .. call /\ <<>> \in Seq(Snapshots)
  BY Numbers, EmptySeq DEF Types, CommandTypes, CallTypes
<1>4. QED BY <1>1, <1>2, <1>3 DEF Forgets, MemoryTypes

\* A reservation and a missing report are reports.
LEMMA ReservedReport ==
  /\ NoReport \in Report /\ Reserved \in Report
  /\ Reserved.status = "running" /\ Reserved.call = 0 /\ NoReport.status = "none"
<1>1. /\ NoReport \in Report /\ NoReport.status = "none" /\ NoReport.call = 0
  BY Numbers, EmptySeq DEF NoReport, Report
<1>2. [NoReport EXCEPT !.status = "running"] \in Report
  BY <1>1 DEF Report
<1>3. Reserved.status = "running" /\ Reserved.call = NoReport.call
  BY <1>1 DEF Reserved, Report
<1>4. QED BY <1>1, <1>2, <1>3 DEF Reserved

\* The dispatch of a task that has no result.
LEMMA DispatchTypes ==
  ASSUME Types, Dispatch
  PROVE  Types'
<1>1. /\ call' = call + 1 /\ call' \in 0 .. MaxCalls /\ call \in 0 .. call' /\ call \in Nat
      /\ Attempt \in Attempts
  BY Numbers DEF Types, CallTypes, Dispatch, Ready
<1>2. Reserved \in Report /\ Reserved.call = 0
  BY ReservedReport
<1>3. \A n : n \in 0 .. call => n \in 0 .. call'
  BY <1>1
<1>4. FileTypes'
  <2>1. results' \in [Attempts -> Report]
    BY <1>1, <1>2 DEF Dispatch, Types, FileTypes
  <2>2. \A a \in Attempts : results'[a].call = 0 \/ results'[a].call = results[a].call
    BY <1>1, <1>2 DEF Dispatch, Types, FileTypes
  <2>3. archive' \in Archives(call') /\ saved' \subseteq Attempts
    BY <1>3 DEF Dispatch, Types, FileTypes, Archives
  <2>4. QED BY <1>1, <1>3, <2>1, <2>2, <2>3 DEF FileTypes, Types
<1>5. MemoryTypes' /\ CommandTypes'
  BY <1>3 DEF Dispatch, Types, MemoryTypes, CommandTypes
<1>6. LaneSound'
  BY SameLane DEF Dispatch
<1>7. CallTypes'
  BY <1>1 DEF Dispatch, Types, CallTypes, Attempt, Stages, Checkpoints
<1>8. QED BY <1>4, <1>5, <1>6, <1>7 DEF Types

\* persist() and the save of the record.
LEMMA TailTypes ==
  ASSUME Types,
         PersistIndex \/ PersistFinal \/ PersistPackage \/ Save \/ SaveFailure \/ Answer \/ Refuse
  PROVE  Types'
<1>1. UNCHANGED <<commands, call, archive, results>> /\ LaneSound'
  BY SameLane DEF PersistIndex, PersistFinal, PersistPackage, Save, SaveFailure, SaveAs, Answer, Refuse
<1>2. CASE PersistIndex \/ PersistFinal \/ PersistPackage
  <2>1. UNCHANGED <<ctx, round, rounds, record>> /\ saved' \subseteq Attempts
        /\ stage # "idle" /\ stage' \in Stages \ {"next"}
    BY <1>2 DEF PersistIndex, PersistFinal, PersistPackage, Types, FileTypes, CallTypes, Stages
  <2>2. FileTypes'
    BY <1>1, <2>1 DEF Types, FileTypes
  <2>3. QED BY <1>1, <2>1, <2>2, SameMemory, SameCall DEF Types
<1>3. CASE Answer
  BY <1>1, <1>3, SameMemory DEF Answer, Ready, Types, CallTypes, Attempt, Stages
<1>4. CASE Save \/ SaveFailure
  <2>1. results[Attempt].status \in Marks
    BY <1>4 DEF Save, SaveFailure, Types, CallTypes, FileTypes, Report
  <2>2. PICK status \in Marks : SaveAs(status)
    BY <1>4, <2>1 DEF Save, SaveFailure, Result, Marks, Ended
  <2>3. /\ record' = [status |-> status, attempts |-> Attempt] /\ Attempt \in 0 .. MaxAttempts
        /\ stage' = "idle" /\ Forgets /\ UNCHANGED saved
    BY <1>4, <2>2, Numbers DEF SaveAs, Save, SaveFailure, Types, CallTypes
  <2>4. CallTypes'
    BY <1>1, <2>3 DEF Types, CallTypes, Stages
  <2>5. QED BY <1>1, <2>3, <2>4, SameMemory, ForgottenTypes DEF Types
<1>5. CASE Refuse
  <2>1. Attempt \in 0 .. MaxAttempts /\ stage' = "idle"
    BY <1>5, Numbers DEF Refuse, Ready
  <2>2. CallTypes'
    BY <1>1, <1>5, <2>1 DEF Refuse, Types, CallTypes, Marks, Ended
  <2>3. QED BY <1>1, <1>5, <2>2, SameMemory DEF Refuse, Types
<1>6. QED BY <1>2, <1>3, <1>4, <1>5

\* One more command, numbered after those its console has read.
LEMMA SubmitTypes ==
  ASSUME Types, NEW kind \in Kinds, Submit(kind)
  PROVE  /\ CommandTypes' /\ Len(commands') = Len(commands) + 1
         /\ \A n \in 1 .. Len(commands) : commands'[n] = commands[n]
<1>1. /\ commands \in Seq(Commands) /\ Len(commands) \in Nat /\ Len(commands) < MaxCommands
      /\ \A n \in 1 .. Len(commands) : commands[n].number \in 1 .. n
  BY Numbers DEF Types, CommandTypes, Submit
<1>2. PICK seen \in 0 .. Len(commands) :
        commands' = Append(commands,
            [kind |-> kind, number |-> Max({0} \cup Numbered(1 .. seen)) + 1])
  BY DEF Submit
<1> DEFINE read == {0} \cup Numbered(1 .. seen)
<1>3. read \subseteq 0 .. Len(commands) /\ read # {} /\ \A i \in read : i <= seen
  BY <1>1 DEF Numbered
<1> DEFINE c == [kind |-> kind, number |-> Max(read) + 1]
<1>4. Max(read) \in read
  <2> HIDE DEF read
  <2> QED BY <1>1, <1>3, MaxOf
<1>5. Max(read) \in 0 .. seen
  <2> HIDE DEF read
  <2> DEFINE m == Max(read)
  <2>1. m \in read
    BY <1>4
  <2> HIDE DEF m
  <2>2. m \in 0 .. Len(commands) /\ m <= seen
    BY <1>3, <2>1
  <2>3. m \in 0 .. seen
    BY <1>1, <2>2
  <2> QED BY <2>3 DEF m
<1> HIDE DEF read
<1>6. c \in Commands /\ c.number \in 1 .. Len(commands) + 1
  BY <1>1, <1>5 DEF Commands
<1>7. commands' = Append(commands, c)
  BY <1>2 DEF read
<1> HIDE DEF c
<1>8. /\ commands' \in Seq(Commands) /\ Len(commands') = Len(commands) + 1
      /\ commands'[Len(commands) + 1] = c
      /\ \A n \in 1 .. Len(commands) : commands'[n] = commands[n]
  BY <1>1, <1>6, <1>7, AppendProperties
<1>9. \A n \in 1 .. Len(commands') : commands'[n].number \in 1 .. n
  BY <1>1, <1>6, <1>8
<1> QED
  BY <1>1, <1>8, <1>9, Numbers DEF CommandTypes

\* What surrounds a call.
LEMMA SurroundingTypes ==
  ASSUME Types, Operator \/ Script \/ Job \/ Crash \/ Rollback
  PROVE  Types'
<1>1. CASE Operator
  <2>1. PICK kind \in Kinds : Submit(kind)
    BY <1>1 DEF Operator
  <2>2. CommandTypes'
    BY <2>1, SubmitTypes
  <2>3. UNCHANGED <<laneVars, stage, call, record, ctx, round, rounds, archive, results, saved>>
    BY <1>1 DEF Operator
  <2>4. MemoryTypes'
    BY <2>3 DEF Types, MemoryTypes
  <2>5. QED BY <2>2, <2>3, <2>4, SameLane DEF Types, CallTypes, FileTypes, Attempt
<1>6. CASE Script
  <2>1. UNCHANGED <<commands, stage, call, record, ctx, round, rounds, results, saved>>
    BY <1>6 DEF Script
  <2>2. LaneSound' /\ archive' \in Archives(call')
    <3>1. CASE ScriptWrites /\ UNCHANGED archive
      BY <2>1, <3>1, WritesTypes DEF Types, FileTypes
    <3>2. CASE UNCHANGED laneVars /\ \E p \in Paths : archive' = [archive EXCEPT ![p] = Overwritten]
      BY <2>1, <3>2, SameLane DEF Types, FileTypes, Archives
    <3> QED BY <1>6, <3>1, <3>2 DEF Script
  <2>3. FileTypes'
    BY <2>1, <2>2 DEF Types, FileTypes
  <2> QED BY <2>1, <2>2, <2>3, SameMemory DEF Types, CallTypes, Attempt
<1>2. CASE Job
  <2>1. LaneSound' /\ UNCHANGED <<commands, stage, call, record, ctx, round, rounds, archive, results, saved>>
    BY <1>2, JobTypes DEF Job, Types
  <2>2. QED BY <2>1, SameMemory DEF Types, CallTypes, Attempt
<1>3. CASE Crash
  <2>1. /\ stage' = "idle" /\ LaneSound' /\ Forgets
        /\ UNCHANGED <<commands, call, record, archive, results, saved>>
    BY <1>3, JobTypes DEF Crash, Types
  <2>2. CallTypes'
    BY <2>1 DEF Types, CallTypes, Stages
  <2>3. QED BY <2>1, <2>2, SameMemory, ForgottenTypes DEF Types
<1>4. CASE Rollback
  <2>1. /\ stage = "idle" /\ record' = [record EXCEPT !.status = "ready"]
        /\ UNCHANGED <<commands, laneVars, stage, call, ctx, round, rounds, archive, results, saved>>
    BY <1>4 DEF Rollback
  <2>2. CallTypes'
    BY <2>1 DEF Types, CallTypes
  <2>3. QED BY <2>1, <2>2, SameMemory, SameLane DEF Types
<1>5. QED BY <1>1, <1>2, <1>3, <1>4, <1>6

\* Every step keeps the types.
LEMMA TypesStep == Types /\ [Next]_vars => Types'
<1> SUFFICES ASSUME Types, [Next]_vars PROVE Types'
  OBVIOUS
<1>1. CASE UNCHANGED vars
  BY <1>1, SameMemory, SameLane DEF vars, laneVars, Types, CallTypes, Attempt
<1>2. CASE CallStep
  BY <1>2, PassingTypes, IterationTypes, GoingTypes, ReturningTypes, CodeTypes, TailTypes DEF CallStep
<1>3. CASE Dispatch \/ Answer \/ Refuse \/ Code
  BY <1>3, DispatchTypes, TailTypes, CodeTypes
<1>4. CASE Operator \/ Script \/ Job \/ Crash \/ Rollback
  BY <1>4, SurroundingTypes
<1>5. QED BY <1>1, <1>2, <1>3, <1>4 DEF Next

-----------------------------------------------------------------------------
(* Where a call is: its result is recorded once                               *)

Filing == {"write_final", "write_package", "save"}
Working == Stages \ (Filing \cup {"idle", "persist"})

\* While a call works its attempt is reserved, and nothing but a recorded
\* result is indexed and saved.
PlaceInv ==
  /\ record.status \in Statuses
  /\ \A a \in Attempts : results[a] \in {NoReport, Reserved} \/ results[a].status \in Ended
  /\ stage \in Working => results[Attempt] = Reserved
  /\ stage \in Filing \cup {"persist"} => results[Attempt].status \in Ended
  /\ stage \in Filing => results[Attempt].status # "raised"

\* The exchange files of the attempt in progress.
Own == {p \in Paths : p[1] = Attempt}

\* What a step does to the place of the call.
Goes == stage \in Working /\ stage' \in Working /\ UNCHANGED <<results, record>>
Returns ==
  /\ stage \in Working /\ UNCHANGED <<record, call>>
  /\ \/ \E status \in Ended \ {"completed"}, allowed \in SUBSET Paths, snapshots \in Seq(Snapshots) :
          /\ allowed \subseteq ctx.allow \cup Own /\ snapshots \in {<<>>, rounds}
          /\ Return(status, allowed, snapshots)
     \/ stage = "compose" /\ Return("completed", ctx.allow, rounds)

\* A step of a call goes on working, returns, or files what was returned.
LEMMA WorkingSteps ==
  ASSUME Types, CallStep
  PROVE  Goes \/ Returns
         \/ PersistIndex \/ PersistFinal \/ PersistPackage \/ Save \/ SaveFailure
<1>1. /\ ctx.allow \in SUBSET Paths /\ <<>> \in Seq(Snapshots) /\ rounds \in Seq(Snapshots)
      /\ {} \in SUBSET Paths
  BY RoundTypes
<1>2. ASSUME stage \in Working, UNCHANGED <<record, call>>, Interrupted(ctx.allow)
      PROVE  Returns
  BY <1>1, <1>2 DEF Interrupted, Returns
<1>3. CASE SolveStart \/ CodeStart \/ CodeDone \/ ReviewStart \/ FinalStart
  <2>1. /\ stage \in Working /\ UNCHANGED <<record, call>>
        /\ Interrupted(ctx.allow) \/ (stage' \in Working /\ UNCHANGED results)
    BY <1>3 DEF SolveStart, CodeStart, CodeDone, ReviewStart, FinalStart, Checkpoint, Working, Stages,
                Checkpoints, ModelCalls, Filing
  <2>2. QED BY <1>2, <2>1 DEF Goes
<1>4. CASE IterationStart \/ CodeReturns
  <2>1. /\ stage \in Working /\ UNCHANGED <<record, call>>
        /\ Interrupted(ctx.allow) \/ (stage' \in Working /\ UNCHANGED results)
    BY <1>4 DEF IterationStart, CodeReturns, LaneUnchanged, Working, Stages, Checkpoints, ModelCalls, Filing
  <2>2. QED BY <1>2, <2>1 DEF Goes
<1>5. CASE Prepare \/ Explore \/ Reexplore \/ Summarize \/ Formulate \/ ModelToCode
           \/ CodeToModel \/ Review \/ Revision \/ NextRound \/ Unify
  BY <1>5 DEF Prepare, Explore, Reexplore, Summarize, Formulate, ModelToCode, CodeToModel, Review,
              Revision, NextRound, Unify, ModelCall, LaneUnchanged, Goes, Working, Stages, Checkpoints,
              ModelCalls, Filing
<1>6. CASE NoRoute \/ Compose \/ Raise
  BY <1>1, <1>6 DEF NoRoute, Compose, Raise, ModelCall, LaneUnchanged, Returns, Working, Stages,
                    Checkpoints, ModelCalls, Filing
<1>7. CASE Disclose
  <2>1. stage \in Working /\ UNCHANGED <<record, call>>
    BY <1>7 DEF Disclose, ModelCall, LaneUnchanged, Working, Stages, ModelCalls, Filing
  <2>2. CASE UNCHANGED results /\ stage' \in {"reexplore", "summarize"}
    BY <2>1, <2>2 DEF Goes, Working, Stages, ModelCalls, Filing
  <2>3. CASE /\ ArchiveAs("disclosure-failure")
             /\ Return("failed", ctx.allow \cup {Archived("disclosure-failure")}, rounds)
    <3>1. Archived("disclosure-failure") \in Paths
      BY <2>1, <2>3, ArchiveTypes DEF Names, Working
    <3>2. /\ ctx.allow \cup {Archived("disclosure-failure")} \in SUBSET Paths
          /\ Archived("disclosure-failure") \in Own
      BY <1>1, <3>1 DEF Archived, Own
    <3>3. QED BY <1>1, <2>1, <2>3, <3>2 DEF Returns
  <2>4. QED BY <1>7, <2>2, <2>3 DEF Disclose
<1>8. QED BY <1>3, <1>4, <1>5, <1>6, <1>7 DEF CallStep

\* No call is anywhere before the first dispatch.
LEMMA PlaceInit == Init => PlaceInv
BY Numbers DEF Init, PlaceInv, Statuses, Working, Filing

\* Every step keeps the place of the call.
LEMMA PlaceStep == Types /\ PlaceInv /\ [Next]_vars => PlaceInv'
<1> SUFFICES ASSUME Types, PlaceInv, [Next]_vars PROVE PlaceInv'
  OBVIOUS
<1> USE DEF PlaceInv
<1>1. ASSUME UNCHANGED <<stage, record, results>> PROVE PlaceInv'
  BY <1>1 DEF Attempt
<1>2. CASE UNCHANGED vars \/ Code \/ Operator \/ Script \/ Job
  BY <1>1, <1>2 DEF vars, Code, Operator, Script, Job
<1>3. CASE Goes
  BY <1>3 DEF Goes, Attempt, Working
<1>4. CASE Returns
  <2>1. PICK status \in Ended, allowed \in SUBSET Paths, snapshots \in Seq(Snapshots) :
          Return(status, allowed, snapshots)
    BY <1>4, RoundTypes DEF Returns
  <2>2. /\ stage' = "persist" /\ UNCHANGED record
        /\ \A a \in Attempts : a # Attempt => results'[a] = results[a]
        /\ results'[Attempt].status = status
    <3>1. stage # "idle" /\ UNCHANGED <<call, record>>
      BY <1>4 DEF Returns, Working
    <3>2. /\ stage' = "persist"
          /\ \A a \in Attempts : a # Attempt => results'[a] = results[a]
          /\ results'[Attempt] = [status |-> status, rounds |-> snapshots,
                                  allow |-> allowed, call |-> call]
      BY <2>1, <3>1, ReturnTypes
    <3>3. QED BY <3>1, <3>2
  <2>3. QED BY <2>2 DEF Attempt, Working, Filing
<1>5. CASE PersistIndex \/ PersistFinal \/ PersistPackage
  BY <1>5 DEF PersistIndex, PersistFinal, PersistPackage, Result, Attempt, Working, Filing
<1>6. CASE Save \/ SaveFailure
  <2>1. PICK status \in Statuses : SaveAs(status)
    BY <1>6 DEF Save, SaveFailure, Result, Statuses, Filing
  <2>2. record'.status = status /\ stage' = "idle" /\ UNCHANGED results
    BY <2>1 DEF SaveAs
  <2>3. QED BY <2>2 DEF Working, Filing
<1>7. CASE Dispatch
  <2>1. /\ stage' \in Working /\ UNCHANGED record
        /\ \A a \in Attempts : a # Attempt => results'[a] = results[a]
        /\ results'[Attempt] = Reserved
    BY <1>7 DEF Dispatch, Ready, Working, Stages, Checkpoints, Filing, Types, FileTypes
  <2>2. QED BY <2>1 DEF Attempt, Working, Filing
<1>8. CASE Answer
  BY <1>8 DEF Answer, Ready, Recorded, Attempt, Working, Filing
<1>9. CASE Refuse \/ Crash \/ Rollback
  <2>1. stage' = "idle" /\ record'.status \in Statuses /\ UNCHANGED results
    BY <1>9 DEF Refuse, Ready, Crash, Rollback, Statuses, Types, CallTypes
  <2>2. QED BY <2>1 DEF Working, Filing
<1>10. QED
  BY <1>2, <1>3, <1>4, <1>5, <1>6, <1>7, <1>8, <1>9, WorkingSteps DEF Next

\* Every variable has its type: no exception, crash or interrupt leaves a stage,
\* a report or a round that the loop does not know.
THEOREM SolveTypes == Spec => []TypeOK
<1>1. Init => Types /\ PlaceInv
  BY TypesInit, PlaceInit
<1>2. Types /\ PlaceInv /\ [Next]_vars => Types' /\ PlaceInv'
  BY TypesStep, PlaceStep
<1>3. Types /\ PlaceInv => TypeOK
  <2> SUFFICES ASSUME Types, PlaceInv PROVE TypeOK
    OBVIOUS
  <2>1. commands \in Seq(Commands) /\ Len(commands) <= MaxCommands
    BY Numbers DEF Types, CommandTypes
  <2>2. \A k \in DOMAIN ctx.instructions : ctx.instructions[k] \in Batches
    <3>1. ctx.instructions \in Seq(Batches)
      BY DEF Types, MemoryTypes, Context
    <3>2. QED BY <3>1, ElementOfSeq, LenProperties
  <2>3. \A k \in DOMAIN rounds : rounds[k] \in Snapshots
    <3>1. rounds \in Seq(Snapshots)
      BY DEF Types, MemoryTypes
    <3>2. QED BY <3>1, ElementOfSeq, LenProperties
  <2>4. record \in [status : Statuses, attempts : 0 .. MaxAttempts]
    BY DEF Types, CallTypes, PlaceInv
  <2>5. \A a \in Attempts : results[a].allow \subseteq Paths /\ results[a].call <= call
    BY Numbers DEF Types, FileTypes, Report, CallTypes
  <2>6. QED
    BY <2>1, <2>2, <2>3, <2>4, <2>5
       DEF TypeOK, Types, LaneSound, CallTypes, MemoryTypes, FileTypes, Context, Round, Archives
<1>4. QED BY <1>1, <1>2, <1>3, PTL DEF Spec

\* A result once recorded is never replaced, whatever crashes, refusals and
\* rollbacks come after it: a repeated dispatch of the attempt is answered.
THEOREM AnsweredOnce == Spec => OneResultPerAttempt
<1> DEFINE Kept == \A a \in Attempts : Recorded(a) => results'[a] = results[a]
<1>1. Init => Types /\ PlaceInv
  BY TypesInit, PlaceInit
<1>2. Types /\ PlaceInv /\ [Next]_vars => Types' /\ PlaceInv'
  BY TypesStep, PlaceStep
<1>3. Types /\ PlaceInv /\ [Next]_vars => Kept
  <2> SUFFICES ASSUME Types, PlaceInv, [Next]_vars, ~UNCHANGED results PROVE Kept
    OBVIOUS
  <2>1. CASE Returns
    <3>1. PICK status \in Ended, allowed \in SUBSET Paths, snapshots \in Seq(Snapshots) :
            Return(status, allowed, snapshots)
      BY <2>1, RoundTypes DEF Returns
    <3>2. \A a \in Attempts : a # Attempt => results'[a] = results[a]
      BY <2>1, <3>1, ReturnTypes DEF Returns, Working
    <3>3. ~Recorded(Attempt)
      BY <2>1 DEF Returns, PlaceInv, Recorded
    <3>4. QED BY <3>2, <3>3
  <2>2. CASE Dispatch
    <3>1. \A a \in Attempts : a # Attempt => results'[a] = results[a]
      BY <2>2 DEF Dispatch, Types, FileTypes
    <3>2. QED BY <2>2, <3>1 DEF Dispatch
  <2>3. Returns \/ Dispatch
    BY WorkingSteps DEF Next, vars, Goes, PersistIndex, PersistFinal, PersistPackage, Save, SaveFailure,
       SaveAs, Answer, Refuse, Code, Operator, Script, Job, Crash, Rollback
  <2>4. QED BY <2>1, <2>2, <2>3
<1>4. Types /\ PlaceInv /\ [Next]_vars => [Kept]_vars
  BY <1>3
<1>5. QED BY <1>1, <1>2, <1>4, PTL DEF Spec, OneResultPerAttempt, Kept

-----------------------------------------------------------------------------
(* What a call has heard of the commands                                      *)

\* The cursor of a call is the number of a command, and a stage that works has
\* passed no interrupt that was numbered in turn: the call would have ended.
HeardInv ==
  /\ stage \in Working => \A n \in 1 .. Len(commands) :
       InTurn(n) /\ commands[n].number <= ctx.cursor => commands[n].kind # "interrupt"
  /\ ctx.cursor # 0 => \E n \in 1 .. Len(commands) : ctx.cursor = commands[n].number
  /\ stage = "idle" => ctx.cursor = 0

\* Nothing is heard before the first dispatch.
LEMMA HeardInit == Init => HeardInv
BY DEF Init, HeardInv, Working, NewContext

\* A checkpoint leaves the cursor at the number of a command.
LEMMA CursorHeard ==
  ASSUME Types, HeardInv
  PROVE  Consumed.cursor # 0 => \E n \in 1 .. Len(commands) : Consumed.cursor = commands[n].number
<1>1. CASE Pending(ctx.cursor) = {}
  BY <1>1 DEF Consumed, HeardInv
<1>2. CASE Pending(ctx.cursor) # {}
  <2>1. Consumed.cursor = Max(Numbered(Pending(ctx.cursor)))
    BY <1>2, PendingFacts DEF Consumed, Context
  <2> QED BY <1>2, <2>1, PendingFacts
<1> QED BY <1>1, <1>2

\* A checkpoint that is passed has heard no interrupt that was numbered in turn.
LEMMA HeardByCheckpoint ==
  ASSUME Types, HeardInv, stage \in Working, ~StopsHere
  PROVE  \A n \in 1 .. Len(commands) :
           InTurn(n) /\ commands[n].number <= Consumed.cursor => commands[n].kind # "interrupt"
<1>1. CASE Pending(ctx.cursor) = {}
  BY <1>1 DEF Consumed, HeardInv
<1>2. CASE Pending(ctx.cursor) # {}
  <2> SUFFICES ASSUME NEW n \in 1 .. Len(commands), InTurn(n), commands[n].kind = "interrupt"
               PROVE  FALSE
    OBVIOUS
  <2>1. n \notin Pending(ctx.cursor)
    BY <1>2 DEF StopsHere
  <2>2. commands[n].number <= ctx.cursor
    BY <2>1, PendingFacts DEF Pending
  <2> QED BY <2>2 DEF HeardInv
<1> QED BY <1>1, <1>2

\* A call that has heard no interrupt, and finds one numbered in turn, stops here.
LEMMA InterruptSeen ==
  ASSUME Types, HeardInv, stage \in Working,
         NEW n \in DOMAIN commands, commands[n].kind = "interrupt", InTurn(n)
  PROVE  StopsHere
<1>1. n \in 1 .. Len(commands) /\ ~ (commands[n].number <= ctx.cursor)
  BY PendingFacts DEF HeardInv
<1>2. n \in Pending(ctx.cursor)
  BY <1>1, PendingFacts DEF Pending
<1> QED BY <1>2 DEF StopsHere

\* A command that was there keeps its turn when another comes after it, and the
\* new one is in turn only past the cursor.
LEMMA TurnKept ==
  ASSUME Types, HeardInv, NEW kind \in Kinds, Submit(kind), UNCHANGED ctx
  PROVE  /\ \A n \in 1 .. Len(commands) : InTurn(n)' <=> InTurn(n)
         /\ \A n \in 1 .. Len(commands') : n \in 1 .. Len(commands) \/ n = Len(commands) + 1
         /\ \A n : n = Len(commands) + 1 /\ InTurn(n)' => ctx.cursor < commands'[n].number
         /\ \A n \in 1 .. Len(commands) : commands'[n] = commands[n]
         /\ 1 .. Len(commands) \subseteq 1 .. Len(commands')
<1>1. /\ Len(commands) \in Nat /\ Len(commands') = Len(commands) + 1
      /\ \A n \in 1 .. Len(commands) : commands'[n] = commands[n]
      /\ \A n \in 1 .. Len(commands') : commands'[n].number \in 1 .. n
  BY SubmitTypes, PendingFacts DEF CommandTypes
<1>2. ASSUME NEW n \in 1 .. Len(commands) PROVE InTurn(n)' <=> InTurn(n)
  <2>1. \A m \in 1 .. n - 1 : m \in 1 .. Len(commands)
    BY <1>1
  <2> QED BY <1>1, <2>1 DEF InTurn
<1>3. ASSUME NEW n, n = Len(commands) + 1, InTurn(n)'
      PROVE  ctx.cursor < commands'[n].number
  <2>1. \A m \in 1 .. Len(commands) : commands'[m].number < commands'[n].number
    BY <1>1, <1>3 DEF InTurn
  <2>2. commands'[n].number \in 1 .. n /\ n \in Nat
    BY <1>1, <1>3
  <2>3. CASE ctx.cursor = 0
    BY <1>1, <2>2, <2>3
  <2>4. CASE ctx.cursor # 0
    BY <1>1, <2>1, <2>4 DEF HeardInv
  <2> QED BY <2>3, <2>4
<1> QED BY <1>1, <1>2, <1>3

Passes == SolveStart \/ CodeStart \/ CodeDone \/ ReviewStart \/ FinalStart \/ IterationStart

\* A checkpoint is left by passing it, or by a crash.
LEMMA LeavesByPassing == LeavesCheckpoint /\ [Next]_vars => Passes
BY DEF LeavesCheckpoint, Next, vars, CallStep, Checkpoints, Passes, Prepare, Explore, NoRoute, Disclose,
       Reexplore, Summarize, Formulate, ModelToCode, CodeReturns, CodeToModel, Review, Revision, NextRound,
       Unify, Compose, Raise, ModelCall, ModelCalls, PersistIndex, PersistFinal, PersistPackage, Save,
       SaveFailure, Dispatch, Answer, Refuse, Ready, Code, Operator, Script, Job, Crash, Rollback

\* Every step keeps what has been heard.
LEMMA HeardStep == Types /\ HeardInv /\ [Next]_vars => HeardInv'
<1> SUFFICES ASSUME Types, HeardInv, [Next]_vars PROVE HeardInv'
  OBVIOUS
<1> USE DEF HeardInv
<1>1. ASSUME UNCHANGED <<commands, ctx>>, stage \in Working \/ stage' = stage \/ stage' \notin Working,
             stage' # "idle" \/ stage' = stage
      PROVE  HeardInv'
  BY <1>1 DEF InTurn
<1>2. CASE UNCHANGED vars \/ Code \/ Script \/ Job \/ Refuse \/ Rollback \/ CodeReturns
  <2>1. UNCHANGED <<commands, ctx>> /\ (stage' = stage \/ (stage \in Working /\ stage' # "idle"))
    BY <1>2 DEF vars, Code, Script, Job, Refuse, Rollback, CodeReturns, Working, Stages, Filing, Interrupted, Return
  <2>2. QED BY <1>1, <2>1
<1>3. CASE Prepare \/ Explore \/ Reexplore \/ Summarize \/ Review \/ NextRound \/ NoRoute \/ Compose \/ Raise
  <2>1. UNCHANGED <<commands, ctx>> /\ stage \in Working /\ stage' # "idle"
    BY <1>3 DEF Prepare, Explore, Reexplore, Summarize, Review, NextRound, NoRoute, Compose, Raise,
       ModelCall, LaneUnchanged, Working, Stages, ModelCalls, Filing, Return
  <2>2. QED BY <1>1, <2>1
<1>4. CASE Formulate \/ ModelToCode \/ CodeToModel \/ Revision \/ Unify \/ Disclose
  <2>1. UNCHANGED <<commands, call>> /\ stage \in Working /\ stage' # "idle"
    BY <1>4 DEF Formulate, ModelToCode, CodeToModel, Revision, Unify, Disclose, ModelCall, LaneUnchanged,
       Working, Stages, ModelCalls, Filing, Return
  <2>2. UNCHANGED ctx \/ \E name \in Names : ArchiveAs(name)
    BY <1>4 DEF Formulate, ModelToCode, CodeToModel, Revision, Unify, Disclose, Names
  <2>3. UNCHANGED ctx.cursor
    BY <2>1, <2>2, ArchiveTypes DEF Working
  <2>4. QED BY <2>1, <2>3 DEF InTurn
<1>5. CASE Passes
  <2>1. /\ stage \in Working /\ stage' # "idle" /\ UNCHANGED commands
        /\ StopsHere => stage' = "persist"
        /\ ~StopsHere => ctx'.cursor = Consumed.cursor
    BY <1>5, ConsumedTypes
       DEF Passes, SolveStart, CodeStart, CodeDone, ReviewStart, FinalStart, IterationStart, Checkpoint,
           LaneUnchanged, Interrupted, Return, Working, Stages, Checkpoints, ModelCalls, Filing, Context
  <2>2. ctx'.cursor = Consumed.cursor
    BY <1>5, <2>1
       DEF Passes, SolveStart, CodeStart, CodeDone, ReviewStart, FinalStart, IterationStart, Checkpoint
  <2>3. CASE StopsHere
    BY <2>1, <2>2, <2>3, CursorHeard DEF Working
  <2>4. CASE ~StopsHere
    BY <2>1, <2>2, <2>4, HeardByCheckpoint, CursorHeard DEF InTurn
  <2>5. QED BY <2>3, <2>4
<1>6. CASE PersistIndex \/ PersistFinal \/ PersistPackage \/ Answer
  BY <1>6 DEF PersistIndex, PersistFinal, PersistPackage, Answer, Working, Filing
<1>7. CASE Save \/ SaveFailure \/ Crash
  <2>1. stage' = "idle" /\ ctx' = NewContext
    BY <1>7 DEF Save, SaveFailure, SaveAs, Crash, Forgets
  <2>2. QED BY <2>1 DEF NewContext, Working
<1>8. CASE Dispatch
  <2>1. UNCHANGED <<commands, ctx>> /\ stage' # "idle" /\ ctx.cursor = 0
    BY <1>8 DEF Dispatch, Ready
  <2>2. \A n \in 1 .. Len(commands) : ~ (commands[n].number <= 0)
    BY PendingFacts
  <2> QED BY <2>1, <2>2
<1>9. CASE Operator
  <2>1. /\ UNCHANGED <<stage, ctx>> /\ \E kind \in Kinds : Submit(kind)
    BY <1>9 DEF Operator
  <2>2. /\ \A n \in 1 .. Len(commands) : InTurn(n)' <=> InTurn(n)
        /\ \A n \in 1 .. Len(commands') : n \in 1 .. Len(commands) \/ n = Len(commands) + 1
        /\ \A n : n = Len(commands) + 1 /\ InTurn(n)' => ctx.cursor < commands'[n].number
        /\ \A n \in 1 .. Len(commands) : commands'[n] = commands[n]
        /\ 1 .. Len(commands) \subseteq 1 .. Len(commands')
    BY <2>1, TurnKept
  <2>3. ctx.cursor \in Nat /\ \A n \in 1 .. Len(commands') : commands'[n].number \in 1 .. n
    BY <2>1, SubmitTypes, PendingFacts DEF CommandTypes
  <2>4. \A n \in 1 .. Len(commands') : InTurn(n)' /\ commands'[n].number <= ctx.cursor
                                        => n \in 1 .. Len(commands)
    BY <2>2, <2>3
  <2>5. stage \in Working => \A n \in 1 .. Len(commands') :
          InTurn(n)' /\ commands'[n].number <= ctx.cursor => commands'[n].kind # "interrupt"
    BY <2>2, <2>4
  <2> QED BY <2>1, <2>2, <2>5
<1>10. QED
  BY <1>2, <1>3, <1>4, <1>5, <1>6, <1>7, <1>8, <1>9 DEF Next, CallStep, Passes

\* An interrupt ends the call at its next checkpoint with a blocked result, and
\* a call dispatched after it as well, however many suggestions surround it.
THEOREM InterruptObeyed == Spec => InterruptStopsWork
<1> DEFINE Obeyed == LeavesCheckpoint
                       /\ (\E n \in DOMAIN commands : commands[n].kind = "interrupt" /\ InTurn(n))
                       => results'[Attempt].status = "blocked" /\ stage' = "persist"
<1>1. Init => Types /\ HeardInv
  BY TypesInit, HeardInit
<1>2. Types /\ HeardInv /\ [Next]_vars => Types' /\ HeardInv'
  BY TypesStep, HeardStep
<1>3. Types /\ HeardInv /\ [Next]_vars => Obeyed
  <2> SUFFICES ASSUME Types, HeardInv, [Next]_vars, LeavesCheckpoint,
                      NEW n \in DOMAIN commands, commands[n].kind = "interrupt", InTurn(n)
               PROVE  results'[Attempt].status = "blocked" /\ stage' = "persist"
    OBVIOUS
  <2>1. StopsHere /\ stage # "idle" /\ stage \in Working
    BY InterruptSeen DEF LeavesCheckpoint, Working, Stages, Checkpoints, Filing
  <2>2. Passes
    BY LeavesByPassing
  <2>3. Interrupted(ctx.allow) /\ UNCHANGED call
    BY <2>1, <2>2 DEF Passes, SolveStart, CodeStart, CodeDone, ReviewStart, FinalStart, IterationStart,
       Checkpoint, LaneUnchanged
  <2>4. /\ results'[Attempt] = [status |-> "blocked", rounds |-> <<>>, allow |-> ctx.allow, call |-> call]
        /\ stage' = "persist"
    BY <2>1, <2>3, RoundTypes, ReturnTypes DEF Interrupted
  <2>5. QED BY <2>4
<1>4. Types /\ HeardInv /\ [Next]_vars => [Obeyed]_vars
  BY <1>3
<1>5. QED BY <1>1, <1>2, <1>4, PTL DEF Spec, InterruptStopsWork, Obeyed

-----------------------------------------------------------------------------
(* The rounds of a call                                                       *)

\* The rounds of a call follow one another under one contract.
Chained(s, c) ==
  /\ \A k \in 1 .. Len(s) : s[k].contract = c
  /\ \A k \in 1 .. Len(s) - 1 :
        s[k].decision # "approve" /\ ~ s[k].unified /\ s[k + 1].iteration = s[k].iteration + 1
Open(s, i) ==
  /\ \A k \in 1 .. Len(s) : s[k].decision # "approve" /\ ~ s[k].unified
  /\ s # <<>> => s[Len(s)].iteration + 1 = i
Closed(s) ==
  /\ Len(s) > 0 /\ s[Len(s)].unified
  /\ s[Len(s)].decision = "approve" \/ s[Len(s)].iteration = Limit

Final == {"final_report_start", "compose"}
Bound == Final \cup {"handoff", "code_execute_start", "code", "code_execute_complete", "coding_report",
                     "model_code_review_start", "review", "revision", "next", "unify"}

\* The rounds ended so far lead to the round in progress, or close the call.
RoundInv ==
  /\ stage \in {"idle", "solve_start", "prepare"} => rounds = <<>> /\ round.contract = 0
  /\ stage \in Working => call # 0 /\ round.contract \in {0, call} /\ Chained(rounds, call)
  /\ stage \in Working \ Bound /\ round.contract = 0 => rounds = <<>>
  /\ stage \in Bound => round.contract = call
  /\ stage \in Working \ Final => Open(rounds, round.iteration)
  /\ stage \in Final => Closed(rounds)
  /\ stage = "unify" => Closing
  /\ stage = "next" => ~ Closing

\* A completed result closes the way its call did.
ResultInv ==
  \A a \in Attempts : results[a].status = "completed" =>
     Chained(results[a].rounds, results[a].call) /\ Closed(results[a].rounds)

\* One more round at the end.
LEMMA ChainGrows ==
  ASSUME NEW s \in Seq(Snapshots), NEW x \in Snapshots, NEW c, x.contract = c,
         Chained(s, c), Open(s, x.iteration)
  PROVE  /\ Chained(Append(s, x), c)
         /\ x.decision # "approve" /\ ~ x.unified => Open(Append(s, x), x.iteration + 1)
         /\ x.unified /\ (x.decision = "approve" \/ x.iteration = Limit) => Closed(Append(s, x))
<1> DEFINE t == Append(s, x)
           n == Len(s)
<1>1. /\ n \in Nat /\ Len(t) = n + 1 /\ t[n + 1] = x
      /\ \A k \in 1 .. n : t[k] = s[k]
      /\ n = 0 <=> s = <<>>
  BY EmptySeq, AppendProperties, LenProperties
<1>2. \A k \in 1 .. n : s[k] \in Snapshots
  BY ElementOfSeq
<1> HIDE DEF t
<1>3. Chained(t, c)
  <2>1. \A k \in 1 .. Len(t) : t[k].contract = c
    <3> SUFFICES ASSUME NEW k \in 1 .. Len(t) PROVE t[k].contract = c
      OBVIOUS
    <3>1. k = n + 1 \/ k \in 1 .. n
      BY <1>1
    <3>2. QED BY <1>1, <3>1 DEF Chained
  <2>2. ASSUME NEW k \in 1 .. Len(t) - 1
        PROVE  t[k].decision # "approve" /\ ~ t[k].unified /\ t[k + 1].iteration = t[k].iteration + 1
    <3>1. k \in 1 .. n /\ t[k] = s[k]
      BY <1>1
    <3>2. CASE k = n
      <4>1. t[k + 1] = x /\ s # <<>>
        BY <1>1, <3>1, <3>2
      <4>2. QED BY <3>1, <3>2, <4>1 DEF Open
    <3>3. CASE k # n
      <4>1. k + 1 \in 1 .. n /\ k \in 1 .. n - 1
        BY <1>1, <3>1, <3>3
      <4>2. t[k + 1] = s[k + 1]
        BY <1>1, <4>1
      <4>3. QED BY <3>1, <4>1, <4>2 DEF Chained
    <3>4. QED BY <3>2, <3>3
  <2>3. QED BY <2>1, <2>2 DEF Chained
<1>4. ASSUME x.decision # "approve", ~ x.unified PROVE Open(t, x.iteration + 1)
  <2>1. ASSUME NEW k \in 1 .. Len(t) PROVE t[k].decision # "approve" /\ ~ t[k].unified
    <3>1. k = n + 1 \/ k \in 1 .. n
      BY <1>1
    <3>2. QED BY <1>1, <1>4, <3>1 DEF Open
  <2>2. QED BY <1>1, <2>1 DEF Open
<1>5. ASSUME x.unified, x.decision = "approve" \/ x.iteration = Limit PROVE Closed(t)
  BY <1>1, <1>5 DEF Closed
<1>6. QED BY <1>3, <1>4, <1>5 DEF t

\* No round yet is a chain of rounds.
LEMMA EmptyChain ==
  ASSUME NEW c, NEW i
  PROVE  Chained(<<>>, c) /\ Open(<<>>, i)
BY EmptySeq DEF Chained, Open

\* There are no rounds and no results before the first dispatch.
LEMMA RoundInit == Init => RoundInv /\ ResultInv
<1> SUFFICES ASSUME Init PROVE RoundInv /\ ResultInv
  OBVIOUS
<1>1. stage = "idle" /\ rounds = <<>> /\ round.contract = 0
  BY DEF Init, NewRound
<1>2. \A a \in Attempts : results[a].status = "none"
  BY ReservedReport DEF Init
<1>3. RoundInv
  BY <1>1 DEF RoundInv, Working, Bound, Final
<1>4. QED BY <1>2, <1>3 DEF ResultInv

\* A step of a call that leaves the rounds and its round as they are, or ends it.
LEMMA SameRounds ==
  ASSUME RoundInv, UNCHANGED <<rounds, round, call>>, stage \in Working,
         \/ stage' \notin Working \cup {"idle"}
         \/ /\ stage' \in Working \ {"unify", "next", "solve_start", "prepare"}
            /\ stage' \in Bound <=> stage \in Bound
            /\ stage' \in Final <=> stage \in Final
  PROVE  RoundInv'
<1>1. Bound \subseteq Working /\ Final \subseteq Working
  BY DEF Bound, Final, Working, Stages, Checkpoints, ModelCalls, Filing
<1>2. CASE stage' \notin Working \cup {"idle"}
  BY <1>1, <1>2 DEF RoundInv, Working, Stages, Checkpoints, ModelCalls, Filing, Bound, Final
<1>3. CASE /\ stage' \in Working \ {"unify", "next", "solve_start", "prepare"}
           /\ stage' \in Bound <=> stage \in Bound
           /\ stage' \in Final <=> stage \in Final
  <2>1. stage' # "idle"
    BY <1>3 DEF Working
  <2>2. (Chained(rounds, call))' <=> Chained(rounds, call)
    BY DEF Chained
  <2>3. (Open(rounds, round.iteration))' <=> Open(rounds, round.iteration)
    BY DEF Open
  <2>4. (Closed(rounds))' <=> Closed(rounds)
    BY DEF Closed
  <2>5. QED BY <1>3, <2>1, <2>2, <2>3, <2>4 DEF RoundInv
<1>4. QED BY <1>2, <1>3

\* Every step keeps the rounds in order.
LEMMA RoundStep == Types /\ RoundInv /\ [Next]_vars => RoundInv'
<1> SUFFICES ASSUME Types, RoundInv, [Next]_vars PROVE RoundInv'
  OBVIOUS
<1>1. /\ round \in Round /\ rounds \in Seq(Snapshots) /\ call \in Nat
  BY RoundTypes, Numbers DEF Types, CallTypes
<1>2. ASSUME UNCHANGED <<rounds, round, call, stage>> PROVE RoundInv'
  BY <1>2 DEF RoundInv, Chained, Open, Closed, Closing
<1>3. CASE UNCHANGED vars \/ Code \/ Operator \/ Script \/ Job \/ Refuse \/ Rollback
  BY <1>2, <1>3 DEF vars, Code, Operator, Script, Job, Refuse, Rollback
<1>4. CASE Save \/ SaveFailure \/ Crash
  <2>1. stage' = "idle" /\ rounds' = <<>> /\ round' = NewRound(1, FALSE)
    BY <1>4 DEF Save, SaveFailure, SaveAs, Crash, Forgets
  <2>2. QED BY <2>1 DEF NewRound, RoundInv, Working, Bound, Final
<1>5. CASE PersistIndex \/ PersistFinal \/ PersistPackage \/ Answer
  BY <1>5 DEF PersistIndex, PersistFinal, PersistPackage, Answer, RoundInv, Working, Bound, Final, Filing
<1>6. CASE Dispatch
  <2>1. stage = "idle" /\ stage' = "solve_start" /\ UNCHANGED <<round, rounds>>
    BY <1>6 DEF Dispatch, Ready
  <2>2. rounds' = <<>> /\ round'.contract = 0 /\ call' # 0
    BY <1>1, <1>6, <2>1 DEF RoundInv, Dispatch
  <2>3. QED BY <2>1, <2>2, EmptyChain DEF RoundInv, Working, Bound, Final
<1>7. CASE CodeStart \/ CodeDone \/ ReviewStart \/ FinalStart \/ Explore \/ NoRoute \/ Disclose
           \/ Reexplore \/ Summarize \/ ModelToCode \/ CodeToModel \/ Compose \/ Raise
  <2>1. UNCHANGED <<rounds, round, call>> /\ stage \in Working
    BY <1>7
       DEF CodeStart, CodeDone, ReviewStart, FinalStart, Explore, NoRoute, Disclose, Reexplore, Summarize,
           ModelToCode, CodeToModel, Compose, Raise, Checkpoint, Interrupted, ModelCall, LaneUnchanged,
           Working, Stages, Checkpoints, ModelCalls, Filing
  <2>2. \/ stage' = "persist"
        \/ /\ stage' \in Working \ {"unify", "next", "solve_start", "prepare"}
           /\ stage' \in Bound <=> stage \in Bound
           /\ stage' \in Final <=> stage \in Final
    BY <1>7
       DEF CodeStart, CodeDone, ReviewStart, FinalStart, Explore, NoRoute, Disclose, Reexplore, Summarize,
           ModelToCode, CodeToModel, Compose, Raise, Checkpoint, Interrupted, Return, ModelCall,
           Working, Stages, Checkpoints, ModelCalls, Filing, Bound, Final
  <2>3. QED BY <2>1, <2>2, SameRounds DEF Working
<1>8. CASE SolveStart
  <2>1. /\ stage = "solve_start" /\ stage' \in {"persist", "prepare"} /\ UNCHANGED <<rounds, round, call>>
    BY <1>8 DEF SolveStart, Checkpoint, Interrupted, Return
  <2>2. rounds' = <<>> /\ round'.contract = 0 /\ call' # 0
    BY <2>1 DEF RoundInv, Working, Stages, Checkpoints, Filing
  <2>3. QED BY <2>1, <2>2, EmptyChain DEF RoundInv, Working, Bound, Final
<1>9. CASE Prepare
  <2>1. stage = "prepare" /\ stage' = "iteration_start" /\ UNCHANGED <<rounds, call>>
    BY <1>9 DEF Prepare, ModelCall, LaneUnchanged
  <2>2. rounds' = <<>> /\ call' # 0
    BY <2>1 DEF RoundInv, Working, Stages, Checkpoints, Filing
  <2>3. round'.contract \in {0, call'}
    BY <1>9, <2>1 DEF Prepare, RoundInv, NewRound
  <2>4. QED BY <2>1, <2>2, <2>3, EmptyChain DEF RoundInv, Working, Bound, Final
<1>10. CASE IterationStart
  <2>1. stage = "iteration_start" /\ UNCHANGED <<rounds, round, call>>
    BY <1>10 DEF IterationStart, Interrupted, LaneUnchanged
  <2>2. stage' = "persist" \/ stage' = "explore" \/ (stage' = "code_execute_start" /\ round.contract = call)
    BY <1>10, <2>1 DEF IterationStart, Interrupted, Return, RoundInv, Working, Stages, Checkpoints, Filing
  <2>3. CASE stage' = "persist" \/ stage' = "explore"
    BY <2>1, <2>3, SameRounds DEF Working, Stages, Checkpoints, ModelCalls, Filing, Bound, Final
  <2>4. CASE stage' = "code_execute_start" /\ round.contract = call
    BY <2>1, <2>4
       DEF RoundInv, Chained, Open, Closed, Working, Stages, Checkpoints, ModelCalls, Filing, Bound, Final
  <2>5. QED BY <2>2, <2>3, <2>4
<1>11. CASE Formulate
  <2>1. stage = "formulate" /\ stage' = "handoff" /\ UNCHANGED <<rounds, call>>
    BY <1>11 DEF Formulate, ModelCall, LaneUnchanged
  <2>2. round'.contract = call /\ round'.iteration = round.iteration
    BY <1>1, <1>11 DEF Formulate, Round
  <2>3. QED BY <2>1, <2>2
     DEF RoundInv, Chained, Open, Closed, Working, Stages, Checkpoints, ModelCalls, Filing, Bound, Final
<1>12. CASE CodeReturns \/ Review
  <2>1. /\ stage \in {"code", "review"} /\ stage' \in {"persist", "code_execute_complete", "revision"}
        /\ UNCHANGED <<rounds, call>>
    BY <1>12 DEF CodeReturns, Review, ModelCall, LaneUnchanged, Interrupted, Return
  <2>2. round'.contract = round.contract /\ round'.iteration = round.iteration
    BY <1>1, <1>12, ReviewTypes DEF CodeReturns, Interrupted, Round
  <2>3. QED BY <2>1, <2>2
     DEF RoundInv, Chained, Open, Closed, Working, Stages, Checkpoints, ModelCalls, Filing, Bound, Final
<1>13. CASE Revision
  <2>1. /\ stage = "revision" /\ UNCHANGED <<rounds, round, call>>
        /\ stage' = IF Closing THEN "unify" ELSE "next"
    BY <1>13 DEF Revision, ModelCall, LaneUnchanged
  <2>2. Closing' <=> Closing
    BY <2>1 DEF Closing
  <2>3. QED BY <2>1, <2>2
     DEF RoundInv, Chained, Open, Closed, Working, Stages, Checkpoints, ModelCalls, Filing, Bound, Final
<1>14. CASE NextRound
  <2>1. /\ stage = "next" /\ stage' = "iteration_start" /\ UNCHANGED call
        /\ rounds' = Append(rounds, Snapshot)
    BY <1>14 DEF NextRound, ModelCall, LaneUnchanged
  <2>2. round'.contract = round.contract /\ round'.iteration = round.iteration + 1
    BY <1>1, <1>14 DEF NextRound, Round
  <2>3. /\ ~ Closing /\ round.contract = call
        /\ Chained(rounds, call) /\ Open(rounds, round.iteration)
    BY <2>1 DEF RoundInv, Working, Stages, Bound, Final, Filing
  <2>4. /\ Snapshot \in Snapshots /\ Snapshot.contract = round.contract
        /\ Snapshot.iteration = round.iteration
        /\ Snapshot.decision = round.decision /\ Snapshot.unified = FALSE
    BY <1>1, SnapshotsAre DEF Snapshot, Round
  <2>5. Chained(rounds', call') /\ Open(rounds', round'.iteration)
    BY <1>1, <2>1, <2>2, <2>3, <2>4, ChainGrows DEF Closing
  <2>6. round'.contract = call' /\ call' # 0
    BY <2>1, <2>2, <2>3 DEF RoundInv, Working, Stages, Filing
  <2>7. QED BY <2>1, <2>5, <2>6 DEF RoundInv, Working, Bound, Final
<1>15. CASE Unify
  <2>1. /\ stage = "unify" /\ stage' = "final_report_start" /\ UNCHANGED <<call, round>>
        /\ rounds' = Append(rounds, [Snapshot EXCEPT !.unified = TRUE])
    BY <1>15 DEF Unify, ModelCall, LaneUnchanged
  <2>2. /\ Closing /\ round.contract = call /\ call # 0
        /\ Chained(rounds, call) /\ Open(rounds, round.iteration)
    BY <2>1 DEF RoundInv, Working, Stages, ModelCalls, Bound, Final, Filing
  <2>3. PICK x \in Snapshots : /\ x = [Snapshot EXCEPT !.unified = TRUE] /\ x.contract = round.contract
                               /\ x.iteration = round.iteration
                               /\ x.decision = round.decision /\ x.unified
    <3>1. Snapshot \in Snapshots /\ Snapshot.contract = round.contract
          /\ Snapshot.iteration = round.iteration /\ Snapshot.decision = round.decision
      BY <1>1, SnapshotsAre DEF Snapshot, Round
    <3>2. /\ [Snapshot EXCEPT !.unified = TRUE] \in Snapshots
          /\ [Snapshot EXCEPT !.unified = TRUE].contract = round.contract
          /\ [Snapshot EXCEPT !.unified = TRUE].iteration = round.iteration
          /\ [Snapshot EXCEPT !.unified = TRUE].decision = round.decision
          /\ [Snapshot EXCEPT !.unified = TRUE].unified
      BY <3>1, SnapshotsAre
    <3>3. QED BY <3>2
  <2>4. Chained(rounds', call') /\ Closed(rounds')
    BY <1>1, <2>1, <2>2, <2>3, ChainGrows DEF Closing
  <2>5. QED BY <2>1, <2>2, <2>4 DEF RoundInv, Working, Bound, Final
<1>16. QED
  BY <1>3, <1>4, <1>5, <1>6, <1>7, <1>8, <1>9, <1>10, <1>11, <1>12, <1>13, <1>14, <1>15 DEF Next, CallStep

\* Every step keeps the completed results closed.
LEMMA ResultStep ==
  Types /\ PlaceInv /\ RoundInv /\ ResultInv /\ [Next]_vars => ResultInv'
<1> SUFFICES ASSUME Types, PlaceInv, RoundInv, ResultInv, [Next]_vars PROVE ResultInv'
  OBVIOUS
<1>1. ASSUME UNCHANGED results PROVE ResultInv'
  BY <1>1 DEF ResultInv, Chained, Closed
<1>2. CASE Returns
  <2>1. stage # "idle" /\ UNCHANGED call
    BY <1>2 DEF Returns, Working
  <2>2. PICK status \in Ended, allowed \in SUBSET Paths, snapshots \in Seq(Snapshots) :
          /\ Return(status, allowed, snapshots)
          /\ status = "completed" => stage = "compose" /\ snapshots = rounds
    BY <1>2, RoundTypes DEF Returns
  <2>3. /\ \A a \in Attempts : a # Attempt => results'[a] = results[a]
        /\ results'[Attempt] = [status |-> status, rounds |-> snapshots,
                                allow |-> allowed, call |-> call]
    BY <2>1, <2>2, ReturnTypes
  <2>4. /\ results'[Attempt].status = status /\ results'[Attempt].rounds = snapshots
        /\ results'[Attempt].call = call
    BY <2>3
  <2>5. status = "completed" => Chained(snapshots, call) /\ Closed(snapshots)
    BY <2>2 DEF RoundInv, Working, Stages, ModelCalls, Final, Filing
  <2>6. ASSUME NEW a \in Attempts, results'[a].status = "completed"
        PROVE  Chained(results'[a].rounds, results'[a].call) /\ Closed(results'[a].rounds)
    <3>1. CASE a = Attempt
      BY <2>4, <2>5, <2>6, <3>1
    <3>2. CASE a # Attempt
      BY <2>3, <2>6, <3>2 DEF ResultInv
    <3>3. QED BY <3>1, <3>2
  <2>7. QED BY <2>6 DEF ResultInv, Chained, Closed
<1>3. CASE Dispatch
  <2>1. \A a \in Attempts : results'[a] = results[a] \/ results'[a] = Reserved
    BY <1>3 DEF Dispatch, Types, FileTypes
  <2>2. \A a \in Attempts : results'[a].status = "completed" => results'[a] = results[a]
    BY <2>1, ReservedReport
  <2>3. ASSUME NEW a \in Attempts, results'[a].status = "completed"
        PROVE  Chained(results'[a].rounds, results'[a].call) /\ Closed(results'[a].rounds)
    BY <2>2, <2>3 DEF ResultInv
  <2>4. QED BY <2>3 DEF ResultInv, Chained, Closed
<1>4. UNCHANGED results \/ Returns \/ Dispatch
  BY WorkingSteps DEF Next, vars, Goes, PersistIndex, PersistFinal, PersistPackage, Save, SaveFailure,
     SaveAs, Answer, Refuse, Code, Operator, Script, Job, Crash, Rollback
<1>5. QED BY <1>1, <1>2, <1>3, <1>4

\* A completed result closes with a unified report on an approved or a last
\* iteration, after consecutive unapproved ones under one contract of its call.
THEOREM ClosesByReview == Spec => []ClosedByReview
<1>1. Init => Types /\ PlaceInv /\ RoundInv /\ ResultInv
  BY TypesInit, PlaceInit, RoundInit
<1>2. Types /\ PlaceInv /\ RoundInv /\ ResultInv /\ [Next]_vars
        => Types' /\ PlaceInv' /\ RoundInv' /\ ResultInv'
  BY TypesStep, PlaceStep, RoundStep, ResultStep
<1>3. Types /\ ResultInv => ClosedByReview
  <2> SUFFICES ASSUME Types, ResultInv, NEW a \in Attempts, results[a].status = "completed"
               PROVE  LET done == results[a].rounds  last == Len(done) IN
                      /\ last > 0
                      /\ done[last].unified
                      /\ done[last].decision = "approve" \/ done[last].iteration = Limit
                      /\ \A k \in 1 .. last - 1 :
                            /\ done[k].decision # "approve" /\ ~ done[k].unified
                            /\ done[k + 1].iteration = done[k].iteration + 1
                            /\ done[k + 1].contract = done[k].contract
                      /\ done[last].contract = results[a].call
    BY DEF ClosedByReview
  <2> DEFINE done == results[a].rounds
             last == Len(done)
  <2>1. last \in Nat
    BY LenProperties DEF Types, FileTypes, Report
  <2>2. Chained(done, results[a].call) /\ Closed(done)
    BY DEF ResultInv
  <2> HIDE DEF done
  <2>3. \A k \in 1 .. last - 1 : k \in 1 .. last /\ k + 1 \in 1 .. last
    BY <2>1
  <2>4. /\ last > 0 /\ done[last].unified
        /\ done[last].decision = "approve" \/ done[last].iteration = Limit
    BY <2>2 DEF Closed
  <2>5. done[last].contract = results[a].call
    BY <2>1, <2>2, <2>4 DEF Chained
  <2>6. \A k \in 1 .. last - 1 :
          /\ done[k].decision # "approve" /\ ~ done[k].unified
          /\ done[k + 1].iteration = done[k].iteration + 1
          /\ done[k + 1].contract = done[k].contract
    BY <2>2, <2>3 DEF Chained
  <2>7. QED BY <2>4, <2>5, <2>6 DEF done
<1>4. QED BY <1>1, <1>2, <1>3, PTL DEF Spec

-----------------------------------------------------------------------------
(* The exchange files a stage reads                                           *)

Reviewed == {"model_code_review_start", "review", "revision", "next", "unify"} \cup Final
Revised == {"next", "unify"} \cup Final

\* The files of the rounds ended, and those of the round in progress so far.
FileInv ==
  /\ stage = "idle" => round.iteration = round.start
  /\ stage \in Working =>
       /\ round.start <= round.iteration
       /\ \A i \in round.start .. round.iteration - 1 :
            OnFile(i, "model-to-code-revision") /\ OnFile(i, "code-to-model")
  /\ stage \in Working \ Bound /\ round.contract # 0 =>
       round.resumed \/ round.iteration > round.start
  /\ stage \in Bound \ {"handoff"} =>
       \/ round.resumed \/ round.iteration > round.start
       \/ OnFile(round.iteration, "model-to-code")
  /\ stage \in Reviewed => OnFile(round.iteration, "code-to-model")
  /\ stage \in Revised => OnFile(round.iteration, "model-to-code-revision")

\* No file is needed before the first dispatch.
LEMMA FileInit == Init => FileInv
BY DEF Init, NewRound, FileInv, Working, Bound, Final, Reviewed, Revised

\* A call keeps the files it has, and has the one it archives.
LEMMA FilesKept ==
  ASSUME Types, stage # "idle", UNCHANGED <<call, record>>,
         UNCHANGED <<ctx.allow, archive>> \/ (\E name \in Names : ArchiveAs(name))
  PROVE  /\ \A i \in Iterations, name \in Names : OnFile(i, name) => OnFile(i, name)'
         /\ round'.iteration = round.iteration =>
              \A name \in Names : ArchiveAs(name) => OnFile(round.iteration, name)'
<1>1. /\ ctx.allow \subseteq Paths /\ UNCHANGED Attempt
      /\ Attempt \in Attempts
  BY RoundTypes DEF Attempt, Types, CallTypes
<1>2. ASSUME NEW name \in Names, ArchiveAs(name)
      PROVE  /\ round'.iteration = round.iteration => OnFile(round.iteration, name)'
             /\ \A p \in ctx.allow : archive[p] \in {call, Overwritten} =>
                  p \in ctx'.allow /\ archive'[p] \in {call, Overwritten}
  <2>1. /\ archive'[Archived(name)] = call
        /\ \A p \in Paths : p # Archived(name) => archive'[p] = archive[p]
        /\ ctx'.allow = ctx.allow \cup {Archived(name)}
    BY <1>2, ArchiveTypes
  <2>2. Archived(name) \in ctx'.allow /\ archive'[Archived(name)] = call
    BY <2>1
  <2>3. ASSUME round'.iteration = round.iteration PROVE OnFile(round.iteration, name)'
    BY <1>1, <2>2, <2>3 DEF OnFile, Archived
  <2>4. ASSUME NEW p \in ctx.allow, archive[p] \in {call, Overwritten}
        PROVE  p \in ctx'.allow /\ archive'[p] \in {call, Overwritten}
    BY <1>1, <2>1, <2>4
  <2>5. QED BY <2>3, <2>4
<1>3. \A p \in ctx.allow : archive[p] \in {call, Overwritten} =>
        p \in ctx'.allow /\ archive'[p] \in {call, Overwritten}
  BY <1>2
<1>4. UNCHANGED <<call, Overwritten>>
  BY DEF Overwritten
<1>5. QED BY <1>1, <1>2, <1>3, <1>4 DEF OnFile

\* Generated code may overwrite an exchange file, and writes no other mark.
LEMMA ScriptMarks ==
  ASSUME Types, Script
  PROVE  \A p \in Paths : archive'[p] \in {archive[p], Overwritten}
<1>1. archive \in Archives(call)
  BY DEF Types, FileTypes
<1>2. UNCHANGED archive \/ \E p \in Paths : archive' = [archive EXCEPT ![p] = Overwritten]
  BY DEF Script
<1> QED BY <1>1, <1>2 DEF Archives

\* A step of a call that stays in its round.
LEMMA FilesStep ==
  ASSUME Types, FileInv, stage \in Working, stage' \in Working, UNCHANGED <<call, record>>,
         UNCHANGED <<ctx.allow, archive>> \/ (\E name \in Names : ArchiveAs(name)),
         round'.start = round.start, round'.resumed = round.resumed,
         round'.iteration = round.iteration,
         stage' \notin Bound /\ round'.contract # 0 => stage \notin Bound /\ round.contract # 0,
         stage' \in Bound \ {"handoff"} =>
            \/ stage \in Bound \ {"handoff"} \/ (stage \notin Bound /\ round.contract # 0)
            \/ ArchiveAs("model-to-code"),
         stage' \in Reviewed => stage \in Reviewed \/ ArchiveAs("code-to-model"),
         stage' \in Revised => stage \in Revised \/ ArchiveAs("model-to-code-revision")
  PROVE  FileInv'
<1>1. stage # "idle" /\ stage' # "idle"
  BY DEF Working
<1>2. /\ round.iteration \in Iterations /\ round.start \in Iterations
      /\ \A i \in round.start .. round.iteration - 1 : i \in Iterations
  <2>1. round.iteration \in Iterations /\ round.start \in Iterations
    BY RoundTypes DEF Round
  <2>2. QED BY <2>1, Numbers
<1>3. {"model-to-code", "code-to-model", "model-to-code-revision"} \subseteq Names
  BY DEF Names
<1>4. /\ \A i \in Iterations, name \in Names : OnFile(i, name) => OnFile(i, name)'
      /\ \A name \in Names : ArchiveAs(name) => OnFile(round.iteration, name)'
  BY <1>1, FilesKept
<1>5. /\ round.start <= round.iteration
      /\ \A i \in round.start .. round.iteration - 1 :
            OnFile(i, "model-to-code-revision")' /\ OnFile(i, "code-to-model")'
  BY <1>2, <1>3, <1>4 DEF FileInv
<1>6. stage' \in Reviewed => OnFile(round.iteration, "code-to-model")'
  BY <1>2, <1>3, <1>4 DEF FileInv
<1>7. stage' \in Revised => OnFile(round.iteration, "model-to-code-revision")'
  BY <1>2, <1>3, <1>4 DEF FileInv
<1>8. stage' \notin Bound /\ round'.contract # 0 => round.resumed \/ round.iteration > round.start
  BY DEF FileInv
<1>9. stage' \in Bound \ {"handoff"} =>
        \/ round.resumed \/ round.iteration > round.start
        \/ OnFile(round.iteration, "model-to-code")'
  BY <1>2, <1>3, <1>4 DEF FileInv
<1>10. QED BY <1>1, <1>5, <1>6, <1>7, <1>8, <1>9 DEF FileInv, OnFile

\* The steps of a call that stay in its round.
LEMMA SameRoundFiles ==
  ASSUME Types, FileInv, Passes \/ Explore \/ Reexplore \/ Summarize \/ Formulate \/ ModelToCode
                         \/ CodeReturns \/ CodeToModel \/ Review \/ Revision \/ Unify \/ Disclose,
         stage' \in Working
  PROVE  FileInv'
<1> USE DEF Working, Stages, Checkpoints, ModelCalls, Filing, Bound, Final, Reviewed, Revised
<1>1. round \in Round
  BY RoundTypes
<1>2. CASE Passes
  <2>1. ~StopsHere /\ UNCHANGED <<call, record, round, archive>> /\ stage \in Working
    BY <1>2 DEF Passes, SolveStart, CodeStart, CodeDone, ReviewStart, FinalStart, IterationStart, Checkpoint,
       LaneUnchanged, Interrupted, Return
  <2>2. UNCHANGED ctx.allow
    BY <1>2, <2>1, ConsumedTypes DEF Passes, SolveStart, CodeStart, CodeDone, ReviewStart, FinalStart,
       IterationStart, Checkpoint, Context
  <2>3. \/ stage = "solve_start" /\ stage' = "prepare"
        \/ stage = "iteration_start" /\ stage' = "explore"
        \/ stage = "iteration_start" /\ stage' = "code_execute_start" /\ round.contract # 0
        \/ stage = "code_execute_start" /\ stage' = "code"
        \/ stage = "code_execute_complete" /\ stage' = "coding_report"
        \/ stage = "model_code_review_start" /\ stage' = "review"
        \/ stage = "final_report_start" /\ stage' = "compose"
    BY <1>2, <2>1
       DEF Passes, SolveStart, CodeStart, CodeDone, ReviewStart, FinalStart, IterationStart, Checkpoint
  <2>4. QED BY <2>1, <2>2, <2>3, FilesStep
<1>3. CASE Explore \/ Reexplore \/ Summarize \/ Disclose
  <2>1. /\ UNCHANGED <<call, record, round, ctx, archive>> /\ stage \in {"explore", "disclose", "reexplore", "summarize"}
        /\ stage' \in {"disclose", "reexplore", "summarize", "formulate"}
    BY <1>3 DEF Explore, Reexplore, Summarize, Disclose, ModelCall, LaneUnchanged, Return
  <2>2. QED BY <2>1, FilesStep
<1>4. CASE Formulate
  <2>1. /\ UNCHANGED <<call, record>> /\ stage = "formulate" /\ stage' = "handoff"
        /\ ArchiveAs("preliminary_modeling_report") /\ "preliminary_modeling_report" \in Names
    BY <1>4 DEF Formulate, ModelCall, LaneUnchanged, Names
  <2>2. round'.start = round.start /\ round'.resumed = round.resumed /\ round'.iteration = round.iteration
    BY <1>1, <1>4 DEF Formulate, Round
  <2>3. QED BY <2>1, <2>2, FilesStep
<1>5. CASE ModelToCode
  <2>1. /\ UNCHANGED <<call, record, round>> /\ stage = "handoff" /\ stage' = "code_execute_start"
        /\ ArchiveAs("model-to-code") /\ "model-to-code" \in Names
    BY <1>5 DEF ModelToCode, ModelCall, LaneUnchanged, Names
  <2>2. QED BY <2>1, FilesStep
<1>6. CASE CodeReturns
  <2>1. /\ UNCHANGED <<call, record, ctx, archive>> /\ stage = "code" /\ stage' = "code_execute_complete"
    BY <1>6 DEF CodeReturns, Interrupted, Return
  <2>2. round'.start = round.start /\ round'.resumed = round.resumed /\ round'.iteration = round.iteration
    BY <1>1, <1>6, <2>1 DEF CodeReturns, Interrupted, Return, Round
  <2>3. QED BY <2>1, <2>2, FilesStep
<1>7. CASE CodeToModel
  <2>1. /\ UNCHANGED <<call, record, round>> /\ stage = "coding_report" /\ stage' = "model_code_review_start"
        /\ ArchiveAs("code-to-model") /\ "code-to-model" \in Names
    BY <1>7 DEF CodeToModel, ModelCall, LaneUnchanged, Names
  <2>2. QED BY <2>1, FilesStep
<1>8. CASE Review
  <2>1. /\ UNCHANGED <<call, record, ctx, archive>> /\ stage = "review" /\ stage' = "revision"
    BY <1>8 DEF Review, ModelCall, LaneUnchanged
  <2>2. round'.start = round.start /\ round'.resumed = round.resumed /\ round'.iteration = round.iteration
    BY <1>8, ReviewTypes
  <2>3. QED BY <2>1, <2>2, FilesStep
<1>9. CASE Revision
  <2>1. /\ UNCHANGED <<call, record, round>> /\ stage = "revision" /\ stage' \in {"unify", "next"}
        /\ ArchiveAs("model-to-code-revision") /\ "model-to-code-revision" \in Names
    BY <1>9 DEF Revision, ModelCall, LaneUnchanged, Names
  <2>2. QED BY <2>1, FilesStep
<1>10. CASE Unify
  <2>1. /\ UNCHANGED <<call, record, round>> /\ stage = "unify" /\ stage' = "final_report_start"
        /\ ArchiveAs("modeling_report") /\ "modeling_report" \in Names
    BY <1>10 DEF Unify, ModelCall, LaneUnchanged, Names
  <2>2. QED BY <2>1, FilesStep
<1>11. QED BY <1>2, <1>3, <1>4, <1>5, <1>6, <1>7, <1>8, <1>9, <1>10

\* Every step keeps the files that a later stage reads.
LEMMA FileStep == Types /\ RoundInv /\ FileInv /\ [Next]_vars => FileInv'
<1> SUFFICES ASSUME Types, RoundInv, FileInv, [Next]_vars PROVE FileInv'
  OBVIOUS
<1>1. Bound \subseteq Working /\ Reviewed \subseteq Bound /\ Revised \subseteq Bound /\ "idle" \notin Working
  BY DEF Reviewed, Revised, Bound, Final, Working, Stages, Checkpoints, ModelCalls, Filing
<1>2. round \in Round
  BY RoundTypes
<1>3. CASE stage' \notin Working
  <2>1. CASE stage' # "idle"
    BY <1>1, <1>3, <2>1 DEF FileInv
  <2>2. CASE stage' = "idle" /\ stage # "idle"
    <3>1. round' = NewRound(1, FALSE)
      BY <2>2 DEF Next, vars, CallStep, Passes, SolveStart, CodeStart, CodeDone, ReviewStart, FinalStart,
         IterationStart, Checkpoint, Interrupted, Return, Prepare, Explore, NoRoute, Disclose, Reexplore,
         Summarize, Formulate, ModelToCode, CodeReturns, CodeToModel, Review, Revision, NextRound, Unify,
         Compose, Raise, PersistIndex, PersistFinal, PersistPackage, Save, SaveFailure, SaveAs, Forgets,
         Dispatch, Answer, Refuse, Ready, Code, Operator, Script, Job, Crash, Rollback
    <3>2. QED BY <1>1, <1>3, <3>1 DEF FileInv, NewRound
  <2>3. CASE stage' = "idle" /\ stage = "idle"
    <3>1. round' = round \/ round' = NewRound(1, FALSE)
      BY <2>3 DEF Next, vars, CallStep, SolveStart, CodeStart, CodeDone, ReviewStart, FinalStart,
         IterationStart, Checkpoint, Prepare, Explore, NoRoute, Disclose, Reexplore,
         Summarize, Formulate, ModelToCode, CodeReturns, CodeToModel, Review, Revision, NextRound, Unify,
         Compose, Raise, ModelCall, ModelCalls, PersistIndex, PersistFinal, PersistPackage, Save,
         SaveFailure, Forgets, Dispatch, Answer, Refuse, Code, Operator, Script, Job, Crash, Rollback
    <3>2. round'.iteration = round'.start
      BY <2>3, <3>1 DEF FileInv, NewRound
    <3>3. QED BY <1>1, <1>3, <3>2 DEF FileInv
  <2>4. QED BY <2>1, <2>2, <2>3
<1>4. CASE stage' \in Working
  <2>1. CASE UNCHANGED <<stage, call, record, ctx, round, archive>>
    BY <2>1 DEF FileInv, OnFile, Attempt
  <2>2. CASE Dispatch
    <3>1. stage = "idle" /\ stage' = "solve_start" /\ UNCHANGED round
      BY <2>2 DEF Dispatch, Ready
    <3>2. round.iteration = round.start /\ round.contract = 0
      BY <3>1 DEF FileInv, RoundInv
    <3>3. \A i : i \notin round.start .. round.iteration - 1
      BY <1>2, <3>2, Numbers DEF Round
    <3>4. QED BY <1>2, <3>1, <3>2, <3>3, Numbers
       DEF FileInv, Round, Bound, Final, Reviewed, Revised, Working, Stages, Checkpoints, Filing
  <2>3. CASE Prepare
    <3>1. stage = "prepare" /\ stage' = "iteration_start"
      BY <2>3 DEF Prepare, ModelCall
    <3>2. CASE \E i \in ResumeFrom : round' = [NewRound(i, TRUE) EXCEPT !.contract = call]
      <4>1. round'.start = round'.iteration /\ round'.resumed /\ round'.iteration \in Nat
        BY <3>2, Numbers DEF NewRound
      <4>2. \A i : i \notin round'.start .. round'.iteration - 1
        BY <4>1
      <4>3. QED BY <3>1, <4>1, <4>2
         DEF FileInv, Bound, Final, Reviewed, Revised, Working, Stages, Checkpoints, Filing
    <3>3. CASE UNCHANGED round
      <4>1. UNCHANGED <<round, ctx, archive, call, record>>
        BY <2>3, <3>3 DEF Prepare, ModelCall, LaneUnchanged
      <4>2. QED BY <3>1, <4>1, FilesStep
         DEF Bound, Final, Reviewed, Revised, Working, Stages, Checkpoints, Filing
    <3>4. QED BY <2>3, <3>2, <3>3 DEF Prepare
  <2>4. CASE NextRound
    <3>1. /\ stage = "next" /\ stage' = "iteration_start" /\ UNCHANGED <<call, record, ctx, archive>>
      BY <2>4 DEF NextRound, ModelCall, LaneUnchanged
    <3>2. round'.iteration = round.iteration + 1 /\ round'.start = round.start
      BY <1>2, <2>4 DEF NextRound, Round
    <3>3. round.iteration \in Nat /\ round.start \in Nat /\ round.start <= round.iteration
      BY <1>2, <3>1, Numbers DEF FileInv, Round, Working, Stages, Filing
    <3>4. /\ OnFile(round.iteration, "code-to-model")
          /\ OnFile(round.iteration, "model-to-code-revision")
      BY <3>1 DEF FileInv, Reviewed, Revised
    <3>5. \A i \in round.start .. round.iteration :
            OnFile(i, "model-to-code-revision") /\ OnFile(i, "code-to-model")
      <4>1. \A i \in round.start .. round.iteration :
              i = round.iteration \/ i \in round.start .. round.iteration - 1
        BY <3>3
      <4>2. QED BY <3>1, <3>4, <4>1 DEF FileInv, Working, Stages, Filing
    <3>6. round'.start .. round'.iteration - 1 = round.start .. round.iteration
      BY <3>2, <3>3
    <3>7. \A i \in round'.start .. round'.iteration - 1 :
            OnFile(i, "model-to-code-revision")' /\ OnFile(i, "code-to-model")'
      BY <3>1, <3>5, <3>6 DEF OnFile, Attempt
    <3>8. QED BY <3>1, <3>2, <3>3, <3>7
       DEF FileInv, Bound, Final, Reviewed, Revised, Working, Stages, Checkpoints, Filing
  <2>5. \/ Passes \/ Explore \/ Reexplore \/ Summarize \/ Formulate \/ ModelToCode
        \/ CodeReturns \/ CodeToModel \/ Review \/ Revision \/ Unify \/ Disclose
        \/ Dispatch \/ Prepare \/ NextRound \/ Script
        \/ UNCHANGED <<stage, call, record, ctx, round, archive>>
    BY <1>4 DEF Next, vars, CallStep, Passes, NoRoute, Compose, Raise, Return, PersistIndex, PersistFinal,
       PersistPackage, Save, SaveFailure, SaveAs, Answer, Refuse, Ready, Code, Operator, Job, Crash,
       Rollback, Working, Filing
  <2>6. CASE Script
    <3>1. UNCHANGED <<stage, call, record, ctx, round>>
      BY <2>6 DEF Script
    <3>2. ctx.allow \subseteq Paths /\ \A p \in Paths : archive'[p] \in {archive[p], Overwritten}
      BY <2>6, RoundTypes, ScriptMarks
    <3>3. ASSUME NEW i, NEW name, OnFile(i, name) PROVE OnFile(i, name)'
      BY <3>1, <3>2, <3>3 DEF OnFile, Attempt, Overwritten
    <3> QED BY <3>1, <3>3 DEF FileInv
  <2>7. QED BY <1>4, <2>1, <2>2, <2>3, <2>4, <2>5, <2>6, SameRoundFiles
<1>5. QED BY <1>3, <1>4

\* The exchange file a stage reads was written by this very call, or by
\* generated code since, and is named to the next reader, whatever a lost call
\* of the attempt has left there.
THEOREM ArchivedFirst == Spec => []ArchivedBeforeNext
<1>1. Init => Types /\ RoundInv /\ FileInv
  BY TypesInit, RoundInit, FileInit
<1>2. Types /\ RoundInv /\ FileInv /\ [Next]_vars => Types' /\ RoundInv' /\ FileInv'
  BY TypesStep, RoundStep, FileStep
<1>3. Types /\ FileInv => ArchivedBeforeNext
  <2> SUFFICES ASSUME Types, FileInv PROVE ArchivedBeforeNext
    OBVIOUS
  <2>1. round.iteration \in Nat /\ round.start \in Nat
    BY RoundTypes, Numbers DEF Round
  <2>2. ASSUME stage = "code"
        PROVE  IF round.iteration > round.start
               THEN OnFile(round.iteration - 1, "model-to-code-revision")
               ELSE round.resumed \/ OnFile(round.iteration, "model-to-code")
    <3>1. CASE round.iteration > round.start
      <4>1. round.iteration - 1 \in round.start .. round.iteration - 1
        BY <2>1, <3>1
      <4>2. QED BY <2>2, <3>1, <4>1 DEF FileInv, Working, Stages, Filing
    <3>2. CASE ~ (round.iteration > round.start)
      BY <2>2, <3>2 DEF FileInv, Bound
    <3>3. QED BY <3>1, <3>2
  <2>3. stage = "review" => OnFile(round.iteration, "code-to-model")
    BY DEF FileInv, Reviewed
  <2>4. ASSUME stage = "compose", NEW i \in round.start .. round.iteration
        PROVE  OnFile(i, "model-to-code-revision") /\ OnFile(i, "code-to-model")
    <3>1. i = round.iteration \/ i \in round.start .. round.iteration - 1
      BY <2>1
    <3>2. QED BY <2>4, <3>1
       DEF FileInv, Reviewed, Revised, Final, Working, Stages, ModelCalls, Filing
  <2>5. QED BY <2>2, <2>3, <2>4 DEF ArchivedBeforeNext
<1>4. QED BY <1>1, <1>2, <1>3, PTL DEF Spec

-----------------------------------------------------------------------------
(* Whose files and lanes those of a call are                                  *)

By(a) == {e \in Evidence : e.lane[1] <= a}

\* A lane belongs to the attempt it is named after, and to no later one.
LaneInv ==
  /\ \A l \in Lanes : source[l] # NoSource => l[1] <= Attempt
  /\ stage = "code" =>
       /\ agent.lane = <<Attempt, round.iteration>>
       /\ agent.script[1] <= Attempt /\ agent.evidence \subseteq By(Attempt)

\* What a call has archived and found is its own, or older.
OwnInv ==
  /\ stage = "idle" => ctx.allow = {} /\ round.evidence = {} /\ rounds = <<>>
  /\ stage \in Working =>
       ctx.allow \subseteq Own /\ round.evidence \subseteq By(Attempt) /\ EvidenceOf(rounds) \subseteq By(Attempt)

\* The evidence of rounds with one more at the end.
LEMMA EvidenceGrows ==
  /\ EvidenceOf(<<>>) = {}
  /\ \A s \in Seq(Snapshots), x \in Snapshots :
       EvidenceOf(Append(s, x)) = EvidenceOf(s) \cup x.evidence
<1>1. EvidenceOf(<<>>) = {}
  BY EmptySeq DEF EvidenceOf
<1>2. ASSUME NEW s \in Seq(Snapshots), NEW x \in Snapshots
      PROVE  EvidenceOf(Append(s, x)) = EvidenceOf(s) \cup x.evidence
  <2>1. /\ Len(s) \in Nat /\ DOMAIN s = 1 .. Len(s) /\ DOMAIN Append(s, x) = 1 .. Len(s) + 1
        /\ Append(s, x)[Len(s) + 1] = x
        /\ \A k \in 1 .. Len(s) : Append(s, x)[k] = s[k]
    BY AppendProperties, LenProperties
  <2>2. DOMAIN Append(s, x) = DOMAIN s \cup {Len(s) + 1}
    BY <2>1
  <2>3. QED BY <2>1, <2>2 DEF EvidenceOf
<1>3. QED BY <1>1, <1>2

\* No step takes an attempt back.
LEMMA AttemptsGrow == Types /\ [Next]_vars => Attempt' >= Attempt /\ Attempt \in Nat /\ Attempt' \in Nat
<1> SUFFICES ASSUME Types, [Next]_vars PROVE Attempt' >= Attempt /\ Attempt \in Nat /\ Attempt' \in Nat
  OBVIOUS
<1>1. record.attempts \in Nat /\ record \in [status : {"ready"} \cup Marks, attempts : 0 .. MaxAttempts]
  BY Numbers DEF Types, CallTypes
<1>2. CASE Save \/ SaveFailure \/ Refuse
  <2>1. record'.attempts = record.attempts + 1
    BY <1>2 DEF Save, SaveFailure, SaveAs, Refuse, Attempt
  <2>2. QED BY <1>1, <2>1 DEF Attempt
<1>3. CASE Rollback
  <2>1. record'.attempts = record.attempts
    BY <1>1, <1>3 DEF Rollback
  <2>2. QED BY <1>1, <2>1 DEF Attempt
<1>4. CASE UNCHANGED record
  BY <1>1, <1>4 DEF Attempt
<1>5. UNCHANGED record \/ Save \/ SaveFailure \/ Refuse \/ Rollback
  BY WorkingSteps DEF Next, vars, Goes, Returns, PersistIndex, PersistFinal, PersistPackage, Dispatch,
     Answer, Code, Operator, Script, Job, Crash
<1>6. QED BY <1>2, <1>3, <1>4, <1>5

\* What a step of the agent leaves alone.
LEMMA AgentFrame ==
  ASSUME LaneSound, AgentStep
  PROVE  /\ agent'.lane = agent.lane
         /\ \A l \in Lanes : source'[l] # source[l] => l = agent.lane
         /\ UNCHANGED outputs
         /\ agent'.script = agent.script \/ source[agent'.script] # NoSource
         /\ \/ agent'.evidence \in {agent.evidence, {}}
            \/ \A e \in agent'.evidence : e.lane = agent.script
<1>1. /\ agent \in Agents /\ source \in [Lanes -> Sources \cup {NoSource}]
      /\ outputs \in [Lanes -> 0 .. MaxWrites] /\ jobs \in [Jobs -> Processes]
  BY LaneTypesAre DEF LaneSound
<1>2. ASSUME NEW s \in Sources, WriteSource(s) \/ AppendSource(s)
      PROVE  UNCHANGED <<agent, outputs>> /\ \A l \in Lanes : source'[l] # source[l] => l = agent.lane
  BY <1>1, <1>2 DEF WriteSource, AppendSource, Here
<1>3. ASSUME NEW j \in Jobs, PythonExecute(j) \/ PythonContinue(j) \/ PythonCancel(j)
      PROVE  /\ UNCHANGED <<source, outputs>> /\ agent'.lane = agent.lane
             /\ agent'.script = agent.script /\ agent'.evidence = agent.evidence
  BY <1>1, <1>3 DEF PythonExecute, PythonContinue, PythonCancel, Agents
<1>4. ASSUME SoftCheckpoint \/ JobReturns \/ AgentFails \/ InterruptCode
      PROVE  /\ UNCHANGED <<source, outputs>> /\ agent'.lane = agent.lane
             /\ agent'.script = agent.script /\ agent'.evidence \in {agent.evidence, {}}
  BY <1>1, <1>4 DEF SoftCheckpoint, JobReturns, Reports, AgentFails, InterruptCode, NoEvidence, Agents
<1>5. ASSUME NEW l \in Lanes, Handoff(l)
      PROVE  /\ UNCHANGED <<source, outputs>> /\ agent'.lane = agent.lane
             /\ source[agent'.script] # NoSource /\ agent'.evidence = {}
  BY <1>1, <1>5, IdleAgentType DEF Handoff, IdleAgent, NoEvidence, Here
<1>6. ASSUME AcceptanceRuns
      PROVE  /\ UNCHANGED <<source, outputs>> /\ agent'.lane = agent.lane
             /\ agent'.script = agent.script /\ agent'.evidence = agent.evidence
  BY <1>1, <1>6 DEF AcceptanceRuns, Agents
<1>7. ASSUME EvidenceIsTaken
      PROVE  /\ UNCHANGED <<source, outputs>> /\ agent'.lane = agent.lane
             /\ agent'.script = agent.script /\ \A e \in agent'.evidence : e.lane = agent.script
  <2>1. agent'.lane = agent.lane /\ agent'.script = agent.script /\ UNCHANGED <<source, outputs>>
    BY <1>1, <1>7 DEF EvidenceIsTaken, Agents
  <2>2. agent'.evidence = {[lane |-> agent.script, source |-> source[agent.script],
                            outputs |-> outputs[agent.script]]}
    BY <1>1, <1>7 DEF EvidenceIsTaken, Agents
  <2>3. QED BY <2>1, <2>2
<1>8. QED BY <1>2, <1>3, <1>4, <1>5, <1>6, <1>7 DEF AgentStep

\* Every step leaves the lanes to their attempts.
LEMMA LaneStep == Types /\ LaneInv /\ [Next]_vars => LaneInv'
<1> SUFFICES ASSUME Types, LaneInv, [Next]_vars PROVE LaneInv'
  OBVIOUS
<1>1. Attempt' >= Attempt /\ Attempt \in Nat /\ Attempt' \in Nat
  BY AttemptsGrow
<1>2. \A l \in Lanes : l[1] \in Nat
  BY Numbers DEF Lanes
<1>3. CASE Code
  <2>1. /\ UNCHANGED <<Attempt, round>> /\ stage = "code" /\ AgentStep
    BY <1>3 DEF Code, Attempt
  <2>2. /\ agent.lane = <<Attempt, round.iteration>> /\ agent.lane[1] = Attempt
        /\ agent.script[1] <= Attempt /\ agent.evidence \subseteq By(Attempt)
    BY <2>1 DEF LaneInv
  <2>3. LaneSound /\ LaneSound'
    BY <2>1, AgentTypes DEF Types
  <2>4. /\ agent'.lane = agent.lane
        /\ \A l \in Lanes : source'[l] # source[l] => l = agent.lane
        /\ agent'.script = agent.script \/ source[agent'.script] # NoSource
        /\ \/ agent'.evidence \in {agent.evidence, {}}
           \/ \A e \in agent'.evidence : e.lane = agent.script
    BY <2>1, <2>3, AgentFrame
  <2>5. agent'.script \in Lanes /\ agent'.evidence \in Found
    BY <2>3 DEF LaneSound, LaneTypeOK, Found
  <2>6. \A l \in Lanes : source'[l] # NoSource => l[1] <= Attempt
    BY <1>1, <1>2, <2>2, <2>4 DEF LaneInv
  <2>7. agent'.script[1] <= Attempt
    BY <2>2, <2>4, <2>5 DEF LaneInv
  <2>8. agent'.evidence \subseteq By(Attempt)
    <3>1. agent'.evidence \subseteq Evidence
      BY <2>5, FoundParts
    <3>2. QED BY <2>2, <2>4, <3>1 DEF By
  <2>9. QED BY <2>1, <2>2, <2>4, <2>6, <2>7, <2>8 DEF LaneInv, By
<1>4. CASE CodeStart /\ stage' = "code"
  <2>1. /\ UNCHANGED <<Attempt, round, source>> /\ BeginLane(<<Attempt, round.iteration>>)
    BY <1>4 DEF CodeStart, Checkpoint, Interrupted, Return, Attempt
  <2>2. /\ agent'.lane = <<Attempt, round.iteration>> /\ agent'.script = <<Attempt, round.iteration>>
        /\ agent'.evidence = {}
    BY <2>1 DEF BeginLane, IdleAgent, NoEvidence
  <2>3. QED BY <1>1, <2>1, <2>2 DEF LaneInv
<1>5. CASE stage' # "code" /\ UNCHANGED source
  BY <1>1, <1>2, <1>5 DEF LaneInv
<1>9. CASE Script
  <2>1. UNCHANGED <<stage, agent, round, record>>
    BY <1>9, WritesTypes DEF Script, laneVars, Types
  <2>2. \A l \in Lanes : source[l] = NoSource => source'[l] = NoSource
    BY <1>9, WritesTypes DEF Script, laneVars, Types
  <2> QED BY <2>1, <2>2 DEF LaneInv, By, Attempt
<1>6. CASE UNCHANGED <<stage, source, agent, round, record>>
  BY <1>6 DEF LaneInv, By, Attempt
<1>7. Code \/ Script \/ (CodeStart /\ stage' = "code") \/ (stage' # "code" /\ UNCHANGED source)
        \/ UNCHANGED <<stage, source, agent, round, record>>
  <2>1. CASE CallStep
    BY <2>1 DEF CallStep, SolveStart, CodeStart, CodeDone, ReviewStart, FinalStart,
       IterationStart, Checkpoint, Interrupted, Return, Prepare, Explore, NoRoute, Disclose, Reexplore,
       Summarize, Formulate, ModelToCode, CodeReturns, CodeToModel, Review, Revision, NextRound, Unify,
       Compose, Raise, ModelCall, LaneUnchanged, laneVars, PersistIndex, PersistFinal, PersistPackage,
       Save, SaveFailure, SaveAs
  <2>2. CASE Job
    BY <2>2 DEF Job, JobStep, JobExits
  <2>3. CASE Crash
    BY <2>3 DEF Crash, LaneCrash
  <2>4. CASE Dispatch \/ Answer \/ Refuse \/ Operator \/ Rollback \/ UNCHANGED vars
    BY <2>4 DEF vars, laneVars, Dispatch, Answer, Refuse, Ready, Operator, Rollback
  <2>5. QED BY <2>1, <2>2, <2>3, <2>4 DEF Next
<1>8. QED BY <1>3, <1>4, <1>5, <1>6, <1>7, <1>9

\* No lane has a source before the first dispatch.
LEMMA LaneInitial == Init => LaneInv /\ OwnInv
<1> SUFFICES ASSUME Init PROVE LaneInv /\ OwnInv
  OBVIOUS
<1>1. stage = "idle" /\ \A l \in Lanes : source[l] = NoSource
  BY DEF Init, LaneInit
<1>2. ctx.allow = {} /\ round.evidence = {} /\ rounds = <<>>
  BY DEF Init, NewContext, NewRound, NoEvidence
<1>3. QED BY <1>1, <1>2 DEF LaneInv, OwnInv, Working

\* Every step keeps what a call has archived and found its own, or older.
LEMMA OwnStep == Types /\ LaneInv /\ OwnInv /\ [Next]_vars => OwnInv'
<1> SUFFICES ASSUME Types, LaneInv, OwnInv, [Next]_vars PROVE OwnInv'
  OBVIOUS
<1>1. round \in Round /\ rounds \in Seq(Snapshots) /\ ctx.allow \subseteq Paths
  BY RoundTypes
<1>2. CASE stage' = "idle"
  <2>1. \/ stage = "idle" /\ UNCHANGED <<ctx, round, rounds>>
        \/ ctx' = NewContext /\ round' = NewRound(1, FALSE) /\ rounds' = <<>>
    <3>1. CASE CallStep
      BY <1>2, <3>1, WorkingSteps DEF Goes, Returns, Return, Working, PersistIndex, PersistFinal,
         PersistPackage, Save, SaveFailure, SaveAs, Forgets
    <3>2. CASE ~ CallStep
      BY <1>2, <3>2 DEF Next, vars, Dispatch, Answer, Refuse, Ready, Code, Operator, Script, Job,
         Crash, Rollback, Forgets
    <3>3. QED BY <3>1, <3>2
  <2>2. QED BY <1>2, <2>1 DEF OwnInv, Working, NewContext, NewRound, NoEvidence
<1>3. CASE stage' \notin Working \cup {"idle"}
  BY <1>3 DEF OwnInv
<1>4. CASE stage' \in Working /\ Dispatch
  <2>1. stage = "idle" /\ stage' # "idle" /\ UNCHANGED <<ctx, round, rounds, record>>
    BY <1>4 DEF Dispatch, Ready, Working
  <2>2. QED BY <2>1, EvidenceGrows DEF OwnInv, Own, By, Attempt
<1>5. CASE stage' \in Working /\ ~ Dispatch
  <2>1. stage \in Working /\ UNCHANGED record
    <3>1. CASE CallStep
      BY <1>5, <3>1, WorkingSteps DEF Goes, Returns, Return, Working, PersistIndex, PersistFinal,
         PersistPackage, Save, SaveFailure, SaveAs, Forgets, Filing
    <3>2. CASE ~ CallStep
      BY <1>5, <3>2 DEF Next, vars, Answer, Refuse, Ready, Code, Operator, Script, Job, Crash, Rollback, Working
    <3>3. QED BY <3>1, <3>2
  <2>2. /\ ctx.allow \subseteq Own /\ round.evidence \subseteq By(Attempt)
        /\ EvidenceOf(rounds) \subseteq By(Attempt)
    BY <2>1 DEF OwnInv
  <2>3. CASE CallStep
    <3>1. stage # "idle"
      BY <2>1 DEF Working
    <3>2. ctx'.allow \subseteq Own
      <4>1. CASE UNCHANGED ctx
        BY <2>2, <4>1
      <4>2. CASE Passes
        <5>1. ctx'.allow = ctx.allow
          BY <1>5, <4>2, ConsumedTypes DEF Passes, SolveStart, CodeStart, CodeDone, ReviewStart, FinalStart,
             IterationStart, Checkpoint, Context
        <5>2. QED BY <2>2, <5>1
      <4>3. CASE UNCHANGED call /\ \E name \in Names : ArchiveAs(name)
        <5>1. PICK name \in Names : ArchiveAs(name)
          BY <4>3
        <5>2. ctx'.allow = ctx.allow \cup {Archived(name)} /\ Archived(name) \in Paths
          BY <3>1, <4>3, <5>1, ArchiveTypes
        <5>3. Archived(name) \in Own
          BY <5>2 DEF Own, Archived
        <5>4. QED BY <2>2, <5>2, <5>3
      <4>4. QED BY <1>5, <2>3, <4>1, <4>2, <4>3
         DEF CallStep, Passes, Prepare, Explore, NoRoute, Disclose, Reexplore, Summarize, Formulate,
             ModelToCode, CodeReturns, CodeToModel, Review, Revision, NextRound, Unify, Compose, Raise,
             ModelCall, LaneUnchanged, PersistIndex, PersistFinal, PersistPackage, Save, SaveFailure,
             SaveAs, Names, Working
    <3>3. round'.evidence \subseteq By(Attempt)
      <4>1. CASE UNCHANGED round
        BY <2>2, <4>1
      <4>2. CASE Prepare \/ NextRound
        BY <1>1, <2>2, <4>2 DEF Prepare, NextRound, NewRound, NoEvidence, Round
      <4>3. CASE Formulate \/ Review
        BY <1>1, <2>2, <4>3 DEF Formulate, Review, Round
      <4>4. CASE CodeReturns
        <5>1. stage = "code" /\ round' = [round EXCEPT !.evidence = agent.evidence]
          BY <1>5, <4>4 DEF CodeReturns, Interrupted, Return, Working
        <5>2. round'.evidence = agent.evidence
          BY <1>1, <5>1 DEF Round
        <5>3. QED BY <5>1, <5>2 DEF LaneInv
      <4>5. QED BY <1>5, <2>3, <4>1, <4>2, <4>3, <4>4
         DEF CallStep, SolveStart, CodeStart, CodeDone, ReviewStart, FinalStart, IterationStart, Interrupted,
             Explore, NoRoute, Disclose, Reexplore, Summarize, ModelToCode, CodeToModel, Revision, Unify,
             Compose, Raise, PersistIndex, PersistFinal, PersistPackage, Save, SaveFailure, SaveAs, Working
    <3>4. EvidenceOf(rounds') \subseteq By(Attempt)
      <4>1. CASE UNCHANGED rounds
        BY <2>2, <4>1
      <4>2. CASE NextRound \/ Unify
        <5>1. PICK x \in Snapshots : rounds' = Append(rounds, x) /\ x.evidence = round.evidence
          <6>1. Snapshot \in Snapshots /\ Snapshot.evidence = round.evidence
            BY <1>1, SnapshotsAre DEF Snapshot, Round
          <6>2. /\ [Snapshot EXCEPT !.unified = TRUE] \in Snapshots
                /\ [Snapshot EXCEPT !.unified = TRUE].evidence = round.evidence
            BY <6>1, SnapshotsAre
          <6>3. QED BY <4>2, <6>1, <6>2 DEF NextRound, Unify
        <5>2. EvidenceOf(rounds') = EvidenceOf(rounds) \cup round.evidence
          BY <1>1, <5>1, EvidenceGrows
        <5>3. QED BY <2>2, <5>2
      <4>3. QED BY <1>5, <2>3, <4>1, <4>2
         DEF CallStep, SolveStart, CodeStart, CodeDone, ReviewStart, FinalStart, IterationStart, Interrupted,
             Prepare, Explore, NoRoute, Disclose, Reexplore, Summarize, Formulate, ModelToCode, CodeReturns,
             CodeToModel, Review, Revision, Compose, Raise, PersistIndex, PersistFinal, PersistPackage,
             Save, SaveFailure, SaveAs, Working
    <3>5. QED BY <1>5, <2>1, <3>2, <3>3, <3>4 DEF OwnInv, Own, By, EvidenceOf, Attempt, Working
  <2>4. CASE ~ CallStep
    <3>1. UNCHANGED <<ctx, round, rounds>>
      BY <1>5, <2>1, <2>4 DEF Next, vars, Answer, Refuse, Code, Operator, Script, Job, Crash, Rollback, Working
    <3>2. QED BY <1>5, <2>1, <2>2, <3>1 DEF OwnInv, Own, By, Attempt, Working
  <2>5. QED BY <2>3, <2>4
<1>6. QED BY <1>2, <1>3, <1>4, <1>5

\* What a report names belongs to its attempt.
ReportInv ==
  /\ \A a \in Attempts :
       /\ results[a] # NoReport => a <= Attempt
       /\ results[a].allow \subseteq {p \in Paths : p[1] = a}
       /\ EvidenceOf(results[a].rounds) \subseteq By(a)
  /\ \A a \in saved : results[a].status \in Ended

\* No report names anything before the first dispatch.
LEMMA ReportInitial == Init => ReportInv
<1> SUFFICES ASSUME Init PROVE ReportInv
  OBVIOUS
<1>1. NoReport.allow = {} /\ EvidenceOf(NoReport.rounds) = {}
  BY EvidenceGrows DEF NoReport
<1>2. stage = "idle" /\ saved = {} /\ \A a \in Attempts : results[a] = NoReport
  BY DEF Init
<1>3. QED BY <1>1, <1>2 DEF ReportInv

\* A saved report and the exchange files it names stay as they are.
LEMMA SavedFrame ==
  ASSUME Types, PlaceInv, ReportInv, [Next]_vars, NEW a \in saved, ~ Script
  PROVE  /\ a \in Attempts /\ results'[a] = results[a]
         /\ stage \in Working => a # Attempt
         /\ \A p \in results[a].allow : archive'[p] = archive[p]
<1>1. a \in Attempts /\ results[a].status \in Ended
  BY DEF Types, FileTypes, ReportInv
<1>2. results[a] \notin {NoReport, Reserved}
  BY <1>1, ReservedReport
<1>3. stage \in Working => a # Attempt
  BY <1>2 DEF PlaceInv
<1>4. results'[a] = results[a]
  <2>1. CASE UNCHANGED results
    BY <2>1
  <2>2. CASE Returns
    <3>1. PICK status \in Ended, allowed \in SUBSET Paths, snapshots \in Seq(Snapshots) :
            Return(status, allowed, snapshots)
      BY <2>2, RoundTypes DEF Returns
    <3>2. \A b \in Attempts : b # Attempt => results'[b] = results[b]
      BY <2>2, <3>1, ReturnTypes DEF Returns, Working
    <3>3. QED BY <1>1, <1>3, <2>2, <3>2 DEF Returns
  <2>3. CASE Dispatch
    <3>1. \A b \in Attempts : b # Attempt => results'[b] = results[b]
      BY <2>3 DEF Dispatch, Types, FileTypes
    <3>2. a # Attempt
      BY <1>2, <2>3 DEF Dispatch, Recorded
    <3>3. QED BY <1>1, <3>1, <3>2
  <2>4. UNCHANGED results \/ Returns \/ Dispatch
    BY WorkingSteps DEF Next, vars, Goes, PersistIndex, PersistFinal, PersistPackage, Save, SaveFailure,
       SaveAs, Answer, Refuse, Code, Operator, Script, Job, Crash, Rollback
  <2>5. QED BY <2>1, <2>2, <2>3, <2>4
<1>5. ASSUME NEW p \in results[a].allow PROVE archive'[p] = archive[p]
  <2>1. p \in Paths /\ p[1] = a
    BY <1>1, <1>5 DEF ReportInv
  <2>2. CASE UNCHANGED archive
    BY <2>2
  <2>3. CASE stage \in Working /\ UNCHANGED call /\ \E name \in Names : ArchiveAs(name)
    <3>1. PICK name \in Names : ArchiveAs(name)
      BY <2>3
    <3>2. p # Archived(name)
      BY <1>3, <2>1, <2>3 DEF Archived
    <3>3. QED BY <2>1, <2>3, <3>1, <3>2, ArchiveTypes DEF Working
  <2>4. UNCHANGED archive \/ (stage \in Working /\ UNCHANGED call /\ \E name \in Names : ArchiveAs(name))
    BY DEF Next, vars, CallStep, SolveStart, CodeStart, CodeDone, ReviewStart, FinalStart, IterationStart,
       Interrupted, Prepare, Explore, NoRoute, Disclose, Reexplore, Summarize, Formulate, ModelToCode,
       CodeReturns, CodeToModel, Review, Revision, NextRound, Unify, Compose, Raise, ModelCall,
       LaneUnchanged, PersistIndex, PersistFinal, PersistPackage, Save, SaveFailure, SaveAs,
       Dispatch, Answer, Refuse, Code, Operator, Job, Crash, Rollback, Names, Working, Stages,
       ModelCalls, Filing
  <2>5. QED BY <2>2, <2>3, <2>4
<1>6. QED BY <1>1, <1>3, <1>4, <1>5

\* Every step keeps what the reports name.
LEMMA ReportStep ==
  Types /\ PlaceInv /\ OwnInv /\ ReportInv /\ [Next]_vars => ReportInv'
<1> SUFFICES ASSUME Types, PlaceInv, OwnInv, ReportInv, [Next]_vars PROVE ReportInv'
  OBVIOUS
<1> DEFINE Owned(a, r) ==
             r.allow \subseteq {p \in Paths : p[1] = a} /\ EvidenceOf(r.rounds) \subseteq By(a)
<1>1. Attempt' >= Attempt /\ Attempt \in Nat /\ Attempt' \in Nat
  BY AttemptsGrow
<1>2. \A a \in Attempts : a \in Nat
  BY Numbers
<1>3. \A a \in Attempts : Owned(a, results[a]) /\ (results[a] # NoReport => a <= Attempt)
  BY DEF ReportInv
<1>4. ASSUME NEW a \in Attempts
      PROVE  Owned(a, results'[a]) /\ (results'[a] # NoReport => a <= Attempt')
  <2>1. CASE results'[a] = results[a]
    BY <1>1, <1>2, <1>3, <2>1
  <2>2. CASE Returns
    <3>1. PICK status \in Ended, allowed \in SUBSET Paths, snapshots \in Seq(Snapshots) :
            /\ allowed \subseteq ctx.allow \cup Own /\ snapshots \in {<<>>, rounds}
            /\ Return(status, allowed, snapshots)
      BY <2>2, RoundTypes DEF Returns
    <3>2. /\ \A b \in Attempts : b # Attempt => results'[b] = results[b]
          /\ results'[Attempt] = [status |-> status, rounds |-> snapshots,
                                  allow |-> allowed, call |-> call]
      BY <2>2, <3>1, ReturnTypes DEF Returns, Working
    <3>3. allowed \subseteq Own /\ EvidenceOf(snapshots) \subseteq By(Attempt)
      BY <2>2, <3>1, EvidenceGrows DEF Returns, OwnInv
    <3>4. results'[Attempt].allow = allowed /\ results'[Attempt].rounds = snapshots
      BY <3>2
    <3>5. CASE a = Attempt
      BY <1>1, <3>3, <3>4, <3>5 DEF Own
    <3>6. CASE a # Attempt
      BY <2>1, <3>2, <3>6
    <3>7. QED BY <3>5, <3>6
  <2>3. CASE Dispatch
    <3>1. results'[a] = results[a] \/ (a = Attempt /\ results'[a] = Reserved)
      BY <2>3 DEF Dispatch, Types, FileTypes
    <3>2. Reserved.allow = {} /\ EvidenceOf(Reserved.rounds) = {}
      BY EvidenceGrows DEF Reserved, NoReport
    <3>3. CASE a = Attempt /\ results'[a] = Reserved
      BY <1>1, <3>2, <3>3
    <3>4. QED BY <2>1, <3>1, <3>3
  <2>4. UNCHANGED results \/ Returns \/ Dispatch
    BY WorkingSteps DEF Next, vars, Goes, PersistIndex, PersistFinal, PersistPackage, Save, SaveFailure,
       SaveAs, Answer, Refuse, Code, Operator, Script, Job, Crash, Rollback
  <2>5. QED BY <2>1, <2>2, <2>3, <2>4
<1>5. ASSUME NEW a \in saved'
      PROVE  results'[a].status \in Ended
  <2>1. CASE a \in saved
    <3>1. CASE Script
      BY <2>1, <3>1 DEF Script, ReportInv
    <3>2. CASE ~ Script
      BY <2>1, <3>2, SavedFrame DEF ReportInv
    <3> QED BY <3>1, <3>2
  <2>2. CASE a \notin saved
    <3>1. PersistPackage /\ a = Attempt
      <4>1. ~ UNCHANGED saved
        BY <2>2
      <4>2. PersistPackage
        BY <4>1 DEF Next, vars, CallStep, SolveStart, CodeStart, CodeDone, ReviewStart, FinalStart,
           IterationStart, Checkpoint, Prepare, Explore, NoRoute, Disclose, Reexplore, Summarize, Formulate,
           ModelToCode, CodeReturns, CodeToModel, Review, Revision, NextRound, Unify, Compose, Raise,
           ModelCall, LaneUnchanged, PersistIndex, PersistFinal, Save, SaveFailure, SaveAs, Dispatch,
           Answer, Refuse, Code, Operator, Script, Job, Crash, Rollback
      <4>3. QED BY <2>2, <4>2 DEF PersistPackage
    <3>2. UNCHANGED results /\ stage = "write_package"
      BY <3>1 DEF PersistPackage
    <3>3. QED BY <3>1, <3>2 DEF PlaceInv, Filing
  <2>3. QED BY <2>1, <2>2
<1>6. QED BY <1>4, <1>5 DEF ReportInv, By

\* The exchange files, source and outputs a saved package lists are changed by
\* generated code alone: neither the harness nor its agent and tools touch them
\* again, whatever attempts, crashes and rollbacks come after it.
THEOREM SavedStand == Spec => SavedFilesStand
<1> DEFINE Inv == Types /\ PlaceInv /\ LaneInv /\ OwnInv /\ ReportInv
           Stands(a) ==
             /\ \A p \in results[a].allow : archive'[p] = archive[p]
             /\ \A e \in EvidenceOf(results[a].rounds) : Unchanged(e) => Unchanged(e)'
<1>1. Init => Inv
  BY TypesInit, PlaceInit, LaneInitial, ReportInitial
<1>2. Inv /\ [Next]_vars => Inv'
  BY TypesStep, PlaceStep, LaneStep, OwnStep, ReportStep
<1>3. ASSUME Inv, [Next]_vars, ~ Script, NEW a \in saved PROVE Stands(a)
  <2>1. /\ a \in Attempts
        /\ stage \in Working => a # Attempt
        /\ \A p \in results[a].allow : archive'[p] = archive[p]
    BY <1>3, SavedFrame
  <2>2. ASSUME NEW e \in EvidenceOf(results[a].rounds), Unchanged(e), ~ Unchanged(e)'
        PROVE  FALSE
    <3>1. e.lane \in Lanes /\ e.lane[1] <= a
      BY <1>3, <2>1 DEF ReportInv, By, Evidence
    <3>2. source'[e.lane] # source[e.lane] \/ outputs'[e.lane] # outputs[e.lane]
      BY <2>2 DEF Unchanged
    <3>3. CASE Code
      <4>1. stage = "code" /\ AgentStep /\ a # Attempt /\ agent.lane[1] = Attempt
        BY <1>3, <2>1, <3>3 DEF Code, LaneInv, Working, Stages, Filing
      <4>2. a < Attempt
        <5>1. results[a] # NoReport
          BY <1>3, ReservedReport DEF ReportInv
        <5>2. a \in Nat /\ Attempt \in Nat
          BY <1>3, <2>1, Numbers, AttemptsGrow
        <5>3. QED BY <1>3, <2>1, <4>1, <5>1, <5>2 DEF ReportInv
      <4>3. e.lane # agent.lane
        BY <1>3, <2>1, <3>1, <4>1, <4>2, Numbers, AttemptsGrow DEF Lanes
      <4>4. UNCHANGED outputs /\ (source'[e.lane] # source[e.lane] => e.lane = agent.lane)
        BY <1>3, <3>1, <4>1, AgentFrame DEF Types
      <4>5. QED BY <3>2, <4>3, <4>4
    <3>4. Code \/ UNCHANGED <<source, outputs>>
      BY <1>3 DEF Next, vars, laneVars, CallStep, SolveStart, CodeStart, CodeDone, ReviewStart, FinalStart,
         IterationStart, Checkpoint, Prepare, Explore, NoRoute, Disclose, Reexplore, Summarize, Formulate,
         ModelToCode, CodeReturns, CodeToModel, Review, Revision, NextRound, Unify, Compose, Raise,
         ModelCall, LaneUnchanged, PersistIndex, PersistFinal, PersistPackage, Save, SaveFailure, SaveAs,
         Dispatch, Answer, Refuse, Operator, Job, JobStep, JobExits, Crash, LaneCrash, Rollback
    <3>5. QED BY <3>2, <3>3, <3>4
  <2>3. QED BY <2>1, <2>2
<1>4. Inv /\ [Next]_vars => [Script \/ \A a \in saved : Stands(a)]_vars
  BY <1>3
<1>5. QED BY <1>1, <1>2, <1>4, PTL DEF Spec, SavedFilesStand, Stands

-----------------------------------------------------------------------------
(* The instructions of a context                                              *)

\* A list holds a command at most once and none past the cursor, and up to the
\* cursor it holds every one that was numbered in turn.
Suggests(list, k, n) == list[k].kind = "suggestions" /\ n \in list[k].of
Collected(list, cursor) ==
  /\ \A k \in 1 .. Len(list) : \A n : Suggests(list, k, n) =>
       n \in 1 .. Len(commands) /\ commands[n].number <= cursor
  /\ \A j, k \in 1 .. Len(list) : \A n : Suggests(list, j, n) /\ Suggests(list, k, n) => j = k
  /\ \A n \in 1 .. Len(commands) : InTurn(n) /\ commands[n].number <= cursor =>
       \E k \in 1 .. Len(list) : Suggests(list, k, n)

\* The revisions in the list are those of the rounds from first to last.
Told(list, first, last) ==
  /\ \A k \in 1 .. Len(list) : list[k].kind = "revision" => list[k].round \in first .. last
  /\ \A j, k \in 1 .. Len(list) :
       j < k /\ list[j].kind = "revision" /\ list[k].kind = "revision" => list[j].round < list[k].round
  /\ \A i \in first .. last : \E k \in 1 .. Len(list) : list[k].kind = "revision" /\ list[k].round = i

\* The last round whose revision the list holds: at the start of an iteration
\* the one before is still to come.
LastTold == IF stage = "iteration_start" THEN round.iteration - 2 ELSE round.iteration - 1

Fresh == {"idle", "solve_start", "prepare"}

\* What the list holds, and where the rounds of the call stand.
ListInv ==
  /\ Collected(ctx.instructions, ctx.cursor)
  /\ stage \in Working \cup {"idle"} =>
       Told(ctx.instructions, round.start, LastTold) /\ round.start <= round.iteration
  /\ stage \in Fresh => round.start = round.iteration
  /\ stage = "iteration_start" => (rounds = <<>> <=> round.start = round.iteration)

\* One more batch at the end of a list.
LEMMA OneMore ==
  ASSUME NEW list \in Seq(Batches), NEW b \in Batches
  PROVE  /\ Len(list) \in Nat /\ Len(Append(list, b)) = Len(list) + 1
         /\ Append(list, b)[Len(list) + 1] = b
         /\ \A k \in 1 .. Len(list) : Append(list, b)[k] = list[k] /\ list[k] \in Batches
         /\ \A k \in 1 .. Len(list) + 1 : k \in 1 .. Len(list) \/ k = Len(list) + 1
         /\ b.round \in Nat
<1>1. Len(list) \in Nat
  BY LenProperties
<1>2. /\ Len(Append(list, b)) = Len(list) + 1 /\ Append(list, b)[Len(list) + 1] = b
      /\ \A k \in 1 .. Len(list) : Append(list, b)[k] = list[k]
  BY AppendProperties
<1>3. \A k \in 1 .. Len(list) : list[k] \in Batches
  BY ElementOfSeq
<1>4. \A k \in 1 .. Len(list) + 1 : k \in 1 .. Len(list) \/ k = Len(list) + 1
  BY <1>1
<1> QED BY <1>1, <1>2, <1>3, <1>4 DEF Batches

\* A list that is continued with the commands past the cursor.
LEMMA CollectedHears ==
  ASSUME Types, NEW list \in Seq(Batches), NEW b \in Batches, b.kind = "suggestions",
         b.of = Pending(ctx.cursor), b.of # {}, Collected(list, ctx.cursor)
  PROVE  Collected(Append(list, b), Max(Numbered(Pending(ctx.cursor))))
<1> DEFINE more == Append(list, b)
           n == Len(list)
           top == Max(Numbered(Pending(ctx.cursor)))
<1>1. /\ n \in Nat /\ Len(more) = n + 1 /\ more[n + 1] = b
      /\ \A k \in 1 .. n : more[k] = list[k]
      /\ \A k \in 1 .. n + 1 : k \in 1 .. n \/ k = n + 1
      /\ n + 1 \in 1 .. n + 1 /\ \A k \in 1 .. n : k \in 1 .. n + 1
  BY OneMore
<1>2. /\ ctx.cursor \in Nat /\ top \in Nat /\ ctx.cursor < top
      /\ \A c \in 1 .. Len(commands) : commands[c].number \in Nat
      /\ \A c \in b.of : c \in 1 .. Len(commands)
                        /\ ctx.cursor < commands[c].number /\ commands[c].number <= top
      /\ \A c \in 1 .. Len(commands) : c \in b.of \/ commands[c].number <= ctx.cursor
  <2>1. \A c \in 1 .. Len(commands) : c \in b.of <=> commands[c].number > ctx.cursor
    BY PendingFacts DEF Pending
  <2>2. b.of \subseteq 1 .. Len(commands) /\ \A c \in 1 .. Len(commands) : commands[c].number \in Nat
    BY PendingFacts
  <2>3. /\ top \in Nat /\ ctx.cursor \in Nat /\ \A c \in b.of : commands[c].number <= top
        /\ \E c \in b.of : top = commands[c].number
    BY PendingFacts
  <2> HIDE DEF top
  <2>4. \A c \in b.of : ctx.cursor < commands[c].number
    BY <2>1, <2>2, <2>3
  <2>5. \A c \in 1 .. Len(commands) : c \in b.of \/ commands[c].number <= ctx.cursor
    BY <2>1, <2>2, <2>3
  <2> QED BY <2>2, <2>3, <2>4, <2>5
<1> HIDE DEF more, n, top
<1>3. /\ \A k \in 1 .. n : \A c : Suggests(more, k, c) <=> Suggests(list, k, c)
      /\ \A c : Suggests(more, n + 1, c) <=> c \in b.of
  BY <1>1 DEF Suggests
<1>4. /\ \A k \in 1 .. n : \A c : Suggests(list, k, c) =>
           c \in 1 .. Len(commands) /\ commands[c].number <= ctx.cursor
      /\ \A j, k \in 1 .. n : \A c : Suggests(list, j, c) /\ Suggests(list, k, c) => j = k
      /\ \A c \in 1 .. Len(commands) : InTurn(c) /\ commands[c].number <= ctx.cursor =>
           \E k \in 1 .. n : Suggests(list, k, c)
  BY DEF Collected, n
<1>5. ASSUME NEW k \in 1 .. n + 1, NEW c, Suggests(more, k, c)
      PROVE  c \in 1 .. Len(commands) /\ commands[c].number <= top
  <2>1. CASE k \in 1 .. n
    <3>1. c \in 1 .. Len(commands) /\ commands[c].number <= ctx.cursor
      BY <1>3, <1>4, <1>5, <2>1
    <3> QED BY <1>2, <3>1
  <2>2. CASE k = n + 1
    BY <1>2, <1>3, <1>5, <2>2
  <2> QED BY <1>1, <2>1, <2>2
<1>6. ASSUME NEW j \in 1 .. n + 1, NEW k \in 1 .. n + 1, NEW c, Suggests(more, j, c), Suggests(more, k, c)
      PROVE  j = k
  <2>1. ASSUME NEW i \in 1 .. n, Suggests(more, i, c) PROVE c \notin b.of
    <3>1. c \in 1 .. Len(commands) /\ commands[c].number <= ctx.cursor
      BY <1>3, <1>4, <2>1
    <3> QED BY <1>2, <3>1
  <2>2. CASE j \in 1 .. n /\ k \in 1 .. n
    BY <1>3, <1>4, <1>6, <2>2
  <2>3. CASE j = n + 1 /\ k = n + 1
    BY <2>3
  <2>4. CASE (j \in 1 .. n /\ k = n + 1) \/ (j = n + 1 /\ k \in 1 .. n)
    BY <1>3, <1>6, <2>1, <2>4
  <2> QED BY <1>1, <2>2, <2>3, <2>4
<1>7. ASSUME NEW c \in 1 .. Len(commands), InTurn(c), commands[c].number <= top
      PROVE  \E k \in 1 .. n + 1 : Suggests(more, k, c)
  <2>1. CASE c \in b.of
    BY <1>1, <1>3, <2>1
  <2>2. CASE commands[c].number <= ctx.cursor
    BY <1>1, <1>3, <1>4, <1>7, <2>2
  <2> QED BY <1>2, <2>1, <2>2
<1>8. Collected(more, top)
  BY <1>1, <1>5, <1>6, <1>7 DEF Collected
<1> QED BY <1>8 DEF more, top

\* A revision leaves the suggestions as they were.
LEMMA CollectedTells ==
  ASSUME NEW list \in Seq(Batches), NEW cursor \in Nat, NEW b \in Batches,
         b.kind = "revision", Collected(list, cursor)
  PROVE  Collected(Append(list, b), cursor)
<1> DEFINE more == Append(list, b)
           n == Len(list)
<1>1. /\ n \in Nat /\ Len(more) = n + 1 /\ more[n + 1] = b
      /\ \A k \in 1 .. n : more[k] = list[k]
      /\ \A k \in 1 .. n + 1 : k \in 1 .. n \/ k = n + 1
      /\ \A k \in 1 .. n : k \in 1 .. n + 1
  BY OneMore
<1> HIDE DEF more, n
<1>2. /\ \A k \in 1 .. n : \A c : Suggests(more, k, c) <=> Suggests(list, k, c)
      /\ \A k \in 1 .. n + 1 : \A c : Suggests(more, k, c) => k \in 1 .. n
  BY <1>1 DEF Suggests
<1>3. /\ \A k \in 1 .. n : \A c : Suggests(list, k, c) =>
           c \in 1 .. Len(commands) /\ commands[c].number <= cursor
      /\ \A j, k \in 1 .. n : \A c : Suggests(list, j, c) /\ Suggests(list, k, c) => j = k
      /\ \A c \in 1 .. Len(commands) : InTurn(c) /\ commands[c].number <= cursor =>
           \E k \in 1 .. n : Suggests(list, k, c)
  BY DEF Collected, n
<1>4. Collected(more, cursor)
  BY <1>1, <1>2, <1>3 DEF Collected
<1> QED BY <1>4 DEF more

\* A command that comes later is not in the list, and past the cursor if in turn.
LEMMA CollectedStays ==
  ASSUME Types, HeardInv, NEW kind \in Kinds, Submit(kind), UNCHANGED ctx,
         Collected(ctx.instructions, ctx.cursor)
  PROVE  Collected(ctx.instructions, ctx.cursor)'
<1>1. /\ \A n \in 1 .. Len(commands) : InTurn(n)' <=> InTurn(n)
      /\ \A n \in 1 .. Len(commands') : n \in 1 .. Len(commands) \/ n = Len(commands) + 1
      /\ \A n : n = Len(commands) + 1 /\ InTurn(n)' => ctx.cursor < commands'[n].number
      /\ \A n \in 1 .. Len(commands) : commands'[n] = commands[n]
      /\ 1 .. Len(commands) \subseteq 1 .. Len(commands')
  BY TurnKept
<1>2. ctx.cursor \in Nat /\ \A n \in 1 .. Len(commands') : commands'[n].number \in Nat
  BY SubmitTypes, PendingFacts DEF CommandTypes
<1>3. ASSUME NEW n \in 1 .. Len(commands'), InTurn(n)', commands'[n].number <= ctx.cursor
      PROVE  \E k \in 1 .. Len(ctx.instructions) : Suggests(ctx.instructions, k, n)
  <2>1. n \in 1 .. Len(commands)
    BY <1>1, <1>2, <1>3
  <2> QED BY <1>1, <1>3, <2>1 DEF Collected
<1>4. \A k \in 1 .. Len(ctx.instructions) : \A n : Suggests(ctx.instructions, k, n) =>
        n \in 1 .. Len(commands') /\ commands'[n].number <= ctx.cursor
  BY <1>1 DEF Collected
<1>5. \A j, k \in 1 .. Len(ctx.instructions) : \A n :
        Suggests(ctx.instructions, j, n) /\ Suggests(ctx.instructions, k, n) => j = k
  BY DEF Collected
<1> QED BY <1>3, <1>4, <1>5 DEF Collected, Suggests

\* Suggestions leave the revisions as they were, and the revision of the next
\* round goes to the end.
LEMMA ToldGrows ==
  ASSUME NEW list \in Seq(Batches), NEW b \in Batches, NEW first \in Int, NEW last \in Int,
         Told(list, first, last)
  PROVE  /\ b.kind = "suggestions" => Told(Append(list, b), first, last)
         /\ b.kind = "revision" /\ b.round = last + 1 /\ first <= last + 1
              => Told(Append(list, b), first, last + 1)
<1> DEFINE more == Append(list, b)
           n == Len(list)
<1>1. /\ n \in Nat /\ Len(more) = n + 1 /\ more[n + 1] = b
      /\ \A k \in 1 .. n : more[k] = list[k] /\ list[k].round \in Nat
      /\ \A k \in 1 .. n + 1 : k \in 1 .. n \/ k = n + 1
  BY OneMore DEF Batches
<1> HIDE DEF more, n
<1>2. /\ \A k \in 1 .. n : list[k].kind = "revision" => list[k].round \in first .. last
      /\ \A j, k \in 1 .. n :
           j < k /\ list[j].kind = "revision" /\ list[k].kind = "revision" => list[j].round < list[k].round
      /\ \A i \in first .. last : \E k \in 1 .. n : list[k].kind = "revision" /\ list[k].round = i
  BY DEF Told, n
<1>3. \A i \in first .. last : \E k \in 1 .. n + 1 : more[k].kind = "revision" /\ more[k].round = i
  <2> TAKE i \in first .. last
  <2>1. PICK k \in 1 .. n : list[k].kind = "revision" /\ list[k].round = i
    BY <1>2
  <2>2. k \in 1 .. n + 1
    BY <1>1
  <2> QED BY <1>1, <2>1, <2>2
<1>4. ASSUME b.kind = "suggestions" PROVE Told(more, first, last)
  <2>1. \A k \in 1 .. n + 1 : more[k].kind = "revision" => k \in 1 .. n
    BY <1>1, <1>4
  <2>2. \A k \in 1 .. n + 1 : more[k].kind = "revision" => more[k].round \in first .. last
    BY <1>1, <1>2, <2>1
  <2>3. \A j, k \in 1 .. n + 1 :
          j < k /\ more[j].kind = "revision" /\ more[k].kind = "revision" => more[j].round < more[k].round
    BY <1>1, <1>2, <2>1
  <2> QED BY <1>1, <1>3, <2>2, <2>3 DEF Told
<1>5. ASSUME b.kind = "revision", b.round = last + 1, first <= last + 1
      PROVE  Told(more, first, last + 1)
  <2>1. \A k \in 1 .. n + 1 : more[k].kind = "revision" => more[k].round \in first .. last + 1
    BY <1>1, <1>2, <1>5
  <2>2. ASSUME NEW j \in 1 .. n + 1, NEW k \in 1 .. n + 1, j < k,
               more[j].kind = "revision", more[k].kind = "revision"
        PROVE  more[j].round < more[k].round
    <3>1. j \in 1 .. n
      BY <1>1, <2>2
    <3>2. CASE k \in 1 .. n
      BY <1>1, <1>2, <2>2, <3>1, <3>2
    <3>3. CASE k = n + 1
      <4>1. list[j].round \in first .. last
        BY <1>1, <1>2, <2>2, <3>1
      <4> QED BY <1>1, <1>5, <3>1, <3>3, <4>1
    <3> QED BY <1>1, <3>2, <3>3
  <2>3. \A i \in first .. last + 1 : \E k \in 1 .. n + 1 : more[k].kind = "revision" /\ more[k].round = i
    <3> TAKE i \in first .. last + 1
    <3>1. CASE i = last + 1
      <4>1. n + 1 \in 1 .. n + 1
        BY <1>1
      <4> QED BY <1>1, <1>5, <3>1, <4>1
    <3>2. CASE i # last + 1
      BY <1>3, <3>2
    <3> QED BY <3>1, <3>2
  <2> QED BY <1>1, <2>1, <2>2, <2>3 DEF Told
<1> QED
  BY <1>4, <1>5 DEF more

\* What a checkpoint does to the list.
LEMMA ConsumedList ==
  ASSUME Types, ListInv
  PROVE  /\ Consumed.instructions \in Seq(Batches) /\ Consumed.cursor \in Nat
         /\ Collected(Consumed.instructions, Consumed.cursor)
         /\ \A n \in 1 .. Len(commands) : commands[n].number <= Consumed.cursor
         /\ \A first, last \in Int :
              Told(ctx.instructions, first, last) => Told(Consumed.instructions, first, last)
<1> DEFINE b == CommandBatch(Pending(ctx.cursor))
<1>1. /\ ctx \in Context /\ ctx.cursor \in Nat /\ ctx.instructions \in Seq(Batches)
      /\ Pending(ctx.cursor) \in SUBSET Nat
      /\ \A n \in 1 .. Len(commands) : commands[n].number \in Nat
      /\ \A n \in 1 .. Len(commands) : n \in Pending(ctx.cursor) <=> commands[n].number > ctx.cursor
  <2>1. ctx \in Context /\ ctx.cursor \in Nat /\ Pending(ctx.cursor) \subseteq 1 .. Len(commands)
    BY PendingFacts
  <2> QED BY <2>1, PendingFacts DEF Context, Pending
<1>2. CASE Pending(ctx.cursor) = {}
  BY <1>1, <1>2 DEF Consumed, ListInv
<1>3. CASE Pending(ctx.cursor) # {}
  <2>1. b \in Batches /\ b.kind = "suggestions" /\ b.of = Pending(ctx.cursor)
    BY <1>1, BatchTypes DEF CommandBatch
  <2> HIDE DEF b
  <2>2. PICK list \in Seq(Batches) : list = Append(ctx.instructions, b)
    BY <1>1, <2>1, AppendProperties
  <2>3. Consumed = [ctx EXCEPT !.cursor = Max(Numbered(Pending(ctx.cursor))), !.instructions = list]
    BY <1>1, <1>3, <2>2 DEF Consumed, b, Context
  <2>4. Consumed.instructions = list /\ Consumed.cursor = Max(Numbered(Pending(ctx.cursor)))
    BY <1>1, <2>3 DEF Context
  <2>5. Collected(list, Max(Numbered(Pending(ctx.cursor))))
    BY <1>1, <1>3, <2>1, <2>2, CollectedHears DEF ListInv
  <2>6. \A first, last \in Int : Told(ctx.instructions, first, last) => Told(list, first, last)
    BY <1>1, <2>1, <2>2, ToldGrows
  <2>7. Consumed.cursor \in Nat /\ \A n \in 1 .. Len(commands) : commands[n].number <= Consumed.cursor
    <3> DEFINE top == Max(Numbered(Pending(ctx.cursor)))
    <3>1. /\ top \in Nat /\ \E n \in Pending(ctx.cursor) : top = commands[n].number
          /\ \A n \in Pending(ctx.cursor) : commands[n].number <= top
          /\ Pending(ctx.cursor) \subseteq 1 .. Len(commands)
      BY <1>3, PendingFacts
    <3>2. Consumed.cursor = top
      BY <2>4
    <3> HIDE DEF top
    <3> QED BY <1>1, <3>1, <3>2
  <2> QED BY <2>2, <2>4, <2>5, <2>6, <2>7
<1> QED
  BY <1>2, <1>3

\* A fresh context holds nothing.
LEMMA ListInit == Init => ListInv
<1> SUFFICES ASSUME Init PROVE ListInv
  OBVIOUS
<1>1. /\ Len(commands) = 0 /\ Len(ctx.instructions) = 0 /\ rounds = <<>>
      /\ round.start = 1 /\ round.iteration = 1 /\ stage = "idle"
  BY EmptySeq DEF Init, NoCommands, NewContext, NewRound
<1>2. Collected(ctx.instructions, ctx.cursor)
  BY <1>1 DEF Collected
<1>3. Told(ctx.instructions, round.start, LastTold)
  BY <1>1 DEF Told, LastTold
<1> QED BY <1>1, <1>2, <1>3 DEF ListInv, Fresh

\* A call that returns keeps what it has heard.
LEMMA ListReturned ==
  ASSUME Collected(ctx.instructions, ctx.cursor)', stage' \in Filing \cup {"persist"}
  PROVE  ListInv'
BY DEF ListInv, Filing, Working, Fresh

\* A stage that hears nothing, within a round.
LEMMA ListGoes ==
  ASSUME ListInv, Types, UNCHANGED commands, stage \in Working \ {"iteration_start"}, stage' \in Working \ (Fresh \cup {"iteration_start"}),
         ctx'.instructions = ctx.instructions, ctx'.cursor = ctx.cursor,
         round'.start = round.start, round'.iteration = round.iteration
  PROVE  ListInv'
<1>1. LastTold' = LastTold
  BY DEF LastTold
<1>2. Collected(ctx.instructions, ctx.cursor)'
  BY DEF ListInv, Collected, Suggests, InTurn
<1> QED
  BY <1>1, <1>2 DEF ListInv, Filing, Told

\* The list holds the same as long as the context and the commands are the same.
LEMMA SameCollected ==
  ASSUME Collected(ctx.instructions, ctx.cursor), UNCHANGED commands,
         ctx'.instructions = ctx.instructions, ctx'.cursor = ctx.cursor
  PROVE  Collected(ctx.instructions, ctx.cursor)'
BY DEF Collected, Suggests, InTurn

\* So does the list of a checkpoint that becomes the context's.
LEMMA NewCollected ==
  ASSUME NEW list, NEW cursor, Collected(list, cursor), UNCHANGED commands,
         ctx'.instructions = list, ctx'.cursor = cursor
  PROVE  Collected(ctx.instructions, ctx.cursor)'
BY DEF Collected, Suggests, InTurn

\* Every step keeps what the list holds.
LEMMA ListStep == Types /\ RoundInv /\ HeardInv /\ ListInv /\ [Next]_vars => ListInv'
<1> SUFFICES ASSUME Types, RoundInv, HeardInv, ListInv, [Next]_vars PROVE ListInv'
  OBVIOUS
<1>1. /\ ctx \in Context /\ ctx.instructions \in Seq(Batches) /\ ctx.cursor \in Nat
      /\ round \in Round /\ rounds \in Seq(Snapshots)
      /\ round.iteration \in Nat \ {0} /\ round.start \in Nat \ {0}
      /\ \A i \in Iterations : i \in Nat \ {0}
  <2>1. \A i \in Iterations : i \in Nat \ {0}
    BY Numbers
  <2>2. ctx \in Context /\ round \in Round /\ rounds \in Seq(Snapshots)
    BY DEF Types, MemoryTypes
  <2> QED BY <2>1, <2>2 DEF Context, Round
<1>2. Collected(ctx.instructions, ctx.cursor) /\ LastTold \in Int
  BY <1>1 DEF ListInv, LastTold
<1>15. ASSUME Collected(ctx.instructions, ctx.cursor)', UNCHANGED <<stage, ctx, round, rounds>>
       PROVE  ListInv'
  BY <1>15 DEF ListInv, LastTold, Told
<1>3. CASE UNCHANGED vars \/ Code \/ Script \/ Job \/ Refuse \/ Rollback
  <2>1. UNCHANGED <<stage, ctx, round, rounds, commands>>
    BY <1>3 DEF vars, Code, Script, Job, Refuse, Rollback
  <2> QED BY <1>2, <1>15, <2>1, SameCollected
<1>16. CASE Operator
  <2>1. UNCHANGED <<stage, ctx, round, rounds>> /\ \E kind \in Kinds : Submit(kind)
    BY <1>16 DEF Operator
  <2> QED BY <1>2, <1>15, <2>1, CollectedStays
<1>4. CASE Save \/ SaveFailure \/ Crash
  <2>1. stage' = "idle" /\ Forgets
    BY <1>4 DEF Save, SaveFailure, SaveAs, Crash
  <2>2. \A n \in 1 .. Len(commands) : ~ (commands[n].number <= 0)
    BY PendingFacts
  <2>3. UNCHANGED commands
    BY <1>4 DEF Save, SaveFailure, SaveAs, Crash
  <2> QED BY <2>1, <2>2, <2>3, EmptySeq, LenProperties
         DEF Forgets, ListInv, NewContext, NewRound, Collected, Suggests, Told, LastTold, Working, Fresh
<1>5. CASE PersistIndex \/ PersistFinal \/ PersistPackage \/ Answer
  <2>1. UNCHANGED <<ctx, commands>> /\ stage' \in Filing \cup {"persist"}
    BY <1>5 DEF PersistIndex, PersistFinal, PersistPackage, Answer, Filing
  <2> QED BY <1>2, <2>1, SameCollected, ListReturned
<1>6. CASE Dispatch
  <2>1. stage = "idle" /\ stage' = "solve_start" /\ UNCHANGED <<ctx, round, rounds, commands>>
    BY <1>6 DEF Dispatch, Ready
  <2>2. Collected(ctx.instructions, ctx.cursor)'
    BY <1>2, <2>1, SameCollected
  <2> QED BY <2>1, <2>2 DEF ListInv, LastTold, Told, Working, Stages, Checkpoints, Filing, Fresh
<1>7. CASE NoRoute \/ Compose \/ Raise
  <2>1. UNCHANGED <<ctx, commands>> /\ stage' = "persist"
    BY <1>7 DEF NoRoute, Compose, Raise, Return, ModelCall, LaneUnchanged
  <2> QED BY <1>2, <2>1, SameCollected, ListReturned
<1>8. CASE SolveStart \/ CodeStart \/ CodeDone \/ ReviewStart \/ FinalStart
  <2>1. /\ ctx' = Consumed /\ UNCHANGED commands /\ stage \in Working \ {"iteration_start"}
        /\ \/ stage' = "persist"
           \/ /\ UNCHANGED <<round, rounds>> /\ stage' \in Working \ {"iteration_start"}
              /\ stage' \in Fresh => stage \in Fresh
    BY <1>8
       DEF SolveStart, CodeStart, CodeDone, ReviewStart, FinalStart, Checkpoint, Interrupted, Return,
           Working, Stages, Checkpoints, ModelCalls, Filing, Fresh
  <2>2. Collected(ctx.instructions, ctx.cursor)'
    BY <2>1, ConsumedList, NewCollected
  <2>3. CASE stage' = "persist"
    BY <2>2, <2>3, ListReturned
  <2>4. CASE stage' # "persist"
    <3>1. /\ round' = round /\ rounds' = rounds /\ stage' \in Working \ {"iteration_start"}
          /\ stage' \in Fresh => stage \in Fresh
      BY <2>1, <2>4
    <3>2. LastTold' = LastTold /\ Told(ctx.instructions, round.start, LastTold)
      BY <2>1, <3>1 DEF LastTold, ListInv
    <3>3. Told(ctx'.instructions, round'.start, LastTold')
      <4>1. round.start \in Int
        BY <1>1
      <4>2. Told(Consumed.instructions, round.start, LastTold)
        BY <1>2, <3>2, <4>1, ConsumedList
      <4> QED BY <2>1, <3>1, <3>2, <4>2
    <3> QED BY <2>1, <2>2, <3>1, <3>3 DEF ListInv
  <2> QED BY <2>3, <2>4
<1>9. CASE Prepare
  <2>1. /\ stage = "prepare" /\ stage' = "iteration_start" /\ UNCHANGED <<rounds, ctx, commands>>
        /\ round' = round \/ \E i \in ResumeFrom : round' = [NewRound(i, TRUE) EXCEPT !.contract = call]
    BY <1>9 DEF Prepare, ModelCall, LaneUnchanged
  <2>2. rounds' = <<>> /\ round.start = round.iteration
        /\ Told(ctx.instructions, round.start, round.start - 1)
    BY <2>1 DEF RoundInv, ListInv, LastTold, Fresh, Working, Stages, Checkpoints, Filing
  <2>3. round'.start = round'.iteration /\ round'.iteration \in Nat
    BY <1>1, <2>1, <2>2, Numbers DEF NewRound
  <2>4. \A k \in 1 .. Len(ctx.instructions) : ctx.instructions[k].kind # "revision"
    <3>1. round.start .. (round.start - 1) = {}
      BY <1>1
    <3> QED BY <2>2, <3>1 DEF Told
  <2>5. Told(ctx'.instructions, round'.start, round'.iteration - 2)
    BY <2>1, <2>3, <2>4 DEF Told
  <2>6. Collected(ctx.instructions, ctx.cursor)'
    BY <1>2, <2>1, SameCollected
  <2> QED BY <2>1, <2>2, <2>3, <2>5, <2>6 DEF ListInv, LastTold, Told, Fresh
<1>10. CASE IterationStart
  <2>1. stage = "iteration_start" /\ stage \in Working /\ UNCHANGED commands
    BY <1>10 DEF IterationStart, LaneUnchanged, Working, Stages, Checkpoints, Filing
  <2>2. CASE StopsHere
    <3>1. ctx' = Consumed /\ stage' = "persist"
      BY <1>10, <2>2 DEF IterationStart, Interrupted, Return
    <3> QED BY <2>1, <3>1, ConsumedList, NewCollected, ListReturned
  <2>3. CASE ~StopsHere
    <3>1. /\ stage' \in Working \ (Fresh \cup {"iteration_start"})
          /\ UNCHANGED <<round, rounds>>
          /\ ctx' = IF rounds = <<>> THEN Consumed
                    ELSE [Consumed EXCEPT !.instructions =
                              Append(@, ReviewBatch(round.iteration - 1))]
      BY <1>10, <2>3
         DEF IterationStart, Working, Stages, Checkpoints, ModelCalls, Filing, Fresh
    <3>2. /\ LastTold = round.iteration - 2 /\ LastTold' = round.iteration - 1
          /\ Told(Consumed.instructions, round.start, round.iteration - 2)
          /\ round.start <= round.iteration /\ (rounds = <<>> <=> round.start = round.iteration)
      <4>1. LastTold = round.iteration - 2 /\ LastTold' = round.iteration - 1
        BY <2>1, <3>1 DEF LastTold
      <4>2. Told(ctx.instructions, round.start, round.iteration - 2)
        BY <2>1, <4>1 DEF ListInv
      <4>3. round.start \in Int /\ round.iteration - 2 \in Int
        BY <1>1
      <4>4. Told(Consumed.instructions, round.start, round.iteration - 2)
        BY <4>2, <4>3, ConsumedList
      <4> QED BY <2>1, <4>1, <4>4 DEF ListInv
    <3>3. CASE rounds = <<>>
      <4>1. ctx' = Consumed /\ round.start = round.iteration
        BY <3>1, <3>2, <3>3
      <4>2. Told(Consumed.instructions, round.start, round.iteration - 1)
        BY <1>1, <3>2, <4>1 DEF Told
      <4>3. Collected(ctx.instructions, ctx.cursor)'
        BY <2>1, <4>1, ConsumedList, NewCollected
      <4> QED BY <3>1, <3>2, <4>1, <4>2, <4>3 DEF ListInv, Told
    <3>4. CASE rounds # <<>>
      <4> DEFINE b == ReviewBatch(round.iteration - 1)
      <4>1. b \in Batches /\ b.kind = "revision" /\ b.round = round.iteration - 2 + 1
            /\ round.start <= round.iteration - 2 + 1
        BY <1>1, <3>2, <3>4, BatchTypes DEF ReviewBatch
      <4> HIDE DEF b
      <4>2. PICK list \in Seq(Batches) : list = Append(Consumed.instructions, b)
        BY <4>1, ConsumedList, AppendProperties
      <4>3. ctx' = [Consumed EXCEPT !.instructions = list]
        BY <3>1, <3>4, <4>2, ConsumedTypes DEF b, Context
      <4>4. ctx'.instructions = list /\ ctx'.cursor = Consumed.cursor
        BY <4>3, ConsumedTypes DEF Context
      <4>5. Collected(list, Consumed.cursor)
        BY <4>1, <4>2, ConsumedList, CollectedTells
      <4>8. Collected(ctx.instructions, ctx.cursor)'
        BY <2>1, <4>4, <4>5, NewCollected
      <4>6. Told(list, round.start, round.iteration - 2 + 1)
        <5>1. round.start \in Int /\ round.iteration - 2 \in Int
          BY <1>1
        <5> QED BY <3>2, <4>1, <4>2, <5>1, ConsumedList, ToldGrows
      <4>7. round.iteration - 2 + 1 = round.iteration - 1
        BY <1>1
      <4>9. Told(ctx.instructions, round.start, LastTold)'
        BY <3>1, <3>2, <4>4, <4>6, <4>7 DEF Told
      <4> QED BY <3>1, <3>2, <4>8, <4>9 DEF ListInv
    <3> QED BY <3>3, <3>4
  <2> QED BY <2>2, <2>3
<1>11. CASE NextRound
  <2>1. /\ stage = "next" /\ stage' = "iteration_start" /\ UNCHANGED <<ctx, commands>>
        /\ rounds' = Append(rounds, Snapshot)
        /\ round' = [round EXCEPT !.iteration = @ + 1, !.evidence = NoEvidence]
    BY <1>11 DEF NextRound, ModelCall, LaneUnchanged
  <2>2. round'.iteration = round.iteration + 1 /\ round'.start = round.start
    BY <1>1, <2>1 DEF Round
  <2>3. rounds' # <<>>
    <3>1. Len(rounds') = Len(rounds) + 1 /\ Len(rounds) \in Nat
      BY <1>1, <2>1, LenProperties, AppendProperties, SnapshotsAre DEF Snapshot, Round
    <3> QED BY <3>1, EmptySeq
  <2>4. LastTold' = LastTold
    BY <1>1, <2>1, <2>2 DEF LastTold
  <2>5. round.start <= round.iteration
    BY <2>1 DEF ListInv, Working, Stages, Filing
  <2>6. Told(ctx.instructions, round.start, LastTold)
    BY <2>1 DEF ListInv, Working, Stages, Filing
  <2>7. /\ Told(ctx'.instructions, round'.start, LastTold') /\ round'.start <= round'.iteration
        /\ (rounds' = <<>> <=> round'.start = round'.iteration)
        /\ stage' \notin Fresh
    BY <1>1, <2>1, <2>2, <2>3, <2>4, <2>5, <2>6 DEF Fresh
  <2>8. Collected(ctx.instructions, ctx.cursor)'
    BY <1>2, <2>1, SameCollected
  <2> QED BY <2>7, <2>8 DEF ListInv, Told
<1>12. CASE Explore \/ Reexplore \/ Summarize \/ Review
  <2>1. /\ stage \in Working \ {"iteration_start"}
        /\ stage' \in Working \ (Fresh \cup {"iteration_start"}) /\ UNCHANGED <<ctx, commands>>
    BY <1>12 DEF Explore, Reexplore, Summarize, Review, ModelCall, LaneUnchanged, Working, Stages, ModelCalls, Filing, Fresh
  <2>2. round'.start = round.start /\ round'.iteration = round.iteration
    BY <1>12, ReviewTypes DEF Explore, Reexplore, Summarize
  <2> QED BY <2>1, <2>2, ListGoes
<1>13. CASE CodeReturns
  <2>1. stage = "code" /\ UNCHANGED <<ctx, commands>> /\ stage' \in {"persist", "code_execute_complete"}
    BY <1>13 DEF CodeReturns, Interrupted, Return
  <2>2. round'.start = round.start /\ round'.iteration = round.iteration
    BY <1>1, <1>13 DEF CodeReturns, Interrupted, Round
  <2>3. stage \in Working \ {"iteration_start"}
        /\ "code_execute_complete" \in Working \ (Fresh \cup {"iteration_start"})
    BY <2>1 DEF Working, Stages, Checkpoints, Filing, Fresh
  <2> QED BY <1>2, <2>1, <2>2, <2>3, SameCollected, ListReturned, ListGoes
<1>14. CASE Formulate \/ ModelToCode \/ CodeToModel \/ Revision \/ Unify \/ Disclose
  <2>1. /\ stage \in Working \ {"iteration_start"} /\ UNCHANGED <<call, commands>>
        /\ stage' = "persist" \/ stage' \in Working \ (Fresh \cup {"iteration_start"})
    BY <1>14
       DEF Formulate, ModelToCode, CodeToModel, Revision, Unify, Disclose, ModelCall, LaneUnchanged, Return,
           Working, Stages, Checkpoints, ModelCalls, Filing, Fresh
  <2>2. UNCHANGED ctx \/ \E name \in Names : ArchiveAs(name)
    BY <1>14 DEF Formulate, ModelToCode, CodeToModel, Revision, Unify, Disclose, Names
  <2>3. ctx'.instructions = ctx.instructions /\ ctx'.cursor = ctx.cursor
    BY <1>1, <2>2 DEF ArchiveAs, Context
  <2>4. round'.start = round.start /\ round'.iteration = round.iteration
    BY <1>1, <1>14 DEF Formulate, ModelToCode, CodeToModel, Revision, Unify, Disclose, Round
  <2> QED BY <1>2, <2>1, <2>3, <2>4, SameCollected, ListReturned, ListGoes
<1> QED
  BY <1>16, <1>3, <1>4, <1>5, <1>6, <1>7, <1>8, <1>9, <1>10, <1>11, <1>12, <1>13, <1>14 DEF Next, CallStep

\* No command is among the instructions twice, and the next stages have the
\* instructions of every review before, once and in order (_control_checkpoint,
\* _solve).
THEOREM InstructedOnce == Spec => []InstructionsOnce
<1>1. Init => Types /\ RoundInv /\ HeardInv /\ ListInv
  BY TypesInit, RoundInit, HeardInit, ListInit
<1>2. Types /\ RoundInv /\ HeardInv /\ ListInv /\ [Next]_vars
        => Types' /\ RoundInv' /\ HeardInv' /\ ListInv'
  BY TypesStep, RoundStep, HeardStep, ListStep
<1>3. ASSUME Types, ListInv PROVE InstructionsOnce
  <2> DEFINE list == ctx.instructions
             n == Len(list)
  <2>1. /\ n \in Nat /\ DOMAIN list = 1 .. n
        /\ \A k \in 1 .. n : list[k].round \in Nat
        /\ round.iteration \in Nat \ {0} /\ round.start \in Nat \ {0}
    <3>1. ctx.instructions \in Seq(Batches) /\ round \in Round
      BY <1>3 DEF Types, MemoryTypes, Context
    <3>2. \A k \in 1 .. n : list[k] \in Batches
      BY <3>1, ElementOfSeq
    <3>3. \A k \in 1 .. n : list[k].round \in Nat
      BY <3>2 DEF Batches
    <3>4. n \in Nat /\ DOMAIN list = 1 .. n
      BY <3>1, LenProperties
    <3>5. round.iteration \in Nat \ {0} /\ round.start \in Nat \ {0}
      BY <3>1, Numbers DEF Round
    <3> QED BY <3>3, <3>4, <3>5
  <2>2. ASSUME NEW m \in DOMAIN commands, NEW j \in Covers(m), NEW k \in Covers(m) PROVE j = k
    <3>1. j \in 1 .. n /\ k \in 1 .. n /\ Suggests(list, j, m) /\ Suggests(list, k, m)
      BY <2>1, <2>2 DEF Covers, Suggests
    <3> QED BY <1>3, <3>1 DEF ListInv, Collected
  <2>4. \A i : Brings(i) = {k \in 1 .. n : list[k].kind = "revision" /\ list[k].round = i}
    BY <2>1 DEF Brings
  <2> HIDE DEF list, n
  <2>6. ASSUME stage \in {"code", "review", "compose"}
        PROVE  LET due == round.start .. round.iteration - 1 IN
               /\ \A i \in due : Cardinality(Brings(i)) = 1
               /\ \A k \in DOMAIN list : list[k].kind = "revision" =>
                     /\ list[k].round \in due
                     /\ \A i \in round.start .. list[k].round - 1 : \E j \in 1 .. k - 1 : j \in Brings(i)
    <3> DEFINE due == round.start .. round.iteration - 1
    <3>1. Told(list, round.start, round.iteration - 1)
      BY <1>3, <2>6 DEF ListInv, LastTold, list, Working, Stages, ModelCalls, Filing
    <3>2. /\ \A k \in 1 .. n : list[k].kind = "revision" => list[k].round \in due
          /\ \A j, k \in 1 .. n :
               j < k /\ list[j].kind = "revision" /\ list[k].kind = "revision" => list[j].round < list[k].round
          /\ \A i \in due : \E k \in 1 .. n : list[k].kind = "revision" /\ list[k].round = i
      BY <3>1 DEF Told, n
    <3>3. ASSUME NEW i \in due PROVE Cardinality(Brings(i)) = 1
      <4>1. PICK k \in 1 .. n : list[k].kind = "revision" /\ list[k].round = i
        BY <3>2
      <4>2. ASSUME NEW j \in Brings(i) PROVE j = k
        <5>1. j \in 1 .. n /\ list[j].kind = "revision" /\ list[j].round = i
          BY <2>4, <4>2
        <5>2. ~ (j < k) /\ ~ (k < j)
          BY <2>1, <3>2, <4>1, <5>1
        <5> QED BY <2>1, <4>1, <5>1, <5>2
      <4>3. Brings(i) = {k}
        BY <2>4, <4>1, <4>2
      <4> QED BY <4>3, FS_Singleton
    <3>4. ASSUME NEW k \in 1 .. n, list[k].kind = "revision", NEW i \in round.start .. list[k].round - 1
          PROVE  \E j \in 1 .. k - 1 : j \in Brings(i)
      <4>1. i \in due
        BY <2>1, <3>2, <3>4
      <4>2. PICK j \in 1 .. n : list[j].kind = "revision" /\ list[j].round = i
        BY <3>2, <4>1
      <4>3. j # k /\ ~ (k < j)
        BY <2>1, <3>2, <3>4, <4>2
      <4>4. j \in 1 .. k - 1
        BY <2>1, <4>2, <4>3
      <4> QED BY <2>4, <4>2, <4>4
    <3> QED BY <2>1, <3>2, <3>3, <3>4
  <2> QED BY <2>2, <2>6 DEF InstructionsOnce, list
<1>4. QED BY <1>1, <1>2, <1>3, PTL DEF Spec

\* A stage never misses a command it was started after: whatever came since the
\* last checkpoint and was heard before, every command that was numbered in turn
\* is among the instructions once the checkpoint is left.
THEOREM CommandsHeard == Spec => SuggestionsHeard
<1> DEFINE Heard == LeavesCheckpoint =>
                      \A n \in DOMAIN commands : InTurn(n) => (Covers(n) # {})'
<1>1. Init => Types /\ RoundInv /\ HeardInv /\ ListInv
  BY TypesInit, RoundInit, HeardInit, ListInit
<1>2. Types /\ RoundInv /\ HeardInv /\ ListInv /\ [Next]_vars
        => Types' /\ RoundInv' /\ HeardInv' /\ ListInv'
  BY TypesStep, RoundStep, HeardStep, ListStep
<1>3. Types /\ ListInv /\ Types' /\ ListInv' /\ [Next]_vars => Heard
  <2> SUFFICES ASSUME Types, ListInv, Types', ListInv', [Next]_vars, LeavesCheckpoint,
                      NEW n \in DOMAIN commands, InTurn(n)
               PROVE  (Covers(n) # {})'
    OBVIOUS
  <2>1. n \in 1 .. Len(commands)
    BY PendingFacts
  <2>2. UNCHANGED commands /\ ctx'.cursor = Consumed.cursor
    BY LeavesByPassing, ConsumedTypes
       DEF Passes, SolveStart, CodeStart, CodeDone, ReviewStart, FinalStart, IterationStart, Checkpoint,
           LaneUnchanged, Context
  <2>3. commands'[n].number <= ctx'.cursor /\ InTurn(n)' /\ n \in 1 .. Len(commands')
    BY <2>1, <2>2, ConsumedList DEF InTurn
  <2>4. PICK k \in 1 .. Len(ctx'.instructions) : Suggests(ctx'.instructions, k, n)
    BY <2>3 DEF ListInv, Collected, Suggests
  <2>5. ctx'.instructions \in Seq(Batches)
    BY DEF Types, MemoryTypes, Context
  <2>6. k \in DOMAIN ctx'.instructions
    BY <2>4, <2>5, LenProperties
  <2> QED BY <2>4, <2>6 DEF Covers, Suggests
<1>4. Types /\ ListInv /\ Types' /\ ListInv' /\ [Next]_vars => [Heard]_vars
  BY <1>3
<1>5. QED BY <1>1, <1>2, <1>4, PTL DEF Spec, SuggestionsHeard, Heard
=============================================================================
