------------------------------ MODULE CodeLane ------------------------------
(* The Code Agent's side of solve_problem: the DeepAgents proposal provider, *)
(* its tools, the background python jobs of the local tool layer, and the    *)
(* acceptance run and evidence of LocalPythonCodeHarness. A lane is the      *)
(* directory of one attempt and iteration. The agent's tool calls are made   *)
(* one at a time, its jobs run beside them.                                  *)
EXTENDS HumanControl

CONSTANTS Jobs,               \* identities of python jobs
          Sources,            \* the texts a source file may hold
          MaxAttempts,        \* a bound: attempts at the task
          MaxIterations,      \* solve_problem's max_iterations
          MaxWrites,          \* a bound: times the outputs of a lane change
          NoSource, NoJob

MAX_REVISION_ROUNDS == 2
Limit == IF MaxIterations < MAX_REVISION_ROUNDS + 1 THEN MaxIterations
                                                     ELSE MAX_REVISION_ROUNDS + 1
Attempts == 1 .. MaxAttempts
Iterations == 1 .. Limit
Lanes == Attempts \X Iterations

ASSUME LaneAssumption ==
    /\ MaxAttempts \in Nat \ {0} /\ MaxWrites \in Nat
    /\ MaxIterations \in 1 .. 20
    /\ NoSource \notin Sources /\ NoJob \notin Jobs

VARIABLES agent,              \* the harness call in progress and its tools
          source,             \* the target source file of every lane
          outputs,            \* how often the outputs of a lane have changed
          jobs                \* every python job and its process

laneVars == <<agent, source, outputs, jobs>>

Phases == {"idle", "proposing", "waiting", "accepting", "accepted",
           "reported", "interrupted"}
JobStates == {"free", "running", "exited ok", "exited bad"}

\* What the harness hands to the review: nothing when it failed, else the lane
\* of the script with the digests of its source and outputs.
NoEvidence == {}
Evidence == [lane : Lanes, source : Sources, outputs : 0 .. MaxWrites]

LaneTypeOK ==
    /\ agent \in [phase : Phases, lane : Lanes, script : Lanes,
                  held : SUBSET (Sources \cup {NoSource}),
                  job : Jobs \cup {NoJob}, tool : {"execute", "continue"},
                  ran : Sources \cup {NoSource},
                  evidence : {NoEvidence} \cup {{e} : e \in Evidence}]
    /\ source \in [Lanes -> Sources \cup {NoSource}]
    /\ outputs \in [Lanes -> 0 .. MaxWrites]
    /\ jobs \in [Jobs -> [state : JobStates, lane : Lanes, known : BOOLEAN]]

FirstLane == <<1, 1>>
NoProcess == [state |-> "free", lane |-> FirstLane, known |-> FALSE]
IdleAgent(lane) ==
    [phase |-> "idle", lane |-> lane, script |-> lane, held |-> {},
     job |-> NoJob, tool |-> "execute", ran |-> NoSource, evidence |-> NoEvidence]

LaneInit ==
    /\ agent = IdleAgent(FirstLane)
    /\ source = [l \in Lanes |-> NoSource]
    /\ outputs = [l \in Lanes |-> 0]
    /\ jobs = [j \in Jobs |-> NoProcess]

Here == agent.lane
Proposing == agent.phase = "proposing"
Previous == <<Here[1], Here[2] - 1>>

-----------------------------------------------------------------------------
(* The tools of the agent.                                                   *)

\* Mutant: the directory is named after the iteration alone.
BeginLaneOfTask(lane) == agent' = [IdleAgent(<<1, lane[2]>>) EXCEPT !.phase = "proposing"]

\* DeepAgentsCodeProposalProvider.propose: an agent is built for each target,
\* which no process is given twice. It holds no source back from execution.
BeginLane(lane) == agent' = [IdleAgent(lane) EXCEPT !.phase = "proposing"]

\* write_code_source(append = False): refused if it is the previous
\* iteration's source.
WriteSource(s) ==
    /\ Proposing
    /\ Here[2] > 1 => source[Previous] # s
    /\ source' = [source EXCEPT ![Here] = s]
    /\ UNCHANGED <<agent, outputs, jobs>>

\* write_code_source(append = True): the longer file is not compared.
AppendSource(s) ==
    /\ Proposing
    /\ source[Here] \notin {NoSource, s}
    /\ source' = [source EXCEPT ![Here] = s]
    /\ UNCHANGED <<agent, outputs, jobs>>

\* python_execute is refused on the source its last failure was seen with.
PythonExecute(j) ==
    /\ Proposing /\ source[Here] \notin agent.held
    /\ jobs[j].state = "free"
    /\ jobs' = [jobs EXCEPT ![j] = [state |-> "running", lane |-> Here, known |-> TRUE]]
    /\ agent' = [agent EXCEPT !.phase = "waiting", !.job = j, !.tool = "execute",
                              !.ran = source[Here]]
    /\ UNCHANGED <<source, outputs>>

KnownHere(j) == jobs[j].known /\ jobs[j].lane = Here

\* python_continue waits again for a job of this lane's registry.
PythonContinue(j) ==
    /\ Proposing /\ KnownHere(j)
    /\ agent' = [agent EXCEPT !.phase = "waiting", !.job = j, !.tool = "continue"]
    /\ UNCHANGED <<source, outputs, jobs>>

\* The report of a wait. Only one that python_execute makes decides whether the
\* source of the lane has to change before the next execution.
Reports(failed) ==
    agent' = [agent EXCEPT !.phase = "proposing", !.job = NoJob,
                 !.tool = "execute", !.ran = NoSource,
                 !.held = IF agent.tool # "execute" THEN @
                          ELSE IF failed THEN {agent.ran} ELSE {}]

\* _wait_python_job: the soft checkpoint leaves the process running.
SoftCheckpoint ==
    /\ agent.phase = "waiting" /\ jobs[agent.job].state = "running"
    /\ Reports(FALSE)
    /\ UNCHANGED <<source, outputs, jobs>>

\* _finish_python_job: a job that ended leaves the registry.
JobReturns ==
    /\ agent.phase = "waiting" /\ jobs[agent.job].state \in {"exited ok", "exited bad"}
    /\ Reports(jobs[agent.job].state = "exited bad")
    /\ jobs' = [jobs EXCEPT ![agent.job] = NoProcess]
    /\ UNCHANGED <<source, outputs>>

\* python_cancel terminates the process, and kills it if it must.
PythonCancel(j) ==
    /\ Proposing /\ KnownHere(j)
    /\ jobs' = [jobs EXCEPT ![j] = NoProcess]
    /\ UNCHANGED <<agent, source, outputs>>

-----------------------------------------------------------------------------
(* The processes of the jobs, which neither an interrupt nor a handoff ends.  *)

JobExits(j, state) ==
    /\ jobs[j].state = "running" /\ state \in {"exited ok", "exited bad"}
    /\ jobs' = [jobs EXCEPT ![j] = IF @.known THEN [@ EXCEPT !.state = state]
                                             ELSE NoProcess]
    /\ UNCHANGED <<agent, source, outputs>>

\* Code generated by the agent runs: a job, or the script of the acceptance run.
ScriptRuns ==
    agent.phase = "accepting" \/ \E j \in Jobs : jobs[j].state = "running"

\* Such code runs in the shared root of the workspace with the rights of the
\* harness: it writes files of any lane, and over the source of any that has one.
ScriptWrites ==
    /\ ScriptRuns
    /\ \E l \in Lanes :
          \/ /\ outputs[l] < MaxWrites
             /\ outputs' = [outputs EXCEPT ![l] = @ + 1]
             /\ UNCHANGED source
          \/ /\ source[l] # NoSource
             /\ \E s \in Sources : source' = [source EXCEPT ![l] = s]
             /\ UNCHANGED outputs
    /\ UNCHANGED <<agent, jobs>>

-----------------------------------------------------------------------------
(* The end of a proposal, the acceptance run and its evidence.               *)

\* The structured handoff names any python file of the workspace, of this lane
\* or of an earlier one.
Handoff(script) ==
    /\ Proposing
    /\ source[script] # NoSource
    /\ agent' = [IdleAgent(Here) EXCEPT !.phase = "accepting", !.script = script]
    /\ UNCHANGED <<source, outputs, jobs>>

\* The end of the acceptance run, whose exit status the review judges.
AcceptanceRuns ==
    /\ agent.phase = "accepting"
    /\ agent' = [agent EXCEPT !.phase = "accepted"]
    /\ UNCHANGED <<source, outputs, jobs>>

\* _generated_files digests what the lane of the script holds by now.
EvidenceIsTaken ==
    /\ agent.phase = "accepted"
    /\ agent' = [agent EXCEPT !.phase = "reported",
           !.evidence = {[lane |-> agent.script, source |-> source[agent.script],
                          outputs |-> outputs[agent.script]]}]
    /\ UNCHANGED <<source, outputs, jobs>>

\* Any error of the agent, its loop guard or the policy becomes a report of a
\* failure without files.
AgentFails ==
    /\ Proposing
    /\ agent' = [agent EXCEPT !.phase = "reported", !.evidence = NoEvidence]
    /\ UNCHANGED <<source, outputs, jobs>>

\* Mutant: the acceptance run does not look for an interrupt.
InterruptAgent ==
    /\ Proposing /\ IsInterrupted
    /\ agent' = [agent EXCEPT !.phase = "interrupted"]
    /\ UNCHANGED <<source, outputs, jobs>>

\* The agent's stream looks for an interrupt between two of its states, and the
\* acceptance run while its child lives; neither touches the jobs.
InterruptCode ==
    /\ agent.phase \in {"proposing", "accepting"} /\ IsInterrupted
    /\ agent' = [agent EXCEPT !.phase = "interrupted"]
    /\ UNCHANGED <<source, outputs, jobs>>

\* The end of the harness process forgets the agent and the registries of
\* jobs. Its exit handler cancels the jobs it knows, unless it was killed.
CancelPythonJobs ==
    jobs' = [j \in Jobs |-> IF jobs[j].known THEN NoProcess ELSE jobs[j]]
AbandonPythonJobs ==
    jobs' = [j \in Jobs |->
                IF jobs[j].state = "running" THEN [NoProcess EXCEPT !.state = "running"]
                                             ELSE NoProcess]
LaneCrash ==
    /\ agent' = IdleAgent(FirstLane)
    /\ CancelPythonJobs \/ AbandonPythonJobs
    /\ UNCHANGED <<source, outputs>>

AgentStep ==
    \/ \E s \in Sources : WriteSource(s) \/ AppendSource(s)
    \/ \E j \in Jobs : PythonExecute(j) \/ PythonContinue(j) \/ PythonCancel(j)
    \/ SoftCheckpoint \/ JobReturns
    \/ \E l \in Lanes : Handoff(l)
    \/ AcceptanceRuns \/ EvidenceIsTaken \/ AgentFails \/ InterruptCode

JobStep == \E j \in Jobs, state \in JobStates : JobExits(j, state)
=============================================================================
