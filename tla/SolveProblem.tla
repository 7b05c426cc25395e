---------------------------- MODULE SolveProblem ----------------------------
(* One task of a run, from its dispatch to the save of its report: the       *)
(* bounded loop of SolveProblemService, whose coding step is CodeLane, its   *)
(* control checkpoints, the exchange files it archives before each next      *)
(* stage, and RunReportStore.persist, with which the Main Harness indexes    *)
(* and checks them. The process may crash between any two steps; an attempt  *)
(* whose save is missing is dispatched again under the same number: answered *)
(* with the report that was recorded for it, refused while the reservation   *)
(* of the lost call lasts, or solved once more.                              *)
EXTENDS CodeLane, FiniteSets

CONSTANTS MaxCalls,           \* a bound: solve calls begun for the task
          ResumeFrom,         \* iterations a resumed call may start from
          Reviews             \* a bound: what reviews may decide

Decisions == {"approve", "revise", "reject"}

ASSUME CallAssumption ==
    /\ MaxCalls \in Nat \ {0} /\ MaxAttempts >= MaxCalls
    /\ ResumeFrom \subseteq Iterations /\ Reviews \subseteq Decisions

VARIABLES stage,              \* where the call in progress is
          call,               \* solve calls begun so far
          record,             \* the task's saved record
          ctx,                \* SolveProblemContext
          round,              \* the iteration in progress
          rounds,             \* the snapshots of the iterations ended
          archive,            \* exchange files on disk: which call wrote them
          results,            \* recorded result of every attempt
          saved               \* attempts whose question package is written

vars == <<commands, agent, source, outputs, jobs, stage, call, record, ctx,
          round, rounds, archive, results, saved>>

Checkpoints == {"solve_start", "iteration_start", "code_execute_start",
                "code_execute_complete", "model_code_review_start",
                "final_report_start"}
ModelCalls == {"explore", "reexplore", "summarize", "formulate", "review",
               "unify", "compose"}
Stages == Checkpoints \cup ModelCalls \cup
          {"idle", "prepare", "disclose", "handoff", "code", "coding_report",
           "revision", "next", "persist", "write_final", "write_package", "save"}

Names == {"preliminary_modeling_report", "model-to-code", "code-to-model",
          "model-to-code-revision", "modeling_report", "disclosure-failure"}
Paths == Attempts \X Iterations \X Names
Statuses == {"ready", "completed", "failed", "blocked"}
Calls == 1 .. MaxCalls

\* What the reviewer wants revised: the code, or "modeling" for the model and full
\* targets, which the loop treats alike.
Targets == {"code", "modeling"}

\* A batch of the context's instructions: those of the commands read at a
\* checkpoint, by their places in the file, or those of a round's review.
Batches == [kind : {"suggestions", "revision"}, of : SUBSET Nat, round : Nat]
CommandBatch(places) == [kind |-> "suggestions", of |-> places, round |-> 0]
ReviewBatch(i) == [kind |-> "revision", of |-> {}, round |-> i]

\* The mark of an exchange file that generated code has overwritten.
Overwritten == MaxCalls + 1

Snapshots == [iteration : Iterations, contract : 0 .. MaxCalls,
              evidence : {NoEvidence} \cup {{e} : e \in Evidence},
              decision : Decisions, unified : BOOLEAN]

\* What a call returns. "raised" stands for an exception of solve(), which the
\* tool runtime records as the failure of the call.
NoReport == [status |-> "none", rounds |-> <<>>, allow |-> {}, call |-> 0]
Reserved == [NoReport EXCEPT !.status = "running"]
Recorded(a) == results[a] \notin {NoReport, Reserved}

Attempt == record.attempts + 1
NewContext == [cursor |-> 0, instructions |-> <<>>, allow |-> {}]
NewRound(i, resumed) ==
    [iteration |-> i, start |-> i, resumed |-> resumed, contract |-> 0,
     evidence |-> NoEvidence, decision |-> "revise", asked |-> "code",
     unified |-> FALSE]

\* The context and the rounds live in the memory of one call.
Forgets == ctx' = NewContext /\ round' = NewRound(1, FALSE) /\ rounds' = <<>>

Init ==
    /\ NoCommands /\ LaneInit
    /\ stage = "idle" /\ call = 0
    /\ record = [status |-> "ready", attempts |-> 0]
    /\ ctx = NewContext
    /\ round = NewRound(1, FALSE) /\ rounds = <<>>
    /\ archive = [p \in Paths |-> 0]
    /\ results = [a \in Attempts |-> NoReport]
    /\ saved = {}

-----------------------------------------------------------------------------
(* Returning, the control checkpoint and the archive.                        *)

Return(status, allowed, snapshots) ==
    /\ stage' = "persist"
    /\ results' = [results EXCEPT ![Attempt] =
                      [status |-> status, rounds |-> snapshots,
                       allow |-> allowed, call |-> call]]

\* Mutants: the cursor stays behind the instructions; only the first of the
\* pending commands becomes an instruction.
ConsumedAgain ==
    [ctx EXCEPT !.instructions = Append(@, CommandBatch(Pending(ctx.cursor)))]
ConsumedFirst ==
    IF Pending(ctx.cursor) = {} THEN ctx
    ELSE [ctx EXCEPT
            !.cursor = Max(Numbered(Pending(ctx.cursor))),
            !.instructions = Append(@, CommandBatch({Min(Pending(ctx.cursor))}))]

\* _control_checkpoint: the commands beyond the cursor become instructions; an
\* interrupt among them, or any interrupt when there are none, ends the call.
Consumed ==
    IF Pending(ctx.cursor) = {} THEN ctx
    ELSE [ctx EXCEPT
            !.cursor = Max(Numbered(Pending(ctx.cursor))),
            !.instructions = Append(@, CommandBatch(Pending(ctx.cursor)))]

\* Mutant: only the last command is looked at.
StopsOnLast == commands # <<>> /\ commands[Len(commands)].kind = "interrupt"

StopsHere ==
    IF Pending(ctx.cursor) = {} THEN IsInterrupted
    ELSE \E n \in Pending(ctx.cursor) : commands[n].kind = "interrupt"

Interrupted(allowed) ==
    /\ Return("blocked", allowed, <<>>)
    /\ UNCHANGED <<round, rounds, archive>>

\* Passing a checkpoint leads to the next stage with the consumed context.
Checkpoint(here) ==
    /\ stage = here
    /\ ctx' = Consumed
    /\ UNCHANGED <<commands, source, outputs, jobs, call, record, saved>>

Archived(name) == <<Attempt, round.iteration, name>>

\* Mutant: a file that is already there is left as it is.
ArchiveNew(name) ==
    /\ archive' = [archive EXCEPT ![Archived(name)] = IF @ = 0 THEN call ELSE @]
    /\ ctx' = [ctx EXCEPT !.allow = @ \cup {Archived(name)}]

ArchiveAs(name) ==
    /\ archive' = [archive EXCEPT ![Archived(name)] = call]
    /\ ctx' = [ctx EXCEPT !.allow = @ \cup {Archived(name)}]

LaneUnchanged == UNCHANGED <<commands, laneVars, call, record, saved>>

ModelCall(here) == stage = here /\ LaneUnchanged

-----------------------------------------------------------------------------
(* Dispatch and the start of a call.                                         *)

\* MainHarness.dispatch of a ready task through the tool runtime, under a key
\* made of the attempt.
Ready == stage = "idle" /\ record.status = "ready" /\ Attempt \in Attempts

\* Mutant: the recorded result of the attempt is not looked up.
DispatchAnew ==
    /\ Ready
    /\ call < MaxCalls
    /\ call' = call + 1 /\ stage' = "solve_start"
    /\ results' = [results EXCEPT ![Attempt] = Reserved]
    /\ UNCHANGED <<commands, laneVars, record, ctx, round, rounds, archive, saved>>

Dispatch ==
    /\ Ready /\ ~ Recorded(Attempt)
    /\ call < MaxCalls
    /\ call' = call + 1 /\ stage' = "solve_start"
    /\ results' = [results EXCEPT ![Attempt] = Reserved]
    /\ UNCHANGED <<commands, laneVars, record, ctx, round, rounds, archive, saved>>

Answer ==
    /\ Ready /\ Recorded(Attempt)
    /\ stage' = "persist"
    /\ UNCHANGED <<commands, laneVars, call, record, ctx, round, rounds, archive,
                   results, saved>>

Refuse ==
    /\ Ready /\ results[Attempt] = Reserved
    /\ record' = [status |-> "failed", attempts |-> Attempt]
    /\ UNCHANGED <<commands, laneVars, stage, call, ctx, round, rounds, archive,
                   results, saved>>

\* The first checkpoint of a call, before anything is spent on it.
SolveStart ==
    /\ Checkpoint("solve_start") /\ UNCHANGED agent
    /\ IF StopsHere THEN Interrupted(ctx.allow)
       ELSE stage' = "prepare" /\ UNCHANGED <<round, rounds, archive, results>>

\* Research, the refusal of whole binary inputs, and the start of the loop, at
\* the first iteration or at the one a resumed call names with its contract.
Prepare ==
    /\ ModelCall("prepare")
    /\ \/ stage' = "iteration_start" /\ UNCHANGED round
       \/ \E i \in ResumeFrom :
             /\ stage' = "iteration_start"
             /\ round' = [NewRound(i, TRUE) EXCEPT !.contract = call]
    /\ UNCHANGED <<ctx, rounds, archive, results>>

IterationStart ==
    /\ stage = "iteration_start"
    /\ IF StopsHere THEN Interrupted(ctx.allow) /\ ctx' = Consumed
       ELSE /\ stage' = IF round.contract = 0 THEN "explore" ELSE "code_execute_start"
            /\ ctx' = IF rounds = <<>> THEN Consumed
                      ELSE [Consumed EXCEPT !.instructions =
                              Append(@, ReviewBatch(round.iteration - 1))]
            /\ UNCHANGED <<round, rounds, archive, results>>
    /\ LaneUnchanged

-----------------------------------------------------------------------------
(* The modeling stages, on the first pass only.                              *)

NoRoute ==
    /\ stage \in {"explore", "reexplore"} /\ LaneUnchanged
    /\ Return("failed", ctx.allow, rounds)
    /\ UNCHANGED <<ctx, round, rounds, archive>>

Explore ==
    /\ ModelCall("explore")
    /\ stage' \in {"disclose", "summarize"}
    /\ UNCHANGED <<ctx, round, rounds, archive, results>>

\* disclose(): some text, nothing new, or an exception for a file that is not on
\* the list, is gone, has changed or is no text.
Disclosed == {"text", "nothing", "refused"}

\* The files the exploration asks for; a refusal ends the call with an archived
\* failure.
Disclose ==
    /\ ModelCall("disclose")
    /\ \E answer \in Disclosed :
         IF answer = "refused"
         THEN /\ ArchiveAs("disclosure-failure")
              /\ Return("failed", ctx.allow \cup {Archived("disclosure-failure")}, rounds)
         ELSE /\ stage' = IF answer = "text" THEN "reexplore" ELSE "summarize"
              /\ UNCHANGED <<ctx, archive, results>>
    /\ UNCHANGED <<round, rounds>>

Reexplore ==
    /\ ModelCall("reexplore")
    /\ stage' = "summarize"
    /\ UNCHANGED <<ctx, round, rounds, archive, results>>

Summarize ==
    /\ ModelCall("summarize")
    /\ stage' = "formulate"
    /\ UNCHANGED <<ctx, round, rounds, archive, results>>

\* The contract of the call, named after it, and its archive.
Formulate ==
    /\ ModelCall("formulate")
    /\ round' = [round EXCEPT !.contract = call]
    /\ ArchiveAs("preliminary_modeling_report")
    /\ stage' = "handoff"
    /\ UNCHANGED <<rounds, results>>

ModelToCode ==
    /\ ModelCall("handoff")
    /\ ArchiveAs("model-to-code")
    /\ stage' = "code_execute_start"
    /\ UNCHANGED <<round, rounds, results>>

-----------------------------------------------------------------------------
(* Coding, review and revision.                                              *)

CodeStart ==
    /\ Checkpoint("code_execute_start")
    /\ IF StopsHere THEN Interrupted(ctx.allow) /\ UNCHANGED agent
       ELSE /\ stage' = "code" /\ BeginLane(<<Attempt, round.iteration>>)
            /\ UNCHANGED <<round, rounds, archive, results>>

\* A step of the agent while the loop waits for it.
Code ==
    /\ stage = "code" /\ AgentStep
    /\ UNCHANGED <<commands, stage, call, record, ctx, round, rounds, archive,
                   results, saved>>

CodeReturns ==
    /\ stage = "code" /\ agent.phase \in {"reported", "interrupted"}
    /\ agent' = IdleAgent(FirstLane)
    /\ IF agent.phase = "interrupted" THEN Interrupted(ctx.allow)
       ELSE /\ stage' = "code_execute_complete"
            /\ round' = [round EXCEPT !.evidence = agent.evidence]
            /\ UNCHANGED <<rounds, archive, results>>
    /\ UNCHANGED <<commands, source, outputs, jobs, call, record, ctx, saved>>

CodeDone ==
    /\ Checkpoint("code_execute_complete") /\ UNCHANGED agent
    /\ IF StopsHere THEN Interrupted(ctx.allow)
       ELSE stage' = "coding_report" /\ UNCHANGED <<round, rounds, archive, results>>

CodeToModel ==
    /\ ModelCall("coding_report")
    /\ ArchiveAs("code-to-model")
    /\ stage' = "model_code_review_start"
    /\ UNCHANGED <<round, rounds, results>>

ReviewStart ==
    /\ Checkpoint("model_code_review_start") /\ UNCHANGED agent
    /\ IF StopsHere THEN Interrupted(ctx.allow)
       ELSE stage' = "review" /\ UNCHANGED <<round, rounds, archive, results>>

\* Whatever part the reviewer wants revised, the target becomes the code: what
\* was asked for is kept by the probe alone.
Review ==
    /\ ModelCall("review")
    /\ \E d \in Reviews, t \in Targets :
          round' = [round EXCEPT !.decision = d,
                                 !.asked = IF d = "approve" THEN "code" ELSE t]
    /\ stage' = "revision"
    /\ UNCHANGED <<ctx, rounds, archive, results>>

\* Mutants: a round too many; a rejection ends the loop.
ClosingLate == round.decision = "approve" \/ round.iteration > Limit
ClosingOnReject == round.decision # "revise" \/ round.iteration = Limit

Closing == round.decision = "approve" \/ round.iteration = Limit

\* Mutant: the revision goes to the next round without a handoff file.
RevisionUnfiled ==
    /\ ModelCall("revision")
    /\ stage' = IF Closing THEN "unify" ELSE "next"
    /\ UNCHANGED <<ctx, archive, round, rounds, results>>

Revision ==
    /\ ModelCall("revision")
    /\ ArchiveAs("model-to-code-revision")
    /\ stage' = IF Closing THEN "unify" ELSE "next"
    /\ UNCHANGED <<round, rounds, results>>

Snapshot == [iteration |-> round.iteration, contract |-> round.contract,
             evidence |-> round.evidence, decision |-> round.decision,
             unified |-> round.unified]

\* The review's instructions go to the next round, after the files it asks for
\* are disclosed.
NextRound ==
    /\ ModelCall("next")
    /\ rounds' = Append(rounds, Snapshot)
    /\ round' = [round EXCEPT !.iteration = @ + 1, !.evidence = NoEvidence]
    /\ stage' = "iteration_start"
    /\ UNCHANGED <<ctx, archive, results>>

-----------------------------------------------------------------------------
(* The end of a call.                                                        *)

Unify ==
    /\ ModelCall("unify")
    /\ ArchiveAs("modeling_report")
    /\ rounds' = Append(rounds, [Snapshot EXCEPT !.unified = TRUE])
    /\ stage' = "final_report_start"
    /\ UNCHANGED <<round, results>>

FinalStart ==
    /\ Checkpoint("final_report_start") /\ UNCHANGED agent
    /\ IF StopsHere THEN Interrupted(ctx.allow)
       ELSE stage' = "compose" /\ UNCHANGED <<round, rounds, archive, results>>

Compose ==
    /\ ModelCall("compose")
    /\ Return("completed", ctx.allow, rounds)
    /\ UNCHANGED <<ctx, round, rounds, archive>>

\* Any provider call, research, input check or review disclosure may raise.
Raise ==
    /\ stage \in ModelCalls \cup {"prepare", "next"} /\ LaneUnchanged
    /\ Return("raised", {}, <<>>)
    /\ UNCHANGED <<ctx, round, rounds, archive>>

-----------------------------------------------------------------------------
(* RunReportStore.persist and the save of the record.                        *)

Result == results[Attempt]
EvidenceOf(snapshots) == UNION {snapshots[k].evidence : k \in DOMAIN snapshots}

\* _index_existing: the file has the digest its reference was made with.
Unchanged(e) == source[e.lane] = e.source /\ outputs[e.lane] = e.outputs
AsArchived(p) == archive[p] = Result.call

\* A failure of persist is saved as the failure of the attempt.
Indexed ==
    /\ \A e \in EvidenceOf(Result.rounds) : Unchanged(e)
    /\ \A p \in Result.allow : AsArchived(p)

PersistIndex ==
    /\ stage = "persist" /\ Result.status # "raised" /\ Indexed
    /\ stage' = IF Result.status = "completed" THEN "write_final" ELSE "write_package"
    /\ UNCHANGED <<commands, laneVars, call, record, ctx, round, rounds, archive,
                   results, saved>>

PersistFinal ==
    /\ stage = "write_final" /\ stage' = "write_package"
    /\ UNCHANGED <<commands, laneVars, call, record, ctx, round, rounds, archive,
                   results, saved>>

\* The question package, the last file, lists what was indexed.
PersistPackage ==
    /\ stage = "write_package" /\ stage' = "save"
    /\ saved' = saved \cup {Attempt}
    /\ UNCHANGED <<commands, laneVars, call, record, ctx, round, rounds, archive,
                   results>>

SaveAs(status) ==
    /\ record' = [status |-> status, attempts |-> Attempt]
    /\ stage' = "idle" /\ Forgets
    /\ UNCHANGED <<commands, laneVars, call, archive, results, saved>>

Save == stage = "save" /\ SaveAs(Result.status)

SaveFailure ==
    /\ stage = "persist" /\ (Result.status = "raised" \/ ~ Indexed)
    /\ SaveAs("failed")

-----------------------------------------------------------------------------
(* What surrounds a call.                                                    *)

Operator ==
    /\ \E kind \in Kinds : Submit(kind)
    /\ UNCHANGED <<laneVars, stage, call, record, ctx, round, rounds, archive,
                   results, saved>>

\* What generated code has changed besides sources, which MaxWrites bounds.
Written == SumFunction(outputs) + Cardinality({p \in Paths : archive[p] = Overwritten})

\* Generated code writes to a lane, or over an exchange file.
Script ==
    /\ \/ ScriptWrites /\ UNCHANGED archive
       \/ /\ ScriptRuns
          /\ \E p \in Paths :
                /\ archive[p] \notin {0, Overwritten}
                /\ archive' = [archive EXCEPT ![p] = Overwritten]
          /\ UNCHANGED laneVars
    /\ Written' <= MaxWrites
    /\ UNCHANGED <<commands, stage, call, record, ctx, round, rounds, results,
                   saved>>

\* The processes of jobs outlive the call and the harness.
Job ==
    /\ JobStep
    /\ UNCHANGED <<commands, stage, call, record, ctx, round, rounds, archive,
                   results, saved>>

\* The harness process ends, between two calls or within one.
Crash ==
    /\ stage' = "idle" /\ LaneCrash /\ Forgets
    /\ UNCHANGED <<commands, call, record, archive, results, saved>>

\* MainHarness.rollback makes a task that ended ready again.
Rollback ==
    /\ stage = "idle" /\ record.status # "ready"
    /\ record' = [record EXCEPT !.status = "ready"]
    /\ UNCHANGED <<commands, laneVars, stage, call, ctx, round, rounds, archive,
                   results, saved>>

CallStep ==
    \/ SolveStart \/ Prepare \/ IterationStart
    \/ Explore \/ NoRoute \/ Disclose \/ Reexplore \/ Summarize \/ Formulate
    \/ ModelToCode \/ CodeStart \/ CodeReturns \/ CodeDone \/ CodeToModel
    \/ ReviewStart \/ Review \/ Revision \/ NextRound
    \/ Unify \/ FinalStart \/ Compose \/ Raise
    \/ PersistIndex \/ PersistFinal \/ PersistPackage \/ Save \/ SaveFailure

Next == CallStep \/ Dispatch \/ Answer \/ Refuse \/ Code \/ Operator \/ Script
          \/ Job \/ Crash \/ Rollback

\* Providers answer or fail, waits for a job end at the soft checkpoint, and the
\* agent's stream is looked at again and again. Nothing makes the agent hand
\* off or a generated script end.
Fairness ==
    /\ WF_vars(CallStep)
    /\ WF_vars(stage = "code" /\ (SoftCheckpoint \/ JobReturns \/ EvidenceIsTaken)
               /\ UNCHANGED <<commands, stage, call, record, ctx, round, rounds,
                              archive, results, saved>>)
    /\ SF_vars(stage = "code" /\ InterruptCode
               /\ UNCHANGED <<commands, stage, call, record, ctx, round, rounds,
                              archive, results, saved>>)

Spec == Init /\ [][Next]_vars
FairSpec == Spec /\ Fairness
-----------------------------------------------------------------------------
(* What the loop promises.                                                   *)

\* Every variable has its type (the field types of the dataclasses in
\* domain/solve_problem.py and of the task record).
TypeOK ==
    /\ LaneTypeOK
    /\ commands \in Seq(Commands) /\ Len(commands) <= MaxCommands
    /\ stage \in Stages /\ call \in 0 .. MaxCalls
    /\ record \in [status : Statuses, attempts : 0 .. MaxAttempts]
    /\ ctx.cursor \in Nat /\ ctx.allow \subseteq Paths
    /\ \A k \in DOMAIN ctx.instructions : ctx.instructions[k] \in Batches
    /\ round.iteration \in Iterations /\ round.contract \in 0 .. call
    /\ \A k \in DOMAIN rounds : rounds[k] \in Snapshots
    /\ archive \in [Paths -> 0 .. call \cup {Overwritten}]
    /\ \A a \in Attempts : results[a].allow \subseteq Paths /\ results[a].call <= call
    /\ saved \subseteq Attempts

\* No command of the operator is given to the stages twice, and the instructions
\* of every review reach the next round exactly once and in order
\* (_control_checkpoint 836-879, the instruction list of _solve 417-420 and 786).
Covers(n) == {k \in DOMAIN ctx.instructions :
                 /\ ctx.instructions[k].kind = "suggestions"
                 /\ n \in ctx.instructions[k].of}
Brings(i) == {k \in DOMAIN ctx.instructions :
                 /\ ctx.instructions[k].kind = "revision"
                 /\ ctx.instructions[k].round = i}
InstructionsOnce ==
    /\ \A n \in DOMAIN commands : \A j, k \in Covers(n) : j = k
    /\ stage \in {"code", "review", "compose"} =>
          LET due == round.start .. round.iteration - 1 IN
          /\ \A i \in due : Cardinality(Brings(i)) = 1
          /\ \A k \in DOMAIN ctx.instructions : ctx.instructions[k].kind = "revision" =>
                /\ ctx.instructions[k].round \in due
                /\ \A i \in round.start .. ctx.instructions[k].round - 1 :
                      \E j \in 1 .. k - 1 : j \in Brings(i)

\* A stage never misses a command it was started after: leaving a checkpoint,
\* the context holds every command of the file that was numbered in turn, however
\* many came since the last checkpoint and whatever was read there
\* (_control_checkpoint 836-879).
LeavesCheckpoint == stage \in Checkpoints /\ stage' \notin {stage, "idle"}
SuggestionsHeard ==
    [][LeavesCheckpoint =>
         \A n \in DOMAIN commands : InTurn(n) => (Covers(n) # {})']_vars

\* The same of every command, which is not so: of two consoles that append at
\* once, one may number its command below the cursor, and no checkpoint reads it
\* (human_control.py 155-157; refuted by SolveProblem_consoles.cfg).
EveryCommandHeard ==
    [][LeavesCheckpoint => \A n \in DOMAIN commands : (Covers(n) # {})']_vars

\* The exchange file a stage reads is on disk and named to it, written by this
\* very call, whatever an earlier call of the same attempt left there, or by
\* generated code since (_archive 881-910 before every next stage).
OnFile(i, name) ==
    LET p == <<Attempt, i, name>> IN p \in ctx.allow /\ archive[p] \in {call, Overwritten}
ArchivedBeforeNext ==
    /\ stage = "code" =>
          IF round.iteration > round.start
          THEN OnFile(round.iteration - 1, "model-to-code-revision")
          ELSE round.resumed \/ OnFile(round.iteration, "model-to-code")
    /\ stage = "review" => OnFile(round.iteration, "code-to-model")
    /\ stage = "compose" => \A i \in round.start .. round.iteration :
          OnFile(i, "model-to-code-revision") /\ OnFile(i, "code-to-model")

\* A completed result closes with a unified report on an approved or a last
\* iteration, goes back to no approved round, and keeps one modeling contract
\* through consecutive iterations, whatever part the reviewers wanted revised
\* (_solve 415-785; "the modeling contract is never reopened by this loop",
\* solve_problem.py 652-654, against README.md 23: see the next property).
ClosedByReview ==
    \A a \in Attempts : results[a].status = "completed" =>
        LET done == results[a].rounds  last == Len(done) IN
        /\ last > 0
        /\ done[last].unified
        /\ done[last].decision = "approve" \/ done[last].iteration = Limit
        /\ \A k \in 1 .. last - 1 :
              /\ done[k].decision # "approve" /\ ~ done[k].unified
              /\ done[k + 1].iteration = done[k].iteration + 1
              /\ done[k + 1].contract = done[k].contract
        /\ done[last].contract = results[a].call

\* "model/full revisions repeat exploration and synthesis" (README.md 23): after
\* a review that asks for one, the next round begins without a contract. It is
\* not so: the code keeps the contract (refuted by SolveProblem_revision.cfg).
RevisionReopensModeling ==
    [][stage = "next" /\ stage' = "iteration_start" /\ round.asked # "code"
         => round'.contract = 0]_vars

\* A result once recorded is never replaced: an attempt repeated after a crash
\* is answered, not solved again (main_harness.py 165-300, tools.py 128-246).
OneResultPerAttempt ==
    [][\A a \in Attempts : Recorded(a) => results'[a] = results[a]]_vars

\* The exchange files, source and outputs a saved package lists change only by
\* what generated code writes while it runs: no step of the harness, its agent or
\* its tools, for a later attempt or after a crash, touches them (_target_path
\* 692-703, archive_markdown 101-130). Nothing confines a script (local_tools.py
\* 532), and the model lets one write to any lane and exchange file.
SavedFilesStand ==
    [][\/ Script
       \/ \A a \in saved :
            /\ \A p \in results[a].allow : archive'[p] = archive[p]
            /\ \A e \in EvidenceOf(results[a].rounds) : Unchanged(e) => Unchanged(e)']_vars

\* An interrupt that was numbered in turn ends the work at the next checkpoint,
\* whatever suggestions came with it or after it, and a dispatch made later is
\* ended by it as well (_control_checkpoint 853-878, is_interrupted 90-91).
InterruptStopsWork ==
    [][LeavesCheckpoint
         /\ (\E n \in DOMAIN commands : commands[n].kind = "interrupt" /\ InTurn(n))
         => results'[Attempt].status = "blocked" /\ stage' = "persist"]_vars

\* A call that is told to stop does stop, though its script may never end and
\* its agent never hand off.
InterruptEndsTheCall == IsInterrupted ~> stage = "idle"

=============================================================================
