-------------------------- MODULE QuestionWorkflow --------------------------
(***************************************************************************)
(* One question of the durable workflow: the row of table questions, its   *)
(* rows of table activities (store.py) and the processes that run          *)
(* SingleQuestionWorkflow.run_step on it (workflow.py).                    *)
(*                                                                         *)
(* Every SQLite transaction is one action, every read that the code makes  *)
(* outside a transaction is an action of its own, and what a process keeps *)
(* in local variables between two of them is in mem.  Time is counted in   *)
(* ticks; a lease is the number of ticks left before it expires, so that   *)
(* lease = 0 is the instant lease_expires_at = now.                        *)
(***************************************************************************)
EXTENDS QuestionStates

CONSTANTS
  Process,            \* processes that call run_step
  WorkerId,           \* values of --worker-id
  WorkerOf,           \* the worker id each process was started with
  LeaseTicks,         \* lease_seconds, in ticks
  MaxLockWait,        \* ticks a transaction may wait for the write lock
  MaxAttempts,        \* max_activity_attempts
  MaxCrashes,         \* bound: number of process crashes in a behaviour
  IdempotentExecutor  \* the executor answers a repeated key identically

ASSUME WorkerAssumption == WorkerOf \in [Process -> WorkerId] /\ None \notin WorkerId
ASSUME LeaseAssumption == LeaseTicks \in Nat \ {0} /\ MaxLockWait \in Nat
ASSUME BudgetAssumption == /\ MaxAttempts \in Nat \ {0}
                           /\ MaxCrashes \in Nat
ASSUME SwitchAssumption == IdempotentExecutor \in BOOLEAN

VARIABLES
  question,   \* the row of table questions
  activity,   \* the rows of table activities, by <<stage, revision>>
  pc,         \* where in run_step each process is
  waited,     \* ticks since it arrived there, up to MaxLockWait
  mem,        \* the local variables of run_step
  beat,       \* the heartbeat thread of the process
  answers,    \* what an idempotent executor has answered, by activity key
  crashes     \* number of crashes so far

vars == <<question, activity, pc, waited, mem, beat, answers, crashes>>

-----------------------------------------------------------------------------
(* Rows, local variables *)

Lapsed == -(MaxLockWait + 1)
Lease == Lapsed..LeaseTicks

Status == {"absent", "pending", "running", "succeeded", "failed"}
Row == [status : Status, attempts : 0..MaxAttempts, worker : WorkerId \cup {None},
        lease : Lease, result : Answer \cup {None}, informed : BOOLEAN]
AbsentRow == [status |-> "absent", attempts |-> 0, worker |-> None,
              lease |-> Lapsed, result |-> None, informed |-> FALSE]

Question == [state : State, revision : 0..MaxRevisions,
             owner : WorkerId \cup {None}, lease : Lease]

Label == {"idle", "leased", "entering", "entered", "staged", "requesting",
          "claiming", "exhausted", "executing", "completing", "failing",
          "deciding", "advancing", "releasing"}

Memory == [state : State, revision : 0..MaxRevisions, stage : Stage,
           attempt : 0..MaxAttempts, informed : BOOLEAN,
           response : Answer \cup {None},
           target : State, targetRevision : (0..MaxRevisions) \cup {None}]
Blank == [state |-> "pending", revision |-> 0, stage |-> "modeling",
          attempt |-> 0, informed |-> FALSE, response |-> None,
          target |-> "pending", targetRevision |-> None]

Beat == {"off", "waiting", "due", "renewed", "lost"}

\* Mutant: the key of an activity leaves the revision out.
KeyOfStage(p) == <<mem[p].stage, 0>>
KeyOf(p) == <<mem[p].stage, mem[p].revision>>

-----------------------------------------------------------------------------
(* The store: conditions and updates of its transactions.  A transaction   *)
(* samples the clock before BEGIN IMMEDIATE and may then wait for the      *)
(* lock, so it judges a lease as it stood at any moment since the process  *)
(* arrived at the statement, up to MaxLockWait ticks ago.                  *)

LockWait(p) == 0..waited[p]

\* Mutant: only the expiry is compared, not the owner.
LeaseIsLive(p, wait) == question.lease + wait >= 0
OwnsQuestion(p, wait) ==
  /\ question.owner = WorkerOf[p]
  /\ question.lease + wait >= 0

LeasedByOther(p, wait) ==
  /\ question.owner \notin {None, WorkerOf[p]}
  /\ question.lease + wait > 0

HoldsActivity(p, wait) ==
  LET row == activity[KeyOf(p)]
  IN /\ row.worker = WorkerOf[p]
     /\ row.attempts = mem[p].attempt
     /\ row.status = "running"
     /\ row.lease + wait >= 0

\* An attempt is under way; none is, and there is no committed answer.
\* Mutants: the lease is over at the instant of its expiry; a committed row can
\* be claimed; the budget is compared one too late.
ClaimedBeforeExpiry(row, wait) == row.status = "running" /\ row.lease + wait > 0
Claimed(row, wait) == row.status = "running" /\ row.lease + wait >= 0
ClaimableAgain(row, wait) == ~Claimed(row, wait)
Claimable(row, wait) == row.status # "succeeded" /\ ~Claimed(row, wait)
OutOfAttemptsLate(row) == row.attempts > MaxAttempts
OutOfAttempts(row) == row.attempts >= MaxAttempts

\* The row once its activity is claimed again, has failed, or is committed.
\* Mutant: a claim does not count as an attempt.
SameAttempt(row, worker, wait) ==
  [row EXCEPT !.status = "running", !.worker = worker, !.lease = LeaseTicks - wait]
NewAttempt(row, worker, wait) ==
  [row EXCEPT !.status = "running", !.attempts = @ + 1, !.worker = worker,
              !.lease = LeaseTicks - wait]
FailedRow(row) == [row EXCEPT !.status = "failed", !.worker = None, !.lease = Lapsed]
CommittedRow(row, response, informed) ==
  [row EXCEPT !.status = "succeeded", !.worker = None, !.lease = Lapsed,
              !.result = response, !.informed = informed]

\* transition(): the guard of the UPDATE, then the UPDATE.
MayMove(p, expected, wait) == OwnsQuestion(p, wait) /\ question.state = expected

\* Mutant: the UPDATE forgets the revision.
MoveInPlace(state, revision) == question' = [question EXCEPT !.state = state]
Move(state, revision) ==
  question' = [question EXCEPT !.state = state,
                               !.revision = IF revision = None THEN @ ELSE revision]

Succeeded(stage, revision) == activity[<<stage, revision>>].status = "succeeded"

\* _approval_evidence_error() finds nothing: a committed modeling report of
\* any revision and a committed, locally evidenced coding report of this one.
ApprovalEvidence(revision) ==
  /\ \E r \in 0..MaxRevisions : Succeeded("modeling", r)
  /\ Succeeded("coding", revision)
  /\ activity[<<"coding", revision>>].result = "evidenced"

-----------------------------------------------------------------------------
(* One process *)

Arrive(p) == waited' = [waited EXCEPT ![p] = 0]
Goto(p, label) == pc' = [pc EXCEPT ![p] = label] /\ Arrive(p)
Keep(p, m) == mem' = [mem EXCEPT ![p] = m]

\* An exception, or the end of the step: on to the finally block.
Leave(p) == Goto(p, "releasing") /\ Keep(p, Blank)

\* acquire_question_lease(): the transaction.  A conflict is raised before the
\* try block and changes nothing.
Acquire(p) ==
  /\ pc[p] = "idle"
  /\ \E wait \in LockWait(p) :
       /\ ~LeasedByOther(p, wait)
       /\ question' = [question EXCEPT !.owner = WorkerOf[p],
                                       !.lease = LeaseTicks - wait]
  /\ Goto(p, "leased")
  /\ UNCHANGED <<activity, mem, beat, answers, crashes>>

\* acquire_question_lease() returns a separate read of the row.
ReadQuestion(p) ==
  LET s == question.state
      m == [Blank EXCEPT !.state = s, !.revision = question.revision,
                         !.stage = StageOf(s)]
  IN /\ pc[p] = "leased"
     /\ \/ s \in Terminal /\ Leave(p)
        \/ s \in EntryStates /\ Goto(p, "entering") /\ Keep(p, m)
        \/ s \in RunningStates /\ Goto(p, "staged") /\ Keep(p, m)
     /\ UNCHANGED <<question, activity, beat, answers, crashes>>

\* _enter_stage(): the transition into the running state.
EnterStage(p) ==
  /\ pc[p] = "entering"
  /\ \E wait \in LockWait(p) :
       \/ /\ MayMove(p, mem[p].state, wait)
          /\ Move(RunningState(mem[p].stage), None)
          /\ Goto(p, "entered")
          /\ UNCHANGED mem
       \/ /\ ~MayMove(p, mem[p].state, wait)
          /\ Leave(p)
          /\ UNCHANGED question
  /\ UNCHANGED <<activity, beat, answers, crashes>>

\* transition() returns a separate read of the row; the stage stays the one
\* chosen before the transition.
Reread(p) ==
  /\ pc[p] = "entered"
  /\ mem' = [mem EXCEPT ![p].state = question.state,
                        ![p].revision = question.revision]
  /\ Goto(p, "staged")
  /\ UNCHANGED <<question, activity, beat, answers, crashes>>

\* get_or_create_activity(): a committed answer is replayed, not executed.
OpenActivity(p) ==
  LET k == KeyOf(p)
  IN /\ pc[p] = "staged"
     /\ \/ /\ activity[k].status = "succeeded"
           /\ mem' = [mem EXCEPT ![p].response = activity[k].result]
           /\ Goto(p, "deciding")
           /\ UNCHANGED activity
        \/ /\ activity[k].status # "succeeded"
           /\ activity' = IF activity[k].status = "absent"
                          THEN [activity EXCEPT ![k].status = "pending"]
                          ELSE activity
           /\ Goto(p, "requesting")
           /\ UNCHANGED mem
     /\ UNCHANGED <<question, beat, answers, crashes>>

\* _request(): the inputs are listed now.  Only a review's inputs matter here:
\* whether they hold the committed coding report of the same revision.
BuildRequest(p) ==
  /\ pc[p] = "requesting"
  /\ mem' = [mem EXCEPT ![p].informed = \/ mem[p].stage # "review"
                                        \/ Succeeded("coding", mem[p].revision)]
  /\ Goto(p, "claiming")
  /\ UNCHANGED <<question, activity, beat, answers, crashes>>

\* claim_activity(): a row that succeeded meanwhile is returned unclaimed, and
\* run_step executes it all the same.
Execute(p, attempt) ==
  /\ mem' = [mem EXCEPT ![p].attempt = attempt]
  /\ Goto(p, "executing")
  /\ beat' = [beat EXCEPT ![p] = "waiting"]

Claim(p) ==
  LET k == KeyOf(p)
      row == activity[k]
  IN /\ pc[p] = "claiming"
     /\ \E wait \in LockWait(p) :
          \/ /\ row.status = "succeeded"
             /\ Execute(p, row.attempts)
             /\ UNCHANGED activity
          \/ /\ Claimed(row, wait)
             /\ Leave(p)
             /\ UNCHANGED <<activity, beat>>
          \/ /\ Claimable(row, wait) /\ OutOfAttempts(row)
             /\ Goto(p, "exhausted")
             /\ UNCHANGED <<activity, mem, beat>>
          \/ /\ Claimable(row, wait) /\ ~OutOfAttempts(row)
             /\ activity' = [activity EXCEPT ![k] = NewAttempt(row, WorkerOf[p], wait)]
             /\ Execute(p, row.attempts + 1)
     /\ UNCHANGED <<question, answers, crashes>>

\* The attempt budget is spent: the question fails.
Exhaust(p) ==
  /\ pc[p] = "exhausted"
  /\ \E wait \in LockWait(p) :
       \/ MayMove(p, mem[p].state, wait) /\ Move("failed", None)
       \/ ~MayMove(p, mem[p].state, wait) /\ UNCHANGED question
  /\ Leave(p)
  /\ UNCHANGED <<activity, beat, answers, crashes>>

\* _LeaseHeartbeat._run(): the activity lease first, then the question lease;
\* the first error ends the thread and is raised again when execution ends.
RenewActivity(p) ==
  /\ pc[p] = "executing" /\ beat[p] = "due"
  /\ \E wait \in LockWait(p) :
       \/ /\ HoldsActivity(p, wait)
          /\ activity' = [activity EXCEPT ![KeyOf(p)].lease = LeaseTicks - wait]
          /\ beat' = [beat EXCEPT ![p] = "renewed"]
       \/ /\ ~HoldsActivity(p, wait)
          /\ beat' = [beat EXCEPT ![p] = "lost"]
          /\ UNCHANGED activity
  /\ Arrive(p)
  /\ UNCHANGED <<question, pc, mem, answers, crashes>>

RenewQuestion(p) ==
  /\ pc[p] = "executing" /\ beat[p] = "renewed"
  /\ \E wait \in LockWait(p) :
       \/ /\ OwnsQuestion(p, wait)
          /\ question' = [question EXCEPT !.lease = LeaseTicks - wait]
          /\ beat' = [beat EXCEPT ![p] = "waiting"]
       \/ /\ ~OwnsQuestion(p, wait)
          /\ beat' = [beat EXCEPT ![p] = "lost"]
          /\ UNCHANGED question
  /\ Arrive(p)
  /\ UNCHANGED <<activity, pc, mem, answers, crashes>>

\* executor.execute() returns and the answer's files are written; leaving the
\* with block stops the heartbeat thread and raises its error, if any.
ExecutorAnswers(p) ==
  /\ pc[p] = "executing" /\ beat[p] # "renewed"
  /\ \E r \in Answers(mem[p].stage) :
       /\ IdempotentExecutor => answers[KeyOf(p)] \in {None, r}
       /\ answers' = IF IdempotentExecutor
                     THEN [answers EXCEPT ![KeyOf(p)] = r] ELSE answers
       /\ mem' = [mem EXCEPT ![p].response = r]
  /\ Goto(p, IF beat[p] = "lost" THEN "failing" ELSE "completing")
  /\ beat' = [beat EXCEPT ![p] = "off"]
  /\ UNCHANGED <<question, activity, crashes>>

\* The executor raises, or _materialize_response rejects its files.
ExecutorFails(p) ==
  /\ pc[p] = "executing" /\ beat[p] # "renewed"
  /\ Goto(p, "failing")
  /\ beat' = [beat EXCEPT ![p] = "off"]
  /\ UNCHANGED <<question, activity, mem, answers, crashes>>

\* complete_activity(): a row that has succeeded already is returned as it is,
\* and run_step goes on with the answer it holds in its own hands.
Complete(p) ==
  LET k == KeyOf(p)
  IN /\ pc[p] = "completing"
     /\ \E wait \in LockWait(p) :
          \/ /\ activity[k].status = "succeeded"
             /\ Goto(p, "deciding")
             /\ UNCHANGED activity
          \/ /\ activity[k].status # "succeeded" /\ HoldsActivity(p, wait)
             /\ activity' = [activity EXCEPT
                  ![k] = CommittedRow(@, mem[p].response, mem[p].informed)]
             /\ Goto(p, "deciding")
          \/ /\ activity[k].status # "succeeded" /\ ~HoldsActivity(p, wait)
             /\ Goto(p, "failing")
             /\ UNCHANGED activity
     /\ UNCHANGED <<question, mem, beat, answers, crashes>>

\* fail_activity(); an error in it is swallowed.
Fail(p) ==
  LET k == KeyOf(p)
  IN /\ pc[p] = "failing"
     /\ \E wait \in LockWait(p) :
          \/ /\ HoldsActivity(p, wait)
             /\ activity' = [activity EXCEPT ![k] = FailedRow(@)]
          \/ ~HoldsActivity(p, wait) /\ UNCHANGED activity
     /\ Leave(p)
     /\ UNCHANGED <<question, beat, answers, crashes>>

\* _complete_stage(): the answer decides the next state; an approval is
\* checked against the committed evidence in a read of its own.
\* Mutant: an approval is taken on trust.
OutcomeOnTrust(response, revision, target, next) ==
  \/ response = "modeled" /\ target = "ready_for_coding" /\ next = None
  \/ response \in Answers("coding") /\ target = "ready_for_review" /\ next = None
  \/ response = "approve" /\ target = "approved" /\ next = None
  \/ /\ response = "revise" /\ revision < MaxRevisions
     /\ target = "revision_required" /\ next = revision + 1
  \/ response = "published" /\ target = "completed" /\ next = None
Outcome(response, revision, target, next) ==
  \/ response = "modeled" /\ target = "ready_for_coding" /\ next = None
  \/ response \in Answers("coding") /\ target = "ready_for_review" /\ next = None
  \/ response = "approve" /\ ApprovalEvidence(revision) /\ target = "approved" /\ next = None
  \/ response = "approve" /\ ~ApprovalEvidence(revision) /\ target = "failed" /\ next = None
  \/ /\ response = "revise" /\ revision + 1 <= MaxRevisions
     /\ target = "revision_required" /\ next = revision + 1
  \/ response = "revise" /\ revision + 1 > MaxRevisions /\ target = "failed" /\ next = None
  \/ response = "published" /\ target = "completed" /\ next = None

Decide(p) ==
  /\ pc[p] = "deciding"
  /\ \E target \in State, next \in (0..MaxRevisions) \cup {None} :
       /\ Outcome(mem[p].response, mem[p].revision, target, next)
       /\ mem' = [mem EXCEPT ![p].target = target, ![p].targetRevision = next]
  /\ Goto(p, "advancing")
  /\ UNCHANGED <<question, activity, beat, answers, crashes>>

Advance(p) ==
  LET expected == RunningState(mem[p].stage)
  IN /\ pc[p] = "advancing"
     /\ \E wait \in LockWait(p) :
          \/ /\ MayMove(p, expected, wait)
             /\ Move(mem[p].target, mem[p].targetRevision)
          \/ ~MayMove(p, expected, wait) /\ UNCHANGED question
     /\ Leave(p)
     /\ UNCHANGED <<activity, beat, answers, crashes>>

\* release_question_lease(), in the finally block.
Release(p) ==
  /\ pc[p] = "releasing"
  /\ question' = IF question.owner = WorkerOf[p]
                 THEN [question EXCEPT !.owner = None, !.lease = Lapsed]
                 ELSE question
  /\ Goto(p, "idle")
  /\ UNCHANGED <<activity, mem, beat, answers, crashes>>

-----------------------------------------------------------------------------
(* The environment *)

\* The process dies and is started again: its memory is gone, its leases stay.
Crash(p) ==
  /\ pc[p] # "idle"
  /\ crashes < MaxCrashes
  /\ crashes' = crashes + 1
  /\ Goto(p, "idle") /\ Keep(p, Blank)
  /\ beat' = [beat EXCEPT ![p] = "off"]
  /\ UNCHANGED <<question, activity, answers>>

Elapsed(lease) == IF lease > Lapsed THEN lease - 1 ELSE Lapsed

\* One tick is the heartbeat period, max(1, lease_seconds / 3).  A process may be
\* suspended between any two statements, for any number of ticks.
Tick ==
  /\ question' = [question EXCEPT !.lease = Elapsed(@)]
  /\ activity' = [k \in Key |-> [activity[k] EXCEPT !.lease = Elapsed(@)]]
  /\ beat' = [p \in Process |-> IF beat[p] = "waiting" THEN "due" ELSE beat[p]]
  /\ waited' = [p \in Process |-> IF beat[p] = "waiting" THEN 0
                                  ELSE IF waited[p] < MaxLockWait
                                       THEN waited[p] + 1 ELSE MaxLockWait]
  /\ UNCHANGED <<pc, mem, answers, crashes>>

-----------------------------------------------------------------------------
(* The specification *)

Init ==
  /\ question = [state |-> "pending", revision |-> 0, owner |-> None, lease |-> Lapsed]
  /\ activity = [k \in Key |-> AbsentRow]
  /\ pc = [p \in Process |-> "idle"]
  /\ waited = [p \in Process |-> 0]
  /\ mem = [p \in Process |-> Blank]
  /\ beat = [p \in Process |-> "off"]
  /\ answers = [k \in Key |-> None]
  /\ crashes = 0

\* The steps of run_step and of its heartbeat thread, the executor's own aside.
Step(p) ==
  \/ Acquire(p) \/ ReadQuestion(p) \/ EnterStage(p) \/ Reread(p)
  \/ OpenActivity(p) \/ BuildRequest(p) \/ Claim(p) \/ Exhaust(p)
  \/ RenewActivity(p) \/ RenewQuestion(p) \/ Complete(p) \/ Fail(p)
  \/ Decide(p) \/ Advance(p) \/ Release(p)

ExecutorEnds(p) == ExecutorAnswers(p) \/ ExecutorFails(p)

Next == Tick \/ \E p \in Process : Step(p) \/ ExecutorEnds(p) \/ Crash(p)

Spec == Init /\ [][Next]_vars

-----------------------------------------------------------------------------
(* Properties *)

\* Type correctness: the rows, the local variables of run_step and the heartbeat
\* keep to their domains; attempts and revisions never exceed their budgets.
TypeOK ==
  /\ question \in Question
  /\ activity \in [Key -> Row]
  /\ pc \in [Process -> Label]
  /\ waited \in [Process -> 0..MaxLockWait]
  /\ mem \in [Process -> Memory]
  /\ beat \in [Process -> Beat]
  /\ answers \in [Key -> Answer \cup {None}]
  /\ crashes \in 0..MaxCrashes

\* An approved question rests on evidence that is committed, local and of the
\* revision being approved: the read of the evidence and the transition are two
\* steps, with another worker's steps and crashes possible between them.
ApprovalHasEvidence ==
  question.state \in {"approved", "finalizing", "completed"}
    => ApprovalEvidence(question.revision)

\* Between its read of the row and its last transition a process may find its
\* lease gone, but while the row still names it owner its copy is current.
Holding == {"entering", "staged", "requesting", "claiming", "exhausted",
            "executing", "completing", "failing", "deciding", "advancing"}
OwnerIsCurrent ==
  \A p \in Process :
    pc[p] \in Holding /\ question.owner = WorkerOf[p]
      => mem[p].state = question.state /\ mem[p].revision = question.revision

\* No stage is skipped and no revision is counted twice: the question is as far
\* as its committed activities, whoever committed them and whenever.
NothingIsSkipped ==
  LET s == question.state
      r == question.revision
  IN /\ s \notin {"pending", "modeling", "failed"} => Succeeded("modeling", 0)
     /\ s \in {"ready_for_review", "reviewing", "approved", "finalizing", "completed"}
          => Succeeded("coding", r)
     /\ s \in {"approved", "finalizing", "completed"} => Succeeded("review", r)
     /\ s = "completed" => Succeeded("finalize", r)
     /\ \A q \in 0..MaxRevisions : q < r => Succeeded("coding", q) /\ Succeeded("review", q)

\* Until an activity has succeeded no two processes execute it under the same
\* attempt number, so a stale attempt cannot commit or fail the current one.
AttemptsAreExclusive ==
  \A p, q \in Process :
    /\ p # q /\ KeyOf(p) = KeyOf(q)
    /\ {pc[p], pc[q]} \subseteq {"executing", "completing", "failing"}
    /\ activity[KeyOf(p)].status # "succeeded"
    => mem[p].attempt # mem[q].attempt

\* A committed activity is never claimed, failed, renewed or overwritten.
CommittedIsPermanent ==
  [][\A k \in Key : activity[k].status = "succeeded" => activity'[k] = activity[k]]_vars

\* The workflow, seen without workers and leases, is the question's lifecycle.
Lifecycle == INSTANCE QuestionLifecycle
  WITH state <- question.state, revision <- question.revision,
       committed <- [k \in Key |-> activity[k].result],
       Faithful <- IdempotentExecutor
ImplementsLifecycle == Lifecycle!Spec

\* A question that fails for want of attempts has no committed answer waiting:
\* "recovery when an activity committed before its state transition"
\* (src/README.md:33).  It does not hold: complete_activity reads the clock before
\* BEGIN IMMEDIATE.  While it waits for the lock, its lease ends and a claim finds
\* the attempts spent; then it commits, under the lease that was.
ExhaustionLosesNothing ==
  [][\A p \in Process :
       /\ pc[p] = "exhausted"
       /\ question.state # "failed" /\ question'.state = "failed"
       => activity[KeyOf(p)].status # "succeeded"]_vars

\* A committed activity is not executed again.
CommittedIsNotReexecuted ==
  [][\A p \in Process :
       pc[p] = "claiming" /\ pc'[p] = "executing"
         => activity'[KeyOf(p)].status = "running"]_vars

\* The review a question is approved by was asked with the coding report of the
\* revision it approves among its inputs.
ApprovalReviewedItsCoding ==
  question.state \in {"approved", "finalizing", "completed"}
    => activity[<<"review", question.revision>>].informed
=============================================================================
