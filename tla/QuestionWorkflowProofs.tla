----------------------- MODULE QuestionWorkflowProofs -----------------------
(***************************************************************************)
(* Proofs about QuestionWorkflow, for every value of its constants.        *)
(***************************************************************************)
EXTENDS QuestionWorkflow, TLAPS

-----------------------------------------------------------------------------
(* The vocabulary *)

\* What a stage may answer is an answer.
LEMMA AnswersAreAnswers ==
  ASSUME NEW stage \in Stage
  PROVE  Answers(stage) \subseteq Answer
BY DEF Answer, Stage

\* The stage of a state is a stage, the running state of a stage is a state.
LEMMA StagesAndStates ==
  /\ \A s \in State : StageOf(s) \in Stage
  /\ \A s \in Stage : RunningState(s) \in State
BY DEF StageOf, RunningState, Stage, State, EntryStates, RunningStates, Terminal

\* A spent lease is a lease, and stays one as time passes.
LEMMA TicksAreLeases ==
  /\ Lapsed \in Lease
  /\ \A l \in Lease : Elapsed(l) \in Lease
BY LeaseAssumption DEF Lapsed, Lease, Elapsed

\* A lease taken after any wait of this process is a lease.
LEMMA WaitsAreBounded ==
  ASSUME TypeOK, NEW p \in Process
  PROVE  \A wait \in LockWait(p) : LeaseTicks - wait \in Lease
<1> waited[p] \in 0..MaxLockWait
  BY DEF TypeOK
<1> QED
  BY LeaseAssumption DEF LockWait, Lease, Lapsed

\* What TypeOK says of one process: its memory, its row, the question.
LEMMA MemoryFacts ==
  ASSUME TypeOK, NEW p \in Process
  PROVE  /\ mem[p] \in Memory /\ mem[p].stage \in Stage /\ mem[p].response \in Answer \cup {None}
         /\ mem[p].revision \in 0..MaxRevisions
         /\ KeyOf(p) \in Key /\ activity[KeyOf(p)] \in Row
         /\ question \in Question /\ question.state \in State
         /\ question.revision \in 0..MaxRevisions
BY DEF TypeOK, Memory, Question, KeyOf, Key

\* A row claimed, failed or committed is a row.
LEMMA RowsAreRows ==
  ASSUME NEW row \in Row
  PROVE  /\ \A wait : \A worker \in WorkerId : LeaseTicks - wait \in Lease /\ ~OutOfAttempts(row)
              => NewAttempt(row, worker, wait) \in Row
         /\ FailedRow(row) \in Row
         /\ \A response \in Answer \cup {None}, informed \in BOOLEAN :
              CommittedRow(row, response, informed) \in Row
<1>1. ASSUME NEW worker \in WorkerId, NEW wait, LeaseTicks - wait \in Lease, ~OutOfAttempts(row)
      PROVE  NewAttempt(row, worker, wait) \in Row
  <2> row.attempts + 1 \in 0..MaxAttempts
    BY <1>1, BudgetAssumption DEF Row, OutOfAttempts
  <2> QED
    BY <1>1 DEF NewAttempt, Row, Status
<1>2. FailedRow(row) \in Row
  BY TicksAreLeases DEF FailedRow, Row, Status
<1>3. ASSUME NEW response \in Answer \cup {None}, NEW informed \in BOOLEAN
      PROVE  CommittedRow(row, response, informed) \in Row
  BY TicksAreLeases DEF CommittedRow, Row, Status
<1> QED
  BY <1>1, <1>2, <1>3

\* The empty local variables are well typed.
LEMMA BlankIsMemory == Blank \in Memory
BY RevisionAssumption, BudgetAssumption DEF Blank, Memory, State, EntryStates, Stage

\* Going on to another statement keeps pc and waited in their domains.
LEMMA GotoIsTyped ==
  ASSUME TypeOK, NEW p \in Process, NEW label \in Label, Goto(p, label)
  PROVE  pc' \in [Process -> Label] /\ waited' \in [Process -> 0..MaxLockWait]
BY LeaseAssumption DEF TypeOK, Goto, Arrive

\* Leaving a step clears the local variables.
LEMMA LeaveIsTyped ==
  ASSUME TypeOK, NEW p \in Process, Leave(p)
  PROVE  /\ pc' \in [Process -> Label] /\ waited' \in [Process -> 0..MaxLockWait]
         /\ mem' \in [Process -> Memory]
BY GotoIsTyped, BlankIsMemory DEF TypeOK, Leave, Keep, Label

\* A transition of the question keeps its row in its domain.
LEMMA MoveIsTyped ==
  ASSUME TypeOK, NEW s \in State, NEW r \in (0..MaxRevisions) \cup {None}, Move(s, r)
  PROVE  question' \in Question
BY NoneAssumption DEF TypeOK, Question, Move

-----------------------------------------------------------------------------
(* Type correctness *)

\* The initial state is well typed.
LEMMA TypeInit == Init => TypeOK
<1> SUFFICES ASSUME Init PROVE TypeOK
  OBVIOUS
<1>1. question \in Question
  BY RevisionAssumption, TicksAreLeases DEF Init, Question, State, EntryStates
<1>2. AbsentRow \in Row
  BY BudgetAssumption, TicksAreLeases DEF AbsentRow, Row, Status
<1> QED
  BY <1>1, <1>2, BlankIsMemory, LeaseAssumption, BudgetAssumption DEF Init, TypeOK, Label, Beat

\* Every step keeps the types.
LEMMA TypeNext == TypeOK /\ [Next]_vars => TypeOK'
<1> SUFFICES ASSUME TypeOK, [Next]_vars PROVE TypeOK'
  OBVIOUS
<1>1. ASSUME NEW p \in Process, Step(p) \/ ExecutorEnds(p) \/ Crash(p) PROVE TypeOK'
  <2> /\ mem[p] \in Memory /\ mem[p].stage \in Stage /\ mem[p].response \in Answer \cup {None}
      /\ mem[p].revision \in 0..MaxRevisions
      /\ KeyOf(p) \in Key /\ activity[KeyOf(p)] \in Row
      /\ question \in Question /\ question.state \in State
      /\ question.revision \in 0..MaxRevisions
      /\ WorkerOf[p] \in WorkerId
    BY MemoryFacts, WorkerAssumption
  <2>1. CASE Acquire(p)
    <3>1. question' \in Question
      <4>1. PICK wait \in LockWait(p) :
              question' = [question EXCEPT !.owner = WorkerOf[p], !.lease = LeaseTicks - wait]
        BY <2>1 DEF Acquire
      <4>2. LeaseTicks - wait \in Lease
        BY WaitsAreBounded
      <4> QED
        BY <4>1, <4>2 DEF Question
    <3> QED
      BY <2>1, <3>1, GotoIsTyped DEF TypeOK, Acquire, Label
  <2>2. CASE ReadQuestion(p)
    <3>1. [Blank EXCEPT !.state = question.state, !.revision = question.revision,
                        !.stage = StageOf(question.state)] \in Memory
      BY BlankIsMemory, StagesAndStates DEF Memory
    <3> QED
      BY <2>2, <3>1, GotoIsTyped, LeaveIsTyped DEF TypeOK, ReadQuestion, Keep, Label
  <2>3. CASE EnterStage(p)
    <3>1. question' \in Question
      BY <2>3, MoveIsTyped, StagesAndStates DEF EnterStage
    <3> QED
      BY <2>3, <3>1, GotoIsTyped, LeaveIsTyped DEF TypeOK, EnterStage, Label
  <2>4. CASE Reread(p)
    <3>1. mem' \in [Process -> Memory]
      BY <2>4 DEF TypeOK, Reread, Memory
    <3> QED
      BY <2>4, <3>1, GotoIsTyped DEF TypeOK, Reread, Label
  <2>5. CASE OpenActivity(p)
    <3>1. activity' \in [Key -> Row]
      BY <2>5 DEF TypeOK, OpenActivity, Row, Status
    <3>2. mem' \in [Process -> Memory]
      <4>1. activity[KeyOf(p)].result \in Answer \cup {None}
        BY DEF Row
      <4>2. \/ mem' = mem
            \/ mem' = [mem EXCEPT ![p].response = activity[KeyOf(p)].result]
        BY <2>5 DEF OpenActivity
      <4> QED
        BY <4>1, <4>2 DEF TypeOK, Memory
    <3> QED
      BY <2>5, <3>1, <3>2, GotoIsTyped DEF TypeOK, OpenActivity, Label
  <2>6. CASE BuildRequest(p)
    <3>1. mem' \in [Process -> Memory]
      BY <2>6 DEF TypeOK, BuildRequest, Memory
    <3> QED
      BY <2>6, <3>1, GotoIsTyped DEF TypeOK, BuildRequest, Label
  <2>7. CASE Claim(p)
    <3>1. ASSUME NEW a \in 0..MaxAttempts, Execute(p, a)
          PROVE  /\ mem' \in [Process -> Memory] /\ beat' \in [Process -> Beat]
                 /\ pc' \in [Process -> Label] /\ waited' \in [Process -> 0..MaxLockWait]
      BY <3>1, GotoIsTyped DEF TypeOK, Execute, Memory, Beat, Label
    <3>2. activity[KeyOf(p)].attempts \in 0..MaxAttempts
      BY DEF Row
    <3>3. ~OutOfAttempts(activity[KeyOf(p)]) => activity[KeyOf(p)].attempts + 1 \in 0..MaxAttempts
      BY <3>2, BudgetAssumption DEF OutOfAttempts
    <3>4. activity' \in [Key -> Row]
      BY <2>7, RowsAreRows, WaitsAreBounded DEF TypeOK, Claim
    <3>5. /\ mem' \in [Process -> Memory] /\ beat' \in [Process -> Beat]
          /\ pc' \in [Process -> Label] /\ waited' \in [Process -> 0..MaxLockWait]
      BY <2>7, <3>1, <3>2, <3>3, GotoIsTyped, LeaveIsTyped DEF TypeOK, Claim, Label
    <3> QED
      BY <2>7, <3>4, <3>5 DEF TypeOK, Claim
  <2>8. CASE Exhaust(p)
    <3>1. question' \in Question
      BY <2>8, MoveIsTyped DEF Exhaust, State, Terminal
    <3> QED
      BY <2>8, <3>1, LeaveIsTyped DEF TypeOK, Exhaust
  <2>9. CASE RenewActivity(p)
    <3>1. activity' \in [Key -> Row]
      <4>1. PICK wait \in LockWait(p) :
              \/ activity' = [activity EXCEPT ![KeyOf(p)].lease = LeaseTicks - wait]
              \/ activity' = activity
        BY <2>9 DEF RenewActivity
      <4>2. LeaseTicks - wait \in Lease
        BY WaitsAreBounded
      <4>3. [activity[KeyOf(p)] EXCEPT !.lease = LeaseTicks - wait] \in Row
        BY <4>2 DEF Row
      <4> QED
        BY <4>1, <4>3 DEF TypeOK
    <3>2. waited' \in [Process -> 0..MaxLockWait] /\ beat' \in [Process -> Beat]
      BY <2>9, LeaseAssumption DEF TypeOK, RenewActivity, Arrive, Beat
    <3> QED
      BY <2>9, <3>1, <3>2 DEF TypeOK, RenewActivity
  <2>10. CASE RenewQuestion(p)
    <3>1. question' \in Question
      <4>1. PICK wait \in LockWait(p) :
              question' = [question EXCEPT !.lease = LeaseTicks - wait] \/ question' = question
        BY <2>10 DEF RenewQuestion
      <4>2. LeaseTicks - wait \in Lease
        BY WaitsAreBounded
      <4> QED
        BY <4>1, <4>2 DEF Question
    <3>2. waited' \in [Process -> 0..MaxLockWait] /\ beat' \in [Process -> Beat]
      BY <2>10, LeaseAssumption DEF TypeOK, RenewQuestion, Arrive, Beat
    <3> QED
      BY <2>10, <3>1, <3>2 DEF TypeOK, RenewQuestion
  <2>11. CASE ExecutorAnswers(p)
    <3>1. PICK r \in Answers(mem[p].stage) :
            /\ answers' = IF IdempotentExecutor THEN [answers EXCEPT ![KeyOf(p)] = r] ELSE answers
            /\ mem' = [mem EXCEPT ![p].response = r]
      BY <2>11 DEF ExecutorAnswers
    <3>2. r \in Answer
      BY AnswersAreAnswers
    <3>3. mem' \in [Process -> Memory] /\ answers' \in [Key -> Answer \cup {None}]
      BY <3>1, <3>2 DEF TypeOK, Memory
    <3>4. beat' \in [Process -> Beat]
      BY <2>11 DEF TypeOK, ExecutorAnswers, Beat
    <3> QED
      BY <2>11, <3>3, <3>4, GotoIsTyped DEF TypeOK, ExecutorAnswers, Label
  <2>12. CASE ExecutorFails(p)
    <3>1. beat' \in [Process -> Beat]
      BY <2>12 DEF TypeOK, ExecutorFails, Beat
    <3> QED
      BY <2>12, <3>1, GotoIsTyped DEF TypeOK, ExecutorFails, Label
  <2>13. CASE Complete(p)
    <3>1. mem[p].informed \in BOOLEAN
      BY DEF Memory
    <3> CommittedRow(activity[KeyOf(p)], mem[p].response, mem[p].informed) \in Row
      BY <3>1, RowsAreRows
    <3> activity \in [Key -> Row]
      BY DEF TypeOK
    <3>2. activity' \in [Key -> Row]
      BY <2>13 DEF Complete
    <3> QED
      BY <2>13, <3>2, GotoIsTyped DEF TypeOK, Complete, Label
  <2>14. CASE Fail(p)
    <3>1. activity' \in [Key -> Row]
      BY <2>14, RowsAreRows DEF TypeOK, Fail
    <3> QED
      BY <2>14, <3>1, LeaveIsTyped DEF TypeOK, Fail
  <2>15. CASE Decide(p)
    <3>1. PICK target \in State, next \in (0..MaxRevisions) \cup {None} :
            mem' = [mem EXCEPT ![p].target = target, ![p].targetRevision = next]
      BY <2>15 DEF Decide
    <3>2. mem' \in [Process -> Memory]
      BY <3>1 DEF TypeOK, Memory
    <3> QED
      BY <2>15, <3>2, GotoIsTyped DEF TypeOK, Decide, Label
  <2>16. CASE Advance(p)
    <3>1. mem[p].target \in State /\ mem[p].targetRevision \in (0..MaxRevisions) \cup {None}
      BY DEF Memory
    <3>2. question' \in Question
      BY <2>16, <3>1, MoveIsTyped DEF Advance
    <3> QED
      BY <2>16, <3>2, LeaveIsTyped DEF TypeOK, Advance
  <2>17. CASE Release(p)
    <3>1. question' \in Question
      BY <2>17, TicksAreLeases DEF Release, Question
    <3> QED
      BY <2>17, <3>1, GotoIsTyped DEF TypeOK, Release, Label
  <2>18. CASE Crash(p)
    <3>1. mem' \in [Process -> Memory] /\ beat' \in [Process -> Beat] /\ crashes' \in 0..MaxCrashes
      BY <2>18, BlankIsMemory, BudgetAssumption DEF TypeOK, Crash, Keep, Beat
    <3> QED
      BY <2>18, <3>1, GotoIsTyped DEF TypeOK, Crash, Label
  <2> QED
    BY <1>1, <2>1, <2>2, <2>3, <2>4, <2>5, <2>6, <2>7, <2>8, <2>9, <2>10, <2>11,
       <2>12, <2>13, <2>14, <2>15, <2>16, <2>17, <2>18 DEF Step, ExecutorEnds
<1>2. CASE Tick
  <2>1. question' \in Question
    BY <1>2, TicksAreLeases DEF TypeOK, Tick, Question
  <2>2. activity' \in [Key -> Row]
    BY <1>2, TicksAreLeases DEF TypeOK, Tick, Row
  <2>3. beat' \in [Process -> Beat]
    BY <1>2 DEF TypeOK, Tick, Beat
  <2>4. waited' \in [Process -> 0..MaxLockWait]
    BY <1>2, LeaseAssumption DEF TypeOK, Tick
  <2> QED
    BY <1>2, <2>1, <2>2, <2>3, <2>4 DEF TypeOK, Tick
<1>3. CASE UNCHANGED vars
  BY <1>3 DEF TypeOK, vars
<1> QED
  BY <1>1, <1>2, <1>3 DEF Next

\* Type correctness: whatever the processes do, every row, local variable and
\* budget stays in its domain.
THEOREM TypeCorrect == Spec => []TypeOK
<1> QED
  BY TypeInit, TypeNext, PTL DEF Spec

-----------------------------------------------------------------------------
(* The rows of table activities, and what a process holds in its hands *)

\* A committed row is released and holds an answer of its stage; a row that is
\* not committed holds none.
RowsAgree ==
  \A k \in Key :
    /\ activity[k].status = "succeeded"
         => activity[k].lease = Lapsed /\ activity[k].result \in Answers(k[1])
    /\ activity[k].status # "succeeded" => activity[k].result = None

\* The answer a process is about to commit or to act on is one of its stage.
AnswersInHand ==
  \A p \in Process : pc[p] \in {"completing", "deciding", "advancing"}
                       => mem[p].response \in Answers(mem[p].stage)

\* A process only acts on an answer once its activity is committed.
DecidedIsCommitted ==
  \A p \in Process : pc[p] \in {"deciding", "advancing"}
                       => activity[KeyOf(p)].status = "succeeded"

\* The transition a process is about to make is one its stage leads to, and an
\* approval is backed by the evidence it read.
Earned(m) ==
  \/ m.target = "failed" /\ m.targetRevision = None
  \/ m.stage = "modeling" /\ m.target = "ready_for_coding" /\ m.targetRevision = None
  \/ m.stage = "coding" /\ m.target = "ready_for_review" /\ m.targetRevision = None
  \/ /\ m.stage = "review" /\ m.response = "approve" /\ ApprovalEvidence(m.revision)
     /\ m.target = "approved" /\ m.targetRevision = None
  \/ /\ m.stage = "review" /\ m.response = "revise" /\ m.revision + 1 <= MaxRevisions
     /\ m.target = "revision_required" /\ m.targetRevision = m.revision + 1
  \/ m.stage = "finalize" /\ m.target = "completed" /\ m.targetRevision = None

OutcomeIsEarned == \A p \in Process : pc[p] = "advancing" => Earned(mem[p])

\* The stage a process is about to enter is the one its copy of the row calls for.
EntersItsStage ==
  \A p \in Process : pc[p] = "entering"
                       => mem[p].state \in EntryStates /\ mem[p].stage = StageOf(mem[p].state)

HandsInv == RowsAgree /\ AnswersInHand /\ DecidedIsCommitted /\ OutcomeIsEarned /\ EntersItsStage

\* A step of one process touches neither the place nor the memory of another.
LEMMA OthersStay ==
  ASSUME TypeOK, NEW p \in Process, Step(p) \/ ExecutorEnds(p) \/ Crash(p),
         NEW q \in Process, q # p
  PROVE  pc'[q] = pc[q] /\ mem'[q] = mem[q]
<1>1. CASE Acquire(p) \/ ReadQuestion(p) \/ EnterStage(p) \/ Reread(p) \/ OpenActivity(p) \/ BuildRequest(p)
  BY <1>1 DEF TypeOK, Acquire, ReadQuestion, EnterStage, Reread, OpenActivity, BuildRequest, Goto, Keep, Leave
<1>2. CASE Claim(p) \/ Exhaust(p) \/ RenewActivity(p) \/ RenewQuestion(p) \/ ExecutorEnds(p)
  BY <1>2 DEF TypeOK, Claim, Execute, Exhaust, RenewActivity, RenewQuestion, ExecutorEnds,
              ExecutorAnswers, ExecutorFails, Goto, Keep, Leave
<1>3. CASE Complete(p) \/ Fail(p) \/ Decide(p) \/ Advance(p) \/ Release(p) \/ Crash(p)
  BY <1>3 DEF TypeOK, Complete, Fail, Decide, Advance, Release, Crash, Goto, Keep, Leave
<1> QED
  BY <1>1, <1>2, <1>3 DEF Step

\* Only five steps of a process touch the rows.
LEMMA RowsStay ==
  ASSUME NEW p \in Process, Step(p) \/ ExecutorEnds(p) \/ Crash(p),
         ~OpenActivity(p), ~Claim(p), ~RenewActivity(p), ~Complete(p), ~Fail(p)
  PROVE  UNCHANGED activity
BY DEF Step, ExecutorEnds, Crash, Acquire, ReadQuestion, EnterStage, Reread, BuildRequest, Exhaust,
       RenewQuestion, ExecutorAnswers, ExecutorFails, Decide, Advance, Release

\* What a claim, a failure and a commit leave in the row.
LEMMA RowFields ==
  ASSUME NEW row \in Row
  PROVE  /\ \A worker, wait : /\ NewAttempt(row, worker, wait).status = "running"
                              /\ NewAttempt(row, worker, wait).result = row.result
         /\ FailedRow(row).status = "failed" /\ FailedRow(row).result = row.result
         /\ \A response, informed : /\ CommittedRow(row, response, informed).status = "succeeded"
                                    /\ CommittedRow(row, response, informed).lease = Lapsed
                                    /\ CommittedRow(row, response, informed).result = response
<1>1. ASSUME NEW worker, NEW wait
      PROVE  /\ NewAttempt(row, worker, wait).status = "running"
             /\ NewAttempt(row, worker, wait).result = row.result
  BY DEF NewAttempt, Row
<1>2. FailedRow(row).status = "failed" /\ FailedRow(row).result = row.result
  BY DEF FailedRow, Row
<1>3. ASSUME NEW response, NEW informed
      PROVE  /\ CommittedRow(row, response, informed).status = "succeeded"
             /\ CommittedRow(row, response, informed).lease = Lapsed
             /\ CommittedRow(row, response, informed).result = response
  BY DEF CommittedRow, Row
<1> QED
  BY <1>1, <1>2, <1>3

\* Every step keeps the status, the answer and the owner of a row in agreement.
LEMMA RowsNext ==
  ASSUME TypeOK, RowsAgree, AnswersInHand, [Next]_vars
  PROVE  /\ RowsAgree'
         /\ \A k \in Key : activity[k].status = "succeeded" => activity'[k] = activity[k]
<1> DEFINE Kept(k) == activity'[k] = activity[k]
           Uncommitted(k) == /\ activity[k].status # "succeeded"
                             /\ activity'[k].status # "succeeded"
                             /\ activity'[k].result = activity[k].result
           CommittedNow(k) == /\ activity[k].status # "succeeded"
                              /\ activity'[k].status = "succeeded"
                              /\ activity'[k].lease = Lapsed
                              /\ activity'[k].result \in Answers(k[1])
<1>1. SUFFICES \A k \in Key : Kept(k) \/ Uncommitted(k) \/ CommittedNow(k)
  BY DEF RowsAgree
<1>2. ASSUME NEW p \in Process, Step(p) \/ ExecutorEnds(p) \/ Crash(p), NEW k \in Key
      PROVE  Kept(k) \/ Uncommitted(k) \/ CommittedNow(k)
  <2> KeyOf(p) \in Key /\ activity[k] \in Row /\ activity[KeyOf(p)] \in Row /\ activity \in [Key -> Row]
    BY MemoryFacts DEF TypeOK
  <2>1. CASE OpenActivity(p)
    BY <2>1 DEF OpenActivity, Row
  <2>2. CASE Claim(p)
    BY <2>2, RowFields DEF Claim, Claimable
  <2>3. CASE RenewActivity(p)
    BY <2>3 DEF RenewActivity, HoldsActivity, Row
  <2>4. CASE Complete(p)
    <3>1. mem[p].response \in Answers(KeyOf(p)[1])
      BY <2>4 DEF Complete, AnswersInHand, KeyOf
    <3> QED
      BY <2>4, <3>1, RowFields DEF Complete
  <2>5. CASE Fail(p)
    BY <2>5, RowFields DEF Fail, HoldsActivity
  <2>6. CASE ~OpenActivity(p) /\ ~Claim(p) /\ ~RenewActivity(p) /\ ~Complete(p) /\ ~Fail(p)
    BY <1>2, <2>6, RowsStay
  <2> QED
    BY <2>1, <2>2, <2>3, <2>4, <2>5, <2>6
<1>3. ASSUME Tick, NEW k \in Key PROVE Kept(k) \/ Uncommitted(k)
  <2>1. activity[k] \in Row /\ activity'[k] = [activity[k] EXCEPT !.lease = Elapsed(@)]
    BY <1>3 DEF Tick, TypeOK
  <2>2. activity[k].status = "succeeded" => Elapsed(activity[k].lease) = activity[k].lease
    BY LeaseAssumption DEF RowsAgree, Elapsed, Lapsed
  <2> QED
    BY <2>1, <2>2 DEF Row
<1>4. CASE UNCHANGED vars
  BY <1>4 DEF vars
<1> QED
  BY <1>2, <1>3, <1>4 DEF Next

\* The evidence of an approval, once committed, stays.
LEMMA EvidenceStays ==
  ASSUME TypeOK, RowsAgree, AnswersInHand, [Next]_vars, NEW r \in 0..MaxRevisions,
         ApprovalEvidence(r)
  PROVE  ApprovalEvidence(r)'
BY RowsNext DEF ApprovalEvidence, Succeeded, Key, Stage

\* An answer tells the stage it answers.
LEMMA AnswersTellTheStage ==
  ASSUME NEW stage \in Stage, NEW answer \in Answers(stage)
  PROVE  /\ answer = "modeled" => stage = "modeling"
         /\ answer \in Answers("coding") => stage = "coding"
         /\ answer \in {"approve", "revise"} => stage = "review"
         /\ answer = "published" => stage = "finalize"
BY DEF Answers, Stage

\* A decision taken on a committed answer earns the outcome it chooses.
LEMMA DecidingEarns ==
  ASSUME NEW m \in Memory, m.response \in Answers(m.stage),
         NEW target \in State, NEW next \in (0..MaxRevisions) \cup {None},
         Outcome(m.response, m.revision, target, next)
  PROVE  Earned([m EXCEPT !.target = target, !.targetRevision = next])
<1> DEFINE n == [m EXCEPT !.target = target, !.targetRevision = next]
<1>1. /\ n.target = target /\ n.targetRevision = next /\ n.stage = m.stage
      /\ n.response = m.response /\ n.revision = m.revision
  BY DEF Memory
<1>2. m.stage \in Stage
  BY DEF Memory
<1> HIDE DEF n
<1> QED
  <2> Earned(n)
    BY <1>1, <1>2, AnswersTellTheStage DEF Outcome, Earned
  <2> QED
    BY DEF n

\* What the processes hold in hand is right at the start.
LEMMA HandsInit == Init => HandsInv
BY DEF Init, HandsInv, RowsAgree, AnswersInHand, DecidedIsCommitted, OutcomeIsEarned,
       EntersItsStage, AbsentRow

\* Every step keeps what the processes hold in hand right.
LEMMA HandsNext == TypeOK /\ HandsInv /\ [Next]_vars => HandsInv'
<1> SUFFICES ASSUME TypeOK, HandsInv, [Next]_vars PROVE HandsInv'
  OBVIOUS
<1> USE DEF HandsInv
<1>1. RowsAgree' /\ \A k \in Key : activity[k].status = "succeeded" => activity'[k] = activity[k]
  BY RowsNext
<1> DEFINE Hand(q) == /\ pc[q] \in {"completing", "deciding", "advancing"}
                           => mem[q].response \in Answers(mem[q].stage)
                      /\ pc[q] \in {"deciding", "advancing"} => activity[KeyOf(q)].status = "succeeded"
                      /\ pc[q] = "advancing" => Earned(mem[q])
                      /\ pc[q] = "entering"
                           => mem[q].state \in EntryStates /\ mem[q].stage = StageOf(mem[q].state)
<1>2. \A q \in Process : Hand(q)
  BY DEF AnswersInHand, DecidedIsCommitted, OutcomeIsEarned, EntersItsStage
\* A process that is neither moved nor given another memory keeps its hand.
<1>3. ASSUME NEW q \in Process, pc'[q] = pc[q], mem'[q] = mem[q] PROVE Hand(q)'
  <2>1. Earned(mem[q]) => Earned(mem[q])'
    <3> mem[q].revision \in 0..MaxRevisions
      BY MemoryFacts
    <3> QED
      BY <1>3, EvidenceStays DEF Earned
  <2>2. KeyOf(q)' = KeyOf(q) /\ KeyOf(q) \in Key
    BY <1>3, MemoryFacts DEF KeyOf
  <2> QED
    BY <1>1, <1>2, <1>3, <2>1, <2>2
<1>4. ASSUME NEW p \in Process, Step(p) \/ ExecutorEnds(p) \/ Crash(p) PROVE Hand(p)'
  <2> /\ mem[p] \in Memory /\ KeyOf(p) \in Key /\ activity[KeyOf(p)] \in Row
      /\ pc \in [Process -> Label] /\ mem \in [Process -> Memory]
    BY MemoryFacts DEF TypeOK
  <2> DEFINE Quiet == pc'[p] \notin {"completing", "deciding", "advancing", "entering"}
  <2>0. Quiet => Hand(p)'
    OBVIOUS
  <2>1. CASE \/ Acquire(p) \/ EnterStage(p) \/ Reread(p) \/ BuildRequest(p) \/ Claim(p) \/ Exhaust(p)
             \/ ExecutorFails(p) \/ Fail(p) \/ Advance(p) \/ Release(p) \/ Crash(p)
             \/ RenewActivity(p) \/ RenewQuestion(p)
    <3> Quiet
      BY <2>1 DEF Acquire, EnterStage, Reread, BuildRequest, Claim, Execute, Exhaust, ExecutorFails,
           Fail, Advance, Release, Crash, RenewActivity, RenewQuestion, Goto, Leave
    <3> QED
      BY <2>0
  <2>2. CASE ReadQuestion(p)
    <3> DEFINE m == [Blank EXCEPT !.state = question.state, !.revision = question.revision,
                                  !.stage = StageOf(question.state)]
    <3>1. CASE question.state \in EntryStates /\ pc'[p] = "entering" /\ mem'[p] = m
      <4>1. m.state = question.state /\ m.stage = StageOf(question.state)
        BY DEF Blank
      <4> QED
        BY <3>1, <4>1
    <3>2. CASE Quiet
      BY <2>0, <3>2
    <3> QED
      BY <2>2, <3>1, <3>2 DEF ReadQuestion, Goto, Leave, Keep
  <2>3. CASE OpenActivity(p)
    <3>1. CASE Quiet
      BY <2>0, <3>1
    <3>2. CASE /\ activity[KeyOf(p)].status = "succeeded" /\ pc'[p] = "deciding"
               /\ mem' = [mem EXCEPT ![p].response = activity[KeyOf(p)].result]
      <4>1. /\ mem'[p].response = activity[KeyOf(p)].result
            /\ mem'[p].stage = mem[p].stage /\ mem'[p].revision = mem[p].revision
        BY <3>2 DEF Memory
      <4>2. KeyOf(p)' = KeyOf(p) /\ KeyOf(p)[1] = mem[p].stage
        BY <4>1 DEF KeyOf
      <4>3. mem'[p].response \in Answers(mem'[p].stage)
        BY <3>2, <4>1, <4>2 DEF RowsAgree
      <4> QED
        BY <1>1, <3>2, <4>2, <4>3
    <3> QED
      BY <2>3, <3>1, <3>2 DEF OpenActivity, Goto
  <2>4. CASE ExecutorAnswers(p)
    <3>1. PICK r \in Answers(mem[p].stage) : mem' = [mem EXCEPT ![p].response = r]
      BY <2>4 DEF ExecutorAnswers
    <3>2. mem'[p].response = r /\ mem'[p].stage = mem[p].stage
      BY <3>1 DEF Memory
    <3> QED
      BY <2>4, <3>2 DEF ExecutorAnswers, Goto
  <2>5. CASE Complete(p)
    <3>1. mem' = mem /\ pc[p] = "completing" /\ pc'[p] \in {"deciding", "failing"}
      BY <2>5 DEF Complete, Goto
    <3>2. pc'[p] = "deciding" => activity'[KeyOf(p)].status = "succeeded"
      BY <1>1, <2>5, RowFields DEF Complete, TypeOK, Goto
    <3>3. KeyOf(p)' = KeyOf(p)
      BY <3>1 DEF KeyOf
    <3> QED
      BY <1>2, <3>1, <3>2, <3>3
  <2>6. CASE Decide(p)
    <3>1. PICK target \in State, next \in (0..MaxRevisions) \cup {None} :
            /\ Outcome(mem[p].response, mem[p].revision, target, next)
            /\ mem' = [mem EXCEPT ![p].target = target, ![p].targetRevision = next]
      BY <2>6 DEF Decide
    <3>2. mem'[p] = [mem[p] EXCEPT !.target = target, !.targetRevision = next]
      BY <3>1
    <3>3. pc[p] = "deciding" /\ pc'[p] = "advancing" /\ activity' = activity
      BY <2>6 DEF Decide, Goto
    <3>4. Earned(mem'[p])
      BY <1>2, <3>1, <3>2, <3>3, DecidingEarns
    <3>5. Earned(mem[p])'
      BY <3>3, <3>4 DEF Earned, ApprovalEvidence, Succeeded
    <3>6. KeyOf(p)' = KeyOf(p)
      BY <3>2 DEF KeyOf, Memory
    <3>7. mem'[p].response = mem[p].response /\ mem'[p].stage = mem[p].stage
      BY <3>2 DEF Memory
    <3> QED
      BY <1>2, <3>3, <3>5, <3>6, <3>7
  <2> QED
    BY <1>4, <2>1, <2>2, <2>3, <2>4, <2>5, <2>6 DEF Step, ExecutorEnds
<1>5. ASSUME NEW q \in Process PROVE Hand(q)'
  <2>1. CASE Tick \/ UNCHANGED vars
    BY <1>3, <2>1 DEF Tick, vars
  <2>2. ASSUME NEW p \in Process, Step(p) \/ ExecutorEnds(p) \/ Crash(p) PROVE Hand(q)'
    BY <1>3, <1>4, <2>2, OthersStay
  <2> QED
    BY <2>1, <2>2 DEF Next
<1> QED
  BY <1>1, <1>5 DEF AnswersInHand, DecidedIsCommitted, OutcomeIsEarned, EntersItsStage

\* A committed activity is permanent: no claim, failure, renewal or second
\* commit, of whatever worker and however late, changes its row.
THEOREM CommittedForGood == Spec => CommittedIsPermanent
<1>1. TypeOK /\ HandsInv /\ [Next]_vars
        => [\A k \in Key : activity[k].status = "succeeded" => activity'[k] = activity[k]]_vars
  BY RowsNext DEF HandsInv
<1> QED
  BY <1>1, TypeInit, TypeNext, HandsInit, HandsNext, PTL DEF Spec, CommittedIsPermanent

-----------------------------------------------------------------------------
(* The lease: what an owner may rely on *)

\* No two processes are started with the same --worker-id.
DistinctWorkers == \A p, q \in Process : WorkerOf[p] = WorkerOf[q] => p = q

\* From the transition into a stage to the transition out of it, a process that
\* still owns the question finds it in the state of its stage.
InStage == (Holding \ {"entering"}) \cup {"entered"}
OwnerIsInStage ==
  \A p \in Process : pc[p] \in InStage /\ question.owner = WorkerOf[p]
                       => question.state = RunningState(mem[p].stage)

OwnerInv == OwnerIsCurrent /\ OwnerIsInStage

\* What one step does to the columns of the question that carry meaning: it is
\* leased or released, moved by its owner, or left alone.
SameQuestion == question'.state = question.state /\ question'.revision = question.revision

\* Every step is one of these four.
LEMMA QuestionMoves ==
  ASSUME TypeOK, NEW p \in Process, Step(p) \/ ExecutorEnds(p) \/ Crash(p)
  PROVE  \/ SameQuestion /\ question'.owner = question.owner
         \/ SameQuestion /\ question'.owner = WorkerOf[p] /\ pc'[p] = "leased"
         \/ SameQuestion /\ question'.owner = None /\ pc'[p] = "idle"
         \/ /\ EnterStage(p) \/ Exhaust(p) \/ Advance(p)
            /\ question.owner = WorkerOf[p] /\ question'.owner = question.owner
<1> question \in Question /\ pc \in [Process -> Label]
  BY DEF TypeOK
<1>1. CASE Acquire(p)
  BY <1>1 DEF Acquire, Question, Goto, SameQuestion
<1>2. CASE Release(p)
  BY <1>2 DEF Release, Question, Goto, SameQuestion
<1>3. CASE RenewQuestion(p)
  BY <1>3 DEF RenewQuestion, Question, SameQuestion
<1>4. CASE EnterStage(p) \/ Exhaust(p) \/ Advance(p)
  BY <1>4 DEF EnterStage, Exhaust, Advance, MayMove, OwnsQuestion, Move, Question, SameQuestion
<1>5. CASE \/ ReadQuestion(p) \/ Reread(p) \/ OpenActivity(p) \/ BuildRequest(p) \/ Claim(p)
           \/ RenewActivity(p) \/ ExecutorEnds(p) \/ Complete(p) \/ Fail(p) \/ Decide(p) \/ Crash(p)
  BY <1>5 DEF ReadQuestion, Reread, OpenActivity, BuildRequest, Claim, RenewActivity, ExecutorEnds,
       ExecutorAnswers, ExecutorFails, Complete, Fail, Decide, Crash, SameQuestion
<1> QED
  BY <1>1, <1>2, <1>3, <1>4, <1>5 DEF Step

\* Nobody owns the question at the start.
LEMMA OwnerInit == Init => OwnerInv
BY DEF Init, OwnerInv, OwnerIsCurrent, OwnerIsInStage, Holding, InStage

\* Every step keeps the owner's copy of the row current.
LEMMA OwnerNext ==
  ASSUME DistinctWorkers
  PROVE  TypeOK /\ OwnerInv /\ [Next]_vars => OwnerInv'
<1> SUFFICES ASSUME TypeOK, OwnerInv, [Next]_vars PROVE OwnerInv'
  OBVIOUS
<1> DEFINE Current(q) == pc[q] \in Holding /\ question.owner = WorkerOf[q]
                           => mem[q].state = question.state /\ mem[q].revision = question.revision
           Staged(q) == pc[q] \in InStage /\ question.owner = WorkerOf[q]
                           => question.state = RunningState(mem[q].stage)
<1>1. \A q \in Process : Current(q) /\ Staged(q)
  BY DEF OwnerInv, OwnerIsCurrent, OwnerIsInStage
<1>2. ASSUME NEW p \in Process, Step(p) \/ ExecutorEnds(p) \/ Crash(p) PROVE Current(p)' /\ Staged(p)'
  <2> /\ mem[p] \in Memory /\ question \in Question /\ question.state \in State
      /\ pc \in [Process -> Label] /\ mem \in [Process -> Memory]
    BY MemoryFacts DEF TypeOK
  <2>1. CASE pc'[p] \notin Holding \cup InStage
    BY <2>1
  <2>2. CASE ReadQuestion(p)
    <3> DEFINE m == [Blank EXCEPT !.state = question.state, !.revision = question.revision,
                                  !.stage = StageOf(question.state)]
    <3>1. m.state = question.state /\ m.revision = question.revision /\ m.stage = StageOf(question.state)
      BY DEF Blank
    <3>2. \/ pc'[p] = "releasing"
          \/ pc'[p] = "entering" /\ mem'[p] = m
          \/ pc'[p] = "staged" /\ mem'[p] = m /\ question.state \in RunningStates
      BY <2>2 DEF ReadQuestion, Goto, Keep, Leave
    <3>3. \A s \in RunningStates : RunningState(StageOf(s)) = s
      BY DEF RunningStates, RunningState, StageOf
    <3>4. question' = question
      BY <2>2 DEF ReadQuestion
    <3> HIDE DEF m
    <3> QED
      BY <3>1, <3>2, <3>3, <3>4 DEF Holding, InStage
  <2>3. CASE EnterStage(p)
    <3>1. \/ pc'[p] = "releasing"
          \/ /\ pc'[p] = "entered" /\ mem' = mem
             /\ question' = [question EXCEPT !.state = RunningState(mem[p].stage), !.revision = @]
      BY <2>3 DEF EnterStage, Goto, Leave, Move
    <3> QED
      BY <3>1 DEF Holding, InStage, Question
  <2>4. CASE Reread(p)
    <3>1. /\ mem'[p].state = question.state /\ mem'[p].revision = question.revision
          /\ mem'[p].stage = mem[p].stage /\ question' = question /\ pc[p] = "entered"
      BY <2>4 DEF Reread, Memory
    <3>2. question.owner = WorkerOf[p] => question.state = RunningState(mem[p].stage)
      BY <1>1, <3>1 DEF InStage
    <3> QED
      BY <3>1, <3>2
  <2>5. CASE /\ pc[p] \in Holding \cap InStage /\ SameQuestion /\ question'.owner = question.owner
             /\ mem'[p].state = mem[p].state /\ mem'[p].revision = mem[p].revision
             /\ mem'[p].stage = mem[p].stage
    BY <1>1, <2>5 DEF SameQuestion
  <2>6. CASE Acquire(p) \/ Exhaust(p) \/ Fail(p) \/ Advance(p) \/ Release(p) \/ Crash(p)
    <3> pc'[p] \in {"leased", "releasing", "idle"}
      BY <2>6 DEF Acquire, Exhaust, Fail, Advance, Release, Crash, Goto, Leave
    <3> QED
      BY <2>1 DEF Holding, InStage
  <2>7. CASE OpenActivity(p) \/ BuildRequest(p) \/ Claim(p)
    <3>1. pc[p] \in {"staged", "requesting", "claiming"} /\ question' = question
      BY <2>7 DEF OpenActivity, BuildRequest, Claim
    <3>2. \/ pc'[p] = "releasing"
          \/ /\ mem'[p].state = mem[p].state /\ mem'[p].revision = mem[p].revision
             /\ mem'[p].stage = mem[p].stage
      BY <2>7 DEF OpenActivity, BuildRequest, Claim, Execute, Leave, Goto, Memory
    <3> QED
      BY <2>1, <2>5, <3>1, <3>2 DEF Holding, InStage, SameQuestion
  <2>8. CASE RenewActivity(p) \/ RenewQuestion(p) \/ ExecutorEnds(p) \/ Complete(p)
    <3>1. pc[p] \in {"executing", "completing"} /\ SameQuestion /\ question'.owner = question.owner
      BY <2>8 DEF RenewActivity, RenewQuestion, ExecutorEnds, ExecutorAnswers, ExecutorFails,
                  Complete, SameQuestion, Question
    <3>2. /\ mem'[p].state = mem[p].state /\ mem'[p].revision = mem[p].revision
          /\ mem'[p].stage = mem[p].stage
      BY <2>8 DEF RenewActivity, RenewQuestion, ExecutorEnds, ExecutorAnswers, ExecutorFails,
                  Complete, Memory
    <3> QED
      BY <2>5, <3>1, <3>2 DEF Holding, InStage
  <2>9. CASE Decide(p)
    <3>1. PICK target \in State, next \in (0..MaxRevisions) \cup {None} :
            mem' = [mem EXCEPT ![p].target = target, ![p].targetRevision = next]
      BY <2>9 DEF Decide
    <3>2. pc[p] = "deciding" /\ question' = question
      BY <2>9 DEF Decide
    <3>3. /\ mem'[p].state = mem[p].state /\ mem'[p].revision = mem[p].revision
          /\ mem'[p].stage = mem[p].stage
      BY <3>1 DEF Memory
    <3> QED
      BY <2>5, <3>2, <3>3 DEF Holding, InStage, SameQuestion
  <2> QED
    BY <1>2, <2>2, <2>3, <2>4, <2>6, <2>7, <2>8, <2>9 DEF Step
<1>3. ASSUME NEW q \in Process PROVE Current(q)' /\ Staged(q)'
  <2>1. CASE Tick
    BY <1>1, <2>1 DEF Tick, TypeOK, Question
  <2>2. CASE UNCHANGED vars
    BY <1>1, <2>2 DEF vars
  <2>3. ASSUME NEW p \in Process, Step(p) \/ ExecutorEnds(p) \/ Crash(p), p # q
        PROVE  Current(q)' /\ Staged(q)'
    <3>1. pc'[q] = pc[q] /\ mem'[q] = mem[q]
      BY <2>3, OthersStay
    <3>2. WorkerOf[p] # WorkerOf[q] /\ WorkerOf[q] # None
      BY <2>3, WorkerAssumption DEF DistinctWorkers
    <3> QED
      BY <1>1, <2>3, <3>1, <3>2, QuestionMoves DEF SameQuestion
  <2> QED
    BY <1>2, <2>1, <2>2, <2>3 DEF Next
<1> QED
  BY <1>3 DEF OwnerInv, OwnerIsCurrent, OwnerIsInStage

\* A process that still owns the question decides on a current copy of its row.
THEOREM OwnersAreCurrent ==
  ASSUME DistinctWorkers
  PROVE  Spec => []OwnerIsCurrent
<1>1. TypeOK /\ OwnerInv /\ [Next]_vars => OwnerInv'
  BY OwnerNext
<1>2. OwnerInv => OwnerIsCurrent
  BY DEF OwnerInv
<1> QED
  BY <1>1, <1>2, TypeInit, TypeNext, OwnerInit, PTL DEF Spec

-----------------------------------------------------------------------------
(* The question is as far as its committed activities *)

\* Modeling is only ever done for the first revision.
FirstRevision == question.state \in {"pending", "modeling"} => question.revision = 0

ProgressInv == FirstRevision /\ NothingIsSkipped /\ ApprovalHasEvidence

\* A pending question of revision 0 needs no commit.
LEMMA ProgressInit == Init => ProgressInv
BY DEF Init, ProgressInv, FirstRevision, NothingIsSkipped, ApprovalHasEvidence

\* A step of its owner carries the question along an edge its stage has earned.
LEMMA OwnerAdvances ==
  ASSUME TypeOK, HandsInv, OwnerInv, NEW p \in Process, Advance(p), ~SameQuestion
  PROVE  LET stage == mem[p].stage
             r == question.revision
             to(s, next) == question'.state = s /\ question'.revision = next
         IN /\ question.state = RunningState(stage) /\ stage \in Stage
            /\ Succeeded(stage, r)
            /\ \/ to("failed", r)
               \/ stage = "modeling" /\ to("ready_for_coding", r)
               \/ stage = "coding" /\ to("ready_for_review", r)
               \/ stage = "review" /\ mem[p].response = "approve" /\ ApprovalEvidence(r) /\ to("approved", r)
               \/ /\ stage = "review" /\ mem[p].response = "revise" /\ r + 1 <= MaxRevisions
                  /\ to("revision_required", r + 1)
               \/ stage = "finalize" /\ to("completed", r)
<1>1. /\ pc[p] = "advancing" /\ question.owner = WorkerOf[p]
      /\ question.state = RunningState(mem[p].stage)
      /\ Move(mem[p].target, mem[p].targetRevision)
  BY DEF Advance, MayMove, OwnsQuestion, SameQuestion
<1>2. mem[p].revision = question.revision /\ question.revision \in 0..MaxRevisions
  BY <1>1, MemoryFacts DEF OwnerInv, OwnerIsCurrent, Holding
<1>3. /\ question'.state = mem[p].target
      /\ question'.revision = IF mem[p].targetRevision = None THEN question.revision
                                                              ELSE mem[p].targetRevision
  BY <1>1, MemoryFacts DEF Move, Question
<1>4. Earned(mem[p])
  BY <1>1 DEF HandsInv, OutcomeIsEarned
<1>5. Succeeded(mem[p].stage, question.revision)
  BY <1>1, <1>2 DEF HandsInv, DecidedIsCommitted, KeyOf, Succeeded
<1>6. question.revision + 1 <= MaxRevisions => question.revision + 1 # None
  BY <1>2, RevisionAssumption, NoneAssumption
<1> QED
  BY <1>1, <1>2, <1>3, <1>4, <1>5, <1>6, MemoryFacts DEF Earned

\* Entering a stage keeps the question as far as its commits.
LEMMA OwnerEnters ==
  ASSUME TypeOK, HandsInv, NEW p \in Process, EnterStage(p), ~SameQuestion
  PROVE  /\ question.state \in EntryStates
         /\ question'.state = RunningState(StageOf(question.state))
         /\ question'.revision = question.revision
<1>1. /\ pc[p] = "entering" /\ question.state = mem[p].state
      /\ Move(RunningState(mem[p].stage), None)
  BY DEF EnterStage, MayMove, SameQuestion
<1>2. mem[p].state \in EntryStates /\ mem[p].stage = StageOf(mem[p].state)
  BY <1>1 DEF HandsInv, EntersItsStage
<1> QED
  BY <1>1, <1>2, MemoryFacts DEF Move, Question

\* Failing the question keeps it as far as its commits.
LEMMA OwnerGivesUp ==
  ASSUME TypeOK, OwnerInv, NEW p \in Process, Exhaust(p), ~SameQuestion
  PROVE  /\ question.state \in RunningStates
         /\ question'.state = "failed" /\ question'.revision = question.revision
<1>1. /\ pc[p] = "exhausted" /\ question.owner = WorkerOf[p] /\ Move("failed", None)
  BY DEF Exhaust, MayMove, OwnsQuestion, SameQuestion
<1>2. question.state = RunningState(mem[p].stage)
  BY <1>1 DEF OwnerInv, OwnerIsInStage, InStage, Holding
<1>3. \A stage \in Stage : RunningState(stage) \in RunningStates
  BY DEF RunningState, RunningStates, Stage
<1> QED
  BY <1>1, <1>2, <1>3, MemoryFacts DEF Move, Question

\* Every step keeps the question as far as its commits.
LEMMA ProgressNext ==
  TypeOK /\ HandsInv /\ OwnerInv /\ ProgressInv /\ [Next]_vars => ProgressInv'
<1> SUFFICES ASSUME TypeOK, HandsInv, OwnerInv, ProgressInv, [Next]_vars PROVE ProgressInv'
  OBVIOUS
<1> USE DEF ProgressInv
<1>1. \A stage \in Stage, r \in 0..MaxRevisions : Succeeded(stage, r) => Succeeded(stage, r)'
  BY RowsNext DEF HandsInv, Succeeded, Key
<1>2. \A r \in 0..MaxRevisions : ApprovalEvidence(r) => ApprovalEvidence(r)'
  BY EvidenceStays DEF HandsInv
<1>3. /\ question.state \in State /\ question.revision \in 0..MaxRevisions /\ 0 \in 0..MaxRevisions
      /\ \A stage \in {"modeling", "coding", "review", "finalize"} : stage \in Stage
  BY RevisionAssumption DEF TypeOK, Question, Stage
<1>4. CASE SameQuestion
  BY <1>1, <1>2, <1>3, <1>4 DEF SameQuestion, FirstRevision, NothingIsSkipped, ApprovalHasEvidence
<1>5. ASSUME NEW p \in Process, EnterStage(p), ~SameQuestion PROVE ProgressInv'
  <2>1. /\ question.state \in EntryStates
        /\ question'.state = RunningState(StageOf(question.state))
        /\ question'.revision = question.revision
    BY <1>5, OwnerEnters
  <2>2. \/ question.state = "pending" /\ question'.state = "modeling"
        \/ question.state \in {"ready_for_coding", "revision_required"} /\ question'.state = "coding"
        \/ question.state = "ready_for_review" /\ question'.state = "reviewing"
        \/ question.state = "approved" /\ question'.state = "finalizing"
    BY <2>1 DEF EntryStates, RunningState, StageOf
  <2> QED
    BY <1>1, <1>2, <1>3, <2>1, <2>2 DEF FirstRevision, NothingIsSkipped, ApprovalHasEvidence
<1>6. ASSUME NEW p \in Process, Exhaust(p), ~SameQuestion PROVE ProgressInv'
  <2>1. question'.state = "failed" /\ question'.revision = question.revision
    BY <1>6, OwnerGivesUp
  <2> QED
    BY <1>1, <1>3, <2>1 DEF FirstRevision, NothingIsSkipped, ApprovalHasEvidence
<1>7. ASSUME NEW p \in Process, Advance(p), ~SameQuestion PROVE ProgressInv'
  <2>1. PICK stage \in Stage, r \in 0..MaxRevisions : stage = mem[p].stage /\ r = question.revision
    BY MemoryFacts
  <2> DEFINE to(s, next) == question'.state = s /\ question'.revision = next
  <2>2. /\ question.state = RunningState(stage)
        /\ Succeeded(stage, r)
        /\ \/ to("failed", r)
           \/ stage = "modeling" /\ to("ready_for_coding", r)
           \/ stage = "coding" /\ to("ready_for_review", r)
           \/ stage = "review" /\ ApprovalEvidence(r) /\ to("approved", r)
           \/ stage = "review" /\ r + 1 <= MaxRevisions /\ to("revision_required", r + 1)
           \/ stage = "finalize" /\ to("completed", r)
    BY <1>7, <2>1, OwnerAdvances DEF HandsInv
  <2>3. Succeeded(stage, r)'
    BY <1>1, <2>2
  <2>4. CASE to("failed", r)
    BY <1>1, <1>3, <2>1, <2>4 DEF FirstRevision, NothingIsSkipped, ApprovalHasEvidence
  <2>5. CASE stage = "modeling" /\ to("ready_for_coding", r)
    <3> question.state = "modeling" /\ r = 0
      BY <2>1, <2>2, <2>5 DEF RunningState, FirstRevision
    <3> QED
      BY <1>3, <2>3, <2>5 DEF FirstRevision, NothingIsSkipped, ApprovalHasEvidence
  <2>6. CASE stage = "coding" /\ to("ready_for_review", r)
    <3> question.state = "coding"
      BY <2>2, <2>6 DEF RunningState
    <3> QED
      BY <1>1, <1>3, <2>1, <2>3, <2>6 DEF FirstRevision, NothingIsSkipped, ApprovalHasEvidence
  <2>7. CASE stage = "review" /\ ApprovalEvidence(r) /\ to("approved", r)
    <3>1. question.state = "reviewing"
      BY <2>2, <2>7 DEF RunningState
    <3>2. ApprovalEvidence(r)'
      BY <1>2, <2>7
    <3> QED
      BY <1>1, <1>3, <2>1, <2>3, <2>7, <3>1, <3>2
      DEF FirstRevision, NothingIsSkipped, ApprovalHasEvidence
  <2>8. CASE stage = "review" /\ r + 1 <= MaxRevisions /\ to("revision_required", r + 1)
    <3>1. question.state = "reviewing"
      BY <2>2, <2>8 DEF RunningState
    <3>2. \A q \in 0..MaxRevisions : q < r + 1 => q < r \/ q = r
      BY RevisionAssumption
    <3> QED
      BY <1>1, <1>3, <2>1, <2>3, <2>8, <3>1, <3>2
      DEF FirstRevision, NothingIsSkipped, ApprovalHasEvidence
  <2>9. CASE stage = "finalize" /\ to("completed", r)
    <3>1. question.state = "finalizing"
      BY <2>2, <2>9 DEF RunningState
    <3>2. ApprovalEvidence(r)'
      BY <1>2, <2>1, <3>1 DEF ApprovalHasEvidence
    <3> QED
      BY <1>1, <1>3, <2>1, <2>3, <2>9, <3>1, <3>2
      DEF FirstRevision, NothingIsSkipped, ApprovalHasEvidence
  <2> QED
    BY <2>2, <2>4, <2>5, <2>6, <2>7, <2>8, <2>9
<1>8. CASE Tick \/ UNCHANGED vars
  <2> SameQuestion
    BY <1>8 DEF Tick, vars, SameQuestion, TypeOK, Question
  <2> QED
    BY <1>4
<1>9. ASSUME NEW p \in Process, Step(p) \/ ExecutorEnds(p) \/ Crash(p) PROVE ProgressInv'
  BY <1>4, <1>5, <1>6, <1>7, <1>9, QuestionMoves
<1> QED
  BY <1>8, <1>9 DEF Next

\* The question is always as far as its commits.
LEMMA ProgressAlways ==
  ASSUME DistinctWorkers
  PROVE  Spec => [](TypeOK /\ HandsInv /\ OwnerInv /\ ProgressInv)
<1>1. TypeOK /\ OwnerInv /\ [Next]_vars => OwnerInv'
  BY OwnerNext
<1> QED
  BY <1>1, TypeInit, TypeNext, HandsInit, HandsNext, OwnerInit, ProgressInit, ProgressNext, PTL DEF Spec

\* No question is approved, finalized or completed without committed modeling
\* and locally evidenced coding of the very revision it is approved at.
THEOREM ApprovalsHaveEvidence ==
  ASSUME DistinctWorkers
  PROVE  Spec => []ApprovalHasEvidence
<1>1. ProgressInv => ApprovalHasEvidence
  BY DEF ProgressInv
<1> QED
  BY <1>1, ProgressAlways, PTL

\* The question never runs ahead of its committed activities: no stage is
\* skipped, no revision counted twice.
THEOREM NothingSkipped ==
  ASSUME DistinctWorkers
  PROVE  Spec => []NothingIsSkipped
<1>1. ProgressInv => NothingIsSkipped
  BY DEF ProgressInv
<1> QED
  BY <1>1, ProgressAlways, PTL

-----------------------------------------------------------------------------
(* The workflow implements the question's lifecycle *)

\* With an idempotent executor every answer, committed or still in the hands of
\* a process, is the one answer its activity key has been given.
OneAnswer ==
  IdempotentExecutor =>
    /\ \A k \in Key : activity[k].status = "succeeded" => answers[k] = activity[k].result
    /\ \A p \in Process : pc[p] \in {"completing", "deciding", "advancing"}
                            => answers[KeyOf(p)] = mem[p].response

\* No executor has answered at the start.
LEMMA OneAnswerInit == Init => OneAnswer
BY DEF Init, OneAnswer, AbsentRow

\* Nothing but the executor gives an answer, and only the commit records one.
LEMMA AnswersStay ==
  ASSUME TypeOK, NEW p \in Process, Step(p) \/ ExecutorEnds(p) \/ Crash(p), ~ExecutorAnswers(p)
  PROVE  answers' = answers
BY DEF Step, ExecutorEnds, Crash, Acquire, ReadQuestion, EnterStage, Reread, OpenActivity, BuildRequest,
       Claim, Exhaust, RenewActivity, RenewQuestion, ExecutorFails, Complete, Fail, Decide, Advance, Release

\* A commit, once made, is the same in the next state.
LEMMA CommitsStay ==
  ASSUME TypeOK, RowsAgree, AnswersInHand, NEW p \in Process,
         Step(p) \/ ExecutorEnds(p) \/ Crash(p), NEW k \in Key,
         activity'[k].status = "succeeded", activity[k].status # "succeeded"
  PROVE  /\ pc[p] = "completing" /\ KeyOf(p) = k
         /\ activity'[k].result = mem[p].response
         /\ \A j \in Key \ {k} : activity'[j] = activity[j]
         /\ question' = question /\ mem' = mem /\ answers' = answers
<1> KeyOf(p) \in Key /\ activity[k] \in Row /\ activity[KeyOf(p)] \in Row /\ activity \in [Key -> Row]
  BY MemoryFacts DEF TypeOK
<1>1. ~OpenActivity(p)
  BY DEF OpenActivity, Row
<1>2. ~Claim(p)
  BY RowFields DEF Claim
<1>3. ~RenewActivity(p)
  BY DEF RenewActivity, Row
<1>4. ~Fail(p)
  BY RowFields DEF Fail
<1>5. Complete(p)
  BY <1>1, <1>2, <1>3, <1>4, RowsStay
<1> QED
  BY <1>5, RowFields DEF Complete

\* Every step keeps the answers in hand those of the executor.
LEMMA OneAnswerNext ==
  TypeOK /\ HandsInv /\ OneAnswer /\ [Next]_vars => OneAnswer'
<1> SUFFICES ASSUME TypeOK, HandsInv, OneAnswer, [Next]_vars, IdempotentExecutor PROVE OneAnswer'
  BY DEF OneAnswer
<1> USE DEF HandsInv
<1> DEFINE Row1(k) == activity[k].status = "succeeded" => answers[k] = activity[k].result
           Hand1(q) == pc[q] \in {"completing", "deciding", "advancing"}
                         => answers[KeyOf(q)] = mem[q].response
<1>1. (\A k \in Key : Row1(k)) /\ (\A q \in Process : Hand1(q))
  BY DEF OneAnswer
<1>2. \A k \in Key : activity[k].status = "succeeded" => activity'[k] = activity[k]
  BY RowsNext
<1>3. CASE Tick \/ UNCHANGED vars
  <2>1. /\ pc' = pc /\ mem' = mem /\ answers' = answers
        /\ \A k \in Key : activity'[k].status = activity[k].status /\ activity'[k].result = activity[k].result
    BY <1>3 DEF Tick, vars, TypeOK, Row
  <2> QED
    BY <1>1, <2>1 DEF OneAnswer, KeyOf
<1>4. ASSUME NEW p \in Process, Step(p) \/ ExecutorEnds(p) \/ Crash(p) PROVE OneAnswer'
  <2> /\ mem[p] \in Memory /\ KeyOf(p) \in Key /\ activity[KeyOf(p)] \in Row
      /\ mem \in [Process -> Memory] /\ pc \in [Process -> Label]
      /\ answers \in [Key -> Answer \cup {None}]
    BY MemoryFacts DEF TypeOK
  \* An answer, once given, stays.
  <2>1. \A k \in Key : answers[k] # None => answers'[k] = answers[k]
    <3>1. CASE ExecutorAnswers(p)
      BY <3>1 DEF ExecutorAnswers
    <3> QED
      BY <1>4, <3>1, AnswersStay
  <2>2. \A q \in Process : pc[q] \in {"completing", "deciding", "advancing"} => mem[q].response # None
    BY MemoryFacts, AnswersAreAnswers, NoneAssumption DEF AnswersInHand
  <2>3. \A k \in Key : activity[k].status = "succeeded" => activity[k].result # None
    BY AnswersAreAnswers, NoneAssumption DEF RowsAgree, Key
  <2>4. ASSUME NEW k \in Key PROVE Row1(k)'
    <3>1. CASE activity[k].status = "succeeded"
      BY <1>1, <1>2, <2>1, <2>3, <3>1
    <3>2. CASE activity[k].status # "succeeded" /\ activity'[k].status = "succeeded"
      BY <1>1, <1>4, <3>2, CommitsStay
    <3> QED
      BY <3>1, <3>2
  <2>5. ASSUME NEW q \in Process, pc'[q] = pc[q], mem'[q] = mem[q] PROVE Hand1(q)'
    BY <1>1, <2>1, <2>2, <2>5, MemoryFacts DEF KeyOf
  <2>6. Hand1(p)'
    <3>1. CASE OpenActivity(p)
      <4>1. \/ pc'[p] = "requesting"
            \/ /\ activity[KeyOf(p)].status = "succeeded" /\ answers' = answers
               /\ mem' = [mem EXCEPT ![p].response = activity[KeyOf(p)].result]
        BY <3>1 DEF OpenActivity, Goto
      <4>2. mem' = [mem EXCEPT ![p].response = activity[KeyOf(p)].result]
              => mem'[p].response = activity[KeyOf(p)].result /\ KeyOf(p)' = KeyOf(p)
        BY DEF Memory, KeyOf
      <4> QED
        BY <1>1, <4>1, <4>2
    <3>2. CASE ExecutorAnswers(p)
      <4>1. PICK r \in Answers(mem[p].stage) :
              /\ answers' = [answers EXCEPT ![KeyOf(p)] = r]
              /\ mem' = [mem EXCEPT ![p].response = r]
        BY <3>2 DEF ExecutorAnswers
      <4>2. mem'[p].response = r /\ KeyOf(p)' = KeyOf(p)
        BY <4>1 DEF Memory, KeyOf
      <4> QED
        BY <4>1, <4>2
    <3>3. CASE Complete(p)
      <4>1. pc[p] = "completing" /\ mem' = mem /\ answers' = answers
        BY <3>3 DEF Complete
      <4> QED
        BY <1>1, <4>1 DEF KeyOf
    <3>4. CASE Decide(p)
      <4>1. PICK target \in State, next \in (0..MaxRevisions) \cup {None} :
              mem' = [mem EXCEPT ![p].target = target, ![p].targetRevision = next]
        BY <3>4 DEF Decide
      <4>2. mem'[p].response = mem[p].response /\ KeyOf(p)' = KeyOf(p)
        BY <4>1 DEF Memory, KeyOf
      <4>3. pc[p] = "deciding" /\ answers' = answers
        BY <3>4 DEF Decide
      <4> QED
        BY <1>1, <4>2, <4>3
    <3>5. CASE \/ Acquire(p) \/ ReadQuestion(p) \/ EnterStage(p) \/ Reread(p) \/ BuildRequest(p) \/ Claim(p)
               \/ Exhaust(p) \/ ExecutorFails(p) \/ Fail(p) \/ Advance(p) \/ Release(p) \/ Crash(p)
               \/ RenewActivity(p) \/ RenewQuestion(p)
      <4> pc'[p] \notin {"completing", "deciding", "advancing"}
        BY <3>5 DEF Acquire, ReadQuestion, EnterStage, Reread, BuildRequest, Claim, Execute, Exhaust,
             ExecutorFails, Fail, Advance, Release, Crash, RenewActivity, RenewQuestion, Goto, Leave
      <4> QED
        OBVIOUS
    <3> QED
      BY <1>4, <3>1, <3>2, <3>3, <3>4, <3>5 DEF Step, ExecutorEnds
  <2>7. ASSUME NEW q \in Process PROVE Hand1(q)'
    BY <1>4, <2>5, <2>6, OthersStay
  <2> QED
    BY <2>4, <2>7 DEF OneAnswer
<1> QED
  BY <1>3, <1>4 DEF Next

\* The answers on record, as the lifecycle sees them.
OnRecord == [k \in Key |-> activity[k].result]

\* The lifecycle speaks of the same stages, states, activities and answers.
LEMMA LifecycleVocabulary ==
  /\ Lifecycle!Key = Key
  /\ Lifecycle!EntryStates = EntryStates /\ Lifecycle!RunningStates = RunningStates
  /\ \A s : Lifecycle!StageOf(s) = StageOf(s) /\ Lifecycle!RunningState(s) = RunningState(s)
  /\ \A stage : Lifecycle!Answers(stage) = Answers(stage)
BY DEF Lifecycle!Key, Key, Lifecycle!Stage, Stage, Lifecycle!EntryStates, EntryStates,
       Lifecycle!RunningStates, RunningStates, Lifecycle!StageOf, StageOf,
       Lifecycle!RunningState, RunningState, Lifecycle!Answers, Answers

\* The workflow starts where the lifecycle starts.
LEMMA LifecycleInit == Init => Lifecycle!Init
BY LifecycleVocabulary DEF Init, Lifecycle!Init, AbsentRow

\* A commit is a commit of the lifecycle.
LEMMA CommitSteps ==
  ASSUME TypeOK, HandsInv, NEW p \in Process, Step(p) \/ ExecutorEnds(p) \/ Crash(p),
         NEW k \in Key, activity'[k].status = "succeeded", activity[k].status # "succeeded"
  PROVE  Lifecycle!Next
<1>1. /\ pc[p] = "completing" /\ KeyOf(p) = k /\ activity'[k].result = mem[p].response
      /\ \A j \in Key \ {k} : activity'[j] = activity[j]
      /\ question' = question
  BY CommitsStay DEF HandsInv
<1>2. mem[p].response \in Answers(k[1])
  BY <1>1 DEF HandsInv, AnswersInHand, KeyOf
<1>3. activity[k].result = None
  BY DEF HandsInv, RowsAgree
<1>4. OnRecord' = [OnRecord EXCEPT ![k] = mem[p].response]
  BY <1>1 DEF OnRecord
<1> QED
  BY <1>1, <1>2, <1>3, <1>4, LifecycleVocabulary DEF Lifecycle!Next, Lifecycle!Commit, OnRecord

\* Every step of the workflow is a step of the lifecycle or leaves it as it is.
LEMMA LifecycleNext ==
  TypeOK /\ HandsInv /\ OwnerInv /\ ProgressInv /\ OneAnswer /\ [Next]_vars
    => [Lifecycle!Next]_Lifecycle!lifecycle
<1> SUFFICES ASSUME TypeOK, HandsInv, OwnerInv, ProgressInv, OneAnswer, [Next]_vars
             PROVE  [Lifecycle!Next]_Lifecycle!lifecycle
  OBVIOUS
<1>1. CASE Tick \/ UNCHANGED vars
  <2> SameQuestion /\ OnRecord' = OnRecord
    BY <1>1 DEF Tick, vars, SameQuestion, TypeOK, Question, Row, OnRecord
  <2> QED
    BY DEF Lifecycle!lifecycle, SameQuestion, OnRecord
<1>2. ASSUME NEW p \in Process, Step(p) \/ ExecutorEnds(p) \/ Crash(p)
      PROVE  [Lifecycle!Next]_Lifecycle!lifecycle
  <2>1. CASE \E k \in Key : activity'[k].status = "succeeded" /\ activity[k].status # "succeeded"
    BY <1>2, <2>1, CommitSteps
  <2>2. CASE \A k \in Key : activity'[k].status = "succeeded" => activity[k].status = "succeeded"
    <3>1. OnRecord' = OnRecord
      <4> ASSUME NEW k \in Key PROVE activity'[k].result = activity[k].result
        BY <2>2, RowsNext DEF HandsInv, RowsAgree
      <4> QED
        BY DEF OnRecord
    <3>2. CASE SameQuestion
      BY <3>1, <3>2 DEF Lifecycle!lifecycle, SameQuestion, OnRecord
    <3>3. CASE EnterStage(p) /\ ~SameQuestion
      <4> Lifecycle!EnterStage
        BY <3>1, <3>3, OwnerEnters, LifecycleVocabulary DEF Lifecycle!EnterStage, OnRecord
      <4> QED
        BY DEF Lifecycle!Next
    <3>4. CASE Exhaust(p) /\ ~SameQuestion
      <4> Lifecycle!GiveUp
        BY <3>1, <3>4, OwnerGivesUp, LifecycleVocabulary DEF Lifecycle!GiveUp, Lifecycle!Pass, OnRecord
      <4> QED
        BY DEF Lifecycle!Next
    <3>5. CASE Advance(p) /\ ~SameQuestion
      <4> DEFINE stage == mem[p].stage
                 r == question.revision
                 to(s, next) == question'.state = s /\ question'.revision = next
      <4>1. /\ question.state = RunningState(stage) /\ stage \in Stage
            /\ Succeeded(stage, r)
            /\ \/ to("failed", r)
               \/ stage = "modeling" /\ to("ready_for_coding", r)
               \/ stage = "coding" /\ to("ready_for_review", r)
               \/ stage = "review" /\ mem[p].response = "approve" /\ ApprovalEvidence(r) /\ to("approved", r)
               \/ /\ stage = "review" /\ mem[p].response = "revise" /\ r + 1 <= MaxRevisions
                  /\ to("revision_required", r + 1)
               \/ stage = "finalize" /\ to("completed", r)
        BY <3>5, OwnerAdvances
      <4>2. r \in 0..MaxRevisions /\ <<stage, r>> \in Key /\ KeyOf(p) = <<stage, r>>
        BY <3>5, <4>1, MemoryFacts
        DEF Key, KeyOf, Advance, MayMove, OwnsQuestion, SameQuestion, OwnerInv, OwnerIsCurrent, Holding
      <4>3. OnRecord[<<stage, r>>] # None
        BY <4>1, <4>2, AnswersAreAnswers, NoneAssumption DEF Succeeded, HandsInv, RowsAgree, OnRecord
      <4>4. IdempotentExecutor => OnRecord[<<stage, r>>] = mem[p].response
        BY <3>5, <4>1, <4>2 DEF Advance, OneAnswer, Succeeded, OnRecord
      <4>5. ApprovalEvidence(r) => Lifecycle!Evidence
        <5>1. \A q \in 0..MaxRevisions : Succeeded("modeling", q) => OnRecord[<<"modeling", q>>] # None
          BY AnswersAreAnswers, NoneAssumption DEF Succeeded, HandsInv, RowsAgree, OnRecord, Key, Stage
        <5>2. ApprovalEvidence(r) => OnRecord[<<"coding", r>>] = "evidenced"
          BY <4>2 DEF ApprovalEvidence, OnRecord, Key, Stage
        <5> QED
          BY <5>1, <5>2 DEF ApprovalEvidence, Lifecycle!Evidence, OnRecord
      <4>6. CASE to("failed", r)
        <5> Lifecycle!GiveUp
          BY <3>1, <4>1, <4>6, LifecycleVocabulary
          DEF Lifecycle!GiveUp, Lifecycle!Pass, OnRecord, RunningState, RunningStates, Stage
        <5> QED
          BY DEF Lifecycle!Next
      <4>7. CASE stage = "modeling" /\ to("ready_for_coding", r)
        <5> Lifecycle!FinishModeling
          BY <3>1, <4>1, <4>3, <4>7 DEF Lifecycle!FinishModeling, Lifecycle!Done, Lifecycle!Pass, OnRecord, RunningState
        <5> QED
          BY DEF Lifecycle!Next
      <4>8. CASE stage = "coding" /\ to("ready_for_review", r)
        <5> Lifecycle!FinishCoding
          BY <3>1, <4>1, <4>3, <4>8 DEF Lifecycle!FinishCoding, Lifecycle!Done, Lifecycle!Pass, OnRecord, RunningState
        <5> QED
          BY DEF Lifecycle!Next
      <4>9. CASE stage = "review" /\ mem[p].response = "approve" /\ ApprovalEvidence(r) /\ to("approved", r)
        <5>1. Lifecycle!Verdict("approve")
          BY <4>3, <4>4, <4>9 DEF Lifecycle!Verdict, Lifecycle!Done, OnRecord
        <5>2. Lifecycle!Approve
          BY <3>1, <4>1, <4>5, <4>9, <5>1 DEF Lifecycle!Approve, Lifecycle!Pass, OnRecord, RunningState
        <5> QED
          BY <5>2 DEF Lifecycle!Next
      <4>10. CASE /\ stage = "review" /\ mem[p].response = "revise" /\ r + 1 <= MaxRevisions
                  /\ to("revision_required", r + 1)
        <5>1. Lifecycle!Verdict("revise")
          BY <4>3, <4>4, <4>10 DEF Lifecycle!Verdict, Lifecycle!Done, OnRecord
        <5>2. r < MaxRevisions
          BY <4>2, <4>10, RevisionAssumption
        <5>3. Lifecycle!Revise
          BY <3>1, <4>1, <4>10, <5>1, <5>2 DEF Lifecycle!Revise, OnRecord, RunningState
        <5> QED
          BY <5>3 DEF Lifecycle!Next
      <4>11. CASE stage = "finalize" /\ to("completed", r)
        <5> Lifecycle!FinishQuestion
          BY <3>1, <4>1, <4>3, <4>11 DEF Lifecycle!FinishQuestion, Lifecycle!Done, Lifecycle!Pass, OnRecord, RunningState
        <5> QED
          BY DEF Lifecycle!Next
      <4> QED
        BY <4>1, <4>6, <4>7, <4>8, <4>9, <4>10, <4>11
    <3> QED
      BY <1>2, <3>2, <3>3, <3>4, <3>5, QuestionMoves
  <2> QED
    BY <2>1, <2>2
<1> QED
  BY <1>1, <1>2 DEF Next

\* Seen without workers, leases, heartbeats and crashes, the workflow is the
\* question's lifecycle: one commit per activity, and no stage left without one.
THEOREM WorkflowImplementsLifecycle ==
  ASSUME DistinctWorkers
  PROVE  Spec => ImplementsLifecycle
<1>1. Spec => [](TypeOK /\ HandsInv /\ OwnerInv /\ ProgressInv)
  BY ProgressAlways
<1> QED
  BY <1>1, LifecycleInit, LifecycleNext, OneAnswerInit, OneAnswerNext, PTL
  DEF Spec, ImplementsLifecycle, Lifecycle!Spec
-----------------------------------------------------------------------------
(* Attempts: no two alike, and none lost to the budget *)

\* A process that executes does so under an attempt its row has reached.
Attempting == {"executing", "completing", "failing"}
AttemptsAreReached ==
  \A p \in Process : pc[p] \in Attempting => mem[p].attempt <= activity[KeyOf(p)].attempts

AttemptInv == AttemptsAreReached /\ AttemptsAreExclusive

\* A row's attempts only grow, by one, and only when its activity is claimed.
LEMMA AttemptsGrow ==
  ASSUME TypeOK, NEW p \in Process, Step(p) \/ ExecutorEnds(p) \/ Crash(p), NEW k \in Key
  PROVE  \/ activity'[k].attempts = activity[k].attempts
         \/ /\ pc[p] = "claiming" /\ pc'[p] = "executing" /\ KeyOf(p) = k
            /\ activity'[k].attempts = activity[k].attempts + 1
            /\ activity[k].attempts \in Nat
            /\ mem' = [mem EXCEPT ![p].attempt = activity[k].attempts + 1]
<1> KeyOf(p) \in Key /\ activity[k] \in Row /\ activity[KeyOf(p)] \in Row /\ activity \in [Key -> Row]
  BY MemoryFacts DEF TypeOK
<1>1. CASE OpenActivity(p)
  BY <1>1 DEF OpenActivity, Row
<1>2. CASE Claim(p)
  <2>1. \/ activity' = activity
        \/ \E wait \in LockWait(p) :
             /\ activity' = [activity EXCEPT ![KeyOf(p)] = NewAttempt(@, WorkerOf[p], wait)]
             /\ Execute(p, activity[KeyOf(p)].attempts + 1)
    BY <1>2 DEF Claim
  <2>2. \A wait : NewAttempt(activity[k], WorkerOf[p], wait).attempts = activity[k].attempts + 1
    BY DEF NewAttempt, Row
  <2>3. activity[k].attempts \in Nat
    BY BudgetAssumption DEF Row
  <2> QED
    BY <1>2, <2>1, <2>2, <2>3 DEF Claim, Execute, Goto, TypeOK
<1>3. CASE RenewActivity(p)
  BY <1>3 DEF RenewActivity, Row
<1>4. CASE Complete(p)
  <2> \A response, informed : CommittedRow(activity[k], response, informed).attempts = activity[k].attempts
    BY DEF CommittedRow, Row
  <2> QED
    BY <1>4 DEF Complete
<1>5. CASE Fail(p)
  <2> FailedRow(activity[k]).attempts = activity[k].attempts
    BY DEF FailedRow, Row
  <2> QED
    BY <1>5 DEF Fail
<1> QED
  BY <1>1, <1>2, <1>3, <1>4, <1>5, RowsStay

\* A process comes to execute only by a claim, and keeps its attempt while it does.
LEMMA AttemptsAreKept ==
  ASSUME TypeOK, NEW p \in Process, Step(p) \/ ExecutorEnds(p) \/ Crash(p), pc'[p] \in Attempting
  PROVE  /\ KeyOf(p)' = KeyOf(p)
         /\ \/ pc[p] \in Attempting /\ mem'[p].attempt = mem[p].attempt
            \/ /\ activity[KeyOf(p)].status = "succeeded"
               /\ mem'[p].attempt = activity[KeyOf(p)].attempts
            \/ /\ activity'[KeyOf(p)].attempts = activity[KeyOf(p)].attempts + 1
               /\ mem'[p].attempt = activity[KeyOf(p)].attempts + 1
<1> /\ mem[p] \in Memory /\ KeyOf(p) \in Key /\ activity[KeyOf(p)] \in Row /\ activity \in [Key -> Row]
    /\ mem \in [Process -> Memory] /\ pc \in [Process -> Label]
  BY MemoryFacts DEF TypeOK
<1>1. CASE Claim(p)
  <2>1. \/ /\ activity[KeyOf(p)].status = "succeeded" /\ Execute(p, activity[KeyOf(p)].attempts)
        \/ \E wait \in LockWait(p) :
             /\ activity' = [activity EXCEPT ![KeyOf(p)] = NewAttempt(@, WorkerOf[p], wait)]
             /\ Execute(p, activity[KeyOf(p)].attempts + 1)
    BY <1>1 DEF Claim, Goto, Leave, Attempting
  <2>2. \A wait : NewAttempt(activity[KeyOf(p)], WorkerOf[p], wait).attempts
                    = activity[KeyOf(p)].attempts + 1
    BY DEF NewAttempt, Row
  <2>3. \A a : Execute(p, a) => mem'[p].attempt = a /\ KeyOf(p)' = KeyOf(p)
    BY DEF Execute, Memory, KeyOf
  <2> QED
    BY <2>1, <2>2, <2>3
<1>2. CASE ExecutorAnswers(p)
  <2>1. PICK r \in Answers(mem[p].stage) : mem' = [mem EXCEPT ![p].response = r]
    BY <1>2 DEF ExecutorAnswers
  <2>2. mem'[p].attempt = mem[p].attempt /\ KeyOf(p)' = KeyOf(p)
    BY <2>1 DEF Memory, KeyOf
  <2> QED
    BY <1>2, <2>2 DEF ExecutorAnswers, Attempting
<1>3. CASE RenewActivity(p) \/ RenewQuestion(p) \/ ExecutorFails(p) \/ Complete(p)
  BY <1>3 DEF RenewActivity, RenewQuestion, ExecutorFails, Complete, Attempting, KeyOf
<1>4. CASE \/ Acquire(p) \/ ReadQuestion(p) \/ EnterStage(p) \/ Reread(p) \/ OpenActivity(p) \/ BuildRequest(p)
           \/ Exhaust(p) \/ Fail(p) \/ Decide(p) \/ Advance(p) \/ Release(p) \/ Crash(p)
  <2> pc'[p] \notin Attempting
    BY <1>4 DEF Acquire, ReadQuestion, EnterStage, Reread, OpenActivity, BuildRequest, Exhaust, Fail,
         Decide, Advance, Release, Crash, Goto, Leave, Attempting
  <2> QED
    OBVIOUS
<1> QED
  BY <1>1, <1>2, <1>3, <1>4 DEF Step, ExecutorEnds

\* Every step keeps the attempts in flight apart.
LEMMA AttemptNext == TypeOK /\ HandsInv /\ AttemptInv /\ [Next]_vars => AttemptInv'
<1> SUFFICES ASSUME TypeOK, HandsInv, AttemptInv, [Next]_vars PROVE AttemptInv'
  OBVIOUS
<1> DEFINE Reached(q) == pc[q] \in Attempting => mem[q].attempt <= activity[KeyOf(q)].attempts
           Together(q, o) == /\ KeyOf(q) = KeyOf(o)
                             /\ {pc[q], pc[o]} \subseteq Attempting
                             /\ activity[KeyOf(q)].status # "succeeded"
           Apart(q, o) == Together(q, o) => mem[q].attempt # mem[o].attempt
<1>1. /\ \A q \in Process : Reached(q)
      /\ \A q, o \in Process : q # o => Apart(q, o)
  BY DEF AttemptInv, AttemptsAreReached, AttemptsAreExclusive, Attempting
<1>2. SUFFICES /\ \A q \in Process : Reached(q)'
               /\ \A q, o \in Process : q # o => Apart(q, o)'
  BY DEF AttemptInv, AttemptsAreReached, AttemptsAreExclusive, Attempting
<1>3. \A k \in Key : activity[k].status = "succeeded" => activity'[k] = activity[k]
  BY RowsNext DEF HandsInv
<1>4. \A q \in Process : /\ KeyOf(q) \in Key /\ mem[q].attempt \in Int
                         /\ activity[KeyOf(q)].attempts \in Int
  BY MemoryFacts, BudgetAssumption DEF Memory, Row
<1>5. CASE Tick \/ UNCHANGED vars
  <2>1. /\ pc' = pc /\ mem' = mem
        /\ \A k \in Key : activity'[k].status = activity[k].status
                          /\ activity'[k].attempts = activity[k].attempts
    BY <1>5 DEF Tick, vars, TypeOK, Row
  <2> QED
    BY <1>1, <1>4, <2>1 DEF KeyOf
<1>6. ASSUME NEW p \in Process, Step(p) \/ ExecutorEnds(p) \/ Crash(p)
      PROVE  /\ \A q \in Process : Reached(q)'
             /\ \A q, o \in Process : q # o => Apart(q, o)'
  <2>1. \A q \in Process \ {p} : pc'[q] = pc[q] /\ mem'[q] = mem[q] /\ KeyOf(q)' = KeyOf(q)
    BY <1>6, OthersStay DEF KeyOf
  <2>2. ASSUME NEW k \in Key PROVE activity'[k].attempts \in {activity[k].attempts, activity[k].attempts + 1}
    BY <1>6, AttemptsGrow
  <2>3. ASSUME NEW q \in Process PROVE Reached(q)'
    <3>1. CASE q # p
      BY <1>1, <1>4, <2>1, <2>2, <3>1
    <3>2. CASE q = p
      BY <1>1, <1>3, <1>4, <1>6, <2>2, <3>2, AttemptsAreKept
    <3> QED
      BY <3>1, <3>2
  \* The process that moves, against one that does not.
  <2>4. ASSUME NEW q \in Process, q # p, KeyOf(q)' = KeyOf(p)', {pc'[q], pc'[p]} \subseteq Attempting,
               activity'[KeyOf(q)'].status # "succeeded"
        PROVE  mem'[q].attempt # mem'[p].attempt
    <3>1. /\ pc[q] \in Attempting /\ mem'[q].attempt = mem[q].attempt
          /\ KeyOf(q) = KeyOf(p) /\ KeyOf(q)' = KeyOf(q)
      BY <1>6, <2>1, <2>4, AttemptsAreKept
    <3>2. activity[KeyOf(p)].status # "succeeded"
      BY <1>3, <1>4, <2>4, <3>1
    <3>3. \/ pc[p] \in Attempting /\ mem'[p].attempt = mem[p].attempt
          \/ mem'[p].attempt = activity[KeyOf(p)].attempts + 1
      BY <1>6, <2>4, <3>2, AttemptsAreKept
    <3> QED
      BY <1>1, <1>4, <2>4, <3>1, <3>2, <3>3
  <2>5. ASSUME NEW q \in Process, NEW o \in Process, q # o PROVE Apart(q, o)'
    <3>1. CASE q # p /\ o # p
      BY <1>1, <1>3, <1>4, <2>1, <2>5, <3>1
    <3>2. CASE q = p \/ o = p
      BY <2>4, <2>5, <3>2
    <3> QED
      BY <3>1, <3>2
  <2> QED
    BY <2>3, <2>5
<1> QED
  BY <1>5, <1>6 DEF Next

\* Two executions of an activity that is not committed yet carry different
\* attempt numbers, so that the fence of complete_activity() and fail_activity()
\* tells them apart even when they run under the same worker id.
THEOREM AttemptsExclusive == Spec => []AttemptsAreExclusive
<1>1. Init => AttemptInv
  BY DEF Init, AttemptInv, AttemptsAreReached, AttemptsAreExclusive, Attempting
<1>2. AttemptInv => AttemptsAreExclusive
  BY DEF AttemptInv
<1> QED
  BY <1>1, <1>2, TypeInit, TypeNext, HandsInit, HandsNext, AttemptNext, PTL DEF Spec
=============================================================================
