-------------------------- MODULE QuestionLifecycle --------------------------
(***************************************************************************)
(* What the workflow promises about one question, with no processes, no    *)
(* leases and no time: its activities commit at most once each, and it     *)
(* leaves a stage only on the strength of a commit of that stage at its    *)
(* own revision, an approval on local evidence for that revision.          *)
(* When Faithful, the review it acts on is the committed one.              *)
(***************************************************************************)
EXTENDS QuestionStates

CONSTANT Faithful     \* a Boolean

VARIABLES
  state, revision,
  committed   \* the committed answer of each activity, or None

lifecycle == <<state, revision, committed>>

Done(stage) == committed[<<stage, revision>>] # None

\* The verdict a transition out of review follows.
Verdict(v) == Done("review") /\ (Faithful => committed[<<"review", revision>>] = v)

Evidence == /\ \E r \in 0..MaxRevisions : committed[<<"modeling", r>>] # None
            /\ committed[<<"coding", revision>>] = "evidenced"

-----------------------------------------------------------------------------

Init ==
  /\ state = "pending" /\ revision = 0
  /\ committed = [k \in Key |-> None]

\* An activity commits once; it need not be the one the question waits for.
Commit(k) ==
  /\ committed[k] = None
  /\ \E a \in Answers(k[1]) : committed' = [committed EXCEPT ![k] = a]
  /\ UNCHANGED <<state, revision>>

EnterStage ==
  /\ state \in EntryStates
  /\ state' = RunningState(StageOf(state))
  /\ UNCHANGED <<revision, committed>>

\* From one state to the next without a new revision.
Pass(from, to) ==
  /\ state = from /\ state' = to
  /\ UNCHANGED <<revision, committed>>

FinishModeling == Done("modeling") /\ Pass("modeling", "ready_for_coding")
FinishCoding == Done("coding") /\ Pass("coding", "ready_for_review")
Approve == Verdict("approve") /\ Evidence /\ Pass("reviewing", "approved")
FinishQuestion == Done("finalize") /\ Pass("finalizing", "completed")

Revise ==
  /\ Verdict("revise")
  /\ state = "reviewing" /\ state' = "revision_required"
  /\ revision < MaxRevisions /\ revision' = revision + 1
  /\ UNCHANGED committed

\* A spent budget of attempts or revisions, or an approval without evidence.
GiveUp == \E s \in RunningStates : Pass(s, "failed")

Next ==
  \/ \E k \in Key : Commit(k)
  \/ EnterStage \/ FinishModeling \/ FinishCoding
  \/ Approve \/ Revise \/ FinishQuestion \/ GiveUp

Spec == Init /\ [][Next]_lifecycle
=============================================================================
