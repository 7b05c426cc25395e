--------------------------- MODULE QuestionStates ---------------------------
(***************************************************************************)
(* The states of a question, the stages that carry it from one to the next *)
(* and what the activity of a stage may answer (models.py, workflow.py).   *)
(***************************************************************************)
EXTENDS Integers

CONSTANTS
  MaxRevisions,       \* max_revisions
  None                \* SQL NULL / Python None

ASSUME RevisionAssumption == MaxRevisions \in Nat

Stage == {"modeling", "coding", "review", "finalize"}
Key == Stage \X (0..MaxRevisions)

\* The waiting state a stage is entered from, the state while it runs.
EntryStates == {"pending", "ready_for_coding", "revision_required",
                "ready_for_review", "approved"}
RunningStates == {"modeling", "coding", "reviewing", "finalizing"}
Terminal == {"completed", "failed"}
State == EntryStates \cup RunningStates \cup Terminal

StageOf(s) ==
  [pending |-> "modeling", modeling |-> "modeling",
   ready_for_coding |-> "coding", revision_required |-> "coding", coding |-> "coding",
   ready_for_review |-> "review", reviewing |-> "review",
   approved |-> "finalize", finalizing |-> "finalize",
   completed |-> "finalize", failed |-> "finalize"][s]

RunningState(stage) ==
  [modeling |-> "modeling", coding |-> "coding",
   review |-> "reviewing", finalize |-> "finalizing"][stage]

\* What an activity may answer.  A coding answer is "evidenced" when it was
\* executed locally, succeeded and passed every required validation.
Answers(stage) ==
  [modeling |-> {"modeled"}, coding |-> {"evidenced", "unevidenced"},
   review |-> {"approve", "revise"}, finalize |-> {"published"}][stage]
Answer == UNION {Answers(stage) : stage \in Stage}

\* None is not an answer.
ASSUME NoneAssumption == None \notin Answer /\ None \notin 0..MaxRevisions
=============================================================================
