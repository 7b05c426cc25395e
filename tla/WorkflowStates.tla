--------------------------- MODULE WorkflowStates ---------------------------
(* The single-question workflow definition (workflows/single_question_v1.py): *)
(* its states, the events that move them and the activities they plan.        *)
EXTENDS Naturals, Sequences

CONSTANT NoWorkflow

Stages == {"ingest", "modeling", "coding", "validation", "review", "revision",
           "finalize"}

\* What completes a stage, with the verdict if it is the review, and the three commands of an operator.
Completed(stage, revise) == [type |-> "completed", stage |-> stage, revise |-> revise]
Command(type) == [type |-> type, stage |-> "none", revise |-> FALSE]
Started == Command("started")
Commands == {Command("paused"), Command("resumed"), Command("cancelled")}
Results == {Completed(stage, FALSE) : stage \in Stages} \cup {Completed("review", TRUE)}
Events == Commands \cup Results

State == [stage : Stages, revision : Nat, paused : BOOLEAN, cancelled : BOOLEAN,
          terminal : BOOLEAN, version : Nat \ {0}]

ASSUME NoWorkflowAssumption == NoWorkflow \notin State

Initial == [stage |-> "ingest", revision |-> 0, paused |-> FALSE,
            cancelled |-> FALSE, terminal |-> FALSE, version |-> 1]

After == [ingest |-> "modeling", modeling |-> "coding", coding |-> "validation",
          validation |-> "review", review |-> "finalize", revision |-> "coding",
          finalize |-> "finalize"]

Advance(s, revise) ==
    IF s.stage = "finalize" THEN [s EXCEPT !.terminal = TRUE]
    ELSE IF s.stage = "review" /\ revise
    THEN [s EXCEPT !.stage = "revision", !.revision = @ + 1]
    ELSE [s EXCEPT !.stage = After[s.stage]]

Obey(s, type) ==
    IF type = "cancelled" THEN [s EXCEPT !.cancelled = TRUE, !.terminal = TRUE]
                          ELSE [s EXCEPT !.paused = (type = "paused")]

\* SingleQuestionWorkflowV1.reduce, of an event the state takes.
Takes(s, e) == e \in Commands \/ (e \in Results /\ e.stage = s.stage)
Reduce(s, e) ==
    [(IF e \in Commands THEN Obey(s, e.type) ELSE Advance(s, e.revise))
        EXCEPT !.version = s.version + 1]

\* SingleQuestionWorkflowV1.plan: the one activity of the stage.
Activity(s) == <<s.stage, s.revision>>
Plan(s) == IF s.terminal \/ s.paused \/ s.cancelled THEN {} ELSE {Activity(s)}
=============================================================================
