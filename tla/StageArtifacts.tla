--------------------------- MODULE StageArtifacts ---------------------------
(* The artifacts of one question: the store of blobs, named by their content  *)
(* (artifacts.py), the rows that own them (store.py), the runtime's registry  *)
(* of the same records (infrastructure/db/sqlite_artifacts.py), the process   *)
(* that adds the question (cli.py) and the workers that execute an activity   *)
(* of it (workflow.py) in the sandbox (executor.py).                          *)
(*                                                                            *)
(* The leases of module QuestionWorkflow are here without their clock: any    *)
(* lease may lapse at any time, and a worker learns of it when it next asks.  *)
(* Blobs are never damaged from outside.  An answer without a program, which  *)
(* has nothing to run, is left out.                                           *)
EXTENDS Naturals, FiniteSets

CONSTANTS
  Worker,
  Source,        \* programs, and papers, an agent may answer with
  Publishable,   \* the papers the validator of publication.py has no error for
  MaxAttempts,   \* max_activity_attempts
  MaxCrashes,    \* a bound: crashes of the processes
  Adder, None

ASSUME ArtifactsAssumption ==
  /\ MaxAttempts \in Nat \ {0} /\ MaxCrashes \in Nat /\ Publishable \subseteq Source
  /\ Adder \notin Worker /\ None \notin Worker \cup Source \cup {Adder}

\* What bytes there may be: the log tells which program ran to its end without an
\* error, if one did, and an output which program wrote it.
Kinds == {"problem", "dag_task_table", "source", "log", "output", "paper"}
Content == [kind : Kinds, of : Source \cup {None}]
Of(kind, s) == [kind |-> kind, of |-> s]

\* An artifact record: who made it, and in which attempt.
Record == [content : Content, by : Worker \cup {Adder}, attempt : 0 .. MaxAttempts]
Made(c, w, a) == [content |-> c, by |-> w, attempt |-> a]

VARIABLES
  blobs,       \* the contents under blobs/
  rows,        \* table artifacts
  registry,    \* table m2_artifacts
  adder,       \* where add-question is
  lease,       \* who holds the question
  activity,    \* its row: the stage, status, attempts and the worker
  workspace,   \* the directory named after the activity
  worker,      \* the step each worker is at, and what it holds
  crashes

vars == <<blobs, rows, registry, adder, lease, activity, workspace, worker, crashes>>

Stages == {"coding", "finalize"}
AddSteps == {"problem", "create", "note_problem", "table", "register", "note_table", "over"}
Steps ==
  {"idle", "check", "table", "register", "note_table", "read", "claim",
   "agent", "prepare", "start", "run", "remove", "put", "note", "commit", "fail"}

\* ran is the program of the process in the sandbox, home whether its working
\* directory is still there.
Memory ==
  [step : Steps, attempt : 0 .. MaxAttempts, source : Source \cup {None},
   ran : Source \cup {None}, outputs : SUBSET Source, home : BOOLEAN]
Blank == [step |-> "idle", attempt |-> 0, source |-> None, ran |-> None, outputs |-> {}, home |-> FALSE]

NoWorkspace == [there |-> FALSE, script |-> None, outputs |-> {}]

Init ==
  /\ blobs = {} /\ rows = {} /\ registry = {}
  /\ adder = "problem" /\ lease = None
  /\ \E stage \in Stages :
       activity = [stage |-> stage, status |-> "pending", attempts |-> 0, worker |-> None]
  /\ workspace = NoWorkspace
  /\ worker = [w \in Worker |-> Blank] /\ crashes = 0

-----------------------------------------------------------------------------
(* put_bytes(), register_artifact(), register(): the file is in place before  *)
(* put_bytes() returns, by one rename; the same content is written once.      *)

Put(set) == blobs' = blobs \cup set

Problem == Made(Of("problem", None), Adder, 0)
Table(who) == Made(Of("dag_task_table", None), who, 0)
Tables == {r \in rows : r.content.kind = "dag_task_table"}

-----------------------------------------------------------------------------
(* add-question: create_question() writes the question and its problem in one *)
(* transaction, register() the runtime's record of it in another.             *)

\* Mutant: the row is written before the bytes.
TableUnwritten == adder = "table" /\ UNCHANGED blobs
PutsTable == adder = "table" /\ Put({Table(Adder).content})

AddStep ==
  /\ \/ /\ adder = "problem" /\ adder' = "create"
        /\ Put({Problem.content}) /\ UNCHANGED <<rows, registry>>
     \/ /\ adder = "create" /\ adder' = "note_problem"
        /\ rows' = rows \cup {Problem} /\ UNCHANGED <<blobs, registry>>
     \/ /\ adder = "note_problem" /\ adder' = "table"
        /\ registry' = registry \cup {Problem} /\ UNCHANGED <<blobs, rows>>
     \/ PutsTable /\ adder' = "register" /\ UNCHANGED <<rows, registry>>
     \/ /\ adder = "register" /\ adder' = "note_table"
        /\ rows' = rows \cup {Table(Adder)} /\ UNCHANGED <<blobs, registry>>
     \/ /\ adder = "note_table" /\ adder' = "over"
        /\ registry' = registry \cup {Table(Adder)} /\ UNCHANGED <<blobs, rows>>
  /\ UNCHANGED <<lease, activity, workspace, worker>>

AdderCrash ==
  /\ adder # "over" /\ adder' = "over"
  /\ crashes < MaxCrashes /\ crashes' = crashes + 1
  /\ UNCHANGED <<blobs, rows, registry, lease, activity, workspace, worker>>

-----------------------------------------------------------------------------
(* run_step(): the question's lease and its DAG task table *)

At(w, step) == worker[w].step = step
GoesTo(w, step) == worker' = [worker EXCEPT ![w].step = step]

\* The end of run_step(), which releases the lease if it is still the worker's.
Leaves(w) ==
  /\ worker' = [worker EXCEPT ![w] = Blank]
  /\ lease' = IF lease = w THEN None ELSE lease

Acquire(w) ==
  /\ At(w, "idle") /\ Problem \in rows /\ activity.status \notin {"succeeded", "exhausted"}
  /\ lease \in {None, w}
  /\ lease' = w /\ GoesTo(w, "check")
  /\ UNCHANGED <<blobs, rows, registry, adder, activity, workspace>>

\* Nobody renewed the leases in time: that of the question, or both (one thread
\* renews them, the activity's first).
Lapse ==
  /\ lease # None \/ activity.worker # None
  /\ lease' = None
  /\ \E holder \in {activity.worker, None} : activity' = [activity EXCEPT !.worker = holder]
  /\ UNCHANGED <<blobs, rows, registry, adder, workspace, worker>>

\* _ensure_valid_dag_task_table(): none is made up for, once; more than one is
\* an error.
\* Mutant: a missing table is not made up for.
NeedsNoTable(w) == FALSE
NeedsTable(w) == At(w, "check") /\ Tables = {}

CountTables(w) ==
  IF Cardinality(Tables) > 1 THEN Leaves(w) ELSE GoesTo(w, "read") /\ UNCHANGED lease

CheckTable(w) ==
  /\ At(w, "check")
  /\ IF NeedsTable(w) THEN GoesTo(w, "table") /\ UNCHANGED lease ELSE CountTables(w)
  /\ UNCHANGED <<blobs, rows, registry, adder, activity, workspace>>

\* The tables are counted again as the last of it.
MaterializeTable(w) ==
  /\ \/ /\ At(w, "table") /\ GoesTo(w, "register")
        /\ Put({Table(w).content}) /\ UNCHANGED <<rows, registry, lease>>
     \/ /\ At(w, "register") /\ GoesTo(w, "note_table")
        /\ rows' = rows \cup {Table(w)} /\ UNCHANGED <<blobs, registry, lease>>
     \/ /\ At(w, "note_table") /\ CountTables(w)
        /\ registry' = registry \cup {Table(w)} /\ UNCHANGED <<blobs, rows>>
  /\ UNCHANGED <<adder, activity, workspace>>

-----------------------------------------------------------------------------
(* The activity's row: claim_activity(), complete_activity(), fail_activity() *)

\* get_or_create_activity(): one that has succeeded is not executed.
ReadActivity(w) ==
  /\ At(w, "read")
  /\ IF activity.status = "succeeded" THEN Leaves(w) ELSE GoesTo(w, "claim") /\ UNCHANGED lease
  /\ UNCHANGED <<blobs, rows, registry, adder, activity, workspace>>

Begins(w, attempt) ==
  /\ worker' = [worker EXCEPT ![w].step = "agent", ![w].attempt = attempt]
  /\ UNCHANGED lease

OutOfAttempts == activity.attempts = MaxAttempts

\* Leased to somebody, out of attempts (only the question's owner may fail it),
\* or claimed; one that succeeded since it was read is executed unclaimed.
Claim(w) ==
  /\ At(w, "claim")
  /\ \/ /\ activity.status \in {"succeeded", "exhausted"}
        /\ IF activity.status = "succeeded" THEN Begins(w, activity.attempts) ELSE Leaves(w)
        /\ UNCHANGED activity
     \/ activity.worker # None /\ Leaves(w) /\ UNCHANGED activity
     \/ /\ activity.status \in {"pending", "running", "failed"} /\ activity.worker = None
        /\ IF OutOfAttempts
           THEN /\ Leaves(w)
                /\ activity' = IF lease = w THEN [activity EXCEPT !.status = "exhausted"] ELSE activity
           ELSE /\ Begins(w, activity.attempts + 1)
                /\ activity' = [activity EXCEPT !.status = "running", !.worker = w, !.attempts = @ + 1]
  /\ UNCHANGED <<blobs, rows, registry, adder, workspace>>

\* Mutant: any attempt may complete a running activity.
HoldsStage(w) == activity.status = "running"
Holds(w) ==
  /\ activity.status = "running" /\ activity.worker = w
  /\ activity.attempts = worker[w].attempt

\* The artifacts of a response.
Produced(w) ==
  LET m == worker[w] IN
    IF activity.stage = "finalize" THEN {Of("paper", m.source)}
    ELSE {Of("source", m.source), Of("log", m.ran)} \cup {Of("output", s) : s \in m.outputs}
Records(w) == {Made(c, w, worker[w].attempt) : c \in Produced(w)}

\* validate_final_publication() has no error for it.
ValidPaper(s) == s \in Publishable

\* _materialize_response(): a paper is validated before anything is written.
Rejects(w) == activity.stage = "finalize" /\ ~ValidPaper(worker[w].source)

PutResponse(w) ==
  /\ At(w, "put")
  /\ IF Rejects(w) THEN GoesTo(w, "fail") /\ UNCHANGED blobs
     ELSE GoesTo(w, "note") /\ Put(Produced(w))
  /\ UNCHANGED <<rows, registry, adder, lease, activity, workspace>>

\* The heartbeat found the lease gone: it says so when the execution is over.
HeartbeatFails(w) ==
  /\ At(w, "put") /\ ~Holds(w) /\ GoesTo(w, "fail")
  /\ UNCHANGED <<blobs, rows, registry, adder, lease, activity, workspace>>

\* Mutant: the records are not registered with those of the runtime.
NotNoted(w) == UNCHANGED registry
Noted(w) == registry' = registry \cup Records(w)

NoteResponse(w) ==
  /\ At(w, "note") /\ Noted(w) /\ GoesTo(w, "commit")
  /\ UNCHANGED <<blobs, rows, adder, lease, activity, workspace>>

\* One transaction; after another attempt's success it changes nothing.
Commit(w) ==
  /\ At(w, "commit")
  /\ IF Holds(w)
     THEN /\ rows' = rows \cup Records(w)
          /\ activity' = [activity EXCEPT !.status = "succeeded", !.worker = None]
     ELSE UNCHANGED <<rows, activity>>
  /\ Leaves(w)
  /\ UNCHANGED <<blobs, registry, adder, workspace>>

FailActivity(w) ==
  /\ At(w, "fail")
  /\ activity' = IF Holds(w) THEN [activity EXCEPT !.status = "failed", !.worker = None] ELSE activity
  /\ Leaves(w)
  /\ UNCHANGED <<blobs, rows, registry, adder, workspace>>

-----------------------------------------------------------------------------
(* execute(): the agent, an external command, and the run of its program in   *)
(* the workspace of the activity.  What goes wrong there becomes a failed run *)
(* in the log; the workspace is removed whatever happened.                    *)

Agent(w) ==
  /\ At(w, "agent")
  /\ \/ \E s \in Source :
          worker' = [worker EXCEPT ![w].source = s,
                       ![w].step = IF activity.stage = "coding" THEN "prepare" ELSE "put"]
     \/ GoesTo(w, "fail")
  /\ UNCHANGED <<blobs, rows, registry, adder, lease, activity, workspace>>

\* The inputs are written, or one cannot be read, they are over the budget, or
\* another attempt's rmtree() takes the directory.
InputsWritten == BOOLEAN

\* The directory, the inputs and the script.
Prepare(w) ==
  /\ At(w, "prepare")
  /\ \E written \in InputsWritten :
       IF written
       THEN /\ workspace' = [workspace EXCEPT !.there = TRUE, !.script = worker[w].source]
            /\ GoesTo(w, "start")
       ELSE GoesTo(w, "remove") /\ UNCHANGED workspace
  /\ UNCHANGED <<blobs, rows, registry, adder, lease, activity>>

\* The process reads the script that is there when it starts.
StartProcess(w) ==
  /\ At(w, "start")
  /\ worker' = [worker EXCEPT ![w].step = "run", ![w].ran = workspace.script, ![w].home = workspace.there]
  /\ UNCHANGED <<blobs, rows, registry, adder, lease, activity, workspace>>

\* _collect_outputs(): every file that is there, whoever wrote it.
Collected(w, writes) ==
  IF writes THEN workspace.outputs \cup {worker[w].ran} ELSE workspace.outputs

\* It may succeed if there was a script and write an output if its directory is
\* still there; then the script is deleted.
EndProcess(w) ==
  /\ At(w, "run")
  /\ \E succeeds \in BOOLEAN, writes \in BOOLEAN :
       /\ succeeds \/ writes => worker[w].ran # None
       /\ writes => worker[w].home
       /\ workspace' = [workspace EXCEPT !.script = None, !.outputs = Collected(w, writes)]
       /\ worker' = [worker EXCEPT ![w].step = "remove", ![w].home = FALSE,
                        ![w].ran = IF succeeds THEN @ ELSE None,
                        ![w].outputs = Collected(w, writes)]
  /\ UNCHANGED <<blobs, rows, registry, adder, lease, activity>>

\* rmtree(): whoever else works there loses its directory.
RemoveWorkspace(w) ==
  /\ At(w, "remove")
  /\ workspace' = NoWorkspace
  /\ worker' = [v \in Worker |->
       IF v = w THEN [worker[w] EXCEPT !.step = "put"] ELSE [worker[v] EXCEPT !.home = FALSE]]
  /\ UNCHANGED <<blobs, rows, registry, adder, lease, activity>>

Sandboxed(w) ==
  \/ Prepare(w) \/ StartProcess(w)
  \/ EndProcess(w) \/ RemoveWorkspace(w)

WorkerCrash(w) ==
  /\ ~At(w, "idle") /\ crashes < MaxCrashes /\ crashes' = crashes + 1
  /\ worker' = [worker EXCEPT ![w] = Blank]
  /\ UNCHANGED <<blobs, rows, registry, adder, lease, activity, workspace>>

-----------------------------------------------------------------------------

WorkerStep(w) ==
  \/ Acquire(w) \/ CheckTable(w) \/ MaterializeTable(w) \/ ReadActivity(w) \/ Claim(w)
  \/ Agent(w) \/ Sandboxed(w)
  \/ PutResponse(w) \/ HeartbeatFails(w) \/ NoteResponse(w) \/ Commit(w) \/ FailActivity(w)

Next ==
  \/ /\ AddStep \/ Lapse \/ \E w \in Worker : WorkerStep(w)
     /\ UNCHANGED crashes
  \/ AdderCrash \/ \E w \in Worker : WorkerCrash(w)

Spec == Init /\ [][Next]_vars

-----------------------------------------------------------------------------
(* Properties *)

\* The variables keep their domains.
TypeOK ==
  /\ blobs \subseteq Content /\ rows \subseteq Record /\ registry \subseteq Record
  /\ adder \in AddSteps /\ lease \in Worker \cup {None}
  /\ activity \in [stage : Stages, status : {"pending", "running", "failed", "exhausted", "succeeded"},
                   attempts : 0 .. MaxAttempts, worker : Worker \cup {None}]
  /\ workspace \in [there : BOOLEAN, script : Source \cup {None}, outputs : SUBSET Source]
  /\ worker \in [Worker -> Memory] /\ crashes \in 0 .. MaxCrashes

\* Whatever crashed, `verify` finds the bytes of every record of both tables
\* (put_bytes() comes before every insert).
RecordsHaveBlobs == \A r \in rows \cup registry : r.content \in blobs

\* The rows of an activity are those of the one attempt that committed, late
\* attempts leave none, and the runtime's registry has them all
\* (complete_activity()'s check and transaction, _materialize_response()).
RowsAreOfTheCommit ==
  \A r \in rows :
    r.attempt # 0 =>
      activity.status = "succeeded" /\ r.attempt = activity.attempts /\ r \in registry

\* No attempt is made for a question without a table whose bytes can be read
\* (_ensure_valid_dag_task_table()).
WorkHasTable ==
  activity.attempts > 0 => \E r \in Tables : r.content \in blobs

\* The log and the outputs committed with a source are of a run of that source
\* (the evidence boundary of SandboxedActivityExecutor).
EvidenceIsOfItsSource ==
  \A r, s \in rows :
    r.content.kind = "source" /\ s.content.kind \in {"log", "output"} =>
      s.content.of \in {r.content.of, None}

\* A question that may be executed has one table (run_step() accepts no other
\* number).
OneTable == Cardinality(Tables) <= 1
=============================================================================
