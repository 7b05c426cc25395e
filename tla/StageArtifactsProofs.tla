------------------------ MODULE StageArtifactsProofs ------------------------
(* What module StageArtifacts says of the artifacts of a question, for any    *)
(* number of workers, sources, attempts and crashes.                          *)
EXTENDS StageArtifacts, TLAPS

-----------------------------------------------------------------------------
(* Domains *)

\* The variables start in their domains.
LEMMA InitTypes == Init => TypeOK
BY ArtifactsAssumption
DEF Init, TypeOK, AddSteps, Stages, NoWorkspace, Blank, Memory, Steps

\* What a worker holds is a record of Memory.
LEMMA MemoryOf ==
  ASSUME TypeOK, NEW w \in Worker
  PROVE  worker[w] \in Memory
BY DEF TypeOK

\* What a worker is given to hold stays in Memory.
LEMMA HoldsMemory ==
  ASSUME TypeOK, NEW w \in Worker
  PROVE  /\ \A step \in Steps : [worker EXCEPT ![w].step = step] \in [Worker -> Memory]
         /\ [worker EXCEPT ![w] = Blank] \in [Worker -> Memory]
         /\ worker[w] \in Memory
<1>1. worker[w] \in Memory /\ worker \in [Worker -> Memory]
  BY DEF TypeOK
<1>2. Blank \in Memory
  BY ArtifactsAssumption DEF Blank, Memory, Steps
<1>3. ASSUME NEW step \in Steps
      PROVE  [worker[w] EXCEPT !.step = step] \in Memory
  BY <1>1 DEF Memory
<1>4. QED BY <1>1, <1>2, <1>3

\* A worker that leaves keeps the domains.
LEMMA LeavesTypes ==
  ASSUME TypeOK, NEW w \in Worker, Leaves(w)
  PROVE  worker' \in [Worker -> Memory] /\ lease' \in Worker \cup {None}
BY HoldsMemory DEF TypeOK, Leaves

\* A worker that goes on to a step keeps the domains.
LEMMA GoesToTypes ==
  ASSUME TypeOK, NEW w \in Worker, NEW step \in Steps, GoesTo(w, step)
  PROVE  worker' \in [Worker -> Memory]
BY HoldsMemory DEF GoesTo

\* A record of a worker or of add-question is one.
LEMMA MadeRecords ==
  ASSUME TypeOK
  PROVE  /\ Problem \in Record /\ Problem.content \in Content
         /\ \A who \in Worker \cup {Adder} :
              Table(who) \in Record /\ Table(who).content \in Content
         /\ \A w \in Worker : Produced(w) \subseteq Content /\ Records(w) \subseteq Record
<1>1. Problem \in Record /\ Problem.content \in Content
  BY ArtifactsAssumption DEF Problem, Made, Of, Record, Content, Kinds
<1>2. \A who \in Worker \cup {Adder} :
        Table(who) \in Record /\ Table(who).content \in Content
  BY ArtifactsAssumption DEF Table, Made, Of, Record, Content, Kinds
<1>3. ASSUME NEW w \in Worker
      PROVE  Produced(w) \subseteq Content /\ Records(w) \subseteq Record
  <2>1. /\ worker[w].source \in Source \cup {None} /\ worker[w].ran \in Source \cup {None}
        /\ worker[w].outputs \subseteq Source /\ worker[w].attempt \in 0 .. MaxAttempts
    BY HoldsMemory DEF Memory
  <2>2. \A kind \in Kinds, s \in Source \cup {None} : Of(kind, s) \in Content
    BY DEF Of, Content
  <2>3. Produced(w) \subseteq Content
    BY <2>1, <2>2 DEF Produced, Kinds
  <2>4. \A c \in Content : Made(c, w, worker[w].attempt) \in Record
    BY <2>1 DEF Made, Record
  <2>5. QED BY <2>3, <2>4 DEF Records
<1>4. QED BY <1>1, <1>2, <1>3

\* So do the writes of add-question,
LEMMA AddTypes == ASSUME TypeOK, AddStep, UNCHANGED crashes PROVE TypeOK'
<1>1. adder' \in AddSteps
  BY DEF AddStep, AddSteps, PutsTable
<1>2. blobs' \subseteq Content /\ rows' \subseteq Record /\ registry' \subseteq Record
  BY MadeRecords DEF AddStep, PutsTable, Put, TypeOK
<1>3. QED BY <1>1, <1>2 DEF AddStep, TypeOK

\* the way of a worker to its activity,
LEMMA WalkTypes ==
  ASSUME TypeOK, NEW w \in Worker,
         Acquire(w) \/ CheckTable(w) \/ MaterializeTable(w) \/ ReadActivity(w), UNCHANGED crashes
  PROVE  TypeOK'
<1>1. worker' \in [Worker -> Memory] /\ lease' \in Worker \cup {None}
  BY LeavesTypes, GoesToTypes
  DEF Acquire, CheckTable, MaterializeTable, CountTables, ReadActivity, TypeOK, Steps
<1>2. blobs' \subseteq Content /\ rows' \subseteq Record /\ registry' \subseteq Record
  BY MadeRecords DEF Acquire, CheckTable, MaterializeTable, ReadActivity, Put, TypeOK
<1>3. QED
  BY <1>1, <1>2
  DEF Acquire, CheckTable, MaterializeTable, ReadActivity, TypeOK

\* the claim, which counts an attempt only while there is one left,
LEMMA ClaimTypes ==
  ASSUME TypeOK, NEW w \in Worker, Claim(w), UNCHANGED crashes
  PROVE  TypeOK'
<1>1. activity.attempts \in 0 .. MaxAttempts /\ MaxAttempts \in Nat
  BY ArtifactsAssumption DEF TypeOK
<1>2. ASSUME NEW attempt \in 0 .. MaxAttempts, Begins(w, attempt)
      PROVE  worker' \in [Worker -> Memory] /\ lease' \in Worker \cup {None}
  <2>1. [worker[w] EXCEPT !.step = "agent", !.attempt = attempt] \in Memory
    BY MemoryOf DEF Memory, Steps
  <2>2. QED BY <2>1, <1>2 DEF Begins, TypeOK
<1>3. worker' \in [Worker -> Memory] /\ lease' \in Worker \cup {None}
  BY <1>1, <1>2, LeavesTypes DEF Claim, OutOfAttempts
<1>4. activity' \in [stage : Stages, status : {"pending", "running", "failed", "exhausted", "succeeded"},
                     attempts : 0 .. MaxAttempts, worker : Worker \cup {None}]
  <2>1. \/ activity' = activity \/ activity' = [activity EXCEPT !.status = "exhausted"]
        \/ /\ activity.attempts # MaxAttempts
           /\ activity' = [activity EXCEPT !.status = "running", !.worker = w, !.attempts = @ + 1]
    BY DEF Claim, OutOfAttempts
  <2>2. activity \in [stage : Stages, status : {"pending", "running", "failed", "exhausted", "succeeded"},
                      attempts : 0 .. MaxAttempts, worker : Worker \cup {None}]
    BY DEF TypeOK
  <2>3. activity.attempts # MaxAttempts => activity.attempts + 1 \in 0 .. MaxAttempts
    BY <1>1
  <2>4. QED BY <2>1, <2>2, <2>3
<1>5. QED BY <1>3, <1>4 DEF Claim, TypeOK

\* the agent and the sandbox,
LEMMA RunTypes ==
  ASSUME TypeOK, NEW w \in Worker, Agent(w) \/ Sandboxed(w), UNCHANGED crashes
  PROVE  TypeOK'
<1>1. CASE Agent(w)
  <2>1. ASSUME NEW s \in Source, NEW step \in Steps
        PROVE  [worker[w] EXCEPT !.source = s, !.step = step] \in Memory
    BY MemoryOf DEF Memory
  <2>2. worker' \in [Worker -> Memory]
    <3>1. CASE GoesTo(w, "fail")
      BY <3>1, GoesToTypes DEF Steps
    <3>2. ASSUME NEW s \in Source, NEW step \in Steps,
                 worker' = [worker EXCEPT ![w].source = s, ![w].step = step]
          PROVE  worker' \in [Worker -> Memory]
      BY <2>1, <3>2 DEF TypeOK
    <3>3. QED BY <1>1, <3>1, <3>2 DEF Agent, Steps
  <2>3. QED BY <1>1, <2>2 DEF Agent, TypeOK
<1>2. CASE Prepare(w)
  <2>1. worker' \in [Worker -> Memory]
    BY <1>2, GoesToTypes DEF Prepare, Steps
  <2>2. worker[w].source \in Source \cup {None}
    BY MemoryOf DEF Memory
  <2>3. workspace' \in [there : BOOLEAN, script : Source \cup {None}, outputs : SUBSET Source]
    BY <1>2, <2>2 DEF Prepare, TypeOK
  <2>4. QED BY <1>2, <2>1, <2>3 DEF Prepare, TypeOK
<1>3. CASE StartProcess(w)
  <2>1. workspace.script \in Source \cup {None} /\ workspace.there \in BOOLEAN
    BY DEF TypeOK
  <2>2. [worker[w] EXCEPT !.step = "run", !.ran = workspace.script, !.home = workspace.there] \in Memory
    BY <2>1, MemoryOf DEF Memory, Steps
  <2>3. worker' \in [Worker -> Memory]
    BY <1>3, <2>2 DEF StartProcess, TypeOK
  <2>4. QED BY <1>3, <2>3 DEF StartProcess, TypeOK
<1>4. CASE EndProcess(w)
  <2>1. PICK succeeds \in BOOLEAN, writes \in BOOLEAN :
          /\ succeeds \/ writes => worker[w].ran # None
          /\ workspace' = [workspace EXCEPT !.script = None, !.outputs = Collected(w, writes)]
          /\ worker' = [worker EXCEPT ![w].step = "remove", ![w].home = FALSE,
                           ![w].ran = IF succeeds THEN @ ELSE None,
                           ![w].outputs = Collected(w, writes)]
    BY <1>4 DEF EndProcess
  <2>2. /\ worker[w] \in Memory /\ worker[w].ran \in Source \cup {None}
        /\ workspace.outputs \in SUBSET Source
    BY MemoryOf DEF Memory, TypeOK
  <2>3. Collected(w, writes) \in SUBSET Source
    BY <2>1, <2>2 DEF Collected
  <2>4. [worker[w] EXCEPT !.step = "remove", !.home = FALSE,
           !.ran = IF succeeds THEN @ ELSE None, !.outputs = Collected(w, writes)] \in Memory
    BY <2>2, <2>3 DEF Memory, Steps
  <2>5. worker' \in [Worker -> Memory]
    BY <2>1, <2>4 DEF TypeOK
  <2>6. workspace' \in [there : BOOLEAN, script : Source \cup {None}, outputs : SUBSET Source]
    BY <2>1, <2>3 DEF TypeOK
  <2>7. QED BY <1>4, <2>5, <2>6 DEF EndProcess, TypeOK
<1>5. CASE RemoveWorkspace(w)
  <2>1. ASSUME NEW v \in Worker PROVE [worker[v] EXCEPT !.home = FALSE] \in Memory
    <3>1. worker[v] \in Memory
      BY MemoryOf
    <3>2. QED BY <3>1 DEF Memory
  <2>2. [worker[w] EXCEPT !.step = "put"] \in Memory
    BY MemoryOf DEF Memory, Steps
  <2>3. worker' \in [Worker -> Memory]
    BY <1>5, <2>1, <2>2 DEF RemoveWorkspace
  <2>4. QED BY <1>5, <2>3 DEF RemoveWorkspace, NoWorkspace, TypeOK
<1>6. QED BY <1>1, <1>2, <1>3, <1>4, <1>5 DEF Sandboxed

\* the answer, from its bytes to the commit,
LEMMA EndTypes ==
  ASSUME TypeOK, NEW w \in Worker,
         PutResponse(w) \/ HeartbeatFails(w) \/ NoteResponse(w) \/ Commit(w) \/ FailActivity(w), UNCHANGED crashes
  PROVE  TypeOK'
<1>1. worker' \in [Worker -> Memory] /\ lease' \in Worker \cup {None}
  BY LeavesTypes, GoesToTypes
  DEF PutResponse, HeartbeatFails, NoteResponse, Commit, FailActivity, TypeOK, Steps
<1>2. blobs' \subseteq Content /\ rows' \subseteq Record /\ registry' \subseteq Record
  BY MadeRecords
  DEF PutResponse, HeartbeatFails, NoteResponse, Commit, FailActivity, Put, Noted, TypeOK
<1>3. activity' \in [stage : Stages, status : {"pending", "running", "failed", "exhausted", "succeeded"},
                     attempts : 0 .. MaxAttempts, worker : Worker \cup {None}]
  BY DEF PutResponse, HeartbeatFails, NoteResponse, Commit, FailActivity, TypeOK
<1>4. QED
  BY <1>1, <1>2, <1>3
  DEF PutResponse, HeartbeatFails, NoteResponse, Commit, FailActivity, TypeOK

\* and crashes and lapses.
LEMMA OtherTypes ==
  ASSUME TypeOK,
         \/ Lapse /\ UNCHANGED crashes
         \/ AdderCrash \/ \E w \in Worker : WorkerCrash(w)
  PROVE  TypeOK'
<1>1. CASE Lapse /\ UNCHANGED crashes
  BY <1>1 DEF Lapse, TypeOK
<1>2. CASE AdderCrash
  BY <1>2, ArtifactsAssumption DEF AdderCrash, AddSteps, TypeOK
<1>3. ASSUME NEW w \in Worker, WorkerCrash(w) PROVE TypeOK'
  BY <1>3, HoldsMemory, ArtifactsAssumption DEF WorkerCrash, TypeOK
<1>4. QED BY <1>1, <1>2, <1>3

\* Every step keeps the domains.
LEMMA StepTypes == TypeOK /\ [Next]_vars => TypeOK'
<1>1. ASSUME TypeOK, NEW w \in Worker, WorkerStep(w), UNCHANGED crashes PROVE TypeOK'
  BY <1>1, WalkTypes, ClaimTypes, RunTypes, EndTypes DEF WorkerStep
<1>2. ASSUME TypeOK, UNCHANGED vars PROVE TypeOK'
  BY <1>2 DEF vars, TypeOK
<1>3. QED BY <1>1, <1>2, AddTypes, OtherTypes DEF Next

\* The variables keep their domains; in particular no attempt is one too many
\* (claim_activity()).
THEOREM ArtifactTypes == Spec => []TypeOK
BY InitTypes, StepTypes, PTL DEF Spec

-----------------------------------------------------------------------------
(* The inductive invariant *)

TableText == Of("dag_task_table", None)

\* What add-question is about to record is in the store of blobs.
AdderSound ==
  /\ adder \in {"create", "note_problem"} => Problem.content \in blobs
  /\ adder \in {"register", "note_table"} => TableText \in blobs

\* What a worker is about to record is in the store of blobs, what it is about to
\* commit in the registry, and past the check there is a table.
Sound(w) ==
  /\ worker[w].step \in {"register", "note_table"} => TableText \in blobs
  /\ worker[w].step \in {"note", "commit"} => Produced(w) \subseteq blobs
  /\ worker[w].step = "commit" => Records(w) \subseteq registry
  /\ worker[w].step \in {"note_table", "read", "claim"} => Tables # {}

Inv ==
  /\ TypeOK
  /\ RecordsHaveBlobs /\ RowsAreOfTheCommit
  /\ activity.attempts > 0 => Tables # {}
  /\ AdderSound /\ \A w \in Worker : Sound(w)

\* The invariant holds of an empty question.
LEMMA InitInv == Init => Inv
<1>1. Init => TypeOK
  BY InitTypes
<1>2. Init => RecordsHaveBlobs /\ RowsAreOfTheCommit /\ AdderSound /\ activity.attempts = 0
  BY DEF Init, RecordsHaveBlobs, RowsAreOfTheCommit, AdderSound
<1>3. Init => \A w \in Worker : Sound(w)
  BY DEF Init, Sound, Blank
<1>4. QED BY <1>1, <1>2, <1>3 DEF Inv

\* What the records of the problem and of a task table say.
LEMMA TableContent ==
  /\ Problem.content = Of("problem", None) /\ Problem.attempt = 0
  /\ \A who : Table(who).content = TableText /\ Table(who).attempt = 0
                 /\ Table(who).content.kind = "dag_task_table"
BY DEF Problem, Table, Made, Of, TableText

\* What the record of a content a worker produced says.
LEMMA RecordFields ==
  ASSUME NEW w \in Worker, NEW r \in Records(w)
  PROVE  r.content \in Produced(w) /\ r.attempt = worker[w].attempt
BY DEF Records, Made

\* Rows are only added.
LEMMA TablesStay == rows \subseteq rows' => Tables \subseteq Tables'
BY DEF Tables

\* A worker that does nothing stays sound while the tables grow.
LEMMA SoundStays ==
  ASSUME NEW v \in Worker, Sound(v),
         blobs \subseteq blobs', registry \subseteq registry', rows \subseteq rows',
         activity'.stage = activity.stage,
         worker'[v].step = worker[v].step, worker'[v].attempt = worker[v].attempt,
         worker'[v].source = worker[v].source, worker'[v].ran = worker[v].ran,
         worker'[v].outputs = worker[v].outputs
  PROVE  Sound(v)'
<1>1. Produced(v)' = Produced(v)
  BY DEF Produced
<1>2. Records(v)' = Records(v)
  BY <1>1 DEF Records
<1>3. Tables \subseteq Tables'
  BY TablesStay
<1>4. QED BY <1>1, <1>2, <1>3 DEF Sound

\* So do the tables themselves, when no row is added and the activity stays.
LEMMA RowsStay ==
  ASSUME Inv, TypeOK', blobs \subseteq blobs', registry \subseteq registry', rows' = rows,
         \A r \in registry' : r \in registry \/ r.content \in blobs',
         activity.status = "succeeded" =>
           activity'.status = "succeeded" /\ activity'.attempts = activity.attempts,
         activity.attempts = 0 => activity'.attempts = 0 \/ Tables # {}
  PROVE  /\ RecordsHaveBlobs' /\ RowsAreOfTheCommit'
         /\ activity'.attempts > 0 => Tables' # {}
<1>1. RecordsHaveBlobs'
  BY DEF Inv, RecordsHaveBlobs
<1>2. RowsAreOfTheCommit'
  BY DEF Inv, RowsAreOfTheCommit
<1>3. activity.attempts \in Nat /\ activity'.attempts \in Nat
  BY DEF Inv, TypeOK
<1>4. activity'.attempts > 0 => Tables' # {}
  BY <1>3, TablesStay DEF Inv
<1>5. QED BY <1>1, <1>2, <1>4

\* add-question writes the bytes of a record before the record.
LEMMA AddKeeps ==
  ASSUME Inv, TypeOK', AddStep
  PROVE  Inv'
<1> USE TableContent
<1>1. blobs \subseteq blobs' /\ registry \subseteq registry' /\ rows \subseteq rows'
  BY DEF AddStep, PutsTable, Put
<1>2. UNCHANGED <<activity, worker>>
  BY DEF AddStep
<1>3. \A v \in Worker : Sound(v)'
  BY <1>1, <1>2, SoundStays DEF Inv
<1>4. AdderSound'
  BY <1>1 DEF AddStep, PutsTable, Put, Inv, AdderSound
<1>5. \A r \in (rows' \ rows) \cup (registry' \ registry) : r.content \in blobs'
  BY DEF AddStep, PutsTable, Put, Inv, AdderSound
<1>6. RecordsHaveBlobs'
  BY <1>1, <1>5 DEF Inv, RecordsHaveBlobs
<1>7. \A r \in rows' \ rows : r.attempt = 0
  BY DEF AddStep, PutsTable
<1>8. RowsAreOfTheCommit'
  BY <1>1, <1>2, <1>7 DEF Inv, RowsAreOfTheCommit
<1>9. activity'.attempts > 0 => Tables' # {}
  BY <1>1, <1>2, TablesStay DEF Inv
<1>10. QED BY <1>3, <1>4, <1>6, <1>8, <1>9 DEF Inv

\* What a worker that goes on to a step still holds.
LEMMA GoesToFacts ==
  ASSUME TypeOK, NEW w \in Worker, NEW step, GoesTo(w, step)
  PROVE  /\ worker'[w].step = step
         /\ worker'[w].attempt = worker[w].attempt /\ worker'[w].source = worker[w].source
         /\ worker'[w].ran = worker[w].ran /\ worker'[w].outputs = worker[w].outputs
         /\ \A v \in Worker \ {w} : worker'[v] = worker[v]
BY MemoryOf DEF GoesTo, TypeOK, Memory

\* A worker that leaves holds nothing.
LEMMA LeavesFacts ==
  ASSUME TypeOK, NEW w \in Worker, Leaves(w)
  PROVE  Sound(w)' /\ \A v \in Worker \ {w} : worker'[v] = worker[v]
<1>1. worker'[w] = Blank /\ \A v \in Worker \ {w} : worker'[v] = worker[v]
  BY DEF Leaves, TypeOK
<1>2. QED BY <1>1 DEF Sound, Blank

\* Steps that only read the tables.
LEMMA ReadKeeps ==
  ASSUME Inv, TypeOK', NEW w \in Worker,
         Acquire(w) \/ CheckTable(w) \/ ReadActivity(w)
  PROVE  Inv'
<1>1. UNCHANGED <<blobs, rows, registry, adder, activity>>
  BY DEF Acquire, CheckTable, ReadActivity
<1>2. RecordsHaveBlobs' /\ RowsAreOfTheCommit' /\ AdderSound' /\ Tables' = Tables
  BY <1>1 DEF Inv, RecordsHaveBlobs, RowsAreOfTheCommit, AdderSound, Tables
<1>3. \/ Leaves(w)
      \/ \E step \in {"check", "table", "read", "claim"} :
           GoesTo(w, step) /\ (step \in {"read", "claim"} => Tables # {})
  BY DEF Acquire, CheckTable, ReadActivity, CountTables, NeedsTable, At, Inv, Sound
<1>4. Sound(w)' /\ \A v \in Worker \ {w} : worker'[v] = worker[v]
  <2>1. CASE Leaves(w)
    BY <2>1, LeavesFacts DEF Inv
  <2>2. ASSUME NEW step \in {"check", "table", "read", "claim"},
               GoesTo(w, step), step \in {"read", "claim"} => Tables # {}
        PROVE  Sound(w)' /\ \A v \in Worker \ {w} : worker'[v] = worker[v]
    <3>1. worker'[w].step = step /\ \A v \in Worker \ {w} : worker'[v] = worker[v]
      BY <2>2, GoesToFacts DEF Inv
    <3>2. QED BY <2>2, <3>1, <1>2 DEF Sound
  <2>3. QED BY <1>3, <2>1, <2>2
<1>5. \A v \in Worker : Sound(v)'
  BY <1>1, <1>4, SoundStays DEF Inv
<1>6. QED BY <1>1, <1>2, <1>5 DEF Inv

\* A worker that writes a table has put its bytes, and has a table then.
LEMMA TableKeeps ==
  ASSUME Inv, TypeOK', NEW w \in Worker, MaterializeTable(w)
  PROVE  Inv'
<1> USE TableContent
<1>1. /\ UNCHANGED <<adder, activity>>
      /\ blobs \subseteq blobs' /\ registry \subseteq registry' /\ rows \subseteq rows'
  BY DEF MaterializeTable, Put
<1>2. \A r \in (rows' \ rows) \cup (registry' \ registry) : r = Table(w)
  BY DEF MaterializeTable
<1>3. TableText \in blobs'
  BY DEF MaterializeTable, Put, At, Inv, Sound
<1>4. RecordsHaveBlobs' /\ RowsAreOfTheCommit' /\ AdderSound'
  BY <1>1, <1>2, <1>3 DEF Inv, RecordsHaveBlobs, RowsAreOfTheCommit, AdderSound
<1>5. Tables \subseteq Tables'
  BY <1>1, TablesStay
<1>6. activity'.attempts > 0 => Tables' # {}
  BY <1>1, <1>5 DEF Inv
<1>7. CASE At(w, "table")
  <2>1. GoesTo(w, "register")
    BY <1>7 DEF MaterializeTable, At
  <2>2. worker'[w].step = "register" /\ \A v \in Worker \ {w} : worker'[v] = worker[v]
    BY <2>1, GoesToFacts DEF Inv
  <2>3. Sound(w)'
    BY <2>2, <1>3 DEF Sound
  <2>4. QED BY <1>1, <1>4, <1>6, <2>2, <2>3, SoundStays DEF Inv
<1>8. CASE At(w, "register")
  <2>1. GoesTo(w, "note_table") /\ rows' = rows \cup {Table(w)}
    BY <1>8 DEF MaterializeTable, At
  <2>2. worker'[w].step = "note_table" /\ \A v \in Worker \ {w} : worker'[v] = worker[v]
    BY <2>1, GoesToFacts DEF Inv
  <2>3. Table(w) \in Tables'
    BY <2>1 DEF Tables
  <2>4. Sound(w)'
    BY <2>2, <2>3, <1>3 DEF Sound
  <2>5. QED BY <1>1, <1>4, <1>6, <2>2, <2>4, SoundStays DEF Inv
<1>9. CASE At(w, "note_table")
  <2>1. CountTables(w) /\ UNCHANGED rows
    BY <1>9 DEF MaterializeTable, At
  <2>2. Tables # {}
    BY <1>9 DEF At, Inv, Sound
  <2>3. Sound(w)' /\ \A v \in Worker \ {w} : worker'[v] = worker[v]
    <3>1. CASE Leaves(w)
      BY <3>1, LeavesFacts DEF Inv
    <3>2. CASE GoesTo(w, "read")
      <4>1. worker'[w].step = "read" /\ \A v \in Worker \ {w} : worker'[v] = worker[v]
        BY <3>2, GoesToFacts DEF Inv
      <4>2. QED BY <4>1, <2>2, <1>5 DEF Sound
    <3>3. QED BY <2>1, <3>1, <3>2 DEF CountTables
  <2>4. QED BY <1>1, <1>4, <1>6, <2>3, SoundStays DEF Inv
<1>10. QED BY <1>7, <1>8, <1>9 DEF MaterializeTable

\* A step of a worker that leaves the tables and the adder alone, and does to the
\* activity no more than claim, fail or lapse it.
LEMMA OthersKeep ==
  ASSUME Inv, TypeOK', NEW w \in Worker, UNCHANGED <<rows, registry, adder>>,
         blobs \subseteq blobs', activity'.stage = activity.stage,
         activity.status = "succeeded" =>
           activity'.status = "succeeded" /\ activity'.attempts = activity.attempts,
         activity.attempts = 0 => activity'.attempts = 0 \/ Tables # {},
         Sound(w)',
         \A v \in Worker \ {w} :
           /\ worker'[v].step = worker[v].step /\ worker'[v].attempt = worker[v].attempt
           /\ worker'[v].source = worker[v].source /\ worker'[v].ran = worker[v].ran
           /\ worker'[v].outputs = worker[v].outputs
  PROVE  Inv'
<1>1. /\ RecordsHaveBlobs' /\ RowsAreOfTheCommit'
      /\ activity'.attempts > 0 => Tables' # {}
  BY RowsStay
<1>2. AdderSound'
  BY DEF Inv, AdderSound
<1>3. \A v \in Worker : Sound(v)'
  BY SoundStays DEF Inv
<1>4. QED BY <1>1, <1>2, <1>3 DEF Inv

\* A claim is made by a worker that saw a table.
LEMMA ClaimKeeps ==
  ASSUME Inv, TypeOK', NEW w \in Worker, Claim(w)
  PROVE  Inv'
<1>1. UNCHANGED <<blobs, rows, registry, adder>> /\ Tables # {}
  BY DEF Claim, At, Inv, Sound
<1>2. /\ activity'.stage = activity.stage
      /\ activity.status = "succeeded" => activity' = activity
  BY DEF Claim, Inv, TypeOK
<1>3. Sound(w)' /\ \A v \in Worker \ {w} : worker'[v] = worker[v]
  <2>1. CASE Leaves(w)
    BY <2>1, LeavesFacts DEF Inv
  <2>2. ASSUME NEW attempt, Begins(w, attempt)
        PROVE  Sound(w)' /\ \A v \in Worker \ {w} : worker'[v] = worker[v]
    <3>1. worker'[w].step = "agent" /\ \A v \in Worker \ {w} : worker'[v] = worker[v]
      BY <2>2 DEF Begins, Inv, TypeOK, Memory
    <3>2. QED BY <3>1 DEF Sound
  <2>3. Leaves(w) \/ \E attempt : Begins(w, attempt)
    BY DEF Claim
  <2>4. QED BY <2>1, <2>2, <2>3
<1>4. QED BY <1>1, <1>2, <1>3, OthersKeep

\* In the agent and the sandbox nothing is recorded.
LEMMA RunKeeps ==
  ASSUME Inv, TypeOK', NEW w \in Worker, Agent(w) \/ Sandboxed(w)
  PROVE  Inv'
<1>1. UNCHANGED <<blobs, rows, registry, adder, activity>>
  BY DEF Agent, Sandboxed, Prepare, StartProcess, EndProcess, RemoveWorkspace
<1> DEFINE Quiet == {"prepare", "start", "run", "remove", "put", "fail"}
           OtherMemory ==
             \A v \in Worker \ {w} :
               /\ worker'[v].step = worker[v].step /\ worker'[v].attempt = worker[v].attempt
               /\ worker'[v].source = worker[v].source /\ worker'[v].ran = worker[v].ran
               /\ worker'[v].outputs = worker[v].outputs
<1>2. CASE Agent(w) \/ Prepare(w) \/ StartProcess(w) \/ EndProcess(w)
  <2>1. ASSUME NEW step \in Quiet, GoesTo(w, step) PROVE worker'[w].step \in Quiet /\ OtherMemory
    BY <2>1, GoesToFacts DEF Inv
  <2>2. worker \in [Worker -> Memory]
    BY DEF Inv, TypeOK
  <2>3. ASSUME Agent(w) PROVE worker'[w].step \in Quiet /\ OtherMemory
    BY <2>1, <2>2, <2>3 DEF Agent, Memory
  <2>4. ASSUME Prepare(w) PROVE worker'[w].step \in Quiet /\ OtherMemory
    BY <2>1, <2>4 DEF Prepare
  <2>5. ASSUME StartProcess(w) PROVE worker'[w].step \in Quiet /\ OtherMemory
    BY <2>2, <2>5 DEF StartProcess, Memory
  <2>6. ASSUME EndProcess(w) PROVE worker'[w].step \in Quiet /\ OtherMemory
    BY <2>2, <2>6 DEF EndProcess, Memory
  <2>7. worker'[w].step \in Quiet /\ OtherMemory
    BY <1>2, <2>3, <2>4, <2>5, <2>6
  <2>8. Sound(w)'
    BY <2>7 DEF Sound
  <2>9. QED BY <1>1, <2>7, <2>8, OthersKeep
<1>3. CASE RemoveWorkspace(w)
  <2>1. worker'[w].step = "put" /\ OtherMemory
    BY <1>3 DEF RemoveWorkspace, Inv, TypeOK, Memory
  <2>2. Sound(w)'
    BY <2>1 DEF Sound
  <2>3. QED BY <1>1, <2>1, <2>2, OthersKeep
<1>4. QED BY <1>2, <1>3 DEF Sandboxed

\* Bytes of an answer are only added, and a failure commits nothing.
LEMMA PutKeeps ==
  ASSUME Inv, TypeOK', NEW w \in Worker,
         PutResponse(w) \/ HeartbeatFails(w) \/ FailActivity(w)
  PROVE  Inv'
<1>1. UNCHANGED <<rows, registry, adder>> /\ blobs \subseteq blobs'
  BY DEF PutResponse, HeartbeatFails, FailActivity, Put
<1>2. /\ activity'.stage = activity.stage /\ activity'.attempts = activity.attempts
      /\ activity.status = "succeeded" => activity' = activity
  BY DEF PutResponse, HeartbeatFails, FailActivity, Holds, Inv, TypeOK
<1>3. CASE GoesTo(w, "fail")
  <2>1. worker'[w].step = "fail" /\ \A v \in Worker \ {w} : worker'[v] = worker[v]
    BY <1>3, GoesToFacts DEF Inv
  <2>2. Sound(w)'
    BY <2>1 DEF Sound
  <2>3. QED BY <1>1, <1>2, <2>1, <2>2, OthersKeep
<1>4. CASE GoesTo(w, "note") /\ Put(Produced(w)) /\ UNCHANGED activity
  <2>1. /\ worker'[w].step = "note" /\ worker'[w].source = worker[w].source
        /\ worker'[w].ran = worker[w].ran /\ worker'[w].outputs = worker[w].outputs
        /\ \A v \in Worker \ {w} : worker'[v] = worker[v]
    BY <1>4, GoesToFacts DEF Inv
  <2>2. Produced(w)' = Produced(w)
    BY <1>4, <2>1 DEF Produced
  <2>3. Sound(w)'
    BY <1>4, <2>1, <2>2 DEF Sound, Put
  <2>4. QED BY <1>1, <1>2, <2>1, <2>3, OthersKeep
<1>5. CASE Leaves(w)
  BY <1>1, <1>2, <1>5, LeavesFacts, OthersKeep DEF Inv
<1>6. QED BY <1>3, <1>4, <1>5 DEF PutResponse, HeartbeatFails, FailActivity

\* A worker notes records of contents that it has put.
LEMMA NoteKeeps ==
  ASSUME Inv, TypeOK', NEW w \in Worker, NoteResponse(w)
  PROVE  Inv'
<1>1. /\ UNCHANGED <<blobs, rows, adder, activity>> /\ registry' = registry \cup Records(w)
      /\ At(w, "note") /\ GoesTo(w, "commit")
  BY DEF NoteResponse, Noted
<1>2. /\ worker'[w].step = "commit"
      /\ worker'[w].attempt = worker[w].attempt /\ worker'[w].source = worker[w].source
      /\ worker'[w].ran = worker[w].ran /\ worker'[w].outputs = worker[w].outputs
      /\ \A v \in Worker \ {w} : worker'[v] = worker[v]
  BY <1>1, GoesToFacts DEF Inv
<1>3. Produced(w)' = Produced(w) /\ Records(w)' = Records(w) /\ Produced(w) \subseteq blobs
  BY <1>1, <1>2 DEF Produced, Records, At, Inv, Sound
<1>4. Sound(w)'
  BY <1>1, <1>2, <1>3 DEF Sound
<1>5. \A v \in Worker : Sound(v)'
  BY <1>1, <1>2, <1>4, SoundStays DEF Inv
<1>6. \A r \in registry' : r \in registry \/ r.content \in blobs'
  BY <1>1, <1>3, RecordFields
<1>7. /\ RecordsHaveBlobs' /\ RowsAreOfTheCommit'
      /\ activity'.attempts > 0 => Tables' # {}
  BY <1>1, <1>6, RowsStay
<1>8. AdderSound'
  BY <1>1 DEF Inv, AdderSound
<1>9. QED BY <1>5, <1>7, <1>8 DEF Inv

\* The commit: no row of the activity was there before, as it was running.
LEMMA CommitKeeps ==
  ASSUME Inv, TypeOK', NEW w \in Worker, Commit(w)
  PROVE  Inv'
<1>1. /\ UNCHANGED <<blobs, registry, adder>> /\ Leaves(w)
      /\ Produced(w) \subseteq blobs /\ Records(w) \subseteq registry
  BY DEF Commit, At, Inv, Sound
<1>2. Sound(w)' /\ \A v \in Worker \ {w} : worker'[v] = worker[v]
  BY <1>1, LeavesFacts DEF Inv
<1>3. CASE ~Holds(w)
  <2>1. UNCHANGED <<rows, activity>>
    BY <1>3 DEF Commit
  <2>2. QED BY <1>1, <1>2, <2>1, OthersKeep
<1>4. CASE Holds(w)
  <2>1. /\ rows' = rows \cup Records(w)
        /\ activity' = [activity EXCEPT !.status = "succeeded", !.worker = None]
    BY <1>4 DEF Commit
  <2>2. /\ activity'.status = "succeeded" /\ activity'.stage = activity.stage
        /\ activity'.attempts = activity.attempts
    BY <2>1 DEF Inv, TypeOK
  <2>3. activity.status = "running" /\ activity.attempts = worker[w].attempt
    BY <1>4 DEF Holds
  <2>4. \A v \in Worker : Sound(v)'
    BY <1>1, <1>2, <2>1, <2>2, SoundStays DEF Inv
  <2>5. RecordsHaveBlobs'
    BY <1>1, <2>1, RecordFields DEF Inv, RecordsHaveBlobs
  <2>6. RowsAreOfTheCommit'
    BY <1>1, <2>1, <2>2, <2>3, RecordFields DEF Inv, RowsAreOfTheCommit
  <2>7. activity'.attempts > 0 => Tables' # {}
    BY <2>1, <2>2, TablesStay DEF Inv
  <2>8. AdderSound'
    BY <1>1 DEF Inv, AdderSound
  <2>9. QED BY <2>4, <2>5, <2>6, <2>7, <2>8 DEF Inv
<1>5. QED BY <1>3, <1>4

\* A lease lapses, or a process ends.
LEMMA OtherKeeps ==
  ASSUME Inv, TypeOK', Lapse \/ AdderCrash \/ \E w \in Worker : WorkerCrash(w)
  PROVE  Inv'
<1>1. UNCHANGED <<blobs, rows, registry>>
  BY DEF Lapse, AdderCrash, WorkerCrash
<1>2. /\ activity'.stage = activity.stage /\ activity'.attempts = activity.attempts
      /\ activity'.status = activity.status
  BY DEF Lapse, AdderCrash, WorkerCrash, Inv, TypeOK
<1>3. RecordsHaveBlobs' /\ RowsAreOfTheCommit' /\ Tables' = Tables
  BY <1>1, <1>2 DEF Inv, RecordsHaveBlobs, RowsAreOfTheCommit, Tables
<1>4. AdderSound'
  BY <1>1 DEF Lapse, AdderCrash, WorkerCrash, Inv, AdderSound
<1>5. \A v \in Worker : worker'[v] = worker[v] \/ worker'[v] = Blank
  BY DEF Lapse, AdderCrash, WorkerCrash, Inv, TypeOK
<1>6. \A v \in Worker : Sound(v)'
  <2>1. ASSUME NEW v \in Worker, worker'[v] = Blank PROVE Sound(v)'
    BY <2>1 DEF Sound, Blank
  <2>2. QED BY <1>1, <1>2, <1>5, <2>1, SoundStays DEF Inv
<1>7. QED BY <1>2, <1>3, <1>4, <1>6 DEF Inv

\* Every step keeps it.
LEMMA StepKeeps == Inv /\ [Next]_vars => Inv'
<1>1. ASSUME Inv, [Next]_vars PROVE TypeOK'
  BY <1>1, StepTypes DEF Inv
<1>2. ASSUME Inv, TypeOK', NEW w \in Worker, WorkerStep(w) PROVE Inv'
  BY <1>2, ReadKeeps, TableKeeps, ClaimKeeps, RunKeeps, PutKeeps, NoteKeeps, CommitKeeps
  DEF WorkerStep
<1>3. ASSUME Inv, UNCHANGED vars PROVE Inv'
  <2> USE <1>3 DEF vars
  <2>1. TypeOK'
    BY DEF Inv, TypeOK
  <2>2. RecordsHaveBlobs' /\ RowsAreOfTheCommit'
    BY DEF Inv, RecordsHaveBlobs, RowsAreOfTheCommit
  <2>3. Tables' = Tables /\ AdderSound'
    BY DEF Inv, AdderSound, Tables
  <2>4. ASSUME NEW w \in Worker PROVE Sound(w)'
    BY DEF Inv, Sound, Tables, Records, Produced
  <2>5. QED BY <2>1, <2>2, <2>3, <2>4 DEF Inv
<1>4. QED BY <1>1, <1>2, <1>3, AddKeeps, OtherKeeps DEF Next

\* It is an invariant of the specification.
LEMMA ArtifactInvariant == Spec => []Inv
BY InitInv, StepKeeps, PTL DEF Spec

-----------------------------------------------------------------------------
(* What it gives *)

\* Whatever crashed and whichever attempts raced, the bytes of every record are
\* in the store (put_bytes() comes before every insert).
THEOREM ArtifactsHaveBlobs == Spec => []RecordsHaveBlobs
<1>1. Inv => RecordsHaveBlobs BY DEF Inv
<1>2. QED BY <1>1, ArtifactInvariant, PTL

\* Late attempts leave no row, and what is committed is in both tables
\* (complete_activity(), _materialize_response()).
THEOREM ArtifactsAreOfTheCommit == Spec => []RowsAreOfTheCommit
<1>1. Inv => RowsAreOfTheCommit BY DEF Inv
<1>2. QED BY <1>1, ArtifactInvariant, PTL

\* No attempt is made for a question without a readable task table
\* (_ensure_valid_dag_task_table()).
THEOREM ArtifactWorkHasTable == Spec => []WorkHasTable
<1>1. Inv => WorkHasTable
  BY DEF Inv, WorkHasTable, RecordsHaveBlobs, Tables
<1>2. QED BY <1>1, ArtifactInvariant, PTL
=============================================================================
