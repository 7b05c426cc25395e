----------------------------- MODULE ToolRuntime -----------------------------
(***************************************************************************)
(* ToolRuntime.execute (tools.py) over SQLiteToolExecutionStore            *)
(* (tool_runs.py): at most one recorded result per idempotency key.        *)
(*                                                                         *)
(* A call is one run of execute, in a thread of its process, and is its    *)
(* own lease token.  Calls of a process share its result cache and the     *)
(* lock of its runtime, which is held from the lookup to the reservation.  *)
(* Processes share the table of runs.  Time is counted in ticks.           *)
(***************************************************************************)
EXTENDS Integers

CONSTANTS
  Process,      \* processes, each with a ToolRuntime of its own
  Call,         \* runs of execute()
  ProcessOf,    \* the process each call is made in
  Key,          \* idempotency keys, prefixed with the tool's name and version
  Output,       \* what the handler of the tool may return
  LeaseTicks,   \* idempotency_lease_seconds, in ticks
  HasTimeout,   \* the tool's timeout_seconds is not None
  MaxFaults,    \* bound: process crashes and SQLite errors in a behaviour
  None

ASSUME ProcessAssumption == ProcessOf \in [Call -> Process]
ASSUME TickAssumption == LeaseTicks \in Nat \ {0} /\ MaxFaults \in Nat /\ HasTimeout \in BOOLEAN

Failure == "tool_execution_error"
Result == Output \cup {Failure}

\* None is no call, no key and no result; Failure is no output.
ASSUME ValueAssumption ==
  None \notin Call \cup Key \cup Output \cup {Failure} /\ Failure \notin Output

VARIABLES
  runs,      \* table m2_tool_runs, by key
  cache,     \* _completed, by process and key
  pc,        \* where in execute() each call is, or how it returned
  key,       \* the key it was made with
  result,    \* its result, once it has one
  age,       \* ticks since its reservation, up to Lapsed
  handling,  \* its handler is running in the pool thread
  faults     \* crashes and SQLite errors so far

vars == <<runs, cache, pc, key, result, age, handling, faults>>

-----------------------------------------------------------------------------
(* Rows, labels *)

Run == [status : {"absent", "running", "completed"},
        token : Call \cup {None}, result : Result \cup {None}]
AbsentRun == [status |-> "absent", token |-> None, result |-> None]

Inside == {"calling", "reserving", "executing", "answered", "storing", "losing"}
Returned == {"refused", "cached", "stored", "lost"}
Label == {"new", "dead"} \cup Inside \cup Returned

\* The reservation of a call is older than the lease.
Lapsed == LeaseTicks + 1
HasLapsed(c) == age[c] > LeaseTicks

\* No other call of the process is between its lookup and its reservation.
Unlocked(c) == \A d \in Call : ProcessOf[d] = ProcessOf[c] => pc[d] # "reserving"

Goto(c, label) == pc' = [pc EXCEPT ![c] = label]

\* An exception of SQLite, as rare as a crash.
Fault == faults < MaxFaults /\ faults' = faults + 1

-----------------------------------------------------------------------------
(* One call *)

\* The tool is unknown, not granted or not allowed: nothing is touched.
Begin(c, k) ==
  /\ pc[c] = "new"
  /\ key' = [key EXCEPT ![c] = k]
  /\ Goto(c, "calling") \/ Goto(c, "refused")
  /\ UNCHANGED <<runs, cache, result, age, handling, faults>>

\* The cache of the process, then lookup(); the lock is kept if both are empty.
Known(p, k) == IF cache[p][k] # None THEN cache[p][k]
               ELSE IF runs[k].status = "completed" THEN runs[k].result ELSE None

Lookup(c) ==
  LET known == Known(ProcessOf[c], key[c])
  IN /\ pc[c] = "calling" /\ Unlocked(c)
     /\ \/ /\ known # None
           /\ result' = [result EXCEPT ![c] = known]
           /\ Goto(c, "cached")
           /\ UNCHANGED faults
        \/ known = None /\ Goto(c, "reserving") /\ UNCHANGED <<result, faults>>
        \/ cache[ProcessOf[c]][key[c]] = None /\ Fault /\ Goto(c, "refused") /\ UNCHANGED result
     /\ UNCHANGED <<runs, cache, key, age, handling>>

\* reserve(): a key nobody has, or one whose reservation is older than the lease.
\* A key completed since the lookup is refused like one that is running.
\* Mutants: completed rows lapse like running ones; running rows lapse at once.
FreeByAge(k) == runs[k].status # "absent" => HasLapsed(runs[k].token)
FreeUnlessCompleted(k) == runs[k].status # "completed"
Free(k) == \/ runs[k].status = "absent"
           \/ runs[k].status = "running" /\ HasLapsed(runs[k].token)

Reserve(c) ==
  /\ pc[c] = "reserving"
  /\ \/ /\ Free(key[c])
        /\ runs' = [runs EXCEPT ![key[c]] =
                      [status |-> "running", token |-> c, result |-> None]]
        /\ age' = [age EXCEPT ![c] = 0]
        /\ handling' = [handling EXCEPT ![c] = TRUE]
        /\ Goto(c, "executing")
        /\ UNCHANGED faults
     \/ ~Free(key[c]) /\ Goto(c, "refused") /\ UNCHANGED <<runs, age, handling, faults>>
     \/ Fault /\ Goto(c, "refused") /\ UNCHANGED <<runs, age, handling>>
  /\ UNCHANGED <<cache, key, result>>

\* The handler returns or raises, and the middleware makes it the result.
HandlerEnds(c) ==
  /\ pc[c] = "executing"
  /\ \E r \in Result : result' = [result EXCEPT ![c] = r]
  /\ handling' = [handling EXCEPT ![c] = FALSE]
  /\ Goto(c, "answered")
  /\ UNCHANGED <<runs, cache, key, age, faults>>

\* Mutant: a timeout leaves the call without a result.
HandlerTimesOutSilently(c) ==
  /\ pc[c] = "executing" /\ HasTimeout
  /\ Goto(c, "answered")
  /\ UNCHANGED <<runs, cache, key, result, age, handling, faults>>

\* The result is a failure, and the handler goes on in its thread.
HandlerTimesOut(c) ==
  /\ pc[c] = "executing" /\ HasTimeout
  /\ result' = [result EXCEPT ![c] = Failure]
  /\ Goto(c, "answered")
  /\ UNCHANGED <<runs, cache, key, age, handling, faults>>

HandlerUnwinds(c) ==
  /\ pc[c] # "executing" /\ handling[c]
  /\ handling' = [handling EXCEPT ![c] = FALSE]
  /\ UNCHANGED <<runs, cache, pc, key, result, age, faults>>

\* The result is known to the process before the store has accepted it.
CacheResult(c) ==
  /\ pc[c] = "answered" /\ Unlocked(c)
  /\ cache' = [cache EXCEPT ![ProcessOf[c]][key[c]] = result[c]]
  /\ Goto(c, "storing")
  /\ UNCHANGED <<runs, key, result, age, handling, faults>>

\* complete(): the UPDATE of a row that is running under this call's token.
\* Mutant: the UPDATE does not compare the token.
IsRunning(c) == runs[key[c]].status = "running"
HoldsToken(c) == runs[key[c]].status = "running" /\ runs[key[c]].token = c

CompletedRun(run, r) == [run EXCEPT !.status = "completed", !.result = r]

Record(c) ==
  /\ pc[c] = "storing"
  /\ \/ /\ HoldsToken(c)
        /\ runs' = [runs EXCEPT ![key[c]] = CompletedRun(@, result[c])]
        /\ Goto(c, "stored")
        /\ UNCHANGED faults
     \/ ~HoldsToken(c) /\ Goto(c, "losing") /\ UNCHANGED <<runs, faults>>
     \/ Fault /\ Goto(c, "losing") /\ UNCHANGED runs
  /\ UNCHANGED <<cache, key, result, age, handling>>

\* The lease was lost: the cached result is withdrawn, whoever cached it.
Withdraw(c) ==
  /\ pc[c] = "losing" /\ Unlocked(c)
  /\ cache' = [cache EXCEPT ![ProcessOf[c]][key[c]] = None]
  /\ Goto(c, "lost")
  /\ UNCHANGED <<runs, key, result, age, handling, faults>>

-----------------------------------------------------------------------------
(* The environment *)

Crash(p) ==
  /\ \E c \in Call : ProcessOf[c] = p /\ pc[c] \in Inside
  /\ Fault
  /\ pc' = [c \in Call |-> IF ProcessOf[c] = p /\ pc[c] \in Inside THEN "dead" ELSE pc[c]]
  /\ handling' = [c \in Call |-> handling[c] /\ ProcessOf[c] # p]
  /\ cache' = [cache EXCEPT ![p] = [k \in Key |-> None]]
  /\ UNCHANGED <<runs, key, result, age>>

Tick ==
  /\ age' = [c \in Call |-> IF age[c] < Lapsed THEN age[c] + 1 ELSE Lapsed]
  /\ UNCHANGED <<runs, cache, pc, key, result, handling, faults>>

-----------------------------------------------------------------------------
(* The specification *)

Init ==
  /\ runs = [k \in Key |-> AbsentRun]
  /\ cache = [p \in Process |-> [k \in Key |-> None]]
  /\ pc = [c \in Call |-> "new"]
  /\ key = [c \in Call |-> None]
  /\ result = [c \in Call |-> None]
  /\ age = [c \in Call |-> Lapsed]
  /\ handling = [c \in Call |-> FALSE]
  /\ faults = 0

Execute(c) ==
  \/ Lookup(c) \/ Reserve(c)
  \/ HandlerEnds(c) \/ HandlerTimesOut(c) \/ HandlerUnwinds(c)
  \/ CacheResult(c) \/ Record(c) \/ Withdraw(c)

Next ==
  \/ \E c \in Call : Execute(c) \/ \E k \in Key : Begin(c, k)
  \/ \E p \in Process : Crash(p)
  \/ Tick

Spec == Init /\ [][Next]_vars

-----------------------------------------------------------------------------
(* Properties *)

\* Type correctness: rows, cache and calls keep to their domains, and a call
\* that went past its first statement has a key.
TypeOK ==
  /\ runs \in [Key -> Run]
  /\ cache \in [Process -> [Key -> Result \cup {None}]]
  /\ pc \in [Call -> Label]
  /\ key \in [Call -> Key \cup {None}]
  /\ \A c \in Call : pc[c] # "new" => key[c] \in Key
  /\ result \in [Call -> Result \cup {None}]
  /\ \A c \in Call : pc[c] \in {"answered", "storing", "stored"} => result[c] \in Result
  /\ age \in [Call -> 0..Lapsed]
  /\ handling \in [Call -> BOOLEAN]
  /\ faults \in 0..MaxFaults

\* "Completed results are immutable for the lifetime of the key": no late
\* completion, second reservation or crash changes a completed row.
CompletedIsImmutable ==
  [][\A k \in Key : runs[k].status = "completed" => runs'[k] = runs[k]]_vars

\* A result the store accepted stays the result of its key, under the token of
\* the call that recorded it; so no two calls of a key record a result.
StoredIsRecorded ==
  \A c \in Call :
    pc[c] = "stored" => runs[key[c]] = [status |-> "completed", token |-> c,
                                        result |-> result[c]]

\* Two handlers of one key run at once only when one outlived its lease, the
\* timed out ones that nobody waits for and those of other processes included.
OneHandlerPerLease ==
  \A c, d \in Call :
    /\ c # d /\ key[c] = key[d]
    /\ handling[c] /\ handling[d]
    => HasLapsed(c) \/ HasLapsed(d)

\* A caller is never given an earlier result that is not the recorded one.
CachedAgreesWithRecord ==
  \A c \in Call :
    /\ pc[c] = "cached"
    /\ runs[key[c]].status = "completed"
    => runs[key[c]].result = result[c]
=============================================================================
