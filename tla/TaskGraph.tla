------------------------------ MODULE TaskGraph ------------------------------
(* The task table of the Main Harness (domain/dag.py): what DAGTaskTable      *)
(* accepts, and the order it gives its tasks.                                 *)
(*                                                                            *)
(* A task id is a natural number, and the order of the numbers is the order   *)
(* of the strings.  A table is a sequence of nodes and terminal_task_id; what *)
(* a node says of its work, and of the outputs it wants, is left out.         *)
EXTENDS Naturals, Sequences, FiniteSetsExt, SequencesExt

Ids(t) == {t.tasks[i].id : i \in DOMAIN t.tasks}
Node(t, n) == t.tasks[CHOOSE i \in DOMAIN t.tasks : t.tasks[i].id = n]
Parents(t, n) == ToSet(Node(t, n).depends_on)
Children(t, n) == {m \in Ids(t) : n \in Parents(t, m)}

-----------------------------------------------------------------------------
(* topological_order() *)

\* How often a task names a dependency: each time counts in its indegree.
Times(t, n, m) == Cardinality({i \in DOMAIN Node(t, m).depends_on : Node(t, m).depends_on[i] = n})

\* A set of ids as a list, with sort().
Sorted(S) ==
  CHOOSE s \in SetToSeqs(S) : \A i, j \in DOMAIN s : i < j => s[i] < s[j]

OrderStart(t) ==
  LET indegree == [n \in Ids(t) |-> Len(Node(t, n).depends_on)]
  IN [order |-> <<>>, indegree |-> indegree,
      ready |-> Sorted({n \in Ids(t) : indegree[n] = 0})]

\* Mutant: the list is not sorted again when a child has become ready.
Queued(ready, children) == ready \o Sorted(children)
Listed(ready, children) == Sorted(ToSet(ready) \cup children)

OrderStep(t, s) ==
  LET current == Head(s.ready)
      indegree == [n \in Ids(t) |-> s.indegree[n] - Times(t, current, n)]
  IN [order |-> Append(s.order, current),
      indegree |-> indegree,
      ready |-> Listed(Tail(s.ready), {n \in Children(t, current) : indegree[n] = 0})]

\* What the loop leaves: a task is taken at most once.
Ordered(t) ==
  LET loop[k \in 0 .. Len(t.tasks)] ==
        IF k = 0 THEN OrderStart(t)
        ELSE LET s == loop[k - 1] IN IF s.ready = <<>> THEN s ELSE OrderStep(t, s)
  IN loop[Len(t.tasks)].order

\* Mutant: the tasks left over are not noticed.
AnyOrder(t) == Ordered(t) # <<>>
HasOrder(t) == Len(Ordered(t)) = Cardinality(Ids(t))

-----------------------------------------------------------------------------
(* The validator *)

\* _reachable_from_roots(): the least set with the roots and the children of
\* its members.
Reachable(t) ==
  LET roots == {n \in Ids(t) : Parents(t, n) = {}}
      grow[k \in 0 .. Len(t.tasks)] ==
        IF k = 0 THEN roots
        ELSE grow[k - 1] \cup UNION {Children(t, n) : n \in grow[k - 1]}
  IN grow[Len(t.tasks)]

KnownParents(t) == \A n \in Ids(t) : Parents(t, n) \subseteq Ids(t) \ {n}

EndsInPublication(t) ==
  /\ t.terminal \in Ids(t)
  /\ Node(t, t.terminal).kind = "publish_latex"
  /\ Children(t, t.terminal) = {}
  /\ {n \in Ids(t) : Node(t, n).terminal} = {t.terminal}

Accepted(t) ==
  /\ Cardinality(Ids(t)) = Len(t.tasks)
  /\ KnownParents(t)
  /\ EndsInPublication(t)
  /\ HasOrder(t)
  /\ Last(Ordered(t)) = t.terminal
  /\ Reachable(t) = Ids(t)

-----------------------------------------------------------------------------
(* canonical_main_harness_dag(): the questions one after the other, and the   *)
(* paper, whose name "publish-paper" comes before "q1".                       *)

Paper == 0

Solve(k) ==
  [id |-> k, kind |-> "solve_problem", terminal |-> FALSE,
   depends_on |-> IF k = 1 THEN <<>> ELSE <<k - 1>>]

Canonical(count) ==
  [tasks |-> Append([k \in 1 .. count |-> Solve(k)],
                    [id |-> Paper, kind |-> "publish_latex", terminal |-> TRUE,
                     depends_on |-> <<count>>]),
   terminal |-> Paper]

-----------------------------------------------------------------------------
(* What the table promises the harness *)

\* No set of tasks waits for itself.
Acyclic(t) ==
  \A set \in SUBSET Ids(t) : set # {} => \E n \in set : Parents(t, n) \cap set = {}

\* The orders with every task after its dependencies.
Extensions(t) ==
  {o \in SetToSeqs(Ids(t)) :
     \A i, j \in DOMAIN o : o[i] \in Parents(t, o[j]) => i < j}

\* As dictionaries do: by the first difference.
Before(a, b) ==
  \E i \in DOMAIN a : a[i] < b[i] /\ \A j \in 1 .. (i - 1) : a[j] = b[j]

IsLeast(t, order) ==
  order \in Extensions(t) /\ \A o \in Extensions(t) : o # order => Before(order, o)

\* No set of tasks before the terminal waits for itself or for a task that
\* dispatch() refuses: it takes solve_problem nodes only, and publish() wants
\* every task before the terminal completed.
CanFinish(t) ==
  \A set \in SUBSET (Ids(t) \ {t.terminal}) : set # {} =>
    \E n \in set : Node(t, n).kind = "solve_problem" /\ Parents(t, n) \cap set = {}

OnlySolves(t) == \A n \in Ids(t) \ {t.terminal} : Node(t, n).kind = "solve_problem"

\* What the operations of the harness rely on, whatever the kinds: known
\* dependencies, and none of a task on itself or on the terminal (IsPlan of
\* module RunStates).
FitsTheHarness(t) ==
  /\ t.terminal \in Ids(t)
  /\ \A n \in Ids(t) : Parents(t, n) \subseteq Ids(t) \ {n, t.terminal}
=============================================================================
