--------------------------- MODULE MCMainHarness ---------------------------
EXTENDS MainHarness, TaskGraph

CONSTANTS q1, q2, q3, paper

Does(deps, spec) == [deps |-> deps, spec |-> spec]

\* The canonical chain of two questions, and a plan with its second question
\* replaced by one that depends on nothing.
Chain == q1 :> Does({}, "a") @@ q2 :> Does({q1}, "a") @@ paper :> Does({q2}, "a")
Split == q1 :> Does({}, "a") @@ q3 :> Does({}, "a") @@ paper :> Does({q1, q3}, "a")

\* The chain with the statement of its first question changed.
Reworded == [Chain EXCEPT ![q1].spec = "b"]

OnePlan == {Chain}
ThreePlans == {Chain, Split, Reworded}
TwoWordings == {Chain, Reworded}

Symmetry == Permutations(Driver)

-----------------------------------------------------------------------------
(* Task tables *)

\* Four tasks and the dependencies they name, one of them twice.
Named(i, depends_on) ==
  [id |-> i, depends_on |-> depends_on, terminal |-> i = 4,
   kind |-> IF i = 4 THEN "publish_latex" ELSE "solve_problem"]

Graphs ==
  {[tasks |-> [i \in 1..4 |-> Named(i, deps[i])], terminal |-> 4] :
     deps \in [1..4 -> {<<>>, <<1>>, <<2>>, <<3>>, <<4>>, <<2, 2>>, <<1, 2>>, <<2, 3>>, <<3, 1>>, <<1, 4>>}]}

\* And up to three tasks of any kind, tasks nobody knows, and any marks: three of
\* ids of their own, or fewer that may share one.
Kinds == {"solve_problem", "model", "publish_latex"}
Nodes == [id : 1..3, depends_on : {<<>>, <<1>>, <<2>>, <<3>>}, terminal : BOOLEAN, kind : Kinds]

Lists ==
  [1..1 -> Nodes] \cup [1..2 -> Nodes]
    \cup {nodes \in [1..3 -> Nodes] : \A i \in 1..3 : nodes[i].id = i}

Tables == Graphs \cup {[tasks |-> nodes, terminal |-> 3] : nodes \in Lists}

\* The tables a run may be given, before there is one.  The validator finds a
\* cycle where there is one and nowhere else, and the order of a table is, of
\* those with every task after its dependencies, the first in the dictionary:
\* it depends on the names and not on how the table lists them
\* (DAGTaskTable.topological_order).
OrderIsLeast ==
  saved = None =>
    \A t \in Graphs :
      /\ HasOrder(t) <=> Acyclic(t)
      /\ HasOrder(t) => IsLeast(t, Ordered(t))

\* A table the validator accepts fits the operations of the harness and does not
\* wait for itself, but the harness can finish it only if every task before the
\* paper is a solve_problem: the validator accepts other kinds as well, which
\* dispatch() refuses.  The canonical tables are accepted, and can be finished
\* (DAGTaskTable's validator, dispatch(), canonical_main_harness_dag).
OnlySolvesFinish ==
  saved = None =>
    /\ \A t \in Tables : Accepted(t) =>
         /\ FitsTheHarness(t) /\ Acyclic(t)
         /\ CanFinish(t) <=> OnlySolves(t)
    /\ \A count \in 1..4 : Accepted(Canonical(count)) /\ CanFinish(Canonical(count))
=============================================================================
