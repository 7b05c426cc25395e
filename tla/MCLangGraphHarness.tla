------------------------- MODULE MCLangGraphHarness -------------------------
EXTENDS LangGraphHarness, TLC

CONSTANTS q1, q2, q3, paper

Does(deps) == [deps |-> deps, spec |-> "a"]

\* Two chained problems, and two side by side.
Chain == q1 :> Does({}) @@ q2 :> Does({q1}) @@ paper :> Does({q2})
Split == q1 :> Does({}) @@ q3 :> Does({}) @@ paper :> Does({q1, q3})

Plans == {Chain, Split}
Order == <<q1, q2, q3, paper>>
=============================================================================
