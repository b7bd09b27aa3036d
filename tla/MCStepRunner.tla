---------------------------- MODULE MCStepRunner ----------------------------
(***************************************************************************)
(* Small workflows to check StepRunner on.                                 *)
(***************************************************************************)
EXTENDS StepRunner

\* Two roots that converge on c: both completions may find c ready. The edge from
\* a carries a condition, so a's output may prune c instead.
FanInNodes == {"a", "b", "c"}
FanInEdges == {<<"a", "c">>, <<"b", "c">>}
FanInConditions == {<<"a", "c">>}

\* A chain of two nodes, and two nodes that are each a root and a tail.
PairNodes == {"a", "b"}
PairEdges == {<<"a", "b">>}
NoEdges == {}
=============================================================================
