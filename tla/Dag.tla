-------------------------------- MODULE Dag --------------------------------
(***************************************************************************)
(* The pure graph functions of arbiter/stepRunner/dag.py, over a workflow  *)
(* definition whose node list is Nodes and whose edge list is Edges.       *)
(* A node-status map is a function from Nodes to status strings.           *)
(***************************************************************************)
EXTENDS Integers, FiniteSets

CONSTANTS Nodes,  \* the node ids of the workflow definition
          Edges   \* its edges, a set of pairs <<source, target>>

ASSUME NodesAssumption == IsFiniteSet(Nodes)
ASSUME EdgesAssumption == Edges \subseteq Nodes \X Nodes

\* Mutant: predecessors that were cut off are waited for.
SettledWithoutCuts == {"completed", "skipped"}

\* The status every scheduling decision treats as "this predecessor is done".
Settled == {"completed", "skipped", "unreachable"}

\* The sources of the edges into n: the `predecessors` map both functions build.
Preds(n) == {m \in Nodes : <<m, n>> \in Edges}

\* Execution entry points: the nodes that are the target of no edge.
find_root_nodes == {n \in Nodes : Preds(n) = {}}

\* Mutant: one settled predecessor is taken to be enough.
ready_on_any_predecessor(st) ==
  {n \in Nodes : /\ st[n] = "pending"
                 /\ Preds(n) = {} \/ \E p \in Preds(n) : st[p] \in Settled}

\* Pending nodes all of whose predecessors are settled.
find_ready_nodes(st) ==
  {n \in Nodes : st[n] = "pending" /\ \A p \in Preds(n) : st[p] \in Settled}

\* Mutant: one dead predecessor is taken to be enough.
PassOnAnyPredecessor(dead) ==
  dead \cup {n \in Nodes : Preds(n) \cap dead # {}}

\* One sweep of the `while changed` loop: what dead becomes.
PropagatePass(dead) ==
  dead \cup {n \in Nodes : Preds(n) # {} /\ Preds(n) \subseteq dead}

\* The nodes that become unreachable once initially_skipped are skipped. Every
\* sweep that changes anything adds a node, so |Nodes| sweeps reach the fixpoint.
propagate_skips(initially_skipped) ==
  LET deadAfter[k \in 0..Cardinality(Nodes)] ==
        IF k = 0 THEN initially_skipped ELSE PropagatePass(deadAfter[k - 1])
  IN  {n \in Nodes \ initially_skipped : n \in deadAfter[Cardinality(Nodes)]}
=============================================================================
