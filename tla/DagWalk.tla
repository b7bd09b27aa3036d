------------------------------ MODULE DagWalk ------------------------------
(***************************************************************************)
(* What a workflow run promises: the run of one acyclic workflow in which  *)
(* each completion prunes its false branches in the same step.             *)
(* StepRunner spreads these steps over concurrent handlers; here the pure  *)
(* functions of dag.py are checked against their reference definitions     *)
(* over every small acyclic graph, and along every run of it.              *)
(***************************************************************************)
EXTENDS Integers, FiniteSets

CONSTANT Size  \* the number of nodes

ASSUME SizeAssumption == Size \in Nat \ {0}

Node == 1..Size

VARIABLES edges,   \* the edges of the workflow, smaller node to larger
          conds,   \* those of them that carry a condition
          st       \* the status of every node

vars == <<edges, conds, st>>

INSTANCE Dag WITH Nodes <- Node, Edges <- edges

Forward == {e \in Node \X Node : e[1] < e[2]}

Init ==
  /\ edges \in SUBSET Forward
  /\ conds \in SUBSET edges
  /\ st = [n \in Node |-> "pending"]

\* schedule_frontier dispatches a ready node.
Dispatch ==
  \E n \in find_ready_nodes(st) :
    /\ st' = [st EXCEPT ![n] = "running"]
    /\ UNCHANGED <<edges, conds>>

\* The statuses once the false targets are skipped and what they cut off is marked.
Pruned(status, skips) ==
  LET skipped == [n \in Node |-> IF n \in skips THEN "skipped" ELSE status[n]]
      dead == {n \in Node : skipped[n] \in {"skipped", "unreachable"}}
      cut == IF skips = {} THEN {} ELSE propagate_skips(dead)
  IN  [n \in Node |-> IF n \in cut THEN "unreachable" ELSE skipped[n]]

\* A node completes and _evaluate_and_persist_skips prunes its false branches.
Complete ==
  \E n \in {m \in Node : st[m] = "running"} :
    \E skips \in SUBSET {m \in Node : <<n, m>> \in conds} :
      /\ st' = Pruned([st EXCEPT ![n] = "completed"], skips)
      /\ UNCHANGED <<edges, conds>>

Next == Dispatch \/ Complete

Spec == Init /\ [][Next]_vars

(***************************************************************************)
(* Properties                                                              *)
(***************************************************************************)
Done == {"completed", "skipped", "unreachable"}

\* Whoever holds the live roots and, with a node, its successors that are not dead.
HoldsLive(S, dead) ==
  /\ find_root_nodes \ dead \subseteq S
  /\ \A e \in edges : e[1] \in S /\ e[2] \notin dead => e[2] \in S

\* The nodes a path through live nodes leads to, from a live root: no set that holds
\* the live roots and is closed under live edges can do without them.
LiveFrom(dead) ==
  {n \in Node : \A S \in SUBSET Node : HoldsLive(S, dead) => n \in S}

\* propagate_skips marks exactly the nodes no live path from a live root reaches.
UnreachableIsExact ==
  \A dead \in SUBSET Node :
    propagate_skips(dead) = Node \ (dead \cup LiveFrom(dead))

\* A run is never stranded: while nothing runs and nothing is ready, every node is
\* done. Pruning never leaves a node waiting for a predecessor that will not come.
NeverStranded ==
  (\A n \in Node : st[n] # "running") /\ find_ready_nodes(st) = {}
    => \A n \in Node : st[n] \in Done

\* Pruning only ever takes nodes that have not been dispatched: when each completion
\* is one step, no false branch reaches a node that runs or has completed.
PruneOnlyPending ==
  [][\A n \in Node : st[n] \in {"running", "completed"} =>
       st'[n] \in {"running", "completed"}]_vars
=============================================================================
