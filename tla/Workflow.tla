------------------------------ MODULE Workflow ------------------------------
(***************************************************************************)
(* What the step runner promises of an execution, whatever is late, lost,  *)
(* repeated or cancelled on the way: the history of its nodes, without     *)
(* rows, snapshots, messages or invocations.                               *)
(***************************************************************************)
EXTENDS Integers

CONSTANTS Nodes,    \* the nodes of the workflow
          Edges,    \* its edges
          Refused   \* the nodes that may fail without having been dispatched

VARIABLES dispatches,  \* how often each node has been handed to a worker
          grants,      \* how many retries each node was granted
          settled,     \* the nodes that have been completed, skipped or cut off
          ended,       \* those, and the nodes that have failed
          announced    \* whether completion of the execution has been announced

vars == <<dispatches, grants, settled, ended, announced>>

Sources(n) == {m \in Nodes : <<m, n>> \in Edges}

Init ==
  /\ dispatches = [n \in Nodes |-> 0]
  /\ grants = [n \in Nodes |-> 0]
  /\ settled = {}
  /\ ended = {}
  /\ announced = FALSE

\* Once, and once more per grant; after all that precedes.
Dispatch(n) ==
  /\ dispatches[n] <= grants[n]
  /\ Sources(n) \subseteq settled
  /\ dispatches' = [dispatches EXCEPT ![n] = @ + 1]
  /\ UNCHANGED <<grants, settled, ended, announced>>

\* Only an attempt that was made is granted another.
Grant(n) ==
  /\ dispatches[n] > 0
  /\ grants' = [grants EXCEPT ![n] = @ + 1]
  /\ UNCHANGED <<dispatches, settled, ended, announced>>

Settle(n) ==
  /\ settled' = settled \cup {n}
  /\ ended' = ended \cup {n}
  /\ UNCHANGED <<dispatches, grants, announced>>

\* Nothing has a result that was not dispatched.
Complete(n) == dispatches[n] > 0 /\ Settle(n)

\* Roots are never pruned, and nothing is before something has completed.
Prune(n) == Sources(n) # {} /\ settled # {} /\ Settle(n)

Fail(n) ==
  /\ dispatches[n] > 0 \/ n \in Refused
  /\ Sources(n) \subseteq settled
  /\ ended' = ended \cup {n}
  /\ UNCHANGED <<dispatches, grants, settled, announced>>

Announce ==
  /\ ended = Nodes
  /\ announced' = TRUE
  /\ UNCHANGED <<dispatches, grants, settled, ended>>

Next ==
  \/ \E n \in Nodes : Dispatch(n) \/ Grant(n) \/ Complete(n) \/ Prune(n) \/ Fail(n)
  \/ Announce

Spec == Init /\ [][Next]_vars
=============================================================================
