---------------------------- MODULE DagWalkProofs ----------------------------
(***************************************************************************)
(* The theorems about DagWalk, for workflows of every size: that the loop  *)
(* of propagate_skips computes what it should, and that pruning neither    *)
(* strands a run nor takes a node that has been dispatched.                *)
(***************************************************************************)
EXTENDS DagWalk, FiniteSetTheorems, WellFoundedInduction, TLAPS

(***************************************************************************)
(* Least counterexamples                                                   *)
(***************************************************************************)
\* Every non-empty set of numbers has a least element. The proofs below that go by
\* induction cite it for the set of counterexamples.
LEMMA LeastNumber ==
  ASSUME NEW T \in SUBSET Nat, T # {}
  PROVE  \E x \in T : \A y \in T : x <= y
<1> DEFINE R == {ss \in Nat \X Nat : ss[1] < ss[2]}
<1>1. IsWellFoundedOn(R, Nat)
  BY NatLessThanWellFounded DEF OpToRel
<1>2. PICK x \in T : \A y \in T : <<y, x>> \notin R
  <2> HIDE DEF R
  <2>1. QED
    BY <1>1, WFMin
<1>3. \A y \in T : ~(y < x)
  BY <1>2
<1>4. QED
  BY <1>3

\* The same as a rule of induction on the numbers up to m, for a set of good ones.
LEMMA InductionUpTo ==
  ASSUME NEW m \in Nat, NEW Good,
         0 \in Good,
         \A k \in 1..m : k - 1 \in Good => k \in Good
  PROVE  \A k \in 0..m : k \in Good
<1> DEFINE Bad == {k \in 0..m : k \notin Good}
<1>1. SUFFICES ASSUME Bad # {} PROVE FALSE
  OBVIOUS
<1>2. PICK k \in Bad : \A j \in Bad : k <= j
  <2>1. Bad \in SUBSET Nat
    OBVIOUS
  <2>2. QED
    BY <1>1, <2>1, LeastNumber
<1>3. k \in 1..m /\ k - 1 \in 0..m /\ k - 1 \notin Bad
  BY <1>2
<1>4. QED
  BY <1>2, <1>3

(***************************************************************************)
(* The loop of propagate_skips                                             *)
(***************************************************************************)
LEMMA NodesFinite == IsFiniteSet(Node) /\ Cardinality(Node) = Size /\ Size \in Nat
<1>1. Size \in Nat /\ 1 \in Int /\ Size \in Int /\ Size > 0
  BY SizeAssumption
<1>2. QED
  BY <1>1, FS_Interval DEF Node

\* f lists what is dead after each of m sweeps.
Sweeps(f, dead, m) ==
  f = [k \in 0..m |-> IF k = 0 THEN dead ELSE PropagatePass(f[k - 1])]

LEMMA SweepsExist ==
  ASSUME NEW dead, NEW m \in Nat
  PROVE  \E f : Sweeps(f, dead, m)
<1> DEFINE Good == {k \in 0..m : \E f : Sweeps(f, dead, k)}
<1>1. 0 \in Good
  <2>1. Sweeps([k \in 0..0 |-> dead], dead, 0)
    BY DEF Sweeps
  <2>2. QED
    BY <2>1
<1>2. ASSUME NEW k \in 1..m, k - 1 \in Good PROVE k \in Good
  <2>1. PICK f : Sweeps(f, dead, k - 1)
    BY <1>2
  <2> DEFINE g == [j \in 0..k |-> IF j = k THEN PropagatePass(f[k - 1]) ELSE f[j]]
  <2>2. ASSUME NEW j \in 0..k
        PROVE  g[j] = IF j = 0 THEN dead ELSE PropagatePass(g[j - 1])
    <3>1. CASE j = k
      BY <3>1
    <3>2. CASE j # k
      <4>1. j \in 0..(k - 1) /\ (j # 0 => j - 1 \in 0..(k - 1) /\ j - 1 # k)
        BY <3>2
      <4>2. f[j] = IF j = 0 THEN dead ELSE PropagatePass(f[j - 1])
        BY <2>1, <4>1 DEF Sweeps
      <4>3. g[j] = f[j] /\ (j # 0 => g[j - 1] = f[j - 1])
        BY <3>2, <4>1
      <4>4. QED
        BY <4>2, <4>3
    <3>3. QED
      BY <3>1, <3>2
  <2>3. Sweeps(g, dead, k)
    <3>1. g = [j \in 0..k |-> g[j]]
      OBVIOUS
    <3>2. QED
      BY <2>2, <3>1 DEF Sweeps
  <2>4. QED
    BY <2>3
<1>3. m \in Good
  <2>1. m \in 0..m
    OBVIOUS
  <2> HIDE DEF Good
  <2>2. QED
    BY <1>1, <1>2, <2>1, InductionUpTo
<1>4. QED
  BY <1>3

\* The recursive function inside propagate_skips is one of these lists.
LEMMA SkipsAreSweeps ==
  ASSUME NEW dead
  PROVE  \E f : /\ Sweeps(f, dead, Size)
                /\ propagate_skips(dead) = {n \in Node \ dead : n \in f[Size]}
<1> DEFINE f == CHOOSE g : g = [k \in 0..Size |->
                                  IF k = 0 THEN dead ELSE PropagatePass(g[k - 1])]
<1>1. Sweeps(f, dead, Size)
  BY SweepsExist, NodesFinite DEF Sweeps
<1>2. propagate_skips(dead) = {n \in Node \ dead : n \in f[Size]}
  BY NodesFinite DEF propagate_skips
<1>3. QED
  BY <1>1, <1>2

\* A sweep adds exactly the nodes all of whose predecessors are dead already.
LEMMA PassFacts ==
  ASSUME NEW dead \in SUBSET Node
  PROVE  /\ dead \subseteq PropagatePass(dead) /\ PropagatePass(dead) \subseteq Node
         /\ \A n \in PropagatePass(dead) \ dead : Preds(n) # {} /\ Preds(n) \subseteq dead
         /\ \A n \in Node : Preds(n) # {} /\ Preds(n) \subseteq dead => n \in PropagatePass(dead)
  BY DEF PropagatePass

\* What is added along the way has only dead predecessors, and at least one.
LEMMA SweepsSound ==
  ASSUME NEW dead \in SUBSET Node, NEW f, Sweeps(f, dead, Size)
  PROVE  \A k \in 0..Size :
           /\ dead \subseteq f[k] /\ f[k] \subseteq Node
           /\ \A n \in f[k] \ dead : Preds(n) # {} /\ Preds(n) \subseteq f[k]
<1> DEFINE Sound(k) == /\ dead \subseteq f[k] /\ f[k] \subseteq Node
                       /\ \A n \in f[k] \ dead : Preds(n) # {} /\ Preds(n) \subseteq f[k]
           Good == {k \in 0..Size : Sound(k)}
<1>1. f[0] = dead /\ \A k \in 1..Size : f[k] = PropagatePass(f[k - 1])
  BY NodesFinite DEF Sweeps
<1>2. 0 \in Good
  BY <1>1, NodesFinite
<1>3. ASSUME NEW k \in 1..Size, k - 1 \in Good PROVE k \in Good
  <2>1. Sound(k - 1)
    BY <1>3
  <2>2. f[k] = PropagatePass(f[k - 1])
    BY <1>1
  <2>3. Sound(k)
    BY <2>1, <2>2, PassFacts
  <2>4. QED
    BY <2>3, NodesFinite
<1>4. \A k \in 0..Size : k \in Good
  <2> HIDE DEF Good
  <2>1. QED
    BY <1>2, <1>3, NodesFinite, InductionUpTo
<1>5. QED
  BY <1>4

\* Every sweep that changes anything adds a node, so as many sweeps as there are nodes
\* reach the fixpoint: the loop of the code ends where this one does.
LEMMA SweepsComplete ==
  ASSUME NEW dead \in SUBSET Node, NEW f, Sweeps(f, dead, Size)
  PROVE  PropagatePass(f[Size]) = f[Size]
<1> DEFINE Fixed(k) == PropagatePass(f[k]) = f[k]
           Good == {k \in 0..Size : Fixed(k) \/ Cardinality(f[k]) >= k}
<1>1. f[0] = dead /\ \A k \in 1..Size : f[k] = PropagatePass(f[k - 1])
  BY NodesFinite DEF Sweeps
<1>2. \A k \in 0..Size : f[k] \in SUBSET Node
  BY SweepsSound
<1>3. \A k \in 0..Size : IsFiniteSet(f[k]) /\ Cardinality(f[k]) \in Nat
  BY <1>2, NodesFinite, FS_Subset, FS_CardinalityType
<1>4. 0 \in Good
  BY <1>3, NodesFinite
<1>5. ASSUME NEW k \in 1..Size, k - 1 \in Good PROVE k \in Good
  <2>1. /\ k - 1 \in 0..Size /\ k \in 0..Size /\ k - 1 \in Nat
        /\ f[k] = PropagatePass(f[k - 1])
    BY <1>1, NodesFinite
  <2>2. CASE Fixed(k - 1)
    BY <2>1, <2>2
  <2>3. CASE ~Fixed(k - 1)
    <3>1. f[k - 1] \subseteq f[k] /\ f[k - 1] # f[k]
      BY <1>2, <2>1, <2>3, PassFacts
    <3>2. Cardinality(f[k - 1]) <= Cardinality(f[k]) /\ Cardinality(f[k - 1]) # Cardinality(f[k])
      BY <1>3, <2>1, <3>1, FS_Subset
    <3>3. Cardinality(f[k - 1]) >= k - 1
      BY <1>5, <2>3
    <3>4. Cardinality(f[k - 1]) \in Nat /\ Cardinality(f[k]) \in Nat
      BY <1>3, <2>1
    <3>5. Cardinality(f[k]) >= k
      BY <3>2, <3>3, <3>4
    <3>6. QED
      BY <2>1, <3>5
  <2>4. QED
    BY <2>2, <2>3
<1>6. Size \in Good
  <2> HIDE DEF Good
  <2>1. QED
    BY <1>4, <1>5, NodesFinite, InductionUpTo
<1>7. CASE ~Fixed(Size)
  <2>1. Size \in 0..Size
    BY NodesFinite
  <2>2. Cardinality(f[Size]) >= Size
    BY <1>6, <1>7
  <2>3. f[Size] = Node
    <3>1. f[Size] \in SUBSET Node /\ Cardinality(f[Size]) \in Nat
      BY <1>2, <1>3, <2>1
    <3>2. Cardinality(f[Size]) <= Cardinality(Node)
      BY <3>1, NodesFinite, FS_Subset
    <3>3. QED
      BY <2>2, <3>1, <3>2, NodesFinite, FS_Subset
  <2>4. QED
    BY <2>3, PassFacts
<1>8. QED
  BY <1>7

\* What propagate_skips adds to a set of skipped nodes: a fixpoint of the sweep, in
\* which every added node has predecessors and all of them are dead.
LEMMA SkipsFixpoint ==
  ASSUME NEW dead \in SUBSET Node
  PROVE  /\ propagate_skips(dead) \subseteq Node \ dead
         /\ \A n \in propagate_skips(dead) :
              Preds(n) # {} /\ Preds(n) \subseteq dead \cup propagate_skips(dead)
         /\ \A n \in Node : Preds(n) # {} /\ Preds(n) \subseteq dead \cup propagate_skips(dead)
              => n \in dead \cup propagate_skips(dead)
<1>1. PICK f : /\ Sweeps(f, dead, Size)
               /\ propagate_skips(dead) = {n \in Node \ dead : n \in f[Size]}
  BY SkipsAreSweeps
<1>2. Size \in 0..Size
  BY NodesFinite
<1>3. /\ dead \subseteq f[Size] /\ f[Size] \subseteq Node
      /\ \A n \in f[Size] \ dead : Preds(n) # {} /\ Preds(n) \subseteq f[Size]
  BY <1>1, <1>2, SweepsSound
<1>4. dead \cup propagate_skips(dead) = f[Size]
  BY <1>1, <1>3
<1>5. PropagatePass(f[Size]) = f[Size]
  BY <1>1, SweepsComplete
<1>6. QED
  BY <1>1, <1>3, <1>4, <1>5, PassFacts

(***************************************************************************)
(* Invariants                                                              *)
(***************************************************************************)
Statuses == {"pending", "running", "completed", "skipped", "unreachable"}

Dead == {n \in Node : st[n] \in {"skipped", "unreachable"}}

Dispatched == {n \in Node : st[n] \in {"running", "completed"}}

\* The workflow is acyclic and stays as it was drawn.
Shape ==
  /\ edges \subseteq Forward
  /\ conds \subseteq edges
  /\ st \in [Node -> Statuses]

\* A dispatched node was ready, and had a live way in.
Backed ==
  \A n \in Dispatched : /\ \A p \in Preds(n) : st[p] \in Settled
                        /\ Preds(n) # {} => \E p \in Preds(n) : st[p] = "completed"

\* Whatever is cut off has been marked.
CutsComplete == \A n \in Node : Preds(n) # {} /\ Preds(n) \subseteq Dead => n \in Dead

LEMMA PredsAreSmaller ==
  ASSUME Shape, NEW n \in Node
  PROVE  \A p \in Preds(n) : p \in Node /\ p < n
  BY DEF Shape, Forward, Preds

\* Among the nodes of a set one comes first in the workflow.
LEMMA FirstNode ==
  ASSUME NEW T \in SUBSET Node, T # {}
  PROVE  \E x \in T : \A y \in T : x <= y
<1>1. T \in SUBSET Nat
  BY SizeAssumption DEF Node
<1>2. QED
  BY <1>1, LeastNumber

\* A set that propagation closed off contains no node that was dispatched: the first
\* one would have a completed predecessor, which cannot be dead.
LEMMA CutsArePending ==
  ASSUME Shape, NEW status \in [Node -> Statuses], NEW dead, NEW cut,
         cut = propagate_skips(dead),
         dead = {n \in Node : status[n] \in {"skipped", "unreachable"}},
         \A n \in Node : status[n] \in {"running", "completed"} /\ Preds(n) # {} =>
            \E p \in Preds(n) : status[p] = "completed"
  PROVE  \A n \in cut : status[n] = "pending"
<1> DEFINE Taken == {n \in cut : status[n] # "pending"}
<1>1. /\ cut \subseteq Node \ dead
      /\ \A n \in cut : Preds(n) # {} /\ Preds(n) \subseteq dead \cup cut
  <2>1. dead \in SUBSET Node
    OBVIOUS
  <2>2. QED
    BY <2>1, SkipsFixpoint
<1>2. SUFFICES ASSUME Taken # {} PROVE FALSE
  OBVIOUS
<1>3. PICK n \in Taken : \A m \in Taken : n <= m
  <2>1. Taken \in SUBSET Node
    BY <1>1
  <2>2. QED
    BY <1>2, <2>1, FirstNode
<1>4. n \in Node /\ status[n] \in {"running", "completed"}
  BY <1>1, <1>3 DEF Statuses
<1>5. PICK p \in Preds(n) : status[p] = "completed"
  BY <1>1, <1>3, <1>4
<1>6. p \in Node /\ p < n
  BY <1>4, PredsAreSmaller
<1>7. p \in Taken
  BY <1>1, <1>3, <1>5, <1>6
<1>8. n \in Int /\ p \in Int
  BY <1>4, <1>6, SizeAssumption DEF Node
<1>9. QED
  BY <1>3, <1>6, <1>7, <1>8

LEMMA InitialWalk == Init => Shape /\ Backed /\ CutsComplete
  BY DEF Init, Shape, Backed, CutsComplete, Dispatched, Dead, Statuses, Preds

LEMMA DispatchStep ==
  ASSUME Shape, Backed, CutsComplete, Dispatch
  PROVE  /\ (Shape /\ Backed /\ CutsComplete)'
         /\ \A n \in Dispatched : n \in Dispatched'
<1>1. PICK n \in Node : /\ st[n] = "pending" /\ \A p \in Preds(n) : st[p] \in Settled
                       /\ st' = [st EXCEPT ![n] = "running"]
                       /\ UNCHANGED <<edges, conds>>
  BY DEF Dispatch, find_ready_nodes
<1>2. /\ st \in [Node -> Statuses]
      /\ st'[n] = "running" /\ \A m \in Node : m # n => st'[m] = st[m]
  BY <1>1 DEF Shape
<1>3. \A m : Preds(m)' = Preds(m) /\ Preds(m) \subseteq Node
  BY <1>1 DEF Preds
<1>4. Shape'
  BY <1>1 DEF Shape, Statuses
<1>5. Dead' = Dead
  BY <1>1, <1>2 DEF Dead
<1>6. Dispatched' = Dispatched \cup {n}
  BY <1>1, <1>2 DEF Dispatched
<1>7. CutsComplete'
  BY <1>3, <1>5 DEF CutsComplete
<1>8. ASSUME NEW m \in Dispatched'
      PROVE  /\ \A p \in Preds(m) : st'[p] \in Settled
             /\ Preds(m) # {} => \E p \in Preds(m) : st'[p] = "completed"
  <2>1. \A p \in Preds(m) : st[p] \in Settled
    BY <1>1, <1>6 DEF Backed
  <2>2. \A p \in Preds(m) : st'[p] = st[p]
    BY <1>1, <1>2, <1>3, <2>1 DEF Settled
  <2>3. Preds(m) # {} => \E p \in Preds(m) : st[p] = "completed"
    <3>1. CASE m = n
      <4>1. n \notin Dead
        BY <1>1 DEF Dead
      <4>2. Preds(n) # {} => \E p \in Preds(n) : p \notin Dead
        BY <4>1 DEF CutsComplete
      <4>3. QED
        BY <1>1, <1>3, <3>1, <4>2 DEF Dead, Settled
    <3>2. CASE m # n
      BY <1>6, <3>2 DEF Backed
    <3>3. QED
      BY <3>1, <3>2
  <2>4. QED
    BY <2>1, <2>2, <2>3
<1>9. Backed'
  BY <1>3, <1>8 DEF Backed, Settled
<1>10. QED
  BY <1>4, <1>6, <1>7, <1>9

\* A completing node takes only pending ones with it: no target of its edges has been
\* dispatched, since it was not settled before.
LEMMA CompleteStep ==
  ASSUME Shape, Backed, CutsComplete, Complete
  PROVE  /\ (Shape /\ Backed /\ CutsComplete)'
         /\ \A n \in Dispatched : n \in Dispatched'
<1>1. PICK c \in Node, skips \in SUBSET Node :
        /\ st[c] = "running"
        /\ \A m \in skips : <<c, m>> \in conds
        /\ st' = Pruned([st EXCEPT ![c] = "completed"], skips)
        /\ UNCHANGED <<edges, conds>>
  BY DEF Complete
<1> DEFINE done == [st EXCEPT ![c] = "completed"]
           skipped == [n \in Node |-> IF n \in skips THEN "skipped" ELSE done[n]]
           dead == {n \in Node : skipped[n] \in {"skipped", "unreachable"}}
           cut == IF skips = {} THEN {} ELSE propagate_skips(dead)
<1>2. st' = [n \in Node |-> IF n \in cut THEN "unreachable" ELSE skipped[n]]
  BY <1>1 DEF Pruned
<1>3. st \in [Node -> Statuses] /\ skipped \in [Node -> Statuses] /\ dead \in SUBSET Node
  BY DEF Shape, Statuses
<1>4. \A m : Preds(m)' = Preds(m) /\ Preds(m) \subseteq Node
  BY <1>1 DEF Preds
<1>5. \A m \in skips : c \in Preds(m) /\ m \notin Dispatched
  BY <1>1 DEF Shape, Preds, Backed, Settled
<1>6. ASSUME NEW n \in Node, skipped[n] \in {"running", "completed"}
      PROVE  n \in Dispatched /\ n \notin skips
  BY <1>1, <1>3, <1>6 DEF Dispatched, Shape
<1>7. ASSUME NEW n \in Dispatched
      PROVE  skipped[n] \in {"running", "completed"}
  BY <1>1, <1>3, <1>5, <1>7 DEF Dispatched
<1>8. ASSUME NEW p \in Node
      PROVE  /\ st[p] = "completed" => skipped[p] = "completed"
             /\ st[p] \in Settled => skipped[p] \in Settled
  <2>1. st[p] = "completed" => p \notin skips
    BY <1>5 DEF Dispatched
  <2>2. QED
    BY <1>1, <1>3, <2>1 DEF Settled
<1>9. ASSUME NEW n \in Node, skipped[n] \in {"running", "completed"}
      PROVE  /\ \A p \in Preds(n) : skipped[p] \in Settled
             /\ Preds(n) # {} => \E p \in Preds(n) : skipped[p] = "completed"
  <2>1. n \in Dispatched
    BY <1>6, <1>9
  <2>2. QED
    BY <1>4, <1>8, <2>1 DEF Backed
<1>10. cut \subseteq Node /\ \A n \in cut : skipped[n] = "pending"
  <2> HIDE DEF skipped
  <2>1. CASE skips # {}
    <3>1. cut = propagate_skips(dead)
      BY <2>1
    <3>2. cut \subseteq Node
      BY <1>3, <3>1, SkipsFixpoint
    <3>3. \A n \in cut : skipped[n] = "pending"
      <4> HIDE DEF cut
      <4>1. QED
        BY <1>3, <1>9, <3>1, CutsArePending
    <3>4. QED
      BY <3>2, <3>3
  <2>2. QED
    BY <2>1
<1>11. ASSUME NEW n \in Node
       PROVE  /\ skipped[n] # "pending" => st'[n] = skipped[n]
              /\ skipped[n] = "pending" => st'[n] \in {"pending", "unreachable"}
  BY <1>2, <1>10, <1>11
<1>12. Shape'
  BY <1>1, <1>2, <1>3 DEF Shape, Statuses
<1>13. \A n \in Node : n \in Dispatched' => skipped[n] \in {"running", "completed"}
  BY <1>3, <1>11 DEF Dispatched, Statuses
<1>14. \A n \in Dispatched : n \in Dispatched'
  BY <1>7, <1>11 DEF Dispatched
<1>15. Backed'
  <2>1. ASSUME NEW n \in Dispatched'
        PROVE  /\ \A p \in Preds(n) : st'[p] \in Settled
               /\ Preds(n) # {} => \E p \in Preds(n) : st'[p] = "completed"
    <3>1. n \in Node
      BY DEF Dispatched
    <3>2. QED
      BY <1>4, <1>9, <1>11, <1>13, <3>1 DEF Settled
  <2>2. QED
    BY <1>4, <2>1 DEF Backed, Settled
<1>16. CutsComplete'
  <2>1. Dead' = dead \cup cut
    BY <1>2, <1>10, <1>11 DEF Dead
  <2>2. ASSUME NEW n \in Node, Preds(n) # {}, Preds(n) \subseteq dead \cup cut
        PROVE  n \in dead \cup cut
    <3>1. CASE skips # {}
      <4>1. cut = propagate_skips(dead)
        BY <3>1
      <4>2. QED
        BY <1>3, <2>2, <4>1, SkipsFixpoint
    <3>2. CASE skips = {}
      <4>1. cut = {} /\ dead = Dead
        BY <1>1, <1>3, <3>2 DEF Dead
      <4>2. QED
        BY <2>2, <4>1 DEF CutsComplete
    <3>3. QED
      BY <3>1, <3>2
  <2>3. QED
    BY <1>4, <2>1, <2>2 DEF CutsComplete
<1>17. QED
  BY <1>12, <1>14, <1>15, <1>16

LEMMA WalkInvariants == Spec => [](Shape /\ Backed /\ CutsComplete)
<1>1. Init => Shape /\ Backed /\ CutsComplete
  BY InitialWalk
<1>2. Shape /\ Backed /\ CutsComplete /\ [Next]_vars => (Shape /\ Backed /\ CutsComplete)'
  <2>1. CASE UNCHANGED vars
    BY <2>1 DEF vars, Shape, Backed, CutsComplete, Dispatched, Dead, Preds
  <2>2. QED
    BY <2>1, DispatchStep, CompleteStep DEF Next
<1>3. QED
  BY <1>1, <1>2, PTL DEF Spec

(***************************************************************************)
(* The theorems                                                            *)
(***************************************************************************)
\* Pruning in one step with the completion takes no node that runs or has completed,
\* in any acyclic workflow: a false branch is still pending when it is cut.
THEOREM PruneOnlyPendingHolds == Spec => PruneOnlyPending
<1> DEFINE Keeps == \A n \in Node : st[n] \in {"running", "completed"} =>
                                     st'[n] \in {"running", "completed"}
<1>1. Shape /\ Backed /\ CutsComplete /\ [Next]_vars => [Keeps]_vars
  <2>1. CASE Dispatch
    BY <2>1, DispatchStep DEF Dispatched
  <2>2. CASE Complete
    BY <2>2, CompleteStep DEF Dispatched
  <2>3. QED
    BY <2>1, <2>2 DEF Next
<1>2. Spec => [][Keeps]_vars
  BY <1>1, WalkInvariants, PTL DEF Spec
<1>3. QED
  BY <1>2 DEF PruneOnlyPending

\* A run of an acyclic workflow is never stranded: once nothing runs and nothing is
\* ready, every node is done, since the first that is not would be ready.
THEOREM NeverStrandedHolds == Spec => []NeverStranded
<1>1. Shape => NeverStranded
  <2> SUFFICES ASSUME Shape, \A n \in Node : st[n] # "running", find_ready_nodes(st) = {}
               PROVE  \A n \in Node : st[n] \in Done
    BY DEF NeverStranded
  <2> DEFINE Waiting == {n \in Node : st[n] = "pending"}
  <2>1. Waiting = {}
    <3>1. SUFFICES ASSUME Waiting # {} PROVE FALSE
      OBVIOUS
    <3>2. PICK n \in Waiting : \A m \in Waiting : n <= m
      <4>1. Waiting \in SUBSET Node
        OBVIOUS
      <4>2. QED
        BY <3>1, <4>1, FirstNode
    <3>3. ASSUME NEW p \in Preds(n) PROVE st[p] \in Settled
      <4>1. p \in Node /\ p < n /\ p \in Int /\ n \in Int
        BY PredsAreSmaller, SizeAssumption DEF Node
      <4>2. p \notin Waiting
        BY <3>2, <4>1
      <4>3. QED
        BY <4>1, <4>2 DEF Shape, Statuses, Settled
    <3>4. QED
      BY <3>3 DEF find_ready_nodes
  <2>2. QED
    BY <2>1 DEF Shape, Statuses, Done
<1>2. QED
  BY <1>1, WalkInvariants, PTL

\* The loop of propagate_skips computes what it should, for every acyclic workflow and
\* every set of skipped nodes: the nodes no live path from a live root reaches.
THEOREM UnreachableIsExactHolds == Spec => []UnreachableIsExact
<1>1. Shape => UnreachableIsExact
  <2> SUFFICES ASSUME Shape, NEW dead \in SUBSET Node
               PROVE  propagate_skips(dead) = Node \ (dead \cup LiveFrom(dead))
    BY DEF UnreachableIsExact
  <2> DEFINE Closed == dead \cup propagate_skips(dead)
  <2>1. /\ propagate_skips(dead) \subseteq Node \ dead
        /\ \A n \in propagate_skips(dead) : Preds(n) # {} /\ Preds(n) \subseteq Closed
        /\ \A n \in Node : Preds(n) # {} /\ Preds(n) \subseteq Closed => n \in Closed
    BY SkipsFixpoint
  <2>2. LiveFrom(dead) \cap Closed = {}
    \* The complement of what is dead holds the live nodes.
    <3>1. HoldsLive(Node \ Closed, dead)
      <4>1. find_root_nodes \ dead \subseteq Node \ Closed
        BY <2>1 DEF find_root_nodes
      <4>2. ASSUME NEW e \in edges, e[1] \in Node \ Closed, e[2] \notin dead
            PROVE  e[2] \in Node \ Closed
        <5>1. e = <<e[1], e[2]>> /\ e[2] \in Node /\ e[1] \in Preds(e[2])
          BY DEF Shape, Forward, Preds
        <5>2. QED
          BY <2>1, <4>2, <5>1
      <4>3. QED
        BY <4>1, <4>2 DEF HoldsLive
    <3>2. LiveFrom(dead) \subseteq Node \ Closed
      BY <3>1 DEF LiveFrom
    <3>3. QED
      BY <3>2
  <2>3. ASSUME NEW S \in SUBSET Node, HoldsLive(S, dead)
        PROVE  Node \ Closed \subseteq S
    \* The first live node outside S would have a live predecessor inside.
    <3> DEFINE Missing == (Node \ Closed) \ S
    <3>1. SUFFICES ASSUME Missing # {} PROVE FALSE
      OBVIOUS
    <3>2. PICK n \in Missing : \A m \in Missing : n <= m
      <4>1. Missing \in SUBSET Node
        OBVIOUS
      <4>2. QED
        BY <3>1, <4>1, FirstNode
    <3>3. n \in Node /\ n \notin Closed /\ n \notin S /\ n \notin dead
      BY <3>2
    <3>4. PICK p \in Preds(n) : p \notin Closed
      <4>1. Preds(n) # {}
        BY <2>3, <3>3 DEF HoldsLive, find_root_nodes
      <4>2. QED
        BY <2>1, <3>3, <4>1
    <3>5. p \in Node /\ p < n /\ p \in Int /\ n \in Int
      BY <3>3, PredsAreSmaller, SizeAssumption DEF Node
    <3>6. p \in S
      BY <3>2, <3>4, <3>5
    <3>7. <<p, n>> \in edges
      BY DEF Preds
    <3>8. n \in S
      BY <2>3, <3>3, <3>6, <3>7 DEF HoldsLive
    <3>9. QED
      BY <3>3, <3>8
  <2>4. Node \ Closed \subseteq LiveFrom(dead)
    BY <2>3 DEF LiveFrom
  <2>5. LiveFrom(dead) \subseteq Node
    BY DEF LiveFrom
  <2>6. QED
    BY <2>1, <2>2, <2>4, <2>5
<1>2. QED
  BY <1>1, WalkInvariants, PTL
=============================================================================
