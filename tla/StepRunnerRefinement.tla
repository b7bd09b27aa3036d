------------------------ MODULE StepRunnerRefinement ------------------------
(***************************************************************************)
(* StepRunner implements Workflow, for every workflow, every number of     *)
(* handlers and sweeps, and every bound on faults, stalls and retries. The *)
(* invariants of StepRunnerProofs say when a node may be dispatched; what  *)
(* they leave open is that whoever writes a node's result, failure, retry  *)
(* or pruning has a cause for it, and has had it since it was read.        *)
(***************************************************************************)
EXTENDS StepRunnerProofs, FiniteSetTheorems, WellFoundedInduction

(***************************************************************************)
(* Least counterexamples                                                   *)
(***************************************************************************)
\* Every non-empty set of numbers has a least element. The proofs below that go by
\* induction cite it for the set of counterexamples.
LEMMA LeastNumber ==
  ASSUME NEW T \in SUBSET Nat, T # {}
  PROVE  \E x \in T : \A y \in T : x <= y
<1> DEFINE R == {ss \in Nat \X Nat : ss[1] < ss[2]}
<1>1. IsWellFoundedOn(R, Nat)
  BY NatLessThanWellFounded DEF OpToRel
<1>2. PICK x \in T : \A y \in T : <<y, x>> \notin R
  <2> HIDE DEF R
  <2>1. QED
    BY <1>1, WFMin
<1>3. \A y \in T : ~(y < x)
  BY <1>2
<1>4. QED
  BY <1>3

\* The same as a rule of induction on the numbers up to m, for a set of good ones.
LEMMA InductionUpTo ==
  ASSUME NEW m \in Nat, NEW Good,
         0 \in Good,
         \A k \in 1..m : k - 1 \in Good => k \in Good
  PROVE  \A k \in 0..m : k \in Good
<1> DEFINE Bad == {k \in 0..m : k \notin Good}
<1>1. SUFFICES ASSUME Bad # {} PROVE FALSE
  OBVIOUS
<1>2. PICK k \in Bad : \A j \in Bad : k <= j
  <2>1. Bad \in SUBSET Nat
    OBVIOUS
  <2>2. QED
    BY <1>1, <2>1, LeastNumber
<1>3. k \in 1..m /\ k - 1 \in 0..m /\ k - 1 \notin Bad
  BY <1>2
<1>4. QED
  BY <1>2, <1>3

(***************************************************************************)
(* The targets of edges, which alone can be pruned                         *)
(***************************************************************************)
Targets == {k \in Nodes : Preds(k) # {}}

\* f lists what is dead after each of m sweeps.
Sweeps(f, dead, m) ==
  f = [k \in 0..m |-> IF k = 0 THEN dead ELSE PropagatePass(f[k - 1])]

LEMMA SweepsExist ==
  ASSUME NEW dead, NEW m \in Nat
  PROVE  \E f : Sweeps(f, dead, m)
<1> DEFINE Good == {k \in 0..m : \E f : Sweeps(f, dead, k)}
<1>1. 0 \in Good
  <2>1. Sweeps([k \in 0..0 |-> dead], dead, 0)
    BY DEF Sweeps
  <2>2. QED
    BY <2>1
<1>2. ASSUME NEW k \in 1..m, k - 1 \in Good PROVE k \in Good
  <2>1. PICK f : Sweeps(f, dead, k - 1)
    BY <1>2
  <2> DEFINE g == [j \in 0..k |-> IF j = k THEN PropagatePass(f[k - 1]) ELSE f[j]]
  <2>2. ASSUME NEW j \in 0..k
        PROVE  g[j] = IF j = 0 THEN dead ELSE PropagatePass(g[j - 1])
    <3>1. CASE j = k
      BY <3>1
    <3>2. CASE j # k
      <4>1. j \in 0..(k - 1) /\ (j # 0 => j - 1 \in 0..(k - 1) /\ j - 1 # k)
        BY <3>2
      <4>2. f[j] = IF j = 0 THEN dead ELSE PropagatePass(f[j - 1])
        BY <2>1, <4>1 DEF Sweeps
      <4>3. g[j] = f[j] /\ (j # 0 => g[j - 1] = f[j - 1])
        BY <3>2, <4>1
      <4>4. QED
        BY <4>2, <4>3
    <3>3. QED
      BY <3>1, <3>2
  <2>3. Sweeps(g, dead, k)
    <3>1. g = [j \in 0..k |-> g[j]]
      OBVIOUS
    <3>2. QED
      BY <2>2, <3>1 DEF Sweeps
  <2>4. QED
    BY <2>3
<1>3. m \in Good
  <2>1. m \in 0..m
    OBVIOUS
  <2> HIDE DEF Good
  <2>2. QED
    BY <1>1, <1>2, <2>1, InductionUpTo
<1>4. QED
  BY <1>3

\* A sweep adds targets of edges only, and so does propagate_skips.
LEMMA SkipsAreTargets ==
  ASSUME NEW dead
  PROVE  propagate_skips(dead) \subseteq Targets
<1> DEFINE N == Cardinality(Nodes)
           f == CHOOSE g : g = [k \in 0..N |->
                                  IF k = 0 THEN dead ELSE PropagatePass(g[k - 1])]
<1>1. N \in Nat
  BY NodesAssumption, FS_CardinalityType
<1>2. Sweeps(f, dead, N)
  BY <1>1, SweepsExist DEF Sweeps
<1>3. propagate_skips(dead) = {n \in Nodes \ dead : n \in f[N]}
  BY DEF propagate_skips
<1> HIDE DEF f, N
<1>4. \A k \in 0..N : k \in {x \in 0..N : f[x] \subseteq dead \cup Targets}
  <2> DEFINE Good == {x \in 0..N : f[x] \subseteq dead \cup Targets}
  <2>1. 0 \in Good
    BY <1>1, <1>2 DEF Sweeps
  <2>2. ASSUME NEW k \in 1..N, k - 1 \in Good PROVE k \in Good
    <3>1. f[k] = PropagatePass(f[k - 1]) /\ f[k - 1] \subseteq dead \cup Targets
      BY <1>1, <1>2, <2>2 DEF Sweeps
    <3>2. f[k] \subseteq dead \cup Targets
      BY <3>1 DEF PropagatePass, Targets
    <3>3. QED
      BY <1>1, <3>2
  <2> HIDE DEF Good
  <2>3. \A k \in 0..N : k \in Good
    BY <1>1, <2>1, <2>2, InductionUpTo
  <2>4. QED
    BY <2>3 DEF Good
<1>5. f[N] \subseteq dead \cup Targets
  BY <1>1, <1>4
<1>6. QED
  BY <1>3, <1>5

(***************************************************************************)
(* The inductive invariant                                                 *)
(***************************************************************************)
\* What an invocation is about to do has its cause, for dispatches gen and settled
\* nodes ever: who writes a result, a failure or a retry has the node of an attempt (or
\* a refused one), and who prunes has a target, some node having completed.
Sound(j, gen, ever) ==
  /\ j.pc \in {"record", "send", "retry", "unstall"} => gen[j.node] > 0
  /\ j.pc = "fail" => (gen[j.node] > 0 \/ j.node \in Refused) /\ Preds(j.node) \subseteq ever
  /\ j.out \subseteq Targets /\ \A n \in Nodes : j.view.out[n] \subseteq Targets
  /\ j.pc \in {"skip", "cut"} => j.cuts \subseteq Targets
  /\ j.pc \in {"edges", "skip", "cut"} => ever # {}

\* The same for every place a cause is carried in.
Grounded ==
  /\ \A n \in Nodes : row.st[n] = "running" \/ replica.st[n] = "running" => row.gen[n] > 0
  /\ \A n \in Nodes : row.out[n] \subseteq Targets /\ replica.out[n] \subseteq Targets
  /\ \A m \in queue : row.gen[m.node] > 0 /\ m.out \subseteq Targets
  /\ \A e \in events : /\ e.kind \in {"completed", "failed"} => row.gen[e.node] > 0
                       /\ e.kind = "completed" => e.out \subseteq Targets
  /\ \A s \in Slots : Sound(inv[s], row.gen, everSettled)

Special == {"record", "send", "retry", "unstall", "fail", "edges", "skip", "cut"}

(***************************************************************************)
(* Where an invocation goes on to                                          *)
(***************************************************************************)
LEMMA SoundElsewhere ==
  ASSUME NEW j, NEW gen, NEW ever, j.pc \notin Special, j.out \subseteq Targets,
         \A n \in Nodes : j.view.out[n] \subseteq Targets
  PROVE  Sound(j, gen, ever)
  BY DEF Sound, Special

\* An invocation that starts from Idle.
LEMMA SoundIdle == \A gen, ever : Sound(Idle, gen, ever)
  BY DEF Sound, Idle, NoView, InitRow

LEMMA SoundFresh ==
  ASSUME NEW p, p \notin Special, NEW k, NEW gen, NEW ever
  PROVE  /\ Sound([Idle EXCEPT !.pc = p, !.kind = k], gen, ever)
         /\ \A t : Sound([Idle EXCEPT !.pc = p, !.kind = k, !.todo = t], gen, ever)
  BY DEF Sound, Special, Idle, NoView, InitRow

LEMMA SoundFrontier ==
  ASSUME NEW k, NEW v, NEW gen, NEW ever, \A n \in Nodes : v.out[n] \subseteq Targets
  PROVE  Sound(schedule_frontier(k, v), gen, ever)
<1> DEFINE j == schedule_frontier(k, v)
<1>1. j.view = v /\ j.pc \in {"settle", "dispatch"} /\ j.out = {}
  BY DEF schedule_frontier, Idle
<1>2. QED
  <2> HIDE DEF j
  <2>1. Sound(j, gen, ever)
    BY <1>1, SoundElsewhere DEF Special
  <2>2. QED
    BY <2>1 DEF j

LEMMA SoundReconcile ==
  ASSUME NEW k, NEW r, NEW gen, NEW ever, \A n \in Nodes : r.out[n] \subseteq Targets,
         \A n \in Nodes : r.st[n] = "completed" => n \in ever
  PROVE  Sound(_reconcile_completed_edges(k, r), gen, ever)
<1> DEFINE j == _reconcile_completed_edges(k, r)
<1>1. CASE ToPrune(r) = {}
  BY <1>1, SoundFresh DEF _reconcile_completed_edges, Special
<1>2. CASE ToPrune(r) # {}
  <2>1. j.pc = "edges" /\ j.out = {} /\ j.view = ViewOf(r)
    BY <1>2 DEF _reconcile_completed_edges, Idle
  <2>2. ever # {}
    BY <1>2 DEF ToPrune
  <2>3. \A n \in Nodes : ViewOf(r).out[n] \subseteq Targets
    BY DEF ViewOf
  <2> HIDE DEF j
  <2>4. Sound(j, gen, ever)
    BY <2>1, <2>2, <2>3 DEF Sound
  <2>5. QED
    BY <2>4 DEF j
<1>3. QED
  BY <1>1, <1>2

LEMMA SoundAfterPrune ==
  ASSUME NEW j \in Invocation, NEW gen, NEW ever, ever # {}, j.out \subseteq Targets,
         \A n \in Nodes : j.view.out[n] \subseteq Targets
  PROVE  Sound(AfterPrune(j), gen, ever)
<1>1. CASE j.todo # {}
  <2> DEFINE q == [j EXCEPT !.pc = "edges", !.cuts = {}]
  <2>1. q.pc = "edges" /\ q.out = j.out /\ q.view = j.view
    BY DEF Invocation
  <2>2. AfterPrune(j) = q
    BY <1>1 DEF AfterPrune
  <2> HIDE DEF q
  <2>3. QED
    BY <2>1, <2>2 DEF Sound
<1>2. CASE j.todo = {}
  BY <1>2, SoundFrontier, SoundFresh DEF AfterPrune, Special
<1>3. QED
  BY <1>1, <1>2

LEMMA SoundAfterDispatch ==
  ASSUME NEW j \in Invocation, NEW gen, NEW ever, j.out \subseteq Targets,
         \A n \in Nodes : j.view.out[n] \subseteq Targets
  PROVE  Sound(AfterDispatch(j), gen, ever)
<1> DEFINE q == AfterDispatch(j)
<1>1. \/ q = Idle
      \/ q.pc \in {"dispatch", "settle"} /\ q.view = j.view /\ q.out = j.out
  BY DEF AfterDispatch, Invocation
<1>2. QED
  <2> HIDE DEF q
  <2>1. Sound(q, gen, ever)
    BY <1>1, SoundIdle, SoundElsewhere DEF Special
  <2>2. QED
    BY <2>1 DEF q

\* A cause is not taken away: dispatches and settled nodes only grow.
LEMMA CausesGrow ==
  ASSUME TypeOK, [Next]_vars
  PROVE  /\ \A n \in Nodes : row.gen[n] > 0 => row'.gen[n] > 0
         /\ everSettled \subseteq everSettled'
<1>0. row.gen \in [Nodes -> Nat]
  BY DEF TypeOK, Row
<1>1. ASSUME NEW s \in Slots, NEW n \in Nodes, Dispatched(s, n)
      PROVE  \A k \in Nodes : row.gen[k] > 0 => row'.gen[k] > 0
  BY <1>0, <1>1 DEF Dispatched
<1>2. row'.gen = row.gen \/ \E s \in Slots, n \in Nodes : Dispatched(s, n)
  BY RowEffect DEF NodeEffect, Kept, Marked, Retried
<1>3. QED
  BY <1>1, <1>2, HistoryStep

LEMMA SoundStays ==
  ASSUME TypeOK, [Next]_vars, NEW j \in Invocation, Sound(j, row.gen, everSettled)
  PROVE  Sound(j, row'.gen, everSettled')
<1>1. j.pc \in {"record", "send", "retry", "fail", "unstall"} => j.node \in Nodes
  BY DEF Invocation
<1>2. QED
  BY <1>1, CausesGrow DEF Sound

\* The invocation of s moves on with its cause.
MovesSoundly(s) == \E j : Continue(s, j) /\ Sound(j, row'.gen, everSettled')

LEMMA ReadsGrounded ==
  ASSUME Grounded, Frontier, NEW r \in Reads
  PROVE  /\ \A n \in Nodes : r.out[n] \subseteq Targets /\ ViewOf(r).out[n] \subseteq Targets
         /\ \A n \in Nodes : r.st[n] = "running" => row.gen[n] > 0
         /\ \A n \in Nodes : r.st[n] = "completed" => n \in everSettled
  BY DEF Grounded, Reads, ViewOf, Frontier, Witnessed, Settled

(***************************************************************************)
(* What a step leaves in an invocation                                     *)
(***************************************************************************)
LEMMA HandlerSound ==
  ASSUME TypeOK, Grounded, Frontier, handler
  PROVE  /\ \E s \in Slots : MovesSoundly(s)
         /\ events' \subseteq events /\ queue' = queue /\ row' = row
<1>1. PICK s \in Handlers, e \in events, r \in Reads :
        /\ Consume(e)
        /\ \/ start_execution(s, e, r)
           \/ handle_node_completion(s, e, r)
           \/ handle_node_failure(s, e, r)
           \/ cancel_execution(s, e, r)
           \/ resume_execution(s, e, r)
        /\ KeepRow
        /\ UNCHANGED <<replica, queue, asked, stalls, published, grants>>
  BY DEF handler
<1>2. s \in Slots /\ row' = row /\ everSettled' = everSettled /\ queue' = queue
      /\ events' \subseteq events
  BY <1>1 DEF Slots, KeepRow, Consume
<1>3. \E j : Continue(s, j) /\ Sound(j, row.gen, everSettled)
  <2>1. CASE start_execution(s, e, r)
    BY <2>1, SoundIdle, SoundFresh DEF start_execution, Special
  <2>2. CASE handle_node_completion(s, e, r)
    <3> DEFINE j == [Idle EXCEPT !.pc = "record", !.kind = "completed", !.node = e.node,
                                 !.out = e.out, !.view = ViewOf(r)]
    <3>1. j.pc = "record" /\ j.node = e.node /\ j.out = e.out /\ j.view = ViewOf(r)
      BY DEF Idle
    <3>2. Continue(s, j) /\ e.kind = "completed"
      BY <2>2 DEF handle_node_completion
    <3> HIDE DEF j
    <3>3. QED
      BY <3>1, <3>2, ReadsGrounded DEF Sound, Grounded
  <2>3. CASE handle_node_failure(s, e, r)
    <3> DEFINE j == [Idle EXCEPT !.pc = IF should_retry(e.err, r.rc[e.node])
                                        THEN "retry" ELSE "fail",
                                 !.kind = "failed", !.node = e.node,
                                 !.count = r.rc[e.node]]
    <3>1. /\ j.pc \in {"retry", "fail"} /\ j.node = e.node /\ j.out = {}
          /\ \A n \in Nodes : j.view.out[n] = {}
      BY DEF Idle, NoView, InitRow
    <3>2. e.kind = "failed" /\ (Continue(s, Idle) \/ Continue(s, j))
      BY <2>3 DEF handle_node_failure
    <3>3. e.node \in Nodes /\ row.gen[e.node] > 0
      BY <3>2 DEF TypeOK, Event, Grounded
    <3>4. Preds(e.node) \subseteq everSettled
      BY <3>3 DEF Frontier, DispatchAfterPredecessors
    <3> HIDE DEF j
    <3>5. Sound(j, row.gen, everSettled)
      BY <3>1, <3>3, <3>4 DEF Sound
    <3>6. QED
      BY <3>2, <3>5, SoundIdle
  <2>4. CASE cancel_execution(s, e, r)
    BY <2>4, SoundFresh DEF cancel_execution, Special
  <2>5. CASE resume_execution(s, e, r)
    <3> DEFINE j == [Idle EXCEPT !.pc = "restart", !.kind = "resume", !.view = ViewOf(r)]
    <3>1. j.pc = "restart" /\ j.out = {} /\ j.view = ViewOf(r)
      BY DEF Idle
    <3>2. Sound(j, row.gen, everSettled)
      <4> HIDE DEF j
      <4>1. QED
        BY <3>1, ReadsGrounded, SoundElsewhere DEF Special
    <3>3. Sound(_reconcile_completed_edges("resume", r), row.gen, everSettled)
      BY ReadsGrounded, SoundReconcile
    <3>4. QED
      BY <2>5, <3>2, <3>3, SoundIdle DEF resume_execution
  <2>6. QED
    BY <1>1, <2>1, <2>2, <2>3, <2>4, <2>5
<1>4. QED
  BY <1>2, <1>3 DEF MovesSoundly

LEMMA SweepSound ==
  ASSUME TypeOK, Grounded, Frontier, _process_execution
  PROVE  /\ \E s \in Slots : MovesSoundly(s)
         /\ events' = events /\ queue' = queue /\ row' = row
<1>1. PICK s \in Watchdogs, r \in Reads :
        /\ \/ Continue(s, _reconcile_completed_edges("sweep", r))
           \/ _reconcile_or_fail_node(s, r)
           \/ Continue(s, [Idle EXCEPT !.pc = "expire", !.kind = "failed"])
        /\ KeepRow /\ UNCHANGED <<queue, events>>
  BY DEF _process_execution
<1>2. s \in Slots /\ row' = row /\ everSettled' = everSettled
  BY <1>1 DEF Slots, KeepRow
<1>3. \E j : Continue(s, j) /\ Sound(j, row.gen, everSettled)
  <2>1. Sound(_reconcile_completed_edges("sweep", r), row.gen, everSettled)
    BY ReadsGrounded, SoundReconcile
  <2>2. Sound([Idle EXCEPT !.pc = "expire", !.kind = "failed"], row.gen, everSettled)
    BY SoundFresh DEF Special
  <2>3. CASE _reconcile_or_fail_node(s, r)
    <3> DEFINE retry(n) == [Idle EXCEPT !.pc = "unstall", !.kind = "sweep", !.node = n,
                                        !.count = r.rc[n]]
               fail(n) == [Idle EXCEPT !.pc = "fail", !.kind = "failed", !.node = n]
    <3>1. PICK n \in Nodes : /\ r.st[n] = "running"
                             /\ \/ Continue(s, retry(n))
                                \/ Continue(s, Idle)
                                \/ Continue(s, fail(n))
      BY <2>3 DEF _reconcile_or_fail_node
    <3>2. row.gen[n] > 0 /\ Preds(n) \subseteq everSettled
      BY <3>1, ReadsGrounded DEF Frontier, DispatchAfterPredecessors
    <3>3. /\ retry(n).pc = "unstall" /\ retry(n).node = n /\ retry(n).out = {}
          /\ \A m \in Nodes : retry(n).view.out[m] = {}
          /\ fail(n).pc = "fail" /\ fail(n).node = n /\ fail(n).out = {}
          /\ \A m \in Nodes : fail(n).view.out[m] = {}
      BY DEF Idle, NoView, InitRow
    <3> HIDE DEF retry, fail
    <3>4. Sound(retry(n), row.gen, everSettled) /\ Sound(fail(n), row.gen, everSettled)
      BY <3>2, <3>3 DEF Sound
    <3>5. QED
      BY <3>1, <3>4, SoundIdle
  <2>4. QED
    BY <1>1, <2>1, <2>2, <2>3
<1>4. QED
  BY <1>1, <1>2, <1>3 DEF MovesSoundly

\* The steps of an invocation that writes no node but a retry or a failure.
LEMMA PlainStepSound ==
  ASSUME TypeOK, Grounded, Frontier, [Next]_vars, NEW s \in Slots,
         \/ start_write(s) \/ resume_write(s) \/ reload(s)
         \/ _finalize_execution(s) \/ ensure_running(s) \/ publish_terminal(s)
         \/ cancel_node(s) \/ cancel_write(s) \/ _fail_stuck(s)
         \/ schedule_retry(s) \/ unstall(s) \/ fail_node(s) \/ send_message(s)
  PROVE  MovesSoundly(s)
<1>0. /\ inv[s] \in Invocation /\ everSettled \subseteq everSettled'
      /\ inv[s].out \subseteq Targets
      /\ \A n \in Nodes : inv[s].view.out[n] \subseteq Targets
  BY CausesGrow DEF TypeOK, Grounded, Sound
<1>1. CASE \/ start_write(s) \/ _finalize_execution(s) \/ ensure_running(s)
           \/ schedule_retry(s) \/ unstall(s)
  BY <1>1, SoundIdle, SoundFresh
     DEF start_write, _finalize_execution, ensure_running, schedule_retry, unstall,
         MovesSoundly, Special
<1>2. CASE resume_write(s)
  <2>1. Sound(_reconcile_completed_edges("resume", inv[s].view), row'.gen, everSettled')
    BY <1>0, SoundReconcile DEF Frontier, Witnessed, Settled
  <2>2. \A r \in Reads : Sound(_reconcile_completed_edges("resume", r), row'.gen, everSettled')
    BY <1>0, ReadsGrounded, SoundReconcile
  <2>3. QED
    BY <1>2, <2>1, <2>2 DEF resume_write, MovesSoundly
<1>3. CASE reload(s)
  BY <1>3, ReadsGrounded, SoundFrontier DEF reload, MovesSoundly
<1>4. CASE send_message(s) \/ publish_terminal(s)
  <2>1. Sound(AfterDispatch(inv[s]), row'.gen, everSettled')
    BY <1>0, SoundAfterDispatch
  <2>2. QED
    BY <1>4, <2>1, SoundIdle DEF send_message, publish_terminal, MovesSoundly
<1>5. CASE fail_node(s) \/ cancel_write(s) \/ _fail_stuck(s)
  <2> DEFINE j == [inv[s] EXCEPT !.pc = "announceFailed"]
  <2>1. j.pc = "announceFailed" /\ j.out = inv[s].out /\ j.view = inv[s].view
    BY <1>0 DEF Invocation
  <2>2. Continue(s, j) \/ Continue(s, Idle)
    BY <1>5 DEF fail_node, cancel_write, _fail_stuck
  <2> HIDE DEF j
  <2>3. Sound(j, row'.gen, everSettled')
    BY <1>0, <2>1, SoundElsewhere DEF Special
  <2>4. QED
    BY <2>2, <2>3, SoundIdle DEF MovesSoundly
<1>6. CASE cancel_node(s)
  <2>1. PICK n : Continue(s, [inv[s] EXCEPT !.todo = @ \ {n}]) /\ inv[s].pc = "cancel"
    BY <1>6 DEF cancel_node
  <2> DEFINE j == [inv[s] EXCEPT !.todo = @ \ {n}]
  <2>2. j.pc = "cancel" /\ j.out = inv[s].out /\ j.view = inv[s].view
    BY <1>0, <2>1 DEF Invocation
  <2>3. Continue(s, j)
    BY <2>1
  <2> HIDE DEF j
  <2>4. Sound(j, row'.gen, everSettled')
    BY <1>0, <2>2, SoundElsewhere DEF Special
  <2>5. QED
    BY <2>3, <2>4 DEF MovesSoundly
<1>7. QED
  BY <1>1, <1>2, <1>3, <1>4, <1>5, <1>6

\* A node that record_completion has recorded, or found recorded, is settled.
LEMMA RecordedSettled ==
  ASSUME TypeOK, Frontier, NEW n \in Nodes, NEW o, RecordCompletion(n, o)
  PROVE  n \in everSettled'
<1>1. CASE row.st[n] = "completed"
  BY <1>1 DEF RecordCompletion, KeepRow, Frontier, Witnessed, Settled
<1>2. CASE row.st[n] # "completed"
  BY <1>2 DEF RecordCompletion
<1>3. QED
  BY <1>1, <1>2

LEMMA RecordSound ==
  ASSUME TypeOK, Grounded, Frontier, NEW s \in Slots, record_completion(s)
  PROVE  MovesSoundly(s)
<1> DEFINE n == inv[s].node
           viewed == [inv[s].view EXCEPT !.st[n] = "completed", !.out[n] = inv[s].out]
           t == IF inv[s].out = {} THEN {} ELSE {n}
           j == [Idle EXCEPT !.kind = inv[s].kind, !.view = viewed, !.todo = t]
<1>0. /\ inv[s] \in Invocation /\ n \in Nodes /\ inv[s].out \subseteq Targets
      /\ inv[s].view \in View /\ inv[s].kind \in Kinds
      /\ \A k \in Nodes : inv[s].view.out[k] \subseteq Targets
  BY DEF record_completion, TypeOK, Invocation, Grounded, Sound
<1>1. viewed \in View /\ \A k \in Nodes : viewed.out[k] \subseteq Targets
  <2>1. /\ [inv[s].view.st EXCEPT ![n] = "completed"] \in [Nodes -> NodeStatus]
        /\ [inv[s].view.out EXCEPT ![n] = inv[s].out] \in [Nodes -> SUBSET Nodes]
    BY <1>0 DEF View, NodeStatus, Targets
  <2>2. QED
    BY <1>0, <2>1 DEF View
<1>2. t \in SUBSET Nodes
  BY <1>0
<1> HIDE DEF viewed, t
<1>3. j \in Invocation /\ j.out = {} /\ j.view = viewed
  BY <1>0, <1>1, <1>2, IdleType DEF Invocation, Idle, Steps
<1>4. everSettled' # {}
  BY <1>0, RecordedSettled DEF record_completion
<1>5. Continue(s, AfterPrune(j))
  BY DEF record_completion, viewed, t
<1> HIDE DEF j
<1>6. Sound(AfterPrune(j), row'.gen, everSettled')
  BY <1>1, <1>3, <1>4, SoundAfterPrune
<1>7. QED
  BY <1>5, <1>6 DEF MovesSoundly

LEMMA EvaluateSound ==
  ASSUME TypeOK, Grounded, NEW s \in Slots, evaluate_condition(s)
  PROVE  MovesSoundly(s)
<1>1. PICK n \in inv[s].todo :
        /\ inv[s].pc = "edges" /\ KeepRow
        /\ Continue(s, [inv[s] EXCEPT !.pc = "skip", !.todo = @ \ {n},
                                      !.cuts = inv[s].view.out[n]])
  BY DEF evaluate_condition
<1> DEFINE j == [inv[s] EXCEPT !.pc = "skip", !.todo = @ \ {n}, !.cuts = inv[s].view.out[n]]
<1>2. n \in Nodes /\ Sound(inv[s], row.gen, everSettled)
  BY DEF TypeOK, Invocation, Grounded
<1>3. /\ j.pc = "skip" /\ j.cuts = inv[s].view.out[n]
      /\ j.out = inv[s].out /\ j.view = inv[s].view
  BY DEF TypeOK, Invocation
<1>4. everSettled' = everSettled /\ everSettled # {}
  BY <1>1, <1>2 DEF KeepRow, Sound
<1>5. Continue(s, j)
  BY <1>1
<1> HIDE DEF j
<1>6. Sound(j, row'.gen, everSettled')
  BY <1>2, <1>3, <1>4 DEF Sound
<1>7. QED
  BY <1>5, <1>6 DEF MovesSoundly

LEMMA SkipSound ==
  ASSUME TypeOK, Grounded, [Next]_vars, NEW s \in Slots, persist_skip(s)
  PROVE  MovesSoundly(s)
<1> DEFINE viewed(n) == [inv[s].view EXCEPT !.st[n] = "skipped"]
           i(n) == [inv[s] EXCEPT !.view = viewed(n), !.cuts = @ \ {n}]
           dead(n) == Unreachable(viewed(n).st)
           cut(n) == [i(n) EXCEPT !.pc = "cut", !.cuts = dead(n)]
<1>1. PICK n \in inv[s].cuts :
        /\ inv[s].pc = "skip"
        /\ \/ Continue(s, i(n))
           \/ Continue(s, cut(n))
           \/ Continue(s, AfterPrune(i(n)))
  BY DEF persist_skip
<1>2. /\ inv[s] \in Invocation /\ n \in Nodes /\ "skipped" \in NodeStatus
      /\ inv[s].cuts \ {n} \subseteq Nodes
      /\ Sound(inv[s], row.gen, everSettled) /\ everSettled \subseteq everSettled'
  BY CausesGrow DEF TypeOK, Invocation, NodeStatus, Grounded
<1>3. /\ i(n) \in Invocation /\ i(n).pc = "skip" /\ i(n).out = inv[s].out
      /\ i(n).view.out = inv[s].view.out /\ i(n).cuts = inv[s].cuts \ {n}
  <2>1. i(n) \in Invocation
    BY <1>2, ViewStatusType
  <2>2. /\ i(n).pc = "skip" /\ i(n).out = inv[s].out
        /\ i(n).view.out = inv[s].view.out /\ i(n).cuts = inv[s].cuts \ {n}
    BY <1>1, <1>2 DEF Invocation, View
  <2>3. QED
    BY <2>1, <2>2
<1>4. dead(n) \subseteq Targets
  BY SkipsAreTargets DEF Unreachable
<1> HIDE DEF i, dead
<1>5. cut(n).pc = "cut" /\ cut(n).out = i(n).out /\ cut(n).view = i(n).view
      /\ cut(n).cuts = dead(n)
  BY <1>3 DEF Invocation
<1> HIDE DEF cut
<1>6. everSettled' # {} /\ i(n).out \subseteq Targets
      /\ \A m \in Nodes : i(n).view.out[m] \subseteq Targets
  BY <1>1, <1>2, <1>3 DEF Sound
<1>7. /\ Sound(i(n), row'.gen, everSettled')
      /\ Sound(cut(n), row'.gen, everSettled')
      /\ Sound(AfterPrune(i(n)), row'.gen, everSettled')
  <2>1. Sound(i(n), row'.gen, everSettled')
    BY <1>1, <1>2, <1>3, <1>6 DEF Sound
  <2>2. Sound(cut(n), row'.gen, everSettled')
    BY <1>4, <1>5, <1>6 DEF Sound
  <2>3. QED
    BY <1>3, <1>6, <2>1, <2>2, SoundAfterPrune
<1>8. QED
  BY <1>1, <1>7 DEF MovesSoundly

LEMMA CutSound ==
  ASSUME TypeOK, Grounded, [Next]_vars, NEW s \in Slots, persist_unreachable(s)
  PROVE  MovesSoundly(s)
<1> DEFINE i(n) == [inv[s] EXCEPT !.view.st[n] = "unreachable", !.cuts = @ \ {n}]
<1>1. PICK n \in inv[s].cuts :
        /\ inv[s].pc = "cut"
        /\ Continue(s, i(n)) \/ Continue(s, AfterPrune(i(n)))
  BY DEF persist_unreachable
<1>2. /\ inv[s] \in Invocation /\ n \in Nodes /\ "unreachable" \in NodeStatus
      /\ inv[s].cuts \ {n} \subseteq Nodes
      /\ Sound(inv[s], row.gen, everSettled) /\ everSettled \subseteq everSettled'
  BY CausesGrow DEF TypeOK, Invocation, NodeStatus, Grounded
<1>3. /\ i(n) \in Invocation /\ i(n).pc = "cut" /\ i(n).out = inv[s].out
      /\ i(n).view.out = inv[s].view.out /\ i(n).cuts = inv[s].cuts \ {n}
  <2>1. i(n) \in Invocation
    BY <1>2, ViewStatusType
  <2>2. /\ i(n).pc = "cut" /\ i(n).out = inv[s].out
        /\ i(n).view.out = inv[s].view.out /\ i(n).cuts = inv[s].cuts \ {n}
    BY <1>1, <1>2 DEF Invocation, View
  <2>3. QED
    BY <2>1, <2>2
<1> HIDE DEF i
<1>4. everSettled' # {} /\ i(n).out \subseteq Targets
      /\ \A m \in Nodes : i(n).view.out[m] \subseteq Targets
  BY <1>1, <1>2, <1>3 DEF Sound
<1>5. Sound(i(n), row'.gen, everSettled')
  BY <1>1, <1>2, <1>3, <1>4 DEF Sound
<1>6. Sound(AfterPrune(i(n)), row'.gen, everSettled')
  BY <1>3, <1>4, SoundAfterPrune
<1>7. QED
  BY <1>1, <1>5, <1>6 DEF MovesSoundly

LEMMA InvokeSound ==
  ASSUME TypeOK, Grounded, Frontier, NEW s \in Slots, invoke_node(s)
  PROVE  MovesSoundly(s)
<1>0. /\ row \in Row /\ row.gen \in [Nodes -> Nat] /\ inv[s] \in Invocation
      /\ inv[s].todo \subseteq Nodes /\ Sound(inv[s], row.gen, everSettled)
  BY DEF TypeOK, Row, Invocation, Grounded
<1> DEFINE i(n) == [inv[s] EXCEPT !.todo = @ \ {n}, !.view.st[n] = "running"]
           failing(n) == [i(n) EXCEPT !.pc = "fail", !.node = n]
           sending(n) == [i(n) EXCEPT !.pc = "send", !.node = n, !.count = row.gen[n] + 1]
<1>1. PICK n \in inv[s].todo :
        /\ inv[s].pc = "dispatch" /\ everSettled' = everSettled
        /\ \/ Continue(s, AfterDispatch(i(n)))
           \/ n \in Refused /\ Continue(s, failing(n))
           \/ /\ row' = [row EXCEPT !.st[n] = "running", !.gen[n] = @ + 1]
              /\ Continue(s, sending(n))
  BY DEF invoke_node, _check_release_gate, KeepRow
<1>2. /\ n \in Nodes /\ "running" \in NodeStatus /\ inv[s].todo \ {n} \subseteq Nodes
      /\ Preds(n) \subseteq everSettled
  BY <1>0, <1>1 DEF NodeStatus, Frontier, TodoReady, Dispatching
<1>3. /\ i(n) \in Invocation /\ i(n).out = inv[s].out
      /\ i(n).view.out = inv[s].view.out
  <2>1. i(n) \in Invocation
    BY <1>0, <1>2, ViewStatusType
  <2>2. i(n).out = inv[s].out /\ i(n).view.out = inv[s].view.out
    BY <1>0, <1>2 DEF Invocation, View
  <2>3. QED
    BY <2>1, <2>2
<1> HIDE DEF i
<1>4. i(n).out \subseteq Targets /\ \A m \in Nodes : i(n).view.out[m] \subseteq Targets
  BY <1>0, <1>3 DEF Sound
<1>5. /\ failing(n).pc = "fail" /\ failing(n).node = n
      /\ failing(n).out = i(n).out /\ failing(n).view = i(n).view
      /\ sending(n).pc = "send" /\ sending(n).node = n
      /\ sending(n).out = i(n).out /\ sending(n).view = i(n).view
  BY <1>3 DEF Invocation
<1> HIDE DEF failing, sending
<1>6. Sound(AfterDispatch(i(n)), row'.gen, everSettled')
  BY <1>3, <1>4, SoundAfterDispatch
<1>7. n \in Refused => Sound(failing(n), row'.gen, everSettled')
  BY <1>1, <1>2, <1>4, <1>5 DEF Sound
<1>8. ASSUME row' = [row EXCEPT !.st[n] = "running", !.gen[n] = @ + 1]
      PROVE  Sound(sending(n), row'.gen, everSettled')
  <2>1. row'.gen[n] > 0
    BY <1>0, <1>2, <1>8 DEF Row
  <2>2. QED
    BY <1>4, <1>5, <2>1 DEF Sound
<1>9. QED
  BY <1>1, <1>6, <1>7, <1>8 DEF MovesSoundly

LEMMA InvocationsSound ==
  ASSUME TypeOK, Grounded, Frontier, [Next]_vars
  PROVE  \A t \in Slots : Sound(inv'[t], row'.gen, everSettled')
<1>1. ASSUME NEW s \in Slots, MovesSoundly(s)
      PROVE  \A t \in Slots : Sound(inv'[t], row'.gen, everSettled')
  <2>1. \A t \in Slots : Sound(inv[t], row'.gen, everSettled')
    BY SoundStays DEF TypeOK, Grounded
  <2>2. PICK j : Continue(s, j) /\ Sound(j, row'.gen, everSettled')
    BY <1>1 DEF MovesSoundly
  <2>3. inv'[s] = j /\ \A t \in Slots \ {s} : inv'[t] = inv[t]
    BY <2>2 DEF Continue, TypeOK
  <2>4. QED
    BY <2>1, <2>2, <2>3
<1>2. CASE RowStep
  <2>1. PICK s \in Slots :
          \/ start_write(s) \/ resume_write(s) \/ record_completion(s)
          \/ evaluate_condition(s) \/ persist_skip(s) \/ persist_unreachable(s)
          \/ reload(s) \/ invoke_node(s) \/ schedule_retry(s) \/ fail_node(s)
          \/ _finalize_execution(s) \/ ensure_running(s)
          \/ cancel_node(s) \/ cancel_write(s)
          \/ unstall(s) \/ _fail_stuck(s)
    BY <1>2 DEF RowStep
  <2>2. MovesSoundly(s)
    BY <2>1, PlainStepSound, RecordSound, EvaluateSound, SkipSound, CutSound, InvokeSound
  <2>3. QED
    BY <1>1, <2>2
<1>3. ASSUME NEW s \in Slots, send_message(s) \/ publish_terminal(s)
      PROVE  \A t \in Slots : Sound(inv'[t], row'.gen, everSettled')
  <2>1. MovesSoundly(s)
    BY <1>3, PlainStepSound
  <2>2. QED
    BY <1>1, <2>1
<1>4. CASE handler \/ _process_execution
  BY <1>1, <1>4, HandlerSound, SweepSound
<1>5. CASE crash
  <2>1. PICK s \in Slots : Continue(s, Idle)
    BY <1>5 DEF crash
  <2>2. MovesSoundly(s)
    BY <2>1, SoundIdle DEF MovesSoundly
  <2>3. QED
    BY <1>1, <2>2
<1>6. CASE inv' = inv
  <2>1. \A t \in Slots : Sound(inv[t], row'.gen, everSettled')
    BY SoundStays DEF TypeOK, Grounded
  <2>2. QED
    BY <1>6, <2>1
<1>7. CASE WorkerStep \/ worker_crash \/ cancelExecution \/ resumeExecution \/ replicate
           \/ UNCHANGED vars
  <2>1. inv' = inv
    BY <1>7 DEF WorkerStep, _persist_node_completion, emit_completed, emit_failed, worker_crash,
                WorkerFrame, cancelExecution, resumeExecution, replicate, vars
  <2>2. QED
    BY <1>6, <2>1
<1>8. QED
  BY <1>2, <1>3, <1>4, <1>5, <1>7 DEF Next, InvocationStep

(***************************************************************************)
(* What a step leaves in the row, the queue and the bus                    *)
(***************************************************************************)
LEMMA RecordedOutputs ==
  ASSUME TypeOK, Grounded, NEW n \in Nodes, NEW o, o \subseteq Targets, RecordCompletion(n, o)
  PROVE  \A k \in Nodes : row'.out[k] \subseteq Targets
<1>1. row \in Row /\ \A k \in Nodes : row.out[k] \subseteq Targets
  BY DEF TypeOK, Grounded
<1>2. CASE row' = row
  BY <1>1, <1>2
<1>3. CASE row' = [row EXCEPT !.st[n] = "completed", !.out[n] = o]
  <2>1. row'.out = [row.out EXCEPT ![n] = o]
    BY <1>1, <1>3 DEF Row
  <2>2. QED
    BY <1>1, <2>1 DEF Row
<1>4. QED
  BY <1>2, <1>3 DEF RecordCompletion, KeepRow

\* What a worker's output may prune is a target.
LEMMA OutputsAreTargets == \A n : CondTargets(n) \subseteq Targets
  BY StepRunnerAssumption, EdgesAssumption DEF CondTargets, Targets, Preds

LEMMA OutputsStep ==
  ASSUME TypeOK, Grounded, [Next]_vars
  PROVE  \A k \in Nodes : row'.out[k] \subseteq Targets
<1>0. row \in Row /\ \A k \in Nodes : row.out[k] \subseteq Targets
  BY DEF TypeOK, Grounded
<1>1. CASE row'.out = row.out
  BY <1>0, <1>1
<1>2. /\ KeepRow => row'.out = row.out
      /\ \A v : SetExec(v) => row'.out = row.out
      /\ \A n, v : SetNode(n, v) => row'.out = row.out
  BY <1>0 DEF KeepRow, SetExec, SetNode, Row
<1>3. ASSUME NEW s \in Slots, record_completion(s)
      PROVE  \A k \in Nodes : row'.out[k] \subseteq Targets
  <2>1. /\ RecordCompletion(inv[s].node, inv[s].out) /\ inv[s].node \in Nodes
        /\ inv[s].out \subseteq Targets
    BY <1>3 DEF record_completion, TypeOK, Invocation, Grounded, Sound
  <2>2. QED
    BY <2>1, RecordedOutputs
<1>4. CASE _persist_node_completion
  <2>1. PICK m \in queue : \E out \in SUBSET CondTargets(m.node) :
          m.node \in Nodes /\ RecordCompletion(m.node, out)
    BY <1>4 DEF _persist_node_completion, PersistResult, TypeOK, Message
  <2>2. QED
    BY <2>1, OutputsAreTargets, RecordedOutputs
<1>5. ASSUME NEW s \in Slots,
             invoke_node(s) \/ schedule_retry(s) \/ unstall(s) \/ fail_node(s)
      PROVE  row'.out = row.out
  BY <1>0, <1>5 DEF invoke_node, schedule_retry, unstall, fail_node, KeepRow, Row
<1>6. ASSUME NEW s \in Slots,
             \/ start_write(s) \/ resume_write(s) \/ evaluate_condition(s) \/ reload(s)
             \/ ensure_running(s) \/ cancel_write(s) \/ _fail_stuck(s)
             \/ persist_skip(s) \/ persist_unreachable(s) \/ cancel_node(s)
             \/ _finalize_execution(s)
      PROVE  row'.out = row.out
  BY <1>2, <1>6 DEF start_write, resume_write, evaluate_condition, reload, ensure_running,
                    cancel_write, _fail_stuck, persist_skip, persist_unreachable,
                    cancel_node, _finalize_execution
<1>7. CASE RowStep
  BY <1>1, <1>3, <1>5, <1>6, <1>7 DEF RowStep
<1>8. CASE cancelExecution
  BY <1>1, <1>2, <1>8 DEF cancelExecution
<1>9. CASE handler \/ _process_execution \/ emit_completed \/ emit_failed \/ worker_crash
           \/ resumeExecution \/ crash \/ replicate \/ UNCHANGED vars
           \/ \E s \in Slots : send_message(s) \/ publish_terminal(s)
  <2>1. row' = row
    BY <1>9 DEF handler, _process_execution, emit_completed, emit_failed, worker_crash,
                resumeExecution, crash, replicate, send_message, publish_terminal, KeepRow, vars
  <2>2. QED
    BY <1>1, <2>1
<1>10. QED
  BY <1>4, <1>7, <1>8, <1>9 DEF Next, InvocationStep, WorkerStep

\* A node of the row runs only after a dispatch.
LEMMA RunningStep ==
  ASSUME TypeOK, Grounded, [Next]_vars
  PROVE  \A n \in Nodes : row'.st[n] = "running" \/ replica'.st[n] = "running" => row'.gen[n] > 0
<1>0. row.st \in [Nodes -> NodeStatus] /\ row.gen \in [Nodes -> Nat]
  BY DEF TypeOK, Row
<1>1. ASSUME NEW n \in Nodes, row'.st[n] = "running", row.st[n] # "running"
      PROVE  row'.gen[n] > 0
  <2>1. PICK s \in Slots, k \in Nodes : Dispatched(s, k)
    BY <1>0, <1>1, RowEffect DEF NodeEffect, Kept, Marked, Retried, NodeStatus
  <2>2. QED
    BY <1>0, <1>1, <2>1 DEF Dispatched
<1>2. \A n \in Nodes : row.st[n] = "running" \/ replica.st[n] = "running" => row'.gen[n] > 0
  BY CausesGrow DEF Grounded
<1>3. QED
  BY <1>1, <1>2, ExecutionEffect

\* Whoever holds a message for a node holds one for a dispatched node, on the queue and
\* on the bus.
LEMMA MessagesStep ==
  ASSUME TypeOK, Grounded, [Next]_vars
  PROVE  /\ \A m \in queue' : row'.gen[m.node] > 0 /\ m.out \subseteq Targets
         /\ \A e \in events' : /\ e.kind \in {"completed", "failed"} => row'.gen[e.node] > 0
                               /\ e.kind = "completed" => e.out \subseteq Targets
<1> DEFINE Carried(m) == row'.gen[m.node] > 0 /\ m.out \subseteq Targets
           Delivered(e) == /\ e.kind \in {"completed", "failed"} => row'.gen[e.node] > 0
                           /\ e.kind = "completed" => e.out \subseteq Targets
<1>0. \A m \in queue : m.node \in Nodes /\ Carried(m)
  BY CausesGrow DEF TypeOK, Message, Grounded
<1>1. \A e \in events : Delivered(e)
  <2>1. \A e \in events : e.kind \in {"completed", "failed"} => e.node \in Nodes
    BY DEF TypeOK, Event
  <2>2. QED
    BY <2>1, CausesGrow DEF Grounded
<1>2. CASE queue' \subseteq queue /\ events' \subseteq events
  BY <1>0, <1>1, <1>2
<1>3. ASSUME NEW s \in Slots, send_message(s)
      PROVE  (\A m \in queue' : Carried(m)) /\ \A e \in events' : Delivered(e)
  <2> DEFINE q == [node |-> inv[s].node, gen |-> inv[s].count, stage |-> "queued", out |-> {}]
  <2>1. inv[s].node \in Nodes /\ row.gen[inv[s].node] > 0
    BY <1>3 DEF send_message, TypeOK, Invocation, Grounded, Sound
  <2>2. Carried(q)
    BY <2>1, CausesGrow
  <2>3. queue' = queue \cup {q} /\ events' = events
    BY <1>3 DEF send_message
  <2> HIDE DEF q
  <2>4. QED
    BY <1>0, <1>1, <2>2, <2>3
<1>4. CASE _persist_node_completion
  <2>0. PICK m \in queue : \E out \in SUBSET CondTargets(m.node) :
          /\ queue' = (queue \ {m}) \cup {[m EXCEPT !.stage = "persisted", !.out = out]}
          /\ events' = events
    BY <1>4 DEF _persist_node_completion
  <2>1. PICK out \in SUBSET CondTargets(m.node) :
          /\ queue' = (queue \ {m}) \cup {[m EXCEPT !.stage = "persisted", !.out = out]}
          /\ events' = events
    BY <2>0
  <2> DEFINE q == [m EXCEPT !.stage = "persisted", !.out = out]
  <2>2. q.node = m.node /\ q.out = out
    BY DEF TypeOK, Message
  <2>3. queue' = (queue \ {m}) \cup {q}
    BY <2>1
  <2> HIDE DEF q
  <2>4. Carried(q)
    BY <1>0, <2>2, OutputsAreTargets
  <2>5. QED
    BY <1>0, <1>1, <2>1, <2>3, <2>4
<1>5. CASE emit_completed
  <2>1. PICK m \in queue :
          /\ events' = events \cup {[kind |-> "completed", node |-> m.node, gen |-> m.gen,
                                     out |-> m.out]}
          /\ queue' = queue \ {m}
    BY <1>5 DEF emit_completed
  <2>2. QED
    BY <1>0, <1>1, <2>1
<1>6. CASE emit_failed
  <2>1. PICK m \in queue, error \in Errors :
          /\ events' = events \cup {[kind |-> "failed", node |-> m.node, gen |-> m.gen,
                                     err |-> error]}
          /\ queue' = queue \ {m}
    BY <1>6 DEF emit_failed
  <2>2. QED
    BY <1>0, <1>1, <2>1
<1>7. CASE worker_crash
  <2>1. PICK m \in queue :
          /\ \/ queue' = queue \ {m}
             \/ queue' = (queue \ {m}) \cup {[m EXCEPT !.stage = "queued", !.out = {}]}
          /\ events' = events
    BY <1>7 DEF worker_crash
  <2> DEFINE q == [m EXCEPT !.stage = "queued", !.out = {}]
  <2>2. q.node = m.node /\ q.out = {}
    BY DEF TypeOK, Message
  <2>3. queue' = queue \ {m} \/ queue' = (queue \ {m}) \cup {q}
    BY <2>1
  <2> HIDE DEF q
  <2>4. Carried(q)
    BY <1>0, <2>2
  <2>5. QED
    BY <1>0, <1>1, <2>1, <2>3, <2>4
<1>8. CASE cancelExecution \/ resumeExecution
  <2>1. \/ events' = events \cup {[kind |-> "cancel"]}
        \/ events' = events \cup {[kind |-> "resume"]}
    BY <1>8 DEF cancelExecution, resumeExecution
  <2>2. queue' = queue
    BY <1>8 DEF cancelExecution, resumeExecution
  <2>3. QED
    BY <1>0, <1>1, <2>1, <2>2
<1>9. CASE RowStep \/ handler \/ _process_execution \/ crash \/ replicate \/ UNCHANGED vars
           \/ \E s \in Slots : publish_terminal(s)
  <2>1. queue' = queue /\ events' \subseteq events
    BY <1>9 DEF RowStep, handler, Consume, _process_execution, crash, replicate, vars,
                publish_terminal
  <2>2. QED
    BY <1>2, <2>1
<1>10. QED
  BY <1>3, <1>4, <1>5, <1>6, <1>7, <1>8, <1>9 DEF Next, InvocationStep, WorkerStep

LEMMA GroundedStep ==
  ASSUME TypeOK, Grounded, Frontier, [Next]_vars
  PROVE  Grounded'
<1>1. \A n \in Nodes : row'.out[n] \subseteq Targets /\ replica'.out[n] \subseteq Targets
  BY OutputsStep, ExecutionEffect DEF Grounded
<1>2. QED
  BY <1>1, RunningStep, MessagesStep, InvocationsSound DEF Grounded

LEMMA GroundedInitially ==
  ASSUME Init
  PROVE  Grounded
<1>1. /\ row = InitRow /\ replica = InitRow /\ queue = {} /\ events = {[kind |-> "start"]}
      /\ inv = [s \in Slots |-> Idle]
  BY DEF Init
<1>2. \A n \in Nodes : InitRow.st[n] = "pending" /\ InitRow.out[n] = {}
  BY DEF InitRow
<1>3. \A s \in Slots : Sound(inv[s], row.gen, everSettled)
  BY <1>1, SoundIdle
<1>4. QED
  BY <1>1, <1>2, <1>3 DEF Grounded

LEMMA GroundedHolds == Spec => []Grounded
<1>1. Init => Grounded
  BY GroundedInitially
<1>2. TypeOK /\ Frontier /\ Grounded /\ [Next]_vars => Grounded'
  BY GroundedStep
<1>3. QED
  BY <1>1, <1>2, Invariants, TypeCorrect, PTL DEF Spec

(***************************************************************************)
(* Every step is a step of Workflow, or leaves it alone                    *)
(***************************************************************************)
LEMMA SourcesAreTheSame == \A n : W!Sources(n) = Preds(n)
  BY DEF W!Sources, Preds

LEMMA KeptImplements ==
  ASSUME Kept, UNCHANGED published
  PROVE  UNCHANGED W!vars
  BY DEF Kept, HistoryKept, W!vars

\* Dispatched: pending nodes are paid for, and what is ready is settled before.
LEMMA DispatchImplements ==
  ASSUME TypeOK, Budgets, Frontier, UNCHANGED published,
         NEW s \in Slots, NEW n \in Nodes, Dispatched(s, n)
  PROVE  W!Dispatch(n)
<1>1. row.gen[n] \in Nat /\ grants[n] \in Nat
  BY DEF TypeOK, Row
<1>2. row.gen[n] + 1 <= 1 + grants[n]
  BY DEF Dispatched, Budgets, PendingPaid
<1>3. row.gen[n] <= grants[n]
  BY <1>1, <1>2
<1>4. Preds(n) \subseteq everSettled
  BY DEF Dispatched, Frontier, TodoReady, Dispatching
<1>5. QED
  BY <1>3, <1>4, SourcesAreTheSame DEF W!Dispatch, Dispatched, HistoryKept

\* Retried: the retry is of an attempt that was made.
LEMMA GrantImplements ==
  ASSUME TypeOK, Grounded, UNCHANGED published,
         NEW s \in Slots, schedule_retry(s) \/ unstall(s)
  PROVE  (\E n \in Nodes : W!Grant(n)) \/ UNCHANGED W!vars
<1> DEFINE n == inv[s].node
<1>1. n \in Nodes /\ row.gen[n] > 0 /\ row \in Row
  BY DEF schedule_retry, unstall, TypeOK, Invocation, Grounded, Sound
<1>2. \/ row' = row /\ UNCHANGED <<grants, everSettled, everTerminal>>
      \/ /\ row' = [row EXCEPT !.st[n] = "pending", !.rc[n] = inv[s].count + 1]
         /\ grants' = [grants EXCEPT ![n] = @ + 1]
         /\ UNCHANGED <<everSettled, everTerminal>>
  BY DEF schedule_retry, unstall, KeepRow
<1> HIDE DEF n
<1>3. row'.gen = row.gen
  BY <1>1, <1>2 DEF Row
<1>4. QED
  BY <1>1, <1>2, <1>3 DEF W!Grant, W!vars

\* Whoever records a completion, handler or worker, has a dispatch.
LEMMA CompleteImplements ==
  ASSUME TypeOK, UNCHANGED <<grants, published>>,
         NEW n \in Nodes, row.gen[n] > 0, NEW o, RecordCompletion(n, o)
  PROVE  W!Complete(n) \/ UNCHANGED W!vars
<1>1. row'.gen = row.gen
  BY DEF RecordCompletion, KeepRow, TypeOK, Row
<1>2. QED
  BY <1>1 DEF RecordCompletion, KeepRow, W!Complete, W!Settle, W!vars

\* Pruning: only targets, and only after a completion.
LEMMA PruneImplements ==
  ASSUME TypeOK, Grounded, UNCHANGED published,
         NEW s \in Slots, persist_skip(s) \/ persist_unreachable(s)
  PROVE  \E n \in Nodes : W!Prune(n)
<1>1. PICK n \in inv[s].cuts, v \in {"skipped", "unreachable"} :
        inv[s].pc \in {"skip", "cut"} /\ SetNode(n, v) /\ UNCHANGED grants
  BY DEF persist_skip, persist_unreachable
<1>2. n \in Targets /\ everSettled # {}
  BY <1>1 DEF Grounded, Sound
<1>3. /\ row'.gen = row.gen /\ everSettled' = everSettled \cup {n}
      /\ everTerminal' = everTerminal \cup {n}
  BY <1>1 DEF SetNode, TypeOK, Row, Settled, Terminal
<1>4. QED
  BY <1>1, <1>2, <1>3, SourcesAreTheSame DEF Targets, W!Prune, W!Settle

\* A terminal failure is that of an attempt, or of a refused node that was ready.
LEMMA FailImplements ==
  ASSUME TypeOK, Grounded, UNCHANGED published, NEW s \in Slots, fail_node(s)
  PROVE  \E n \in Nodes : W!Fail(n)
<1> DEFINE n == inv[s].node
<1>1. /\ n \in Nodes
      /\ row.gen[n] > 0 \/ n \in Refused
      /\ Preds(n) \subseteq everSettled
  BY DEF fail_node, TypeOK, Invocation, Grounded, Sound
<1>2. /\ n \in Nodes /\ row'.gen = row.gen /\ everTerminal' = everTerminal \cup {n}
      /\ UNCHANGED <<grants, everSettled>>
  BY DEF fail_node, TypeOK, Invocation, Row
<1> HIDE DEF n
<1>3. W!Fail(n)
  BY <1>1, <1>2, SourcesAreTheSame DEF W!Fail
<1>4. QED
  BY <1>2, <1>3

\* Completion is announced by an invocation that has seen every node terminal.
LEMMA AnnounceImplements ==
  ASSUME TypeOK, Completion, NEW s \in Slots, publish_terminal(s)
  PROVE  W!Announce \/ UNCHANGED W!vars
<1>1. row' = row /\ UNCHANGED <<grants, everSettled, everTerminal>>
  BY DEF publish_terminal, KeepRow
<1>2. published \in [completed : 0..2, failed : 0..2]
  BY DEF TypeOK
<1>3. CASE inv[s].pc = "announceCompleted"
  <2>1. published'.completed > 0
    BY <1>2, <1>3 DEF publish_terminal, Bump
  <2>2. everTerminal = Nodes
    BY <1>3 DEF Completion, AnnouncedTerminal
  <2>3. QED
    BY <1>1, <2>1, <2>2 DEF W!Announce
<1>4. CASE inv[s].pc # "announceCompleted"
  <2>1. published'.completed = published.completed
    BY <1>2, <1>4 DEF publish_terminal
  <2>2. QED
    BY <1>1, <2>1 DEF W!vars
<1>5. QED
  BY <1>3, <1>4

LEMMA RefinementStep ==
  ASSUME TypeOK, Budgets, Frontier, Completion, Grounded, [Next]_vars
  PROVE  W!Next \/ UNCHANGED W!vars
<1>0. /\ \A s \in Slots : inv[s].todo \subseteq Nodes
      /\ row \in Row
  BY DEF TypeOK, Invocation
<1>1. ASSUME NEW n \in Nodes, W!Dispatch(n) \/ W!Grant(n) \/ W!Complete(n)
                              \/ W!Prune(n) \/ W!Fail(n)
      PROVE  W!Next
  BY <1>1 DEF W!Next
<1>2. CASE RowStep
  <2>0. UNCHANGED published
    BY <1>2 DEF RowStep
  <2>1. ASSUME NEW s \in Slots, schedule_retry(s) \/ unstall(s)
        PROVE  W!Next \/ UNCHANGED W!vars
    BY <1>1, <2>0, <2>1, GrantImplements
  <2>2. ASSUME NEW s \in Slots, record_completion(s)
        PROVE  W!Next \/ UNCHANGED W!vars
    <3>1. /\ RecordCompletion(inv[s].node, inv[s].out) /\ UNCHANGED grants
          /\ inv[s].node \in Nodes /\ row.gen[inv[s].node] > 0
      BY <2>2 DEF record_completion, TypeOK, Invocation, Grounded, Sound
    <3>2. QED
      BY <1>1, <2>0, <3>1, CompleteImplements
  <2>3. ASSUME NEW s \in Slots, persist_skip(s) \/ persist_unreachable(s) \/ fail_node(s)
        PROVE  W!Next
    BY <1>1, <2>0, <2>3, PruneImplements, FailImplements
  <2>4. ASSUME NEW s \in Slots, invoke_node(s)
        PROVE  W!Next \/ UNCHANGED W!vars
    <3>1. Kept \/ \E t \in Slots, n \in Nodes : Dispatched(t, n)
      <4>1. PICK n \in inv[s].todo :
              /\ inv[s].pc = "dispatch"
              /\ \/ KeepRow
                 \/ /\ DispatchGuard(n)
                    /\ row' = [row EXCEPT !.st[n] = "running", !.gen[n] = @ + 1]
                    /\ UNCHANGED <<everSettled, everTerminal>>
        BY <2>4 DEF invoke_node
      <4>2. UNCHANGED grants /\ n \in Nodes
        BY <1>0, <2>4, <4>1 DEF invoke_node
      <4>3. CASE KeepRow
        BY <4>2, <4>3, WriteEffects
      <4>4. CASE ~KeepRow
        BY <1>0, <4>1, <4>2, <4>4 DEF Dispatched, HistoryKept, DispatchGuard, Row
      <4>5. QED
        BY <4>3, <4>4
    <3>2. QED
      BY <1>1, <2>0, <3>1, DispatchImplements, KeptImplements
  <2>5. ASSUME NEW s \in Slots, cancel_node(s)
        PROVE  UNCHANGED W!vars
    <3>1. UNCHANGED grants /\ \E n \in Nodes : SetNode(n, "cancelled")
      BY <1>0, <2>5 DEF cancel_node
    <3>2. row'.gen = row.gen /\ UNCHANGED <<grants, everSettled, everTerminal>>
      BY <1>0, <3>1 DEF SetNode, Row, Settled, Terminal
    <3>3. QED
      BY <2>0, <3>2 DEF W!vars
  <2>6. ASSUME NEW s \in Slots,
               \/ start_write(s) \/ resume_write(s) \/ evaluate_condition(s) \/ reload(s)
               \/ _finalize_execution(s) \/ ensure_running(s) \/ cancel_write(s)
               \/ _fail_stuck(s)
        PROVE  UNCHANGED W!vars
    <3>1. UNCHANGED grants /\ (KeepRow \/ \E v \in ExecStatus : SetExec(v))
      BY <2>6 DEF start_write, resume_write, evaluate_condition, reload, _finalize_execution,
                  ensure_running, cancel_write, _fail_stuck, ExecStatus
    <3>2. Kept
      BY <3>1, WriteEffects
    <3>3. QED
      BY <2>0, <3>2, KeptImplements
  <2>7. QED
    BY <1>2, <2>1, <2>2, <2>3, <2>4, <2>5, <2>6 DEF RowStep
<1>3. CASE \E s \in Slots : publish_terminal(s)
  BY <1>3, AnnounceImplements DEF W!Next
<1>4. CASE _persist_node_completion
  <2>1. PICK m \in queue : /\ UNCHANGED <<grants, published>>
                           /\ \E o : RecordCompletion(m.node, o)
    BY <1>4 DEF _persist_node_completion, PersistResult, WorkerFrame
  <2>2. m.node \in Nodes /\ row.gen[m.node] > 0
    BY <2>1 DEF TypeOK, Message, Grounded
  <2>3. QED
    BY <1>1, <2>1, <2>2, CompleteImplements
<1>5. CASE cancelExecution
  <2>1. SetExec("cancelled") /\ UNCHANGED <<grants, published>>
    BY <1>5 DEF cancelExecution
  <2>2. QED
    BY <2>1, WriteEffects, KeptImplements
<1>6. CASE handler \/ _process_execution \/ emit_completed \/ emit_failed \/ worker_crash
           \/ resumeExecution \/ crash \/ replicate \/ UNCHANGED vars
           \/ \E s \in Slots : send_message(s)
  <2>1. KeepRow /\ UNCHANGED <<grants, published>>
    BY <1>6 DEF handler, _process_execution, emit_completed, emit_failed, worker_crash,
                resumeExecution, crash, replicate, send_message, WorkerFrame, vars, KeepRow
  <2>2. QED
    BY <2>1, WriteEffects, KeptImplements
<1>7. QED
  BY <1>2, <1>3, <1>4, <1>5, <1>6 DEF Next, InvocationStep, WorkerStep

LEMMA RefinementInit ==
  ASSUME Init
  PROVE  W!Init
<1>1. published.completed = 0 /\ row.gen = [n \in Nodes |-> 0]
  BY DEF Init, InitRow
<1>2. QED
  BY <1>1 DEF Init, W!Init

\* The step runner keeps the promises of Workflow on every graph, with any number of
\* handlers and sweeps, on reads however stale, and whatever is lost, duplicated,
\* cancelled, stalled or crashes: the writes they all make of one row are a history in
\* which nothing is dispatched, granted a retry, completed, pruned, failed or announced
\* before its cause.
THEOREM ImplementsWorkflowHolds == Spec => ImplementsWorkflow
<1>1. Init => W!Init
  BY RefinementInit
<1>2. TypeOK /\ Budgets /\ Frontier /\ Completion /\ Grounded /\ [Next]_vars
      => [W!Next]_W!vars
  BY RefinementStep
<1>3. QED
  BY <1>1, <1>2, TypeCorrect, Invariants, GroundedHolds, PTL
     DEF Spec, ImplementsWorkflow, W!Spec

=============================================================================
