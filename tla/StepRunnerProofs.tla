-------------------------- MODULE StepRunnerProofs --------------------------
(***************************************************************************)
(* Proofs about StepRunner, for every workflow graph, every number of      *)
(* concurrent invocations and every bound.                                 *)
(***************************************************************************)
EXTENDS StepRunner, TLAPS

(***************************************************************************)
(* Typing of the operators the actions are built from                      *)
(***************************************************************************)
LEMMA InitRowType == InitRow \in Row
  BY DEF InitRow, Row, NodeStatus, ExecStatus

LEMMA IdleType == Idle \in Invocation
  BY DEF Idle, NoView, InitRow, Invocation, View, NodeStatus, Steps, Kinds

\* The invocations that begin a stage: everything else as in Idle.
LEMMA StageType ==
  ASSUME NEW p \in Steps, p \notin {"record", "send", "retry", "fail", "unstall"},
         NEW k \in Kinds
  PROVE  /\ [Idle EXCEPT !.pc = p, !.kind = k] \in Invocation
         /\ \A t \in SUBSET Nodes :
              [Idle EXCEPT !.pc = p, !.kind = k, !.todo = t] \in Invocation
         /\ \A v \in View : [Idle EXCEPT !.pc = p, !.kind = k, !.view = v] \in Invocation
         /\ \A t \in SUBSET Nodes, v \in View :
              [Idle EXCEPT !.pc = p, !.kind = k, !.view = v, !.todo = t] \in Invocation
  BY IdleType DEF Invocation, Idle

\* The invocations that begin a stage about one node.
LEMMA NodeStageType ==
  ASSUME NEW p \in Steps, NEW k \in Kinds, NEW n \in Nodes, NEW c \in Nat
  PROVE  /\ [Idle EXCEPT !.pc = p, !.kind = k, !.node = n] \in Invocation
         /\ [Idle EXCEPT !.pc = p, !.kind = k, !.node = n, !.count = c] \in Invocation
  BY IdleType DEF Invocation, Idle

\* An invocation that only moves on.
LEMMA ProgressType ==
  ASSUME NEW i \in Invocation
  PROVE  /\ [i EXCEPT !.pc = "announceFailed"] \in Invocation
         /\ \A n \in Nodes : [i EXCEPT !.todo = @ \ {n}] \in Invocation
  BY DEF Invocation, Steps

\* A status written into a view.
LEMMA ViewStatusType ==
  ASSUME NEW i \in Invocation, NEW n \in Nodes, NEW v \in NodeStatus,
         NEW t \in SUBSET Nodes
  PROVE  /\ [i.view EXCEPT !.st[n] = v] \in View
         /\ [i EXCEPT !.view.st[n] = v] \in Invocation
         /\ [i EXCEPT !.todo = t, !.view.st[n] = v] \in Invocation
         /\ [i EXCEPT !.view.st[n] = v, !.cuts = t] \in Invocation
         /\ [i EXCEPT !.view = [i.view EXCEPT !.st[n] = v], !.cuts = t] \in Invocation
<1>1. i.view \in View /\ [i.view.st EXCEPT ![n] = v] \in [Nodes -> NodeStatus]
  BY DEF Invocation, View
<1>2. [i.view EXCEPT !.st[n] = v] \in View
  BY <1>1 DEF View
<1>3. QED
  BY <1>1, <1>2 DEF Invocation, View

LEMMA ViewOfType == ASSUME NEW r \in Row PROVE ViewOf(r) \in View
  BY DEF ViewOf, Row, View

LEMMA ReadsType == ASSUME row \in Row, replica \in Row PROVE Reads \subseteq Row
  BY DEF Reads

LEMMA ContinueType ==
  ASSUME inv \in [Slots -> Invocation], NEW s \in Slots, NEW i \in Invocation,
         Continue(s, i)
  PROVE  inv' \in [Slots -> Invocation]
  BY DEF Continue

LEMMA SetNodeType ==
  ASSUME row \in Row, everSettled \subseteq Nodes, everTerminal \subseteq Nodes,
         NEW n \in Nodes, NEW v \in NodeStatus, SetNode(n, v)
  PROVE  row' \in Row /\ everSettled' \subseteq Nodes /\ everTerminal' \subseteq Nodes
  BY DEF SetNode, Row

LEMMA SetExecType ==
  ASSUME row \in Row, everSettled \subseteq Nodes, everTerminal \subseteq Nodes,
         NEW v \in ExecStatus, SetExec(v)
  PROVE  row' \in Row /\ everSettled' \subseteq Nodes /\ everTerminal' \subseteq Nodes
  BY DEF SetExec, Row

LEMMA RecordCompletionType ==
  ASSUME row \in Row, everSettled \subseteq Nodes, everTerminal \subseteq Nodes,
         NEW n \in Nodes, NEW o \in SUBSET Nodes, RecordCompletion(n, o)
  PROVE  row' \in Row /\ everSettled' \subseteq Nodes /\ everTerminal' \subseteq Nodes
<1>1. CASE row.st[n] = "completed"
  BY <1>1 DEF RecordCompletion, KeepRow
<1>2. CASE row.st[n] # "completed"
  <2>1. row' = [row EXCEPT !.st[n] = "completed", !.out[n] = o]
    BY <1>2 DEF RecordCompletion
  <2>2. /\ [row.st EXCEPT ![n] = "completed"] \in [Nodes -> NodeStatus]
        /\ [row.out EXCEPT ![n] = o] \in [Nodes -> SUBSET Nodes]
    BY DEF Row, NodeStatus
  <2>3. row' \in Row
    BY <2>1, <2>2 DEF Row
  <2>4. QED
    BY <1>2, <2>3 DEF RecordCompletion
<1>3. QED BY <1>1, <1>2

LEMMA ScheduleFrontierType ==
  ASSUME NEW v \in View, NEW k \in Kinds
  PROVE  schedule_frontier(k, v) \in Invocation
  BY StageType DEF schedule_frontier, find_ready_nodes, Steps

LEMMA ReconcileType ==
  ASSUME NEW r, ViewOf(r) \in View, NEW k \in Kinds
  PROVE  _reconcile_completed_edges(k, r) \in Invocation
  BY StageType DEF _reconcile_completed_edges, ToPrune, Steps

LEMMA AfterPruneType ==
  ASSUME NEW i \in Invocation
  PROVE  AfterPrune(i) \in Invocation
<1>1. CASE i.todo # {}
  <2>1. [i EXCEPT !.pc = "edges", !.cuts = {}] \in Invocation
    BY DEF Invocation, Steps
  <2>2. QED
    BY <1>1, <2>1 DEF AfterPrune
<1>2. CASE i.todo = {}
  <2>1. i.kind \in Kinds /\ i.view \in View
    BY DEF Invocation
  <2>2. QED
    BY <1>2, <2>1, ScheduleFrontierType, StageType DEF AfterPrune, Steps
<1>3. QED BY <1>1, <1>2

LEMMA AfterDispatchType ==
  ASSUME NEW i \in Invocation PROVE AfterDispatch(i) \in Invocation
  BY IdleType DEF AfterDispatch, Invocation, Steps, Kinds

(***************************************************************************)
(* Type correctness                                                        *)
(***************************************************************************)
\* What a step of an invocation may change.
RowStepType ==
  /\ row \in Row
  /\ inv \in [Slots -> Invocation]
  /\ grants \in [Nodes -> Nat]
  /\ everSettled \subseteq Nodes
  /\ everTerminal \subseteq Nodes

LEMMA RowTyped ==
  ASSUME TypeOK, NEW s \in Slots, NEW i \in Invocation, Continue(s, i),
         \/ KeepRow
         \/ \E v \in ExecStatus : SetExec(v)
         \/ \E n \in Nodes, v \in NodeStatus : SetNode(n, v)
         \/ \E n \in Nodes, o \in SUBSET Nodes : RecordCompletion(n, o),
         UNCHANGED grants
  PROVE  RowStepType'
<1>1. inv' \in [Slots -> Invocation]
  BY ContinueType DEF TypeOK
<1>2. row' \in Row /\ everSettled' \subseteq Nodes /\ everTerminal' \subseteq Nodes
  <2>1. row \in Row /\ everSettled \subseteq Nodes /\ everTerminal \subseteq Nodes
    BY DEF TypeOK
  <2>2. CASE KeepRow
    BY <2>1, <2>2 DEF KeepRow
  <2>3. QED
    BY <2>1, <2>2, SetExecType, SetNodeType, RecordCompletionType
<1>3. QED
  BY <1>1, <1>2 DEF RowStepType, TypeOK

LEMMA HandlerStepTyped ==
  ASSUME TypeOK, NEW s \in Slots,
         start_write(s) \/ resume_write(s) \/ record_completion(s) \/ reload(s)
  PROVE  RowStepType'
<1>0. /\ row \in Row /\ replica \in Row /\ inv[s] \in Invocation
      /\ Reads \subseteq Row
  BY ReadsType DEF TypeOK
<1>1. CASE start_write(s)
  <2> DEFINE i == IF find_root_nodes = {} THEN Idle
                  ELSE [Idle EXCEPT !.pc = "dispatch", !.kind = "start",
                                    !.todo = find_root_nodes]
  <2>1. i \in Invocation
    BY IdleType, StageType DEF find_root_nodes, Steps, Kinds
  <2>2. SetExec("running") /\ Continue(s, i) /\ UNCHANGED grants
    BY <1>1 DEF start_write
  <2>3. QED
    BY <2>1, <2>2, RowTyped DEF ExecStatus
<1>2. CASE resume_write(s)
  <2>1. ViewOf(inv[s].view) \in View /\ \A r \in Reads : ViewOf(r) \in View
    BY <1>0, ViewOfType DEF Invocation, View, ViewOf
  <2>2. PICK i \in Invocation : Continue(s, i)
    <3> DEFINE next(r) == _reconcile_completed_edges("resume", r)
    <3>1. next(inv[s].view) \in Invocation /\ \A r \in Reads : next(r) \in Invocation
      BY <2>1, ReconcileType DEF Kinds
    <3>2. Continue(s, next(inv[s].view)) \/ \E r \in Reads : Continue(s, next(r))
      BY <1>2 DEF resume_write
    <3>3. QED
      BY <3>1, <3>2
  <2>3. QED
    BY <1>2, <2>2, RowTyped DEF resume_write, ExecStatus
<1>3. CASE record_completion(s)
  <2> DEFINE i == inv[s]
             viewed == [i.view EXCEPT !.st[i.node] = "completed", !.out[i.node] = i.out]
             next == [Idle EXCEPT !.kind = i.kind, !.view = viewed,
                                  !.todo = IF i.out = {} THEN {} ELSE {i.node}]
  <2>1. i.node \in Nodes /\ i.out \subseteq Nodes /\ i.view \in View /\ i.kind \in Kinds
    BY <1>0, <1>3 DEF record_completion, Invocation
  <2>2. viewed \in View
    <3>1. /\ [i.view.st EXCEPT ![i.node] = "completed"] \in [Nodes -> NodeStatus]
          /\ [i.view.out EXCEPT ![i.node] = i.out] \in [Nodes -> SUBSET Nodes]
      BY <2>1 DEF View, NodeStatus
    <3>2. QED
      BY <2>1, <3>1 DEF View
  <2>3. next \in Invocation
    BY <2>1, <2>2, IdleType DEF Invocation, Idle, Steps
  <2>4. AfterPrune(next) \in Invocation
    BY <2>3, AfterPruneType
  <2>5. RecordCompletion(i.node, i.out) /\ Continue(s, AfterPrune(next)) /\ UNCHANGED grants
    BY <1>3 DEF record_completion
  <2>6. QED
    BY <2>1, <2>4, <2>5, RowTyped
<1>4. CASE reload(s)
  <2>1. PICK r \in Row : Continue(s, schedule_frontier(inv[s].kind, ViewOf(r)))
    BY <1>0, <1>4 DEF reload
  <2>2. schedule_frontier(inv[s].kind, ViewOf(r)) \in Invocation
    BY <1>0, ViewOfType, ScheduleFrontierType DEF Invocation
  <2>3. QED
    BY <1>4, <2>1, <2>2, RowTyped DEF reload
<1>5. QED
  BY <1>1, <1>2, <1>3, <1>4

LEMMA BranchStepTyped ==
  ASSUME TypeOK, NEW s \in Slots,
         evaluate_condition(s) \/ persist_skip(s) \/ persist_unreachable(s)
  PROVE  RowStepType'
<1>0. inv[s] \in Invocation /\ inv[s].todo \subseteq Nodes /\ inv[s].cuts \subseteq Nodes
      /\ inv[s].view \in View
  BY DEF TypeOK, Invocation
<1>1. CASE evaluate_condition(s)
  <2>1. PICK n \in inv[s].todo :
          /\ inv[s].pc = "edges"
          /\ Continue(s, [inv[s] EXCEPT !.pc = "skip", !.todo = @ \ {n},
                                        !.cuts = inv[s].view.out[n]])
          /\ KeepRow
          /\ UNCHANGED grants
    BY <1>1 DEF evaluate_condition
  <2>2. [inv[s] EXCEPT !.pc = "skip", !.todo = @ \ {n}, !.cuts = inv[s].view.out[n]]
          \in Invocation
    BY <1>0 DEF Invocation, View, Steps
  <2>3. QED
    BY <2>1, <2>2, RowTyped
<1>2. CASE persist_skip(s)
  <2> DEFINE viewed(n) == [inv[s].view EXCEPT !.st[n] = "skipped"]
             i(n) == [inv[s] EXCEPT !.view = viewed(n), !.cuts = @ \ {n}]
             dead(n) == Unreachable(viewed(n).st)
             next(n) == CASE i(n).cuts # {} -> i(n)
                          [] i(n).cuts = {} /\ dead(n) # {}
                               -> [i(n) EXCEPT !.pc = "cut", !.cuts = dead(n)]
                          [] OTHER -> AfterPrune(i(n))
  <2>1. PICK n \in inv[s].cuts : /\ SetNode(n, "skipped")
                                 /\ Continue(s, next(n))
                                 /\ UNCHANGED grants
    BY <1>2 DEF persist_skip
  <2>2. n \in Nodes /\ "skipped" \in NodeStatus
    BY <1>0 DEF NodeStatus
  <2>3. i(n) \in Invocation
    BY <1>0, <2>2, ViewStatusType
  <2>4. dead(n) \subseteq Nodes
    BY DEF Unreachable, propagate_skips
  <2>5. [i(n) EXCEPT !.pc = "cut", !.cuts = dead(n)] \in Invocation
    <3> HIDE DEF i, dead
    <3>1. QED
      BY <2>3, <2>4 DEF Invocation, Steps
  <2>6. next(n) \in Invocation
    <3> HIDE DEF i, dead
    <3>1. QED
      BY <2>3, <2>5, AfterPruneType
  <2>7. QED
    <3> HIDE DEF next
    <3>1. QED
      BY <2>1, <2>2, <2>6, RowTyped
<1>3. CASE persist_unreachable(s)
  <2> DEFINE i(n) == [inv[s] EXCEPT !.view.st[n] = "unreachable", !.cuts = @ \ {n}]
             next(n) == IF i(n).cuts # {} THEN i(n) ELSE AfterPrune(i(n))
  <2>1. PICK n \in inv[s].cuts : /\ SetNode(n, "unreachable")
                                 /\ Continue(s, next(n))
                                 /\ UNCHANGED grants
    BY <1>3 DEF persist_unreachable
  <2>2. n \in Nodes /\ "unreachable" \in NodeStatus
    BY <1>0 DEF NodeStatus
  <2>3. i(n) \in Invocation
    BY <1>0, <2>2, ViewStatusType
  <2>4. next(n) \in Invocation
    <3> HIDE DEF i
    <3>1. QED
      BY <2>3, AfterPruneType
  <2>5. QED
    <3> HIDE DEF next
    <3>1. QED
      BY <2>1, <2>2, <2>4, RowTyped
<1>4. QED
  BY <1>1, <1>2, <1>3

LEMMA DispatchStepTyped ==
  ASSUME TypeOK, NEW s \in Slots, invoke_node(s)
  PROVE  RowStepType'
<1>0. /\ inv[s] \in Invocation /\ inv[s].todo \subseteq Nodes
      /\ row \in Row /\ Reads \subseteq Row
  BY ReadsType DEF TypeOK, Invocation
<1> DEFINE i(n) == [inv[s] EXCEPT !.todo = @ \ {n}, !.view.st[n] = "running"]
<1>1. PICK n \in inv[s].todo :
        /\ inv[s].pc = "dispatch"
        /\ IF _check_release_gate(n)
           THEN /\ KeepRow
                /\ \E r \in Reads :
                     Continue(s, IF r.st[n] = "failed" THEN AfterDispatch(i(n))
                                 ELSE [i(n) EXCEPT !.pc = "fail", !.node = n])
           ELSE IF DispatchGuard(n)
           THEN /\ row' = [row EXCEPT !.st[n] = "running", !.gen[n] = @ + 1]
                /\ UNCHANGED <<everSettled, everTerminal>>
                /\ Continue(s, [i(n) EXCEPT !.pc = "send", !.node = n,
                                            !.count = row.gen[n] + 1])
           ELSE /\ KeepRow
                /\ Continue(s, AfterDispatch(i(n)))
        /\ UNCHANGED grants
  BY DEF invoke_node
<1>2. n \in Nodes /\ "running" \in NodeStatus /\ row.gen[n] + 1 \in Nat
  BY <1>0, <1>1 DEF NodeStatus, Row
<1>3. i(n) \in Invocation
  BY <1>0, <1>2, ViewStatusType
<1>4. /\ AfterDispatch(i(n)) \in Invocation
      /\ [i(n) EXCEPT !.pc = "fail", !.node = n] \in Invocation
      /\ [i(n) EXCEPT !.pc = "send", !.node = n, !.count = row.gen[n] + 1] \in Invocation
  <2> HIDE DEF i
  <2>1. QED
    BY <1>2, <1>3, AfterDispatchType DEF Invocation, Steps
<1> HIDE DEF i
<1>5. CASE KeepRow
  <2>1. PICK j \in Invocation : Continue(s, j)
    BY <1>1, <1>4
  <2>2. QED
    BY <1>1, <1>5, <2>1, RowTyped
<1>6. CASE ~KeepRow
  <2>1. /\ row' = [row EXCEPT !.st[n] = "running", !.gen[n] = @ + 1]
        /\ UNCHANGED <<everSettled, everTerminal>>
        /\ Continue(s, [i(n) EXCEPT !.pc = "send", !.node = n, !.count = row.gen[n] + 1])
    BY <1>1, <1>6
  <2>2. /\ [row.st EXCEPT ![n] = "running"] \in [Nodes -> NodeStatus]
        /\ [row.gen EXCEPT ![n] = @ + 1] \in [Nodes -> Nat]
    BY <1>0, <1>2 DEF Row
  <2>3. row' \in Row
    BY <1>0, <2>1, <2>2 DEF Row
  <2>4. inv' \in [Slots -> Invocation]
    BY <1>4, <2>1, ContinueType DEF TypeOK
  <2>5. QED
    BY <1>1, <2>1, <2>3, <2>4 DEF RowStepType, TypeOK
<1>7. QED
  BY <1>5, <1>6

LEMMA RetryStepTyped ==
  ASSUME TypeOK, NEW s \in Slots, schedule_retry(s) \/ unstall(s) \/ fail_node(s)
  PROVE  RowStepType'
<1> DEFINE n == inv[s].node
           c == inv[s].count + 1
<1>0. /\ inv[s] \in Invocation /\ row \in Row /\ n \in Nodes /\ c \in Nat
      /\ everSettled \subseteq Nodes /\ everTerminal \subseteq Nodes
  BY DEF TypeOK, Invocation, schedule_retry, unstall, fail_node
<1>1. /\ Idle \in Invocation
      /\ [Idle EXCEPT !.pc = "reload", !.kind = "sweep"] \in Invocation
      /\ [inv[s] EXCEPT !.pc = "announceFailed"] \in Invocation
  BY <1>0, IdleType, StageType, ProgressType DEF Steps, Kinds
<1>2. inv' \in [Slots -> Invocation]
  <2>1. PICK j \in Invocation : Continue(s, j)
    BY <1>1 DEF schedule_retry, unstall, fail_node
  <2>2. QED
    BY <2>1, ContinueType DEF TypeOK
<1>3. /\ [row.st EXCEPT ![n] = "pending"] \in [Nodes -> NodeStatus]
      /\ [row.st EXCEPT ![n] = "failed"] \in [Nodes -> NodeStatus]
  BY <1>0 DEF Row, NodeStatus
<1>4. /\ [row.rc EXCEPT ![n] = c] \in [Nodes -> Nat]
      /\ [grants EXCEPT ![n] = @ + 1] \in [Nodes -> Nat]
  BY <1>0 DEF Row, TypeOK
<1>5. ASSUME row' = [row EXCEPT !.st[n] = "pending", !.rc[n] = c],
             grants' = [grants EXCEPT ![n] = @ + 1],
             UNCHANGED <<everSettled, everTerminal>>
      PROVE  RowStepType'
  <2> HIDE DEF n, c
  <2>1. row' \in Row
    BY <1>0, <1>3, <1>4, <1>5 DEF Row
  <2>2. QED
    BY <1>0, <1>2, <1>4, <1>5, <2>1 DEF RowStepType
<1>6. CASE schedule_retry(s)
  BY <1>5, <1>6 DEF schedule_retry
<1>7. CASE unstall(s)
  <2>1. CASE row.st[n] = "running"
    BY <1>5, <1>7, <2>1 DEF unstall
  <2>2. CASE row.st[n] # "running"
    BY <1>2, <1>7, <2>2 DEF unstall, RowStepType, TypeOK, KeepRow
  <2>3. QED
    BY <2>1, <2>2
<1>8. CASE fail_node(s)
  <2>1. row' = [row EXCEPT !.st[n] = "failed", !.exec = "failed"]
    BY <1>8 DEF fail_node
  <2>2. row' \in Row
    <3> HIDE DEF n
    <3>1. QED
      BY <1>0, <1>3, <2>1 DEF Row, ExecStatus
  <2>3. QED
    BY <1>0, <1>2, <1>8, <2>2 DEF fail_node, RowStepType, TypeOK
<1>9. QED
  BY <1>6, <1>7, <1>8

LEMMA SettleStepTyped ==
  ASSUME TypeOK, NEW s \in Slots,
         \/ _finalize_execution(s) \/ ensure_running(s)
         \/ cancel_node(s) \/ cancel_write(s) \/ _fail_stuck(s)
  PROVE  RowStepType'
<1>0. inv[s] \in Invocation /\ inv[s].kind \in Kinds /\ inv[s].todo \subseteq Nodes
  BY DEF TypeOK, Invocation
<1>1. PICK j \in Invocation : Continue(s, j)
  <2>1. /\ Idle \in Invocation
        /\ [Idle EXCEPT !.pc = "announceCompleted", !.kind = inv[s].kind] \in Invocation
        /\ [inv[s] EXCEPT !.pc = "announceFailed"] \in Invocation
    BY <1>0, IdleType, StageType, ProgressType DEF Steps
  <2>2. \A n \in Nodes : [inv[s] EXCEPT !.todo = @ \ {n}] \in Invocation
    BY <1>0, ProgressType
  <2>3. QED
    BY <1>0, <2>1, <2>2 DEF _finalize_execution, ensure_running, cancel_node, cancel_write,
                      _fail_stuck
<1>2. /\ \/ KeepRow
         \/ \E v \in ExecStatus : SetExec(v)
         \/ \E n \in Nodes, v \in NodeStatus : SetNode(n, v)
      /\ UNCHANGED grants
  <2>1. {"completed", "running", "cancelled", "failed"} \subseteq ExecStatus
        /\ "cancelled" \in NodeStatus
    BY DEF ExecStatus, NodeStatus
  <2>2. QED
    BY <1>0, <2>1 DEF _finalize_execution, ensure_running, cancel_node, cancel_write,
                      _fail_stuck
<1>3. QED
  BY <1>1, <1>2, RowTyped

LEMMA HandlerTyped ==
  ASSUME TypeOK, handler
  PROVE  TypeOK'
<1>1. PICK s \in Handlers, e \in events, r \in Reads :
        /\ Consume(e)
        /\ \/ start_execution(s, e, r)
           \/ handle_node_completion(s, e, r)
           \/ handle_node_failure(s, e, r)
           \/ cancel_execution(s, e, r)
           \/ resume_execution(s, e, r)
        /\ KeepRow
        /\ UNCHANGED <<replica, queue, asked, stalls, published, grants>>
  BY DEF handler
<1>2. s \in Slots /\ e \in Event /\ r \in Row /\ ViewOf(r) \in View
  BY <1>1, ReadsType, ViewOfType DEF TypeOK, Slots
<1>3. events' \subseteq Event /\ faults' \in Nat
  BY <1>1 DEF TypeOK, Consume
<1>4. PICK i \in Invocation : Continue(s, i)
  <2>1. CASE start_execution(s, e, r)
    <3>1. [Idle EXCEPT !.pc = "start", !.kind = "start"] \in Invocation
      BY StageType DEF Steps, Kinds
    <3>2. QED
      BY <2>1, <3>1, IdleType DEF start_execution
  <2>2. CASE handle_node_completion(s, e, r)
    <3>1. e.node \in Nodes /\ e.out \subseteq Nodes
      BY <1>2, <2>2 DEF handle_node_completion, Event
    <3>2. [Idle EXCEPT !.pc = "record", !.kind = "completed", !.node = e.node,
                       !.out = e.out, !.view = ViewOf(r)] \in Invocation
      BY <1>2, <3>1, IdleType DEF Invocation, Idle, Steps, Kinds
    <3>3. QED
      BY <2>2, <3>2 DEF handle_node_completion
  <2>3. CASE handle_node_failure(s, e, r)
    <3>1. e.node \in Nodes
      BY <1>2, <2>3 DEF handle_node_failure, Event
    <3>2. r.rc[e.node] \in Nat
      BY <1>2, <3>1 DEF Row
    <3>3. \A p \in {"retry", "fail"} :
            [Idle EXCEPT !.pc = p, !.kind = "failed", !.node = e.node,
                         !.count = r.rc[e.node]] \in Invocation
      BY <3>1, <3>2, NodeStageType DEF Steps, Kinds
    <3>4. PICK p \in {"retry", "fail"} :
            Continue(s, IF r.st[e.node] = "failed" THEN Idle
                        ELSE [Idle EXCEPT !.pc = p, !.kind = "failed", !.node = e.node,
                                          !.count = r.rc[e.node]])
      BY <2>3 DEF handle_node_failure
    <3>5. QED
      BY <3>3, <3>4, IdleType
  <2>4. CASE cancel_execution(s, e, r)
    <3> DEFINE todo == {n \in Nodes : r.st[n] \in {"pending", "running"}}
    <3>1. todo \in SUBSET Nodes
      OBVIOUS
    <3>2. Continue(s, [Idle EXCEPT !.pc = "cancel", !.kind = "cancel", !.todo = todo])
      BY <2>4 DEF cancel_execution
    <3>3. QED
      <4> HIDE DEF todo
      <4>1. QED
        BY <3>1, <3>2, StageType DEF Steps, Kinds
  <2>5. CASE resume_execution(s, e, r)
    <3>1. [Idle EXCEPT !.pc = "restart", !.kind = "resume", !.view = ViewOf(r)]
            \in Invocation
      BY <1>2, StageType DEF Steps, Kinds
    <3>2. _reconcile_completed_edges("resume", r) \in Invocation
      BY <1>2, ReconcileType DEF Kinds
    <3>3. QED
      BY <2>5, <3>1, <3>2, IdleType DEF resume_execution
  <2>6. QED
    BY <1>1, <2>1, <2>2, <2>3, <2>4, <2>5
<1>5. inv' \in [Slots -> Invocation]
  BY <1>2, <1>4, ContinueType DEF TypeOK
<1>6. QED
  BY <1>1, <1>3, <1>5 DEF TypeOK, KeepRow

LEMMA SweepTyped ==
  ASSUME TypeOK, _process_execution
  PROVE  TypeOK'
<1>1. PICK s \in Watchdogs, r \in Reads :
        /\ \/ /\ Continue(s, _reconcile_completed_edges("sweep", r))
              /\ UNCHANGED stalls
           \/ _reconcile_or_fail_node(s, r)
           \/ /\ Continue(s, [Idle EXCEPT !.pc = "expire", !.kind = "failed"])
              /\ UNCHANGED stalls
        /\ KeepRow
        /\ UNCHANGED <<replica, queue, events, asked, faults, published, grants>>
  BY DEF _process_execution
<1>2. s \in Slots /\ r \in Row /\ ViewOf(r) \in View
  BY <1>1, ReadsType, ViewOfType DEF TypeOK, Slots
<1>3. /\ stalls' \in Nat
      /\ \E i \in Invocation : Continue(s, i)
  <2>1. CASE /\ Continue(s, _reconcile_completed_edges("sweep", r))
             /\ UNCHANGED stalls
    BY <1>2, <2>1, ReconcileType DEF Kinds, TypeOK
  <2>2. CASE _reconcile_or_fail_node(s, r)
    <3>1. PICK n \in Nodes :
            /\ stalls' = stalls + 1
            /\ IF unstall_budget(r.rc[n])
               THEN Continue(s, [Idle EXCEPT !.pc = "unstall", !.kind = "sweep",
                                             !.node = n, !.count = r.rc[n]])
               ELSE \E f \in Reads :
                      Continue(s, IF f.st[n] = "failed" THEN Idle
                                  ELSE [Idle EXCEPT !.pc = "fail", !.kind = "failed",
                                                    !.node = n])
      BY <2>2 DEF _reconcile_or_fail_node
    <3>2. r.rc[n] \in Nat
      BY <1>2 DEF Row
    <3>3. /\ [Idle EXCEPT !.pc = "unstall", !.kind = "sweep", !.node = n,
                          !.count = r.rc[n]] \in Invocation
          /\ [Idle EXCEPT !.pc = "fail", !.kind = "failed", !.node = n] \in Invocation
      BY <3>2, NodeStageType DEF Steps, Kinds
    <3>4. QED
      BY <3>1, <3>3, IdleType DEF TypeOK
  <2>3. CASE /\ Continue(s, [Idle EXCEPT !.pc = "expire", !.kind = "failed"])
             /\ UNCHANGED stalls
    BY <2>3, StageType DEF Steps, Kinds, TypeOK
  <2>4. QED
    BY <1>1, <2>1, <2>2, <2>3
<1>4. inv' \in [Slots -> Invocation]
  BY <1>2, <1>3, ContinueType DEF TypeOK
<1>5. QED
  BY <1>1, <1>3, <1>4 DEF TypeOK, KeepRow

LEMMA SignalTyped ==
  ASSUME TypeOK, NEW s \in Slots, send_message(s) \/ publish_terminal(s)
  PROVE  TypeOK'
<1>0. inv[s] \in Invocation
  BY DEF TypeOK
<1>1. inv' \in [Slots -> Invocation]
  <2>1. AfterDispatch(inv[s]) \in Invocation
    BY <1>0, AfterDispatchType
  <2>2. QED
    BY <2>1, IdleType, ContinueType DEF send_message, publish_terminal, TypeOK
<1>2. CASE send_message(s)
  <2>1. [node |-> inv[s].node, gen |-> inv[s].count, stage |-> "queued", out |-> {}]
          \in Message
    BY <1>0, <1>2 DEF send_message, Invocation, Message
  <2>2. queue' \subseteq Message
    BY <1>2, <2>1 DEF send_message, TypeOK
  <2>3. QED
    BY <1>1, <1>2, <2>2 DEF send_message, TypeOK, KeepRow
<1>3. CASE publish_terminal(s)
  <2>1. Bump(published.completed) \in 0..2 /\ Bump(published.failed) \in 0..2
    BY DEF TypeOK, Bump
  <2>2. published' \in [completed : 0..2, failed : 0..2]
    BY <1>3, <2>1 DEF publish_terminal, TypeOK
  <2>3. QED
    BY <1>1, <1>3, <2>2 DEF publish_terminal, TypeOK, KeepRow
<1>4. QED
  BY <1>2, <1>3

LEMMA WorkerTyped ==
  ASSUME TypeOK, WorkerStep \/ worker_crash
  PROVE  TypeOK'
<1>1. CASE _persist_node_completion
  <2>1. PICK m \in queue, out \in SUBSET Nodes :
          /\ out \subseteq CondTargets(m.node)
          /\ PersistResult(m.node, out)
          /\ queue' = (queue \ {m}) \cup {[m EXCEPT !.stage = "persisted", !.out = out]}
          /\ UNCHANGED <<events, faults>>
          /\ WorkerFrame
    BY <1>1 DEF _persist_node_completion, CondTargets
  <2>2. m \in Message /\ m.node \in Nodes /\ out \subseteq Nodes
    BY <2>1 DEF TypeOK, Message, CondTargets
  <2>3. row' \in Row /\ everSettled' \subseteq Nodes /\ everTerminal' \subseteq Nodes
    BY <2>1, <2>2, RecordCompletionType DEF PersistResult, TypeOK
  <2>4. queue' \subseteq Message
    BY <2>1, <2>2 DEF TypeOK, Message
  <2>5. QED
    BY <2>1, <2>3, <2>4 DEF TypeOK, WorkerFrame
<1>2. CASE emit_completed
  <2>1. PICK m \in queue :
          /\ events' = events \cup {[kind |-> "completed", node |-> m.node, gen |-> m.gen,
                                    out |-> m.out]}
          /\ queue' = queue \ {m}
          /\ KeepRow
          /\ UNCHANGED faults
          /\ WorkerFrame
    BY <1>2 DEF emit_completed
  <2>2. [kind |-> "completed", node |-> m.node, gen |-> m.gen, out |-> m.out] \in Event
    BY <2>1 DEF TypeOK, Message, Event
  <2>3. QED
    BY <2>1, <2>2 DEF TypeOK, WorkerFrame, KeepRow
<1>3. CASE emit_failed
  <2>1. PICK m \in queue, error \in Errors :
          /\ events' = events \cup {[kind |-> "failed", node |-> m.node, gen |-> m.gen,
                                    err |-> error]}
          /\ queue' = queue \ {m}
          /\ KeepRow
          /\ UNCHANGED faults
          /\ WorkerFrame
    BY <1>3 DEF emit_failed
  <2>2. [kind |-> "failed", node |-> m.node, gen |-> m.gen, err |-> error] \in Event
    BY <2>1 DEF TypeOK, Message, Event
  <2>3. QED
    BY <2>1, <2>2 DEF TypeOK, WorkerFrame, KeepRow
<1>4. CASE worker_crash
  <2>1. PICK m \in queue :
          /\ \/ queue' = queue \ {m}
             \/ queue' = (queue \ {m}) \cup {[m EXCEPT !.stage = "queued", !.out = {}]}
          /\ faults' = faults + 1
          /\ KeepRow
          /\ UNCHANGED events
          /\ WorkerFrame
    BY <1>4 DEF worker_crash
  <2>2. [m EXCEPT !.stage = "queued", !.out = {}] \in Message
    BY <2>1 DEF TypeOK, Message
  <2>3. queue' \subseteq Message
    BY <2>1, <2>2 DEF TypeOK
  <2>4. QED
    BY <2>1, <2>3 DEF TypeOK, WorkerFrame, KeepRow
<1>5. QED
  BY <1>1, <1>2, <1>3, <1>4 DEF WorkerStep

LEMMA EnvironmentTyped ==
  ASSUME TypeOK, cancelExecution \/ resumeExecution \/ crash \/ replicate
  PROVE  TypeOK'
<1>1. CASE cancelExecution
  <2>1. row' \in Row /\ everSettled' \subseteq Nodes /\ everTerminal' \subseteq Nodes
    BY <1>1, SetExecType DEF cancelExecution, TypeOK, ExecStatus
  <2>2. [kind |-> "cancel"] \in Event
    BY DEF Event
  <2>3. QED
    BY <1>1, <2>1, <2>2 DEF cancelExecution, TypeOK
<1>2. CASE resumeExecution
  <2>1. [kind |-> "resume"] \in Event
    BY DEF Event
  <2>2. QED
    BY <1>2, <2>1 DEF resumeExecution, TypeOK, KeepRow
<1>3. CASE crash
  BY <1>3, IdleType, ContinueType DEF crash, TypeOK, KeepRow
<1>4. CASE replicate
  BY <1>4 DEF replicate, TypeOK, KeepRow
<1>5. QED
  BY <1>1, <1>2, <1>3, <1>4

\* Every variable keeps its type, and whoever is about to write a node's status knows
\* the node: the shape of the execution row, of the events and of the snapshots the
\* handlers of executor.py, the watchdog and the workers pass along.
THEOREM TypeCorrect == Spec => []TypeOK
<1>1. Init => TypeOK
  <2>1. [kind |-> "start"] \in Event
    BY DEF Event
  <2>2. QED
    BY <2>1, InitRowType, IdleType DEF Init, TypeOK
<1>2. TypeOK /\ [Next]_vars => TypeOK'
  <2> SUFFICES ASSUME TypeOK, [Next]_vars
               PROVE  TypeOK'
    OBVIOUS
  <2>1. CASE RowStep
    <3>1. PICK s \in Slots :
            \/ start_write(s) \/ resume_write(s) \/ record_completion(s)
            \/ evaluate_condition(s) \/ persist_skip(s) \/ persist_unreachable(s)
            \/ reload(s) \/ invoke_node(s) \/ schedule_retry(s) \/ fail_node(s)
            \/ _finalize_execution(s) \/ ensure_running(s)
            \/ cancel_node(s) \/ cancel_write(s)
            \/ unstall(s) \/ _fail_stuck(s)
      BY <2>1 DEF RowStep
    <3>2. RowStepType'
      BY <3>1, HandlerStepTyped, BranchStepTyped, DispatchStepTyped, RetryStepTyped,
         SettleStepTyped
    <3>3. UNCHANGED <<replica, queue, events, asked, stalls, faults, published>>
      BY <2>1 DEF RowStep
    <3>4. QED
      BY <3>2, <3>3 DEF TypeOK, RowStepType
  <2>2. CASE UNCHANGED vars
    BY <2>2 DEF TypeOK, vars
  <2>3. QED
    BY <2>1, <2>2, HandlerTyped, SweepTyped, SignalTyped, WorkerTyped, EnvironmentTyped
       DEF Next, InvocationStep
<1>3. QED
  BY <1>1, <1>2, PTL DEF Spec

(***************************************************************************)
(* The safety invariants. Every step has two sides: what it may do to the  *)
(* row (RowEffect) and what it may leave in an invocation's snapshot       *)
(* (InvocationEffect). The invariants follow from these two lemmas without *)
(* another look at the actions.                                            *)
(***************************************************************************)

(***************************************************************************)
(* What a step does to the nodes of the row                                *)
(***************************************************************************)
HistoryKept == everSettled' = everSettled /\ everTerminal' = everTerminal

Kept ==
  /\ row'.st = row.st /\ row'.gen = row.gen /\ row'.rc = row.rc
  /\ grants' = grants
  /\ HistoryKept

\* A status other than pending and running is written.
Marked(n, v) ==
  /\ v \in NodeStatus \ {"pending", "running"}
  /\ row'.st = [row.st EXCEPT ![n] = v]
  /\ row'.gen = row.gen /\ row'.rc = row.rc
  /\ grants' = grants
  /\ everSettled' = IF v \in Settled THEN everSettled \cup {n} ELSE everSettled
  /\ everTerminal' = IF v \in Terminal THEN everTerminal \cup {n} ELSE everTerminal

Dispatched(s, n) ==
  /\ inv[s].pc = "dispatch" /\ n \in inv[s].todo
  /\ row.st[n] = "pending"
  /\ row'.st = [row.st EXCEPT ![n] = "running"]
  /\ row'.gen = [row.gen EXCEPT ![n] = @ + 1]
  /\ row'.rc = row.rc
  /\ grants' = grants
  /\ HistoryKept

Retried(s, n) ==
  /\ inv[s].pc \in {"retry", "unstall"}
  /\ row'.st = [row.st EXCEPT ![n] = "pending"]
  /\ row'.gen = row.gen
  /\ row'.rc = [row.rc EXCEPT ![n] = inv[s].count + 1]
  /\ grants' = [grants EXCEPT ![n] = @ + 1]
  /\ HistoryKept

NodeEffect ==
  \/ Kept
  \/ \E n \in Nodes, v \in NodeStatus : Marked(n, v)
  \/ \E s \in Slots, n \in Nodes : Dispatched(s, n)
  \/ \E s \in Slots, n \in Nodes : Retried(s, n)

LEMMA WriteEffects ==
  ASSUME TypeOK, UNCHANGED grants
  PROVE  /\ KeepRow => Kept
         /\ \A v : SetExec(v) => Kept
         /\ \A n \in Nodes, v \in NodeStatus \ {"pending", "running"} :
              SetNode(n, v) => Marked(n, v)
         /\ \A n \in Nodes : \A o : RecordCompletion(n, o) => NodeEffect
<1>1. row.st \in [Nodes -> NodeStatus] /\ row \in Row
  BY DEF TypeOK, Row
<1>2. KeepRow => Kept
  BY DEF KeepRow, Kept, HistoryKept
<1>3. ASSUME NEW v, SetExec(v) PROVE Kept
  BY <1>1, <1>3 DEF SetExec, Kept, HistoryKept, Row
<1>4. ASSUME NEW n \in Nodes, NEW v \in NodeStatus \ {"pending", "running"}, SetNode(n, v)
      PROVE  Marked(n, v)
  BY <1>1, <1>4 DEF SetNode, Marked, Row
<1>5. ASSUME NEW n \in Nodes, NEW o, RecordCompletion(n, o)
      PROVE  NodeEffect
  <2>1. CASE row.st[n] = "completed"
    BY <1>2, <1>5, <2>1 DEF RecordCompletion, NodeEffect
  <2>2. CASE row.st[n] # "completed"
    <3>1. Marked(n, "completed")
      BY <1>1, <1>5, <2>2 DEF RecordCompletion, Marked, Row, NodeStatus, Settled, Terminal
    <3>2. QED
      BY <3>1 DEF NodeEffect, NodeStatus
  <2>3. QED
    BY <2>1, <2>2
<1>6. QED
  BY <1>2, <1>3, <1>4, <1>5

LEMMA RowEffect ==
  ASSUME TypeOK, [Next]_vars
  PROVE  NodeEffect
<1>0. /\ row \in Row
      /\ \A s \in Slots : /\ inv[s] \in Invocation
                          /\ inv[s].todo \subseteq Nodes /\ inv[s].cuts \subseteq Nodes
  BY DEF TypeOK, Invocation
<1>1. ASSUME NEW s \in Slots, invoke_node(s) PROVE NodeEffect
  <2>1. UNCHANGED grants
    BY <1>1 DEF invoke_node
  <2>2. PICK n \in inv[s].todo :
          /\ inv[s].pc = "dispatch"
          /\ \/ KeepRow
             \/ /\ DispatchGuard(n)
                /\ row' = [row EXCEPT !.st[n] = "running", !.gen[n] = @ + 1]
                /\ UNCHANGED <<everSettled, everTerminal>>
    BY <1>1 DEF invoke_node
  <2>3. CASE KeepRow
    BY <2>1, <2>3, WriteEffects DEF NodeEffect
  <2>4. CASE ~KeepRow
    <3>1. Dispatched(s, n)
      BY <1>0, <2>1, <2>2, <2>4 DEF Dispatched, HistoryKept, DispatchGuard, Row
    <3>2. QED
      BY <1>0, <2>2, <3>1 DEF NodeEffect
  <2>5. QED
    BY <2>3, <2>4
<1>2. ASSUME NEW s \in Slots, schedule_retry(s) \/ unstall(s) PROVE NodeEffect
  <2>1. inv[s].pc \in {"retry", "unstall"} /\ inv[s].node \in Nodes
    BY <1>0, <1>2 DEF schedule_retry, unstall, Invocation
  <2>2. \/ KeepRow /\ UNCHANGED grants
        \/ /\ row' = [row EXCEPT !.st[inv[s].node] = "pending",
                                 !.rc[inv[s].node] = inv[s].count + 1]
           /\ grants' = [grants EXCEPT ![inv[s].node] = @ + 1]
           /\ UNCHANGED <<everSettled, everTerminal>>
    BY <1>2 DEF schedule_retry, unstall
  <2>3. CASE KeepRow /\ UNCHANGED grants
    BY <2>3, WriteEffects DEF NodeEffect
  <2>4. CASE ~(KeepRow /\ UNCHANGED grants)
    <3>1. Retried(s, inv[s].node)
      BY <1>0, <2>1, <2>2, <2>4 DEF Retried, HistoryKept, Row
    <3>2. QED
      BY <2>1, <3>1 DEF NodeEffect
  <2>5. QED
    BY <2>3, <2>4
<1>3. ASSUME NEW s \in Slots, fail_node(s) PROVE NodeEffect
  <2>1. inv[s].node \in Nodes
    BY <1>0, <1>3 DEF fail_node, Invocation
  <2>2. Marked(inv[s].node, "failed")
    BY <1>0, <1>3, <2>1 DEF fail_node, Marked, Row, NodeStatus, Settled, Terminal
  <2>3. QED
    BY <2>1, <2>2 DEF NodeEffect, NodeStatus
<1>4. ASSUME NEW s \in Slots,
             \/ start_write(s) \/ resume_write(s) \/ evaluate_condition(s) \/ reload(s)
             \/ _finalize_execution(s) \/ ensure_running(s) \/ cancel_write(s)
             \/ _fail_stuck(s)
      PROVE  NodeEffect
  <2>1. UNCHANGED grants /\ (KeepRow \/ \E v \in ExecStatus : SetExec(v))
    BY <1>4 DEF start_write, resume_write, evaluate_condition, reload, _finalize_execution,
                ensure_running, cancel_write, _fail_stuck, ExecStatus
  <2>2. QED
    BY <2>1, WriteEffects DEF NodeEffect
<1>5. ASSUME NEW s \in Slots, persist_skip(s) \/ persist_unreachable(s) \/ cancel_node(s)
      PROVE  NodeEffect
  <2>1. UNCHANGED grants /\ \E n \in Nodes, v \in {"skipped", "unreachable", "cancelled"} :
                              SetNode(n, v)
    BY <1>0, <1>5 DEF persist_skip, persist_unreachable, cancel_node
  <2>2. QED
    BY <2>1, WriteEffects DEF NodeEffect, NodeStatus
<1>6. ASSUME NEW s \in Slots, record_completion(s) PROVE NodeEffect
  <2>1. inv[s].node \in Nodes
    BY <1>0, <1>6 DEF record_completion, Invocation
  <2>2. UNCHANGED grants /\ RecordCompletion(inv[s].node, inv[s].out)
    BY <1>6 DEF record_completion
  <2>3. QED
    BY <2>1, <2>2, WriteEffects
<1>7. CASE _persist_node_completion
  <2>1. PICK m \in queue : UNCHANGED grants /\ \E o : RecordCompletion(m.node, o)
    BY <1>7 DEF _persist_node_completion, PersistResult, WorkerFrame
  <2>2. m.node \in Nodes
    BY <2>1 DEF TypeOK, Message
  <2>3. QED
    BY <2>1, <2>2, WriteEffects
<1>8. CASE cancelExecution
  BY <1>8, WriteEffects DEF cancelExecution, NodeEffect
<1>9. CASE UNCHANGED grants /\ KeepRow
  BY <1>9, WriteEffects DEF NodeEffect
<1>10. CASE RowStep
  BY <1>1, <1>2, <1>3, <1>4, <1>5, <1>6, <1>10 DEF RowStep
<1>11. CASE handler \/ _process_execution \/ emit_completed \/ emit_failed \/ worker_crash
            \/ resumeExecution \/ crash \/ replicate
            \/ \E s \in Slots : send_message(s) \/ publish_terminal(s)
  BY <1>9, <1>11 DEF handler, _process_execution, emit_completed, emit_failed, worker_crash,
                     resumeExecution, crash, replicate, send_message, publish_terminal,
                     WorkerFrame
<1>12. CASE UNCHANGED vars
  BY <1>9, <1>12 DEF vars, KeepRow
<1>13. QED
  BY <1>7, <1>8, <1>10, <1>11, <1>12 DEF Next, InvocationStep, WorkerStep

(***************************************************************************)
(* What a step leaves in an invocation                                     *)
(***************************************************************************)
\* Every status in j's view was in i's, is in a row one may read, or shows a node
\* as not finished.
ViewFrom(i, j) ==
  \A n \in Nodes :
    j.view.st[n] \in {i.view.st[n], row.st[n], replica.st[n], row'.st[n], "pending", "running"}

\* What j will dispatch, i would have, or it is a root, or ready in j's own view.
TodoFrom(i, j) ==
  j.pc \in Dispatching =>
    \A n \in j.todo :
      \/ i.pc \in Dispatching /\ n \in i.todo
      \/ Preds(n) = {}
      \/ n \in find_ready_nodes(j.view.st)

CountFrom(i, j) == j.pc \in {"retry", "unstall"} => i = j \/ j.count < MaxRetries

AnnounceFrom(i, j) ==
  j.pc = "announceCompleted" =>
    i = j \/ (i.pc = "settle" /\ AllTerminal(i.view.st))

Succeeds(i, j) ==
  ViewFrom(i, j) /\ TodoFrom(i, j) /\ CountFrom(i, j) /\ AnnounceFrom(i, j)

\* Slots is any slot of the step; the others are left alone.
LEMMA ContinueEffect ==
  ASSUME TypeOK, NEW s \in Slots, NEW j, Continue(s, j), Succeeds(inv[s], j)
  PROVE  \A t \in Slots : Succeeds(inv[t], inv'[t])
  BY DEF TypeOK, Continue, Succeeds, ViewFrom, TodoFrom, CountFrom, AnnounceFrom

LEMMA UnchangedEffect ==
  ASSUME UNCHANGED inv
  PROVE  \A t \in Slots : Succeeds(inv[t], inv'[t])
  BY DEF Succeeds, ViewFrom, TodoFrom, CountFrom, AnnounceFrom

LEMMA IdleEffect == ASSUME NEW i PROVE Succeeds(i, Idle)
  BY DEF Succeeds, ViewFrom, TodoFrom, CountFrom, AnnounceFrom, Idle, NoView, InitRow,
         Dispatching

\* An invocation that starts from Idle with nothing to dispatch.
LEMMA FreshEffect ==
  ASSUME NEW i, NEW p \in Steps \ (Dispatching \cup {"retry", "unstall", "announceCompleted"}),
         NEW k
  PROVE  /\ Succeeds(i, [Idle EXCEPT !.pc = p, !.kind = k])
         /\ \A t : Succeeds(i, [Idle EXCEPT !.pc = p, !.kind = k, !.todo = t])
  BY DEF Succeeds, ViewFrom, TodoFrom, CountFrom, AnnounceFrom, Idle, NoView, InitRow,
         Dispatching

LEMMA ScheduleFrontierEffect ==
  ASSUME NEW i, NEW k, NEW v,
         \A n \in Nodes : v.st[n] \in {i.view.st[n], row.st[n], replica.st[n], row'.st[n],
                                      "pending", "running"}
  PROVE  Succeeds(i, schedule_frontier(k, v))
<1> DEFINE j == schedule_frontier(k, v)
<1>1. /\ j.view = v /\ j.todo = find_ready_nodes(v.st)
      /\ j.pc \in {"settle", "dispatch"}
  BY DEF schedule_frontier, Idle
<1>2. Succeeds(i, j)
  <2> HIDE DEF j
  <2>1. QED
    BY <1>1 DEF Succeeds, ViewFrom, TodoFrom, CountFrom, AnnounceFrom
<1>3. QED
  BY <1>2

LEMMA ReconcileEffect ==
  ASSUME NEW i, NEW k, NEW r,
         \A n \in Nodes : r.st[n] \in {i.view.st[n], row.st[n], replica.st[n]}
  PROVE  Succeeds(i, _reconcile_completed_edges(k, r))
<1> DEFINE j == _reconcile_completed_edges(k, r)
<1>1. /\ j.pc \in {"reload", "edges"}
      /\ j.view.st = r.st \/ \A n \in Nodes : j.view.st[n] = "pending"
  BY DEF _reconcile_completed_edges, ViewOf, Idle, NoView, InitRow
<1>2. Succeeds(i, j)
  <2> HIDE DEF j
  <2>1. QED
    BY <1>1 DEF Succeeds, ViewFrom, TodoFrom, CountFrom, AnnounceFrom, Dispatching
<1>3. QED
  BY <1>2

LEMMA AfterPruneEffect ==
  ASSUME NEW i, NEW j \in Invocation, ViewFrom(i, j)
  PROVE  Succeeds(i, AfterPrune(j))
<1>1. CASE j.todo # {}
  <2> DEFINE q == [j EXCEPT !.pc = "edges", !.cuts = {}]
  <2>1. Succeeds(i, q)
    BY DEF Succeeds, ViewFrom, TodoFrom, CountFrom, AnnounceFrom, Dispatching, Invocation
  <2>2. QED
    BY <1>1, <2>1 DEF AfterPrune
<1>2. CASE j.todo = {} /\ j.kind = "completed"
  BY <1>2, ScheduleFrontierEffect DEF AfterPrune, ViewFrom
<1>3. CASE j.todo = {} /\ j.kind # "completed"
  <2>1. Succeeds(i, [Idle EXCEPT !.pc = "reload", !.kind = j.kind])
    BY FreshEffect DEF Steps, Dispatching
  <2>2. QED
    BY <1>3, <2>1 DEF AfterPrune
<1>4. QED
  BY <1>1, <1>2, <1>3

\* AfterDispatch keeps the view and what is left to dispatch, or lets go of both.
LEMMA AfterDispatchEffect ==
  ASSUME NEW i, NEW j \in Invocation, ViewFrom(i, j), i.pc \in Dispatching, j.todo \subseteq i.todo
  PROVE  Succeeds(i, AfterDispatch(j))
<1> DEFINE q == AfterDispatch(j)
<1>1. \/ q = Idle
      \/ /\ q.pc \in {"dispatch", "settle"}
         /\ q.todo = j.todo /\ q.view = j.view
  BY DEF AfterDispatch, Invocation
<1>2. CASE q = Idle
  BY <1>2, IdleEffect
<1>3. CASE q # Idle
  <2>1. Succeeds(i, q)
    <3> HIDE DEF q
    <3>1. QED
      BY <1>1, <1>3 DEF Succeeds, ViewFrom, TodoFrom, CountFrom, AnnounceFrom
  <2>2. QED
    BY <2>1
<1>4. QED
  BY <1>2, <1>3

LEMMA ReadsSeen ==
  ASSUME NEW r \in Reads, NEW n
  PROVE  /\ r.st[n] \in {row.st[n], replica.st[n]}
         /\ ViewOf(r).st[n] \in {row.st[n], replica.st[n]}
  BY DEF Reads, ViewOf

LEMMA HandlerEffect ==
  ASSUME TypeOK, handler
  PROVE  \A t \in Slots : Succeeds(inv[t], inv'[t])
<1>1. PICK s \in Handlers, e \in events, r \in Reads :
        \/ start_execution(s, e, r)
        \/ handle_node_completion(s, e, r)
        \/ handle_node_failure(s, e, r)
        \/ cancel_execution(s, e, r)
        \/ resume_execution(s, e, r)
  BY DEF handler
<1>2. s \in Slots
  BY DEF Slots
<1>3. \E j : Continue(s, j) /\ Succeeds(inv[s], j)
  <2>1. CASE start_execution(s, e, r)
    <3>1. Succeeds(inv[s], [Idle EXCEPT !.pc = "start", !.kind = "start"])
      BY FreshEffect DEF Steps, Dispatching
    <3>2. QED
      BY <2>1, <3>1, IdleEffect DEF start_execution
  <2>2. CASE handle_node_completion(s, e, r)
    <3> DEFINE j == [Idle EXCEPT !.pc = "record", !.kind = "completed", !.node = e.node,
                                 !.out = e.out, !.view = ViewOf(r)]
    <3>1. j.pc = "record" /\ j.view = ViewOf(r)
      BY DEF Idle
    <3>2. Continue(s, j)
      BY <2>2 DEF handle_node_completion
    <3>3. QED
      <4> HIDE DEF j
      <4>1. QED
        BY <3>1, <3>2, ReadsSeen
           DEF Succeeds, ViewFrom, TodoFrom, CountFrom, AnnounceFrom, Dispatching
  <2>3. CASE handle_node_failure(s, e, r)
    <3> DEFINE j == [Idle EXCEPT !.pc = IF should_retry(e.err, r.rc[e.node])
                                        THEN "retry" ELSE "fail",
                                 !.kind = "failed", !.node = e.node,
                                 !.count = r.rc[e.node]]
    <3>1. Continue(s, Idle) \/ Continue(s, j)
      BY <2>3 DEF handle_node_failure
    <3>2. /\ j.todo = {} /\ \A n \in Nodes : j.view.st[n] = "pending"
          /\ j.pc \in {"retry", "fail"}
          /\ j.pc = "retry" => j.count < MaxRetries
      BY DEF Idle, NoView, InitRow, should_retry
    <3>3. Succeeds(inv[s], j)
      <4> HIDE DEF j
      <4>1. QED
        BY <3>2 DEF Succeeds, ViewFrom, TodoFrom, CountFrom, AnnounceFrom
    <3>4. QED
      BY <3>1, <3>3, IdleEffect
  <2>4. CASE cancel_execution(s, e, r)
    <3>1. \A t : Succeeds(inv[s], [Idle EXCEPT !.pc = "cancel", !.kind = "cancel", !.todo = t])
      BY FreshEffect DEF Steps, Dispatching
    <3>2. QED
      BY <2>4, <3>1 DEF cancel_execution
  <2>5. CASE resume_execution(s, e, r)
    <3> DEFINE j == [Idle EXCEPT !.pc = "restart", !.kind = "resume", !.view = ViewOf(r)]
    <3>1. j.pc = "restart" /\ j.view = ViewOf(r)
      BY DEF Idle
    <3>2. Succeeds(inv[s], j)
      <4> HIDE DEF j
      <4>1. QED
        BY <3>1, ReadsSeen
           DEF Succeeds, ViewFrom, TodoFrom, CountFrom, AnnounceFrom, Dispatching
    <3>3. Succeeds(inv[s], _reconcile_completed_edges("resume", r))
      BY ReconcileEffect, ReadsSeen
    <3>4. QED
      BY <2>5, <3>2, <3>3, IdleEffect DEF resume_execution
  <2>6. QED
    BY <1>1, <2>1, <2>2, <2>3, <2>4, <2>5
<1>4. QED
  BY <1>2, <1>3, ContinueEffect

LEMMA SweepEffect ==
  ASSUME TypeOK, _process_execution
  PROVE  \A t \in Slots : Succeeds(inv[t], inv'[t])
<1>1. PICK s \in Watchdogs, r \in Reads :
        \/ Continue(s, _reconcile_completed_edges("sweep", r))
        \/ _reconcile_or_fail_node(s, r)
        \/ Continue(s, [Idle EXCEPT !.pc = "expire", !.kind = "failed"])
  BY DEF _process_execution
<1>2. s \in Slots
  BY DEF Slots
<1>3. \E j : Continue(s, j) /\ Succeeds(inv[s], j)
  <2>1. Succeeds(inv[s], _reconcile_completed_edges("sweep", r))
    BY ReconcileEffect, ReadsSeen
  <2>2. Succeeds(inv[s], [Idle EXCEPT !.pc = "expire", !.kind = "failed"])
    BY DEF Succeeds, ViewFrom, TodoFrom, CountFrom, AnnounceFrom, Idle, NoView, InitRow
  <2>3. CASE _reconcile_or_fail_node(s, r)
    <3> DEFINE retry(n) == [Idle EXCEPT !.pc = "unstall", !.kind = "sweep", !.node = n,
                                        !.count = r.rc[n]]
               fail(n) == [Idle EXCEPT !.pc = "fail", !.kind = "failed", !.node = n]
    <3>1. PICK n \in Nodes :
            \/ unstall_budget(r.rc[n]) /\ Continue(s, retry(n))
            \/ Continue(s, Idle)
            \/ Continue(s, fail(n))
      BY <2>3 DEF _reconcile_or_fail_node
    <3>2. /\ retry(n).pc = "unstall" /\ retry(n).count = r.rc[n]
          /\ \A m \in Nodes : retry(n).view.st[m] = "pending"
          /\ fail(n).pc = "fail" /\ fail(n).todo = {}
          /\ \A m \in Nodes : fail(n).view.st[m] = "pending"
      BY DEF Idle, NoView, InitRow
    <3>3. Succeeds(inv[s], fail(n))
      <4> HIDE DEF fail
      <4>1. QED
        BY <3>2 DEF Succeeds, ViewFrom, TodoFrom, CountFrom, AnnounceFrom
    <3>4. unstall_budget(r.rc[n]) => Succeeds(inv[s], retry(n))
      <4> HIDE DEF retry
      <4>1. QED
        BY <3>2 DEF Succeeds, ViewFrom, TodoFrom, CountFrom, AnnounceFrom, Dispatching,
                    unstall_budget
    <3>5. QED
      BY <3>1, <3>3, <3>4, IdleEffect
  <2>4. QED
    BY <1>1, <2>1, <2>2, <2>3
<1>4. QED
  BY <1>2, <1>3, ContinueEffect

LEMMA PruneEffect ==
  ASSUME TypeOK, NEW s \in Slots,
         \/ record_completion(s) \/ evaluate_condition(s)
         \/ persist_skip(s) \/ persist_unreachable(s)
  PROVE  \E j : Continue(s, j) /\ Succeeds(inv[s], j)
<1>0. /\ row \in Row /\ inv[s] \in Invocation /\ inv[s].view \in View
      /\ inv[s].todo \subseteq Nodes /\ inv[s].cuts \subseteq Nodes
  BY DEF TypeOK, Invocation
<1>1. CASE record_completion(s)
  <2> DEFINE n == inv[s].node
             viewed == [inv[s].view EXCEPT !.st[n] = "completed", !.out[n] = inv[s].out]
             j == [Idle EXCEPT !.kind = inv[s].kind, !.view = viewed,
                               !.todo = IF inv[s].out = {} THEN {} ELSE {n}]
  <2>1. /\ n \in Nodes /\ inv[s].out \subseteq Nodes /\ inv[s].kind \in Kinds
        /\ "completed" \in NodeStatus
    BY <1>0, <1>1 DEF record_completion, Invocation, NodeStatus
  <2>2. viewed \in View
    <3>1. /\ [inv[s].view.st EXCEPT ![n] = "completed"] \in [Nodes -> NodeStatus]
          /\ [inv[s].view.out EXCEPT ![n] = inv[s].out] \in [Nodes -> SUBSET Nodes]
      BY <1>0, <2>1 DEF View
    <3>2. QED
      BY <1>0, <3>1 DEF View
  <2>3. j \in Invocation
    <3> HIDE DEF viewed, n
    <3>1. (IF inv[s].out = {} THEN {} ELSE {n}) \in SUBSET Nodes
      BY <2>1
    <3>2. QED
      BY <2>1, <2>2, <3>1, IdleType DEF Invocation, Idle, Steps
  <2>4. row'.st[n] = "completed"
    <3>1. RecordCompletion(n, inv[s].out)
      BY <1>1 DEF record_completion
    <3>2. CASE row.st[n] = "completed"
      BY <3>1, <3>2 DEF RecordCompletion, KeepRow
    <3>3. CASE row.st[n] # "completed"
      <4>1. row' = [row EXCEPT !.st[n] = "completed", !.out[n] = inv[s].out]
        BY <3>1, <3>3 DEF RecordCompletion
      <4>2. row'.st = [row.st EXCEPT ![n] = "completed"]
        BY <1>0, <4>1 DEF Row
      <4>3. QED
        BY <1>0, <2>1, <4>2 DEF Row
    <3>4. QED
      BY <3>2, <3>3
  <2>5. j.view.st = [inv[s].view.st EXCEPT ![n] = "completed"]
    BY <1>0 DEF Idle, View
  <2>6. ViewFrom(inv[s], j)
    <3> HIDE DEF j, n
    <3>1. QED
      BY <1>0, <2>4, <2>5 DEF ViewFrom, View
  <2>7. Succeeds(inv[s], AfterPrune(j))
    <3> HIDE DEF j
    <3>1. QED
      BY <2>3, <2>6, AfterPruneEffect
  <2>8. Continue(s, AfterPrune(j))
    BY <1>1 DEF record_completion
  <2>9. QED
    BY <2>7, <2>8
<1>2. CASE evaluate_condition(s)
  <2>1. PICK n \in inv[s].todo :
          Continue(s, [inv[s] EXCEPT !.pc = "skip", !.todo = @ \ {n},
                                     !.cuts = inv[s].view.out[n]])
    BY <1>2 DEF evaluate_condition
  <2>2. Succeeds(inv[s], [inv[s] EXCEPT !.pc = "skip", !.todo = @ \ {n},
                                        !.cuts = inv[s].view.out[n]])
    BY <1>0 DEF Succeeds, ViewFrom, TodoFrom, CountFrom, AnnounceFrom, Dispatching, Invocation
  <2>3. QED
    BY <2>1, <2>2
<1>3. CASE persist_skip(s)
  <2> DEFINE viewed(n) == [inv[s].view EXCEPT !.st[n] = "skipped"]
             i(n) == [inv[s] EXCEPT !.view = viewed(n), !.cuts = @ \ {n}]
             dead(n) == Unreachable(viewed(n).st)
             cut(n) == [i(n) EXCEPT !.pc = "cut", !.cuts = dead(n)]
  <2>1. PICK n \in inv[s].cuts :
          /\ inv[s].pc = "skip"
          /\ SetNode(n, "skipped")
          /\ \/ Continue(s, i(n))
             \/ Continue(s, cut(n))
             \/ Continue(s, AfterPrune(i(n)))
    BY <1>3 DEF persist_skip
  <2>2. n \in Nodes /\ "skipped" \in NodeStatus
    BY <1>0 DEF NodeStatus
  <2>3. row'.st[n] = "skipped"
    BY <1>0, <2>1, <2>2 DEF SetNode, Row
  <2>4. i(n) \in Invocation
    BY <1>0, <2>2, ViewStatusType
  <2>5. i(n).view.st = [inv[s].view.st EXCEPT ![n] = "skipped"] /\ i(n).pc = "skip"
    BY <1>0, <2>1 DEF Invocation, View
  <2> HIDE DEF i
  <2>6. ViewFrom(inv[s], i(n))
    BY <1>0, <2>2, <2>3, <2>5 DEF ViewFrom, View
  <2>7. Succeeds(inv[s], i(n)) /\ Succeeds(inv[s], cut(n))
    <3> HIDE DEF dead
    <3>1. QED
      BY <2>4, <2>5, <2>6 DEF Succeeds, ViewFrom, TodoFrom, CountFrom, AnnounceFrom, Dispatching,
                              Invocation
  <2>8. Succeeds(inv[s], AfterPrune(i(n)))
    BY <2>4, <2>6, AfterPruneEffect
  <2>9. QED
    BY <2>1, <2>7, <2>8
<1>4. CASE persist_unreachable(s)
  <2> DEFINE i(n) == [inv[s] EXCEPT !.view.st[n] = "unreachable", !.cuts = @ \ {n}]
  <2>1. PICK n \in inv[s].cuts :
          /\ inv[s].pc = "cut"
          /\ SetNode(n, "unreachable")
          /\ Continue(s, i(n)) \/ Continue(s, AfterPrune(i(n)))
    BY <1>4 DEF persist_unreachable
  <2>2. n \in Nodes /\ "unreachable" \in NodeStatus
    BY <1>0 DEF NodeStatus
  <2>3. row'.st[n] = "unreachable"
    BY <1>0, <2>1, <2>2 DEF SetNode, Row
  <2>4. i(n) \in Invocation
    BY <1>0, <2>2, ViewStatusType
  <2>5. i(n).view.st = [inv[s].view.st EXCEPT ![n] = "unreachable"] /\ i(n).pc = "cut"
    BY <1>0, <2>1 DEF Invocation, View
  <2> HIDE DEF i
  <2>6. ViewFrom(inv[s], i(n))
    BY <1>0, <2>2, <2>3, <2>5 DEF ViewFrom, View
  <2>7. Succeeds(inv[s], i(n))
    BY <2>5, <2>6 DEF Succeeds, TodoFrom, CountFrom, AnnounceFrom, Dispatching
  <2>8. Succeeds(inv[s], AfterPrune(i(n)))
    BY <2>4, <2>6, AfterPruneEffect
  <2>9. QED
    BY <2>1, <2>7, <2>8
<1>5. QED
  BY <1>1, <1>2, <1>3, <1>4

LEMMA ScheduleEffect ==
  ASSUME TypeOK, NEW s \in Slots, start_write(s) \/ resume_write(s) \/ reload(s)
  PROVE  \E j : Continue(s, j) /\ Succeeds(inv[s], j)
<1>1. CASE start_write(s)
  <2> DEFINE j == [Idle EXCEPT !.pc = "dispatch", !.kind = "start", !.todo = find_root_nodes]
  <2>1. /\ j.pc = "dispatch" /\ \A n \in j.todo : Preds(n) = {}
        /\ \A n \in Nodes : j.view.st[n] = "pending"
    BY DEF Idle, NoView, InitRow, find_root_nodes
  <2>2. Succeeds(inv[s], j)
    <3> HIDE DEF j
    <3>1. QED
      BY <2>1 DEF Succeeds, ViewFrom, TodoFrom, CountFrom, AnnounceFrom
  <2>3. QED
    BY <1>1, <2>2, IdleEffect DEF start_write
<1>2. CASE resume_write(s)
  <2>1. /\ Succeeds(inv[s], _reconcile_completed_edges("resume", inv[s].view))
        /\ \A r \in Reads : Succeeds(inv[s], _reconcile_completed_edges("resume", r))
    BY ReconcileEffect, ReadsSeen
  <2>2. \/ Continue(s, _reconcile_completed_edges("resume", inv[s].view))
        \/ \E r \in Reads : Continue(s, _reconcile_completed_edges("resume", r))
    BY <1>2 DEF resume_write
  <2>3. QED
    BY <2>1, <2>2
<1>3. CASE reload(s)
  <2>1. PICK r \in Reads : Continue(s, schedule_frontier(inv[s].kind, ViewOf(r)))
    BY <1>3 DEF reload
  <2>2. Succeeds(inv[s], schedule_frontier(inv[s].kind, ViewOf(r)))
    BY ReadsSeen, ScheduleFrontierEffect
  <2>3. QED
    BY <2>1, <2>2
<1>4. QED
  BY <1>1, <1>2, <1>3

LEMMA DispatchEffect ==
  ASSUME TypeOK, NEW s \in Slots,
         invoke_node(s) \/ send_message(s) \/ publish_terminal(s)
  PROVE  \E j : Continue(s, j) /\ Succeeds(inv[s], j)
<1>0. inv[s] \in Invocation /\ inv[s].view \in View /\ inv[s].todo \subseteq Nodes
  BY DEF TypeOK, Invocation
<1>1. CASE invoke_node(s)
  <2> DEFINE i(n) == [inv[s] EXCEPT !.todo = @ \ {n}, !.view.st[n] = "running"]
             fail(n) == [i(n) EXCEPT !.pc = "fail", !.node = n]
             send(n) == [i(n) EXCEPT !.pc = "send", !.node = n, !.count = row.gen[n] + 1]
  <2>1. PICK n \in inv[s].todo :
          /\ inv[s].pc = "dispatch"
          /\ \/ Continue(s, AfterDispatch(i(n)))
             \/ Continue(s, fail(n))
             \/ Continue(s, send(n))
    BY <1>1 DEF invoke_node
  <2>2. n \in Nodes /\ "running" \in NodeStatus
    BY <1>0 DEF NodeStatus
  <2>3. i(n) \in Invocation
    BY <1>0, <2>2, ViewStatusType
  <2>4. /\ i(n).view.st = [inv[s].view.st EXCEPT ![n] = "running"]
        /\ i(n).todo \subseteq inv[s].todo
    BY <1>0 DEF Invocation, View
  <2> HIDE DEF i
  <2>5. ViewFrom(inv[s], i(n))
    BY <1>0, <2>2, <2>4 DEF ViewFrom, View
  <2>6. Succeeds(inv[s], AfterDispatch(i(n)))
    BY <2>1, <2>3, <2>4, <2>5, AfterDispatchEffect DEF Dispatching
  <2>7. Succeeds(inv[s], fail(n)) /\ Succeeds(inv[s], send(n))
    BY <2>1, <2>3, <2>4, <2>5
       DEF Succeeds, ViewFrom, TodoFrom, CountFrom, AnnounceFrom, Dispatching, Invocation
  <2>8. QED
    BY <2>1, <2>6, <2>7
<1>2. CASE send_message(s) \/ publish_terminal(s)
  <2>1. /\ inv[s].pc \in Dispatching \/ Continue(s, Idle)
        /\ Continue(s, AfterDispatch(inv[s])) \/ Continue(s, Idle)
    BY <1>2 DEF send_message, publish_terminal, Dispatching
  <2>2. ViewFrom(inv[s], inv[s])
    BY DEF ViewFrom
  <2>3. QED
    BY <1>0, <2>1, <2>2, AfterDispatchEffect, IdleEffect
<1>3. QED
  BY <1>1, <1>2

LEMMA WriteBackEffect ==
  ASSUME TypeOK, NEW s \in Slots,
         \/ schedule_retry(s) \/ fail_node(s) \/ unstall(s) \/ _fail_stuck(s)
         \/ _finalize_execution(s) \/ ensure_running(s) \/ cancel_node(s) \/ cancel_write(s)
  PROVE  \E j : Continue(s, j) /\ Succeeds(inv[s], j)
<1>0. inv[s] \in Invocation
  BY DEF TypeOK
<1>1. CASE schedule_retry(s) \/ unstall(s) \/ ensure_running(s)
  <2>1. Succeeds(inv[s], [Idle EXCEPT !.pc = "reload", !.kind = "sweep"])
    BY FreshEffect DEF Steps, Dispatching
  <2>2. QED
    BY <1>1, <2>1, IdleEffect DEF schedule_retry, unstall, ensure_running
<1>2. CASE fail_node(s) \/ _fail_stuck(s) \/ cancel_write(s)
  <2> DEFINE j == [inv[s] EXCEPT !.pc = "announceFailed"]
  <2>1. Continue(s, j) \/ Continue(s, Idle)
    BY <1>2 DEF fail_node, _fail_stuck, cancel_write
  <2>2. j.view = inv[s].view /\ j.pc = "announceFailed" /\ j.todo = inv[s].todo
    BY <1>0 DEF Invocation
  <2>3. inv[s].pc \in Dispatching \/ inv[s].todo = {}
    BY <1>2 DEF fail_node, _fail_stuck, cancel_write, Dispatching
  <2>4. Succeeds(inv[s], j)
    <3> HIDE DEF j
    <3>1. QED
      BY <2>2, <2>3 DEF Succeeds, ViewFrom, TodoFrom, CountFrom, AnnounceFrom
  <2>5. QED
    BY <2>1, <2>4, IdleEffect
<1>3. CASE cancel_node(s)
  <2>1. PICK n : Continue(s, [inv[s] EXCEPT !.todo = @ \ {n}]) /\ inv[s].pc = "cancel"
    BY <1>3 DEF cancel_node
  <2>2. Succeeds(inv[s], [inv[s] EXCEPT !.todo = @ \ {n}])
    BY <1>0, <2>1 DEF Succeeds, ViewFrom, TodoFrom, CountFrom, AnnounceFrom, Dispatching,
                      Invocation
  <2>3. QED
    BY <2>1, <2>2
<1>4. CASE _finalize_execution(s)
  <2> DEFINE j == [Idle EXCEPT !.pc = "announceCompleted", !.kind = inv[s].kind]
  <2>1. /\ Continue(s, j) \/ Continue(s, Idle)
        /\ inv[s].pc = "settle" /\ AllTerminal(inv[s].view.st)
    BY <1>4 DEF _finalize_execution
  <2>2. j.todo = {} /\ j.pc = "announceCompleted" /\ \A n \in Nodes : j.view.st[n] = "pending"
    BY DEF Idle, NoView, InitRow
  <2>3. Succeeds(inv[s], j)
    <3> HIDE DEF j
    <3>1. QED
      BY <2>1, <2>2 DEF Succeeds, ViewFrom, TodoFrom, CountFrom, AnnounceFrom
  <2>4. QED
    BY <2>1, <2>3, IdleEffect
<1>5. QED
  BY <1>1, <1>2, <1>3, <1>4

LEMMA InvocationEffect ==
  ASSUME TypeOK, [Next]_vars
  PROVE  \A t \in Slots : Succeeds(inv[t], inv'[t])
<1>1. ASSUME NEW s \in Slots, \E j : Continue(s, j) /\ Succeeds(inv[s], j)
      PROVE  \A t \in Slots : Succeeds(inv[t], inv'[t])
  BY <1>1, ContinueEffect
<1>2. CASE RowStep
  BY <1>1, <1>2, PruneEffect, ScheduleEffect, DispatchEffect, WriteBackEffect DEF RowStep
<1>3. CASE \E s \in Slots : send_message(s) \/ publish_terminal(s)
  BY <1>1, <1>3, DispatchEffect
<1>4. CASE crash
  BY <1>1, <1>4, IdleEffect DEF crash
<1>5. CASE UNCHANGED inv
  BY <1>5, UnchangedEffect
<1>6. CASE WorkerStep \/ worker_crash \/ cancelExecution \/ resumeExecution \/ replicate
           \/ UNCHANGED vars
  BY <1>5, <1>6 DEF WorkerStep, _persist_node_completion, emit_completed, emit_failed,
                    worker_crash, WorkerFrame, cancelExecution, resumeExecution, replicate, vars
<1>7. QED
  BY <1>2, <1>3, <1>4, <1>6, HandlerEffect, SweepEffect DEF Next, InvocationStep

\* The row's execution status turns completed, and completion is announced, only by an
\* invocation whose view has every node terminal.
LEMMA ExecutionEffect ==
  ASSUME TypeOK, [Next]_vars
  PROVE  /\ row'.exec = "completed" =>
              \/ row.exec = "completed"
              \/ \E s \in Slots : AllTerminal(inv[s].view.st)
         /\ published'.completed > 0 =>
              \/ published.completed > 0
              \/ \E s \in Slots : inv[s].pc = "announceCompleted"
         /\ replica' \in {replica, row}
<1>0. row \in Row /\ published \in [completed : 0..2, failed : 0..2]
  BY DEF TypeOK
<1> DEFINE ExecOK == row'.exec = "completed" =>
                       \/ row.exec = "completed"
                       \/ \E s \in Slots : AllTerminal(inv[s].view.st)
<1>1. /\ KeepRow => ExecOK
      /\ \A v \in {"running", "cancelled", "failed"} : SetExec(v) => ExecOK
      /\ \A n, v : SetNode(n, v) => ExecOK
      /\ \A n, o : RecordCompletion(n, o) => ExecOK
  BY <1>0 DEF KeepRow, SetExec, SetNode, RecordCompletion, Row
<1>2. ASSUME NEW s \in Slots, invoke_node(s) \/ schedule_retry(s) \/ unstall(s) \/ fail_node(s)
      PROVE  ExecOK
  BY <1>0, <1>1, <1>2 DEF invoke_node, schedule_retry, unstall, fail_node, KeepRow, Row
<1>3. ASSUME NEW s \in Slots,
             \/ start_write(s) \/ resume_write(s) \/ evaluate_condition(s) \/ reload(s)
             \/ ensure_running(s) \/ cancel_write(s) \/ _fail_stuck(s)
             \/ persist_skip(s) \/ persist_unreachable(s) \/ cancel_node(s)
             \/ record_completion(s)
      PROVE  ExecOK
  <2> HIDE DEF ExecOK
  <2>1. QED
    BY <1>1, <1>3 DEF start_write, resume_write, evaluate_condition, reload, ensure_running,
                      cancel_write, _fail_stuck, persist_skip, persist_unreachable,
                      cancel_node, record_completion
<1>4. ASSUME NEW s \in Slots, _finalize_execution(s) PROVE ExecOK
  BY <1>4 DEF _finalize_execution
<1>5. CASE RowStep
  <2>1. ExecOK
    <3> HIDE DEF ExecOK
    <3>1. QED
      BY <1>2, <1>3, <1>4, <1>5 DEF RowStep
  <2>2. QED
    BY <1>5, <2>1 DEF RowStep
<1>6. CASE \E s \in Slots : send_message(s) \/ publish_terminal(s)
  <2>1. KeepRow /\ UNCHANGED replica
    BY <1>6 DEF send_message, publish_terminal
  <2>2. published'.completed > 0 =>
          \/ published.completed > 0
          \/ \E s \in Slots : inv[s].pc = "announceCompleted"
    BY <1>0, <1>6 DEF send_message, publish_terminal
  <2>3. QED
    BY <1>1, <2>1, <2>2
<1>7. CASE _persist_node_completion
  BY <1>1, <1>7 DEF _persist_node_completion, PersistResult, WorkerFrame
<1>8. CASE cancelExecution
  BY <1>1, <1>8 DEF cancelExecution
<1>9. CASE handler \/ _process_execution \/ emit_completed \/ emit_failed \/ worker_crash
           \/ resumeExecution \/ crash \/ replicate
  BY <1>1, <1>9 DEF handler, _process_execution, emit_completed, emit_failed, worker_crash,
                    resumeExecution, crash, replicate, WorkerFrame
<1>10. CASE UNCHANGED vars
  BY <1>1, <1>10 DEF vars, KeepRow
<1>11. QED
  BY <1>5, <1>6, <1>7, <1>8, <1>9, <1>10 DEF Next, InvocationStep, WorkerStep

(***************************************************************************)
(* The invariants                                                          *)
(***************************************************************************)
\* The inductive invariant, in four independent parts.
Budgets == PendingPaid /\ CountsInBudget /\ RetryBudget

Frontier == Witnessed(Settled, everSettled) /\ TodoReady /\ DispatchAfterPredecessors

Completion ==
  Witnessed(Terminal, everTerminal) /\ AnnouncedTerminal /\ FinalizedAfterAllTerminal

LEMMA BudgetsStep ==
  ASSUME TypeOK, Budgets, [Next]_vars
  PROVE  Budgets'
<1>0. /\ row.st \in [Nodes -> NodeStatus] /\ row.gen \in [Nodes -> Nat]
      /\ row.rc \in [Nodes -> Nat] /\ grants \in [Nodes -> Nat]
      /\ MaxRetries \in Nat /\ \A s \in Slots : inv[s].count \in Nat
  BY StepRunnerAssumption DEF TypeOK, Row, Invocation
<1>1. CountsInBudget'
  BY InvocationEffect DEF Budgets, CountsInBudget, Succeeds, CountFrom
<1>2. PendingPaid' /\ RetryBudget'
  <2>1. CASE Kept
    BY <2>1 DEF Kept, Budgets, PendingPaid, RetryBudget
  <2>2. ASSUME NEW n \in Nodes, NEW v \in NodeStatus, Marked(n, v)
        PROVE  PendingPaid' /\ RetryBudget'
    <3>1. ASSUME NEW m \in Nodes
          PROVE  row'.gen[m] + (IF row'.st[m] = "pending" THEN 1 ELSE 0) <= 1 + grants'[m]
      <4>1. row'.st[m] = "pending" => row.st[m] = "pending"
        BY <1>0, <2>2 DEF Marked
      <4>2. row.gen[m] + (IF row.st[m] = "pending" THEN 1 ELSE 0) <= 1 + grants[m]
        BY DEF Budgets, PendingPaid
      <4>3. QED
        BY <1>0, <2>2, <4>1, <4>2 DEF Marked
    <3>2. QED
      BY <2>2, <3>1 DEF Marked, PendingPaid, RetryBudget, Budgets
  <2>3. ASSUME NEW s \in Slots, NEW n \in Nodes, Dispatched(s, n)
        PROVE  PendingPaid' /\ RetryBudget'
    <3>1. ASSUME NEW m \in Nodes
          PROVE  row'.gen[m] + (IF row'.st[m] = "pending" THEN 1 ELSE 0) <= 1 + grants'[m]
      <4>1. row.gen[m] + (IF row.st[m] = "pending" THEN 1 ELSE 0) <= 1 + grants[m]
        BY DEF Budgets, PendingPaid
      <4>2. QED
        BY <1>0, <2>3, <4>1 DEF Dispatched
    <3>2. QED
      BY <2>3, <3>1 DEF Dispatched, PendingPaid, RetryBudget, Budgets
  <2>4. ASSUME NEW s \in Slots, NEW n \in Nodes, Retried(s, n)
        PROVE  PendingPaid' /\ RetryBudget'
    <3>1. ASSUME NEW m \in Nodes
          PROVE  row'.gen[m] + (IF row'.st[m] = "pending" THEN 1 ELSE 0) <= 1 + grants'[m]
      <4>1. row.gen[m] + (IF row.st[m] = "pending" THEN 1 ELSE 0) <= 1 + grants[m]
        BY DEF Budgets, PendingPaid
      <4>2. QED
        BY <1>0, <2>4, <4>1 DEF Retried
    <3>2. inv[s].count + 1 <= MaxRetries
      BY <1>0, <2>4 DEF Retried, Budgets, CountsInBudget
    <3>3. QED
      BY <1>0, <2>4, <3>1, <3>2 DEF Retried, PendingPaid, RetryBudget, Budgets
  <2>5. QED
    BY RowEffect, <2>1, <2>2, <2>3, <2>4 DEF NodeEffect
<1>3. QED
  BY <1>1, <1>2 DEF Budgets

\* What was witnessed stays witnessed, for any set of statuses that includes neither
\* pending nor running, when the history follows the row.
LEMMA WitnessedStep ==
  ASSUME TypeOK, [Next]_vars, NEW statuses, NEW ever, NEW after,
         ever \subseteq after, Witnessed(statuses, ever),
         "pending" \notin statuses, "running" \notin statuses,
         \A n \in Nodes : row'.st[n] \in statuses => n \in after
  PROVE  /\ \A n \in Nodes : row'.st[n] \in statuses \/ replica'.st[n] \in statuses => n \in after
         /\ \A s \in Slots, n \in Nodes : inv'[s].view.st[n] \in statuses => n \in after
<1>1. ASSUME NEW n \in Nodes, replica'.st[n] \in statuses PROVE n \in after
  BY <1>1, ExecutionEffect DEF Witnessed
<1>2. ASSUME NEW s \in Slots, NEW n \in Nodes, inv'[s].view.st[n] \in statuses
      PROVE  n \in after
  BY <1>2, InvocationEffect DEF Witnessed, Succeeds, ViewFrom
<1>3. QED
  BY <1>1, <1>2

\* The histories only grow, and follow the statuses of the row.
LEMMA HistoryStep ==
  ASSUME TypeOK, [Next]_vars
  PROVE  /\ everSettled \subseteq everSettled' /\ everTerminal \subseteq everTerminal'
         /\ \A n \in Nodes : row'.st[n] \in Settled /\ row.st[n] \notin Settled
                            => n \in everSettled'
         /\ \A n \in Nodes : row'.st[n] \in Terminal /\ row.st[n] \notin Terminal
                            => n \in everTerminal'
<1>0. row.st \in [Nodes -> NodeStatus]
  BY DEF TypeOK, Row
<1>1. QED
  BY <1>0, RowEffect
     DEF NodeEffect, Kept, Marked, Dispatched, Retried, HistoryKept, Settled, Terminal

LEMMA FrontierStep ==
  ASSUME TypeOK, Frontier, [Next]_vars
  PROVE  Frontier'
<1>0. row.gen \in [Nodes -> Nat] /\ row.st \in [Nodes -> NodeStatus]
  BY DEF TypeOK, Row
<1>1. Witnessed(Settled, everSettled)'
  <2>1. \A n \in Nodes : row'.st[n] \in Settled => n \in everSettled'
    BY HistoryStep DEF Frontier, Witnessed
  <2>2. QED
    BY <2>1, HistoryStep, WitnessedStep DEF Frontier, Witnessed, Settled
<1>2. TodoReady'
  <2>1. ASSUME NEW s \in Slots, inv'[s].pc \in Dispatching, NEW n \in inv'[s].todo
        PROVE  Preds(n) \subseteq everSettled'
    <3>1. CASE inv[s].pc \in Dispatching /\ n \in inv[s].todo
      BY <3>1, HistoryStep DEF Frontier, TodoReady
    <3>2. CASE Preds(n) = {}
      BY <3>2
    <3>3. CASE n \in find_ready_nodes(inv'[s].view.st)
      BY <1>1, <3>3 DEF find_ready_nodes, Preds, Witnessed
    <3>4. QED
      BY <2>1, <3>1, <3>2, <3>3, InvocationEffect DEF Succeeds, TodoFrom
  <2>2. QED
    BY <2>1 DEF TodoReady
<1>3. DispatchAfterPredecessors'
  <2>1. ASSUME NEW n \in Nodes, row'.gen[n] > 0
        PROVE  row.gen[n] > 0 \/ \E s \in Slots : inv[s].pc = "dispatch" /\ n \in inv[s].todo
    BY <1>0, <2>1, RowEffect DEF NodeEffect, Kept, Marked, Dispatched, Retried
  <2>2. QED
    BY <2>1, HistoryStep DEF DispatchAfterPredecessors, Frontier, TodoReady, Dispatching
<1>4. QED
  BY <1>1, <1>2, <1>3 DEF Frontier

LEMMA CompletionStep ==
  ASSUME TypeOK, Completion, [Next]_vars
  PROVE  Completion'
<1>0. everTerminal' \subseteq Nodes
  BY RowEffect DEF TypeOK, NodeEffect, Kept, Marked, Dispatched, Retried, HistoryKept
<1>1. Witnessed(Terminal, everTerminal)'
  <2>1. \A n \in Nodes : row'.st[n] \in Terminal => n \in everTerminal'
    BY HistoryStep DEF Completion, Witnessed
  <2>2. QED
    BY <2>1, HistoryStep, WitnessedStep DEF Completion, Witnessed, Terminal
<1>2. ASSUME NEW s \in Slots, AllTerminal(inv[s].view.st)
      PROVE  everTerminal = Nodes
  BY <1>2 DEF AllTerminal, Completion, Witnessed, TypeOK
<1>3. AnnouncedTerminal'
  BY <1>0, <1>2, InvocationEffect, HistoryStep
     DEF AnnouncedTerminal, Completion, Succeeds, AnnounceFrom
<1>4. FinalizedAfterAllTerminal'
  BY <1>0, <1>2, ExecutionEffect, HistoryStep
     DEF FinalizedAfterAllTerminal, AnnouncedTerminal, Completion
<1>5. QED
  BY <1>1, <1>3, <1>4 DEF Completion

LEMMA InitialInvariants ==
  ASSUME Init
  PROVE  Budgets /\ Frontier /\ Completion
<1>1. /\ row = InitRow /\ replica = InitRow /\ inv = [s \in Slots |-> Idle]
      /\ published.completed = 0 /\ grants = [n \in Nodes |-> 0]
  BY DEF Init
<1>2. \A n \in Nodes : /\ InitRow.st[n] = "pending" /\ InitRow.gen[n] = 0
                       /\ InitRow.rc[n] = 0 /\ Idle.view.st[n] = "pending"
  BY DEF InitRow, Idle, NoView
<1>3. Idle.pc = "idle" /\ InitRow.exec = "pending" /\ MaxRetries \in Nat
  BY StepRunnerAssumption DEF Idle, InitRow
<1>4. Budgets
  BY <1>1, <1>2, <1>3 DEF Budgets, PendingPaid, CountsInBudget, RetryBudget
<1>5. Frontier
  BY <1>1, <1>2, <1>3 DEF Frontier, Witnessed, TodoReady, Dispatching,
                          DispatchAfterPredecessors, Settled
<1>6. Completion
  BY <1>1, <1>2, <1>3 DEF Completion, Witnessed, AnnouncedTerminal,
                          FinalizedAfterAllTerminal, Terminal
<1>7. QED
  BY <1>4, <1>5, <1>6

LEMMA Invariants == Spec => [](Budgets /\ Frontier /\ Completion)
<1>1. Init => Budgets /\ Frontier /\ Completion
  BY InitialInvariants
<1>2. /\ TypeOK
      /\ Budgets /\ Frontier /\ Completion
      /\ [Next]_vars
      => (Budgets /\ Frontier /\ Completion)'
  BY BudgetsStep, FrontierStep, CompletionStep
<1>3. QED
  BY <1>1, <1>2, TypeCorrect, PTL DEF Spec

\* However many completions, resumes and sweeps find a node ready at once, on however
\* stale a snapshot, it is dispatched once and once more for each retry it was granted:
\* the condition of invoke_node's dispatch write is enough.
THEOREM DispatchOncePerGrantHolds == Spec => []DispatchOncePerGrant
<1>1. TypeOK /\ Budgets => DispatchOncePerGrant
  <2> SUFFICES ASSUME TypeOK, Budgets, NEW n \in Nodes
               PROVE  row.gen[n] <= 1 + grants[n]
    BY DEF DispatchOncePerGrant
  <2>1. row.gen[n] \in Nat /\ grants[n] \in Nat
    BY DEF TypeOK, Row
  <2>2. row.gen[n] + (IF row.st[n] = "pending" THEN 1 ELSE 0) <= 1 + grants[n]
    BY DEF Budgets, PendingPaid
  <2>3. QED
    BY <2>1, <2>2
<1>2. QED
  BY <1>1, Invariants, TypeCorrect, PTL

\* The recorded retry count stays within the policy, although handle_node_failure and
\* the watchdog both write a count they computed from a snapshot.
THEOREM RetryBudgetHolds == Spec => []RetryBudget
<1>1. Budgets => RetryBudget
  BY DEF Budgets
<1>2. QED
  BY <1>1, Invariants, PTL

\* No node is dispatched before each of its predecessors has been completed, skipped or
\* cut off, on every graph and for every staleness of the scheduler's snapshot.
THEOREM DispatchAfterPredecessorsHolds == Spec => []DispatchAfterPredecessors
<1>1. Frontier => DispatchAfterPredecessors
  BY DEF Frontier
<1>2. QED
  BY <1>1, Invariants, PTL

\* An execution is completed, and its completion announced, only after every node has
\* reached a terminal status, also when the finalizing snapshot is stale.
THEOREM FinalizedAfterAllTerminalHolds == Spec => []FinalizedAfterAllTerminal
<1>1. Completion => FinalizedAfterAllTerminal
  BY DEF Completion
<1>2. QED
  BY <1>1, Invariants, PTL

=============================================================================
