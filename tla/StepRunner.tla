----------------------------- MODULE StepRunner -----------------------------
(***************************************************************************)
(* One workflow execution driven by the step runner.                       *)
(*                                                                         *)
(* The whole state of an execution is one DynamoDB row. Lambda invocations *)
(* of arbiter/stepRunner (one per EventBridge event, plus the scheduled    *)
(* timeout watchdog) read the row, work on that snapshot and write single  *)
(* attributes back, some conditionally, some not; workers run the nodes,   *)
(* persist their result in the row and only then signal it. Each action    *)
(* below is the code between two accesses to the row, the worker queue or  *)
(* the event bus, so that handlers interleave where the Lambdas do.        *)
(*                                                                         *)
(* This module has the approval gate switched off (the default of          *)
(* APPROVAL_GATE_ENABLED) and a workflow without a compensation policy.    *)
(***************************************************************************)
EXTENDS Dag

CONSTANTS
  CondEdges,      \* the edges that carry a condition
  Refused,        \* nodes whose agent the release or approval gate refuses
  Handlers,       \* concurrent step-runner invocations
  Watchdogs,      \* concurrent watchdog sweeps
  Errors,         \* the error classes a worker may report
  Requests,       \* the API calls a user may make, each once
  MaxRetries,     \* retryPolicy.maxRetries, the same for every node
  MaxFaults,      \* bound: duplicated or lost deliveries, crashed invocations
  MaxStalls,      \* bound: how often a node is judged stalled
  ExecTimeout,    \* whether the execution may outlive the watchdog's timeout
  EventualReads   \* whether reads may be served by a replica that lags

Slots == Handlers \cup Watchdogs

ASSUME StepRunnerAssumption ==
  /\ CondEdges \subseteq Edges
  /\ Refused \subseteq Nodes
  /\ Errors \subseteq {"transient", "fatal"}
  /\ Requests \subseteq {"cancel", "resume"}
  /\ {MaxRetries, MaxFaults, MaxStalls} \subseteq Nat
  /\ {ExecTimeout, EventualReads} \subseteq BOOLEAN

VARIABLES
  row,       \* the execution row
  replica,   \* an older version of it, which an eventually consistent read may see
  queue,     \* the worker queue: dispatched nodes and the worker's progress on each
  events,    \* events on the bus, not yet delivered
  inv,       \* the running invocation of each slot, or Idle
  asked,     \* the API calls made so far
  stalls,    \* stall judgements so far
  faults,    \* faults so far
  published, \* history: terminal events published (the first two of each kind)
  grants,    \* history: how often each node was put back to pending for a retry
  everSettled,  \* history: nodes that have at some time been settled
  everTerminal  \* history: nodes that have at some time been terminal

vars == <<row, replica, queue, events, inv, asked, stalls, faults, published,
          grants, everSettled, everTerminal>>

NodeStatus == {"pending", "running", "completed", "failed", "skipped",
               "unreachable", "cancelled"}
ExecStatus == {"pending", "running", "completed", "failed", "cancelled"}
Terminal   == {"completed", "skipped", "failed", "unreachable"}
ExecEnded  == {"completed", "failed", "cancelled"}

\* The targets of the conditional edges out of n; a worker's output makes the
\* conditions of some subset of them false, and that subset stands for the output.
CondTargets(n) == {m \in Nodes : <<n, m>> \in CondEdges}

NoNode == "none"

\* Mutant: nodes that still run are taken to be finished.
AllStarted(st) == \A n \in Nodes : st[n] \in Terminal \cup {"running"}

\* Mutant: cancelled nodes count as finished.
AllOver(st) == \A n \in Nodes : st[n] \in Terminal \cup {"cancelled"}

\* Every node is terminal. Neither cancelled nodes nor parked ones are.
AllTerminal(st) == \A n \in Nodes : st[n] \in Terminal

(***************************************************************************)
(* The row, and what an invocation keeps of it                             *)
(***************************************************************************)
InitRow == [exec |-> "pending",
            st   |-> [n \in Nodes |-> "pending"],
            rc   |-> [n \in Nodes |-> 0],
            gen  |-> [n \in Nodes |-> 0],
            out  |-> [n \in Nodes |-> {}]]

NoView == [st |-> InitRow.st, out |-> InitRow.out]

Idle == [pc |-> "idle", kind |-> "none", node |-> NoNode, out |-> {},
         view |-> NoView, todo |-> {}, cuts |-> {}, count |-> 0]

ViewOf(r) == [st |-> r.st, out |-> r.out]

\* _load_execution is a GetItem without ConsistentRead.
Reads == IF EventualReads THEN {row, replica} ELSE {row}

Init ==
  /\ row = InitRow
  /\ replica = InitRow
  /\ queue = {}
  /\ events = {[kind |-> "start"]}
  /\ inv = [s \in Slots |-> Idle]
  /\ asked = {}
  /\ stalls = 0
  /\ faults = 0
  /\ published = [completed |-> 0, failed |-> 0]
  /\ grants = [n \in Nodes |-> 0]
  /\ everSettled = {}
  /\ everTerminal = {}

\* SET status = s
SetExec(s) ==
  /\ row' = [row EXCEPT !.exec = s]
  /\ UNCHANGED <<everSettled, everTerminal>>

\* Mutant: the path of the write is the execution's status, and not the node's.
SetWithoutPath(n, s) == SetExec(s)

\* SET nodeResults.n.status = s, with the history of the statuses reached.
SetNode(n, s) ==
  /\ row' = [row EXCEPT !.st[n] = s]
  /\ everSettled' = IF s \in Settled THEN everSettled \cup {n} ELSE everSettled
  /\ everTerminal' = IF s \in Terminal THEN everTerminal \cup {n} ELSE everTerminal

Continue(s, i) == inv' = [inv EXCEPT ![s] = i]

KeepRow == UNCHANGED <<row, everSettled, everTerminal>>

\* SET status = completed, output = out IF status <> completed: first write wins.
RecordCompletion(n, out) ==
  IF row.st[n] # "completed"
  THEN /\ row' = [row EXCEPT !.st[n] = "completed", !.out[n] = out]
       /\ everSettled' = everSettled \cup {n}
       /\ everTerminal' = everTerminal \cup {n}
  ELSE KeepRow

(***************************************************************************)
(* Delivery: index.handler routes an event to a handler, which loads the   *)
(* row and returns early or goes on. A duplicate leaves the event in place *)
(***************************************************************************)
Consume(e) ==
  \/ /\ events' = events \ {e}
     /\ UNCHANGED faults
  \/ /\ faults < MaxFaults
     /\ faults' = faults + 1
     /\ UNCHANGED events

\* start_execution: the idempotency check, then on to the write of 'running'.
start_execution(s, e, r) ==
  /\ e.kind = "start"
  /\ Continue(s, IF r.exec \in {"running", "completed", "failed", "cancelled"}
                 THEN Idle
                 ELSE [Idle EXCEPT !.pc = "start", !.kind = "start"])

\* handle_node_completion: no check of the execution's or the node's status.
handle_node_completion(s, e, r) ==
  /\ e.kind = "completed"
  /\ Continue(s, [Idle EXCEPT !.pc = "record", !.kind = "completed",
                              !.node = e.node, !.out = e.out, !.view = ViewOf(r)])

\* Mutants: one attempt too many, one too few.
retry_once_more(error, attempt) == attempt <= MaxRetries /\ error = "transient"
retry_once_less(error, attempt) == attempt + 1 < MaxRetries /\ error = "transient"

\* retry.should_retry: attempts left, and an error class the policy retries.
should_retry(error, attempt) == attempt < MaxRetries /\ error = "transient"

\* handle_node_failure: replays of a terminal failure are dropped.
handle_node_failure(s, e, r) ==
  /\ e.kind = "failed"
  /\ Continue(s, IF r.st[e.node] = "failed"
                 THEN Idle
                 ELSE [Idle EXCEPT !.pc = IF should_retry(e.err, r.rc[e.node])
                                          THEN "retry" ELSE "fail",
                                   !.kind = "failed", !.node = e.node,
                                   !.count = r.rc[e.node]])

\* cancel_execution: the nodes to cancel are those the snapshot shows unfinished.
cancel_execution(s, e, r) ==
  /\ e.kind = "cancel"
  /\ Continue(s, [Idle EXCEPT !.pc = "cancel", !.kind = "cancel",
                    !.todo = {n \in Nodes : r.st[n] \in {"pending", "running"}}])

\* The nodes _reconcile_completed_edges has conditional edges to prune for.
ToPrune(r) == {n \in Nodes : r.st[n] = "completed" /\ r.out[n] # {}}

\* _reconcile_completed_edges, on a row loaded by a resume or a sweep. Nodes whose
\* conditions all hold need no write, and without any the row is reloaded at once.
_reconcile_completed_edges(kind, r) ==
  IF ToPrune(r) = {} THEN [Idle EXCEPT !.pc = "reload", !.kind = kind]
  ELSE [Idle EXCEPT !.pc = "edges", !.kind = kind, !.view = ViewOf(r),
                    !.todo = ToPrune(r)]

\* resume_execution: terminal executions are rejected, a pending one is started.
resume_execution(s, e, r) ==
  /\ e.kind = "resume"
  /\ Continue(s, CASE r.exec \in ExecEnded -> Idle
                   [] r.exec = "pending" -> [Idle EXCEPT !.pc = "restart", !.kind = "resume",
                                                         !.view = ViewOf(r)]
                   [] OTHER -> _reconcile_completed_edges("resume", r))

handler ==
  \E s \in Handlers, e \in events, r \in Reads :
    /\ inv[s].pc = "idle"
    /\ Consume(e)
    /\ \/ start_execution(s, e, r)
       \/ handle_node_completion(s, e, r)
       \/ handle_node_failure(s, e, r)
       \/ cancel_execution(s, e, r)
       \/ resume_execution(s, e, r)
    /\ KeepRow
    /\ UNCHANGED <<replica, queue, asked, stalls, published, grants>>

(***************************************************************************)
(* The steps of a handler after its first load                             *)
(***************************************************************************)
\* schedule_frontier reads the statuses of the view only: what is ready is fixed
\* before the first dispatch. With nothing to dispatch it goes on to settle.
schedule_frontier(kind, view) ==
  LET ready == find_ready_nodes(view.st)
  IN  [Idle EXCEPT !.pc = IF ready = {} THEN "settle" ELSE "dispatch",
                   !.kind = kind, !.view = view, !.todo = ready]

\* The next conditional source to evaluate, or the way on: a completion schedules
\* the frontier of its own view, a resume or a sweep loads the row again.
AfterPrune(i) ==
  IF i.todo # {} THEN [i EXCEPT !.pc = "edges", !.cuts = {}]
  ELSE IF i.kind = "completed" THEN schedule_frontier(i.kind, i.view)
  ELSE [Idle EXCEPT !.pc = "reload", !.kind = i.kind]

\* The next ready node, or the end of the loop. start_execution stops after its
\* loop; so does a failure event or a cancellation after its own write.
AfterDispatch(i) ==
  CASE i.todo # {} -> [i EXCEPT !.pc = "dispatch", !.node = NoNode, !.count = 0]
    [] i.todo = {} /\ i.kind \in {"completed", "resume", "sweep"}
         -> [i EXCEPT !.pc = "settle", !.node = NoNode, !.count = 0]
    [] OTHER -> Idle

\* start_execution's SET status = running carries no condition.
start_write(s) ==
  /\ inv[s].pc = "start"
  /\ SetExec("running")
  /\ Continue(s, IF find_root_nodes = {} THEN Idle
                 ELSE [Idle EXCEPT !.pc = "dispatch", !.kind = "start",
                                   !.todo = find_root_nodes])
  /\ UNCHANGED grants

\* resume_execution of a pending row: the conditional pending -> running flip, and
\* a reload when it was lost.
resume_write(s) ==
  /\ inv[s].pc = "restart"
  /\ IF row.exec = "pending"
     THEN /\ SetExec("running")
          /\ Continue(s, _reconcile_completed_edges("resume", inv[s].view))
     ELSE /\ KeepRow
          /\ \E r \in Reads : Continue(s, _reconcile_completed_edges("resume", r))
  /\ UNCHANGED grants

\* handle_node_completion: first write wins, and the local view follows in any case.
record_completion(s) ==
  LET i == inv[s]
      viewed == [i.view EXCEPT !.st[i.node] = "completed", !.out[i.node] = i.out]
  IN  /\ i.pc = "record"
      /\ RecordCompletion(i.node, i.out)
      /\ Continue(s, AfterPrune([Idle EXCEPT !.kind = i.kind, !.view = viewed,
                                    !.todo = IF i.out = {} THEN {} ELSE {i.node}]))
      /\ UNCHANGED grants

\* _evaluate_and_persist_skips takes one completed node: the targets of its false
\* conditions are to be skipped.
evaluate_condition(s) ==
  \E n \in inv[s].todo :
    /\ inv[s].pc = "edges"
    /\ Continue(s, [inv[s] EXCEPT !.pc = "skip", !.todo = @ \ {n},
                                  !.cuts = inv[s].view.out[n]])
    /\ KeepRow
    /\ UNCHANGED grants

\* The set the false targets and everything already dead make unreachable.
Unreachable(st) ==
  propagate_skips({n \in Nodes : st[n] \in {"skipped", "unreachable"}})

\* One unconditional SET skipped per false target; the last one propagates.
persist_skip(s) ==
  \E n \in inv[s].cuts :
    LET viewed == [inv[s].view EXCEPT !.st[n] = "skipped"]
        i == [inv[s] EXCEPT !.view = viewed, !.cuts = @ \ {n}]
        dead == Unreachable(viewed.st)
    IN  /\ inv[s].pc = "skip"
        /\ SetNode(n, "skipped")
        /\ Continue(s, CASE i.cuts # {} -> i
                         [] i.cuts = {} /\ dead # {} -> [i EXCEPT !.pc = "cut", !.cuts = dead]
                         [] OTHER -> AfterPrune(i))
        /\ UNCHANGED grants

\* One unconditional SET unreachable per node cut off.
persist_unreachable(s) ==
  \E n \in inv[s].cuts :
    LET i == [inv[s] EXCEPT !.view.st[n] = "unreachable", !.cuts = @ \ {n}]
    IN  /\ inv[s].pc = "cut"
        /\ SetNode(n, "unreachable")
        /\ Continue(s, IF i.cuts # {} THEN i ELSE AfterPrune(i))
        /\ UNCHANGED grants

\* resume_execution and the watchdog load the row again before scheduling.
reload(s) ==
  \E r \in Reads :
    /\ inv[s].pc = "reload"
    /\ Continue(s, schedule_frontier(inv[s].kind, ViewOf(r)))
    /\ KeepRow
    /\ UNCHANGED grants

\* Mutant: the dispatch write carries no condition.
Unguarded(n) == TRUE

\* ConditionExpression of the dispatch write: the node is still pending.
DispatchGuard(n) == row.st[n] = "pending"

\* _check_release_gate, and _check_approval_gate after it: refused by either.
_check_release_gate(n) == n \in Refused

\* invoke_node. Whatever it does, schedule_frontier's status map then says running.
invoke_node(s) ==
  \E n \in inv[s].todo :
    LET i == [inv[s] EXCEPT !.todo = @ \ {n}, !.view.st[n] = "running"]
    IN  /\ inv[s].pc = "dispatch"
        /\ IF _check_release_gate(n)
           THEN \* handle_node_failure, with a load of its own; never retried
                /\ KeepRow
                /\ \E r \in Reads :
                     Continue(s, IF r.st[n] = "failed" THEN AfterDispatch(i)
                                 ELSE [i EXCEPT !.pc = "fail", !.node = n])
           ELSE IF DispatchGuard(n)
           THEN \* pending -> running, and the next generation
                /\ row' = [row EXCEPT !.st[n] = "running", !.gen[n] = @ + 1]
                /\ UNCHANGED <<everSettled, everTerminal>>
                /\ Continue(s, [i EXCEPT !.pc = "send", !.node = n,
                                         !.count = row.gen[n] + 1])
           ELSE /\ KeepRow
                /\ Continue(s, AfterDispatch(i))
        /\ UNCHANGED grants

\* handle_node_failure's retry: both attributes come from the snapshot, neither
\* write is conditional.
schedule_retry(s) ==
  LET n == inv[s].node
  IN  /\ inv[s].pc = "retry"
      /\ row' = [row EXCEPT !.st[n] = "pending", !.rc[n] = inv[s].count + 1]
      /\ grants' = [grants EXCEPT ![n] = @ + 1]
      /\ UNCHANGED <<everSettled, everTerminal>>
      /\ Continue(s, Idle)

\* handle_node_failure without a retry: node and execution fail in one write.
fail_node(s) ==
  /\ inv[s].pc = "fail"
  /\ row' = [row EXCEPT !.st[inv[s].node] = "failed", !.exec = "failed"]
  /\ everTerminal' = everTerminal \cup {inv[s].node}
  /\ UNCHANGED <<everSettled, grants>>
  /\ Continue(s, [inv[s] EXCEPT !.pc = "announceFailed"])

\* _finalize_execution when the view has every node terminal.
_finalize_execution(s) ==
  /\ inv[s].pc = "settle"
  /\ AllTerminal(inv[s].view.st)
  /\ IF row.exec = "running"
     THEN /\ SetExec("completed")
          /\ Continue(s, [Idle EXCEPT !.pc = "announceCompleted", !.kind = inv[s].kind])
     ELSE /\ KeepRow
          /\ Continue(s, Idle)
  /\ UNCHANGED grants

\* schedule_frontier otherwise: SET status = running whenever it is not running.
ensure_running(s) ==
  /\ inv[s].pc = "settle"
  /\ ~AllTerminal(inv[s].view.st)
  /\ IF row.exec # "running" THEN SetExec("running") ELSE KeepRow
  /\ Continue(s, Idle)
  /\ UNCHANGED grants

\* cancel_execution: the nodes of the snapshot one by one, then the execution.
cancel_node(s) ==
  \E n \in inv[s].todo :
    /\ inv[s].pc = "cancel"
    /\ SetNode(n, "cancelled")
    /\ Continue(s, [inv[s] EXCEPT !.todo = @ \ {n}])
    /\ UNCHANGED grants

cancel_write(s) ==
  /\ inv[s].pc = "cancel"
  /\ inv[s].todo = {}
  /\ SetExec("cancelled")
  /\ Continue(s, [inv[s] EXCEPT !.pc = "announceFailed"])
  /\ UNCHANGED grants

\* invoke_node's send_message to the worker queue, with the generation it wrote.
send_message(s) ==
  /\ inv[s].pc = "send"
  /\ queue' = queue \cup {[node |-> inv[s].node, gen |-> inv[s].count,
                           stage |-> "queued", out |-> {}]}
  /\ Continue(s, AfterDispatch(inv[s]))
  /\ KeepRow
  /\ UNCHANGED <<replica, events, asked, stalls, faults, published, grants>>

\* The history counts the terminal events up to two.
Bump(k) == IF k < 2 THEN k + 1 ELSE k

\* The terminal event, published after the write that decided it.
publish_terminal(s) ==
  /\ \/ /\ inv[s].pc = "announceCompleted"
        /\ published' = [published EXCEPT !.completed = Bump(@)]
        /\ Continue(s, Idle)
     \/ /\ inv[s].pc = "announceFailed"
        /\ published' = [published EXCEPT !.failed = Bump(@)]
        /\ Continue(s, AfterDispatch(inv[s]))
  /\ KeepRow
  /\ UNCHANGED <<replica, queue, events, asked, stalls, faults, grants>>

(***************************************************************************)
(* The watchdog: one sweep's disposition of this execution                 *)
(***************************************************************************)
_has_reconcilable_frontier(r) ==
  \/ find_ready_nodes(r.st) # {}
  \/ AllTerminal(r.st)

\* The watchdog's own test of the retry budget: any stall is retryable.
unstall_budget(count) == count < MaxRetries

\* A stalled node: flip it back while retries remain, else handle_node_failure with
\* a load of its own. How long a node has run is not modelled: any running node
\* may be judged stalled, MaxStalls times.
_reconcile_or_fail_node(s, r) ==
  \E n \in {m \in Nodes : r.st[m] = "running"} :
    /\ stalls < MaxStalls
    /\ stalls' = stalls + 1
    /\ IF unstall_budget(r.rc[n])
       THEN Continue(s, [Idle EXCEPT !.pc = "unstall", !.kind = "sweep",
                                     !.node = n, !.count = r.rc[n]])
       ELSE \E f \in Reads :
              Continue(s, IF f.st[n] = "failed" THEN Idle
                          ELSE [Idle EXCEPT !.pc = "fail", !.kind = "failed", !.node = n])

\* Mutant: the sweep looks for executions that have not started.
ScanPending(r) == r.exec = "pending"

\* _scan_running's filter.
_scan_running(r) == r.exec = "running"

\* _process_execution: a lost-event frontier first, then a stalled node, then the
\* execution-level timeout.
_process_execution ==
  \E s \in Watchdogs, r \in Reads :
    /\ inv[s].pc = "idle"
    /\ _scan_running(r)
    /\ \/ /\ _has_reconcilable_frontier(r)
          /\ Continue(s, _reconcile_completed_edges("sweep", r))
          /\ UNCHANGED stalls
       \/ /\ ~_has_reconcilable_frontier(r)
          /\ _reconcile_or_fail_node(s, r)
       \/ /\ ~_has_reconcilable_frontier(r)
          /\ ExecTimeout
          /\ Continue(s, [Idle EXCEPT !.pc = "expire", !.kind = "failed"])
          /\ UNCHANGED stalls
    /\ KeepRow
    /\ UNCHANGED <<replica, queue, events, asked, faults, published, grants>>

\* _reconcile_or_fail_node's conditional running -> pending, then a reload.
unstall(s) ==
  LET n == inv[s].node
  IN  /\ inv[s].pc = "unstall"
      /\ IF row.st[n] = "running"
         THEN /\ row' = [row EXCEPT !.st[n] = "pending", !.rc[n] = inv[s].count + 1]
              /\ grants' = [grants EXCEPT ![n] = @ + 1]
              /\ UNCHANGED <<everSettled, everTerminal>>
              /\ Continue(s, [Idle EXCEPT !.pc = "reload", !.kind = "sweep"])
         ELSE /\ KeepRow
              /\ UNCHANGED grants
              /\ Continue(s, Idle)

\* _fail_stuck: the conditional running -> failed of the execution only.
_fail_stuck(s) ==
  /\ inv[s].pc = "expire"
  /\ IF row.exec = "running"
     THEN /\ SetExec("failed")
          /\ Continue(s, [inv[s] EXCEPT !.pc = "announceFailed"])
     ELSE /\ KeepRow
          /\ Continue(s, Idle)
  /\ UNCHANGED grants

\* The steps that touch neither queue nor bus.
RowStep ==
  /\ \E s \in Slots :
       \/ start_write(s) \/ resume_write(s) \/ record_completion(s)
       \/ evaluate_condition(s) \/ persist_skip(s) \/ persist_unreachable(s)
       \/ reload(s) \/ invoke_node(s) \/ schedule_retry(s) \/ fail_node(s)
       \/ _finalize_execution(s) \/ ensure_running(s)
       \/ cancel_node(s) \/ cancel_write(s)
       \/ unstall(s) \/ _fail_stuck(s)
  /\ UNCHANGED <<replica, queue, events, asked, stalls, faults, published>>

(***************************************************************************)
(* Workers: _process_workflow_node                                         *)
(***************************************************************************)
WorkerFrame == UNCHANGED <<replica, inv, asked, stalls, published, grants>>

\* Mutant: the worker signals its result without having persisted it.
SignalOnly(n, out) == KeepRow

\* The worker's own write of its result.
PersistResult(n, out) == RecordCompletion(n, out)

\* The agent body succeeded: _persist_node_completion.
_persist_node_completion ==
  \E m \in queue : \E out \in SUBSET CondTargets(m.node) :
    /\ m.stage = "queued"
    /\ PersistResult(m.node, out)
    /\ queue' = (queue \ {m}) \cup {[m EXCEPT !.stage = "persisted", !.out = out]}
    /\ UNCHANGED <<events, faults>>
    /\ WorkerFrame

\* _emit_node_result after the persist, with this worker's own output.
emit_completed ==
  \E m \in queue :
    /\ m.stage = "persisted"
    /\ events' = events \cup {[kind |-> "completed", node |-> m.node, gen |-> m.gen,
                              out |-> m.out]}
    /\ queue' = queue \ {m}
    /\ KeepRow
    /\ UNCHANGED faults
    /\ WorkerFrame

\* The agent body, or anything before it, raised: nothing is persisted.
emit_failed ==
  \E m \in queue, error \in Errors :
    /\ m.stage = "queued"
    /\ events' = events \cup {[kind |-> "failed", node |-> m.node, gen |-> m.gen,
                              err |-> error]}
    /\ queue' = queue \ {m}
    /\ KeepRow
    /\ UNCHANGED faults
    /\ WorkerFrame

\* A worker dies: SQS delivers its message again, or the dead-letter queue has it.
worker_crash ==
  \E m \in queue :
    /\ faults < MaxFaults
    /\ faults' = faults + 1
    /\ \/ queue' = queue \ {m}
       \/ /\ m.stage = "persisted"
          /\ queue' = (queue \ {m}) \cup {[m EXCEPT !.stage = "queued", !.out = {}]}
    /\ KeepRow
    /\ UNCHANGED events
    /\ WorkerFrame

(***************************************************************************)
(* The API, the infrastructure, and the specification                      *)
(***************************************************************************)
\* execution-resolver.ts cancelExecution: an unconditional SET, then the event.
cancelExecution ==
  /\ "cancel" \in Requests \ asked
  /\ asked' = asked \cup {"cancel"}
  /\ SetExec("cancelled")
  /\ events' = events \cup {[kind |-> "cancel"]}
  /\ UNCHANGED <<replica, queue, inv, stalls, faults, published, grants>>

\* execution-resolver.ts resumeExecution: terminal executions are rejected.
resumeExecution ==
  /\ "resume" \in Requests \ asked
  /\ \E r \in Reads : r.exec \notin ExecEnded
  /\ asked' = asked \cup {"resume"}
  /\ events' = events \cup {[kind |-> "resume"]}
  /\ KeepRow
  /\ UNCHANGED <<replica, queue, inv, stalls, faults, published, grants>>

\* An invocation dies between two accesses (Lambda timeout, throttled write); the
\* event it was given is gone once its retries are used up.
crash ==
  \E s \in Slots :
    /\ inv[s].pc # "idle"
    /\ faults < MaxFaults
    /\ faults' = faults + 1
    /\ Continue(s, Idle)
    /\ KeepRow
    /\ UNCHANGED <<replica, queue, events, asked, stalls, published, grants>>

\* The replica that eventually consistent reads may be served from catches up.
replicate ==
  /\ EventualReads
  /\ replica # row
  /\ replica' = row
  /\ KeepRow
  /\ UNCHANGED <<queue, events, inv, asked, stalls, faults, published, grants>>

InvocationStep == RowStep \/ \E s \in Slots : send_message(s) \/ publish_terminal(s)

WorkerStep == _persist_node_completion \/ emit_completed \/ emit_failed

Next ==
  \/ handler
  \/ InvocationStep
  \/ _process_execution
  \/ WorkerStep
  \/ worker_crash
  \/ cancelExecution
  \/ resumeExecution
  \/ crash
  \/ replicate

Spec == Init /\ [][Next]_vars

\* Lambda and SQS run what they were given, EventBridge delivers, the watchdog is
\* scheduled every five minutes and replicas converge. Users need not call.
Fairness ==
  /\ WF_vars(handler)
  /\ WF_vars(InvocationStep)
  /\ WF_vars(_process_execution)
  /\ WF_vars(WorkerStep)
  /\ WF_vars(replicate)

FairSpec == Spec /\ Fairness

(***************************************************************************)
(* Properties                                                              *)
(***************************************************************************)
View == [st : [Nodes -> NodeStatus], out : [Nodes -> SUBSET Nodes]]

Steps == {"idle", "start", "restart", "record", "edges", "skip", "cut", "reload",
          "dispatch", "send", "settle", "retry", "fail", "cancel", "unstall", "expire",
          "announceCompleted", "announceFailed"}

Kinds == {"none", "start", "completed", "failed", "cancel", "resume", "sweep"}

\* An invocation that is about to write a node knows which one.
Invocation ==
  {i \in [pc : Steps, kind : Kinds, node : Nodes \cup {NoNode}, out : SUBSET Nodes,
          view : View, todo : SUBSET Nodes, cuts : SUBSET Nodes, count : Nat] :
     i.pc \in {"record", "send", "retry", "fail", "unstall"} => i.node \in Nodes}

Row == [exec : ExecStatus, st : [Nodes -> NodeStatus], rc : [Nodes -> Nat],
        gen : [Nodes -> Nat], out : [Nodes -> SUBSET Nodes]]

Message == [node : Nodes, gen : Nat, stage : {"queued", "persisted"}, out : SUBSET Nodes]

Event == [kind : {"start", "cancel", "resume"}]
         \cup [kind : {"completed"}, node : Nodes, gen : Nat, out : SUBSET Nodes]
         \cup [kind : {"failed"}, node : Nodes, gen : Nat, err : Errors]

\* The values every variable ranges over: the shape of the execution row, of an
\* invocation's local state, of the worker queue and of the event bus. Nodes and the
\* execution keep their statuses in attributes of one name and have a vocabulary each
\* (nodeResults.n.status and status, in one expression in handle_node_failure).
TypeOK ==
  /\ row \in Row
  /\ replica \in Row
  /\ queue \subseteq Message
  /\ events \subseteq Event
  /\ inv \in [Slots -> Invocation]
  /\ asked \subseteq Requests
  /\ stalls \in Nat
  /\ faults \in Nat
  /\ published \in [completed : 0..2, failed : 0..2]
  /\ grants \in [Nodes -> Nat]
  /\ everSettled \subseteq Nodes
  /\ everTerminal \subseteq Nodes

\* A node is dispatched once, and once more for each retry it was granted by
\* handle_node_failure or the watchdog, however many completions, resumes and
\* sweeps find it ready at the same time (invoke_node's dispatch guard).
DispatchOncePerGrant == \A n \in Nodes : row.gen[n] <= 1 + grants[n]

\* No node is dispatched before each of its predecessors has been completed,
\* skipped or cut off, although every scheduler decides on a stale snapshot and
\* branches are pruned by other handlers (find_ready_nodes, schedule_frontier).
DispatchAfterPredecessors ==
  \A n \in Nodes : row.gen[n] > 0 => Preds(n) \subseteq everSettled

\* An execution is finalized as completed only after every node has reached a
\* terminal status, also when the finalizing view is stale (_finalize_execution).
FinalizedAfterAllTerminal ==
  row.exec = "completed" \/ published.completed > 0 => everTerminal = Nodes

\* retryCount stays within the policy although handle_node_failure and the watchdog
\* both write a snapshot's count plus one (should_retry, _reconcile_or_fail_node).
RetryBudget == \A n \in Nodes : row.rc[n] <= MaxRetries

\* With every event delivered once, a completed node keeps its status: a recorded
\* completion is never thrown away for another attempt, or marked by another path
\* (_persist_node_completion's first-write-wins against every unconditional SET).
CompletionKept ==
  [][\A n \in Nodes : row.st[n] = "completed" => row'.st[n] = "completed"]_vars

\* With every event delivered once and only transient errors, a node fails for good
\* only after all its attempts were dispatched (should_retry and the retry write).
AllAttemptsMade ==
  \A n \in Nodes : row.st[n] = "failed" => row.gen[n] = MaxRetries + 1

\* Without faults and without a watchdog a fan-in is never missed: since workers
\* persist before they signal, whoever reads the row last sees every predecessor
\* completed. The workflow is announced as completed unless some node had to be
\* retried, which leaves it pending for the watchdog.
FanInReached == <>(published.completed > 0 \/ \E n \in Nodes : grants[n] > 0)

\* Whatever is lost, crashes or fails, a running execution eventually ends and stays
\* ended: the watchdog finds it (_process_execution).
EventuallyEnds == <>[](row.exec # "running")

\* The execution keeps the promises of Workflow: the writes of all handlers, sweeps and
\* workers together are a history in which nothing is dispatched, granted, completed,
\* pruned, failed or announced before its cause (schedule_frontier, invoke_node,
\* handle_node_failure, _evaluate_and_persist_skips, _finalize_execution).
W == INSTANCE Workflow WITH dispatches <- row.gen, settled <- everSettled,
                            ended <- everTerminal, announced <- published.completed > 0

ImplementsWorkflow == W!Spec

(***************************************************************************)
(* What the safety invariants rest on                                      *)
(***************************************************************************)
\* A dispatch that is still to come has been paid for already.
PendingPaid ==
  \A n \in Nodes : row.gen[n] + (IF row.st[n] = "pending" THEN 1 ELSE 0) <= 1 + grants[n]

\* Whoever is about to write a retry has seen one left.
CountsInBudget ==
  \A s \in Slots : inv[s].pc \in {"retry", "unstall"} => inv[s].count < MaxRetries

\* Whoever sees a status, in the row, the replica or a snapshot, sees one that was
\* reached: no snapshot ever runs ahead of the row.
Witnessed(statuses, ever) ==
  /\ \A n \in Nodes : row.st[n] \in statuses \/ replica.st[n] \in statuses => n \in ever
  /\ \A s \in Slots, n \in Nodes : inv[s].view.st[n] \in statuses => n \in ever

\* The steps at which an invocation may hold nodes it will still dispatch.
Dispatching == {"dispatch", "send", "fail", "expire", "announceFailed"}

TodoReady ==
  \A s \in Slots : inv[s].pc \in Dispatching =>
    \A n \in inv[s].todo : Preds(n) \subseteq everSettled

AnnouncedTerminal ==
  \A s \in Slots : inv[s].pc = "announceCompleted" => everTerminal = Nodes

(***************************************************************************)
(* What the documentation, the comments and the docstrings say             *)
(***************************************************************************)
\* "finalize + the terminal event fire exactly once" (docs/TRACING_RUNBOOK.md).
FinalizedOnce == published.completed <= 1

\* A node whose failure is terminal fails the execution: it is never announced as
\* completed (invoke_node on a refused dispatch, docs/BLUEPRINTS_WORKFLOWS.md).
FailureIsTerminal ==
  published.completed > 0 => \A n \in Nodes : row.st[n] # "failed"

=============================================================================
