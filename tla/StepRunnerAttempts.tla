------------------------- MODULE StepRunnerAttempts -------------------------
(***************************************************************************)
(* What StepRunner promises of a run that nothing disturbs: no fault, no   *)
(* cancellation, no stall or timeout judged, no conditional edge. Such a   *)
(* run may still have any number of handlers and sweeps, resumes and       *)
(* failing nodes. The proofs follow an attempt at a node from hand to hand *)
(* (the scheduler, the queue, a worker, the bus, a handler): there is only *)
(* one hand at a time, and a result is persisted before it is passed on.   *)
(***************************************************************************)
EXTENDS StepRunnerProofs

Undisturbed ==
  /\ CondEdges = {} /\ "cancel" \notin Requests
  /\ MaxFaults = 0 /\ MaxStalls = 0 /\ ~ExecTimeout

(***************************************************************************)
(* The inductive invariant                                                 *)
(***************************************************************************)
\* An invocation that neither prunes nor cancels nor judges a stall.
Plain(j) ==
  /\ j.pc \notin {"edges", "skip", "cut", "cancel", "unstall", "expire"}
  /\ j.out = {} /\ \A n \in Nodes : j.view.out[n] = {}

NoPruning ==
  /\ \A s \in Slots : Plain(inv[s])
  /\ \A n \in Nodes : row.out[n] = {} /\ replica.out[n] = {}
  /\ \A m \in queue : m.out = {}
  /\ \A e \in events : e.kind # "cancel" /\ (e.kind = "completed" => e.out = {})

\* Where an attempt at n may be: in the queue, on the bus as a failure, or in the
\* hands of an invocation that is about to send it or to write its failure.
Queued(n) == {m \in queue : m.node = n /\ m.stage = "queued"}
Failures(n) == {e \in events : e.kind = "failed" /\ e.node = n}
Acting(n) == {s \in Slots : inv[s].pc \in {"send", "retry", "fail"} /\ inv[s].node = n}

OneAttempt ==
  \A n \in Nodes \ Refused :
    /\ Queued(n) # {} \/ Failures(n) # {} \/ Acting(n) # {} => row.st[n] = "running"
    /\ \A m, k \in Queued(n) : m = k
    /\ \A e, f \in Failures(n) : e = f
    /\ \A s, t \in Acting(n) : s = t
    /\ Queued(n) # {} => Failures(n) = {} /\ Acting(n) = {}
    /\ Failures(n) # {} => Acting(n) = {}

\* Whoever carries a result carries one that the row has.
ResultsPersisted ==
  /\ \A m \in queue : m.stage = "persisted" => row.st[m.node] = "completed"
  /\ \A e \in events : e.kind = "completed" => row.st[e.node] = "completed"
  /\ \A s \in Slots : inv[s].pc = "record" => row.st[inv[s].node] = "completed"

\* A refused node never gets as far as an attempt.
RefusedNeverRun ==
  /\ \A n \in Refused : row.st[n] \notin {"running", "completed"}
  /\ \A m \in queue : m.node \notin Refused
  /\ \A e \in events : e.kind \in {"completed", "failed"} => e.node \notin Refused
  /\ \A s \in Slots : inv[s].pc \in {"send", "retry", "record"} => inv[s].node \notin Refused

Attempts == NoPruning /\ OneAttempt /\ ResultsPersisted /\ RefusedNeverRun

(***************************************************************************)
(* What a step does to the attempts                                        *)
(***************************************************************************)
Retains == row'.st = row.st /\ row'.gen = row.gen /\ row'.rc = row.rc /\ row'.out = row.out

\* An invocation with no attempt in its hands.
Holding == {"send", "retry", "fail", "record"}
Rest(j) == Plain(j) /\ j.pc \notin Holding

\* s moves on with j, everyone else stays.
Moves(s, j) == inv'[s] = j /\ \A t \in Slots \ {s} : inv'[t] = inv[t]

QuietStep ==
  /\ Retains
  /\ queue' = queue
  /\ \A e \in events' : e \in events \/ e.kind = "resume"
  /\ \A s \in Slots : inv'[s] = inv[s] \/ Rest(inv'[s])

\* A handler takes a result from the bus.
Takes(s, e) ==
  /\ Retains /\ queue' = queue
  /\ e \in events /\ events' = events \ {e}
  /\ inv[s].pc \notin Holding
  /\ \E j : /\ Moves(s, j) /\ Plain(j) /\ j.node = e.node
            /\ \/ e.kind = "completed" /\ j.pc = "record"
               \/ /\ e.kind = "failed"
                  /\ \E r \in Reads : /\ j.count = r.rc[e.node]
                                      /\ j.pc = IF should_retry(e.err, j.count)
                                                THEN "retry" ELSE "fail"

\* An invocation is about to fail a node that was refused.
Refuses(s) ==
  /\ Retains /\ queue' = queue /\ events' = events
  /\ inv[s].pc \notin Holding
  /\ \E j : Moves(s, j) /\ Plain(j) /\ j.pc = "fail" /\ j.node \in Refused

Dispatches(s) ==
  \E n \in Nodes \ Refused :
    /\ row.st[n] = "pending"
    /\ row'.st = [row.st EXCEPT ![n] = "running"]
    /\ row'.gen = [row.gen EXCEPT ![n] = @ + 1]
    /\ row'.rc = row.rc /\ row'.out = row.out
    /\ queue' = queue /\ events' = events
    /\ inv[s].pc \notin Holding
    /\ \E j : Moves(s, j) /\ Plain(j) /\ j.pc = "send" /\ j.node = n

Sends(s) ==
  /\ Retains /\ events' = events
  /\ inv[s].pc = "send"
  /\ \E m : /\ queue' = queue \cup {m}
            /\ m.node = inv[s].node /\ m.stage = "queued" /\ m.out = {}
  /\ \E j : Moves(s, j) /\ Rest(j)

Retries(s) ==
  /\ inv[s].pc = "retry"
  /\ row'.st = [row.st EXCEPT ![inv[s].node] = "pending"]
  /\ row'.rc = [row.rc EXCEPT ![inv[s].node] = inv[s].count + 1]
  /\ row'.gen = row.gen /\ row'.out = row.out
  /\ queue' = queue /\ events' = events
  /\ \E j : Moves(s, j) /\ Rest(j)

FailsNode(s) ==
  /\ inv[s].pc = "fail"
  /\ row'.st = [row.st EXCEPT ![inv[s].node] = "failed"]
  /\ row'.gen = row.gen /\ row'.rc = row.rc /\ row'.out = row.out
  /\ queue' = queue /\ events' = events
  /\ \E j : Moves(s, j) /\ Rest(j)

Persists(m) ==
  /\ m \in queue /\ m.stage = "queued"
  /\ row'.st = [row.st EXCEPT ![m.node] = "completed"]
  /\ row'.gen = row.gen /\ row'.rc = row.rc /\ \A n \in Nodes : row'.out[n] = {}
  /\ events' = events /\ inv' = inv
  /\ \E k : /\ queue' = (queue \ {m}) \cup {k}
            /\ k.node = m.node /\ k.stage = "persisted" /\ k.out = {}

Emits(m) ==
  /\ Retains /\ inv' = inv
  /\ m \in queue /\ queue' = queue \ {m}
  /\ \E e : /\ events' = events \cup {e} /\ e.node = m.node
            /\ \/ m.stage = "persisted" /\ e.kind = "completed" /\ e.out = {}
               \/ m.stage = "queued" /\ e.kind = "failed" /\ e.err \in Errors

AttemptEffect ==
  \/ QuietStep
  \/ \E s \in Slots : \E e \in events : Takes(s, e)
  \/ \E s \in Slots : \/ Refuses(s) \/ Dispatches(s) \/ Sends(s)
                      \/ Retries(s) \/ FailsNode(s)
  \/ \E m \in queue : Persists(m) \/ Emits(m)

(***************************************************************************)
(* Where an invocation goes on to                                          *)
(***************************************************************************)
LEMMA RestIdle == Rest(Idle)
  BY DEF Rest, Plain, Holding, Idle, NoView, InitRow

LEMMA RestFresh ==
  ASSUME NEW k
  PROVE  /\ Rest([Idle EXCEPT !.pc = "reload", !.kind = k])
         /\ Rest([Idle EXCEPT !.pc = "start", !.kind = k])
         /\ Rest([Idle EXCEPT !.pc = "announceCompleted", !.kind = k])
         /\ \A t : Rest([Idle EXCEPT !.pc = "dispatch", !.kind = k, !.todo = t])
  BY DEF Rest, Plain, Holding, Idle, NoView, InitRow

LEMMA RestFrontier ==
  ASSUME NEW k, NEW v, \A n \in Nodes : v.out[n] = {}
  PROVE  Rest(schedule_frontier(k, v))
<1> DEFINE j == schedule_frontier(k, v)
<1>1. j.view = v /\ j.pc \in {"settle", "dispatch"} /\ j.out = {}
  BY DEF schedule_frontier, Idle
<1>2. QED
  <2> HIDE DEF j
  <2>1. Rest(j)
    BY <1>1 DEF Rest, Plain, Holding
  <2>2. QED
    BY <2>1 DEF j

LEMMA RestReconcile ==
  ASSUME NEW k, NEW r, \A n \in Nodes : r.out[n] = {}
  PROVE  Rest(_reconcile_completed_edges(k, r))
  BY RestFresh DEF _reconcile_completed_edges, ToPrune

LEMMA RestAfterDispatch ==
  ASSUME NEW j \in Invocation, j.out = {}, \A n \in Nodes : j.view.out[n] = {}
  PROVE  Rest(AfterDispatch(j))
<1> DEFINE q == AfterDispatch(j)
<1>1. \/ q = Idle
      \/ q.pc \in {"dispatch", "settle"} /\ q.view = j.view /\ q.out = j.out
  BY DEF AfterDispatch, Invocation
<1>2. QED
  <2> HIDE DEF q
  <2>1. Rest(q)
    BY <1>1, RestIdle DEF Rest, Plain, Holding
  <2>2. QED
    BY <2>1 DEF q

LEMMA MovesOn ==
  ASSUME TypeOK, NEW s \in Slots, NEW j, Continue(s, j)
  PROVE  Moves(s, j)
  BY DEF TypeOK, Continue, Moves

\* A step that leaves the nodes, the queue and the bus alone, and lets go.
LEMMA QuietMove ==
  ASSUME TypeOK, NEW s \in Slots, NEW j, Continue(s, j), Rest(j),
         Retains, queue' = queue, \A e \in events' : e \in events \/ e.kind = "resume"
  PROVE  QuietStep
  BY MovesOn DEF QuietStep, Moves

LEMMA WritesRetain ==
  ASSUME TypeOK
  PROVE  /\ KeepRow => Retains
         /\ \A v : SetExec(v) => Retains
  BY DEF TypeOK, KeepRow, SetExec, Retains, Row

LEMMA ReadsBare ==
  ASSUME NoPruning, NEW r \in Reads
  PROVE  \A n \in Nodes : r.out[n] = {} /\ ViewOf(r).out[n] = {}
  BY DEF NoPruning, Reads, ViewOf

LEMMA HandlerAttempt ==
  ASSUME Undisturbed, TypeOK, NoPruning, handler
  PROVE  QuietStep \/ \E s \in Slots : \E e \in events : Takes(s, e)
<1>1. PICK s \in Handlers, e \in events, r \in Reads :
        /\ inv[s].pc = "idle"
        /\ Consume(e)
        /\ \/ start_execution(s, e, r)
           \/ handle_node_completion(s, e, r)
           \/ handle_node_failure(s, e, r)
           \/ cancel_execution(s, e, r)
           \/ resume_execution(s, e, r)
        /\ KeepRow
        /\ UNCHANGED <<replica, queue, asked, stalls, published, grants>>
  BY DEF handler
<1>2. s \in Slots /\ events' = events \ {e} /\ Retains /\ queue' = queue
      /\ inv[s].pc \notin Holding
  BY <1>1, WritesRetain DEF Slots, Consume, Undisturbed, TypeOK, Holding
<1>3. ASSUME NEW j, Continue(s, j), Rest(j) PROVE QuietStep
  BY <1>2, <1>3, QuietMove
<1>4. ASSUME NEW j, Continue(s, j), Plain(j), j.node = e.node,
             \/ e.kind = "completed" /\ j.pc = "record"
             \/ /\ e.kind = "failed"
                /\ j.count = r.rc[e.node]
                /\ j.pc = IF should_retry(e.err, j.count) THEN "retry" ELSE "fail"
      PROVE  \E t \in Slots : \E x \in events : Takes(t, x)
  <2>1. Moves(s, j)
    BY <1>2, <1>4, MovesOn
  <2>2. Takes(s, e)
    BY <1>1, <1>2, <1>4, <2>1 DEF Takes
  <2>3. QED
    BY <1>2, <2>2
<1>5. CASE start_execution(s, e, r)
  BY <1>3, <1>5, RestIdle, RestFresh DEF start_execution
<1>6. CASE handle_node_completion(s, e, r)
  <2> DEFINE j == [Idle EXCEPT !.pc = "record", !.kind = "completed", !.node = e.node,
                               !.out = e.out, !.view = ViewOf(r)]
  <2>1. j.pc = "record" /\ j.node = e.node /\ j.out = e.out /\ j.view = ViewOf(r)
    BY DEF Idle
  <2>2. Continue(s, j) /\ e.kind = "completed"
    BY <1>6 DEF handle_node_completion
  <2>3. Plain(j)
    BY <2>1, <2>2, ReadsBare DEF Plain, NoPruning
  <2>4. QED
    <3> HIDE DEF j
    <3>1. QED
      BY <1>4, <2>1, <2>2, <2>3
<1>7. CASE handle_node_failure(s, e, r)
  <2> DEFINE j == [Idle EXCEPT !.pc = IF should_retry(e.err, r.rc[e.node])
                                      THEN "retry" ELSE "fail",
                               !.kind = "failed", !.node = e.node, !.count = r.rc[e.node]]
  <2>1. /\ j.pc = IF should_retry(e.err, j.count) THEN "retry" ELSE "fail"
        /\ j.node = e.node /\ j.count = r.rc[e.node]
        /\ j.out = {} /\ \A n \in Nodes : j.view.out[n] = {}
    BY DEF Idle, NoView, InitRow
  <2>2. e.kind = "failed" /\ (Continue(s, Idle) \/ Continue(s, j))
    BY <1>7 DEF handle_node_failure
  <2>3. Plain(j)
    <3> HIDE DEF j
    <3>1. QED
      BY <2>1 DEF Plain
  <2>4. QED
    <3> HIDE DEF j
    <3>1. QED
      BY <1>3, <1>4, <2>1, <2>2, <2>3, RestIdle
<1>8. CASE cancel_execution(s, e, r)
  BY <1>8 DEF cancel_execution, NoPruning
<1>9. CASE resume_execution(s, e, r)
  <2> DEFINE j == [Idle EXCEPT !.pc = "restart", !.kind = "resume", !.view = ViewOf(r)]
  <2>1. j.pc = "restart" /\ j.out = {} /\ j.view = ViewOf(r)
    BY DEF Idle
  <2>2. Rest(j)
    <3> HIDE DEF j
    <3>1. QED
      BY <2>1, ReadsBare DEF Rest, Plain, Holding
  <2>3. Rest(_reconcile_completed_edges("resume", r))
    BY ReadsBare, RestReconcile
  <2>4. QED
    BY <1>3, <1>9, <2>2, <2>3, RestIdle DEF resume_execution
<1>10. QED
  BY <1>1, <1>5, <1>6, <1>7, <1>8, <1>9

LEMMA SweepAttempt ==
  ASSUME Undisturbed, TypeOK, NoPruning, _process_execution
  PROVE  QuietStep
<1>1. PICK s \in Watchdogs, r \in Reads :
        /\ \/ Continue(s, _reconcile_completed_edges("sweep", r))
           \/ stalls < MaxStalls
        /\ KeepRow
        /\ queue' = queue /\ events' = events
  BY DEF _process_execution, _reconcile_or_fail_node, Undisturbed
<1>2. Continue(s, _reconcile_completed_edges("sweep", r))
  BY <1>1 DEF Undisturbed, TypeOK
<1>3. Rest(_reconcile_completed_edges("sweep", r))
  BY ReadsBare, RestReconcile
<1>4. s \in Slots
  BY DEF Slots
<1>5. QED
  BY <1>1, <1>2, <1>3, <1>4, QuietMove, WritesRetain

\* The steps of an invocation that write no node.
LEMMA QuietRowStep ==
  ASSUME TypeOK, NoPruning, NEW s \in Slots,
         queue' = queue, events' = events,
         \/ start_write(s) \/ resume_write(s) \/ reload(s)
         \/ _finalize_execution(s) \/ ensure_running(s)
         \/ publish_terminal(s)
  PROVE  QuietStep
<1>1. Retains
  BY WritesRetain DEF start_write, resume_write, reload, _finalize_execution, ensure_running,
                      publish_terminal
<1>2. ASSUME NEW j, Continue(s, j), Rest(j) PROVE QuietStep
  BY <1>1, <1>2, QuietMove
<1>3. CASE start_write(s)
  BY <1>2, <1>3, RestIdle, RestFresh DEF start_write
<1>4. CASE resume_write(s)
  <2>1. Rest(_reconcile_completed_edges("resume", inv[s].view))
    BY RestReconcile DEF NoPruning, Plain
  <2>2. \A r \in Reads : Rest(_reconcile_completed_edges("resume", r))
    BY ReadsBare, RestReconcile
  <2>3. QED
    BY <1>2, <1>4, <2>1, <2>2 DEF resume_write
<1>5. CASE reload(s)
  <2>1. \A r \in Reads : Rest(schedule_frontier(inv[s].kind, ViewOf(r)))
    BY ReadsBare, RestFrontier
  <2>2. QED
    BY <1>2, <1>5, <2>1 DEF reload
<1>6. CASE _finalize_execution(s) \/ ensure_running(s)
  BY <1>2, <1>6, RestIdle, RestFresh DEF _finalize_execution, ensure_running
<1>7. CASE publish_terminal(s)
  <2>1. Rest(AfterDispatch(inv[s]))
    BY RestAfterDispatch DEF TypeOK, NoPruning, Plain
  <2>2. QED
    BY <1>2, <1>7, <2>1, RestIdle DEF publish_terminal
<1>8. QED
  BY <1>3, <1>4, <1>5, <1>6, <1>7

\* The handler of a completion finds its node completed: the worker persisted first.
LEMMA RecordAttempt ==
  ASSUME TypeOK, NoPruning, ResultsPersisted, NEW s \in Slots,
         queue' = queue, events' = events, record_completion(s)
  PROVE  QuietStep
<1> DEFINE viewed == [inv[s].view EXCEPT !.st[inv[s].node] = "completed",
                                         !.out[inv[s].node] = inv[s].out]
           j == [Idle EXCEPT !.kind = inv[s].kind, !.view = viewed, !.todo = {}]
<1>1. /\ inv[s].pc = "record" /\ row.st[inv[s].node] = "completed"
      /\ inv[s].out = {} /\ \A n \in Nodes : inv[s].view.out[n] = {}
      /\ inv[s].view \in View /\ inv[s].node \in Nodes
  BY DEF record_completion, ResultsPersisted, NoPruning, Plain, TypeOK, Invocation
<1>2. KeepRow /\ Continue(s, AfterPrune(j))
  BY <1>1 DEF record_completion, RecordCompletion
<1>3. \A n \in Nodes : viewed.out[n] = {}
  BY <1>1 DEF View
<1>4. j.todo = {} /\ j.view = viewed /\ j.kind = inv[s].kind
  BY DEF Idle
<1>5. Rest(AfterPrune(j))
  <2> HIDE DEF j, viewed
  <2>1. QED
    BY <1>3, <1>4, RestFrontier, RestFresh DEF AfterPrune
<1>6. QED
  BY <1>2, <1>5, QuietMove, WritesRetain

LEMMA InvokeAttempt ==
  ASSUME TypeOK, NoPruning, NEW s \in Slots,
         queue' = queue, events' = events, invoke_node(s)
  PROVE  QuietStep \/ Refuses(s) \/ Dispatches(s)
<1> DEFINE i(n) == [inv[s] EXCEPT !.todo = @ \ {n}, !.view.st[n] = "running"]
           failing(n) == [i(n) EXCEPT !.pc = "fail", !.node = n]
           sending(n) == [i(n) EXCEPT !.pc = "send", !.node = n, !.count = row.gen[n] + 1]
<1>0. inv[s] \in Invocation /\ inv[s].todo \subseteq Nodes /\ row \in Row
  BY DEF TypeOK, Invocation
<1>1. PICK n \in inv[s].todo :
        /\ inv[s].pc = "dispatch"
        /\ \/ KeepRow /\ Continue(s, AfterDispatch(i(n)))
           \/ KeepRow /\ n \in Refused /\ Continue(s, failing(n))
           \/ /\ n \notin Refused /\ row.st[n] = "pending"
              /\ row' = [row EXCEPT !.st[n] = "running", !.gen[n] = @ + 1]
              /\ Continue(s, sending(n))
  BY DEF invoke_node, _check_release_gate, DispatchGuard
<1>2. n \in Nodes /\ inv[s].pc \notin Holding
  BY <1>0, <1>1 DEF Holding
<1>3. /\ i(n) \in Invocation /\ i(n).pc = "dispatch" /\ i(n).out = {}
      /\ \A m \in Nodes : i(n).view.out[m] = {}
  <2>1. i(n) \in Invocation
    BY <1>0, <1>2, ViewStatusType DEF NodeStatus
  <2>2. i(n).pc = "dispatch" /\ i(n).out = {} /\ \A m \in Nodes : i(n).view.out[m] = {}
    BY <1>0, <1>1 DEF NoPruning, Plain, Invocation, View
  <2>3. QED
    BY <2>1, <2>2
<1> HIDE DEF i
<1>4. Rest(AfterDispatch(i(n)))
  BY <1>3, RestAfterDispatch
<1>5. /\ failing(n).pc = "fail" /\ failing(n).node = n /\ Plain(failing(n))
      /\ sending(n).pc = "send" /\ sending(n).node = n /\ Plain(sending(n))
  BY <1>3 DEF Invocation, Plain
<1> HIDE DEF failing, sending
<1>6. CASE KeepRow /\ Continue(s, AfterDispatch(i(n)))
  BY <1>4, <1>6, QuietMove, WritesRetain
<1>7. CASE KeepRow /\ n \in Refused /\ Continue(s, failing(n))
  <2>1. Moves(s, failing(n)) /\ Retains
    BY <1>7, MovesOn, WritesRetain
  <2>2. Refuses(s)
    BY <1>2, <1>5, <1>7, <2>1 DEF Refuses
  <2>3. QED
    BY <2>2
<1>8. CASE /\ n \notin Refused /\ row.st[n] = "pending"
           /\ row' = [row EXCEPT !.st[n] = "running", !.gen[n] = @ + 1]
           /\ Continue(s, sending(n))
  <2>1. Moves(s, sending(n))
    BY <1>8, MovesOn
  <2>2. /\ row'.st = [row.st EXCEPT ![n] = "running"]
        /\ row'.gen = [row.gen EXCEPT ![n] = @ + 1]
        /\ row'.rc = row.rc /\ row'.out = row.out
    BY <1>0, <1>8 DEF Row
  <2>3. Dispatches(s)
    BY <1>2, <1>5, <1>8, <2>1, <2>2 DEF Dispatches
  <2>4. QED
    BY <2>3
<1>9. QED
  BY <1>1, <1>6, <1>7, <1>8

LEMMA FailureAttempt ==
  ASSUME TypeOK, NoPruning, NEW s \in Slots, queue' = queue, events' = events,
         schedule_retry(s) \/ fail_node(s)
  PROVE  Retries(s) \/ FailsNode(s)
<1>0. row \in Row /\ inv[s] \in Invocation
  BY DEF TypeOK
<1>1. CASE schedule_retry(s)
  <2>1. inv[s].pc = "retry" /\ Moves(s, Idle)
    BY <1>1, MovesOn DEF schedule_retry
  <2>2. /\ row'.st = [row.st EXCEPT ![inv[s].node] = "pending"]
        /\ row'.rc = [row.rc EXCEPT ![inv[s].node] = inv[s].count + 1]
        /\ row'.gen = row.gen /\ row'.out = row.out
    BY <1>0, <1>1 DEF schedule_retry, Row
  <2>3. QED
    BY <2>1, <2>2, RestIdle DEF Retries
<1>2. CASE fail_node(s)
  <2> DEFINE j == [inv[s] EXCEPT !.pc = "announceFailed"]
  <2>1. inv[s].pc = "fail" /\ Moves(s, j)
    BY <1>2, MovesOn DEF fail_node
  <2>2. Rest(j)
    BY <1>0 DEF Rest, Plain, Holding, NoPruning, Invocation
  <2>3. /\ row'.st = [row.st EXCEPT ![inv[s].node] = "failed"]
        /\ row'.gen = row.gen /\ row'.rc = row.rc /\ row'.out = row.out
    BY <1>0, <1>2 DEF fail_node, Row
  <2>4. QED
    BY <2>1, <2>2, <2>3 DEF FailsNode
<1>3. QED
  BY <1>1, <1>2

LEMMA SendAttempt ==
  ASSUME TypeOK, NoPruning, NEW s \in Slots, send_message(s)
  PROVE  Sends(s)
<1> DEFINE m == [node |-> inv[s].node, gen |-> inv[s].count, stage |-> "queued", out |-> {}]
<1>1. Rest(AfterDispatch(inv[s]))
  BY RestAfterDispatch DEF TypeOK, NoPruning, Plain
<1>2. Moves(s, AfterDispatch(inv[s]))
  BY MovesOn DEF send_message
<1>3. queue' = queue \cup {m} /\ m.node = inv[s].node /\ m.stage = "queued" /\ m.out = {}
  BY DEF send_message
<1>4. Retains /\ events' = events /\ inv[s].pc = "send"
  BY WritesRetain DEF send_message
<1>5. QED
  <2> HIDE DEF m
  <2>1. QED
    BY <1>1, <1>2, <1>3, <1>4 DEF Sends

LEMMA WorkerAttempt ==
  ASSUME Undisturbed, TypeOK, NoPruning, OneAttempt, RefusedNeverRun, WorkerStep
  PROVE  \E m \in queue : Persists(m) \/ Emits(m)
<1>1. CASE _persist_node_completion
  <2>1. PICK m \in queue : \E out \in SUBSET CondTargets(m.node) :
          /\ m.stage = "queued"
          /\ PersistResult(m.node, out)
          /\ queue' = (queue \ {m}) \cup {[m EXCEPT !.stage = "persisted", !.out = out]}
          /\ UNCHANGED <<events, inv>>
    BY <1>1 DEF _persist_node_completion, WorkerFrame
  <2>2. CondTargets(m.node) = {}
    BY DEF CondTargets, Undisturbed
  <2> DEFINE k == [m EXCEPT !.stage = "persisted", !.out = {}]
  <2>3. queue' = (queue \ {m}) \cup {k} /\ m.stage = "queued" /\ UNCHANGED <<events, inv>>
        /\ RecordCompletion(m.node, {})
    BY <2>1, <2>2 DEF PersistResult
  <2>4. m \in Message /\ m.node \in Nodes
    BY DEF TypeOK, Message
  <2>5. k.node = m.node /\ k.stage = "persisted" /\ k.out = {}
    BY <2>4 DEF Message
  <2>6. row.st[m.node] = "running"
    BY <2>3, <2>4 DEF OneAttempt, RefusedNeverRun, Queued
  <2>7. row' = [row EXCEPT !.st[m.node] = "completed", !.out[m.node] = {}]
    BY <2>3, <2>6 DEF RecordCompletion
  <2>8. /\ row'.st = [row.st EXCEPT ![m.node] = "completed"]
        /\ row'.gen = row.gen /\ row'.rc = row.rc /\ \A n \in Nodes : row'.out[n] = {}
    BY <2>4, <2>7 DEF TypeOK, Row, NoPruning
  <2>9. Persists(m)
    <3> HIDE DEF k
    <3>1. QED
      BY <2>3, <2>5, <2>8 DEF Persists
  <2>10. QED
    BY <2>9
<1>2. CASE emit_completed
  <2>1. PICK m \in queue :
          /\ m.stage = "persisted"
          /\ events' = events \cup {[kind |-> "completed", node |-> m.node, gen |-> m.gen,
                                    out |-> m.out]}
          /\ queue' = queue \ {m} /\ KeepRow /\ inv' = inv
    BY <1>2 DEF emit_completed, WorkerFrame
  <2> DEFINE e == [kind |-> "completed", node |-> m.node, gen |-> m.gen, out |-> m.out]
  <2>2. e.kind = "completed" /\ e.node = m.node /\ e.out = {} /\ Retains
    BY <2>1, WritesRetain DEF NoPruning
  <2>3. events' = events \cup {e}
    BY <2>1
  <2>4. Emits(m)
    <3> HIDE DEF e
    <3>1. QED
      BY <2>1, <2>2, <2>3 DEF Emits
  <2>5. QED
    BY <2>4
<1>3. CASE emit_failed
  <2>1. PICK m \in queue, error \in Errors :
          /\ m.stage = "queued"
          /\ events' = events \cup {[kind |-> "failed", node |-> m.node, gen |-> m.gen,
                                    err |-> error]}
          /\ queue' = queue \ {m} /\ KeepRow /\ inv' = inv
    BY <1>3 DEF emit_failed, WorkerFrame
  <2> DEFINE e == [kind |-> "failed", node |-> m.node, gen |-> m.gen, err |-> error]
  <2>2. e.kind = "failed" /\ e.node = m.node /\ e.err \in Errors /\ Retains
    BY <2>1, WritesRetain
  <2>3. events' = events \cup {e}
    BY <2>1
  <2>4. Emits(m)
    <3> HIDE DEF e
    <3>1. QED
      BY <2>1, <2>2, <2>3 DEF Emits
  <2>5. QED
    BY <2>4
<1>4. QED
  BY <1>1, <1>2, <1>3 DEF WorkerStep

LEMMA StepAttempt ==
  ASSUME Undisturbed, TypeOK, Attempts, [Next]_vars
  PROVE  AttemptEffect
<1>1. NoPruning /\ OneAttempt /\ ResultsPersisted /\ RefusedNeverRun
  BY DEF Attempts
<1>2. CASE RowStep
  <2>1. queue' = queue /\ events' = events
    BY <1>2 DEF RowStep
  <2>2. PICK s \in Slots :
          \/ start_write(s) \/ resume_write(s) \/ reload(s)
          \/ _finalize_execution(s) \/ ensure_running(s)
          \/ record_completion(s) \/ invoke_node(s)
          \/ schedule_retry(s) \/ fail_node(s)
          \/ inv[s].pc \in {"edges", "skip", "cut", "cancel", "unstall", "expire"}
    BY <1>2 DEF RowStep, evaluate_condition, persist_skip, persist_unreachable, cancel_node,
                cancel_write, unstall, _fail_stuck
  <2>3. inv[s].pc \notin {"edges", "skip", "cut", "cancel", "unstall", "expire"}
    BY <1>1 DEF NoPruning, Plain
  <2>4. QED
    BY <1>1, <2>1, <2>2, <2>3, QuietRowStep, RecordAttempt, InvokeAttempt, FailureAttempt
       DEF AttemptEffect
<1>3. ASSUME NEW s \in Slots, send_message(s) \/ publish_terminal(s)
      PROVE  AttemptEffect
  <2>1. publish_terminal(s) => queue' = queue /\ events' = events
    BY DEF publish_terminal
  <2>2. QED
    BY <1>1, <1>3, <2>1, SendAttempt, QuietRowStep DEF AttemptEffect
<1>4. CASE handler
  BY <1>1, <1>4, HandlerAttempt DEF AttemptEffect
<1>5. CASE _process_execution
  BY <1>1, <1>5, SweepAttempt DEF AttemptEffect
<1>6. CASE WorkerStep
  BY <1>1, <1>6, WorkerAttempt DEF AttemptEffect
<1>7. CASE worker_crash \/ crash \/ cancelExecution
  <2>1. faults < MaxFaults \/ "cancel" \in Requests
    BY <1>7 DEF worker_crash, crash, cancelExecution
  <2>2. QED
    BY <2>1 DEF Undisturbed, TypeOK
<1>8. CASE resumeExecution \/ replicate \/ UNCHANGED vars
  <2>1. Retains /\ queue' = queue /\ inv' = inv
    BY <1>8, WritesRetain DEF resumeExecution, replicate, vars, Retains
  <2>2. \A e \in events' : e \in events \/ e.kind = "resume"
    BY <1>8 DEF resumeExecution, replicate, vars
  <2>3. QED
    BY <2>1, <2>2 DEF AttemptEffect, QuietStep
<1>9. QED
  BY <1>2, <1>3, <1>4, <1>5, <1>6, <1>7, <1>8 DEF Next, InvocationStep

(***************************************************************************)
(* The attempts are kept                                                   *)
(***************************************************************************)
LEMMA NoPruningStep ==
  ASSUME TypeOK, Attempts, AttemptEffect, replica' \in {row, replica}
  PROVE  NoPruning'
<1>0. NoPruning
  BY DEF Attempts
<1>1. \A s \in Slots : Plain(inv'[s])
  BY <1>0 DEF AttemptEffect, QuietStep, Takes, Refuses, Dispatches, Sends, Retries, FailsNode,
              Persists, Emits, Moves, Rest, NoPruning
<1>2. /\ \A n \in Nodes : row'.out[n] = {} /\ replica'.out[n] = {}
      /\ \A m \in queue' : m.out = {}
      /\ \A e \in events' : e.kind # "cancel" /\ (e.kind = "completed" => e.out = {})
  BY <1>0 DEF AttemptEffect, QuietStep, Takes, Refuses, Dispatches, Sends, Retries, FailsNode,
              Persists, Emits, Retains, NoPruning
<1>3. QED
  BY <1>1, <1>2 DEF NoPruning, Plain

\* Whoever is about to write a failure or a retry holds the attempt, so the node runs.
LEMMA ActingRuns ==
  ASSUME TypeOK, Attempts, NEW s \in Slots, inv[s].pc \in {"send", "retry", "fail"}
  PROVE  /\ inv[s].node \in Nodes
         /\ inv[s].node \notin Refused => row.st[inv[s].node] = "running"
         /\ inv[s].node \in Refused => inv[s].pc = "fail"
         /\ row.st[inv[s].node] # "completed"
<1>1. inv[s].node \in Nodes
  BY DEF TypeOK, Invocation
<1>2. s \in Acting(inv[s].node)
  BY DEF Acting
<1>3. QED
  BY <1>1, <1>2 DEF Attempts, OneAttempt, RefusedNeverRun

LEMMA CompletedStays ==
  ASSUME TypeOK, Attempts, AttemptEffect, NEW n \in Nodes, row.st[n] = "completed"
  PROVE  row'.st[n] = "completed"
<1>0. row.st \in [Nodes -> NodeStatus]
  BY DEF TypeOK, Row
<1>1. ASSUME NEW s \in Slots, Retries(s) \/ FailsNode(s)
      PROVE  row'.st[n] = row.st[n]
  BY <1>0, <1>1, ActingRuns DEF Retries, FailsNode
<1>2. ASSUME NEW s \in Slots, Dispatches(s)
      PROVE  row'.st[n] = row.st[n]
  BY <1>0, <1>2 DEF Dispatches
<1>3. ASSUME NEW m \in queue, Persists(m)
      PROVE  row'.st[n] = "completed"
  BY <1>0, <1>3 DEF Persists
<1>4. ASSUME Retains PROVE row'.st[n] = row.st[n]
  BY <1>4 DEF Retains
<1>5. QED
  BY <1>1, <1>2, <1>3, <1>4 DEF AttemptEffect, QuietStep, Takes, Refuses, Sends, Emits

LEMMA ResultsPersistedStep ==
  ASSUME TypeOK, Attempts, AttemptEffect
  PROVE  ResultsPersisted'
<1>0. /\ row.st \in [Nodes -> NodeStatus]
      /\ ResultsPersisted
      /\ \A s \in Slots : inv[s].pc \in Holding => inv[s].node \in Nodes
      /\ \A m \in queue : m.node \in Nodes
      /\ \A e \in events : e.kind = "completed" => e.node \in Nodes
  BY DEF TypeOK, Row, Attempts, Invocation, Holding, Message, Event
<1>1. \A n \in Nodes : row.st[n] = "completed" => row'.st[n] = "completed"
  BY CompletedStays
<1>2. \A m \in queue' : m.stage = "persisted" => row'.st[m.node] = "completed"
  <2>1. ASSUME NEW s \in Slots, Sends(s) PROVE <1>2!:
    BY <1>0, <1>1, <2>1 DEF Sends, ResultsPersisted
  <2>2. ASSUME NEW m \in queue, Persists(m) PROVE <1>2!:
    BY <1>0, <1>1, <2>2 DEF Persists, ResultsPersisted
  <2>3. ASSUME NEW m \in queue, Emits(m) PROVE <1>2!:
    BY <1>0, <1>1, <2>3 DEF Emits, ResultsPersisted
  <2>4. ASSUME queue' = queue PROVE <1>2!:
    BY <1>0, <1>1, <2>4 DEF ResultsPersisted
  <2>5. QED
    BY <2>1, <2>2, <2>3, <2>4
       DEF AttemptEffect, QuietStep, Takes, Refuses, Dispatches, Retries, FailsNode
<1>3. \A e \in events' : e.kind = "completed" => row'.st[e.node] = "completed"
  <2>1. ASSUME NEW m \in queue, Emits(m) PROVE <1>3!:
    BY <1>0, <1>1, <2>1 DEF Emits, ResultsPersisted
  <2>2. ASSUME \A e \in events' : e \in events \/ e.kind = "resume" PROVE <1>3!:
    BY <1>0, <1>1, <2>2 DEF ResultsPersisted
  <2>3. QED
    BY <2>1, <2>2 DEF AttemptEffect, QuietStep, Takes, Refuses, Dispatches, Sends, Retries,
                      FailsNode, Persists
<1>4. \A s \in Slots : inv'[s].pc = "record" => row'.st[inv'[s].node] = "completed"
  <2>1. ASSUME NEW s \in Slots, NEW e \in events, Takes(s, e) PROVE <1>4!:
    BY <1>0, <1>1, <2>1 DEF Takes, Moves, ResultsPersisted, Holding
  <2>2. ASSUME \A s \in Slots : inv'[s] = inv[s] \/ inv'[s].pc # "record" PROVE <1>4!:
    BY <1>0, <1>1, <2>2 DEF ResultsPersisted, Holding
  <2>3. QED
    BY <2>1, <2>2 DEF AttemptEffect, QuietStep, Refuses, Dispatches, Sends, Retries,
                      FailsNode, Persists, Emits, Moves, Rest, Holding
<1>5. QED
  BY <1>2, <1>3, <1>4 DEF ResultsPersisted

LEMMA RefusedNeverRunStep ==
  ASSUME TypeOK, Attempts, AttemptEffect
  PROVE  RefusedNeverRun'
<1>0. /\ row.st \in [Nodes -> NodeStatus] /\ Refused \subseteq Nodes
      /\ RefusedNeverRun
  BY StepRunnerAssumption DEF TypeOK, Row, Attempts
<1>1. \A n \in Refused : row'.st[n] \notin {"running", "completed"}
  <2>1. ASSUME NEW s \in Slots, Retries(s) \/ FailsNode(s) PROVE <1>1!:
    BY <1>0, <2>1, ActingRuns DEF Retries, FailsNode, RefusedNeverRun
  <2>2. ASSUME NEW s \in Slots, Dispatches(s) PROVE <1>1!:
    BY <1>0, <2>2 DEF Dispatches, RefusedNeverRun
  <2>3. ASSUME NEW m \in queue, Persists(m) PROVE <1>1!:
    BY <1>0, <2>3 DEF Persists, RefusedNeverRun
  <2>4. ASSUME Retains PROVE <1>1!:
    BY <1>0, <2>4 DEF Retains, RefusedNeverRun
  <2>5. QED
    BY <2>1, <2>2, <2>3, <2>4 DEF AttemptEffect, QuietStep, Takes, Refuses, Sends, Emits
<1>2. \A m \in queue' : m.node \notin Refused
  <2>1. ASSUME NEW s \in Slots, Sends(s) PROVE <1>2!:
    BY <1>0, <2>1 DEF Sends, RefusedNeverRun
  <2>2. ASSUME NEW m \in queue, Persists(m) PROVE <1>2!:
    BY <1>0, <2>2 DEF Persists, RefusedNeverRun
  <2>3. ASSUME NEW m \in queue, Emits(m) PROVE <1>2!:
    BY <1>0, <2>3 DEF Emits, RefusedNeverRun
  <2>4. ASSUME queue' = queue PROVE <1>2!:
    BY <1>0, <2>4 DEF RefusedNeverRun
  <2>5. QED
    BY <2>1, <2>2, <2>3, <2>4
       DEF AttemptEffect, QuietStep, Takes, Refuses, Dispatches, Retries, FailsNode
<1>3. \A e \in events' : e.kind \in {"completed", "failed"} => e.node \notin Refused
  BY <1>0 DEF AttemptEffect, QuietStep, Takes, Refuses, Dispatches, Sends, Retries, FailsNode,
              Persists, Emits, RefusedNeverRun
<1>4. \A s \in Slots : inv'[s].pc \in {"send", "retry", "record"} => inv'[s].node \notin Refused
  <2>1. ASSUME NEW s \in Slots, NEW e \in events, Takes(s, e) PROVE <1>4!:
    BY <1>0, <2>1 DEF Takes, Moves, RefusedNeverRun
  <2>2. ASSUME NEW s \in Slots, Dispatches(s) \/ Refuses(s) PROVE <1>4!:
    BY <1>0, <2>2 DEF Dispatches, Refuses, Moves, RefusedNeverRun
  <2>3. ASSUME \A s \in Slots : inv'[s] = inv[s] \/ inv'[s].pc \notin Holding PROVE <1>4!:
    BY <1>0, <2>3 DEF RefusedNeverRun, Holding
  <2>4. QED
    BY <2>1, <2>2, <2>3 DEF AttemptEffect, QuietStep, Sends, Retries,
                      FailsNode, Persists, Emits, Moves, Rest
<1>5. QED
  BY <1>1, <1>2, <1>3, <1>4 DEF RefusedNeverRun
\* What one node's share of OneAttempt says, of given hands.
OneHand(Q, F, A) ==
  /\ \A m, k \in Q : m = k
  /\ \A e, f \in F : e = f
  /\ \A s, t \in A : s = t
  /\ Q # {} => F = {} /\ A = {}
  /\ F # {} => A = {}

LEMMA OneAttemptStep ==
  ASSUME TypeOK, Attempts, AttemptEffect
  PROVE  OneAttempt'
<1>0. /\ row.st \in [Nodes -> NodeStatus] /\ OneAttempt
      /\ \A s \in Slots : inv[s].pc \in Holding => inv[s].node \in Nodes
      /\ \A m \in queue : m.node \in Nodes
  BY DEF TypeOK, Row, Attempts, Invocation, Holding, Message
<1> SUFFICES ASSUME NEW n \in Nodes \ Refused
             PROVE  /\ OneHand(Queued(n), Failures(n), Acting(n))'
                    /\ (Queued(n) # {} \/ Failures(n) # {} \/ Acting(n) # {}
                         => row.st[n] = "running")'
  BY DEF OneAttempt, OneHand
<1> DEFINE Q == Queued(n)  F == Failures(n)  A == Acting(n)
<1>1. /\ OneHand(Q, F, A)
      /\ Q # {} \/ F # {} \/ A # {} => row.st[n] = "running"
  BY <1>0 DEF OneAttempt, OneHand
\* It is enough that no hand is added, ...
<1>2. ASSUME Q' \subseteq Q, F' \subseteq F, A' \subseteq A,
             \/ row'.st[n] = row.st[n]
             \/ Q' = {} /\ F' = {} /\ A' = {}
      PROVE  OneHand(Q, F, A)' /\ (Q # {} \/ F # {} \/ A # {} => row.st[n] = "running")'
  BY <1>1, <1>2 DEF OneHand
\* ... or that one is, when no other is left.
<1>3. ASSUME row'.st[n] = "running",
             \/ \E x : Q' = {x} /\ F' = {} /\ A' = {}
             \/ \E x : Q' = {} /\ F' = {x} /\ A' = {}
             \/ \E x : Q' = {} /\ F' = {} /\ A' = {x}
      PROVE  OneHand(Q, F, A)' /\ (Q # {} \/ F # {} \/ A # {} => row.st[n] = "running")'
  BY <1>3 DEF OneHand
<1>4. CASE QuietStep
  <2>1. Q' = Q /\ F' \subseteq F
    BY <1>4 DEF QuietStep, Queued, Failures
  <2>2. A' \subseteq A
    BY <1>4 DEF QuietStep, Acting, Rest, Holding
  <2>3. row'.st[n] = row.st[n]
    BY <1>4 DEF QuietStep, Retains
  <2>4. QED
    BY <1>2, <2>1, <2>2, <2>3
<1>5. ASSUME NEW s \in Slots, NEW e \in events, Takes(s, e)
      PROVE  OneHand(Q, F, A)' /\ (Q # {} \/ F # {} \/ A # {} => row.st[n] = "running")'
  <2>1. Q' = Q /\ F' \subseteq F /\ row'.st[n] = row.st[n]
    BY <1>5 DEF Takes, Retains, Queued, Failures
  <2>2. CASE e \in F
    <3>1. F = {e} /\ Q = {} /\ A = {} /\ row.st[n] = "running"
      BY <1>1, <2>2 DEF OneHand
    <3>2. F' = {}
      BY <1>5, <3>1 DEF Takes, Failures
    <3>3. A' = {s}
      <4>1. s \in A'
        BY <1>5, <2>2 DEF Takes, Moves, Failures, Acting
      <4>2. \A t \in A' : t = s
        BY <1>5, <3>1 DEF Takes, Moves, Acting
      <4>3. QED
        BY <4>1, <4>2
    <3>4. QED
      BY <1>3, <2>1, <3>1, <3>2, <3>3
  <2>3. CASE e \notin F
    <3>1. A' \subseteq A
      <4>1. \A t \in A' : t = s => t \in A
        BY <1>5, <2>3 DEF Takes, Moves, Acting, Failures
      <4>2. \A t \in A' : t # s => t \in A
        BY <1>5 DEF Takes, Moves, Acting
      <4>3. QED
        BY <4>1, <4>2
    <3>2. QED
      BY <1>2, <2>1, <3>1
  <2>4. QED
    BY <2>2, <2>3
<1>6. ASSUME NEW s \in Slots, Refuses(s)
      PROVE  OneHand(Q, F, A)' /\ (Q # {} \/ F # {} \/ A # {} => row.st[n] = "running")'
  <2>1. Q' = Q /\ F' = F /\ row'.st[n] = row.st[n]
    BY <1>6 DEF Refuses, Retains, Queued, Failures
  <2>2. A' \subseteq A
    BY <1>6 DEF Refuses, Moves, Acting
  <2>3. QED
    BY <1>2, <2>1, <2>2
<1>7. ASSUME NEW s \in Slots, Dispatches(s)
      PROVE  OneHand(Q, F, A)' /\ (Q # {} \/ F # {} \/ A # {} => row.st[n] = "running")'
  <2>1. PICK k \in Nodes \ Refused :
          /\ row.st[k] = "pending"
          /\ row'.st = [row.st EXCEPT ![k] = "running"]
          /\ queue' = queue /\ events' = events
          /\ inv[s].pc \notin Holding
          /\ \E j : Moves(s, j) /\ Plain(j) /\ j.pc = "send" /\ j.node = k
    BY <1>7 DEF Dispatches
  <2>2. Q' = Q /\ F' = F
    BY <2>1 DEF Queued, Failures
  <2>3. CASE k = n
    <3>1. Q = {} /\ F = {} /\ A = {}
      BY <1>1, <2>1, <2>3
    <3>2. s \in A' /\ \A t \in A' : t = s
      BY <2>1, <2>3, <3>1 DEF Moves, Acting
    <3>3. row'.st[n] = "running"
      BY <1>0, <2>1, <2>3
    <3>4. A' = {s}
      BY <3>2
    <3>5. QED
      BY <1>3, <2>2, <3>1, <3>3, <3>4
  <2>4. CASE k # n
    <3>1. A' \subseteq A /\ row'.st[n] = row.st[n]
      BY <1>0, <2>1, <2>4 DEF Moves, Acting
    <3>2. QED
      BY <1>2, <2>2, <3>1
  <2>5. QED
    BY <2>3, <2>4
<1>8. ASSUME NEW s \in Slots, Sends(s)
      PROVE  OneHand(Q, F, A)' /\ (Q # {} \/ F # {} \/ A # {} => row.st[n] = "running")'
  <2>1. PICK m : /\ queue' = queue \cup {m}
                 /\ m.node = inv[s].node /\ m.stage = "queued"
    BY <1>8 DEF Sends
  <2>2. F' = F /\ row'.st[n] = row.st[n]
    BY <1>8 DEF Sends, Retains, Failures
  <2>3. s \notin A' /\ A' \subseteq A
    BY <1>8 DEF Sends, Moves, Rest, Holding, Acting
  <2>4. CASE inv[s].node = n
    <3>1. A = {s} /\ Q = {} /\ F = {} /\ row.st[n] = "running"
      <4>1. s \in A
        BY <1>8, <2>4 DEF Sends, Acting
      <4>2. QED
        BY <1>1, <4>1 DEF OneHand
    <3>2. Q' = {m} /\ A' = {}
      <4>1. Q' = {m}
        BY <2>1, <2>4, <3>1 DEF Queued
      <4>2. QED
        BY <2>3, <3>1, <4>1
    <3>3. QED
      BY <1>3, <2>2, <3>1, <3>2
  <2>5. CASE inv[s].node # n
    <3>1. Q' = Q
      BY <2>1, <2>5 DEF Queued
    <3>2. QED
      BY <1>2, <2>2, <2>3, <3>1
  <2>6. QED
    BY <2>4, <2>5
<1>9. ASSUME NEW s \in Slots, Retries(s) \/ FailsNode(s)
      PROVE  OneHand(Q, F, A)' /\ (Q # {} \/ F # {} \/ A # {} => row.st[n] = "running")'
  <2>1. Q' = Q /\ F' = F
    BY <1>9 DEF Retries, FailsNode, Queued, Failures
  <2>2. s \notin A' /\ A' \subseteq A
    BY <1>9 DEF Retries, FailsNode, Moves, Rest, Holding, Acting
  <2>3. CASE inv[s].node = n
    <3>1. s \in A
      BY <1>9, <2>3 DEF Retries, FailsNode, Acting
    <3>2. A = {s} /\ Q = {} /\ F = {}
      BY <1>1, <3>1 DEF OneHand
    <3>3. A' = {}
      BY <2>2, <3>2
    <3>4. QED
      BY <1>2, <2>1, <2>2, <3>2, <3>3
  <2>4. CASE inv[s].node # n
    <3>1. row'.st[n] = row.st[n]
      BY <1>0, <1>9, <2>4 DEF Retries, FailsNode
    <3>2. QED
      BY <1>2, <2>1, <2>2, <3>1
  <2>5. QED
    BY <2>3, <2>4
<1>10. ASSUME NEW m \in queue, Persists(m)
       PROVE  OneHand(Q, F, A)' /\ (Q # {} \/ F # {} \/ A # {} => row.st[n] = "running")'
  <2>1. F' = F /\ A' = A /\ Q' = Q \ {m}
    BY <1>10 DEF Persists, Queued, Failures, Acting
  <2>2. CASE m.node = n
    <3>1. m \in Q
      BY <1>10, <2>2 DEF Persists, Queued
    <3>2. Q = {m} /\ F = {} /\ A = {}
      BY <1>1, <3>1 DEF OneHand
    <3>3. QED
      BY <1>2, <2>1, <3>2
  <2>3. CASE m.node # n
    <3>1. row'.st[n] = row.st[n]
      BY <1>0, <1>10, <2>3 DEF Persists
    <3>2. QED
      BY <1>2, <2>1, <3>1
  <2>4. QED
    BY <2>2, <2>3
<1>11. ASSUME NEW m \in queue, Emits(m)
       PROVE  OneHand(Q, F, A)' /\ (Q # {} \/ F # {} \/ A # {} => row.st[n] = "running")'
  <2>1. A' = A /\ Q' = Q \ {m} /\ row'.st[n] = row.st[n]
    BY <1>11 DEF Emits, Retains, Queued, Acting
  <2>2. PICK e : /\ events' = events \cup {e} /\ e.node = m.node
                 /\ \/ m.stage = "persisted" /\ e.kind = "completed"
                    \/ m.stage = "queued" /\ e.kind = "failed"
    BY <1>11 DEF Emits
  <2>3. CASE m \in Q
    <3>1. Q = {m} /\ F = {} /\ A = {} /\ row.st[n] = "running"
      BY <1>1, <2>3 DEF OneHand
    <3>2. F' = {e}
      BY <2>2, <2>3, <3>1 DEF Queued, Failures
    <3>3. QED
      BY <1>3, <2>1, <3>1, <3>2
  <2>4. CASE m \notin Q
    <3>1. F' = F
      BY <2>2, <2>4 DEF Queued, Failures
    <3>2. QED
      BY <1>2, <2>1, <3>1
  <2>5. QED
    BY <2>3, <2>4
<1>12. QED
  BY <1>4, <1>5, <1>6, <1>7, <1>8, <1>9, <1>10, <1>11 DEF AttemptEffect

LEMMA InitialAttempts ==
  ASSUME Undisturbed, Init
  PROVE  Attempts
<1>1. /\ row = InitRow /\ replica = InitRow /\ queue = {}
      /\ events = {[kind |-> "start"]} /\ inv = [s \in Slots |-> Idle]
  BY DEF Init
<1>2. Rest(Idle) /\ \A n \in Nodes : InitRow.out[n] = {} /\ InitRow.st[n] = "pending"
  BY RestIdle DEF InitRow
<1>3. \A e \in events : e.kind = "start"
  BY <1>1
<1>4. \A s \in Slots : Plain(inv[s]) /\ inv[s].pc \notin Holding
  BY <1>1, <1>2 DEF Rest
<1>5. NoPruning
  BY <1>1, <1>2, <1>3, <1>4 DEF NoPruning
<1>6. \A n \in Nodes : Queued(n) = {} /\ Failures(n) = {} /\ Acting(n) = {}
  BY <1>1, <1>3, <1>4 DEF Queued, Failures, Acting, Holding
<1>7. OneAttempt
  BY <1>6 DEF OneAttempt
<1>8. ResultsPersisted
  BY <1>1, <1>3, <1>4 DEF ResultsPersisted, Holding
<1>9. RefusedNeverRun
  BY <1>1, <1>2, <1>3, <1>4, StepRunnerAssumption DEF RefusedNeverRun, Holding
<1>10. QED
  BY <1>5, <1>7, <1>8, <1>9 DEF Attempts

LEMMA AttemptsHold == ASSUME Undisturbed PROVE Spec => []Attempts
<1>1. Init => Attempts
  BY InitialAttempts
<1>2. TypeOK /\ Attempts /\ [Next]_vars => Attempts'
  <2> SUFFICES ASSUME TypeOK, Attempts, [Next]_vars
               PROVE  Attempts'
    OBVIOUS
  <2>1. AttemptEffect /\ replica' \in {row, replica}
    BY StepAttempt, ExecutionEffect
  <2>2. QED
    BY <2>1, NoPruningStep, OneAttemptStep, ResultsPersistedStep, RefusedNeverRunStep
       DEF Attempts
<1>3. QED
  BY <1>1, <1>2, TypeCorrect, PTL DEF Spec

\* In an undisturbed run a completed node stays completed, on every graph and for any
\* number of handlers, sweeps and resumes reading rows however stale: the worker's
\* first-write-wins and the unconditional retry and failure writes of
\* handle_node_failure never meet at the same node, because only one of them holds
\* the attempt.
THEOREM CompletionKeptHolds == ASSUME Undisturbed PROVE Spec => CompletionKept
<1>1. TypeOK /\ Attempts /\ [Next]_vars
      => \A n \in Nodes : row.st[n] = "completed" => row'.st[n] = "completed"
  BY StepAttempt, CompletedStays
<1>2. TypeOK /\ Attempts /\ [Next]_vars
      => [\A n \in Nodes : row.st[n] = "completed" => row'.st[n] = "completed"]_vars
  BY <1>1
<1>3. QED
  BY <1>2, AttemptsHold, TypeCorrect, PTL DEF Spec, CompletionKept

(***************************************************************************)
(* Every attempt the policy allows is made                                 *)
(***************************************************************************)
\* Only errors that a retry may cure, reported to handlers that read the row itself.
Curable == Refused = {} /\ Errors \subseteq {"transient"} /\ ~EventualReads

\* Each dispatch is the first or answers a recorded retry, and whoever decides about the
\* next retry holds the recorded count.
Counted ==
  /\ \A n \in Nodes :
       /\ row.gen[n] = row.rc[n] + (IF row.st[n] = "pending" THEN 0 ELSE 1)
       /\ row.st[n] = "failed" => row.rc[n] = MaxRetries
  /\ \A s \in Slots :
       /\ inv[s].pc = "retry" => inv[s].count = row.rc[inv[s].node]
       /\ inv[s].pc = "fail" => row.rc[inv[s].node] >= MaxRetries

LEMMA CountedStep ==
  ASSUME Curable, TypeOK, Attempts, RetryBudget, Counted, AttemptEffect
  PROVE  Counted'
<1>0. /\ row.st \in [Nodes -> NodeStatus]
      /\ row.rc \in [Nodes -> Nat] /\ row.gen \in [Nodes -> Nat]
      /\ MaxRetries \in Nat /\ Reads = {row} /\ Refused = {}
      /\ \A s \in Slots : inv[s].pc \in {"retry", "fail"} =>
           inv[s].node \in Nodes /\ inv[s].count \in Nat
  BY StepRunnerAssumption DEF TypeOK, Row, Reads, Curable, Invocation
<1>1. CASE Retains /\ \A s \in Slots : inv'[s] = inv[s] \/ inv'[s].pc \notin {"retry", "fail"}
  BY <1>1 DEF Retains, Counted
<1>2. ASSUME NEW s \in Slots, NEW e \in events, Takes(s, e)
      PROVE  Counted'
  <2>1. PICK j : /\ Moves(s, j)
                 /\ \/ j.pc = "record"
                    \/ /\ e.kind = "failed" /\ j.node = e.node
                       /\ j.count = row.rc[e.node]
                       /\ j.pc = IF should_retry(e.err, j.count) THEN "retry" ELSE "fail"
    BY <1>0, <1>2 DEF Takes
  <2>2. e.kind = "failed" => e.node \in Nodes /\ e.err = "transient"
    BY DEF TypeOK, Event, Curable
  <2>3. /\ j.pc = "retry" => j.count = row.rc[j.node]
        /\ j.pc = "fail" => row.rc[j.node] >= MaxRetries
    BY <1>0, <2>1, <2>2 DEF should_retry
  <2>4. Retains
    BY <1>2 DEF Takes
  <2>5. QED
    BY <2>1, <2>3, <2>4 DEF Counted, Retains, Moves
<1>3. ASSUME NEW s \in Slots, Dispatches(s)
      PROVE  Counted'
  <2>1. PICK n \in Nodes :
          /\ row.st[n] = "pending"
          /\ row'.st = [row.st EXCEPT ![n] = "running"]
          /\ row'.gen = [row.gen EXCEPT ![n] = @ + 1]
          /\ row'.rc = row.rc
          /\ \E j : Moves(s, j) /\ j.pc = "send"
    BY <1>3 DEF Dispatches
  <2>2. \A k \in Nodes :
          /\ row'.gen[k] = row'.rc[k] + (IF row'.st[k] = "pending" THEN 0 ELSE 1)
          /\ row'.st[k] = "failed" => row'.rc[k] = MaxRetries
    BY <1>0, <2>1 DEF Counted
  <2>3. QED
    BY <2>1, <2>2 DEF Counted, Moves
<1>4. ASSUME NEW s \in Slots, Retries(s) \/ FailsNode(s)
      PROVE  Counted'
  <2>1. /\ inv[s].node \in Nodes /\ row.st[inv[s].node] = "running"
        /\ row.gen[inv[s].node] = row.rc[inv[s].node] + 1
        /\ inv[s].pc \in {"retry", "fail"}
    BY <1>0, <1>4, ActingRuns DEF Retries, FailsNode, Counted
  <2>2. \A t \in Slots \ {s} : inv[t].pc \in {"retry", "fail"} => inv[t].node # inv[s].node
    BY <1>0, <2>1 DEF Attempts, OneAttempt, Acting
  <2>3. \E j : Moves(s, j) /\ j.pc \notin {"retry", "fail"}
    BY <1>4 DEF Retries, FailsNode, Rest, Holding
  <2>4. CASE Retries(s)
    <3>1. /\ row'.st = [row.st EXCEPT ![inv[s].node] = "pending"]
          /\ row'.rc = [row.rc EXCEPT ![inv[s].node] = @ + 1]
          /\ row'.gen = row.gen
      BY <2>1, <2>4 DEF Retries, Counted
    <3>2. \A k \in Nodes :
            /\ row'.gen[k] = row'.rc[k] + (IF row'.st[k] = "pending" THEN 0 ELSE 1)
            /\ row'.st[k] = "failed" => row'.rc[k] = MaxRetries
      BY <1>0, <2>1, <3>1 DEF Counted
    <3>3. \A t \in Slots \ {s} : inv[t].pc \in {"retry", "fail"} =>
            row'.rc[inv[t].node] = row.rc[inv[t].node]
      BY <1>0, <2>2, <3>1
    <3>4. QED
      BY <2>3, <3>2, <3>3 DEF Counted, Moves
  <2>5. CASE FailsNode(s)
    <3>1. row.rc[inv[s].node] = MaxRetries
      BY <1>0, <2>1, <2>5 DEF FailsNode, Counted, RetryBudget
    <3>2. \A k \in Nodes :
            /\ row'.gen[k] = row'.rc[k] + (IF row'.st[k] = "pending" THEN 0 ELSE 1)
            /\ row'.st[k] = "failed" => row'.rc[k] = MaxRetries
      BY <1>0, <2>1, <2>5, <3>1 DEF FailsNode, Counted
    <3>3. QED
      BY <2>3, <2>5, <3>2 DEF FailsNode, Counted, Moves
  <2>6. QED
    BY <1>4, <2>4, <2>5
<1>5. ASSUME NEW m \in queue, Persists(m)
      PROVE  Counted'
  <2>1. m.node \in Nodes /\ row.st[m.node] = "running"
    BY <1>0, <1>5 DEF Persists, TypeOK, Message, Attempts, OneAttempt, Queued
  <2>2. \A k \in Nodes :
          /\ row'.gen[k] = row'.rc[k] + (IF row'.st[k] = "pending" THEN 0 ELSE 1)
          /\ row'.st[k] = "failed" => row'.rc[k] = MaxRetries
    BY <1>0, <1>5, <2>1 DEF Persists, Counted
  <2>3. QED
    BY <1>5, <2>2 DEF Persists, Counted
<1>6. \A s \in Slots : ~Refuses(s)
  BY <1>0 DEF Refuses
<1>7. ASSUME NEW s \in Slots, Sends(s) PROVE Counted'
  BY <1>1, <1>7 DEF Sends, Moves, Rest, Holding
<1>8. CASE QuietStep
  BY <1>1, <1>8 DEF QuietStep, Rest, Holding
<1>9. ASSUME NEW m \in queue, Emits(m) PROVE Counted'
  BY <1>1, <1>9 DEF Emits
<1>10. QED
  BY <1>2, <1>3, <1>4, <1>5, <1>6, <1>7, <1>8, <1>9 DEF AttemptEffect

\* In an undisturbed run whose errors are all transient, a node fails for good only
\* after MaxRetries + 1 dispatches, on every graph: no two handlers spend the same
\* retry, and none gives up early. Stale reads are excluded, since a lagging retryCount
\* buys further attempts.
THEOREM AllAttemptsMadeHolds ==
  ASSUME Undisturbed, Curable
  PROVE  Spec => []AllAttemptsMade
<1>1. Init => Counted
  BY StepRunnerAssumption DEF Init, InitRow, Idle, Counted
<1>2. TypeOK /\ Attempts /\ Budgets /\ Counted /\ [Next]_vars => Counted'
  BY StepAttempt, CountedStep DEF Budgets
<1>3. TypeOK /\ Counted => AllAttemptsMade
  BY StepRunnerAssumption DEF TypeOK, Row, Counted, AllAttemptsMade
<1>4. QED
  BY <1>1, <1>2, <1>3, AttemptsHold, Invariants, TypeCorrect, PTL DEF Spec

=============================================================================
