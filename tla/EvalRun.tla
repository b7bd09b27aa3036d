------------------------------ MODULE EvalRun ------------------------------
(***************************************************************************)
(* One evaluation run: startEvalRun creates it and fans its cases out to   *)
(* the conversation worker or to the step runner; the worker, the workflow *)
(* events and the timeout sweep each record how a case ended and count the *)
(* run down to its completion; the scorer, the aggregator and a comparison *)
(* score the cases.                                                        *)
(*                                                                         *)
(* Each step is one request to a table, a queue or the event bus. A        *)
(* handler that throws or dies is run again by whatever delivered to it.   *)
(***************************************************************************)
EXTENDS Integers, FiniteSets

CONSTANTS
    Cases,          \* the cases of the frozen suite
    Conversations,  \* those of kind CONVERSATION; the others are EXECUTION
    Stuck,          \* cases whose target never answers
    Starters,       \* concurrent startEvalRun calls with the same idempotency key
    MaxReceives,    \* receives after which the queue gives a message up
    MaxFaults       \* bound on crashes, failed requests and lost events

ASSUME CasesAssumption == IsFiniteSet(Cases) /\ Conversations \subseteq Cases /\ Stuck \subseteq Cases
ASSUME BoundsAssumption == MaxReceives \in Nat \ {0} /\ MaxFaults \in Nat

Executions == Cases \ Conversations

VARIABLES
    run,      \* the run's row
    row,      \* per case, its result row
    start,    \* per starter, how far its call is
    queue,    \* per conversation, its message in the dispatch queue
    target,   \* per execution, what the step runner has done with it
    overdue,  \* the cases whose deadline has passed
    sweep,    \* the cases a sweep has found overdue and not marked yet
    task,     \* per case and source, how far recordCaseCompletion is
    emitted,  \* cases with an undelivered case.completed event
    faults

vars == <<run, row, start, queue, target, overdue, sweep, task, emitted, faults>>

Sources == {"worker", "event", "sweep"}
Terminal == {"COMPLETED", "FAILED", "TIMEOUT"}

\* A result row as startEvalRun writes it. linked: executionId and deadlineAt are
\* set; suiteId: the field is on the row, which startEvalRun does not write.
PendingRow == [status |-> "PENDING", linked |-> FALSE, recorded |-> FALSE,
               artifact |-> FALSE, suiteId |-> FALSE, scored |-> FALSE]
NoRow == [PendingRow EXCEPT !.status = "ABSENT"]
NoCall == [pc |-> "idle", todo |-> {}, case |-> "none"]

Init ==
    /\ run = [status |-> "ABSENT", pending |-> 0, announced |-> FALSE, aggregated |-> {}]
    /\ row = [c \in Cases |-> NoRow]
    /\ start = [s \in Starters |-> NoCall]
    /\ queue = [c \in Conversations |-> [state |-> "none", receives |-> 0]]
    /\ target = [c \in Executions |-> "none"]
    /\ overdue = {}
    /\ sweep = {}
    /\ task = [t \in Cases \X Sources |-> "idle"]
    /\ emitted = {}
    /\ faults = 0

Fault == faults < MaxFaults /\ faults' = faults + 1
SetStatus(c, status) == row' = [row EXCEPT ![c].status = status]

---------------------------------------------------------------------------
(* startEvalRun and its fan-out *)

Call(s, pc) == start' = [start EXCEPT ![s] = [@ EXCEPT !.pc = pc]]
Continue(s, todo) == start' = [start EXCEPT ![s] = IF todo = {} THEN NoCall
                                                    ELSE [pc |-> "next", todo |-> todo, case |-> "none"]]

\* The condition of the run's Put. A call that loses returns the existing run.
RunAbsent == run.status = "ABSENT"

startEvalRun(s) ==
    /\ start[s].pc = "idle"
    /\ RunAbsent
    /\ run' = [run EXCEPT !.status = "PENDING", !.pending = Cardinality(Cases)]
    /\ Call(s, "cases")
    /\ UNCHANGED <<row, queue, target, overdue, sweep, task, emitted, faults>>

\* The rows are put together; if one fails the call throws and nothing fans out.
writeCases(s) ==
    /\ start[s].pc = "cases"
    /\ \E written \in SUBSET Cases :
          /\ row' = [c \in Cases |-> IF c \in written /\ row[c].status = "ABSENT"
                                     THEN PendingRow ELSE row[c]]
          /\ \/ written = Cases /\ Call(s, "list") /\ UNCHANGED faults
             \/ written # Cases /\ Call(s, "idle") /\ Fault
    /\ UNCHANGED <<run, queue, target, overdue, sweep, task, emitted>>

fanOutEvalRun(s) ==
    /\ start[s].pc = "list"
    /\ Continue(s, {c \in Cases : row[c].status = "PENDING"})
    /\ UNCHANGED <<run, row, queue, target, overdue, sweep, task, emitted, faults>>

\* Mutant: the status of a case under way is RUNNING.
RunningStatus == "RUNNING"

DispatchedStatus == "DISPATCHED"

\* PENDING to DISPATCHED, conditionally; a case someone else took is skipped.
tryMarkDispatched(s) ==
    /\ start[s].pc = "next"
    /\ \E c \in start[s].todo :
          LET rest == start[s].todo \ {c}
          IN IF row[c].status = "PENDING"
             THEN /\ SetStatus(c, DispatchedStatus)
                  /\ start' = [start EXCEPT ![s] = [pc |-> "send", todo |-> rest, case |-> c]]
             ELSE Continue(s, rest) /\ UNCHANGED row
    /\ UNCHANGED <<run, queue, target, overdue, sweep, task, emitted, faults>>

\* A conversation goes to the queue.
sendConversation(s) ==
    LET c == start[s].case
    IN /\ start[s].pc = "send" /\ c \in Conversations
       /\ queue' = [queue EXCEPT ![c].state = "queued"]
       /\ Continue(s, start[s].todo)
       /\ UNCHANGED <<run, row, target, overdue, sweep, task, emitted, faults>>

\* An execution gets its row, is linked to the case together with its deadline, and
\* only then announced to the step runner.
dispatchExecutionCase(s) ==
    LET c == start[s].case
    IN /\ c \in Executions
       /\ \/ /\ start[s].pc = "send"
             /\ row' = [row EXCEPT ![c].linked = TRUE]
             /\ Call(s, "request")
             /\ UNCHANGED target
          \/ /\ start[s].pc = "request"
             /\ target' = [target EXCEPT ![c] = "started"]
             /\ Continue(s, start[s].todo)
             /\ UNCHANGED row
       /\ UNCHANGED <<run, queue, overdue, sweep, task, emitted, faults>>

\* A request of the fan-out fails: startEvalRun logs it and returns the run.
fanOutFails(s) ==
    /\ start[s].pc \in {"list", "next", "send", "request"}
    /\ Fault
    /\ start' = [start EXCEPT ![s] = NoCall]
    /\ UNCHANGED <<run, row, queue, target, overdue, sweep, task, emitted>>

---------------------------------------------------------------------------
(* How a case ends *)

Task(c, s, pc) == task' = [task EXCEPT ![<<c, s>>] = pc]

\* The worker receives a message, and the Lambda that dies or runs out of its
\* fifteen minutes gives it back, until it goes to the dead-letter queue.
GiveBack(c) ==
    queue' = [queue EXCEPT ![c].state = IF queue[c].receives < MaxReceives THEN "queued" ELSE "dead"]

receive(c) ==
    /\ queue[c].state = "queued"
    /\ queue' = [queue EXCEPT ![c] = [state |-> "inflight", receives |-> @.receives + 1]]
    /\ Task(c, "worker", "invoke")
    /\ UNCHANGED <<run, row, start, target, overdue, sweep, emitted, faults>>

\* The target answers or fails, and the row says so.
dispatchConversationCase(c) ==
    /\ task[<<c, "worker">>] = "invoke"
    /\ c \notin Stuck
    /\ \E outcome \in {"COMPLETED", "FAILED"} : SetStatus(c, outcome)
    /\ Task(c, "worker", "record")
    /\ UNCHANGED <<run, start, queue, target, overdue, sweep, emitted, faults>>

\* The invocation of a stuck target always ends this way, any other's when it fails.
workerTimesOut(c) ==
    /\ task[<<c, "worker">>] = "invoke"
    /\ IF c \in Stuck THEN UNCHANGED faults ELSE Fault
    /\ GiveBack(c)
    /\ Task(c, "worker", "idle")
    /\ UNCHANGED <<run, row, start, target, overdue, sweep, emitted>>

\* External: the step runner ends the execution and announces it.
executionEnds(c) ==
    /\ target[c] = "started" /\ c \notin Stuck
    /\ \E outcome \in {"COMPLETED", "FAILED"} : target' = [target EXCEPT ![c] = outcome]
    /\ UNCHANGED <<run, row, start, queue, overdue, sweep, task, emitted, faults>>

\* Mutant: any case of the run that has an execution.
AnyExecution(c, d) == row[d].linked

\* The case row whose executionId is that of the event.
Matches(c, d) == c = d /\ row[d].linked

\* A workflow event, delivered any number of times. The write has no condition.
handleWorkflowCompletion(c) ==
    /\ target[c] \in {"COMPLETED", "FAILED"}
    /\ \E d \in Executions :
          /\ Matches(c, d)
          /\ task[<<d, "event">>] = "idle"
          /\ SetStatus(d, target[c])
          /\ Task(d, "event", "record")
    /\ UNCHANGED <<run, start, queue, target, overdue, sweep, emitted, faults>>

\* The clock: only a linked case has a deadline.
deadlinePasses(c) ==
    /\ row[c].linked /\ c \notin overdue
    /\ overdue' = overdue \cup {c}
    /\ UNCHANGED <<run, row, start, queue, target, sweep, task, emitted, faults>>


\* What a sweep takes: dispatched, and past its deadline.
Sweepable(c) == row[c].status \in {"DISPATCHED", "RUNNING"} /\ c \in overdue

listOverdue ==
    /\ run.status \in {"PENDING", "RUNNING"}
    /\ sweep = {} /\ \A c \in Cases : task[<<c, "sweep">>] = "idle"
    /\ sweep' = {c \in Cases : Sweepable(c)}
    /\ sweep' # {}
    /\ UNCHANGED <<run, row, start, queue, target, overdue, task, emitted, faults>>

\* One case after another, whatever became of it since the list was read.
sweepTimeouts(c) ==
    /\ c \in sweep
    /\ \A d \in Cases : task[<<d, "sweep">>] = "idle"
    /\ sweep' = sweep \ {c}
    /\ SetStatus(c, "TIMEOUT")
    /\ Task(c, "sweep", "record")
    /\ UNCHANGED <<run, start, queue, target, overdue, emitted, faults>>

---------------------------------------------------------------------------
(* recordCaseCompletion, run by whichever handler ended the case *)

\* The handler is done; a worker's message is deleted.
Return(c, s) ==
    /\ Task(c, s, "idle")
    /\ IF s = "worker" THEN queue' = [queue EXCEPT ![c].state = "gone"] ELSE UNCHANGED queue

\* Mutant: the flag is set without its condition.
AlwaysFirst(c) == TRUE

FirstCompletion(c) == ~row[c].recorded

setCompletionRecorded(c, s) ==
    /\ task[<<c, s>>] = "record"
    /\ \/ /\ FirstCompletion(c)
          /\ row' = [row EXCEPT ![c].recorded = TRUE]
          /\ Task(c, s, "emit")
          /\ UNCHANGED queue
       \/ ~FirstCompletion(c) /\ Return(c, s) /\ UNCHANGED row
    /\ UNCHANGED <<run, start, target, overdue, sweep, emitted, faults>>

\* The artifact of a case that is COMPLETED now, and the event for the scorer; both
\* are best effort.
materializeArtifactIfCompleted(c, s) ==
    /\ task[<<c, s>>] = "emit"
    /\ Task(c, s, "add")
    /\ \/ /\ row' = [row EXCEPT ![c].artifact = row[c].status = "COMPLETED"]
          /\ emitted' = emitted \cup {c}
          /\ UNCHANGED faults
       \/ Fault /\ UNCHANGED <<row, emitted>>
    /\ UNCHANGED <<run, start, queue, target, overdue, sweep>>

\* Mutant: the last case but one finishes the run.
CountedEarly(pending) == pending - 1 <= 1

CountedDown(pending) == pending - 1 <= 0

addPendingCases(c, s) ==
    /\ task[<<c, s>>] = "add"
    /\ run' = [run EXCEPT !.pending = @ - 1]
    /\ \/ CountedDown(run.pending) /\ Task(c, s, "finalize") /\ UNCHANGED queue
       \/ ~CountedDown(run.pending) /\ Return(c, s)
    /\ UNCHANGED <<row, start, target, overdue, sweep, emitted, faults>>

finalizeRun(c, s) ==
    /\ task[<<c, s>>] = "finalize"
    /\ run' = [run EXCEPT !.status = "COMPLETED"]
    /\ Task(c, s, "announce")
    /\ UNCHANGED <<row, start, queue, target, overdue, sweep, emitted, faults>>

\* run.completed for the aggregator, best effort.
emitRunCompleted(c, s) ==
    /\ task[<<c, s>>] = "announce"
    /\ \/ run' = [run EXCEPT !.announced = TRUE] /\ UNCHANGED faults
       \/ Fault /\ UNCHANGED run
    /\ Return(c, s)
    /\ UNCHANGED <<row, start, target, overdue, sweep, emitted>>

\* A handler throws or dies: its message returns to the queue, a workflow event is
\* delivered again, a sweep drops the rest of its list.
crash(c, s) ==
    /\ task[<<c, s>>] \notin {"idle", "invoke"}
    /\ Fault
    /\ Task(c, s, "idle")
    /\ IF s = "worker" THEN GiveBack(c) ELSE UNCHANGED queue
    /\ sweep' = IF s = "sweep" THEN {} ELSE sweep
    /\ UNCHANGED <<run, row, start, target, overdue, emitted>>

recordCaseCompletion(c, s) ==
    \/ setCompletionRecorded(c, s) \/ materializeArtifactIfCompleted(c, s)
    \/ addPendingCases(c, s) \/ finalizeRun(c, s) \/ emitRunCompleted(c, s)

---------------------------------------------------------------------------
(* Scoring *)

\* The scorer and the aggregator look the case's definition up by the suiteId of
\* the result row; without one the lookup throws.
scoreEvalCase(c) ==
    /\ c \in emitted
    /\ emitted' = emitted \ {c}
    /\ row' = [row EXCEPT ![c].scored = @ \/ row[c].suiteId]
    /\ UNCHANGED <<run, start, queue, target, overdue, sweep, task, faults>>

aggregateEvalRun ==
    LET inline == {c \in Cases : row[c].status = "COMPLETED" /\ row[c].suiteId}
    IN /\ run.announced
       /\ run' = [run EXCEPT !.announced = FALSE,
                             !.aggregated = {c \in Cases : row[c].scored} \cup inline]
       /\ row' = [c \in Cases |-> [row[c] EXCEPT !.scored = @ \/ c \in inline]]
       /\ UNCHANGED <<start, queue, target, overdue, sweep, task, emitted, faults>>

\* A comparison passes the suite of the run instead.
scoreMissingCaseInline(c) ==
    /\ run.status = "COMPLETED"
    /\ row[c].status = "COMPLETED" /\ ~row[c].scored
    /\ row' = [row EXCEPT ![c].scored = TRUE]
    /\ UNCHANGED <<run, start, queue, target, overdue, sweep, task, emitted, faults>>

---------------------------------------------------------------------------
StartStep(s) ==
    \/ startEvalRun(s) \/ writeCases(s) \/ fanOutEvalRun(s) \/ tryMarkDispatched(s)
    \/ sendConversation(s) \/ dispatchExecutionCase(s) \/ fanOutFails(s)

Next ==
    \/ \E s \in Starters : StartStep(s)
    \/ \E c \in Conversations : receive(c) \/ dispatchConversationCase(c) \/ workerTimesOut(c)
    \/ \E c \in Executions : executionEnds(c) \/ handleWorkflowCompletion(c)
    \/ listOverdue
    \/ \E c \in Cases : deadlinePasses(c) \/ sweepTimeouts(c)
    \/ \E c \in Cases, s \in Sources : recordCaseCompletion(c, s) \/ crash(c, s)
    \/ \E c \in Cases : scoreEvalCase(c) \/ scoreMissingCaseInline(c)
    \/ aggregateEvalRun

Spec == Init /\ [][Next]_vars

\* Lambdas that were started go on, queue and bus deliver, the step runner ends
\* what is not stuck, and the sweep is scheduled every five minutes. Nobody has to
\* start a run or ask for a comparison, and nothing has to fail.
FairSpec ==
    /\ Spec
    /\ \A s \in Starters :
          /\ WF_vars(writeCases(s)) /\ WF_vars(fanOutEvalRun(s)) /\ WF_vars(tryMarkDispatched(s))
          /\ WF_vars(sendConversation(s)) /\ WF_vars(dispatchExecutionCase(s))
    /\ \A c \in Conversations :
          WF_vars(receive(c)) /\ WF_vars(dispatchConversationCase(c)) /\ WF_vars(workerTimesOut(c))
    /\ \A c \in Executions : WF_vars(executionEnds(c)) /\ WF_vars(handleWorkflowCompletion(c))
    /\ WF_vars(listOverdue) /\ WF_vars(aggregateEvalRun)
    /\ \A c \in Cases :
          WF_vars(deadlinePasses(c)) /\ WF_vars(sweepTimeouts(c)) /\ WF_vars(scoreEvalCase(c))
    /\ \A c \in Cases, s \in Sources : WF_vars(recordCaseCompletion(c, s))

---------------------------------------------------------------------------
RunRow == [status : {"ABSENT", "PENDING", "COMPLETED"}, pending : Int,
           announced : BOOLEAN, aggregated : SUBSET Cases]
CaseRow == [status : {"ABSENT", "PENDING", "DISPATCHED"} \cup Terminal,
            linked : BOOLEAN, recorded : BOOLEAN, artifact : BOOLEAN,
            suiteId : BOOLEAN, scored : BOOLEAN]
StartCall == [pc : {"idle", "cases", "list", "next", "send", "request"},
              todo : SUBSET Cases, case : Cases \cup {"none"}]
Message == [state : {"none", "queued", "inflight", "gone", "dead"}, receives : Nat]
Steps == {"idle", "invoke", "record", "emit", "add", "finalize", "announce"}

\* The variables have their types.
TypeOK ==
    /\ run \in RunRow
    /\ row \in [Cases -> CaseRow]
    /\ start \in [Starters -> StartCall]
    /\ queue \in [Conversations -> Message]
    /\ target \in [Executions -> {"none", "started", "COMPLETED", "FAILED"}]
    /\ overdue \subseteq Cases /\ sweep \subseteq Cases /\ emitted \subseteq Cases
    /\ task \in [Cases \X Sources -> Steps]
    /\ faults \in Nat

Unrecorded == {c \in Cases : ~row[c].recorded}
Counting == {t \in Cases \X Sources : task[t] \in {"emit", "add"}}

\* pendingCases accounts for every case: the ones not recorded yet and the ones
\* recorded but not subtracted yet; it lags by at most one for each fault, and is
\* never ahead, whichever of worker, event and sweep gets to a case, and however
\* often (recordCaseCompletion's flag and counter, written one after the other).
CounterAccounts ==
    run.status # "ABSENT" =>
        run.pending - Cardinality(Unrecorded) - Cardinality(Counting) \in 0..faults

\* A run is COMPLETED only when every case has ended and been recorded, and one
\* handler at most takes it there (recordCaseCompletion's zero test).
CompletedOnce ==
    /\ run.status = "COMPLETED" => \A c \in Cases : row[c].recorded /\ row[c].status \in Terminal
    /\ Cardinality({t \in Cases \X Sources : task[t] = "finalize"})
          + (IF run.status = "COMPLETED" THEN 1 ELSE 0) <= 1

\* An execution's outcome is that of its own target, and a timeout is one that was
\* due (handleWorkflowCompletion's match by executionId, sweepTimeouts).
OutcomeIsItsOwn ==
    \A c \in Executions :
        /\ row[c].status \in {"COMPLETED", "FAILED"} => target[c] = row[c].status
        /\ row[c].status = "TIMEOUT" => c \in overdue

\* A run that was started completes, although execution targets may be stuck, as
\* long as nothing fails (sweepTimeouts: a stuck target cannot hang a run).
RunCompletes == run.status = "PENDING" ~> run.status = "COMPLETED" \/ faults > 0

\* Every COMPLETED case of a completed run is scored, by the scorer or by the
\* aggregator (the comment on scoreVector in the EvalRunCaseResult type).
CompletedCasesScored ==
    run.status = "COMPLETED" ~>
        faults > 0 \/ \A c \in Cases : row[c].status = "COMPLETED" => row[c].scored
=============================================================================
