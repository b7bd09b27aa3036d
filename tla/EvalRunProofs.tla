--------------------------- MODULE EvalRunProofs ---------------------------
(***************************************************************************)
(* The invariants of EvalRun, proved for every suite, every split of it    *)
(* into conversations and executions, and every number of racing starts,   *)
(* receives and faults. The counter of the run rests on what the flag of a *)
(* case says about it (Ended) and on nothing having happened before the    *)
(* run exists (Untouched); that one handler completes the run rests on the *)
(* counter; that an outcome is the case's own, on a case being dispatched  *)
(* once (DispatchedOnce).                                                  *)
(***************************************************************************)
EXTENDS EvalRun, FiniteSetTheorems, TLAPS

(***************************************************************************)
(* Typing                                                                  *)
(***************************************************************************)
LEMMA TaskType == ASSUME TypeOK, NEW c \in Cases, NEW s \in Sources, NEW pc \in Steps, Task(c, s, pc)
                  PROVE  task' \in [Cases \X Sources -> Steps]
  BY DEF TypeOK, Task

LEMMA StatusType ==
    ASSUME TypeOK, NEW c \in Cases, NEW status \in {"DISPATCHED"} \cup Terminal, SetStatus(c, status)
    PROVE  row' \in [Cases -> CaseRow]
  BY DEF TypeOK, SetStatus, CaseRow

\* A flag of a case's row is set.
LEMMA FlagType == ASSUME NEW r \in CaseRow, NEW b \in BOOLEAN
                  PROVE  /\ [r EXCEPT !.linked = b] \in CaseRow
                         /\ [r EXCEPT !.recorded = b] \in CaseRow
                         /\ [r EXCEPT !.artifact = b] \in CaseRow
                         /\ [r EXCEPT !.scored = b] \in CaseRow
<1>1. [r EXCEPT !.linked = b] \in CaseRow
  BY DEF CaseRow
<1>2. [r EXCEPT !.recorded = b] \in CaseRow
  BY DEF CaseRow
<1>3. [r EXCEPT !.artifact = b] \in CaseRow
  BY DEF CaseRow
<1>4. [r EXCEPT !.scored = b] \in CaseRow
  BY DEF CaseRow
<1>5. QED
  BY <1>1, <1>2, <1>3, <1>4

LEMMA FlaggedType ==
    ASSUME TypeOK, NEW c \in Cases, NEW b \in BOOLEAN,
           \/ row' = [row EXCEPT ![c].linked = b] \/ row' = [row EXCEPT ![c].recorded = b]
           \/ row' = [row EXCEPT ![c].artifact = b] \/ row' = [row EXCEPT ![c].scored = b]
    PROVE  row' \in [Cases -> CaseRow]
<1>1. row \in [Cases -> CaseRow] /\ row[c] \in CaseRow
  BY DEF TypeOK
<1>2. PICK r \in {[row[c] EXCEPT !.linked = b], [row[c] EXCEPT !.recorded = b],
                  [row[c] EXCEPT !.artifact = b], [row[c] EXCEPT !.scored = b]} :
         row' = [row EXCEPT ![c] = r]
  OBVIOUS
<1>3. r \in CaseRow
  BY <1>1, <1>2, FlagType
<1>4. QED
  BY <1>1, <1>2, <1>3

LEMMA QueueType == ASSUME TypeOK, NEW c, NEW state \in {"none", "queued", "inflight", "gone", "dead"},
                          queue' = [queue EXCEPT ![c].state = state]
                   PROVE  queue' \in [Conversations -> Message]
  BY DEF TypeOK, Message

LEMMA ContinueType == ASSUME TypeOK, NEW s \in Starters, NEW todo \in SUBSET Cases, Continue(s, todo)
                      PROVE  start' \in [Starters -> StartCall]
  BY DEF TypeOK, Continue, StartCall, NoCall

LEMMA CallType == ASSUME TypeOK, NEW s \in Starters,
                         NEW pc \in {"idle", "cases", "list", "next", "send", "request"}, Call(s, pc)
                  PROVE  start' \in [Starters -> StartCall]
  BY DEF TypeOK, Call, StartCall

LEMMA FaultType == ASSUME TypeOK, Fault PROVE faults' \in Nat
  BY DEF TypeOK, Fault

LEMMA StartType == ASSUME TypeOK, NEW s \in Starters, StartStep(s) PROVE TypeOK'
<1>1. CASE startEvalRun(s)
  <2>1. Cardinality(Cases) \in Int
    BY CasesAssumption, FS_CardinalityType
  <2>2. run' \in RunRow
    BY <1>1, <2>1 DEF TypeOK, RunRow, startEvalRun
  <2>3. QED
    BY <1>1, <2>2, CallType DEF TypeOK, startEvalRun
<1>2. CASE writeCases(s)
  <2>1. row' \in [Cases -> CaseRow]
    BY <1>2 DEF TypeOK, writeCases, PendingRow, CaseRow
  <2>2. start' \in [Starters -> StartCall] /\ faults' \in Nat
    BY <1>2, CallType, FaultType DEF TypeOK, writeCases
  <2>3. QED
    BY <1>2, <2>1, <2>2 DEF TypeOK, writeCases
<1>3. CASE fanOutEvalRun(s)
  BY <1>3, ContinueType DEF TypeOK, fanOutEvalRun
<1>4. CASE tryMarkDispatched(s)
  <2>1. PICK c \in start[s].todo :
          LET rest == start[s].todo \ {c}
          IN IF row[c].status = "PENDING"
             THEN /\ SetStatus(c, DispatchedStatus)
                  /\ start' = [start EXCEPT ![s] = [pc |-> "send", todo |-> rest, case |-> c]]
             ELSE Continue(s, rest) /\ UNCHANGED row
    BY <1>4 DEF tryMarkDispatched
  <2>2. c \in Cases /\ (start[s].todo \ {c}) \in SUBSET Cases
    BY DEF TypeOK, StartCall
  <2>3. row' \in [Cases -> CaseRow]
    BY <2>1, <2>2, StatusType DEF TypeOK, DispatchedStatus
  <2>4. start' \in [Starters -> StartCall]
    BY <2>1, <2>2, ContinueType DEF TypeOK, StartCall
  <2>5. QED
    BY <1>4, <2>3, <2>4 DEF TypeOK, tryMarkDispatched
<1>5. CASE sendConversation(s)
  BY <1>5, QueueType, ContinueType DEF TypeOK, StartCall, sendConversation
<1>6. CASE dispatchExecutionCase(s)
  <2>1. start' \in [Starters -> StartCall]
    BY <1>6, CallType, ContinueType DEF TypeOK, StartCall, dispatchExecutionCase
  <2>2. row' \in [Cases -> CaseRow]
    BY <1>6, FlaggedType DEF TypeOK, Executions, dispatchExecutionCase
  <2>3. target' \in [Executions -> {"none", "started", "COMPLETED", "FAILED"}]
    BY <1>6 DEF TypeOK, dispatchExecutionCase
  <2>4. QED
    BY <1>6, <2>1, <2>2, <2>3 DEF TypeOK, dispatchExecutionCase
<1>7. CASE fanOutFails(s)
  BY <1>7, FaultType DEF TypeOK, fanOutFails, StartCall, NoCall
<1>8. QED
  BY <1>1, <1>2, <1>3, <1>4, <1>5, <1>6, <1>7 DEF StartStep

LEMMA ReturnType == ASSUME TypeOK, NEW c \in Cases, NEW s \in Sources, Return(c, s)
                    PROVE  /\ task' \in [Cases \X Sources -> Steps]
                           /\ queue' \in [Conversations -> Message]
<1>1. task' \in [Cases \X Sources -> Steps]
  BY TaskType DEF Return, Steps
<1>2. queue' \in [Conversations -> Message]
  BY QueueType DEF Return, TypeOK
<1>3. QED
  BY <1>1, <1>2

LEMMA GiveBackType == ASSUME TypeOK, NEW c, GiveBack(c) PROVE queue' \in [Conversations -> Message]
  BY QueueType DEF GiveBack

\* How a case ends.
LEMMA EndType ==
    ASSUME TypeOK,
           \/ \E c \in Conversations : receive(c) \/ dispatchConversationCase(c) \/ workerTimesOut(c)
           \/ \E c \in Executions : executionEnds(c) \/ handleWorkflowCompletion(c)
           \/ listOverdue
           \/ \E c \in Cases : deadlinePasses(c) \/ sweepTimeouts(c)
    PROVE  TypeOK'
<1> USE CasesAssumption DEF Executions
<1>s. Sources = {"worker", "event", "sweep"} /\ {"idle", "invoke", "record"} \subseteq Steps
      /\ {"COMPLETED", "FAILED", "TIMEOUT"} \subseteq Terminal
  BY DEF Sources, Steps, Terminal
<1>1. ASSUME NEW c \in Conversations, receive(c) PROVE TypeOK'
  <2>1. queue' \in [Conversations -> Message]
    BY <1>1 DEF TypeOK, receive, Message
  <2>2. QED
    BY <1>1, <1>s, <2>1, TaskType DEF TypeOK, receive
<1>2. ASSUME NEW c \in Conversations, dispatchConversationCase(c) PROVE TypeOK'
  <2>1. row' \in [Cases -> CaseRow] /\ task' \in [Cases \X Sources -> Steps]
    BY <1>2, <1>s, StatusType, TaskType DEF dispatchConversationCase
  <2>2. QED
    BY <1>2, <2>1 DEF TypeOK, dispatchConversationCase
<1>3. ASSUME NEW c \in Conversations, workerTimesOut(c) PROVE TypeOK'
  <2>1. queue' \in [Conversations -> Message] /\ task' \in [Cases \X Sources -> Steps]
    BY <1>3, <1>s, GiveBackType, TaskType DEF workerTimesOut
  <2>2. faults' \in Nat
    BY <1>3, FaultType DEF workerTimesOut, TypeOK
  <2>3. QED
    BY <1>3, <2>1, <2>2 DEF TypeOK, workerTimesOut
<1>4. ASSUME NEW c \in Executions, executionEnds(c) PROVE TypeOK'
  BY <1>4 DEF TypeOK, executionEnds
<1>5. ASSUME NEW c \in Executions, handleWorkflowCompletion(c) PROVE TypeOK'
  <2>1. row' \in [Cases -> CaseRow] /\ task' \in [Cases \X Sources -> Steps]
    BY <1>5, <1>s, StatusType, TaskType DEF handleWorkflowCompletion
  <2>2. QED
    BY <1>5, <2>1 DEF TypeOK, handleWorkflowCompletion
<1>6. CASE listOverdue
  BY <1>6 DEF TypeOK, listOverdue
<1>7. ASSUME NEW c \in Cases, deadlinePasses(c) PROVE TypeOK'
  BY <1>7 DEF TypeOK, deadlinePasses
<1>8. ASSUME NEW c \in Cases, sweepTimeouts(c) PROVE TypeOK'
  <2>1. row' \in [Cases -> CaseRow] /\ task' \in [Cases \X Sources -> Steps]
    BY <1>8, <1>s, StatusType, TaskType DEF sweepTimeouts
  <2>2. QED
    BY <1>8, <2>1 DEF TypeOK, sweepTimeouts
<1>9. QED
  BY <1>1, <1>2, <1>3, <1>4, <1>5, <1>6, <1>7, <1>8

LEMMA RecordType ==
    ASSUME TypeOK, NEW c \in Cases, NEW s \in Sources, recordCaseCompletion(c, s) \/ crash(c, s)
    PROVE  TypeOK'
<1>1. CASE setCompletionRecorded(c, s)
  <2>1. row' \in [Cases -> CaseRow]
    BY <1>1, FlaggedType DEF TypeOK, setCompletionRecorded
  <2>2. queue' \in [Conversations -> Message] /\ task' \in [Cases \X Sources -> Steps]
    BY <1>1, ReturnType, TaskType DEF TypeOK, Steps, setCompletionRecorded
  <2>3. QED
    BY <1>1, <2>1, <2>2 DEF TypeOK, setCompletionRecorded
<1>2. CASE materializeArtifactIfCompleted(c, s)
  <2>0. (row[c].status = "COMPLETED") \in BOOLEAN
    OBVIOUS
  <2>1. row' \in [Cases -> CaseRow] /\ emitted' \subseteq Cases
    BY <1>2, <2>0, FlaggedType DEF TypeOK, materializeArtifactIfCompleted
  <2>2. task' \in [Cases \X Sources -> Steps] /\ faults' \in Nat
    BY <1>2, TaskType, FaultType DEF TypeOK, Steps, materializeArtifactIfCompleted
  <2>3. QED
    BY <1>2, <2>1, <2>2 DEF TypeOK, materializeArtifactIfCompleted
<1>3. CASE addPendingCases(c, s)
  <2>1. run' \in RunRow
    BY <1>3 DEF TypeOK, RunRow, addPendingCases
  <2>2. queue' \in [Conversations -> Message] /\ task' \in [Cases \X Sources -> Steps]
    BY <1>3, ReturnType, TaskType DEF TypeOK, Steps, addPendingCases
  <2>3. QED
    BY <1>3, <2>1, <2>2 DEF TypeOK, addPendingCases
<1>4. CASE finalizeRun(c, s)
  <2>1. run' \in RunRow
    BY <1>4 DEF TypeOK, RunRow, finalizeRun
  <2>2. task' \in [Cases \X Sources -> Steps]
    BY <1>4, TaskType DEF Steps, finalizeRun
  <2>3. QED
    BY <1>4, <2>1, <2>2 DEF TypeOK, finalizeRun
<1>5. CASE emitRunCompleted(c, s)
  <2>1. run' \in RunRow /\ faults' \in Nat
    BY <1>5, FaultType DEF TypeOK, RunRow, emitRunCompleted
  <2>2. queue' \in [Conversations -> Message] /\ task' \in [Cases \X Sources -> Steps]
    BY <1>5, ReturnType DEF emitRunCompleted
  <2>3. QED
    BY <1>5, <2>1, <2>2 DEF TypeOK, emitRunCompleted
<1>6. CASE crash(c, s)
  <2>1. task' \in [Cases \X Sources -> Steps] /\ faults' \in Nat
    BY <1>6, TaskType, FaultType DEF Steps, crash
  <2>2. queue' \in [Conversations -> Message]
    BY <1>6, GiveBackType DEF TypeOK, crash
  <2>3. QED
    BY <1>6, <2>1, <2>2 DEF TypeOK, crash
<1>7. QED
  BY <1>1, <1>2, <1>3, <1>4, <1>5, <1>6 DEF recordCaseCompletion

LEMMA ScoreType ==
    ASSUME TypeOK,
           (\E c \in Cases : scoreEvalCase(c) \/ scoreMissingCaseInline(c)) \/ aggregateEvalRun
    PROVE  TypeOK'
<1>1. ASSUME NEW c \in Cases, scoreEvalCase(c) \/ scoreMissingCaseInline(c) PROVE TypeOK'
  <2>1. (row[c].scored \/ row[c].suiteId) \in BOOLEAN
    OBVIOUS
  <2>2. row' \in [Cases -> CaseRow]
    BY <1>1, <2>1, FlaggedType DEF scoreEvalCase, scoreMissingCaseInline
  <2>3. QED
    BY <1>1, <2>2 DEF TypeOK, scoreEvalCase, scoreMissingCaseInline
<1>2. CASE aggregateEvalRun
  <2>1. run' \in RunRow
    BY <1>2 DEF TypeOK, RunRow, aggregateEvalRun
  <2>2. row' \in [Cases -> CaseRow]
    <3>1. \A r \in CaseRow, b \in BOOLEAN : [r EXCEPT !.scored = b] \in CaseRow
      BY FlagType
    <3>2. \A c \in Cases : [row[c] EXCEPT !.scored = @ \/ (row[c].status = "COMPLETED" /\ row[c].suiteId)] \in CaseRow
      BY <3>1 DEF TypeOK
    <3>3. QED
      BY <1>2, <3>2 DEF aggregateEvalRun
  <2>3. QED
    BY <1>2, <2>1, <2>2 DEF TypeOK, aggregateEvalRun
<1>3. QED
  BY <1>1, <1>2

\* The run, its cases and everyone who works on them keep their types.
THEOREM EvalRunTypeCorrect == Spec => []TypeOK
<1>1. Init => TypeOK
  <2> SUFFICES ASSUME Init PROVE TypeOK
    OBVIOUS
  <2>1. NoRow \in CaseRow
    BY DEF NoRow, PendingRow, CaseRow
  <2>2. row \in [Cases -> CaseRow]
    BY <2>1 DEF Init
  <2>3. run \in RunRow
    BY DEF Init, RunRow
  <2>4. QED
    BY <2>2, <2>3 DEF Init, TypeOK, NoCall, StartCall, Message, Steps
<1>2. TypeOK /\ [Next]_vars => TypeOK'
  <2> SUFFICES ASSUME TypeOK, [Next]_vars PROVE TypeOK'
    OBVIOUS
  <2>1. CASE UNCHANGED vars
    BY <2>1 DEF vars, TypeOK
  <2>2. CASE Next
    BY <2>2, StartType, EndType, RecordType, ScoreType DEF Next
  <2>3. QED
    BY <2>1, <2>2
<1>3. QED
  BY <1>1, <1>2, PTL DEF Spec

(***************************************************************************)
(* The safety invariants                                                   *)
(***************************************************************************)
Undispatched == {"ABSENT", "PENDING"}
Sending(s) == start[s].pc \in {"send", "request"}

Untouched ==
    run.status = "ABSENT" =>
        /\ \A c \in Cases : row[c].status = "ABSENT" /\ ~row[c].linked
        /\ \A s \in Starters : start[s].pc = "idle"
        /\ \A c \in Conversations : queue[c].state = "none"
        /\ \A c \in Executions : target[c] = "none"
        /\ sweep = {}
        /\ \A t \in Cases \X Sources : task[t] = "idle"

Ended ==
    /\ \A c \in Cases : row[c].recorded => row[c].status \in Terminal
    /\ \A c \in Cases, s \in Sources :
          task[<<c, s>>] \notin {"idle", "invoke"} => row[c].status \in Terminal

\* Nothing has been sent on behalf of the case.
Fresh(c) == /\ c \in Executions => target[c] = "none"
            /\ c \in Conversations => queue[c].state = "none"

DispatchedOnce ==
    /\ \A c \in Cases : row[c].status \in Undispatched => Fresh(c)
    /\ \A s \in Starters : Sending(s) =>
          /\ start[s].case \in Cases /\ Fresh(start[s].case)
          /\ row[start[s].case].status \notin Undispatched
    /\ \A s, z \in Starters : Sending(s) /\ Sending(z) /\ start[s].case = start[z].case => s = z

\* A worker that is at a case holds its message.
MessageHeld ==
    \A c \in Conversations : task[<<c, "worker">>] # "idle" => queue[c].state = "inflight"

Finalizing == {t \in Cases \X Sources : task[t] = "finalize"}

LastOne ==
    /\ Finalizing # {} \/ run.status = "COMPLETED" => Unrecorded = {} /\ Counting = {}
    /\ \A t, u \in Finalizing : t = u
    /\ run.status = "COMPLETED" => Finalizing = {}

Inv ==
    /\ Untouched /\ Ended /\ CounterAccounts /\ LastOne
    /\ DispatchedOnce /\ MessageHeld /\ sweep \subseteq overdue /\ OutcomeIsItsOwn

(***************************************************************************)
(* Before the run exists                                                   *)
(***************************************************************************)
LEMMA StatusKept ==
    ASSUME TypeOK, Next, run'.status = "ABSENT"
    PROVE  run.status = "ABSENT"
<1>1. CASE UNCHANGED run
  BY <1>1
<1>2. ASSUME NEW s \in Starters, StartStep(s) PROVE run.status = "ABSENT"
  BY <1>2 DEF StartStep, startEvalRun, writeCases, fanOutEvalRun, tryMarkDispatched, sendConversation,
              dispatchExecutionCase, fanOutFails, RunAbsent
<1>3. ASSUME NEW c \in Cases, NEW s \in Sources, recordCaseCompletion(c, s) \/ crash(c, s)
      PROVE  run.status = "ABSENT"
  BY <1>3 DEF TypeOK, RunRow, recordCaseCompletion, setCompletionRecorded, materializeArtifactIfCompleted,
              addPendingCases, finalizeRun, emitRunCompleted, crash
<1>4. CASE aggregateEvalRun
  BY <1>4 DEF aggregateEvalRun, TypeOK, RunRow
<1>5. QED
  BY <1>1, <1>2, <1>3, <1>4
     DEF Next, receive, dispatchConversationCase, workerTimesOut, executionEnds, handleWorkflowCompletion,
         listOverdue, deadlinePasses, sweepTimeouts, scoreEvalCase, scoreMissingCaseInline

LEMMA UntouchedStep == ASSUME TypeOK, Untouched, Next PROVE Untouched'
<1> SUFFICES ASSUME run'.status = "ABSENT"
             PROVE  /\ \A c \in Cases : row'[c].status = "ABSENT" /\ ~row'[c].linked
                    /\ UNCHANGED <<start, queue, target, sweep, task>>
  BY StatusKept DEF Untouched
<1>a. run.status = "ABSENT"
  BY StatusKept
<1>b. /\ \A c \in Cases : row[c].status = "ABSENT" /\ ~row[c].linked
      /\ \A s \in Starters : start[s].pc = "idle"
      /\ \A c \in Conversations : queue[c].state = "none"
      /\ \A c \in Executions : target[c] = "none"
      /\ sweep = {}
      /\ \A c \in Cases, s \in Sources : task[<<c, s>>] = "idle"
  BY <1>a DEF Untouched
<1>1. ASSUME NEW s \in Starters, StartStep(s) PROVE FALSE
  <2>1. ~startEvalRun(s)
    BY DEF startEvalRun, TypeOK, RunRow
  <2>2. QED
    BY <1>1, <1>b, <2>1 DEF StartStep, writeCases, fanOutEvalRun, tryMarkDispatched, sendConversation,
                            dispatchExecutionCase, fanOutFails
<1>2. ASSUME NEW c \in Conversations, receive(c) \/ dispatchConversationCase(c) \/ workerTimesOut(c)
      PROVE  FALSE
  <2>1. c \in Cases /\ "worker" \in Sources
    BY CasesAssumption DEF Sources
  <2>2. QED
    BY <1>2, <1>b, <2>1 DEF receive, dispatchConversationCase, workerTimesOut
<1>3. ASSUME NEW c \in Executions, executionEnds(c) \/ handleWorkflowCompletion(c) PROVE FALSE
  BY <1>3, <1>b DEF executionEnds, handleWorkflowCompletion
<1>4. ASSUME NEW c \in Cases, deadlinePasses(c) \/ sweepTimeouts(c) PROVE FALSE
  BY <1>4, <1>b DEF deadlinePasses, sweepTimeouts
<1>5. ASSUME NEW c \in Cases, NEW s \in Sources, recordCaseCompletion(c, s) \/ crash(c, s) PROVE FALSE
  BY <1>5, <1>b DEF recordCaseCompletion, setCompletionRecorded, materializeArtifactIfCompleted,
              addPendingCases, finalizeRun, emitRunCompleted, crash
<1>6. ASSUME NEW c \in Cases, scoreEvalCase(c)
      PROVE  /\ \A d \in Cases : row'[d].status = "ABSENT" /\ ~row'[d].linked
             /\ UNCHANGED <<start, queue, target, sweep, task>>
  BY <1>6, <1>b DEF scoreEvalCase, TypeOK, CaseRow
<1>7. ASSUME aggregateEvalRun
      PROVE  /\ \A d \in Cases : row'[d].status = "ABSENT" /\ ~row'[d].linked
             /\ UNCHANGED <<start, queue, target, sweep, task>>
  BY <1>7, <1>b DEF aggregateEvalRun, TypeOK, CaseRow
<1>8. ~listOverdue /\ \A c \in Cases : ~scoreMissingCaseInline(c)
  BY <1>a DEF listOverdue, scoreMissingCaseInline
<1>9. QED
  BY <1>1, <1>2, <1>3, <1>4, <1>5, <1>6, <1>7, <1>8 DEF Next

(***************************************************************************)
(* What a step may do to a case                                            *)
(***************************************************************************)
StatusMoves(c) ==
    \/ row'[c].status = row[c].status
    \/ row'[c].status \in Terminal
    \/ row[c].status = "ABSENT" /\ row'[c].status = "PENDING"
    \/ row[c].status = "PENDING" /\ row'[c].status = "DISPATCHED"
FlagMoves(c) == row'[c].recorded => row[c].recorded \/ \E s \in Sources : task[<<c, s>>] = "record"
TaskMoves(c) == \A s \in Sources : task'[<<c, s>>] \notin {"idle", "invoke"} =>
                    task[<<c, s>>] \notin {"idle", "invoke"} \/ row'[c].status \in Terminal
Moves(c) == StatusMoves(c) /\ FlagMoves(c) /\ TaskMoves(c)

LEMMA StartMoves == ASSUME TypeOK, NEW s \in Starters, StartStep(s), NEW c \in Cases PROVE Moves(c)
<1>1. CASE UNCHANGED row
  BY <1>1 DEF Moves, StatusMoves, FlagMoves, TaskMoves, StartStep, startEvalRun, writeCases, fanOutEvalRun,
              tryMarkDispatched, sendConversation, dispatchExecutionCase, fanOutFails
<1>2. CASE writeCases(s)
  BY <1>2 DEF Moves, StatusMoves, FlagMoves, TaskMoves, writeCases, PendingRow
<1>3. CASE tryMarkDispatched(s)
  BY <1>3 DEF Moves, StatusMoves, FlagMoves, TaskMoves, tryMarkDispatched, SetStatus, DispatchedStatus,
              TypeOK, CaseRow
<1>4. CASE dispatchExecutionCase(s)
  BY <1>4 DEF Moves, StatusMoves, FlagMoves, TaskMoves, dispatchExecutionCase, TypeOK, CaseRow
<1>5. QED
  BY <1>1, <1>2, <1>3, <1>4 DEF StartStep, startEvalRun, fanOutEvalRun, sendConversation, fanOutFails

LEMMA EndMoves ==
    ASSUME TypeOK,
           \/ \E d \in Conversations : receive(d) \/ dispatchConversationCase(d) \/ workerTimesOut(d)
           \/ \E d \in Executions : executionEnds(d) \/ handleWorkflowCompletion(d)
           \/ listOverdue
           \/ \E d \in Cases : deadlinePasses(d) \/ sweepTimeouts(d),
           NEW c \in Cases
    PROVE  Moves(c)
<1> USE DEF Moves, StatusMoves, FlagMoves, TaskMoves, TypeOK
<1>1. CASE (\E d \in Executions : executionEnds(d)) \/ listOverdue \/ \E d \in Cases : deadlinePasses(d)
  BY <1>1 DEF executionEnds, listOverdue, deadlinePasses
<1>2. ASSUME NEW d \in Conversations, receive(d) \/ workerTimesOut(d) PROVE Moves(c)
  BY <1>2 DEF receive, workerTimesOut, Task
<1>3. ASSUME NEW d \in Conversations, dispatchConversationCase(d) PROVE Moves(c)
  BY <1>3 DEF dispatchConversationCase, Task, SetStatus, CaseRow, Terminal
<1>4. ASSUME NEW d \in Executions, handleWorkflowCompletion(d) PROVE Moves(c)
  BY <1>4 DEF handleWorkflowCompletion, Task, SetStatus, CaseRow, Terminal
<1>5. ASSUME NEW d \in Cases, sweepTimeouts(d) PROVE Moves(c)
  BY <1>5 DEF sweepTimeouts, Task, SetStatus, CaseRow, Terminal
<1>6. QED
  BY <1>1, <1>2, <1>3, <1>4, <1>5

LEMMA RecordMoves ==
    ASSUME TypeOK, NEW d \in Cases, NEW s \in Sources, recordCaseCompletion(d, s) \/ crash(d, s),
           NEW c \in Cases
    PROVE  Moves(c)
<1> USE DEF Moves, StatusMoves, FlagMoves, TaskMoves, TypeOK, Task, Return
<1>1. CASE setCompletionRecorded(d, s)
  <2>1. row'[c].status = row[c].status
    BY <1>1 DEF setCompletionRecorded, CaseRow
  <2>2. row'[c].recorded => row[c].recorded \/ c = d
    BY <1>1 DEF setCompletionRecorded, CaseRow
  <2>3. task[<<d, s>>] = "record" /\ (Task(d, s, "emit") \/ Task(d, s, "idle"))
    BY <1>1 DEF setCompletionRecorded
  <2>4. TaskMoves(c)
    BY <2>3
  <2>5. QED
    BY <2>1, <2>2, <2>3, <2>4
<1>2. CASE materializeArtifactIfCompleted(d, s)
  BY <1>2 DEF materializeArtifactIfCompleted, CaseRow
<1>3. CASE addPendingCases(d, s) \/ finalizeRun(d, s) \/ emitRunCompleted(d, s) \/ crash(d, s)
  BY <1>3 DEF addPendingCases, finalizeRun, emitRunCompleted, crash
<1>4. QED
  BY <1>1, <1>2, <1>3 DEF recordCaseCompletion

LEMMA ScoreKeepsFlag ==
    ASSUME TypeOK, NEW c \in Cases,
           (\E d \in Cases : scoreEvalCase(d) \/ scoreMissingCaseInline(d)) \/ aggregateEvalRun
    PROVE  row'[c].recorded = row[c].recorded
<1>1. ASSUME NEW d \in Cases, scoreEvalCase(d) PROVE row'[c].recorded = row[c].recorded
  BY <1>1 DEF TypeOK, CaseRow, scoreEvalCase
<1>2. ASSUME NEW d \in Cases, scoreMissingCaseInline(d) PROVE row'[c].recorded = row[c].recorded
  BY <1>2 DEF TypeOK, CaseRow, scoreMissingCaseInline
<1>3. ASSUME aggregateEvalRun PROVE row'[c].recorded = row[c].recorded
  BY <1>3 DEF TypeOK, CaseRow, aggregateEvalRun
<1>4. QED
  BY <1>1, <1>2, <1>3

LEMMA ScoreMoves ==
    ASSUME TypeOK, NEW c \in Cases,
           (\E d \in Cases : scoreEvalCase(d) \/ scoreMissingCaseInline(d)) \/ aggregateEvalRun
    PROVE  Moves(c)
<1>1. UNCHANGED task
  BY DEF scoreEvalCase, scoreMissingCaseInline, aggregateEvalRun
<1>2. row'[c].status = row[c].status
  BY DEF TypeOK, CaseRow, scoreEvalCase, scoreMissingCaseInline, aggregateEvalRun
<1>3. QED
  BY <1>1, <1>2, ScoreKeepsFlag DEF Moves, StatusMoves, FlagMoves, TaskMoves

LEMMA AllMove == ASSUME TypeOK, Next, NEW c \in Cases PROVE Moves(c)
  BY StartMoves, EndMoves, RecordMoves, ScoreMoves DEF Next

LEMMA EndedStep == ASSUME TypeOK, Ended, Next PROVE Ended'
<1>1. ASSUME NEW c \in Cases, row[c].status \in Terminal PROVE row'[c].status \in Terminal
  BY <1>1, AllMove DEF Moves, StatusMoves, Terminal
<1>2. \A c \in Cases : row'[c].recorded => row'[c].status \in Terminal
  BY <1>1, AllMove DEF Moves, FlagMoves, Ended
<1>3. \A c \in Cases, s \in Sources :
         task'[<<c, s>>] \notin {"idle", "invoke"} => row'[c].status \in Terminal
  BY <1>1, AllMove DEF Moves, TaskMoves, Ended
<1>4. QED
  BY <1>2, <1>3 DEF Ended

(***************************************************************************)
(* The counter                                                             *)
(***************************************************************************)
LEMMA SetsFinite ==
    ASSUME NEW U \in SUBSET Cases, NEW C \in SUBSET (Cases \X Sources)
    PROVE  /\ IsFiniteSet(U) /\ Cardinality(U) \in Nat
           /\ IsFiniteSet(C) /\ Cardinality(C) \in Nat
<1>1. IsFiniteSet(Sources)
  <2>1. IsFiniteSet({"worker"})
    BY FS_Singleton
  <2>2. IsFiniteSet({"worker"} \cup {"event"})
    BY <2>1, FS_AddElement
  <2>3. IsFiniteSet(({"worker"} \cup {"event"}) \cup {"sweep"})
    BY <2>2, FS_AddElement
  <2>4. Sources = ({"worker"} \cup {"event"}) \cup {"sweep"}
    BY DEF Sources
  <2>5. QED
    BY <2>3, <2>4
<1>2. IsFiniteSet(Cases \X Sources)
  BY <1>1, CasesAssumption, FS_Product
<1>3. IsFiniteSet(U) /\ IsFiniteSet(C)
  BY <1>2, CasesAssumption, FS_Subset
<1>4. QED
  BY <1>3, FS_CardinalityType

\* Which steps leave the accounts alone.
Accounts == <<Unrecorded, Counting, Finalizing, run.pending, run.status>>
Keeps == UNCHANGED Accounts /\ faults' >= faults

LEMMA FlagsKept ==
    ASSUME \A c \in Cases : row'[c].recorded = row[c].recorded
    PROVE  Unrecorded' = Unrecorded
  BY DEF Unrecorded

LEMMA StartAccounts ==
    ASSUME TypeOK, Ended, NEW s \in Starters, StartStep(s), ~startEvalRun(s)
    PROVE  Keeps
<1>1. UNCHANGED <<run, task>>
  BY DEF StartStep, writeCases, fanOutEvalRun, tryMarkDispatched, sendConversation, dispatchExecutionCase,
         fanOutFails
<1>2. Counting' = Counting /\ Finalizing' = Finalizing
  BY <1>1 DEF Counting, Finalizing
<1>3. faults' >= faults
  BY DEF StartStep, writeCases, fanOutEvalRun, tryMarkDispatched, sendConversation, dispatchExecutionCase,
         fanOutFails, Fault, TypeOK
<1>4. \A c \in Cases : row'[c].recorded = row[c].recorded
  <2>1. CASE UNCHANGED row
    BY <2>1
  <2>2. CASE writeCases(s)
    <3>1. PICK written \in SUBSET Cases :
             row' = [c \in Cases |-> IF c \in written /\ row[c].status = "ABSENT"
                                     THEN PendingRow ELSE row[c]]
      BY <2>2 DEF writeCases
    <3>2. ASSUME NEW c \in Cases, row[c].status = "ABSENT" PROVE row[c].recorded = FALSE
      BY <3>2 DEF Ended, Terminal, TypeOK, CaseRow
    <3>3. QED
      BY <3>1, <3>2 DEF PendingRow
  <2>3. CASE tryMarkDispatched(s)
    BY <2>3 DEF tryMarkDispatched, SetStatus, TypeOK, CaseRow
  <2>4. CASE dispatchExecutionCase(s)
    BY <2>4 DEF dispatchExecutionCase, TypeOK, CaseRow
  <2>5. QED
    BY <2>1, <2>2, <2>3, <2>4 DEF StartStep, fanOutEvalRun, sendConversation, fanOutFails
<1>5. Unrecorded' = Unrecorded
  BY <1>4, FlagsKept
<1>6. QED
  BY <1>1, <1>2, <1>3, <1>5 DEF Accounts, Keeps

LEMMA EndAccounts ==
    ASSUME TypeOK, MessageHeld,
           \/ \E d \in Conversations : receive(d) \/ dispatchConversationCase(d) \/ workerTimesOut(d)
           \/ \E d \in Executions : executionEnds(d) \/ handleWorkflowCompletion(d)
           \/ listOverdue
           \/ \E d \in Cases : deadlinePasses(d) \/ sweepTimeouts(d)
    PROVE  Keeps
<1>0. {"worker", "event", "sweep"} \subseteq Sources /\ Conversations \subseteq Cases /\ Executions \subseteq Cases
  BY CasesAssumption DEF Sources, Executions
<1>1. UNCHANGED run
  BY DEF receive, dispatchConversationCase, workerTimesOut, executionEnds, handleWorkflowCompletion, listOverdue,
         deadlinePasses, sweepTimeouts
<1>f. faults' >= faults
  <2>1. UNCHANGED faults \/ Fault
    BY DEF receive, dispatchConversationCase, workerTimesOut, executionEnds, handleWorkflowCompletion, listOverdue,
           deadlinePasses, sweepTimeouts
  <2>2. QED
    BY <2>1 DEF Fault, TypeOK
<1>2. \A c \in Cases : row'[c].recorded = row[c].recorded
  <2>1. UNCHANGED row \/ \E d \in Cases, status \in Terminal : SetStatus(d, status)
    BY <1>0 DEF receive, dispatchConversationCase, workerTimesOut, executionEnds, handleWorkflowCompletion,
           listOverdue, deadlinePasses, sweepTimeouts, Terminal
  <2>2. QED
    BY <2>1 DEF SetStatus, TypeOK, CaseRow
<1>3. UNCHANGED task \/ \E c \in Cases, s \in Sources, pc \in {"idle", "invoke", "record"} :
                             task[<<c, s>>] \in {"idle", "invoke"} /\ Task(c, s, pc)
  <2>1. ASSUME NEW d \in Conversations, receive(d)
        PROVE  task[<<d, "worker">>] = "idle"
    BY <2>1 DEF receive, MessageHeld
  <2>2. QED
    BY <1>0, <2>1 DEF receive, dispatchConversationCase, workerTimesOut, executionEnds, handleWorkflowCompletion,
         listOverdue, deadlinePasses, sweepTimeouts
<1>4. Counting' = Counting /\ Finalizing' = Finalizing
  BY <1>3 DEF Counting, Finalizing, Task, TypeOK
<1>5. QED
  BY <1>1, <1>f, <1>2, <1>4, FlagsKept DEF Accounts, Keeps

\* A handler that does not touch the flag leaves Unrecorded alone.
LEMMA TaskCounts ==
    ASSUME TypeOK, NEW c \in Cases, NEW s \in Sources, NEW pc \in Steps, Task(c, s, pc)
    PROVE  Counting' = IF pc \in {"emit", "add"} THEN Counting \cup {<<c, s>>} ELSE Counting \ {<<c, s>>}
  BY DEF TypeOK, Task, Counting

\* The effects of recordCaseCompletion on the accounts.
Flags(c, s) ==
    /\ c \in Unrecorded /\ <<c, s>> \notin Counting
    /\ Unrecorded' = Unrecorded \ {c} /\ Counting' = Counting \cup {<<c, s>>}
    /\ UNCHANGED <<run, faults>>
    /\ UNCHANGED Finalizing
Subtracts(c, s) ==
    /\ <<c, s>> \in Counting
    /\ Unrecorded' = Unrecorded /\ Counting' = Counting \ {<<c, s>>}
    /\ run'.pending = run.pending - 1 /\ run'.status = run.status /\ UNCHANGED faults
    /\ \/ run'.pending <= 0 /\ Finalizing' = Finalizing \cup {<<c, s>>}
       \/ UNCHANGED Finalizing
Finalizes(c, s) ==
    /\ <<c, s>> \in Finalizing /\ Finalizing' = Finalizing \ {<<c, s>>}
    /\ UNCHANGED <<Unrecorded, Counting, faults>>
    /\ run'.pending = run.pending /\ run'.status = "COMPLETED"
Forgets(c, s) ==
    /\ UNCHANGED <<Unrecorded, run>> /\ faults' = faults + 1
    /\ Counting' = Counting \ {<<c, s>>}
    /\ Finalizing' \subseteq Finalizing

LEMMA RecordAccounts ==
    ASSUME TypeOK, NEW c \in Cases, NEW s \in Sources, recordCaseCompletion(c, s) \/ crash(c, s)
    PROVE  Flags(c, s) \/ Subtracts(c, s) \/ Finalizes(c, s) \/ Forgets(c, s) \/ Keeps
<1> USE DEF Steps
<1>t. <<c, s>> \in Cases \X Sources
  OBVIOUS
<1>k. UNCHANGED row => Unrecorded' = Unrecorded
  BY DEF Unrecorded
<1>1. CASE setCompletionRecorded(c, s)
  <2>1. CASE FirstCompletion(c)
    <3>1. /\ task[<<c, s>>] = "record" /\ Task(c, s, "emit") /\ row' = [row EXCEPT ![c].recorded = TRUE]
          /\ UNCHANGED <<run, faults>>
      BY <1>1, <2>1 DEF setCompletionRecorded
    <3>2. c \in Unrecorded /\ Unrecorded' = Unrecorded \ {c}
      BY <2>1, <3>1 DEF Unrecorded, FirstCompletion, TypeOK, CaseRow
    <3>3. <<c, s>> \notin Counting /\ Counting' = Counting \cup {<<c, s>>}
      BY <3>1, TaskCounts DEF Counting
    <3>4. UNCHANGED Finalizing
      BY <3>1 DEF Finalizing, Task, TypeOK
    <3>5. QED
      BY <3>1, <3>2, <3>3, <3>4 DEF Flags
  <2>2. CASE ~FirstCompletion(c)
    <3>1. task[<<c, s>>] = "record" /\ Task(c, s, "idle") /\ UNCHANGED <<row, run, faults>>
      BY <1>1, <2>2 DEF setCompletionRecorded, Return
    <3>2. Counting' = Counting /\ UNCHANGED Finalizing
      BY <3>1 DEF Counting, Finalizing, Task, TypeOK
    <3>3. QED
      BY <1>k, <3>1, <3>2 DEF Keeps, Accounts, TypeOK
  <2>3. QED
    BY <2>1, <2>2
<1>2. CASE materializeArtifactIfCompleted(c, s)
  <2>1. task[<<c, s>>] = "emit" /\ Task(c, s, "add") /\ UNCHANGED run
    BY <1>2 DEF materializeArtifactIfCompleted
  <2>2. Counting' = Counting /\ UNCHANGED Finalizing
    BY <2>1 DEF Counting, Finalizing, Task, TypeOK
  <2>3. \A d \in Cases : row'[d].recorded = row[d].recorded
    BY <1>2 DEF materializeArtifactIfCompleted, TypeOK, CaseRow
  <2>4. faults' >= faults
    BY <1>2 DEF materializeArtifactIfCompleted, Fault, TypeOK
  <2>5. QED
    BY <2>1, <2>2, <2>3, <2>4, FlagsKept DEF Keeps, Accounts
<1>3. CASE addPendingCases(c, s)
  <2>1. /\ task[<<c, s>>] = "add" /\ UNCHANGED <<row, faults>>
        /\ run' = [run EXCEPT !.pending = @ - 1]
        /\ \/ run.pending - 1 <= 0 /\ Task(c, s, "finalize")
           \/ Task(c, s, "idle")
    BY <1>3 DEF addPendingCases, Return, CountedDown
  <2>2. <<c, s>> \in Counting /\ Counting' = Counting \ {<<c, s>>}
    BY <2>1, TaskCounts DEF Counting
  <2>3. run'.pending = run.pending - 1 /\ run'.status = run.status
    BY <2>1 DEF TypeOK, RunRow
  <2>4. \/ run.pending - 1 <= 0 /\ Finalizing' = Finalizing \cup {<<c, s>>}
        \/ UNCHANGED Finalizing
    BY <2>1 DEF Finalizing, Task, TypeOK
  <2>5. QED
    BY <1>k, <2>1, <2>2, <2>3, <2>4 DEF Subtracts
<1>4. CASE finalizeRun(c, s)
  <2>1. task[<<c, s>>] = "finalize" /\ Task(c, s, "announce") /\ UNCHANGED <<row, faults>>
    BY <1>4 DEF finalizeRun
  <2>2. Counting' = Counting
    BY <2>1 DEF Counting, Task, TypeOK
  <2>3. <<c, s>> \in Finalizing /\ Finalizing' = Finalizing \ {<<c, s>>}
    BY <2>1 DEF Finalizing, Task, TypeOK
  <2>4. run'.pending = run.pending /\ run'.status = "COMPLETED"
    BY <1>4 DEF finalizeRun, TypeOK, RunRow
  <2>5. QED
    BY <1>k, <2>1, <2>2, <2>3, <2>4 DEF Finalizes
<1>5. CASE emitRunCompleted(c, s)
  <2>1. task[<<c, s>>] = "announce" /\ Task(c, s, "idle") /\ UNCHANGED row
    BY <1>5 DEF emitRunCompleted, Return
  <2>2. Counting' = Counting /\ UNCHANGED Finalizing
    BY <2>1 DEF Counting, Finalizing, Task, TypeOK
  <2>3. run'.pending = run.pending /\ run'.status = run.status
    BY <1>5 DEF emitRunCompleted, TypeOK, RunRow
  <2>4. faults' >= faults
    BY <1>5 DEF emitRunCompleted, Fault, TypeOK
  <2>5. QED
    BY <1>k, <2>1, <2>2, <2>3, <2>4 DEF Keeps, Accounts
<1>6. CASE crash(c, s)
  <2>1. Task(c, s, "idle") /\ UNCHANGED <<run, row>> /\ faults' = faults + 1
    BY <1>6 DEF crash, Fault
  <2>2. Counting' = Counting \ {<<c, s>>}
    BY <2>1, TaskCounts
  <2>3. Finalizing' \subseteq Finalizing
    BY <2>1 DEF Finalizing, Task, TypeOK
  <2>4. QED
    BY <1>k, <2>1, <2>2, <2>3 DEF Forgets
<1>7. QED
  BY <1>1, <1>2, <1>3, <1>4, <1>5, <1>6 DEF recordCaseCompletion

LEMMA ScoreAccounts ==
    ASSUME TypeOK,
           (\E d \in Cases : scoreEvalCase(d) \/ scoreMissingCaseInline(d)) \/ aggregateEvalRun
    PROVE  Keeps
<1>1. UNCHANGED <<task, faults>>
  BY DEF scoreEvalCase, scoreMissingCaseInline, aggregateEvalRun
<1>2. run'.pending = run.pending /\ run'.status = run.status
  BY DEF scoreEvalCase, scoreMissingCaseInline, aggregateEvalRun, TypeOK, RunRow
<1>3. \A c \in Cases : row'[c].recorded = row[c].recorded
  BY ScoreKeepsFlag
<1>4. QED
  BY <1>1, <1>2, <1>3, FlagsKept DEF Keeps, Accounts, Counting, Finalizing, TypeOK

LEMMA AccountStep ==
    ASSUME TypeOK, Ended, MessageHeld, Next
    PROVE  \/ \E s \in Starters : startEvalRun(s)
           \/ Keeps
           \/ \E c \in Cases, s \in Sources :
                 Flags(c, s) \/ Subtracts(c, s) \/ Finalizes(c, s) \/ Forgets(c, s)
<1>1. ASSUME NEW s \in Starters, StartStep(s), ~startEvalRun(s) PROVE Keeps
  BY <1>1, StartAccounts
<1>2. ASSUME NEW c \in Cases, NEW s \in Sources, recordCaseCompletion(c, s) \/ crash(c, s)
      PROVE  Flags(c, s) \/ Subtracts(c, s) \/ Finalizes(c, s) \/ Forgets(c, s) \/ Keeps
  BY <1>2, RecordAccounts
<1>3. QED
  BY <1>1, <1>2, EndAccounts, ScoreAccounts DEF Next

LEMMA CounterStep ==
    ASSUME TypeOK, TypeOK', Untouched, Ended, MessageHeld, CounterAccounts, Next
    PROVE  CounterAccounts'
<1> SUFFICES ASSUME run'.status # "ABSENT"
             PROVE  run'.pending - Cardinality(Unrecorded') - Cardinality(Counting') \in 0..faults'
  BY DEF CounterAccounts
<1>n. /\ run.pending \in Int /\ run'.pending \in Int /\ faults \in Nat /\ faults' \in Nat
  BY DEF TypeOK, RunRow
<1>c. /\ Unrecorded \in SUBSET Cases /\ Counting \in SUBSET (Cases \X Sources)
  BY DEF Unrecorded, Counting
<1>f. /\ IsFiniteSet(Unrecorded) /\ Cardinality(Unrecorded) \in Nat
      /\ IsFiniteSet(Counting) /\ Cardinality(Counting) \in Nat
  BY <1>c, SetsFinite
<1>1. ASSUME NEW s \in Starters, startEvalRun(s)
      PROVE  run'.pending - Cardinality(Unrecorded') - Cardinality(Counting') \in 0..faults'
  <2>1. /\ run.status = "ABSENT" /\ run'.pending = Cardinality(Cases)
        /\ UNCHANGED <<row, task, faults>>
    BY <1>1 DEF startEvalRun, RunAbsent, TypeOK, RunRow
  <2>2. \A c \in Cases : row'[c].recorded = FALSE
    BY <2>1 DEF Untouched, Ended, Terminal, TypeOK, CaseRow
  <2>3. Unrecorded' = Cases
    BY <2>2 DEF Unrecorded
  <2>4. \A t \in Cases \X Sources : task'[t] = "idle"
    BY <2>1 DEF Untouched
  <2>5. Counting' = {}
    BY <2>4 DEF Counting
  <2>6. Cardinality(Cases) \in Nat /\ Cardinality({}) = 0
    BY CasesAssumption, FS_CardinalityType, FS_EmptySet
  <2>7. QED
    BY <1>n, <2>1, <2>3, <2>5, <2>6
<1>2. CASE Keeps
  BY <1>2, <1>n, <1>f DEF Keeps, Accounts, CounterAccounts
<1>3. ASSUME NEW c \in Cases, NEW s \in Sources, Flags(c, s)
      PROVE  run'.pending - Cardinality(Unrecorded') - Cardinality(Counting') \in 0..faults'
  <2>1. Cardinality(Unrecorded') = Cardinality(Unrecorded) - 1
    BY <1>3, <1>f, FS_RemoveElement DEF Flags
  <2>2. Cardinality(Counting') = Cardinality(Counting) + 1
    BY <1>3, <1>f, FS_AddElement DEF Flags
  <2>3. QED
    BY <1>3, <1>n, <1>f, <2>1, <2>2 DEF Flags, CounterAccounts
<1>4. ASSUME NEW c \in Cases, NEW s \in Sources, Subtracts(c, s)
      PROVE  run'.pending - Cardinality(Unrecorded') - Cardinality(Counting') \in 0..faults'
  <2>1. Cardinality(Counting') = Cardinality(Counting) - 1
    BY <1>4, <1>f, FS_RemoveElement DEF Subtracts
  <2>2. QED
    BY <1>4, <1>n, <1>f, <2>1 DEF Subtracts, CounterAccounts
<1>5. ASSUME NEW c \in Cases, NEW s \in Sources, Finalizes(c, s), run.status # "ABSENT"
      PROVE  run'.pending - Cardinality(Unrecorded') - Cardinality(Counting') \in 0..faults'
  BY <1>5, <1>n, <1>f DEF Finalizes, CounterAccounts
<1>6. ASSUME NEW c \in Cases, NEW s \in Sources, Finalizes(c, s) PROVE run.status # "ABSENT"
  BY <1>6 DEF Finalizes, Finalizing, Untouched
<1>7. ASSUME NEW c \in Cases, NEW s \in Sources, Forgets(c, s)
      PROVE  run'.pending - Cardinality(Unrecorded') - Cardinality(Counting') \in 0..faults'
  <2>1. Cardinality(Counting') \in {Cardinality(Counting), Cardinality(Counting) - 1}
    BY <1>7, <1>f, FS_RemoveElement DEF Forgets
  <2>2. QED
    BY <1>7, <1>n, <1>f, <2>1 DEF Forgets, CounterAccounts
<1>8. QED
  BY <1>1, <1>2, <1>3, <1>4, <1>5, <1>6, <1>7, AccountStep

(***************************************************************************)
(* One handler completes the run                                           *)
(***************************************************************************)
LEMMA LastOneStep ==
    ASSUME TypeOK, TypeOK', Untouched, Ended, MessageHeld, CounterAccounts, LastOne, Next
    PROVE  LastOne'
<1>c. /\ Unrecorded' \in SUBSET Cases /\ Counting' \in SUBSET (Cases \X Sources)
  BY DEF Unrecorded, Counting
<1>f. /\ IsFiniteSet(Unrecorded') /\ Cardinality(Unrecorded') \in Nat
      /\ IsFiniteSet(Counting') /\ Cardinality(Counting') \in Nat
  BY <1>c, SetsFinite
<1>1. ASSUME NEW s \in Starters, startEvalRun(s) PROVE LastOne'
  <2>1. \A t \in Cases \X Sources : task'[t] = "idle"
    BY <1>1 DEF startEvalRun, RunAbsent, Untouched
  <2>2. Finalizing' = {} /\ run'.status = "PENDING"
    BY <1>1, <2>1 DEF Finalizing, startEvalRun, TypeOK, RunRow
  <2>3. QED
    BY <2>2 DEF LastOne
<1>2. CASE Keeps
  BY <1>2 DEF Keeps, Accounts, LastOne
<1>3. ASSUME NEW c \in Cases, NEW s \in Sources, Flags(c, s) PROVE LastOne'
  BY <1>3 DEF Flags, LastOne
<1>4. ASSUME NEW c \in Cases, NEW s \in Sources, Subtracts(c, s) PROVE LastOne'
  <2>1. Finalizing = {} /\ run.status # "COMPLETED"
    BY <1>4 DEF Subtracts, LastOne
  <2>2. ASSUME run'.pending <= 0 PROVE Unrecorded' = {} /\ Counting' = {}
    <3>1. run'.status # "ABSENT"
      BY <1>4 DEF Subtracts, Untouched, Counting
    <3>2. run'.pending - Cardinality(Unrecorded') - Cardinality(Counting') \in 0..faults'
      BY <3>1, CounterStep DEF CounterAccounts
    <3>3. run'.pending \in Int /\ faults' \in Nat
      BY DEF TypeOK, RunRow
    <3>4. Cardinality(Unrecorded') = 0 /\ Cardinality(Counting') = 0
      BY <1>f, <2>2, <3>2, <3>3
    <3>5. QED
      BY <1>f, <3>4, FS_EmptySet
  <2>3. QED
    BY <1>4, <2>1, <2>2 DEF Subtracts, LastOne
<1>5. ASSUME NEW c \in Cases, NEW s \in Sources, Finalizes(c, s) PROVE LastOne'
  BY <1>5 DEF Finalizes, LastOne
<1>6. ASSUME NEW c \in Cases, NEW s \in Sources, Forgets(c, s) PROVE LastOne'
  BY <1>6 DEF Forgets, LastOne
<1>7. QED
  BY <1>1, <1>2, <1>3, <1>4, <1>5, <1>6, AccountStep

(***************************************************************************)
(* A case is dispatched once                                               *)
(***************************************************************************)
LEMMA MessageHeldStep == ASSUME TypeOK, MessageHeld, DispatchedOnce, Next PROVE MessageHeld'
<1>k. ASSUME UNCHANGED <<queue, task>> PROVE MessageHeld'
  BY <1>k DEF MessageHeld
<1>w. \A c \in Conversations : <<c, "worker">> \in Cases \X Sources
  BY CasesAssumption DEF Sources
<1>1. ASSUME NEW s \in Starters, StartStep(s) PROVE MessageHeld'
  <2>1. CASE sendConversation(s)
    <3>1. start[s].case \in Conversations /\ queue[start[s].case].state = "none"
      BY <2>1 DEF sendConversation, DispatchedOnce, Sending, Fresh
    <3>2. task[<<start[s].case, "worker">>] = "idle" /\ UNCHANGED task
      BY <2>1, <3>1 DEF sendConversation, MessageHeld
    <3>3. \A c \in Conversations : c # start[s].case => queue'[c] = queue[c]
      BY <2>1 DEF sendConversation, TypeOK
    <3>4. QED
      BY <3>2, <3>3 DEF MessageHeld
  <2>2. CASE ~sendConversation(s)
    BY <1>1, <2>2, <1>k DEF StartStep, startEvalRun, writeCases, fanOutEvalRun, tryMarkDispatched,
                            dispatchExecutionCase, fanOutFails
  <2>3. QED
    BY <2>1, <2>2
<1>2. ASSUME NEW c \in Conversations, receive(c) \/ dispatchConversationCase(c) \/ workerTimesOut(c)
      PROVE  MessageHeld'
  <2>1. CASE receive(c)
    BY <2>1, <1>w DEF receive, Task, MessageHeld, TypeOK, Message
  <2>2. CASE dispatchConversationCase(c)
    BY <2>2, <1>w DEF dispatchConversationCase, Task, MessageHeld, TypeOK
  <2>3. CASE workerTimesOut(c)
    BY <2>3, <1>w DEF workerTimesOut, GiveBack, Task, MessageHeld, TypeOK, Message
  <2>4. QED
    BY <1>2, <2>1, <2>2, <2>3
<1>3. ASSUME NEW c \in Cases, NEW s \in Sources, recordCaseCompletion(c, s) \/ crash(c, s)
      PROVE  MessageHeld'
  <2>1. \/ \E pc \in Steps : task[<<c, s>>] # "idle" /\ Task(c, s, pc) /\ UNCHANGED queue
        \/ /\ Task(c, s, "idle")
           /\ \/ UNCHANGED queue
              \/ s = "worker" /\ \E state : queue' = [queue EXCEPT ![c].state = state]
    BY <1>3 DEF recordCaseCompletion, setCompletionRecorded, materializeArtifactIfCompleted, addPendingCases,
                finalizeRun, emitRunCompleted, crash, Return, GiveBack, Steps
  <2>2. QED
    BY <2>1, <1>w DEF MessageHeld, Task, TypeOK
<1>4. ASSUME NEW c \in Executions, handleWorkflowCompletion(c) PROVE MessageHeld'
  BY <1>4, <1>w DEF handleWorkflowCompletion, MessageHeld, Task, TypeOK
<1>5. ASSUME NEW c \in Cases, sweepTimeouts(c) PROVE MessageHeld'
  BY <1>5, <1>w DEF sweepTimeouts, MessageHeld, Task, TypeOK
<1>6. QED
  BY <1>1, <1>2, <1>3, <1>4, <1>5, <1>k
     DEF Next, executionEnds, listOverdue, deadlinePasses, scoreEvalCase, scoreMissingCaseInline, aggregateEvalRun

\* Only the start that is sending a case sends it.
LEMMA FreshStep ==
    ASSUME TypeOK, MessageHeld, Next, NEW c \in Cases, Fresh(c)
    PROVE  Fresh(c)' \/ \E s \in Starters : Sending(s) /\ start[s].case = c /\ ~Sending(s)'
<1>k. ASSUME UNCHANGED <<queue, target>> PROVE Fresh(c)'
  BY <1>k DEF Fresh
<1>1. ASSUME NEW s \in Starters, StartStep(s), ~Fresh(c)'
      PROVE  Sending(s) /\ start[s].case = c /\ ~Sending(s)'
  <2>1. CASE sendConversation(s)
    <3>1. Sending(s) /\ ~Sending(s)'
      BY <2>1 DEF sendConversation, Sending, Continue, NoCall, TypeOK
    <3>2. start[s].case = c
      BY <1>1, <2>1 DEF sendConversation, Fresh, TypeOK
    <3>3. QED
      BY <3>1, <3>2
  <2>2. CASE dispatchExecutionCase(s)
    <3>1. start[s].pc = "request" /\ target' = [target EXCEPT ![start[s].case] = "started"]
          /\ Continue(s, start[s].todo) /\ UNCHANGED queue
      BY <1>1, <2>2, <1>k DEF dispatchExecutionCase
    <3>2. Sending(s) /\ ~Sending(s)'
      BY <3>1 DEF Sending, Continue, NoCall, TypeOK
    <3>3. start[s].case = c
      BY <1>1, <3>1 DEF Fresh, TypeOK
    <3>4. QED
      BY <3>2, <3>3
  <2>3. QED
    BY <1>1, <1>k, <2>1, <2>2 DEF StartStep, startEvalRun, writeCases, fanOutEvalRun, tryMarkDispatched,
                                  fanOutFails
<1>2. ASSUME NEW d \in Conversations, receive(d) \/ dispatchConversationCase(d) \/ workerTimesOut(d)
      PROVE  Fresh(c)'
  <2>1. UNCHANGED target /\ (UNCHANGED queue \/ queue[d].state # "none")
    BY <1>2 DEF receive, dispatchConversationCase, workerTimesOut, MessageHeld
  <2>2. \A e \in Conversations : e # d => queue'[e] = queue[e]
    BY <1>2 DEF receive, dispatchConversationCase, workerTimesOut, GiveBack, TypeOK
  <2>3. QED
    BY <2>1, <2>2 DEF Fresh
<1>3. ASSUME NEW d \in Executions, executionEnds(d) \/ handleWorkflowCompletion(d) PROVE Fresh(c)'
  BY <1>3 DEF executionEnds, handleWorkflowCompletion, Fresh, TypeOK
<1>4. ASSUME NEW d \in Cases, NEW s \in Sources, recordCaseCompletion(d, s) \/ crash(d, s) PROVE Fresh(c)'
  <2>1. /\ UNCHANGED target
        /\ \/ UNCHANGED queue
           \/ /\ s = "worker" /\ task[<<d, s>>] # "idle"
              /\ \E state : queue' = [queue EXCEPT ![d].state = state]
    BY <1>4 DEF recordCaseCompletion, setCompletionRecorded, materializeArtifactIfCompleted, addPendingCases,
                finalizeRun, emitRunCompleted, crash, Return, GiveBack
  <2>2. QED
    BY <2>1 DEF Fresh, MessageHeld, TypeOK
<1>5. QED
  BY <1>1, <1>2, <1>3, <1>4, <1>k
     DEF Next, listOverdue, deadlinePasses, sweepTimeouts, scoreEvalCase, scoreMissingCaseInline, aggregateEvalRun

\* A start sends what it was sending, or has just marked as dispatched.
LEMMA SendingStep ==
    ASSUME TypeOK, Next, NEW s \in Starters, Sending(s)'
    PROVE  \/ Sending(s) /\ start'[s].case = start[s].case
           \/ /\ start'[s].case \in Cases /\ row[start'[s].case].status = "PENDING"
              /\ row'[start'[s].case].status = "DISPATCHED"
              /\ \A z \in Starters : z # s => start'[z] = start[z]
<1>1. ASSUME NEW z \in Starters, StartStep(z), z # s PROVE start'[s] = start[s]
  BY <1>1 DEF StartStep, startEvalRun, writeCases, fanOutEvalRun, tryMarkDispatched, sendConversation,
              dispatchExecutionCase, fanOutFails, Call, Continue, TypeOK
<1>2. CASE tryMarkDispatched(s)
  <2>1. PICK c \in start[s].todo :
          LET rest == start[s].todo \ {c}
          IN IF row[c].status = "PENDING"
             THEN /\ SetStatus(c, DispatchedStatus)
                  /\ start' = [start EXCEPT ![s] = [pc |-> "send", todo |-> rest, case |-> c]]
             ELSE Continue(s, rest) /\ UNCHANGED row
    BY <1>2 DEF tryMarkDispatched
  <2>2. c \in Cases
    BY DEF TypeOK, StartCall
  <2>3. row[c].status = "PENDING"
    BY <2>1 DEF Sending, Continue, NoCall, TypeOK
  <2>4. start'[s].case = c /\ \A z \in Starters : z # s => start'[z] = start[z]
    BY <2>1, <2>3 DEF TypeOK
  <2>5. row'[c].status = "DISPATCHED"
    BY <2>1, <2>2, <2>3 DEF SetStatus, DispatchedStatus, TypeOK, CaseRow
  <2>6. QED
    BY <2>2, <2>3, <2>4, <2>5
<1>3. CASE dispatchExecutionCase(s)
  BY <1>3 DEF dispatchExecutionCase, Sending, Call, Continue, NoCall, TypeOK, StartCall
<1>4. CASE startEvalRun(s) \/ writeCases(s) \/ fanOutEvalRun(s) \/ sendConversation(s) \/ fanOutFails(s)
  BY <1>4 DEF startEvalRun, writeCases, fanOutEvalRun, sendConversation, fanOutFails, Sending, Call, Continue,
              NoCall, TypeOK, StartCall
<1>5. CASE start'[s] = start[s]
  BY <1>5 DEF Sending
<1>6. QED
  BY <1>1, <1>2, <1>3, <1>4, <1>5
     DEF Next, StartStep, receive, dispatchConversationCase, workerTimesOut, executionEnds, handleWorkflowCompletion,
         listOverdue, deadlinePasses, sweepTimeouts, recordCaseCompletion, setCompletionRecorded,
         materializeArtifactIfCompleted, addPendingCases, finalizeRun, emitRunCompleted, crash, scoreEvalCase,
         scoreMissingCaseInline, aggregateEvalRun

LEMMA DispatchedOnceStep == ASSUME TypeOK, MessageHeld, DispatchedOnce, Next PROVE DispatchedOnce'
<1>1. ASSUME NEW c \in Cases, row'[c].status \in Undispatched PROVE row[c].status \in Undispatched
  BY <1>1, AllMove DEF Moves, StatusMoves, Undispatched, Terminal
<1>2. ASSUME NEW c \in Cases, row'[c].status \in Undispatched PROVE Fresh(c)'
  BY <1>1, <1>2, FreshStep DEF DispatchedOnce
<1>3. ASSUME NEW s \in Starters, Sending(s)'
      PROVE  /\ start'[s].case \in Cases /\ Fresh(start'[s].case)
             /\ row'[start'[s].case].status \notin Undispatched
  BY <1>1, <1>3, SendingStep DEF DispatchedOnce, Undispatched
<1>4. ASSUME NEW s \in Starters, NEW z \in Starters, Sending(s)', Sending(z), start'[s].case = start[z].case
      PROVE  s = z
  <2>1. CASE Sending(s) /\ start'[s].case = start[s].case
    BY <1>4, <2>1 DEF DispatchedOnce
  <2>2. CASE row[start'[s].case].status = "PENDING"
    BY <1>4, <2>2 DEF DispatchedOnce, Undispatched
  <2>3. QED
    BY <1>4, <2>1, <2>2, SendingStep
<1>5. ASSUME NEW s \in Starters, Sending(s)' PROVE Fresh(start[s].case)'
  <2>1. PICK c \in Cases : c = start'[s].case
    BY <1>3, <1>5
  <2>2. Fresh(c)
    BY <1>3, <1>5, <2>1
  <2>3. Fresh(c)'
    BY <1>4, <1>5, <2>1, <2>2, FreshStep
  <2>4. QED
    BY <2>1, <2>3 DEF Fresh
<1>6. ASSUME NEW s \in Starters, NEW z \in Starters, Sending(s)', Sending(z)', start'[s].case = start'[z].case
      PROVE  s = z
  <2>1. CASE Sending(z) /\ start'[z].case = start[z].case
    BY <1>4, <1>6, <2>1
  <2>2. CASE \A y \in Starters : y # z => start'[y] = start[y]
    <3>1. CASE s # z
      <4>1. Sending(s) /\ start[s].case = start'[z].case
        BY <1>6, <2>2, <3>1 DEF Sending
      <4>2. QED
        BY <1>4, <1>6, <4>1
    <3>2. QED
      BY <3>1
  <2>3. QED
    BY <1>6, <2>1, <2>2, SendingStep
<1>7. QED
  BY <1>2, <1>3, <1>5, <1>6 DEF DispatchedOnce

(***************************************************************************)
(* An outcome is the case's own                                            *)
(***************************************************************************)
LEMMA TargetStep ==
    ASSUME TypeOK, DispatchedOnce, Next, NEW c \in Executions, target[c] \in {"COMPLETED", "FAILED"}
    PROVE  target'[c] = target[c]
<1>1. ASSUME NEW s \in Starters, dispatchExecutionCase(s) PROVE target'[c] = target[c]
  <2>1. start[s].pc = "request" => Fresh(start[s].case)
    BY DEF DispatchedOnce, Sending
  <2>2. QED
    BY <1>1, <2>1 DEF dispatchExecutionCase, Fresh, TypeOK
<1>2. ASSUME NEW d \in Executions, executionEnds(d) PROVE target'[c] = target[c]
  BY <1>2 DEF executionEnds, TypeOK
<1>3. QED
  BY <1>1, <1>2
     DEF Next, StartStep, startEvalRun, writeCases, fanOutEvalRun, tryMarkDispatched, sendConversation, fanOutFails,
         receive, dispatchConversationCase, workerTimesOut, handleWorkflowCompletion, listOverdue, deadlinePasses,
         sweepTimeouts, recordCaseCompletion, setCompletionRecorded, materializeArtifactIfCompleted, addPendingCases,
         finalizeRun, emitRunCompleted, crash, scoreEvalCase, scoreMissingCaseInline, aggregateEvalRun

\* Where an execution's status comes from.
LEMMA StatusStep ==
    ASSUME TypeOK, sweep \subseteq overdue, Next, NEW c \in Executions, row'[c].status \in Terminal
    PROVE  \/ row'[c].status = row[c].status
           \/ row'[c].status = target[c] /\ target[c] \in {"COMPLETED", "FAILED"}
           \/ row'[c].status = "TIMEOUT" /\ c \in overdue
<1>0. c \in Cases
  BY DEF Executions
<1>1. ASSUME NEW s \in Starters, StartStep(s) PROVE row'[c].status = row[c].status
  <2>1. CASE writeCases(s)
    BY <1>0, <2>1 DEF writeCases, PendingRow, Terminal
  <2>2. CASE tryMarkDispatched(s)
    BY <1>0, <2>2 DEF tryMarkDispatched, SetStatus, DispatchedStatus, Terminal, TypeOK, CaseRow
  <2>3. CASE dispatchExecutionCase(s)
    BY <1>0, <2>3 DEF dispatchExecutionCase, TypeOK, CaseRow
  <2>4. QED
    BY <1>1, <2>1, <2>2, <2>3 DEF StartStep, startEvalRun, fanOutEvalRun, sendConversation, fanOutFails
<1>2. ASSUME NEW d \in Conversations, dispatchConversationCase(d) PROVE row'[c].status = row[c].status
  BY <1>0, <1>2 DEF dispatchConversationCase, SetStatus, Executions, TypeOK
<1>3. ASSUME NEW d \in Executions, handleWorkflowCompletion(d)
      PROVE  \/ row'[c].status = row[c].status
             \/ row'[c].status = target[c] /\ target[c] \in {"COMPLETED", "FAILED"}
  BY <1>0, <1>3 DEF handleWorkflowCompletion, Matches, SetStatus, TypeOK, CaseRow
<1>4. ASSUME NEW d \in Cases, sweepTimeouts(d)
      PROVE  row'[c].status = row[c].status \/ (row'[c].status = "TIMEOUT" /\ c \in overdue)
  BY <1>0, <1>4 DEF sweepTimeouts, SetStatus, TypeOK, CaseRow
<1>5. ASSUME NEW d \in Cases, NEW s \in Sources, recordCaseCompletion(d, s) \/ crash(d, s)
      PROVE  row'[c].status = row[c].status
  <2>1. CASE setCompletionRecorded(d, s)
    BY <1>0, <2>1 DEF setCompletionRecorded, TypeOK, CaseRow
  <2>2. CASE materializeArtifactIfCompleted(d, s)
    BY <1>0, <2>2 DEF materializeArtifactIfCompleted, TypeOK, CaseRow
  <2>3. QED
    BY <1>5, <2>1, <2>2 DEF recordCaseCompletion, addPendingCases, finalizeRun, emitRunCompleted, crash
<1>6. ASSUME (\E d \in Cases : scoreEvalCase(d) \/ scoreMissingCaseInline(d)) \/ aggregateEvalRun
      PROVE  row'[c].status = row[c].status
  BY <1>0, <1>6 DEF scoreEvalCase, scoreMissingCaseInline, aggregateEvalRun, TypeOK, CaseRow
<1>7. QED
  BY <1>1, <1>2, <1>3, <1>4, <1>5, <1>6
     DEF Next, receive, workerTimesOut, executionEnds, listOverdue, deadlinePasses

LEMMA OverdueStep == ASSUME TypeOK, sweep \subseteq overdue, Next
                     PROVE  overdue \subseteq overdue' /\ sweep' \subseteq overdue'
<1>1. CASE UNCHANGED <<overdue, sweep>>
  BY <1>1
<1>2. ASSUME NEW c \in Cases, NEW s \in Sources, crash(c, s)
      PROVE  overdue \subseteq overdue' /\ sweep' \subseteq overdue'
  BY <1>2 DEF crash
<1>3. CASE listOverdue
  BY <1>3 DEF listOverdue, Sweepable
<1>4. ASSUME NEW c \in Cases, deadlinePasses(c) \/ sweepTimeouts(c)
      PROVE  overdue \subseteq overdue' /\ sweep' \subseteq overdue'
  BY <1>4 DEF deadlinePasses, sweepTimeouts
<1>5. QED
  BY <1>1, <1>2, <1>3, <1>4
     DEF Next, StartStep, startEvalRun, writeCases, fanOutEvalRun, tryMarkDispatched, sendConversation, fanOutFails,
         dispatchExecutionCase, receive, dispatchConversationCase, workerTimesOut, executionEnds,
         handleWorkflowCompletion, recordCaseCompletion, setCompletionRecorded, materializeArtifactIfCompleted,
         addPendingCases, finalizeRun, emitRunCompleted, scoreEvalCase, scoreMissingCaseInline, aggregateEvalRun

LEMMA OutcomeStep ==
    ASSUME TypeOK, DispatchedOnce, sweep \subseteq overdue, OutcomeIsItsOwn, Next
    PROVE  OutcomeIsItsOwn'
<1>1. ASSUME NEW c \in Executions, row'[c].status \in {"COMPLETED", "FAILED"} PROVE target'[c] = row'[c].status
  BY <1>1, StatusStep, TargetStep DEF OutcomeIsItsOwn, Terminal
<1>2. ASSUME NEW c \in Executions, row'[c].status = "TIMEOUT" PROVE c \in overdue'
  BY <1>2, StatusStep, OverdueStep DEF OutcomeIsItsOwn, Terminal
<1>3. QED
  BY <1>1, <1>2 DEF OutcomeIsItsOwn

(***************************************************************************)
(* The theorems                                                            *)
(***************************************************************************)
LEMMA InitInv == Init => Inv
<1> SUFFICES ASSUME Init PROVE Inv
  OBVIOUS
<1>1. \A c \in Cases : row[c].status = "ABSENT" /\ row[c].linked = FALSE /\ row[c].recorded = FALSE
  BY DEF Init, NoRow, PendingRow
<1>2. run.status = "ABSENT" /\ \A t \in Cases \X Sources : task[t] = "idle"
  BY DEF Init
<1>3. Untouched
  BY <1>1 DEF Init, Untouched, NoCall
<1>4. Ended
  BY <1>1, <1>2 DEF Ended
<1>5. CounterAccounts /\ LastOne
  BY <1>2 DEF CounterAccounts, LastOne, Finalizing
<1>6. DispatchedOnce
  BY DEF Init, DispatchedOnce, Fresh, Sending, NoCall
<1>7. MessageHeld /\ sweep \subseteq overdue
  BY CasesAssumption DEF Init, MessageHeld, Sources
<1>8. OutcomeIsItsOwn
  BY <1>1 DEF OutcomeIsItsOwn, Executions
<1>9. QED
  BY <1>3, <1>4, <1>5, <1>6, <1>7, <1>8 DEF Inv

LEMMA EvalRunInvariants == Spec => []Inv
<1>1. TypeOK /\ TypeOK' /\ Inv /\ [Next]_vars => Inv'
  <2> SUFFICES ASSUME TypeOK, TypeOK', Inv, [Next]_vars PROVE Inv'
    OBVIOUS
  <2>1. CASE UNCHANGED vars
    BY <2>1 DEF vars, Inv, Untouched, Ended, CounterAccounts, Unrecorded, Counting, LastOne, Finalizing,
                DispatchedOnce, Sending, Fresh, MessageHeld, OutcomeIsItsOwn
  <2>2. CASE Next
    BY <2>2, UntouchedStep, EndedStep, CounterStep, LastOneStep, DispatchedOnceStep, MessageHeldStep, OverdueStep,
       OutcomeStep DEF Inv
  <2>3. QED
    BY <2>1, <2>2
<1>2. QED
  BY <1>1, InitInv, EvalRunTypeCorrect, PTL DEF Spec

\* However many workers, events and sweeps reach a case, and whatever fails, the run's
\* counter is never ahead of its cases and lags by at most one for each fault.
THEOREM CounterAccountsHolds == Spec => []CounterAccounts
<1>1. Inv => CounterAccounts
  BY DEF Inv
<1>2. QED
  BY <1>1, EvalRunInvariants, PTL

\* A run is completed by one handler, after every case ended and was recorded.
THEOREM CompletedOnceHolds == Spec => []CompletedOnce
<1>1. TypeOK /\ Inv => CompletedOnce
  <2> SUFFICES ASSUME TypeOK, Inv PROVE CompletedOnce
    OBVIOUS
  <2>1. run.status = "COMPLETED" => \A c \in Cases : row[c].recorded /\ row[c].status \in Terminal
    BY DEF Inv, LastOne, Unrecorded, Ended
  <2>2. Cardinality({}) = 0 /\ \A t : Cardinality({t}) = 1
    BY FS_EmptySet, FS_Singleton
  <2>3. Finalizing = {} \/ \E t \in Finalizing : Finalizing = {t}
    BY DEF Inv, LastOne
  <2>4. Cardinality(Finalizing) + (IF run.status = "COMPLETED" THEN 1 ELSE 0) <= 1
    <3>1. CASE Finalizing = {}
      BY <2>2, <3>1
    <3>2. CASE run.status # "COMPLETED" /\ \E t \in Finalizing : Finalizing = {t}
      <4>1. PICK t \in Finalizing : Finalizing = {t}
        BY <3>2
      <4>2. Cardinality(Finalizing) = 1
        BY <2>2, <4>1
      <4>3. QED
        BY <3>2, <4>2
    <3>3. QED
      BY <2>3, <3>1, <3>2 DEF Inv, LastOne
  <2>5. QED
    BY <2>1, <2>4 DEF CompletedOnce, Finalizing
<1>2. QED
  BY <1>1, EvalRunInvariants, EvalRunTypeCorrect, PTL

\* The outcome of an execution case is that of its own execution, and a timeout was due.
THEOREM OutcomeIsItsOwnHolds == Spec => []OutcomeIsItsOwn
<1>1. Inv => OutcomeIsItsOwn
  BY DEF Inv
<1>2. QED
  BY <1>1, EvalRunInvariants, PTL
=============================================================================
