-------------------------- MODULE ToolLedgerProofs --------------------------
(***************************************************************************)
(* Proofs about ToolLedger, for every number of attempts, of dispatches of *)
(* the node and of removals by the TTL: typing first, then the safety      *)
(* invariants. A step of an attempt has one of five effects on the ledger  *)
(* (AttemptEffect); the invariants follow from the effects without another *)
(* look at the actions.                                                    *)
(***************************************************************************)
EXTENDS ToolLedger, TLAPS

(***************************************************************************)
(* Typing                                                                  *)
(***************************************************************************)
\* What an attempt may become.
LEMMA CallTypes ==
  ASSUME TypeOK, NEW c \in Calls
  PROVE  /\ \A p \in Steps : Goto(c, p) => call' \in [Calls -> Call]
         /\ \A a \in Answers, r \in Calls \cup {None} :
              Answer(c, a, r) => call' \in [Calls -> Call]
         /\ \A n \in Nat :
              call' = [call EXCEPT ![c].pc = "run", ![c].created = n]
                => call' \in [Calls -> Call]
         /\ \A n \in Nat :
              call' = [call EXCEPT ![c].pc = "reclaim", ![c].seen = n]
                => call' \in [Calls -> Call]
<1>1. call \in [Calls -> Call] /\ call[c] \in Call
  BY DEF TypeOK
<1>2. ASSUME NEW p \in Steps, Goto(c, p) PROVE call' \in [Calls -> Call]
  BY <1>1, <1>2 DEF Goto, Call
<1>3. ASSUME NEW a \in Answers, NEW r \in Calls \cup {None}, Answer(c, a, r)
      PROVE  call' \in [Calls -> Call]
  BY <1>1, <1>3 DEF Answer, Call, Steps
<1>4. ASSUME NEW n \in Nat, call' = [call EXCEPT ![c].pc = "run", ![c].created = n]
      PROVE  call' \in [Calls -> Call]
  BY <1>1, <1>4 DEF Call, Steps, Holding
<1>5. ASSUME NEW n \in Nat, call' = [call EXCEPT ![c].pc = "reclaim", ![c].seen = n]
      PROVE  call' \in [Calls -> Call]
  BY <1>1, <1>5 DEF Call, Steps
<1>6. QED
  BY <1>2, <1>3, <1>4, <1>5

LEMMA GetType == ASSUME TypeOK, NEW s \in Get
                 PROVE  /\ s \in Row /\ s.status \in Status /\ s.created \in Nat
                        /\ s.result \in Calls \cup {None}
  BY DEF TypeOK, Get, Row

LEMMA WonType == ASSUME TypeOK, NEW c \in Calls, Won(c) PROVE TypeOK'
<1>1. clock + 1 \in Nat /\ Reserved \in Row
  BY DEF TypeOK, Reserved, Row, Status
<1>2. call' \in [Calls -> Call]
  BY <1>1, CallTypes DEF Won
<1>3. QED
  BY <1>1, <1>2 DEF Won, TypeOK, history

\* A step of an attempt that writes nothing but its own state.
LEMMA OnlyCallType == ASSUME TypeOK, OnlyCall, call' \in [Calls -> Call] PROVE TypeOK'
  BY DEF TypeOK, OnlyCall, history

LEMMA AnswerOfType ==
  ASSUME TypeOK, NEW c \in Calls, AnswerOf(c) PROVE call' \in [Calls -> Call]
<1>1. {"result", "failure", "retry"} \subseteq Answers
  BY DEF Answers
<1>2. QED
  BY <1>1, CallTypes DEF AnswerOf

LEMMA TypeStep == TypeOK /\ [Next]_vars => TypeOK'
<1> SUFFICES ASSUME TypeOK, [Next]_vars PROVE TypeOK'
  OBVIOUS
<1> USE DEF history
<1> DEFINE Free == {"result", "failure", "retry", "refused", "fenced", "dead"}
<1>a. Free \subseteq Answers /\ {"poll", "resolve", "rereserve", "run"} \subseteq Steps
      /\ None \in Calls \cup {None}
  BY DEF Answers, Steps, Holding
<1> HIDE DEF Free
<1>b. {"result", "failure", "retry", "refused", "fenced", "dead"} = Free
  BY DEF Free
<1>1. ASSUME NEW c \in Calls, _on_before_tool_call(c) PROVE TypeOK'
  <2>1. PICK g \in 0 .. generation :
          call' = [call EXCEPT ![c].pc = "reserve", ![c].gen = g,
                               ![c].late = (g # 0 /\ g # generation)]
    BY <1>1 DEF _on_before_tool_call
  <2>2. g \in Nat /\ call[c] \in Call /\ (g # 0 /\ g # generation) \in BOOLEAN
    BY DEF TypeOK
  <2>3. [call[c] EXCEPT !.pc = "reserve", !.gen = g,
                        !.late = (g # 0 /\ g # generation)] \in Call
    BY <2>2 DEF Call, Steps
  <2>4. call' \in [Calls -> Call]
    BY <2>1, <2>3 DEF TypeOK
  <2>5. QED
    BY <1>1, <2>4, OnlyCallType DEF _on_before_tool_call
<1>2. ASSUME NEW c \in Calls, reserve(c) PROVE TypeOK'
  <2>1. CASE Won(c)
    BY <2>1, WonType
  <2>2. CASE RefusedReserve(c) /\ OnlyCall
    <3>1. call' \in [Calls -> Call]
      BY <2>2, <1>a, <1>b, CallTypes DEF RefusedReserve
    <3>2. QED
      BY <2>2, <3>1, OnlyCallType
  <2>3. QED
    BY <1>2, <2>1, <2>2 DEF reserve
<1>3. ASSUME NEW c \in Calls, _resolve_existing(c) PROVE TypeOK'
  <2>1. PICK s \in Get :
          \/ Goto(c, "poll") \/ Goto(c, "rereserve")
          \/ Answer(c, "result", s.result) \/ Answer(c, "failure", None)
          \/ call' = [call EXCEPT ![c].pc = "reclaim", ![c].seen = s.created]
    BY <1>3 DEF _resolve_existing
  <2>2. call' \in [Calls -> Call]
    BY <2>1, <1>a, <1>b, CallTypes, GetType
  <2>3. QED
    BY <1>3, <2>2, OnlyCallType DEF _resolve_existing
<1>4. ASSUME NEW c \in Calls, _reclaim_released(c) PROVE TypeOK'
  BY <1>4, <1>a, CallTypes, WonType, OnlyCallType DEF _reclaim_released
<1>5. ASSUME NEW c \in Calls, _reclaim_stale(c) PROVE TypeOK'
  BY <1>5, <1>a, CallTypes, WonType, OnlyCallType DEF _reclaim_stale
<1>6. ASSUME NEW c \in Calls, reserve_error(c) PROVE TypeOK'
  <2>1. call' \in [Calls -> Call]
    BY <1>6, <1>a, <1>b, CallTypes DEF reserve_error
  <2>2. row' \in Row /\ clock' \in Nat
    BY <1>6 DEF reserve_error, Reserved, Row, Status, TypeOK
  <2>3. QED
    BY <1>6, <2>1, <2>2 DEF reserve_error, TypeOK
<1>7. ASSUME NEW c \in Calls, wait_for_terminal(c) PROVE TypeOK'
  <2>1. PICK s \in Get :
          \/ Answer(c, "result", s.result) \/ Answer(c, "failure", None)
          \/ Answer(c, "retry", None)
    BY <1>7 DEF wait_for_terminal
  <2>2. call' \in [Calls -> Call]
    BY <2>1, <1>a, <1>b, CallTypes, GetType
  <2>3. QED
    BY <1>7, <2>2, OnlyCallType DEF wait_for_terminal
<1>8. ASSUME NEW c \in Calls, run_tool(c) PROVE TypeOK'
  <2>1. PICK o \in Outcomes :
          /\ call' = [call EXCEPT ![c].pc = "record", ![c].outcome = o[1],
                                  ![c].effect = o[2]]
          /\ applied' = applied + o[2]
    BY <1>8 DEF run_tool
  <2>2. o[1] \in Terminal \cup {"released"} /\ o[2] \in 0 .. 1
    BY DEF Outcomes, Terminal
  <2> DEFINE k == [call[c] EXCEPT !.pc = "record", !.outcome = o[1], !.effect = o[2]]
  <2>3. call' \in [Calls -> Call]
    <3>1. k \in Call
      BY <2>2 DEF TypeOK, Call, Steps, Holding
    <3>2. call' = [call EXCEPT ![c] = k]
      BY <2>1 DEF TypeOK
    <3>3. QED
      BY <3>1, <3>2 DEF TypeOK
  <2>4. QED
    BY <1>8, <2>1, <2>2, <2>3 DEF run_tool, TypeOK
<1>9. ASSUME NEW c \in Calls, _finalize(c) PROVE TypeOK'
  <2>1. call' \in [Calls -> Call]
    BY <1>9, AnswerOfType DEF _finalize
  <2>2. row' \in Row
    <3>1. call[c].outcome \in Status
      BY DEF TypeOK, Call, Status, Terminal
    <3>2. QED
      BY <1>9, <3>1 DEF _finalize, TypeOK, Row
  <2>3. QED
    BY <1>9, <2>1, <2>2 DEF _finalize, TypeOK
<1>10. ASSUME NEW c \in Calls, finalize_error(c) PROVE TypeOK'
  <2>1. call' \in [Calls -> Call]
    BY <1>10, AnswerOfType DEF finalize_error
  <2>2. lost' \in Nat
    BY <1>10 DEF finalize_error, TypeOK, Call
  <2>3. QED
    BY <1>10, <2>1, <2>2 DEF finalize_error, TypeOK
<1>11. ASSUME NEW c \in Calls, crash(c) PROVE TypeOK'
  <2>1. call' \in [Calls -> Call]
    BY <1>11, <1>a, <1>b, CallTypes DEF crash
  <2>2. lost' \in Nat
    BY <1>11 DEF crash, TypeOK, Call
  <2>3. QED
    BY <1>11, <2>1, <2>2 DEF crash, TypeOK
<1>12. CASE redispatch
  BY <1>12 DEF redispatch, TypeOK
<1>13. CASE lease_runs_out
  BY <1>13 DEF lease_runs_out, TypeOK
<1>14. CASE ttl_expiry
  BY <1>14 DEF ttl_expiry, TypeOK, Absent, Row, Status
<1>15. CASE replicate
  BY <1>15 DEF replicate, TypeOK
<1>16. CASE UNCHANGED vars
  BY <1>16 DEF vars, TypeOK
<1>17. QED
  BY <1>1, <1>2, <1>3, <1>4, <1>5, <1>6, <1>7, <1>8, <1>9, <1>10, <1>11, <1>12,
     <1>13, <1>14, <1>15, <1>16 DEF Next, Attempt

\* Every variable of the ledger keeps its shape, whatever interleaving of reservations,
\* reclaims, recordings and failures.
THEOREM LedgerTypeCorrect == Spec => []TypeOK
<1>1. Init => TypeOK
  BY DEF Init, TypeOK, Absent, Row, Status, Call, Steps, Answers, None
<1>2. QED
  BY <1>1, TypeStep, PTL DEF Spec

Inv ==
  /\ Ranked /\ HolderOwns /\ OneHolder /\ EffectsRecorded
  /\ Accounted /\ LateIsFenced /\ ResultStands

(***************************************************************************)
(* The effects a step of an attempt may have                               *)
(***************************************************************************)
OthersKept(c) == \A d \in Calls : d # c => call'[d] = call[d]

\* What was dispatched before stays, unless this is where the attempt begins.
DispatchKept(c) ==
  \/ /\ call[c].pc = "idle" /\ call'[c].pc = "reserve"
     /\ call'[c].late => call'[c].gen # 0 /\ call'[c].gen < generation
  \/ /\ call'[c].gen = call[c].gen /\ call'[c].late = call[c].late
     /\ call[c].pc = "reserve" /\ call[c].gen # 0 /\ call[c].gen # generation
          => call'[c].pc = "done"

\* It moves on, or ends, without holding the reservation.
Moves(c) ==
  /\ OnlyCall
  /\ call[c].pc \notin Holding \cup {"done"} /\ call'[c].pc \notin Holding
  /\ call'[c].effect = call[c].effect
  /\ call'[c].seen <= horizon
  /\ DispatchKept(c)
  /\ call'[c].answer = "result" =>
       \/ call[c].answer = "result" /\ call'[c].result = call[c].result
       \/ \E s \in Get : s.status = "completed" /\ call'[c].result = s.result

\* It writes a reservation: it goes on to the tool, or never hears of it.
Takes(c) ==
  /\ row' = Reserved /\ clock' = clock + 1
  /\ UNCHANGED <<replica, generation, horizon, history>>
  /\ \/ call[c].pc = "reserve" /\ FenceHolds(c) /\ row.status = "absent"
     \/ call[c].pc = "rereserve" /\ row.status = "released"
     \/ call[c].pc = "reclaim" /\ row.status = "in_flight" /\ row.created = call[c].seen
  /\ \/ call'[c].pc = "run" /\ call'[c].created = clock + 1 /\ call'[c].answer = call[c].answer
     \/ call'[c].pc = "done" /\ call'[c].answer = "refused"
  /\ call'[c].result = call[c].result \/ call'[c].answer = "refused"
  /\ call'[c].effect = call[c].effect /\ call'[c].seen = call[c].seen
  /\ call'[c].gen = call[c].gen /\ call'[c].late = call[c].late

HeldBefore(c) ==
  /\ call[c].pc \in Holding
  /\ call'[c].seen = call[c].seen /\ call'[c].created = call[c].created
  /\ call'[c].gen = call[c].gen /\ call'[c].late = call[c].late
  /\ UNCHANGED <<replica, generation, clock, horizon, expired>>

Runs(c) ==
  /\ HeldBefore(c)
  /\ call[c].pc = "run" /\ call'[c].pc = "record"
  /\ <<call'[c].outcome, call'[c].effect>> \in Outcomes
  /\ applied' = applied + call'[c].effect
  /\ call'[c].answer = call[c].answer /\ call'[c].result = call[c].result
  /\ UNCHANGED <<row, lost>>

Records(c) ==
  /\ HeldBefore(c)
  /\ call[c].pc = "record" /\ call'[c].pc = "done"
  /\ call'[c].effect = call[c].effect
  /\ \/ /\ row.status = "in_flight"
        /\ row' = [row EXCEPT !.status = call[c].outcome,
                   !.result = IF call[c].outcome = "completed" THEN c ELSE None]
     \/ row.status # "in_flight" /\ UNCHANGED row
  /\ call'[c].answer = "result" <=> call[c].outcome = "completed"
  /\ call'[c].answer = "result" => call'[c].result = c
  /\ UNCHANGED <<applied, lost>>

GivesUp(c) ==
  /\ HeldBefore(c)
  /\ call'[c].pc = "done"
  /\ call'[c].effect = call[c].effect
  /\ lost' = lost + call[c].effect
  /\ call'[c].answer = "result" =>
       call[c].pc = "record" /\ call[c].outcome = "completed" /\ call'[c].result = c
  /\ UNCHANGED <<row, applied>>

LEMMA AnswerEffect ==
  ASSUME TypeOK, NEW c \in Calls, NEW a, NEW r, Answer(c, a, r)
  PROVE  /\ OthersKept(c)
         /\ call'[c].pc = "done" /\ call'[c].answer = a /\ call'[c].result = r
         /\ call'[c].effect = call[c].effect /\ call'[c].seen = call[c].seen
         /\ call'[c].created = call[c].created
         /\ call'[c].gen = call[c].gen /\ call'[c].late = call[c].late
  BY DEF Answer, OthersKept, TypeOK, Call

LEMMA GotoEffect ==
  ASSUME TypeOK, NEW c \in Calls, NEW p, Goto(c, p)
  PROVE  /\ OthersKept(c)
         /\ call'[c].pc = p /\ call'[c].answer = call[c].answer
         /\ call'[c].result = call[c].result
         /\ call'[c].effect = call[c].effect /\ call'[c].seen = call[c].seen
         /\ call'[c].gen = call[c].gen /\ call'[c].late = call[c].late
  BY DEF Goto, OthersKept, TypeOK, Call

LEMMA WonEffect ==
  ASSUME TypeOK, NEW c \in Calls, Won(c)
  PROVE  /\ OthersKept(c)
         /\ row' = Reserved /\ clock' = clock + 1
         /\ UNCHANGED <<replica, generation, horizon, history>>
         /\ call'[c].pc = "run" /\ call'[c].created = clock + 1
         /\ call'[c].answer = call[c].answer /\ call'[c].result = call[c].result
         /\ call'[c].effect = call[c].effect /\ call'[c].seen = call[c].seen
         /\ call'[c].gen = call[c].gen /\ call'[c].late = call[c].late
  BY DEF Won, OthersKept, TypeOK, Call

LEMMA AnswerOfEffect ==
  ASSUME TypeOK, NEW c \in Calls, AnswerOf(c)
  PROVE  /\ OthersKept(c)
         /\ call'[c].pc = "done"
         /\ call'[c].answer = "result" <=> call[c].outcome = "completed"
         /\ call'[c].answer = "result" => call'[c].result = c
         /\ call'[c].effect = call[c].effect /\ call'[c].seen = call[c].seen
         /\ call'[c].created = call[c].created
         /\ call'[c].gen = call[c].gen /\ call'[c].late = call[c].late
<1>1. CASE call[c].outcome = "completed"
  <2>1. Answer(c, "result", c)
    BY <1>1 DEF AnswerOf
  <2>2. QED
    BY <1>1, <2>1, AnswerEffect
<1>2. CASE call[c].outcome = "failed"
  <2>1. Answer(c, "failure", None)
    BY <1>2 DEF AnswerOf
  <2>2. QED
    BY <1>2, <2>1, AnswerEffect
<1>3. CASE call[c].outcome \notin {"completed", "failed"}
  <2>1. Answer(c, "retry", None)
    BY <1>3 DEF AnswerOf
  <2>2. QED
    BY <1>3, <2>1, AnswerEffect
<1>4. QED
  BY <1>1, <1>2, <1>3

LEMMA AttemptEffect ==
  ASSUME TypeOK, Inv, NEW c \in Calls, Attempt(c)
  PROVE  /\ OthersKept(c)
         /\ Moves(c) \/ Takes(c) \/ Runs(c) \/ Records(c) \/ GivesUp(c)
<1> USE DEF Holding
<1>a. call[c].seen <= horizon /\ horizon \in Nat /\ call[c].gen \in Nat
      /\ generation \in Nat /\ call[c].effect \in 0 .. 1 /\ lost \in Nat
  BY DEF Inv, Ranked, TypeOK, Call
<1>b. call[c].pc \notin {"record", "done"} => call[c].effect = 0
  BY DEF Inv, EffectsRecorded
<1>1. CASE _on_before_tool_call(c)
  <2>1. PICK g \in 0 .. generation :
          call' = [call EXCEPT ![c].pc = "reserve", ![c].gen = g,
                               ![c].late = (g # 0 /\ g # generation)]
    BY <1>1 DEF _on_before_tool_call
  <2>2. /\ OthersKept(c)
        /\ call'[c].pc = "reserve" /\ call'[c].gen = g
        /\ call'[c].effect = call[c].effect /\ call'[c].seen = call[c].seen
        /\ call'[c].answer = call[c].answer /\ call'[c].result = call[c].result
    BY <2>1 DEF OthersKept, TypeOK, Call
  <2>3. call'[c].late => g # 0 /\ g < generation
    <3>1. call'[c].late = (g # 0 /\ g # generation)
      BY <2>1 DEF TypeOK, Call
    <3>2. g # generation => g < generation
      BY <1>a
    <3>3. QED
      BY <3>1, <3>2, Zenon
  <2>4. Moves(c)
    BY <1>1, <1>a, <2>2, <2>3 DEF _on_before_tool_call, Moves, DispatchKept
  <2>5. QED
    BY <2>2, <2>4
<1>2. CASE reserve(c)
  <2>1. CASE ReserveCondition(c) /\ Won(c)
    BY <1>2, <2>1, WonEffect DEF reserve, ReserveCondition, PutHolds, Takes
  <2>2. CASE ~FenceHolds(c) /\ Answer(c, "fenced", None) /\ OnlyCall
    BY <1>2, <1>a, <2>2, AnswerEffect DEF reserve, Moves, DispatchKept
  <2>3. CASE FenceHolds(c) /\ Goto(c, "resolve") /\ OnlyCall
    BY <1>2, <1>a, <2>3, GotoEffect DEF reserve, Moves, DispatchKept, FenceHolds
  <2>4. QED
    BY <1>2, <2>1, <2>2, <2>3 DEF reserve, RefusedReserve
<1>3. CASE _resolve_existing(c)
  <2>1. PICK s \in Get :
          \/ Goto(c, "poll") \/ Goto(c, "rereserve")
          \/ s.status = "completed" /\ Answer(c, "result", s.result)
          \/ Answer(c, "failure", None)
          \/ /\ s.created <= horizon
             /\ call' = [call EXCEPT ![c].pc = "reclaim", ![c].seen = s.created]
    BY <1>3 DEF _resolve_existing
  <2>2. CASE Goto(c, "poll") \/ Goto(c, "rereserve")
    BY <1>3, <1>a, <2>2, GotoEffect DEF _resolve_existing, Moves, DispatchKept
  <2>3. CASE s.status = "completed" /\ Answer(c, "result", s.result)
    BY <1>3, <1>a, <2>3, AnswerEffect DEF _resolve_existing, Moves, DispatchKept
  <2>4. CASE Answer(c, "failure", None)
    BY <1>3, <1>a, <2>4, AnswerEffect DEF _resolve_existing, Moves, DispatchKept
  <2>5. CASE /\ s.created <= horizon
             /\ call' = [call EXCEPT ![c].pc = "reclaim", ![c].seen = s.created]
    <3>1. /\ OthersKept(c)
          /\ call'[c].pc = "reclaim" /\ call'[c].seen = s.created
          /\ call'[c].effect = call[c].effect
          /\ call'[c].answer = call[c].answer /\ call'[c].result = call[c].result
          /\ call'[c].gen = call[c].gen /\ call'[c].late = call[c].late
      BY <2>5 DEF OthersKept, TypeOK, Call
    <3>2. QED
      BY <1>3, <2>5, <3>1 DEF _resolve_existing, Moves, DispatchKept
  <2>6. QED
    BY <2>1, <2>2, <2>3, <2>4, <2>5
<1>4. CASE _reclaim_released(c)
  <2>1. CASE ReleasedCondition(c) /\ Won(c)
    BY <1>4, <2>1, WonEffect DEF _reclaim_released, ReleasedCondition, Takes
  <2>2. CASE Goto(c, "poll") /\ OnlyCall
    BY <1>4, <1>a, <2>2, GotoEffect DEF _reclaim_released, Moves, DispatchKept
  <2>3. QED
    BY <1>4, <2>1, <2>2 DEF _reclaim_released
<1>5. CASE _reclaim_stale(c)
  <2>1. CASE StaleCondition(c) /\ Won(c)
    BY <1>5, <2>1, WonEffect DEF _reclaim_stale, StaleCondition, Takes
  <2>2. CASE Goto(c, "poll") /\ OnlyCall
    BY <1>5, <1>a, <2>2, GotoEffect DEF _reclaim_stale, Moves, DispatchKept
  <2>3. QED
    BY <1>5, <2>1, <2>2 DEF _reclaim_stale
<1>6. CASE reserve_error(c)
  <2>1. /\ Answer(c, "refused", None)
        /\ UNCHANGED <<replica, generation, horizon, history>>
    BY <1>6 DEF reserve_error
  <2>2. CASE /\ call[c].pc \in {"reserve", "resolve", "rereserve", "reclaim", "poll"}
             /\ UNCHANGED <<row, clock>>
    BY <1>a, <2>1, <2>2, AnswerEffect DEF Moves, DispatchKept, OnlyCall
  <2>3. CASE /\ \/ call[c].pc = "reserve" /\ ReserveCondition(c)
                \/ call[c].pc = "rereserve" /\ ReleasedCondition(c)
                \/ call[c].pc = "reclaim" /\ StaleCondition(c)
             /\ row' = Reserved /\ clock' = clock + 1
    BY <2>1, <2>3, AnswerEffect
       DEF Takes, ReserveCondition, PutHolds, ReleasedCondition, StaleCondition
  <2>4. QED
    BY <1>6, <2>2, <2>3 DEF reserve_error
<1>7. CASE wait_for_terminal(c)
  <2>1. PICK s \in Get :
          \/ s.status = "completed" /\ Answer(c, "result", s.result)
          \/ Answer(c, "failure", None) \/ Answer(c, "retry", None)
    BY <1>7 DEF wait_for_terminal
  <2>2. CASE s.status = "completed" /\ Answer(c, "result", s.result)
    BY <1>7, <1>a, <2>2, AnswerEffect DEF wait_for_terminal, Moves, DispatchKept
  <2>3. CASE Answer(c, "failure", None) \/ Answer(c, "retry", None)
    BY <1>7, <1>a, <2>3, AnswerEffect DEF wait_for_terminal, Moves, DispatchKept
  <2>4. QED
    BY <2>1, <2>2, <2>3
<1>8. CASE run_tool(c)
  <2>1. PICK o \in Outcomes :
          /\ call' = [call EXCEPT ![c].pc = "record", ![c].outcome = o[1],
                                  ![c].effect = o[2]]
          /\ applied' = applied + o[2]
    BY <1>8 DEF run_tool
  <2>2. /\ OthersKept(c)
        /\ call'[c].pc = "record" /\ call'[c].outcome = o[1] /\ call'[c].effect = o[2]
        /\ call'[c].seen = call[c].seen /\ call'[c].created = call[c].created
        /\ call'[c].answer = call[c].answer /\ call'[c].result = call[c].result
        /\ call'[c].gen = call[c].gen /\ call'[c].late = call[c].late
    BY <2>1 DEF OthersKept, TypeOK, Call
  <2>3. <<o[1], o[2]>> \in Outcomes
    BY DEF Outcomes
  <2>4. QED
    BY <1>8, <2>1, <2>2, <2>3 DEF run_tool, Runs, HeldBefore
<1>9. CASE _finalize(c)
  BY <1>9, AnswerOfEffect DEF _finalize, Records, HeldBefore, history
<1>10. CASE finalize_error(c)
  BY <1>10, AnswerOfEffect DEF finalize_error, GivesUp, HeldBefore
<1>11. CASE crash(c)
  <2>1. CASE call[c].pc \in Holding
    BY <1>11, <2>1, AnswerEffect DEF crash, GivesUp, HeldBefore
  <2>2. CASE call[c].pc \notin Holding
    <3>1. lost' = lost
      BY <1>11, <1>a, <1>b, <2>2 DEF crash
    <3>2. QED
      BY <1>11, <1>a, <2>2, <3>1, AnswerEffect
         DEF crash, Moves, DispatchKept, OnlyCall, history
  <2>3. QED
    BY <2>1, <2>2
<1>12. QED
  BY <1>1, <1>2, <1>3, <1>4, <1>5, <1>6, <1>7, <1>8, <1>9, <1>10, <1>11 DEF Attempt

(***************************************************************************)
(* The invariant is kept                                                   *)
(***************************************************************************)
\* A reservation is only written when nobody executes the tool.
LEMMA TakenFree ==
  ASSUME TypeOK, Inv, NEW c \in Calls, Takes(c)
  PROVE  /\ \A d \in Calls : call[d].pc \notin Holding
         /\ row.status \notin Terminal
         /\ ~call[c].late
<1>1. call[c].seen <= horizon /\ horizon \in Nat /\ row.created \in Nat
      /\ call[c].seen \in Nat
  BY DEF Inv, Ranked, TypeOK, Call, Row
<1>2. ASSUME NEW d \in Calls, call[d].pc \in Holding PROVE FALSE
  BY <1>1, <1>2 DEF Takes, Inv, HolderOwns
<1>3. call[c].late => call[c].pc = "reserve" /\ ~FenceHolds(c)
  <2>1. call[c].gen \in Nat /\ generation \in Nat
    BY DEF TypeOK, Call
  <2>2. call[c].pc # "done"
    BY DEF Takes
  <2>3. QED
    BY <2>1, <2>2 DEF Inv, LateIsFenced, FenceHolds
<1>4. QED
  BY <1>2, <1>3 DEF Takes, Terminal

LEMMA AttemptKeepsOwnership ==
  ASSUME TypeOK, TypeOK', Inv, NEW c \in Calls, Attempt(c)
  PROVE  Ranked' /\ HolderOwns' /\ OneHolder'
<1>1. OthersKept(c)
  BY AttemptEffect
<1>2. /\ clock \in Nat /\ horizon \in Nat /\ row.created \in Nat
      /\ row.created <= clock /\ horizon <= clock
      /\ \A d \in Calls : call[d].seen <= horizon
  BY DEF Inv, Ranked, TypeOK, Row
<1> USE DEF Holding
<1>3. CASE Moves(c)
  <2>1. UNCHANGED <<row, clock, horizon>>
    BY <1>3 DEF Moves, OnlyCall
  <2>2. QED
    BY <1>1, <1>2, <1>3, <2>1
       DEF Moves, OthersKept, Inv, Ranked, HolderOwns, OneHolder
<1>4. CASE Takes(c)
  <2>1. \A d \in Calls : call[d].pc \notin Holding
    BY <1>4, TakenFree
  <2>2. \A d \in Calls : d # c => call'[d].pc \notin Holding
    BY <1>1, <2>1 DEF OthersKept
  <2>3. row'.status = "in_flight" /\ row'.created = clock + 1 /\ clock' = clock + 1
        /\ horizon' = horizon
    BY <1>4 DEF Takes, Reserved
  <2>4. call'[c].pc \in Holding => call'[c].created = clock + 1
    BY <1>4 DEF Takes
  <2>5. call'[c].seen = call[c].seen
    BY <1>4 DEF Takes
  <2>6. Ranked'
    BY <1>1, <1>2, <2>3, <2>5 DEF Ranked, OthersKept
  <2>7. HolderOwns' /\ OneHolder'
    BY <1>2, <2>2, <2>3, <2>4 DEF HolderOwns, OneHolder
  <2>8. QED
    BY <2>6, <2>7
<1>5. CASE Runs(c) \/ Records(c) \/ GivesUp(c)
  <2>1. /\ call[c].pc \in Holding /\ call'[c].seen = call[c].seen
        /\ call'[c].created = call[c].created
        /\ clock' = clock /\ horizon' = horizon
    BY <1>5 DEF Runs, Records, GivesUp, HeldBefore
  <2>2. \A d \in Calls : d # c => call[d].pc \notin Holding
    BY <2>1 DEF Inv, OneHolder
  <2>3. \A d \in Calls : call'[d].pc \in Holding => d = c /\ Runs(c)
    BY <1>1, <1>5, <2>2 DEF OthersKept, Records, GivesUp
  <2>4. row'.created = row.created
    BY <1>5 DEF Runs, Records, GivesUp, TypeOK, Row
  <2>5. Runs(c) => row' = row
    BY DEF Runs
  <2>6. Ranked'
    BY <1>1, <1>2, <2>1, <2>4 DEF Ranked, OthersKept
  <2>7. HolderOwns' /\ OneHolder'
    BY <2>1, <2>3, <2>5 DEF HolderOwns, OneHolder, Inv
  <2>8. QED
    BY <2>6, <2>7
<1>6. QED
  BY <1>3, <1>4, <1>5, AttemptEffect

LEMMA AttemptKeepsAccount ==
  ASSUME TypeOK, TypeOK', Inv, NEW c \in Calls, Attempt(c)
  PROVE  EffectsRecorded' /\ Accounted' /\ LateIsFenced'
<1>1. OthersKept(c)
  BY AttemptEffect
<1>2. applied \in Nat /\ lost \in Nat /\ expired \in Nat /\ call[c].effect \in 0 .. 1
      /\ generation \in Nat /\ call[c].gen \in Nat
  BY DEF TypeOK, Call
<1>3. call[c].pc \notin {"record", "done"} => call[c].effect = 0
  BY DEF Inv, EffectsRecorded
<1>4. call[c].pc = "record" => <<call[c].outcome, call[c].effect>> \in Outcomes
  BY DEF Inv, EffectsRecorded
<1> USE DEF Holding
<1>5. CASE Moves(c)
  <2>1. UNCHANGED <<row, generation, applied, lost, expired>>
    BY <1>5 DEF Moves, OnlyCall, history
  <2>2. EffectsRecorded'
    BY <1>1, <1>3, <1>5 DEF Inv, EffectsRecorded, Moves, OthersKept
  <2>3. Unsettled => Unsettled'
    BY <1>1, <1>5 DEF Unsettled, Moves, OthersKept
  <2>4. Accounted'
    BY <1>2, <2>1, <2>3 DEF Inv, Accounted
  <2>5. LateIsFenced'
    BY <1>1, <1>2, <1>3, <1>5, <2>1 DEF Inv, LateIsFenced, Moves, DispatchKept, OthersKept
  <2>6. QED
    BY <2>2, <2>4, <2>5
<1>6. CASE Takes(c)
  <2>1. UNCHANGED <<generation, applied, lost, expired>>
    BY <1>6 DEF Takes, history
  <2>2. EffectsRecorded'
    BY <1>1, <1>3, <1>6 DEF Inv, EffectsRecorded, Takes, OthersKept
  <2>3. ~Unsettled /\ row.status \notin Terminal
    BY <1>6, TakenFree DEF Unsettled
  <2>4. Accounted'
    BY <1>2, <2>1, <2>3 DEF Inv, Accounted
  <2>5. LateIsFenced'
    BY <1>1, <1>6, <2>1, TakenFree DEF Inv, LateIsFenced, Takes, OthersKept
  <2>6. QED
    BY <2>2, <2>4, <2>5
<1>7. ASSUME Runs(c) \/ Records(c) \/ GivesUp(c)
      PROVE  /\ LateIsFenced'
             /\ \A d \in Calls : d # c => call'[d].pc # "record"
             /\ row.status = "in_flight" /\ expired' = expired
  <2>1. /\ call[c].pc \in Holding
        /\ call'[c].gen = call[c].gen /\ call'[c].late = call[c].late
        /\ generation' = generation /\ expired' = expired
    BY <1>7 DEF Runs, Records, GivesUp, HeldBefore
  <2>2. ~call[c].late /\ row.status = "in_flight"
    BY <2>1 DEF Inv, LateIsFenced, HolderOwns
  <2>3. LateIsFenced'
    BY <1>1, <2>1, <2>2 DEF Inv, LateIsFenced, OthersKept
  <2>4. \A d \in Calls : d # c => call'[d].pc # "record"
    BY <1>1, <2>1 DEF Inv, OneHolder, OthersKept
  <2>5. QED
    BY <2>1, <2>2, <2>3, <2>4
<1>8. CASE Runs(c)
  <2>1. call'[c].effect \in 0 .. 1
    BY DEF TypeOK, Call
  <2>2. EffectsRecorded'
    BY <1>1, <1>8 DEF Inv, EffectsRecorded, Runs, OthersKept
  <2>3. ~Unsettled
    BY <1>8 DEF Inv, OneHolder, Unsettled, Runs
  <2>4. call'[c].effect = 1 => Unsettled'
    BY <1>8 DEF Unsettled, Runs
  <2>5. applied <= lost + expired
    BY <1>2, <1>7, <1>8, <2>3 DEF Inv, Accounted, Terminal
  <2>6. applied' = applied + call'[c].effect /\ lost' = lost
    BY <1>8 DEF Runs
  <2>7. Accounted'
    BY <1>2, <1>7, <1>8, <2>1, <2>4, <2>5, <2>6 DEF Accounted
  <2>8. QED
    BY <1>7, <1>8, <2>2, <2>7
<1>9. CASE Records(c)
  <2>1. EffectsRecorded'
    BY <1>1, <1>9 DEF Inv, EffectsRecorded, Records, OthersKept
  <2>2. row'.status = call[c].outcome
    BY <1>7, <1>9 DEF Records, TypeOK, Row
  <2>3. Unsettled => row'.status \in Terminal
    <3>1. Unsettled => call[c].effect = 1
      BY <1>9 DEF Unsettled, Records, Inv, OneHolder
    <3>2. call[c].effect = 1 => call[c].outcome \in Terminal
      BY <1>4, <1>9 DEF Records, Outcomes, Terminal
    <3>3. QED
      BY <2>2, <3>1, <3>2
  <2>4. applied' = applied /\ lost' = lost
    BY <1>9 DEF Records
  <2>5. Accounted'
    BY <1>2, <1>7, <1>9, <2>3, <2>4 DEF Inv, Accounted, Terminal
  <2>6. QED
    BY <1>7, <1>9, <2>1, <2>5
<1>10. CASE GivesUp(c)
  <2>1. EffectsRecorded'
    BY <1>1, <1>10 DEF Inv, EffectsRecorded, GivesUp, OthersKept
  <2>2. Unsettled => call[c].effect = 1
    BY <1>10 DEF Unsettled, GivesUp, HeldBefore, Inv, OneHolder
  <2>3. applied' = applied /\ lost' = lost + call[c].effect /\ row' = row
    BY <1>10 DEF GivesUp
  <2>4. Accounted'
    BY <1>2, <1>7, <1>10, <2>2, <2>3 DEF Inv, Accounted, Terminal
  <2>5. QED
    BY <1>7, <1>10, <2>1, <2>4
<1>11. QED
  BY <1>5, <1>6, <1>8, <1>9, <1>10, AttemptEffect

LEMMA AttemptKeepsResults ==
  ASSUME TypeOK, TypeOK', Inv, NEW c \in Calls, Attempt(c)
  PROVE  ResultStands'
<1>1. OthersKept(c)
  BY AttemptEffect
<1>2. lost \in Nat /\ expired \in Nat /\ call[c].effect \in 0 .. 1
  BY DEF TypeOK, Call
<1> USE DEF Holding
<1>3. CASE Moves(c)
  <2>1. UNCHANGED <<row, replica, lost, expired>>
    BY <1>3 DEF Moves, OnlyCall, history
  <2>2. lost + expired = 0 =>
          \A s \in Get : s.status = "completed" => s = row
    BY DEF Inv, ResultStands, Get
  <2>3. QED
    BY <1>1, <1>3, <2>1, <2>2 DEF Inv, ResultStands, Moves, OthersKept
<1>4. CASE Takes(c)
  <2>1. row.status # "completed" /\ UNCHANGED <<replica, lost, expired>>
    BY <1>4, TakenFree DEF Takes, Terminal, history
  <2>2. lost + expired = 0 =>
          replica.status # "completed" /\ \A d \in Calls : call[d].answer # "result"
    BY <2>1 DEF Inv, ResultStands
  <2>3. call'[c].answer = "result" => call[c].answer = "result"
    BY <1>4 DEF Takes
  <2>4. QED
    BY <1>1, <2>1, <2>2, <2>3 DEF ResultStands, OthersKept
<1>5. ASSUME Runs(c) \/ Records(c) \/ GivesUp(c)
      PROVE  /\ row.status = "in_flight"
             /\ lost + expired = 0 =>
                  replica.status # "completed" /\ \A d \in Calls : call[d].answer # "result"
             /\ replica' = replica /\ expired' = expired
  BY <1>5 DEF Inv, HolderOwns, ResultStands, Runs, Records, GivesUp, HeldBefore
<1>6. CASE Runs(c)
  BY <1>1, <1>5, <1>6 DEF Runs, ResultStands, OthersKept
<1>7. CASE Records(c)
  <2>1. /\ call[c].outcome = "completed" => row'.status = "completed" /\ row'.result = c
        /\ lost' = lost
        /\ call'[c].answer = "result" => call[c].outcome = "completed" /\ call'[c].result = c
    BY <1>5, <1>7 DEF Records, TypeOK, Row
  <2>2. QED
    BY <1>1, <1>5, <1>7, <2>1 DEF ResultStands, OthersKept
<1>8. CASE GivesUp(c)
  <2>1. call'[c].answer = "result" => call[c].effect = 1
    BY <1>8 DEF GivesUp, Inv, EffectsRecorded, Outcomes
  <2>2. lost' = lost + call[c].effect
    BY <1>8 DEF GivesUp
  <2>3. row' = row /\ replica' = replica /\ expired' = expired
    BY <1>8 DEF GivesUp, HeldBefore
  <2>4. lost' + expired' = 0 => lost + expired = 0 /\ call[c].effect = 0
    BY <1>2, <2>2, <2>3
  <2>5. lost + expired = 0 =>
          replica.status # "completed" /\ \A d \in Calls : call[d].answer # "result"
    BY <1>5, <1>8
  <2>6. lost' + expired' = 0 =>
          replica'.status # "completed" /\ \A d \in Calls : call'[d].answer # "result"
    BY <1>1, <2>1, <2>3, <2>4, <2>5 DEF OthersKept
  <2>7. QED
    BY <2>6 DEF ResultStands
<1>9. QED
  BY <1>3, <1>4, <1>6, <1>7, <1>8, AttemptEffect

\* The steps of the environment leave every attempt where it is.
LEMMA EnvironmentKeeps ==
  ASSUME TypeOK, Inv, redispatch \/ lease_runs_out \/ ttl_expiry \/ replicate
  PROVE  Inv'
<1> USE DEF history
<1>1. /\ clock \in Nat /\ horizon \in Nat /\ generation \in Nat
      /\ row.created \in Nat /\ applied \in Nat /\ lost \in Nat /\ expired \in Nat
      /\ \A c \in Calls : call[c].gen \in Nat /\ call[c].seen \in Nat
                           /\ call[c].created \in Nat
  BY DEF TypeOK, Row, Call
<1>2. call' = call
  BY DEF redispatch, lease_runs_out, ttl_expiry, replicate
<1>3. OneHolder' /\ EffectsRecorded' /\ (Unsettled <=> Unsettled')
  BY <1>2 DEF Inv, OneHolder, EffectsRecorded, Unsettled
<1>4. CASE redispatch
  <2>1. UNCHANGED <<row, replica, clock, horizon, call, applied, lost, expired>>
        /\ generation' = generation + 1
    BY <1>4 DEF redispatch
  <2>2. LateIsFenced'
    BY <1>1, <2>1 DEF Inv, LateIsFenced
  <2>3. Ranked' /\ HolderOwns' /\ Accounted' /\ ResultStands'
    BY <1>3, <2>1 DEF Inv, Ranked, HolderOwns, Accounted, ResultStands
  <2>4. QED
    BY <1>3, <2>2, <2>3 DEF Inv
<1>5. CASE lease_runs_out
  <2>1. PICK n \in (horizon + 1) .. clock :
          /\ \A c \in Calls : call[c].pc \in Holding => call[c].created > n
          /\ horizon' = n
    BY <1>5 DEF lease_runs_out
  <2>2. UNCHANGED <<row, replica, clock, generation, applied, lost, expired>>
    BY <1>5 DEF lease_runs_out
  <2>3. Ranked'
    BY <1>1, <1>2, <2>1, <2>2 DEF Inv, Ranked
  <2>4. HolderOwns'
    BY <1>1, <1>2, <2>1, <2>2 DEF Inv, HolderOwns
  <2>5. Accounted' /\ LateIsFenced' /\ ResultStands'
    BY <1>2, <1>3, <2>2 DEF Inv, Accounted, LateIsFenced, ResultStands
  <2>6. QED
    BY <1>3, <2>3, <2>4, <2>5 DEF Inv
<1>6. CASE ttl_expiry
  <2>1. /\ row' = Absent /\ row.created <= horizon
        /\ expired' = expired + (IF row.status \in Terminal THEN 1 ELSE 0)
        /\ UNCHANGED <<replica, generation, clock, horizon, applied, lost>>
    BY <1>6 DEF ttl_expiry
  <2>2. \A c \in Calls : call[c].pc \notin Holding
    BY <1>1, <2>1 DEF Inv, HolderOwns
  <2>3. Ranked' /\ HolderOwns' /\ LateIsFenced'
    BY <1>1, <1>2, <2>1, <2>2 DEF Inv, Ranked, HolderOwns, LateIsFenced, Absent
  <2>4. ~Unsettled
    BY <2>2 DEF Unsettled, Holding
  <2>5. Accounted'
    BY <1>1, <1>3, <2>1, <2>4 DEF Inv, Accounted, Absent, Terminal
  <2>6. ResultStands'
    <3>1. CASE row.status \in Terminal
      <4>1. lost' + expired' # 0
        BY <1>1, <2>1, <3>1
      <4>2. QED
        BY <4>1 DEF ResultStands
    <3>2. CASE row.status \notin Terminal
      <4>1. expired' = expired
        BY <1>1, <2>1, <3>2
      <4>2. lost + expired = 0 =>
              replica.status # "completed" /\ \A d \in Calls : call[d].answer # "result"
        BY <3>2 DEF Inv, ResultStands, Terminal
      <4>3. QED
        BY <1>2, <2>1, <4>1, <4>2 DEF ResultStands
    <3>3. QED
      BY <3>1, <3>2
  <2>7. QED
    BY <1>3, <2>3, <2>5, <2>6 DEF Inv
<1>7. CASE replicate
  <2>1. replica' = row
        /\ UNCHANGED <<row, generation, clock, horizon, applied, lost, expired>>
    BY <1>7 DEF replicate
  <2>2. QED
    BY <1>2, <1>3, <2>1
       DEF Inv, Ranked, HolderOwns, Accounted, LateIsFenced, ResultStands
<1>8. QED
  BY <1>4, <1>5, <1>6, <1>7

LEMMA LedgerInvariants == Spec => []Inv
<1>1. Init => Inv
  BY DEF Init, Inv, Ranked, HolderOwns, OneHolder, EffectsRecorded, Accounted, Unsettled,
         LateIsFenced, ResultStands, Absent, Holding, None
<1>2. TypeOK /\ TypeOK' /\ Inv /\ [Next]_vars => Inv'
  <2> SUFFICES ASSUME TypeOK, TypeOK', Inv, [Next]_vars PROVE Inv'
    OBVIOUS
  <2>1. ASSUME NEW c \in Calls, Attempt(c) PROVE Inv'
    BY <2>1, AttemptKeepsOwnership, AttemptKeepsAccount, AttemptKeepsResults DEF Inv
  <2>2. CASE redispatch \/ lease_runs_out \/ ttl_expiry \/ replicate
    BY <2>2, EnvironmentKeeps
  <2>3. CASE UNCHANGED vars
    BY <2>3 DEF vars, Inv, Ranked, HolderOwns, OneHolder, EffectsRecorded, Accounted,
                Unsettled, LateIsFenced, ResultStands
  <2>4. QED
    BY <2>1, <2>2, <2>3 DEF Next
<1>3. QED
  BY <1>1, <1>2, LedgerTypeCorrect, PTL DEF Spec

(***************************************************************************)
(* The properties                                                          *)
(***************************************************************************)
\* However many attempts find the row absent, released or abandoned, on however stale a
\* read, one of them at a time executes the tool.
THEOREM OneHolderHolds == Spec => []OneHolder
<1>1. Inv => OneHolder
  BY DEF Inv
<1>2. QED
  BY <1>1, LedgerInvariants, PTL

\* The side effect is repeated only after its outcome was lost by a dying holder or a
\* failed recording, or removed by the TTL.
THEOREM OnceUnlessOutcomeLostHolds == Spec => []OnceUnlessOutcomeLost
<1>1. TypeOK /\ Inv => OnceUnlessOutcomeLost
  BY DEF TypeOK, Inv, Accounted, OnceUnlessOutcomeLost
<1>2. QED
  BY <1>1, LedgerInvariants, LedgerTypeCorrect, PTL

\* Attempts that get a result get the same one, unless an outcome was lost or expired.
THEOREM ResultsAgreeHolds == Spec => []ResultsAgree
<1>1. TypeOK /\ Inv => ResultsAgree
  BY DEF TypeOK, Inv, ResultStands, ResultsAgree
<1>2. QED
  BY <1>1, LedgerInvariants, LedgerTypeCorrect, PTL

\* A worker that was re-dispatched away before it called the tool never executes it.
THEOREM SupersededNeverExecutesHolds == Spec => []SupersededNeverExecutes
<1>1. Inv => SupersededNeverExecutes
  BY DEF Inv, LateIsFenced, SupersededNeverExecutes, Holding
<1>2. QED
  BY <1>1, LedgerInvariants, PTL

\* No step but the TTL's removal changes a recorded outcome or its result.
THEOREM TerminalKeptHolds == Spec => TerminalKept
<1>1. TypeOK /\ Inv /\ [Next]_vars =>
        [row.status \in Terminal =>
           row' = row \/ (row' = Absent /\ expired' = expired + 1)]_vars
  <2> SUFFICES ASSUME TypeOK, Inv, Next, row.status \in Terminal
               PROVE  row' = row \/ (row' = Absent /\ expired' = expired + 1)
    BY DEF vars
  <2>1. ASSUME NEW c \in Calls, Attempt(c) PROVE row' = row
    <3>1. ~Takes(c)
      BY TakenFree
    <3>2. row.status # "in_flight"
      BY DEF Terminal
    <3>3. QED
      BY <2>1, <3>1, <3>2, AttemptEffect
         DEF Moves, OnlyCall, Runs, Records, GivesUp
  <2>2. CASE redispatch \/ lease_runs_out \/ ttl_expiry \/ replicate
    BY <2>2 DEF redispatch, lease_runs_out, ttl_expiry, replicate
  <2>3. QED
    BY <2>1, <2>2 DEF Next
<1>2. QED
  BY <1>1, LedgerInvariants, LedgerTypeCorrect, PTL DEF Spec, TerminalKept

(***************************************************************************)
(* The ledger implements OneShot                                           *)
(***************************************************************************)
\* An answer is given where an attempt ends.
Unanswered == \A c \in Calls : call[c].pc # "done" => call[c].answer = None

LEMMA AnswerAtTheEnd ==
  ASSUME TypeOK, NEW c \in Calls, Attempt(c)
  PROVE  call'[c].pc = "done" \/ call'[c].answer = call[c].answer
<1>1. CASE _on_before_tool_call(c) \/ _reclaim_stale(c) \/ run_tool(c) \/ _resolve_existing(c)
  <2>0. call \in [Calls -> Call]
    BY DEF TypeOK
  <2>1. CASE _on_before_tool_call(c) \/ run_tool(c)
    <3>1. \/ \E g, l : call' = [call EXCEPT ![c].pc = "reserve", ![c].gen = g, ![c].late = l]
          \/ \E o, x : call' = [call EXCEPT ![c].pc = "record", ![c].outcome = o,
                                           ![c].effect = x]
      BY <2>1 DEF _on_before_tool_call, run_tool
    <3>2. QED
      BY <2>0, <3>1 DEF Call
  <2>2. CASE _reclaim_stale(c)
    BY <2>2, WonEffect, GotoEffect DEF _reclaim_stale
  <2>3. CASE _resolve_existing(c)
    <3>1. \/ \E r : Answer(c, "result", r)
          \/ Answer(c, "failure", None)
          \/ Goto(c, "poll") \/ Goto(c, "rereserve")
          \/ \E n : call' = [call EXCEPT ![c].pc = "reclaim", ![c].seen = n]
      BY <2>3 DEF _resolve_existing
    <3>2. ASSUME NEW n, call' = [call EXCEPT ![c].pc = "reclaim", ![c].seen = n]
          PROVE  call'[c].answer = call[c].answer
      BY <3>2 DEF TypeOK, Call
    <3>3. QED
      BY <3>1, <3>2, AnswerEffect, GotoEffect
  <2>4. QED
    BY <1>1, <2>1, <2>2, <2>3
<1>2. CASE reserve(c) \/ _reclaim_released(c)
  <2>1. Won(c) \/ Answer(c, "fenced", None) \/ Goto(c, "resolve") \/ Goto(c, "poll")
    BY <1>2 DEF reserve, RefusedReserve, _reclaim_released
  <2>2. QED
    BY <2>1, WonEffect, AnswerEffect, GotoEffect
<1>3. CASE reserve_error(c) \/ wait_for_terminal(c) \/ crash(c)
  <2>1. \E a, r : Answer(c, a, r)
    BY <1>3 DEF reserve_error, wait_for_terminal, crash
  <2>2. QED
    BY <2>1, AnswerEffect
<1>4. CASE _finalize(c) \/ finalize_error(c)
  BY <1>4, AnswerOfEffect DEF _finalize, finalize_error
<1>5. QED
  BY <1>1, <1>2, <1>3, <1>4 DEF Attempt

LEMMA UnansweredHolds == Spec => []Unanswered
<1>1. Init => Unanswered
  BY DEF Init, Unanswered
<1>2. TypeOK /\ Inv /\ Unanswered /\ [Next]_vars => Unanswered'
  <2> SUFFICES ASSUME TypeOK, Inv, Unanswered, [Next]_vars PROVE Unanswered'
    OBVIOUS
  <2>1. ASSUME NEW c \in Calls, Attempt(c) PROVE Unanswered'
    <3>1. OthersKept(c) /\ call[c].pc # "done"
      BY <2>1, AttemptEffect
         DEF Moves, Takes, Runs, Records, GivesUp, HeldBefore, Holding
    <3>2. QED
      BY <2>1, <3>1, AnswerAtTheEnd DEF Unanswered, OthersKept
  <2>2. CASE redispatch \/ lease_runs_out \/ ttl_expiry \/ replicate \/ UNCHANGED vars
    BY <2>2 DEF redispatch, lease_runs_out, ttl_expiry, replicate, vars, Unanswered
  <2>3. QED
    BY <2>1, <2>2 DEF Next
<1>3. QED
  BY <1>1, <1>2, LedgerInvariants, LedgerTypeCorrect, PTL DEF Spec

Executing == {c \in Calls : call[c].pc \in Holding}
Barred == {c \in Calls : call[c].late}
Ended == {c \in Calls : call[c].pc = "done"}
Got == [c \in Calls |-> Given(c)]
Owed == IF Unsettled THEN 1 ELSE 0

\* What one attempt's step can change of the sets and of the answers.
LEMMA SetsStep ==
  ASSUME NEW c \in Calls, OthersKept(c)
  PROVE  /\ (call[c].pc \in Holding <=> call'[c].pc \in Holding) => Executing' = Executing
         /\ (call[c].late <=> call'[c].late) => Barred' = Barred
         /\ ~call[c].late /\ call'[c].late => Barred' = Barred \cup {c}
         /\ (call[c].pc = "done" <=> call'[c].pc = "done") => Ended' = Ended
         /\ call'[c].pc = "done" => Ended' = Ended \cup {c}
         /\ Got' = [Got EXCEPT ![c] = Given(c)']
         /\ Given(c)' = Given(c) => Got' = Got
<1>1. \A d \in Calls : d # c => call'[d] = call[d]
  BY DEF OthersKept
<1>2. Got' = [Got EXCEPT ![c] = Given(c)']
  BY <1>1 DEF Got, Given
<1>3. Given(c)' = Given(c) => Got' = Got
  BY <1>1 DEF Got, Given
<1>4. QED
  BY <1>1, <1>2, <1>3 DEF Executing, Barred, Ended

\* The steps that OneShot takes, in the terms above.
LEMMA OneShotActions ==
  ASSUME NEW c \in Calls
  PROVE  /\ /\ c \notin Executing \cup Ended /\ Barred' = Barred \cup {c}
            /\ UNCHANGED <<Executing, Ended, Got, Outcome, Owed, applied, lost + expired>>
            => O!Bar(c)
         /\ /\ Executing = {} /\ Outcome.status = "none" /\ c \notin Barred \cup Ended
            /\ Executing' = {c}
            /\ UNCHANGED <<Barred, Ended, Got, Outcome, Owed, applied, lost + expired>>
            => O!Start(c)
         /\ /\ c \in Executing /\ Owed = 0 /\ Owed' = 1 /\ applied' = applied + 1
            /\ UNCHANGED <<Executing, Barred, Ended, Got, Outcome, lost + expired>>
            => O!Apply(c)
         /\ \A r : c \notin Ended /\ Ended' = Ended \cup {c} /\ Got' = [Got EXCEPT ![c] = r]
                   => O!Return(c, r)
         /\ c \in Executing /\ Executing' = {} /\ Owed' = 0 /\ UNCHANGED <<Barred, applied>>
            => O!Stop(c)
         /\ UNCHANGED <<Executing, Barred, Ended, Got, Outcome, Owed, applied, lost + expired>>
            => UNCHANGED O!vars
  BY DEF Executing, Barred, Ended, Got, Owed, Outcome, O!Bar, O!Start, O!Apply, O!Return, O!Stop,
         O!vars, O!Nothing, Terminal

LEMMA MovesImplements ==
  ASSUME TypeOK, TypeOK', Inv, Unanswered, NEW c \in Calls, Attempt(c), Moves(c)
  PROVE  O!Bar(c) \/ O!Leave(c) \/ UNCHANGED O!vars
<1>1. /\ OthersKept(c) /\ call[c].pc # "done" /\ call[c].pc \notin Holding
      /\ call'[c].pc \notin Holding /\ call[c].answer = None
      /\ UNCHANGED <<row, replica, applied, lost, expired>>
  BY AttemptEffect DEF Moves, Unanswered, OnlyCall, history
<1>2. /\ Executing' = Executing /\ c \notin Executing \cup Ended
      /\ Outcome' = Outcome /\ UNCHANGED (lost + expired)
  BY <1>1, SetsStep DEF Executing, Ended, Outcome
<1>3. Owed' = Owed
  BY <1>1 DEF Owed, Unsettled, OthersKept, Holding
<1>4. CASE call'[c].pc = "done"
  <2>1. Barred' = Barred /\ Ended' = Ended \cup {c}
    BY <1>1, <1>4, SetsStep DEF Moves, DispatchKept
  <2>0. PICK r : r = Given(c)'
    OBVIOUS
  <2>2. c \notin Ended /\ Got' = [Got EXCEPT ![c] = r]
    BY <1>1, <1>2, <2>0, SetsStep
  <2>3. \/ r = None
        \/ Outcome.status = "completed" /\ r = Outcome.result
        \/ lost + expired > 0 /\ r \in Calls \cup {None}
    <3>1. CASE call'[c].answer # "result"
      BY <2>0, <3>1 DEF Given
    <3>2. CASE call'[c].answer = "result"
      <4>1. PICK s \in Get : s.status = "completed" /\ call'[c].result = s.result
        BY <1>1, <3>2 DEF Moves, None
      <4>2. CASE s = row
        BY <2>0, <3>2, <4>1, <4>2 DEF Given, Outcome, Terminal
      <4>3. CASE s # row
        <5>1. lost + expired # 0 /\ lost \in Nat /\ expired \in Nat
          BY <4>1, <4>3 DEF Inv, ResultStands, Get, TypeOK
        <5>2. call'[c].result \in Calls \cup {None}
          BY DEF TypeOK, Call
        <5>3. QED
          BY <2>0, <3>2, <5>1, <5>2 DEF Given
      <4>4. QED
        BY <4>2, <4>3
    <3>3. QED
      BY <3>1, <3>2
  <2>4. O!Leave(c)
    BY <1>1, <1>2, <1>3, <2>1, <2>2, <2>3
       DEF O!Leave, O!Return, Executing, Barred, Ended, Got, Owed, Outcome
  <2>5. QED
    BY <2>4
<1>5. CASE call'[c].pc # "done"
  <2>1. Given(c)' = Given(c)
    BY <1>1, <1>5, AnswerAtTheEnd DEF Given, None
  <2>2. Ended' = Ended /\ Got' = Got
    BY <1>1, <1>5, <2>1, SetsStep
  <2>3. CASE call'[c].late = call[c].late
    <3>1. Barred' = Barred
      BY <1>1, <2>3, SetsStep
    <3>2. QED
      BY <1>1, <1>2, <1>3, <2>2, <3>1, OneShotActions
  <2>4. CASE call'[c].late # call[c].late
    <3>1. call[c].pc = "idle"
      BY <2>4 DEF Moves, DispatchKept
    <3>2. ~call[c].late /\ call'[c].late
      BY <2>4, <3>1 DEF Inv, LateIsFenced, TypeOK, Call
    <3>3. Barred' = Barred \cup {c}
      BY <1>1, <3>2, SetsStep
    <3>4. QED
      BY <1>1, <1>2, <1>3, <2>2, <3>3, OneShotActions
  <2>5. QED
    BY <2>3, <2>4
<1>6. QED
  BY <1>4, <1>5

LEMMA TakesImplements ==
  ASSUME TypeOK, TypeOK', Inv, Unanswered, NEW c \in Calls, Attempt(c), Takes(c)
  PROVE  O!Start(c) \/ O!Leave(c)
<1>1. /\ OthersKept(c) /\ call[c].pc \notin Holding \cup {"done"}
      /\ call[c].answer = None /\ UNCHANGED <<applied, lost, expired>>
  BY AttemptEffect DEF Takes, Unanswered, history, Holding
<1>2. /\ Executing = {} /\ c \notin Barred \cup Ended /\ Outcome.status = "none"
      /\ Outcome' = Outcome /\ Owed = 0 /\ UNCHANGED (lost + expired)
  BY <1>1, TakenFree
     DEF Executing, Barred, Ended, Outcome, Owed, Unsettled, Takes, Reserved, Terminal, Holding
<1>3. Barred' = Barred
  BY <1>1, SetsStep DEF Takes
<1>4. \A d \in Calls : d # c => call'[d].pc \notin Holding
  BY <1>1, TakenFree DEF OthersKept
<1>5. Owed' = 0
  BY <1>4 DEF Owed, Unsettled, Takes, Holding
<1>6. CASE call'[c].pc = "run"
  <2>1. call'[c].answer = None
    BY <1>1, <1>6, AnswerAtTheEnd
  <2>2. Given(c)' = Given(c) /\ Executing' = {c}
    BY <1>1, <1>4, <1>6, <2>1 DEF Given, None, Executing, Holding
  <2>3. Ended' = Ended /\ Got' = Got
    BY <1>1, <1>6, <2>2, SetsStep
  <2>4. QED
    BY <1>1, <1>2, <1>3, <1>5, <2>2, <2>3, OneShotActions
<1>7. CASE call'[c].pc = "done" /\ call'[c].answer = "refused"
  <2>1. Given(c)' = None /\ Executing' = Executing /\ Ended' = Ended \cup {c}
    BY <1>1, <1>7, SetsStep DEF Given, Holding
  <2>2. O!Return(c, None)
    BY <1>1, <1>2, <2>1, SetsStep, OneShotActions
  <2>3. O!Leave(c)
    BY <1>1, <1>2, <1>3, <1>5, <2>1, <2>2 DEF O!Leave, Executing, Barred, Owed, Outcome
  <2>4. QED
    BY <2>3
<1>8. QED
  BY <1>6, <1>7 DEF Takes

\* An attempt that holds the reservation is the only one, and owes what it has done.
LEMMA HolderOwes ==
  ASSUME TypeOK, Inv, NEW c \in Calls, call[c].pc \in Holding
  PROVE  /\ Executing = {c} /\ c \notin Ended /\ Owed = call[c].effect
         /\ row.status = "in_flight" /\ Outcome.status = "none"
<1>1. \A d \in Calls : call[d].pc \in Holding => d = c
  BY DEF Inv, OneHolder
<1>2. call[c].effect \in 0 .. 1 /\ (call[c].pc = "run" => call[c].effect = 0)
  BY DEF TypeOK, Call, Inv, EffectsRecorded
<1>3. Owed = call[c].effect
  BY <1>1, <1>2 DEF Owed, Unsettled, Holding
<1>4. row.status = "in_flight"
  BY DEF Inv, HolderOwns
<1>5. QED
  BY <1>1, <1>3, <1>4 DEF Executing, Ended, Outcome, Terminal, Holding

LEMMA RunsImplements ==
  ASSUME TypeOK, TypeOK', Inv, Inv', Unanswered, NEW c \in Calls, Attempt(c), Runs(c)
  PROVE  O!Apply(c) \/ UNCHANGED O!vars
<1>1. /\ OthersKept(c) /\ call[c].pc \in Holding /\ call'[c].pc \in Holding
      /\ call[c].pc = "run" /\ call'[c].pc = "record"
      /\ call'[c].late = call[c].late
      /\ UNCHANGED <<row, lost, expired>> /\ applied' = applied + call'[c].effect
  BY AttemptEffect DEF Runs, HeldBefore, Holding
<1>2. /\ Executing' = Executing /\ Barred' = Barred /\ Ended' = Ended /\ Got' = Got
      /\ Outcome' = Outcome /\ UNCHANGED (lost + expired)
  <2>1. Given(c)' = Given(c)
    BY DEF Runs, Given
  <2>2. QED
    BY <1>1, <2>1, SetsStep DEF Outcome
<1>3. Owed = 0 /\ c \in Executing
  BY <1>1, HolderOwes DEF Inv, EffectsRecorded
<1>4. Owed' = call'[c].effect
  <2>1. call'[c].effect \in 0 .. 1
    BY DEF TypeOK, Call
  <2>2. \A d \in Calls : d # c => call'[d].pc # "record"
    BY <1>1 DEF Inv, OneHolder, OthersKept, Holding
  <2>3. QED
    BY <1>1, <2>1, <2>2 DEF Owed, Unsettled
<1>5. call'[c].effect \in 0 .. 1 /\ applied \in Nat
  BY DEF TypeOK, Call
<1>6. CASE call'[c].effect = 1
  BY <1>1, <1>2, <1>3, <1>4, <1>6, OneShotActions
<1>7. CASE call'[c].effect = 0
  <2>1. applied' = applied /\ Owed' = Owed
    BY <1>1, <1>3, <1>4, <1>5, <1>7
  <2>2. QED
    BY <1>2, <2>1, OneShotActions
<1>8. QED
  BY <1>5, <1>6, <1>7

\* What an attempt leaves that has stopped executing.
LEMMA StopStep ==
  ASSUME TypeOK, TypeOK', Inv, NEW c \in Calls, Attempt(c), HeldBefore(c),
         call'[c].pc = "done", applied' = applied
  PROVE  /\ O!Stop(c)
         /\ c \notin Ended /\ Ended' = Ended \cup {c}
         /\ Got' = [Got EXCEPT ![c] = Given(c)']
<1>1. /\ OthersKept(c) /\ call[c].pc \in Holding /\ call'[c].late = call[c].late
      /\ c \in Executing /\ c \notin Ended
  BY AttemptEffect, HolderOwes DEF HeldBefore
<1>2. \A d \in Calls : call'[d].pc \notin Holding
  BY <1>1 DEF Inv, OneHolder, OthersKept, Holding
<1>3. Executing' = {} /\ Owed' = 0
  BY <1>2 DEF Executing, Owed, Unsettled, Holding
<1>4. Barred' = Barred /\ Ended' = Ended \cup {c} /\ Got' = [Got EXCEPT ![c] = Given(c)']
  BY <1>1, SetsStep
<1>5. QED
  BY <1>1, <1>3, <1>4, OneShotActions

LEMMA RecordsImplements ==
  ASSUME TypeOK, TypeOK', Inv, NEW c \in Calls, Attempt(c), Records(c)
  PROVE  O!Record(c) \/ O!Abandon(c)
<1>1. /\ HeldBefore(c) /\ call[c].pc = "record" /\ call'[c].pc = "done"
      /\ UNCHANGED <<applied, lost, expired>> /\ UNCHANGED (lost + expired)
  BY DEF Records, HeldBefore
<1>2. /\ O!Stop(c) /\ c \notin Ended /\ Ended' = Ended \cup {c}
      /\ Got' = [Got EXCEPT ![c] = Given(c)']
  BY <1>1, StopStep
<1>3. /\ <<call[c].outcome, call[c].effect>> \in Outcomes
      /\ Owed = call[c].effect /\ row.status = "in_flight" /\ Outcome.status = "none"
  BY <1>1, HolderOwes DEF Inv, EffectsRecorded, Holding
<1>4. /\ row'.status = call[c].outcome
      /\ row'.result = IF call[c].outcome = "completed" THEN c ELSE None
  BY <1>3 DEF Records, TypeOK, Row
<1>5. Outcome = [status |-> "none", result |-> None]
  BY <1>3 DEF Outcome, Terminal
<1>6. CASE call[c].outcome = "completed"
  <2>1. Given(c)' = c /\ Owed = 1 /\ Outcome' = [status |-> "completed", result |-> c]
    BY <1>3, <1>4, <1>6 DEF Records, Given, Outcome, Terminal, Outcomes
  <2>2. QED
    BY <1>1, <1>2, <2>1 DEF O!Record, O!Return, Ended, Got, Owed, Outcome
<1>7. CASE call[c].outcome = "failed"
  <2>1. Given(c)' = None /\ Outcome' = [status |-> "failed", result |-> None]
    BY <1>4, <1>7 DEF Records, Given, Outcome, Terminal
  <2>2. QED
    BY <1>1, <1>2, <2>1 DEF O!Record, O!Return, Ended, Got, Outcome
<1>8. CASE call[c].outcome = "released"
  <2>1. Given(c)' = None /\ Owed = 0 /\ Outcome' = Outcome
    BY <1>3, <1>4, <1>5, <1>8 DEF Records, Given, Outcome, Terminal, Outcomes
  <2>2. lost' + expired' = lost + expired + Owed
    BY <1>1, <2>1 DEF TypeOK
  <2>3. QED
    BY <1>1, <1>2, <2>1, <2>2 DEF O!Abandon, O!Return, Ended, Got, Owed, Outcome
<1>9. QED
  BY <1>3, <1>6, <1>7, <1>8 DEF Outcomes

LEMMA GivesUpImplements ==
  ASSUME TypeOK, TypeOK', Inv, NEW c \in Calls, Attempt(c), GivesUp(c)
  PROVE  O!Abandon(c)
<1>1. /\ HeldBefore(c) /\ call'[c].pc = "done" /\ applied' = applied /\ row' = row
      /\ lost' = lost + call[c].effect /\ expired' = expired
  BY DEF GivesUp, HeldBefore
<1>2. /\ O!Stop(c) /\ c \notin Ended /\ Ended' = Ended \cup {c}
      /\ Got' = [Got EXCEPT ![c] = Given(c)']
  BY <1>1, StopStep
<1>3. Owed = call[c].effect /\ Outcome' = Outcome
  BY <1>1, HolderOwes DEF HeldBefore, Outcome
<1>4. lost' + expired' = lost + expired + Owed
  BY <1>1, <1>3 DEF TypeOK, Call
<1>5. Given(c)' = None \/ (Owed = 1 /\ Given(c)' = c)
  <2>1. CASE call'[c].answer = "result"
    BY <1>3, <2>1 DEF GivesUp, Given, Inv, EffectsRecorded, Outcomes
  <2>2. CASE call'[c].answer # "result"
    BY <2>2 DEF Given
  <2>3. QED
    BY <2>1, <2>2
<1>6. QED
  BY <1>2, <1>3, <1>4, <1>5 DEF O!Abandon, O!Return, Ended, Got, Owed, Outcome

LEMMA EnvironmentImplements ==
  ASSUME TypeOK, Inv, redispatch \/ lease_runs_out \/ ttl_expiry \/ replicate
  PROVE  O!Expire \/ UNCHANGED O!vars
<1>1. call' = call /\ UNCHANGED <<applied, lost>>
  BY DEF redispatch, lease_runs_out, ttl_expiry, replicate, history
<1>2. /\ UNCHANGED <<Executing, Barred, Ended, Got, Owed>>
  BY <1>1 DEF Executing, Barred, Ended, Got, Given, Owed, Unsettled
<1>3. CASE redispatch \/ lease_runs_out \/ replicate
  <2>1. UNCHANGED <<row, expired>>
    BY <1>3 DEF redispatch, lease_runs_out, replicate, history
  <2>2. Outcome' = Outcome /\ UNCHANGED (lost + expired)
    BY <1>1, <2>1 DEF Outcome
  <2>3. QED
    BY <1>1, <1>2, <2>2
       DEF O!vars, Executing, Barred, Ended, Got, Owed, Outcome
<1>4. CASE ttl_expiry
  <2>1. row' = Absent /\ expired' = expired + (IF row.status \in Terminal THEN 1 ELSE 0)
    BY <1>4 DEF ttl_expiry
  <2>2. Outcome' = [status |-> "none", result |-> None]
    BY <2>1 DEF Outcome, Absent, Terminal
  <2>3. lost \in Nat /\ expired \in Nat
    BY DEF TypeOK
  <2>4. CASE row.status \in Terminal
    <3>1. Executing = {}
      BY <2>4 DEF Executing, Inv, HolderOwns, Terminal
    <3>2. Outcome.status # "none" /\ lost' + expired' = lost + expired + 1
      BY <1>1, <2>1, <2>3, <2>4 DEF Outcome, Terminal
    <3>3. QED
      BY <1>1, <1>2, <2>2, <3>1, <3>2
         DEF O!Expire, O!Nothing, Executing, Barred, Ended, Got, Owed, Outcome
  <2>5. CASE row.status \notin Terminal
    <3>1. Outcome' = Outcome /\ UNCHANGED (lost + expired)
      BY <1>1, <2>1, <2>2, <2>3, <2>5 DEF Outcome
    <3>2. QED
      BY <1>1, <1>2, <3>1
         DEF O!vars, Executing, Barred, Ended, Got, Owed, Outcome
  <2>6. QED
    BY <2>4, <2>5
<1>5. QED
  BY <1>3, <1>4

\* For every number of attempts, with reads however stale, reservations that outlive their
\* holders, failing requests and rows that expire, the conditional writes on one row amount
\* to one attempt at a time that executes the tool, and one outcome for all the others.
THEOREM ImplementsOneShotHolds == Spec => ImplementsOneShot
<1>1. Init => O!Init
  BY DEF Init, O!Init, O!Nothing, Absent, Outcome, Given, Unsettled, Terminal, Holding, None
<1>2. TypeOK /\ TypeOK' /\ Inv /\ Inv' /\ Unanswered /\ [Next]_vars => [O!Next]_(O!vars)
  <2> SUFFICES ASSUME TypeOK, TypeOK', Inv, Inv', Unanswered, [Next]_vars
               PROVE  O!Next \/ UNCHANGED O!vars
    OBVIOUS
  <2>1. ASSUME NEW c \in Calls, Attempt(c)
        PROVE  O!Next \/ UNCHANGED O!vars
    <3>1. \/ O!Bar(c) \/ O!Start(c) \/ O!Apply(c) \/ O!Record(c) \/ O!Abandon(c) \/ O!Leave(c)
          \/ UNCHANGED O!vars
      BY <2>1, AttemptEffect, MovesImplements, TakesImplements, RunsImplements,
         RecordsImplements, GivesUpImplements
    <3>2. QED
      BY <3>1 DEF O!Next
  <2>2. CASE redispatch \/ lease_runs_out \/ ttl_expiry \/ replicate
    BY <2>2, EnvironmentImplements DEF O!Next
  <2>3. CASE UNCHANGED vars
    BY <2>3 DEF vars, history, O!vars, Outcome, Given, Unsettled
  <2>4. QED
    BY <2>1, <2>2, <2>3 DEF Next
<1>3. QED
  BY <1>1, <1>2, UnansweredHolds, LedgerInvariants, LedgerTypeCorrect, PTL
     DEF Spec, ImplementsOneShot, O!Spec

=============================================================================
