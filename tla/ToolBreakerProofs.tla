------------------------- MODULE ToolBreakerProofs -------------------------
(***************************************************************************)
(* Proofs about ToolBreaker, for every number of workers, threshold and    *)
(* bound: typing, then what the breaker's conditional writes guarantee.    *)
(***************************************************************************)
EXTENDS ToolBreaker, TLAPS

(***************************************************************************)
(* Typing                                                                  *)
(***************************************************************************)
LEMMA CallTypes ==
  ASSUME TypeOK, NEW w \in Workers
  PROVE  /\ \A p \in Steps : Goto(w, p) => call' \in [Workers -> Call]
         /\ EndCall(w) => call' \in [Workers -> Call]
         /\ \A s \in {"none", "CLOSED", "OPEN"} :
              Remember(w, s) => cache' \in [Workers -> {"none", "CLOSED", "OPEN"}]
<1>1. call \in [Workers -> Call] /\ call[w] \in Call /\ NoCall \in Call
  BY DEF TypeOK, Call, NoCall, Steps
<1>2. ASSUME NEW p \in Steps, Goto(w, p) PROVE call' \in [Workers -> Call]
  BY <1>1, <1>2 DEF Goto, Call
<1>3. EndCall(w) => call' \in [Workers -> Call]
  BY <1>1 DEF EndCall
<1>4. ASSUME NEW s \in {"none", "CLOSED", "OPEN"}, Remember(w, s)
      PROVE  cache' \in [Workers -> {"none", "CLOSED", "OPEN"}]
  BY <1>4 DEF Remember, TypeOK
<1>5. QED
  BY <1>2, <1>3, <1>4

\* What the writes leave in the row.
LEMMA RowTypes ==
  ASSUME TypeOK, NEW w \in Workers
  PROVE  /\ Leased \in Row /\ Opened \in Row /\ Incremented(w) \in Row
         /\ Rolled(w) \in Row /\ Settled(w) \in Row /\ InitRow \in Row
<1>1. row \in Row /\ call[w] \in Call
  BY DEF TypeOK
<1>a. row.version + 1 \in Nat /\ row.count + 1 \in Nat
  BY <1>1 DEF Row
<1>b. Leased \in Row
  BY <1>1, <1>a DEF Leased, Row, State
<1>c. Opened \in Row
  BY <1>1, <1>a DEF Opened, Row, State
<1>2. Incremented(w) \in Row /\ InitRow \in Row
  BY <1>1, <1>a DEF Incremented, InitRow, Row, State
<1>3. Rolled(w) \in Row
  BY <1>1 DEF Rolled, Row, Call
<1>4. Settled(w) \in Row
  <2>1. CASE call[w].bad
    BY <1>1, <1>a, <2>1 DEF Settled, Row, State
  <2>2. CASE ~call[w].bad
    BY <1>1, <1>a, <2>2 DEF Settled, Row, State
  <2>3. QED
    BY <2>1, <2>2
<1>5. QED
  BY <1>b, <1>c, <1>2, <1>3, <1>4

LEMMA ObservedTypes ==
  ASSUME TypeOK
  PROVE  /\ Unobserved \in [Windows -> Nat]
         /\ \A x \in Nat : [observed EXCEPT ![x] = @ + 1] \in [Windows -> Nat]
<1>1. Unobserved \in [Windows -> Nat]
  BY DEF Unobserved
<1>2. ASSUME NEW x \in Nat
      PROVE  [observed EXCEPT ![x] = @ + 1] \in [Windows -> Nat]
  <2>1. observed \in [Windows -> Nat]
    BY DEF TypeOK
  <2>2. CASE x \in Windows
    BY <2>1, <2>2
  <2>3. CASE x \notin Windows
    <3>1. [observed EXCEPT ![x] = @ + 1] = observed
      BY <2>1, <2>3
    <3>2. QED
      BY <2>1, <3>1
  <2>4. QED
    BY <2>2, <2>3
<1>3. QED
  BY <1>1, <1>2

LEMMA SettleTypes ==
  ASSUME TypeOK, NEW w \in Workers, SettleWrite(w)
  PROVE  /\ row' \in Row /\ observed' \in [Windows -> Nat]
         /\ opens' \in Nat /\ closings' \in Nat
         /\ missed' \in BOOLEAN /\ usurped' \in BOOLEAN
<1>1. row' \in Row
  BY RowTypes DEF SettleWrite
<1>2. observed' \in [Windows -> Nat] /\ closings' \in Nat
  BY ObservedTypes DEF SettleWrite, TypeOK
<1>3. opens' \in Nat /\ missed' \in BOOLEAN /\ usurped' \in BOOLEAN
  BY DEF SettleWrite, TypeOK
<1>4. QED
  BY <1>1, <1>2, <1>3

LEMMA CountedTypes ==
  ASSUME TypeOK, NEW w \in Workers, NEW r \in Row, Counted(w, r) PROVE TypeOK'
<1>1. call' \in [Workers -> Call]
  <2>1. CASE EndCall(w)
    BY <2>1, CallTypes
  <2>2. CASE call' = [call EXCEPT ![w].pc = "open", ![w].version = r.version]
    <3>1. call \in [Workers -> Call] /\ call[w] \in Call /\ r.version \in Nat
      BY DEF TypeOK, Row
    <3>2. [call[w] EXCEPT !.pc = "open", !.version = r.version] \in Call
      BY <3>1 DEF Call, Steps
    <3>3. QED
      BY <2>2, <3>1, <3>2
  <2>3. QED
    BY <2>1, <2>2 DEF Counted
<1>2. observed' \in [Windows -> Nat] /\ missed' \in BOOLEAN
  <2>1. call[w].window \in Nat
    BY DEF TypeOK, Call
  <2>2. QED
    BY <2>1, ObservedTypes DEF Counted, TypeOK
<1>3. QED
  BY <1>1, <1>2 DEF Counted, TypeOK, bounds

\* A step that only moves workers and their caches.
LEMMA OnlyWorkerTypes ==
  ASSUME TypeOK, OnlyWorker, call' \in [Workers -> Call],
         cache' \in [Workers -> {"none", "CLOSED", "OPEN"}]
  PROVE  TypeOK'
  BY DEF TypeOK, OnlyWorker, bounds, history

LEMMA TypeStep == TypeOK /\ [Next]_vars => TypeOK'
<1> SUFFICES ASSUME TypeOK, [Next]_vars PROVE TypeOK'
  OBVIOUS
<1>a. {"idle", "lease", "run", "settle", "count", "roll", "open"} = Steps
  BY DEF Steps
<1>1. ASSUME NEW w \in Workers, pre_check(w) PROVE TypeOK'
  <2>1. Goto(w, "run") \/ Goto(w, "lease") \/ UNCHANGED call
    BY <1>1 DEF pre_check
  <2>2. Remember(w, "CLOSED") \/ Remember(w, "OPEN") \/ UNCHANGED cache
    BY <1>1 DEF pre_check
  <2>3. call' \in [Workers -> Call]
    BY <2>1, <1>a, CallTypes DEF TypeOK
  <2>4. cache' \in [Workers -> {"none", "CLOSED", "OPEN"}]
    BY <2>2, CallTypes DEF TypeOK
  <2>5. QED
    BY <1>1, <2>3, <2>4, OnlyWorkerTypes DEF pre_check
<1>2. ASSUME NEW w \in Workers, _try_acquire_probe_lease(w) PROVE TypeOK'
  <2>1. row' \in Row
    BY <1>2, RowTypes DEF _try_acquire_probe_lease, TypeOK
  <2>2. cache' \in [Workers -> {"none", "CLOSED", "OPEN"}]
    BY <1>2, CallTypes DEF _try_acquire_probe_lease, TypeOK
  <2>3. CASE EndCall(w)
    BY <1>2, <2>1, <2>2, <2>3, CallTypes
    DEF _try_acquire_probe_lease, TypeOK, bounds, history
  <2>4. CASE call' = [call EXCEPT ![w].pc = "run", ![w].probe = TRUE,
                                  ![w].version = row.version + 1]
    <3>1. row.version + 1 \in Nat
      BY DEF TypeOK, Row
    <3>2. call' \in [Workers -> Call]
      <4>1. call[w] \in Call /\ call \in [Workers -> Call]
        BY DEF TypeOK
      <4>2. [call[w] EXCEPT !.pc = "run", !.probe = TRUE, !.version = row.version + 1] \in Call
        BY <3>1, <4>1 DEF Call, Steps
      <4>3. QED
        BY <2>4, <4>1, <4>2
    <3>3. QED
      BY <1>2, <2>1, <2>2, <3>2 DEF _try_acquire_probe_lease, TypeOK, bounds, history
  <2>5. QED
    BY <1>2, <2>3, <2>4 DEF _try_acquire_probe_lease
<1>3. ASSUME NEW w \in Workers, observe_success(w) PROVE TypeOK'
  <2>1. call' \in [Workers -> Call]
    BY <1>3, <1>a, CallTypes DEF observe_success
  <2>2. QED
    BY <1>3, <2>1, OnlyWorkerTypes DEF observe_success, TypeOK
<1>4. ASSUME NEW w \in Workers, observe_failure(w) PROVE TypeOK'
  <2>1. CASE EndCall(w)
    BY <1>4, <2>1, CallTypes DEF observe_failure, TypeOK, history
  <2>2. CASE call' = [call EXCEPT ![w].pc = "settle", ![w].bad = TRUE]
    <3>1. call' \in [Workers -> Call]
      BY <2>2 DEF TypeOK, Call, Steps
    <3>2. QED
      BY <1>4, <3>1 DEF observe_failure, TypeOK, history
  <2>3. CASE call' = [call EXCEPT ![w].pc = "count", ![w].window = window]
    <3>1. window \in Nat
      BY BreakerConstants DEF TypeOK, Windows
    <3>2. call' \in [Workers -> Call]
      BY <2>3, <3>1 DEF TypeOK, Call, Steps
    <3>3. QED
      BY <1>4, <3>2 DEF observe_failure, TypeOK, history
  <2>4. QED
    BY <1>4, <2>1, <2>2, <2>3 DEF observe_failure
<1>5. ASSUME NEW w \in Workers, _transition_from_probe(w) PROVE TypeOK'
  <2>1. call' \in [Workers -> Call] /\ cache' \in [Workers -> {"none", "CLOSED", "OPEN"}]
    BY <1>5, CallTypes DEF _transition_from_probe, TypeOK
  <2>2. CASE SettleWrite(w)
    BY <1>5, <2>1, <2>2, SettleTypes DEF _transition_from_probe, TypeOK, bounds
  <2>3. CASE UNCHANGED <<row, cache, history>>
    BY <1>5, <2>1, <2>3 DEF _transition_from_probe, TypeOK, bounds, history
  <2>4. QED
    BY <1>5, <2>2, <2>3 DEF _transition_from_probe
<1>6. ASSUME NEW w \in Workers, _increment_failure(w) PROVE TypeOK'
  <2>1. CASE Counted(w, Incremented(w))
    BY <2>1, RowTypes, CountedTypes
  <2>2. CASE Goto(w, "roll") /\ UNCHANGED cache /\ OnlyWorker
    <3>1. call' \in [Workers -> Call]
      BY <2>2, <1>a, CallTypes
    <3>2. QED
      BY <2>2, <3>1, OnlyWorkerTypes DEF TypeOK
  <2>3. QED
    BY <1>6, <2>1, <2>2 DEF _increment_failure
<1>7. ASSUME NEW w \in Workers, roll_window(w) PROVE TypeOK'
  <2>1. CASE Counted(w, Rolled(w))
    BY <2>1, RowTypes, CountedTypes
  <2>2. CASE EndCall(w) /\ UNCHANGED cache /\ OnlyWorker
    BY <2>2, CallTypes, OnlyWorkerTypes DEF TypeOK
  <2>3. QED
    BY <1>7, <2>1, <2>2 DEF roll_window
<1>8. ASSUME NEW w \in Workers, _count_and_maybe_open(w) PROVE TypeOK'
  <2>1. call' \in [Workers -> Call] /\ row' \in Row
        /\ cache' \in [Workers -> {"none", "CLOSED", "OPEN"}]
    BY <1>8, CallTypes, RowTypes DEF _count_and_maybe_open, TypeOK
  <2>2. opens' \in Nat
    BY <1>8 DEF _count_and_maybe_open, TypeOK
  <2>3. QED
    BY <1>8, <2>1, <2>2 DEF _count_and_maybe_open, TypeOK, bounds
<1>9. ASSUME NEW w \in Workers, request_error(w) PROVE TypeOK'
  <2>1. call' \in [Workers -> Call]
    BY <1>9, <1>a, CallTypes DEF request_error
  <2>2. missed' \in BOOLEAN
    <3>1. missed' = missed \/ missed' = (missed \/ call[w].pc = "open")
      BY <1>9 DEF request_error
    <3>2. QED
      BY <3>1, Zenon DEF TypeOK
  <2>3. faults' \in Nat
    BY <1>9 DEF request_error, TypeOK
  <2>4. QED
    BY <1>9, <2>1, <2>2, <2>3 DEF request_error, TypeOK
<1>10. ASSUME NEW w \in Workers, answer_lost(w) PROVE TypeOK'
  <2>1. call' \in [Workers -> Call]
    BY <1>10, CallTypes DEF answer_lost, TypeOK
  <2>2. row' \in Row
    BY <1>10, RowTypes, SettleTypes DEF answer_lost
  <2>3. observed' \in [Windows -> Nat]
    <3>1. call[w].window \in Nat
      BY DEF TypeOK, Call
    <3>2. QED
      BY <1>10, <3>1, ObservedTypes, SettleTypes DEF answer_lost, TypeOK, history
  <2>4. /\ opens' \in Nat /\ closings' \in Nat
        /\ missed' \in BOOLEAN /\ usurped' \in BOOLEAN
    BY <1>10, SettleTypes DEF answer_lost, TypeOK, history
  <2>5. faults' \in Nat
    BY <1>10 DEF answer_lost, TypeOK
  <2>6. QED
    BY <1>10, <2>1, <2>2, <2>3, <2>4, <2>5 DEF answer_lost, TypeOK
<1>11. ASSUME NEW w \in Workers, crash(w) PROVE TypeOK'
  <2>1. call' \in [Workers -> Call] /\ cache' \in [Workers -> {"none", "CLOSED", "OPEN"}]
    BY <1>11, CallTypes DEF crash
  <2>2. missed' \in BOOLEAN /\ faults' \in Nat
    BY <1>11 DEF crash, TypeOK
  <2>3. QED
    BY <1>11, <2>1, <2>2 DEF crash, TypeOK
<1>12. ASSUME NEW w \in Workers, cache_expires(w) PROVE TypeOK'
  BY <1>12, CallTypes, OnlyWorkerTypes DEF cache_expires, TypeOK
<1>13. ASSUME period_ends PROVE TypeOK'
  <2>1. PICK v \in Stamps \ elapsed : elapsed' = elapsed \cup {v}
    BY <1>13 DEF period_ends
  <2>2. v \in Nat
    BY DEF Stamps, TypeOK, Call, Row
  <2>3. QED
    BY <1>13, <2>1, <2>2 DEF period_ends, TypeOK, bounds, history
<1>14. ASSUME next_window PROVE TypeOK'
  <2>1. window' \in Windows
    BY <1>14, BreakerConstants DEF next_window, TypeOK, Windows
  <2>2. QED
    BY <1>14, <2>1 DEF next_window, TypeOK, bounds, history
<1>15. ASSUME replicate PROVE TypeOK'
  BY <1>15 DEF replicate, TypeOK, bounds, history
<1>16. ASSUME ttl_expiry PROVE TypeOK'
  <2>1. InitRow \in Row
    BY DEF InitRow, Row, State
  <2>2. closings' \in Nat
    BY <1>16 DEF ttl_expiry, TypeOK
  <2>3. QED
    BY <1>16, <2>1, <2>2, ObservedTypes DEF ttl_expiry, TypeOK, bounds
<1>17. CASE UNCHANGED vars
  BY <1>17 DEF vars, TypeOK, bounds, history
<1>18. QED
  BY <1>1, <1>2, <1>3, <1>4, <1>5, <1>6, <1>7, <1>8, <1>9, <1>10, <1>11, <1>12,
     <1>13, <1>14, <1>15, <1>16, <1>17
  DEF Next, Attempt, Fault, Environment

LEMMA TypeInit == Init => TypeOK
<1> SUFFICES ASSUME Init PROVE TypeOK
  OBVIOUS
<1>1. InitRow \in Row /\ NoCall \in Call /\ Unobserved \in [Windows -> Nat]
  BY DEF InitRow, Row, State, NoCall, Call, Steps, Unobserved
<1>2. 1 \in Windows
  BY BreakerConstants DEF Windows
<1>3. QED
  BY <1>1, <1>2 DEF Init, TypeOK

\* The breaker row, the workers' progress and what they cache keep their shape, for
\* every number of workers, of failures and of faults.
THEOREM BreakerTypeCorrect == Spec => []TypeOK
<1>1. QED
  BY TypeInit, TypeStep, PTL DEF Spec

(***************************************************************************)
(* The effects a step of a worker may have                                 *)
(***************************************************************************)
Inv ==
  /\ ProbesRun /\ Versions /\ LeaseHeld /\ CountBacked /\ OpenerBacked
  /\ OneFindingPerOpening /\ ThresholdActedOn

OthersKept(w) == \A d \in Workers : d # w => call'[d] = call[d]

FaultsMayGrow == faults' \in {faults, faults + 1}

Ends(w) == ~call'[w].probe /\ call'[w].pc = "idle"

\* It reads, calls the tool, or gives up: the row stays. Somebody who was about to open a
\* closed breaker and does not is noted as missed.
Rests(w) ==
  /\ UNCHANGED <<row, elapsed, observed, opens, closings, usurped>>
  /\ FaultsMayGrow
  /\ (missed' = missed) \/ missed'
  /\ call[w].pc = "open" => missed' \/ ~OpenCondition(w)
  /\ call'[w].pc # "open"
  /\ call'[w].probe =>
       call[w].probe /\ call'[w].version = call[w].version /\ call'[w].pc \in {"run", "settle"}
  /\ call'[w].pc = "settle" => call'[w].probe
  /\ call'[w].pc \in {"count", "roll"} => call'[w].window \in Windows

\* It adds a failure to a closed breaker's row.
Counts(w) ==
  /\ row.state = "CLOSED" /\ UNCHANGED <<elapsed, opens, closings, usurped>>
  /\ ~call[w].probe /\ ~call'[w].probe
  /\ call[w].pc \in {"count", "roll"}
  /\ call'[w].pc # "idle" => call'[w].window = call[w].window
  /\ \/ row' = Incremented(w) /\ row.window = call[w].window
     \/ row' = Rolled(w)
  /\ \/ /\ observed' = [observed EXCEPT ![call[w].window] = @ + 1]
        /\ FaultsMayGrow
     \/ observed' = observed /\ faults' = faults + 1 /\ row' = Incremented(w)
  /\ \/ /\ call'[w].pc = "open" /\ call'[w].version = row.version
        /\ row'.count >= Threshold
        /\ observed' = [observed EXCEPT ![call[w].window] = @ + 1]
     \/ call'[w].pc \in {"idle", "count"} /\ (missed' \/ row'.count < Threshold)

Leases(w) ==
  /\ LeaseFree /\ row' = Leased
  /\ UNCHANGED <<elapsed, observed, opens, closings, missed, usurped>> /\ FaultsMayGrow
  /\ call[w].pc = "lease"
  /\ \/ call'[w].probe /\ call'[w].version = row.version + 1 /\ call'[w].pc = "run"
     \/ Ends(w)

Settles(w) ==
  /\ call[w].pc = "settle" /\ SettleWrite(w) /\ Ends(w)
  /\ UNCHANGED elapsed /\ FaultsMayGrow

Opens(w) ==
  /\ call[w].pc = "open" /\ OpenCondition(w) /\ row' = Opened /\ Ends(w)
  /\ UNCHANGED <<elapsed, observed, closings, missed, usurped>> /\ FaultsMayGrow
  /\ opens' \in {opens, opens + 1}

Effect(w) ==
  /\ OthersKept(w)
  /\ Rests(w) \/ Counts(w) \/ Leases(w) \/ Settles(w) \/ Opens(w)

LEMMA CallKept ==
  ASSUME TypeOK, NEW w \in Workers
  PROVE  /\ \A s \in Steps : Goto(w, s) =>
              OthersKept(w) /\ call'[w] = [call[w] EXCEPT !.pc = s]
         /\ EndCall(w) => OthersKept(w) /\ Ends(w)
<1>1. call \in [Workers -> Call]
  BY DEF TypeOK
<1>2. EndCall(w) => OthersKept(w) /\ Ends(w)
  BY <1>1 DEF EndCall, OthersKept, Ends, NoCall
<1>3. ASSUME NEW s \in Steps, Goto(w, s)
      PROVE  OthersKept(w) /\ call'[w] = [call[w] EXCEPT !.pc = s]
  BY <1>1, <1>3 DEF Goto, OthersKept
<1>4. QED
  BY <1>2, <1>3

LEMMA CountedEffect ==
  ASSUME TypeOK, Inv, NEW w \in Workers, call[w].pc \in {"count", "roll"},
         NEW r \in Row, Counted(w, r), row.state = "CLOSED", r.version = row.version,
         (r = Incremented(w) /\ row.window = call[w].window) \/ r = Rolled(w)
  PROVE  Effect(w)
<1>1. call[w] \in Call /\ call \in [Workers -> Call] /\ r.count \in Nat
  BY DEF TypeOK, Row
<1>2. ~call[w].probe
  BY DEF Inv, ProbesRun
<1>3. /\ row' = r /\ observed' = [observed EXCEPT ![call[w].window] = @ + 1]
      /\ UNCHANGED <<elapsed, opens, closings, usurped, faults>>
  BY DEF Counted, bounds
<1>4. CASE /\ crosses_threshold(r.count) /\ missed' = FALSE
           /\ call' = [call EXCEPT ![w].pc = "open", ![w].version = r.version]
  <2>1. call'[w].pc = "open" /\ call'[w].version = row.version
        /\ call'[w].window = call[w].window /\ call'[w].probe = call[w].probe
    BY <1>1, <1>4 DEF Call
  <2>2. OthersKept(w)
    BY <1>1, <1>4 DEF OthersKept
  <2>3. Counts(w)
    BY <1>2, <1>3, <1>4, <2>1 DEF Counts, crosses_threshold, FaultsMayGrow
  <2>4. QED
    BY <2>2, <2>3 DEF Effect
<1>5. CASE ~crosses_threshold(r.count) /\ EndCall(w)
  <2>1. OthersKept(w) /\ Ends(w)
    BY <1>5, CallKept
  <2>2. r.count < Threshold
    BY <1>1, <1>5, BreakerConstants DEF crosses_threshold
  <2>3. Counts(w)
    BY <1>2, <1>3, <2>1, <2>2 DEF Counts, Ends, FaultsMayGrow
  <2>4. QED
    BY <2>1, <2>3 DEF Effect
<1>6. QED
  BY <1>4, <1>5 DEF Counted

LEMMA WorkerEffect ==
  ASSUME TypeOK, Inv, NEW w \in Workers, Attempt(w) \/ Fault(w)
  PROVE  Effect(w)
<1>a. call \in [Workers -> Call] /\ call[w] \in Call /\ faults \in Nat /\ row \in Row
  BY DEF TypeOK
<1>b. {"idle", "lease", "run", "settle", "count", "roll", "open"} = Steps
  BY DEF Steps
<1>c. /\ call[w].probe => call[w].pc \in {"run", "settle"}
      /\ call[w].pc = "settle" => call[w].probe
      /\ call[w].pc \in {"count", "roll"} => call[w].window \in Windows
  BY DEF Inv, ProbesRun, CountBacked
<1>1. CASE pre_check(w)
  <2>1. Goto(w, "run") \/ Goto(w, "lease") \/ UNCHANGED call
    BY <1>1 DEF pre_check
  <2>2. call[w].pc = "idle" /\ OnlyWorker
    BY <1>1 DEF pre_check
  <2>3. OthersKept(w) /\ call'[w].probe = call[w].probe
        /\ call'[w].pc \in {"idle", "run", "lease"}
    <3>1. \A p \in {"run", "lease"} : Goto(w, p) =>
            OthersKept(w) /\ call'[w] = [call[w] EXCEPT !.pc = p]
      BY <1>b, CallKept
    <3>2. CASE \E p \in {"run", "lease"} : Goto(w, p)
      BY <3>1, <3>2, <1>a DEF Call
    <3>3. CASE UNCHANGED call
      BY <3>3, <2>2 DEF OthersKept
    <3>4. QED
      BY <2>1, <3>2, <3>3
  <2>4. Rests(w)
    BY <2>2, <2>3, <1>c DEF Rests, OnlyWorker, FaultsMayGrow, bounds, history
  <2>5. QED
    BY <2>3, <2>4 DEF Effect
<1>2. CASE _try_acquire_probe_lease(w)
  <2>1. CASE LeaseFree /\ call' = [call EXCEPT ![w].pc = "run", ![w].probe = TRUE,
                                               ![w].version = row.version + 1]
    <3>1. OthersKept(w) /\ call'[w].probe /\ call'[w].version = row.version + 1
          /\ call'[w].pc = "run"
      BY <2>1, <1>a DEF OthersKept, Call
    <3>2. row' = Leased
      BY <1>2, <2>1 DEF _try_acquire_probe_lease
    <3>3. Leases(w)
      BY <1>2, <2>1, <3>1, <3>2
      DEF _try_acquire_probe_lease, Leases, FaultsMayGrow, bounds, history
    <3>4. QED
      BY <3>1, <3>3 DEF Effect
  <2>2. CASE ~LeaseFree /\ EndCall(w)
    <3>1. OthersKept(w) /\ Ends(w)
      BY <2>2, CallKept
    <3>2. Rests(w)
      BY <1>2, <2>2, <3>1
      DEF _try_acquire_probe_lease, Rests, Ends, FaultsMayGrow, bounds, history
    <3>3. QED
      BY <3>1, <3>2 DEF Effect
  <2>3. QED
    BY <1>2, <2>1, <2>2 DEF _try_acquire_probe_lease
<1>3. CASE observe_success(w)
  <2>1. OnlyWorker /\ call[w].pc = "run"
    BY <1>3 DEF observe_success
  <2>2. CASE call[w].probe /\ Goto(w, "settle")
    <3>1. OthersKept(w) /\ call'[w] = [call[w] EXCEPT !.pc = "settle"]
      BY <2>2, <1>b, CallKept
    <3>2. call'[w].pc = "settle" /\ call'[w].probe /\ call'[w].version = call[w].version
      BY <2>2, <3>1, <1>a DEF Call
    <3>3. Rests(w)
      BY <2>1, <2>2, <3>2 DEF Rests, OnlyWorker, FaultsMayGrow, bounds, history
    <3>4. QED
      BY <3>1, <3>3 DEF Effect
  <2>3. CASE EndCall(w)
    <3>1. OthersKept(w) /\ Ends(w)
      BY <2>3, CallKept
    <3>2. Rests(w)
      BY <2>1, <3>1 DEF Rests, Ends, OnlyWorker, FaultsMayGrow, bounds, history
    <3>3. QED
      BY <3>1, <3>2 DEF Effect
  <2>4. QED
    BY <1>3, <2>2, <2>3 DEF observe_success
<1>4. CASE observe_failure(w)
  <2>1. CASE EndCall(w)
    <3>1. OthersKept(w) /\ Ends(w)
      BY <2>1, CallKept
    <3>2. Rests(w)
      BY <1>4, <3>1 DEF observe_failure, Rests, Ends, FaultsMayGrow, history
    <3>3. QED
      BY <3>1, <3>2 DEF Effect
  <2>2. CASE call[w].probe /\ call' = [call EXCEPT ![w].pc = "settle", ![w].bad = TRUE]
    <3>1. OthersKept(w) /\ call'[w].pc = "settle" /\ call'[w].probe
          /\ call'[w].version = call[w].version
      BY <2>2, <1>a DEF OthersKept, Call
    <3>2. Rests(w)
      BY <1>4, <2>2, <3>1 DEF observe_failure, Rests, FaultsMayGrow, history
    <3>3. QED
      BY <3>1, <3>2 DEF Effect
  <2>3. CASE ~call[w].probe /\ call' = [call EXCEPT ![w].pc = "count", ![w].window = window]
    <3>1. OthersKept(w) /\ call'[w].pc = "count" /\ ~call'[w].probe
          /\ call'[w].window = window /\ window \in Windows
      BY <2>3, <1>a DEF OthersKept, Call, TypeOK
    <3>2. Rests(w)
      BY <1>4, <2>3, <3>1 DEF observe_failure, Rests, FaultsMayGrow, history
    <3>3. QED
      BY <3>1, <3>2 DEF Effect
  <2>4. QED
    BY <1>4, <2>1, <2>2, <2>3 DEF observe_failure
<1>5. CASE _transition_from_probe(w)
  <2>1. OthersKept(w) /\ Ends(w)
    BY <1>5, CallKept DEF _transition_from_probe
  <2>2. CASE SettleWrite(w)
    BY <1>5, <2>1, <2>2 DEF _transition_from_probe, Settles, FaultsMayGrow, bounds, Effect
  <2>3. CASE UNCHANGED <<row, cache, history>>
    BY <1>5, <2>1, <2>3
    DEF _transition_from_probe, Rests, Ends, FaultsMayGrow, bounds, history, Effect
  <2>4. QED
    BY <1>5, <2>2, <2>3 DEF _transition_from_probe
<1>6. CASE _increment_failure(w)
  <2>1. CASE InWindow(w) /\ Counted(w, Incremented(w))
    <3>1. Incremented(w) \in Row /\ Incremented(w).version = row.version
      BY <1>a, RowTypes DEF Incremented, Row
    <3>2. call[w].pc = "count" /\ row.state = "CLOSED" /\ row.window = call[w].window
      BY <1>6, <2>1 DEF _increment_failure, InWindow
    <3>3. QED
      BY <2>1, <3>1, <3>2, CountedEffect
  <2>2. CASE Goto(w, "roll") /\ OnlyWorker
    <3>1. OthersKept(w) /\ call'[w] = [call[w] EXCEPT !.pc = "roll"] /\ call[w].pc = "count"
      BY <1>6, <2>2, <1>b, CallKept DEF _increment_failure
    <3>2. call'[w].pc = "roll" /\ ~call'[w].probe /\ call'[w].window = call[w].window
      BY <3>1, <1>a, <1>c DEF Call
    <3>3. Rests(w)
      BY <2>2, <3>1, <3>2, <1>c DEF Rests, OnlyWorker, FaultsMayGrow, bounds, history
    <3>4. QED
      BY <3>1, <3>3 DEF Effect
  <2>3. QED
    BY <1>6, <2>1, <2>2 DEF _increment_failure
<1>7. CASE roll_window(w)
  <2>1. CASE WindowOver(w) /\ Counted(w, Rolled(w))
    <3>1. Rolled(w) \in Row /\ Rolled(w).version = row.version
      BY <1>a, RowTypes DEF Rolled, Row
    <3>2. call[w].pc = "roll" /\ row.state = "CLOSED"
      BY <1>7, <2>1 DEF roll_window, WindowOver
    <3>3. QED
      BY <2>1, <3>1, <3>2, CountedEffect
  <2>2. CASE EndCall(w) /\ OnlyWorker
    <3>1. OthersKept(w) /\ Ends(w) /\ call[w].pc = "roll"
      BY <1>7, <2>2, CallKept DEF roll_window
    <3>2. QED
      BY <2>2, <3>1 DEF Rests, Ends, OnlyWorker, FaultsMayGrow, bounds, history, Effect
  <2>3. QED
    BY <1>7, <2>1, <2>2 DEF roll_window
<1>8. CASE _count_and_maybe_open(w)
  <2>1. OthersKept(w) /\ Ends(w)
    BY <1>8, CallKept DEF _count_and_maybe_open
  <2>2. CASE OpenCondition(w) /\ row' = Opened /\ opens' = opens + 1
    BY <1>8, <2>1, <2>2 DEF _count_and_maybe_open, Opens, FaultsMayGrow, bounds, Effect
  <2>3. CASE ~OpenCondition(w) /\ UNCHANGED <<row, cache, opens>>
    BY <1>8, <2>1, <2>3
    DEF _count_and_maybe_open, Rests, Ends, FaultsMayGrow, bounds, Effect
  <2>4. QED
    BY <1>8, <2>2, <2>3 DEF _count_and_maybe_open
<1>9. CASE request_error(w)
  <2>1. CASE call[w].pc = "idle" /\ Goto(w, "run") /\ UNCHANGED missed
    <3>1. OthersKept(w) /\ call'[w].pc = "run" /\ ~call'[w].probe
      <4>1. OthersKept(w) /\ call'[w] = [call[w] EXCEPT !.pc = "run"]
        BY <2>1, <1>b, CallKept
      <4>2. QED
        BY <2>1, <4>1, <1>a, <1>c DEF Call
    <3>2. QED
      BY <1>9, <2>1, <3>1 DEF request_error, Rests, FaultsMayGrow, Effect
  <2>2. CASE EndCall(w) /\ missed' = (missed \/ call[w].pc = "open")
    <3>1. OthersKept(w) /\ Ends(w)
      BY <2>2, CallKept
    <3>2. (missed' = missed \/ missed') /\ (call[w].pc = "open" => missed')
      BY <2>2, Zenon DEF TypeOK
    <3>3. QED
      BY <1>9, <3>1, <3>2 DEF request_error, Rests, Ends, FaultsMayGrow, Effect
  <2>3. QED
    BY <1>9, <2>1, <2>2 DEF request_error
<1>10. CASE answer_lost(w)
  <2>1. UNCHANGED elapsed /\ FaultsMayGrow /\ faults' = faults + 1
    BY <1>10 DEF answer_lost, FaultsMayGrow
  <2>2. CASE call[w].pc = "lease" /\ LeaseFree /\ row' = Leased /\ EndCall(w) /\ UNCHANGED history
    BY <2>1, <2>2, CallKept DEF Leases, history, Effect
  <2>3. CASE call[w].pc = "settle" /\ SettleWrite(w) /\ EndCall(w)
    BY <2>1, <2>3, CallKept DEF Settles, Effect
  <2>4. CASE call[w].pc = "open" /\ OpenCondition(w) /\ row' = Opened /\ EndCall(w)
             /\ UNCHANGED history
    BY <2>1, <2>4, CallKept DEF Opens, history, Effect
  <2>5. CASE /\ \/ call[w].pc = "count" /\ InWindow(w) /\ row' = Incremented(w)
                \/ call[w].pc = "roll" /\ WindowOver(w) /\ row' = Rolled(w)
             /\ \/ EndCall(w) /\ observed' = [observed EXCEPT ![call[w].window] = @ + 1]
                \/ call[w].pc = "count" /\ UNCHANGED <<call, observed>>
             /\ missed' = TRUE /\ UNCHANGED <<opens, closings, usurped>>
    <3>1. row.state = "CLOSED" /\ ~call[w].probe
      BY <2>5, <1>c DEF InWindow, WindowOver
    <3>2. \/ row' = Incremented(w) /\ row.window = call[w].window
          \/ row' = Rolled(w)
      BY <2>5 DEF InWindow
    <3>3. CASE EndCall(w) /\ observed' = [observed EXCEPT ![call[w].window] = @ + 1]
      <4>1. OthersKept(w) /\ Ends(w)
        BY <3>3, CallKept
      <4>2. Counts(w)
        BY <2>1, <2>5, <3>1, <3>2, <3>3, <4>1 DEF Counts, Ends
      <4>3. QED
        BY <4>1, <4>2 DEF Effect
    <3>4. CASE call[w].pc = "count" /\ UNCHANGED <<call, observed>>
      <4>1. OthersKept(w) /\ row' = Incremented(w)
        BY <2>5, <3>4 DEF OthersKept
      <4>2. Counts(w)
        BY <2>1, <2>5, <3>1, <3>2, <3>4, <4>1 DEF Counts
      <4>3. QED
        BY <4>1, <4>2 DEF Effect
    <3>5. QED
      BY <2>5, <3>3, <3>4
  <2>6. QED
    BY <1>10, <2>2, <2>3, <2>4, <2>5 DEF answer_lost
<1>11. CASE crash(w)
  <2>1. OthersKept(w) /\ Ends(w)
    BY <1>11, CallKept DEF crash
  <2>2. (missed' = missed \/ missed') /\ (call[w].pc = "open" => missed')
    <3>1. missed' = (missed \/ call[w].pc = "open")
      BY <1>11 DEF crash
    <3>2. QED
      BY <3>1, Zenon DEF TypeOK
  <2>3. QED
    BY <1>11, <2>1, <2>2 DEF crash, Rests, Ends, FaultsMayGrow, Effect
<1>12. QED
  BY <1>1, <1>2, <1>3, <1>4, <1>5, <1>6, <1>7, <1>8, <1>9, <1>10, <1>11
  DEF Attempt, Fault

(***************************************************************************)
(* Each effect keeps the invariants                                        *)
(***************************************************************************)
\* What the row's writes do to the fields the invariants look at.
LEMMA RowWrites ==
  ASSUME TypeOK, NEW w \in Workers
  PROVE  /\ Leased.state = "HALF_OPEN" /\ Leased.version = row.version + 1
         /\ Leased.count = row.count /\ Leased.window = row.window
         /\ Opened.state = "OPEN" /\ Opened.version = row.version + 1
         /\ Opened.count = row.count /\ Opened.window = row.window
         /\ Settled(w).state \in {"OPEN", "CLOSED"}
         /\ Settled(w).version = row.version + 1 /\ Settled(w).window = row.window
         /\ call[w].bad => Settled(w).state = "OPEN" /\ Settled(w).count = row.count
         /\ ~call[w].bad => Settled(w).state = "CLOSED" /\ Settled(w).count = 0
         /\ Incremented(w).state = row.state /\ Incremented(w).version = row.version
         /\ Incremented(w).count = row.count + 1 /\ Incremented(w).window = row.window
         /\ Rolled(w).state = row.state /\ Rolled(w).version = row.version
         /\ Rolled(w).count = 1 /\ Rolled(w).window = call[w].window
<1>1. row \in Row
  BY DEF TypeOK
<1>2. QED
  BY <1>1 DEF Leased, Opened, Settled, Incremented, Rolled, Row

LEMMA Numbers ==
  ASSUME TypeOK
  PROVE  /\ row.version \in Nat /\ row.count \in Nat /\ row.window \in Nat
         /\ row.state \in State
         /\ elapsed \subseteq Nat /\ faults \in Nat /\ opens \in Nat /\ closings \in Nat
         /\ observed \in [Windows -> Nat]
         /\ \A w \in Workers : call[w].version \in Nat /\ call[w].window \in Nat
  BY DEF TypeOK, Row, Call

LEMMA ProbesStep ==
  ASSUME TypeOK, Inv, NEW w \in Workers, Effect(w) PROVE ProbesRun' /\ Versions' /\ LeaseHeld'
<1> USE DEF Probing
<1>1. ProbesRun /\ Versions /\ LeaseHeld
  BY DEF Inv
<1>2. \A d \in Workers : d # w => call'[d] = call[d]
  BY DEF Effect, OthersKept
<1>3. CASE Rests(w)
  <2>1. UNCHANGED <<row, elapsed, usurped>>
    BY <1>3 DEF Rests
  <2>2. ProbesRun'
    BY <1>1, <1>2, <1>3 DEF ProbesRun, Rests
  <2>3. Versions' /\ LeaseHeld'
    BY <1>1, <1>2, <1>3, <2>1 DEF Versions, LeaseHeld, Rests
  <2>4. QED
    BY <2>2, <2>3
<1>4. CASE Counts(w)
  <2>1. /\ UNCHANGED <<elapsed, usurped>>
        /\ row'.state = row.state /\ row'.version = row.version
        /\ ~call'[w].probe /\ call'[w].pc \in {"open", "idle", "count"}
        /\ call'[w].pc = "open" => call'[w].version = row.version
    BY <1>4, RowWrites DEF Counts
  <2>2. ProbesRun'
    BY <1>1, <1>2, <2>1 DEF ProbesRun
  <2>3. Versions' /\ LeaseHeld'
    BY <1>1, <1>2, <2>1, Numbers DEF Versions, LeaseHeld
  <2>4. QED
    BY <2>2, <2>3
<1>5. CASE Leases(w)
  <2>1. /\ UNCHANGED <<elapsed, usurped>> /\ LeaseFree
        /\ row'.state = "HALF_OPEN" /\ row'.version = row.version + 1
        /\ \/ call'[w].probe /\ call'[w].version = row.version + 1 /\ call'[w].pc = "run"
           \/ ~call'[w].probe /\ call'[w].pc = "idle"
    BY <1>5, RowWrites DEF Leases, Ends
  <2>2. ProbesRun'
    BY <1>1, <1>2, <2>1 DEF ProbesRun
  <2>3. Versions'
    BY <1>1, <1>2, <2>1, Numbers DEF Versions
  <2>4. \A d \in Workers : Probing(d) /\ call[d].version \notin elapsed => usurped
    BY <1>1, <2>1 DEF LeaseHeld, LeaseFree
  <2>5. LeaseHeld'
    BY <1>2, <2>1, <2>4 DEF LeaseHeld
  <2>6. QED
    BY <2>2, <2>3, <2>5
<1>6. CASE Settles(w)
  <2>1. /\ UNCHANGED elapsed /\ row'.version = row.version + 1
        /\ ~call'[w].probe /\ call'[w].pc = "idle" /\ call[w].probe
        /\ usurped' = (usurped \/ row.version # call[w].version)
    BY <1>1, <1>6, RowWrites DEF Settles, SettleWrite, Ends, ProbesRun
  <2>2. ProbesRun'
    BY <1>1, <1>2, <2>1 DEF ProbesRun
  <2>3. Versions'
    BY <1>1, <1>2, <2>1, Numbers DEF Versions
  <2>4. ASSUME NEW d \in Workers, Probing(d)', (call[d].version \notin elapsed)'
        PROVE  usurped'
    <3>1. d # w /\ Probing(d) /\ call[d].version \notin elapsed
      BY <1>2, <2>1, <2>4
    <3>2. usurped \/ row.version = call[d].version
      BY <1>1, <3>1 DEF LeaseHeld
    <3>3. call[d].version # call[w].version
      BY <1>1, <2>1, <3>1 DEF Versions
    <3>4. CASE usurped
      BY <2>1, <3>4
    <3>5. CASE row.version = call[d].version
      BY <2>1, <3>3, <3>5
    <3>6. QED
      BY <3>2, <3>4, <3>5
  <2>5. LeaseHeld'
    BY <2>4 DEF LeaseHeld
  <2>6. QED
    BY <2>2, <2>3, <2>5
<1>7. CASE Opens(w)
  <2>1. /\ UNCHANGED <<elapsed, usurped>> /\ row.state = "CLOSED"
        /\ row'.version = row.version + 1
        /\ ~call'[w].probe /\ call'[w].pc = "idle"
    BY <1>7, RowWrites DEF Opens, OpenCondition, Ends
  <2>2. ProbesRun'
    BY <1>1, <1>2, <2>1 DEF ProbesRun
  <2>3. Versions'
    BY <1>1, <1>2, <2>1, Numbers DEF Versions
  <2>4. LeaseHeld'
    BY <1>1, <1>2, <2>1 DEF LeaseHeld
  <2>5. QED
    BY <2>2, <2>3, <2>4
<1>8. QED
  BY <1>3, <1>4, <1>5, <1>6, <1>7 DEF Effect

LEMMA FindingsStep ==
  ASSUME TypeOK, Inv, NEW w \in Workers, Effect(w) PROVE OneFindingPerOpening'
<1>1. OneFindingPerOpening
  BY DEF Inv
<1>2. CASE Rests(w)
  BY <1>1, <1>2 DEF Rests, OneFindingPerOpening
<1>3. CASE Counts(w)
  <2>1. row'.state = row.state /\ UNCHANGED <<opens, closings>>
    BY <1>3, RowWrites DEF Counts
  <2>2. QED
    BY <1>1, <2>1 DEF OneFindingPerOpening
<1>4. CASE Leases(w)
  <2>1. /\ row.state # "CLOSED" /\ row'.state # "CLOSED" /\ UNCHANGED <<opens, closings>>
    BY <1>4, RowWrites DEF Leases, LeaseFree
  <2>2. QED
    BY <1>1, <2>1 DEF OneFindingPerOpening
<1>5. CASE Settles(w)
  <2>1. /\ row.state = "HALF_OPEN" /\ opens' = opens
        /\ \/ row'.state = "OPEN" /\ closings' = closings
           \/ row'.state = "CLOSED" /\ closings' = closings + 1
    BY <1>5, RowWrites DEF Settles, SettleWrite
  <2>2. QED
    BY <1>1, <2>1, Numbers DEF OneFindingPerOpening
<1>6. CASE Opens(w)
  <2>1. /\ row.state = "CLOSED" /\ row'.state = "OPEN"
        /\ opens' \in {opens, opens + 1} /\ closings' = closings
    BY <1>6, RowWrites DEF Opens, OpenCondition
  <2>2. QED
    BY <1>1, <2>1, Numbers DEF OneFindingPerOpening
<1>7. QED
  BY <1>2, <1>3, <1>4, <1>5, <1>6 DEF Effect

LEMMA ThresholdStep ==
  ASSUME TypeOK, Inv, NEW w \in Workers, Effect(w) PROVE ThresholdActedOn'
<1>1. ThresholdActedOn
  BY DEF Inv
<1>2. \A d \in Workers : d # w => call'[d] = call[d]
  BY DEF Effect, OthersKept
<1>3. CASE Rests(w)
  <2>1. /\ row' = row /\ (missed => missed')
        /\ call[w].pc = "open" => missed' \/ ~OpenCondition(w)
    BY <1>3 DEF Rests
  <2>2. SUFFICES ASSUME row.state = "CLOSED", row.count >= Threshold, ~missed'
                 PROVE  \E d \in Workers : call'[d].pc = "open" /\ call'[d].version = row.version
    BY <2>1 DEF ThresholdActedOn
  <2>3. PICK d \in Workers : call[d].pc = "open" /\ call[d].version = row.version
    BY <1>1, <2>1, <2>2 DEF ThresholdActedOn
  <2>4. d # w
    BY <2>1, <2>2, <2>3 DEF OpenCondition
  <2>5. QED
    BY <1>2, <2>3, <2>4
<1>4. CASE Counts(w)
  <2>1. row'.version = row.version /\ row'.count \in Nat
    BY <1>4, RowWrites, Numbers DEF Counts
  <2>2. CASE call'[w].pc = "open" /\ call'[w].version = row.version
    BY <2>1, <2>2 DEF ThresholdActedOn
  <2>3. CASE missed' \/ row'.count < Threshold
    BY <2>1, <2>3, BreakerConstants DEF ThresholdActedOn
  <2>4. QED
    BY <1>4, <2>2, <2>3 DEF Counts
<1>5. CASE Leases(w)
  BY <1>5, RowWrites DEF Leases, ThresholdActedOn
<1>6. CASE Settles(w)
  <2>1. row'.state = "OPEN" \/ row'.count = 0
    BY <1>6, RowWrites DEF Settles, SettleWrite
  <2>2. QED
    BY <2>1, BreakerConstants DEF ThresholdActedOn
<1>7. CASE Opens(w)
  BY <1>7, RowWrites DEF Opens, ThresholdActedOn
<1>8. QED
  BY <1>3, <1>4, <1>5, <1>6, <1>7 DEF Effect

\* The observations of the current episode and the requests that failed only grow.
LEMMA EvidenceGrows ==
  ASSUME TypeOK, NEW x \in Windows, NEW y \in Windows,
         \/ observed' = observed
         \/ observed' = [observed EXCEPT ![y] = @ + 1],
         FaultsMayGrow
  PROVE  observed[x] + faults <= observed'[x] + faults'
<1>1. observed \in [Windows -> Nat] /\ faults \in Nat
  BY Numbers
<1>2. observed'[x] \in {observed[x], observed[x] + 1}
  BY <1>1
<1>3. observed[x] \in Nat
  BY <1>1
<1>4. QED
  BY <1>1, <1>2, <1>3 DEF FaultsMayGrow

LEMMA EvidenceStep ==
  ASSUME TypeOK, Inv, NEW w \in Workers, Effect(w) PROVE CountBacked' /\ OpenerBacked'
<1>1. CountBacked /\ OpenerBacked /\ Versions
  BY DEF Inv
<1>2. \A d \in Workers : d # w => call'[d] = call[d]
  BY DEF Effect, OthersKept
<1> DEFINE Backed == \/ row.window = 0 /\ row.count = 0
                     \/ row.window \in Windows /\ row.count <= observed[row.window] + faults
<1>b. Backed
  BY <1>1 DEF CountBacked
<1>w. \A d \in Workers : call[d].pc \in {"count", "roll"} => call[d].window \in Windows
  BY <1>1 DEF CountBacked
<1>n. /\ faults \in Nat /\ observed \in [Windows -> Nat] /\ row.count \in Nat
      /\ \A x \in Windows : observed[x] \in Nat
  BY Numbers
<1>g. ASSUME observed' = observed, FaultsMayGrow, row.window' = row.window, row.count' = row.count
      PROVE  Backed'
  BY <1>b, <1>g, <1>n DEF FaultsMayGrow
\* A worker that is about to open keeps its reasons while its version stands.
<1>o. ASSUME observed' = observed, FaultsMayGrow, row.version' = row.version,
             row.state' = row.state, call'[w].pc # "open"
      PROVE  OpenerBacked'
  <2>1. ASSUME NEW d \in Workers, call'[d].pc = "open", row'.state = "CLOSED",
               call'[d].version = row'.version
        PROVE  \E x \in Windows : observed'[x] + faults' >= Threshold
    <3>1. call[d].pc = "open" /\ row.state = "CLOSED" /\ call[d].version = row.version
      BY <1>2, <1>o, <2>1
    <3>2. PICK x \in Windows : observed[x] + faults >= Threshold
      BY <1>1, <3>1 DEF OpenerBacked
    <3>3. observed'[x] + faults' >= Threshold
      BY <1>o, <1>n, <3>2, BreakerConstants DEF FaultsMayGrow
    <3>4. QED
      BY <3>3
  <2>2. QED
    BY <2>1 DEF OpenerBacked
<1>3. CASE Rests(w)
  <2>1. /\ row' = row /\ observed' = observed /\ FaultsMayGrow /\ call'[w].pc # "open"
        /\ call'[w].pc \in {"count", "roll"} => call'[w].window \in Windows
    BY <1>3 DEF Rests
  <2>2. Backed' /\ OpenerBacked'
    BY <2>1, <1>g, <1>o
  <2>3. QED
    BY <2>1, <2>2, <1>w, <1>2 DEF CountBacked
<1>4. CASE Counts(w)
  <2> DEFINE y == call[w].window
  <2>1. /\ y \in Windows
        /\ call'[w].pc \in {"open", "idle", "count"}
        /\ call'[w].pc = "count" => call'[w].window \in Windows
    BY <1>4, <1>w DEF Counts
  <2>2. /\ row'.version = row.version /\ row'.state = row.state
        /\ \/ row'.window = y /\ row.window = y /\ row'.count = row.count + 1
           \/ row'.window = y /\ row'.count = 1
    BY <1>4, RowWrites DEF Counts
  <2>3. ASSUME observed' = [observed EXCEPT ![y] = @ + 1], FaultsMayGrow
        PROVE  row'.count <= observed'[y] + faults'
    <3>1. observed'[y] = observed[y] + 1 /\ observed[y] \in Nat /\ faults' \in {faults, faults + 1}
      BY <2>1, <2>3, <1>n DEF FaultsMayGrow
    <3>2. 0 \notin Windows
      BY DEF Windows
    <3>3. QED
      BY <1>b, <1>n, <2>1, <2>2, <3>1, <3>2
  <2>4. ASSUME observed' = observed, faults' = faults + 1, row' = Incremented(w)
        PROVE  row'.count <= observed'[y] + faults'
    <3>1. row'.window = row.window /\ row'.count = row.count + 1
      BY <2>4, RowWrites
    <3>2. row.window = y
      BY <1>4, <2>4, <3>1, <2>2
    <3>3. 0 \notin Windows
      BY DEF Windows
    <3>4. row.count <= observed[y] + faults /\ observed[y] \in Nat
      BY <1>b, <1>n, <2>1, <3>2, <3>3
    <3>5. QED
      BY <2>4, <3>1, <3>4, <1>n
  <2>5. Backed'
    <3>1. \/ observed' = [observed EXCEPT ![y] = @ + 1] /\ FaultsMayGrow
          \/ observed' = observed /\ faults' = faults + 1 /\ row' = Incremented(w)
      BY <1>4 DEF Counts
    <3>2. row'.window = y /\ row'.count <= observed'[y] + faults'
      BY <2>2, <2>3, <2>4, <3>1
    <3>3. QED
      BY <2>1, <3>2
  <2>6. CountBacked'
    BY <2>1, <2>5, <1>w, <1>2 DEF CountBacked
  <2>7. \A x \in Windows : observed[x] + faults <= observed'[x] + faults'
    BY <1>4, <2>1, EvidenceGrows DEF Counts, FaultsMayGrow
  <2>8. ASSUME NEW d \in Workers, call'[d].pc = "open", row'.state = "CLOSED",
               call'[d].version = row'.version
        PROVE  \E x \in Windows : observed'[x] + faults' >= Threshold
    <3>1. CASE d = w
      <4>1. row'.count >= Threshold
        BY <1>4, <2>8, <3>1 DEF Counts
      <4>2. row'.window = y /\ row'.count <= observed'[y] + faults'
        <5>1. 0 \notin Windows
          BY DEF Windows
        <5>2. QED
          BY <2>1, <2>2, <2>5, <5>1
      <4>3. observed' \in [Windows -> Nat] /\ faults' \in Nat /\ row'.count \in Nat
        BY <1>4, <1>n, <2>1, <2>2 DEF Counts, FaultsMayGrow
      <4>4. observed'[y] + faults' >= Threshold
        BY <2>1, <4>1, <4>2, <4>3, BreakerConstants
      <4>5. QED
        BY <2>1, <4>4
    <3>2. CASE d # w
      <4>1. call[d].pc = "open" /\ row.state = "CLOSED" /\ call[d].version = row.version
        BY <1>2, <2>2, <2>8, <3>2
      <4>2. PICK x \in Windows : observed[x] + faults >= Threshold
        BY <1>1, <4>1 DEF OpenerBacked
      <4>3. observed' \in [Windows -> Nat] /\ faults' \in Nat
        BY <1>4, <1>n, <2>1 DEF Counts, FaultsMayGrow
      <4>4. observed'[x] + faults' >= Threshold
        BY <1>n, <2>7, <4>2, <4>3, BreakerConstants
      <4>5. QED
        BY <4>4
    <3>3. QED
      BY <3>1, <3>2
  <2>9. QED
    BY <2>6, <2>8 DEF OpenerBacked
<1>5. CASE Leases(w)
  <2>1. /\ row'.state # "CLOSED" /\ row'.count = row.count /\ row'.window = row.window
        /\ observed' = observed /\ FaultsMayGrow /\ call'[w].pc \in {"run", "idle"}
    BY <1>5, RowWrites DEF Leases, Ends
  <2>2. Backed'
    BY <2>1, <1>g
  <2>3. QED
    BY <2>1, <2>2, <1>w, <1>2 DEF CountBacked, OpenerBacked
<1>6. CASE Settles(w)
  <2>1. /\ row'.window = row.window /\ row'.version = row.version + 1
        /\ FaultsMayGrow /\ call'[w].pc = "idle"
        /\ \/ row'.state = "OPEN" /\ row'.count = row.count /\ observed' = observed
           \/ row'.count = 0 /\ observed' = Unobserved
    BY <1>6, RowWrites DEF Settles, SettleWrite, Ends
  <2>2. Backed'
    <3>1. CASE row'.count = row.count /\ observed' = observed
      BY <2>1, <3>1, <1>g
    <3>2. CASE row'.count = 0 /\ observed' = Unobserved
      <4>1. \A x \in Windows : observed'[x] = 0
        BY <3>2 DEF Unobserved
      <4>2. faults' \in Nat
        BY <2>1, <1>n DEF FaultsMayGrow
      <4>3. row'.window = 0 \/ row'.window \in Windows
        BY <2>1, <1>b
      <4>4. QED
        BY <3>2, <4>1, <4>2, <4>3
    <3>3. QED
      BY <2>1, <3>1, <3>2
  <2>3. ASSUME NEW d \in Workers, call'[d].pc = "open" PROVE call'[d].version # row'.version
    BY <1>1, <1>2, <2>1, <2>3, Numbers DEF Versions
  <2>4. QED
    BY <2>1, <2>2, <2>3, <1>w, <1>2 DEF CountBacked, OpenerBacked
<1>7. CASE Opens(w)
  <2>1. /\ row'.state = "OPEN" /\ row'.count = row.count /\ row'.window = row.window
        /\ observed' = observed /\ FaultsMayGrow /\ call'[w].pc = "idle"
    BY <1>7, RowWrites DEF Opens, Ends
  <2>2. Backed'
    BY <2>1, <1>g
  <2>3. QED
    BY <2>1, <2>2, <1>w, <1>2 DEF CountBacked, OpenerBacked
<1>8. QED
  BY <1>3, <1>4, <1>5, <1>6, <1>7 DEF Effect

(***************************************************************************)
(* The environment's steps                                                 *)
(***************************************************************************)
\* A step the invariants do not see.
LEMMA UnseenStep ==
  ASSUME Inv, UNCHANGED <<row, call, elapsed, faults, history>> PROVE Inv'
  BY DEF Inv, ProbesRun, Versions, Probing, LeaseHeld, CountBacked, OpenerBacked,
         OneFindingPerOpening, ThresholdActedOn, OpenCondition, history

LEMMA PeriodStep == ASSUME TypeOK, Inv, period_ends PROVE Inv'
<1>1. PICK v \in Stamps \ elapsed : elapsed' = elapsed \cup {v}
  BY DEF period_ends
<1>2. UNCHANGED <<row, call, faults, history>>
  BY DEF period_ends, bounds
<1>3. v <= row.version
  BY <1>1, Numbers DEF Stamps, Inv, Versions
<1>4. Versions'
  BY <1>1, <1>2, <1>3 DEF Inv, Versions, Probing
<1>5. LeaseHeld'
  BY <1>1, <1>2 DEF Inv, LeaseHeld, Probing, history
<1>6. ProbesRun' /\ CountBacked' /\ OpenerBacked'
  BY <1>2 DEF Inv, ProbesRun, CountBacked, OpenerBacked, history
<1>7. OneFindingPerOpening' /\ ThresholdActedOn'
  BY <1>2 DEF Inv, OneFindingPerOpening, ThresholdActedOn, history
<1>8. QED
  BY <1>4, <1>5, <1>6, <1>7 DEF Inv

LEMMA RemovalStep == ASSUME TypeOK, Inv, ttl_expiry PROVE Inv'
<1>1. /\ row' = InitRow /\ elapsed' = {} /\ observed' = Unobserved
      /\ UNCHANGED <<call, faults, opens>>
      /\ \A w \in Workers : call[w].pc = "idle"
      /\ closings' = closings + (IF row.state = "CLOSED" THEN 0 ELSE 1)
  BY DEF ttl_expiry, bounds
<1>2. \A w \in Workers : ~call[w].probe
  BY <1>1 DEF Inv, ProbesRun
<1>3. ProbesRun' /\ Versions' /\ LeaseHeld'
  BY <1>1, <1>2 DEF ProbesRun, Versions, LeaseHeld, Probing
<1>4. CountBacked' /\ OpenerBacked'
  BY <1>1 DEF CountBacked, OpenerBacked, InitRow
<1>5. OneFindingPerOpening'
  BY <1>1, Numbers DEF Inv, OneFindingPerOpening, InitRow
<1>6. ThresholdActedOn'
  BY <1>1, BreakerConstants DEF ThresholdActedOn, InitRow
<1>7. QED
  BY <1>3, <1>4, <1>5, <1>6 DEF Inv

LEMMA InvStep == TypeOK /\ Inv /\ [Next]_vars => Inv'
<1> SUFFICES ASSUME TypeOK, Inv, [Next]_vars PROVE Inv'
  OBVIOUS
<1>1. ASSUME NEW w \in Workers, Attempt(w) \/ Fault(w) PROVE Inv'
  <2>1. Effect(w)
    BY <1>1, WorkerEffect
  <2>2. QED
    BY <2>1, ProbesStep, EvidenceStep, FindingsStep, ThresholdStep DEF Inv
<1>2. ASSUME NEW w \in Workers, cache_expires(w) PROVE Inv'
  BY <1>2, UnseenStep DEF cache_expires, OnlyWorker, bounds
<1>3. CASE period_ends
  BY <1>3, PeriodStep
<1>4. CASE next_window
  BY <1>4, UnseenStep DEF next_window, bounds
<1>5. CASE replicate
  BY <1>5, UnseenStep DEF replicate, bounds
<1>6. CASE ttl_expiry
  BY <1>6, RemovalStep
<1>7. CASE UNCHANGED vars
  BY <1>7, UnseenStep DEF vars, bounds
<1>8. QED
  BY <1>1, <1>2, <1>3, <1>4, <1>5, <1>6, <1>7 DEF Next, Environment

LEMMA InvInit == Init => Inv
<1> SUFFICES ASSUME Init PROVE Inv
  OBVIOUS
<1>1. /\ \A w \in Workers : call[w].pc = "idle" /\ ~call[w].probe
      /\ row = InitRow /\ elapsed = {} /\ opens = 0 /\ closings = 0
  BY DEF Init, NoCall
<1>2. ProbesRun /\ Versions /\ LeaseHeld
  BY <1>1 DEF ProbesRun, Versions, LeaseHeld, Probing
<1>3. CountBacked /\ OpenerBacked
  BY <1>1 DEF CountBacked, OpenerBacked, InitRow
<1>4. OneFindingPerOpening /\ ThresholdActedOn
  BY <1>1, BreakerConstants DEF OneFindingPerOpening, ThresholdActedOn, InitRow
<1>5. QED
  BY <1>2, <1>3, <1>4 DEF Inv

LEMMA Invariance == Spec => [](TypeOK /\ Inv)
<1>1. Init => TypeOK /\ Inv
  BY TypeInit, InvInit
<1>2. TypeOK /\ Inv /\ [Next]_vars => (TypeOK /\ Inv)'
  BY TypeStep, InvStep
<1>3. QED
  BY <1>1, <1>2, PTL DEF Spec

(***************************************************************************)
(* The properties                                                          *)
(***************************************************************************)
\* However many workers find the recovery period over, and however reads lag, two of
\* them probe at once within their leases only after a prober had outlived its lease and
\* still moved the breaker.
THEOREM OneLiveProberHolds == Spec => []OneLiveProber
<1>1. Inv => OneLiveProber
  <2> SUFFICES ASSUME Inv, NEW v \in Workers, NEW w \in Workers, Probing(v), Probing(w),
                      {call[v].version, call[w].version} \cap elapsed = {}, ~usurped
               PROVE  v = w
    BY DEF OneLiveProber
  <2>1. row.version = call[v].version /\ row.version = call[w].version
    BY DEF Inv, LeaseHeld
  <2>2. QED
    BY <2>1 DEF Inv, Versions
<1>2. QED
  BY <1>1, Invariance, PTL

\* However many workers see the threshold reached, one finding is filed per opening.
THEOREM OneFindingPerOpeningHolds == Spec => []OneFindingPerOpening
<1>1. Inv => OneFindingPerOpening
  BY DEF Inv
<1>2. QED
  BY <1>1, Invariance, PTL

\* A threshold that was reached is acted on, unless the last worker to see it failed.
THEOREM ThresholdActedOnHolds == Spec => []ThresholdActedOn
<1>1. Inv => ThresholdActedOn
  BY DEF Inv
<1>2. QED
  BY <1>1, Invariance, PTL

\* The breaker opens only on failures reported in one window since it last closed: the
\* conditions on the increment, on the window roll and on the opening write, and the
\* reset by a probe's success, are enough together.
THEOREM OpenedOnEvidenceHolds == Spec => OpenedOnEvidence
<1> DEFINE Opening == row.state = "CLOSED" /\ row'.state = "OPEN" =>
                        \E x \in Windows : observed[x] + faults >= Threshold
<1>1. TypeOK /\ Inv /\ [Next]_vars => Opening
  <2> SUFFICES ASSUME TypeOK, Inv, Next, row.state = "CLOSED", row'.state = "OPEN"
               PROVE  \E x \in Windows : observed[x] + faults >= Threshold
    BY DEF vars
  <2>1. PICK w \in Workers : Attempt(w) \/ Fault(w)
    <3>1. row' # row
      OBVIOUS
    <3>2. ~period_ends /\ ~next_window /\ ~replicate
      BY <3>1 DEF period_ends, next_window, replicate
    <3>3. ~ttl_expiry
      BY DEF ttl_expiry, InitRow
    <3>4. \A w \in Workers : ~cache_expires(w)
      BY <3>1 DEF cache_expires, OnlyWorker
    <3>5. QED
      BY <3>2, <3>3, <3>4 DEF Next, Environment
  <2>2. Effect(w)
    BY <2>1, WorkerEffect
  <2>3. Opens(w)
    BY <2>2, RowWrites DEF Effect, Rests, Counts, Leases, Settles, SettleWrite, LeaseFree
  <2>4. QED
    BY <2>3 DEF Opens, OpenCondition, Inv, OpenerBacked
<1>2. TypeOK /\ Inv /\ [Next]_vars => [Opening]_vars
  BY <1>1
<1>3. QED
  BY <1>2, Invariance, PTL DEF Spec, OpenedOnEvidence
=============================================================================
