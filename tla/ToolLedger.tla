----------------------------- MODULE ToolLedger -----------------------------
(***************************************************************************)
(* The tool-execution ledger, for one idempotency key: the row of          *)
(* arbiter/governance/tool_execution_ledger.py and the worker attempts     *)
(* that call the same tool with the same arguments for the same node (an   *)
(* SQS redelivery, a split-brain duplicate, a re-dispatched node).  Each   *)
(* attempt runs _IdempotentToolWrapper.stream of tool_idempotency_hook.py: *)
(* reserve, execute the tool, record its outcome.                          *)
(*                                                                         *)
(* Each ledger or execution-table request is one step, so attempts         *)
(* interleave between any two of them.  Time is abstract: createdAt is the *)
(* rank of the reservation (the clock only matters through "older than the *)
(* lease"), and `horizon` is the newest rank whose lease has run out.      *)
(***************************************************************************)
EXTENDS Naturals

CONSTANTS
  Calls,            \* the attempts at this call, each made by one worker
  MaxGeneration,    \* bound: dispatches of the node
  MaxExpired        \* bound: times the TTL removes the row

ASSUME LedgerConstants == MaxGeneration \in Nat /\ MaxExpired \in Nat

VARIABLES
  row,        \* the ledger row
  replica,    \* the value an eventually consistent get_item may still return
  generation, \* dispatchGeneration of the node on the execution row
  clock,      \* reservations written so far: the rank of the last createdAt
  horizon,    \* reservations up to this rank are older than the lease
  call,       \* the state of each attempt
  applied,    \* history: times the tool's side effect took place
  lost,       \* history: side effects whose outcome never reached the ledger
  expired     \* history: recorded outcomes the TTL removed

vars == <<row, replica, generation, clock, horizon, call, applied, lost, expired>>
history == <<applied, lost, expired>>

Terminal == {"completed", "failed"}
Status == Terminal \cup {"absent", "in_flight", "released"}
None == "none"

Row == [status : Status, created : Nat, result : Calls \cup {None}]
Absent == [status |-> "absent", created |-> 0, result |-> None]

\* An attempt holds the reservation from winning it until it has recorded an
\* outcome; `outcome` is what it will record ("released" until the tool has
\* ended) and `effect` whether the side effect took place.
Holding == {"run", "record"}
Steps == Holding \cup
         {"idle", "reserve", "resolve", "rereserve", "reclaim", "poll", "done"}
Answers == {None, "result", "failure", "retry", "refused", "fenced", "dead"}
Call == [pc : Steps, gen : Nat, created : Nat, seen : Nat, effect : 0 .. 1,
         outcome : Terminal \cup {"released"},
         answer : Answers, result : Calls \cup {None}, late : BOOLEAN]

\* The values every variable ranges over: the shape of the ledger row, as stored and as
\* a lagging replica returns it, and of an attempt's progress.
TypeOK ==
  /\ row \in Row /\ replica \in Row
  /\ generation \in Nat /\ clock \in Nat /\ horizon \in Nat
  /\ call \in [Calls -> Call]
  /\ applied \in Nat /\ lost \in Nat /\ expired \in Nat

Init ==
  /\ row = Absent /\ replica = Absent
  /\ generation = 1 /\ clock = 0 /\ horizon = 0
  /\ call = [c \in Calls |->
       [pc |-> "idle", gen |-> 0, created |-> 0, seen |-> 0, effect |-> 0,
        outcome |-> "released", answer |-> None, result |-> None, late |-> FALSE]]
  /\ applied = 0 /\ lost = 0 /\ expired = 0

-----------------------------------------------------------------------------
(* Reading and reserving the row                                           *)

Goto(c, step) == call' = [call EXCEPT ![c].pc = step]

Answer(c, answer, result) ==
  call' = [call EXCEPT ![c].pc = "done", ![c].answer = answer, ![c].result = result]

\* get: a get_item without ConsistentRead.
Get == {row, replica}

\* Mutant: a reservation without its createdAt.
ReservedUndated == [status |-> "in_flight", result |-> None]

\* The row every successful reservation writes, fresh or reclaimed.
Reserved == [status |-> "in_flight", created |-> clock + 1, result |-> None]

\* WON: the row is this attempt's, which goes on to execute the tool.
Won(c) ==
  /\ row' = Reserved
  /\ clock' = clock + 1
  /\ call' = [call EXCEPT ![c].pc = "run", ![c].created = clock + 1]
  /\ UNCHANGED <<replica, generation, horizon, history>>

OnlyCall == UNCHANGED <<row, replica, generation, clock, horizon, history>>

\* A worker dispatched under generation g (0: none was threaded) reaches the
\* tool call.  It may have been re-dispatched away before it gets here.
_on_before_tool_call(c) ==
  /\ call[c].pc = "idle"
  /\ \E g \in 0 .. generation :
       call' = [call EXCEPT ![c].pc = "reserve", ![c].gen = g,
                            ![c].late = (g # 0 /\ g # generation)]
  /\ OnlyCall

\* The two conditions of the reserve transaction.  Without a generation only
\* the Put's condition applies.
FenceHolds(c) == call[c].gen = 0 \/ call[c].gen = generation
PutHolds == row.status = "absent"

\* Mutant: the Put's failure is looked at first.
PutFailureFirst(c) ==
  \/ PutHolds /\ ~FenceHolds(c) /\ Answer(c, "fenced", None)
  \/ ~PutHolds /\ Goto(c, "resolve")

\* What a cancelled reservation does: the fence is looked at before the Put.
RefusedReserve(c) ==
  \/ ~FenceHolds(c) /\ Answer(c, "fenced", None)
  \/ FenceHolds(c) /\ ~PutHolds /\ Goto(c, "resolve")

\* Mutant: the Put without attribute_not_exists.
ReserveOverwrites(c) == FenceHolds(c)

\* reserve: fence and Put commit together or not at all.
ReserveCondition(c) == FenceHolds(c) /\ PutHolds

reserve(c) ==
  /\ call[c].pc = "reserve"
  /\ \/ ReserveCondition(c) /\ Won(c)
     \/ RefusedReserve(c) /\ OnlyCall

\* _resolve_existing: what an existing row means to this attempt.
_resolve_existing(c) ==
  /\ call[c].pc = "resolve"
  /\ \E seen \in Get :
       \/ seen.status = "absent" /\ Goto(c, "poll")
       \/ seen.status = "completed" /\ Answer(c, "result", seen.result)
       \/ seen.status = "failed" /\ Answer(c, "failure", None)
       \/ seen.status = "released" /\ Goto(c, "rereserve")
       \/ /\ seen.status = "in_flight" /\ seen.created <= horizon
          /\ call' = [call EXCEPT ![c].pc = "reclaim", ![c].seen = seen.created]
       \/ seen.status = "in_flight" /\ seen.created > horizon /\ Goto(c, "poll")
  /\ OnlyCall

\* Mutants: a re-reservation, and a reclaim, that do not compare with what was read.
AnyStatus(c) == row.status # "absent"
StillInFlight(c) == row.status = "in_flight"

\* _reclaim_released and _reclaim_stale: conditional writes; the loser polls.
ReleasedCondition(c) == row.status = "released"

_reclaim_released(c) ==
  /\ call[c].pc = "rereserve"
  /\ \/ ReleasedCondition(c) /\ Won(c)
     \/ ~ReleasedCondition(c) /\ Goto(c, "poll") /\ OnlyCall

StaleCondition(c) == row.status = "in_flight" /\ row.created = call[c].seen

_reclaim_stale(c) ==
  /\ call[c].pc = "reclaim"
  /\ \/ StaleCondition(c) /\ Won(c)
     \/ ~StaleCondition(c) /\ Goto(c, "poll") /\ OnlyCall

\* A reserving request fails (LedgerError): the attempt is refused, and a write
\* may have gone through although its answer never arrived.
reserve_error(c) ==
  /\ \/ /\ call[c].pc \in {"reserve", "resolve", "rereserve", "reclaim", "poll"}
        /\ UNCHANGED <<row, clock>>
     \/ /\ \/ call[c].pc = "reserve" /\ ReserveCondition(c)
           \/ call[c].pc = "rereserve" /\ ReleasedCondition(c)
           \/ call[c].pc = "reclaim" /\ StaleCondition(c)
        /\ row' = Reserved /\ clock' = clock + 1
  /\ Answer(c, "refused", None)
  /\ UNCHANGED <<replica, generation, horizon, history>>

\* wait_for_terminal: a bounded poll that never leads to an execution.  stream answers
\* a settled failure and a timeout alike.
wait_for_terminal(c) ==
  /\ call[c].pc = "poll"
  /\ \E seen \in Get :
       \/ seen.status = "completed" /\ Answer(c, "result", seen.result)
       \/ seen.status # "completed" /\ Answer(c, "retry", None)
  /\ OnlyCall

-----------------------------------------------------------------------------
(* Executing the tool and recording the outcome                            *)

\* Mutant: an unknown outcome handled like "provably not sent".
UnknownReleased == {<<"completed", 1>>, <<"failed", 0>>, <<"released", 1>>, <<"released", 0>>}

\* The failure matrix: what each way a tool can end records, and whether the
\* side effect took place.  A returned error, an escaped exception and an
\* unknown outcome are all recorded as failed, with or without the effect.
Outcomes == {<<"completed", 1>>, <<"failed", 1>>, <<"failed", 0>>, <<"released", 0>>}

run_tool(c) ==
  /\ call[c].pc = "run"
  /\ \E o \in Outcomes :
       /\ call' = [call EXCEPT ![c].pc = "record", ![c].outcome = o[1], ![c].effect = o[2]]
       /\ applied' = applied + o[2]
  /\ UNCHANGED <<row, replica, generation, clock, horizon, lost, expired>>

\* Mutant: whatever the tool did is passed on as its result.
AnswerAnything(c) == Answer(c, "result", c)

\* The answer stream gives once the tool has ended.
AnswerOf(c) ==
  CASE call[c].outcome = "completed" -> Answer(c, "result", c)
    [] call[c].outcome = "failed" -> Answer(c, "failure", None)
    [] OTHER -> Answer(c, "retry", None)

\* finalize_success, finalize_failure and release: guarded by the row still
\* being in flight, and a no-op otherwise.
_finalize(c) ==
  /\ call[c].pc = "record"
  /\ \/ /\ row.status = "in_flight"
        /\ row' = [row EXCEPT !.status = call[c].outcome,
                   !.result = IF call[c].outcome = "completed" THEN c ELSE None]
     \/ row.status # "in_flight" /\ UNCHANGED row
  /\ AnswerOf(c)
  /\ UNCHANGED <<replica, generation, clock, horizon, history>>

\* The recording request itself fails: the hook still yields the tool's result.
finalize_error(c) ==
  /\ call[c].pc = "record"
  /\ AnswerOf(c)
  /\ lost' = lost + call[c].effect
  /\ UNCHANGED <<row, replica, generation, clock, horizon, applied, expired>>

-----------------------------------------------------------------------------
(* The environment                                                         *)

\* The worker dies: out of memory, killed at the subprocess or Lambda timeout.
crash(c) ==
  /\ call[c].pc \notin {"idle", "done"}
  /\ Answer(c, "dead", None)
  /\ lost' = lost + call[c].effect
  /\ UNCHANGED <<row, replica, generation, clock, horizon, applied, expired>>

\* The node is dispatched again: the step runner's conditional pending ->
\* running write increments dispatchGeneration.
redispatch ==
  /\ generation < MaxGeneration
  /\ generation' = generation + 1
  /\ UNCHANGED <<row, replica, clock, horizon, call, history>>

\* A reservation outlives the lease.  The agent subprocess is killed after 14
\* minutes, so no worker still holds a reservation that is 15 minutes old.
lease_runs_out ==
  /\ \E n \in (horizon + 1) .. clock :
       /\ \A c \in Calls : call[c].pc \in Holding => call[c].created > n
       /\ horizon' = n
  /\ UNCHANGED <<row, replica, generation, clock, call, history>>

\* DynamoDB removes the row 48 hours after it was last reserved.
ttl_expiry ==
  /\ expired < MaxExpired
  /\ row.status # "absent" /\ row.created <= horizon
  /\ row' = Absent
  /\ expired' = expired + (IF row.status \in Terminal THEN 1 ELSE 0)
  /\ UNCHANGED <<replica, generation, clock, horizon, call, applied, lost>>

replicate ==
  /\ replica # row
  /\ replica' = row
  /\ UNCHANGED <<row, generation, clock, horizon, call, history>>

Attempt(c) ==
  \/ _on_before_tool_call(c)
  \/ reserve(c)
  \/ _resolve_existing(c)
  \/ _reclaim_released(c)
  \/ _reclaim_stale(c)
  \/ reserve_error(c)
  \/ wait_for_terminal(c)
  \/ run_tool(c)
  \/ _finalize(c)
  \/ finalize_error(c)
  \/ crash(c)

Next ==
  \/ \E c \in Calls : Attempt(c)
  \/ redispatch
  \/ lease_runs_out
  \/ ttl_expiry
  \/ replicate

Spec == Init /\ [][Next]_vars

-----------------------------------------------------------------------------
(* Properties                                                              *)

\* At most one attempt is ever between winning the reservation and recording
\* its outcome, however reads lag and however many attempts find the holder
\* dead at once (the createdAt guard of _reclaim_stale).
OneHolder ==
  \A c, d \in Calls :
    call[c].pc \in Holding /\ call[d].pc \in Holding => c = d

\* The side effect takes place at most once, except that each effect whose
\* outcome never reached the ledger, and each outcome the TTL removed, allows
\* one more.  In particular a released reservation, a failure and every duplicate
\* attempt never repeat it.
OnceUnlessOutcomeLost == applied <= 1 + lost + expired

\* A recorded outcome stands: no late reservation, reclaim, finalize or release
\* replaces it or its result; only the TTL removes it.
TerminalKept ==
  [][row.status \in Terminal =>
       row' = row \/ (row' = Absent /\ expired' = expired + 1)]_vars

\* Every attempt that gets a result gets the same one, unless an outcome was
\* lost or expired in between.
ResultsAgree ==
  \A c, d \in Calls :
    call[c].answer = "result" /\ call[d].answer = "result"
      => call[c].result = call[d].result \/ lost + expired > 0

\* A worker whose node had been dispatched again before it called the tool
\* never executes it, not even by taking over a released or a dead reservation
\* (the order in which _reserve_fenced reads the cancellation reasons).
SupersededNeverExecutes ==
  \A c \in Calls :
    call[c].late => call[c].pc \notin Holding /\ call[c].effect = 0

\* How the state maps to OneShot's: the outcome on record, the result an attempt was
\* given, and whether an effect is still to be recorded.
Outcome == IF row.status \in Terminal THEN [status |-> row.status, result |-> row.result]
           ELSE [status |-> "none", result |-> None]
Given(c) == IF call[c].answer = "result" THEN call[c].result ELSE None
Unsettled == \E c \in Calls : call[c].pc = "record" /\ call[c].effect = 1

O == INSTANCE OneShot WITH
       executing <- {c \in Calls : call[c].pc \in Holding},
       barred <- {c \in Calls : call[c].late},
       ended <- {c \in Calls : call[c].pc = "done"},
       got <- [c \in Calls |-> Given(c)],
       record <- Outcome,
       owed <- IF Unsettled THEN 1 ELSE 0,
       forgotten <- lost + expired

\* The ledger keeps the promises of OneShot: all conditional writes, lagging reads,
\* reclaims, failing requests and deaths together execute the call as one attempt at a
\* time would, with one outcome that stands and is what the others are given (reserve,
\* _resolve_existing, _reclaim_stale, finalize_success, finalize_failure, release).
ImplementsOneShot == O!Spec

-----------------------------------------------------------------------------
(* What the safety invariants rest on                                      *)

\* Reservations are ranked by the clock, and what an attempt found to be stale
\* had outlived its lease.
Ranked ==
  /\ row.created <= clock /\ horizon <= clock
  /\ \A c \in Calls : call[c].seen <= horizon

\* Whoever executes the tool owns the row, and within the lease.
HolderOwns ==
  \A c \in Calls : call[c].pc \in Holding =>
    /\ row.status = "in_flight"
    /\ row.created = call[c].created
    /\ row.created > horizon

\* Only an attempt that ran the tool carries an effect; what it will record as
\* completed took place, and what it will release did not.
EffectsRecorded ==
  \A c \in Calls :
    /\ call[c].pc \notin {"record", "done"} => call[c].effect = 0
    /\ call[c].pc = "record" =>
         <<call[c].outcome, call[c].effect>> \in Outcomes

\* An effect is recorded, about to be recorded, lost or expired.
Accounted ==
  applied <= lost + expired + (IF row.status \in Terminal \/ Unsettled THEN 1 ELSE 0)

\* A superseded attempt ends at the fence.
LateIsFenced ==
  \A c \in Calls : call[c].late =>
    /\ call[c].gen # 0 /\ call[c].gen < generation
    /\ call[c].pc \in {"reserve", "done"} /\ call[c].effect = 0

\* Until an outcome is lost or expires, a result that was answered or that a lagging
\* read returns is the one on the row.
ResultStands ==
  lost + expired = 0 =>
    /\ replica.status = "completed" => row = replica
    /\ \A c \in Calls : call[c].answer = "result" =>
         row.status = "completed" /\ row.result = call[c].result
=============================================================================
