----------------------------- MODULE ToolBreaker -----------------------------
(***************************************************************************)
(* The circuit breaker of one tool target: its row in the breaker table    *)
(* (arbiter/governance/tool_breaker_store.py) and the worker subprocesses  *)
(* that consult it before a tool call and report to it afterwards          *)
(* (arbiter/workerWrapper/tool_breaker_hook.py).  Each request to the      *)
(* table is one step, so workers interleave between any two of them.       *)
(*                                                                         *)
(* Time is abstract: stateVersion names the timestamp that was written     *)
(* with it (openedAt of an OPEN row, the lease of a HALF_OPEN one) and     *)
(* `elapsed` holds the versions whose period is over; failure windows are  *)
(* numbered.  A row that does not exist reads as InitRow: no operation     *)
(* tells the two apart.                                                    *)
(***************************************************************************)
EXTENDS Naturals

CONSTANTS
  Workers,      \* worker subprocesses; each makes one call to the target at a time
  Threshold,    \* TOOL_BREAKER_FAILURE_THRESHOLD
  MaxWindow,    \* bound: failure windows
  MaxFailures,  \* bound: calls that do not succeed
  MaxFaults     \* bound: crashed workers and failed requests to the table

ASSUME BreakerConstants ==
  /\ Threshold \in Nat \ {0}
  /\ MaxWindow \in Nat \ {0} /\ MaxFailures \in Nat /\ MaxFaults \in Nat

VARIABLES
  row,       \* the breaker row
  replica,   \* the value an eventually consistent get_item may still return
  elapsed,   \* versions whose recovery or lease period is over
  window,    \* the failure window of the current time
  call,      \* each worker's progress through a tool call
  cache,     \* each worker's cached state, while it is fresh
  failures, faults,  \* spent of the bounds
  observed,  \* history: failures reported per window since the breaker last closed
  opens,     \* history: CLOSED -> OPEN findings filed
  closings,  \* history: times the breaker went back to CLOSED
  missed,    \* history: the worker that saw the threshold reached failed to act on it
  usurped    \* history: a prober moved the breaker on under another one's lease

history == <<observed, opens, closings, missed, usurped>>
bounds == <<failures, faults>>
vars == <<row, replica, elapsed, window, call, cache, bounds, history>>

Windows == 1 .. MaxWindow
State == {"CLOSED", "OPEN", "HALF_OPEN"}
Row == [state : State, version : Nat, count : Nat, window : Nat]
InitRow == [state |-> "CLOSED", version |-> 0, count |-> 0, window |-> 0]

\* run: the tool is being called; settle: a probe's outcome is about to be written;
\* count, roll, open: a failure is being counted and the threshold acted on.
Steps == {"idle", "lease", "run", "settle", "count", "roll", "open"}
Call == [pc : Steps, probe : BOOLEAN, bad : BOOLEAN, version : Nat, window : Nat]
NoCall == [pc |-> "idle", probe |-> FALSE, bad |-> FALSE, version |-> 0, window |-> 0]

\* The values every variable ranges over: the row, as stored and as a lagging replica
\* returns it, a worker's progress and what a worker may have cached.
TypeOK ==
  /\ row \in Row /\ replica \in Row
  /\ elapsed \subseteq Nat /\ window \in Windows
  /\ call \in [Workers -> Call]
  /\ cache \in [Workers -> {"none", "CLOSED", "OPEN"}]
  /\ failures \in Nat /\ faults \in Nat
  /\ observed \in [Windows -> Nat] /\ opens \in Nat /\ closings \in Nat
  /\ missed \in BOOLEAN /\ usurped \in BOOLEAN

Unobserved == [x \in Windows |-> 0]

Init ==
  /\ row = InitRow /\ replica = InitRow
  /\ elapsed = {} /\ window = 1
  /\ call = [w \in Workers |-> NoCall]
  /\ cache = [w \in Workers |-> "none"]
  /\ failures = 0 /\ faults = 0
  /\ observed = Unobserved /\ opens = 0 /\ closings = 0
  /\ missed = FALSE /\ usurped = FALSE

-----------------------------------------------------------------------------
(* Before the call                                                         *)

OnlyWorker == UNCHANGED <<row, replica, elapsed, window, bounds, history>>

EndCall(w) == call' = [call EXCEPT ![w] = NoCall]
Goto(w, step) == call' = [call EXCEPT ![w].pc = step]
Remember(w, state) == cache' = [cache EXCEPT ![w] = state]

\* _get_row: a get_item without ConsistentRead.
_get_row == {row, replica}

\* pre_check, on a cached CLOSED entry or after reading the row.  A cached or freshly
\* read OPEN inside its recovery period fails the call at once; a worker that caches
\* OPEN stays idle until that entry runs out.
pre_check(w) ==
  /\ call[w].pc = "idle"
  /\ \/ cache[w] = "CLOSED" /\ Goto(w, "run") /\ UNCHANGED cache
     \/ /\ cache[w] = "none"
        /\ \E seen \in _get_row :
             \/ seen.state = "CLOSED" /\ Goto(w, "run") /\ Remember(w, "CLOSED")
             \/ /\ seen.state = "OPEN" /\ seen.version \notin elapsed
                /\ Remember(w, "OPEN") /\ UNCHANGED call
             \/ /\ seen.state = "OPEN" => seen.version \in elapsed
                /\ seen.state # "CLOSED"
                /\ Goto(w, "lease") /\ UNCHANGED cache
  /\ OnlyWorker

\* Mutants: a lease that is taken whoever holds it, and one that never runs out.
AnyLease == row.state # "CLOSED"
LeaseForGood == row.state = "OPEN"

\* The condition of the lease write: no transition leaves a lease on an OPEN row, so
\* there is nothing to wait for; the recovery period is not looked at again.
LeaseFree ==
  \/ row.state = "OPEN"
  \/ row.state = "HALF_OPEN" /\ row.version \in elapsed

\* Mutant: the lease put as an item of its own, without the count.
LeasedAfresh ==
  [state |-> "HALF_OPEN", version |-> row.version + 1, window |-> row.window]

Leased == [row EXCEPT !.state = "HALF_OPEN", !.version = @ + 1]

\* _try_acquire_probe_lease: the loser fails its call as if the breaker were OPEN.
_try_acquire_probe_lease(w) ==
  /\ call[w].pc = "lease"
  /\ \/ /\ LeaseFree
        /\ row' = Leased
        /\ call' = [call EXCEPT ![w].pc = "run", ![w].probe = TRUE,
                                ![w].version = row.version + 1]
        /\ Remember(w, "none")
     \/ ~LeaseFree /\ EndCall(w) /\ UNCHANGED <<row, cache>>
  /\ UNCHANGED <<replica, elapsed, window, bounds, history>>

-----------------------------------------------------------------------------
(* The call and its outcome                                                *)

\* The tool answers, possibly with a replayed result: a probe closes the breaker, any
\* other success writes nothing.
observe_success(w) ==
  /\ call[w].pc = "run"
  /\ \/ call[w].probe /\ Goto(w, "settle")
     \/ ~call[w].probe /\ EndCall(w)
  /\ UNCHANGED cache /\ OnlyWorker

\* It fails.  Only a failure that says something about the target's health is recorded;
\* after any other, as after an approval that refuses the call, the worker walks away,
\* from a probe too.
observe_failure(w) ==
  /\ call[w].pc = "run" /\ failures < MaxFailures
  /\ failures' = failures + 1
  /\ \/ /\ call[w].probe
        /\ call' = [call EXCEPT ![w].pc = "settle", ![w].bad = TRUE]
     \/ /\ ~call[w].probe
        /\ call' = [call EXCEPT ![w].pc = "count", ![w].window = window]
     \/ EndCall(w)
  /\ UNCHANGED <<row, replica, elapsed, window, cache, faults, history>>

\* What the end of a probe writes.
Settled(w) ==
  [row EXCEPT !.state = IF call[w].bad THEN "OPEN" ELSE "CLOSED",
              !.version = @ + 1,
              !.count = IF call[w].bad THEN @ ELSE 0]

\* The write itself, and what it means for the history.
SettleWrite(w) ==
  /\ row.state = "HALF_OPEN"
  /\ row' = Settled(w)
  /\ usurped' = (usurped \/ row.version # call[w].version)
  /\ \/ call[w].bad /\ UNCHANGED <<observed, closings>>
     \/ ~call[w].bad /\ observed' = Unobserved /\ closings' = closings + 1
  /\ UNCHANGED <<opens, missed>>

\* _transition_from_probe: guarded by the state alone, not by the lease.
_transition_from_probe(w) ==
  /\ call[w].pc = "settle"
  /\ \/ SettleWrite(w) /\ Remember(w, "none")
     \/ row.state # "HALF_OPEN" /\ UNCHANGED <<row, cache, history>>
  /\ EndCall(w)
  /\ UNCHANGED <<replica, elapsed, window, bounds>>

-----------------------------------------------------------------------------
(* Counting a failure and opening                                          *)

\* Mutant: the threshold is crossed one failure late.
CrossedLate(n) == n > Threshold

crosses_threshold(n) == n >= Threshold

\* The first request adds to the current window, the second one starts a window.
Incremented(w) == [row EXCEPT !.count = @ + 1]
InWindow(w) == row.state = "CLOSED" /\ row.window = call[w].window
Rolled(w) == [row EXCEPT !.count = 1, !.window = call[w].window]
WindowOver(w) == row.state = "CLOSED" /\ row.window < call[w].window

\* A counted failure: the worker goes on to open once the threshold is reached.
Counted(w, counted) ==
  /\ row' = counted
  /\ observed' = [observed EXCEPT ![call[w].window] = @ + 1]
  /\ \/ /\ crosses_threshold(counted.count)
        /\ call' = [call EXCEPT ![w].pc = "open", ![w].version = counted.version]
        /\ missed' = FALSE
     \/ ~crosses_threshold(counted.count) /\ EndCall(w) /\ UNCHANGED missed
  /\ UNCHANGED <<replica, elapsed, window, cache, bounds, opens, closings, usurped>>

_increment_failure(w) ==
  /\ call[w].pc = "count"
  /\ \/ InWindow(w) /\ Counted(w, Incremented(w))
     \/ ~InWindow(w) /\ Goto(w, "roll") /\ UNCHANGED cache /\ OnlyWorker

roll_window(w) ==
  /\ call[w].pc = "roll"
  /\ \/ WindowOver(w) /\ Counted(w, Rolled(w))
     \/ ~WindowOver(w) /\ EndCall(w) /\ UNCHANGED cache /\ OnlyWorker

\* Mutants: the opening write without any condition, and without its version.
Unconditional(w) == TRUE
AnyVersion(w) == row.state = "CLOSED"

\* stateVersion as it was when the threshold was seen to be reached.
OpenCondition(w) == row.state = "CLOSED" /\ row.version = call[w].version

Opened == [row EXCEPT !.state = "OPEN", !.version = @ + 1]

_count_and_maybe_open(w) ==
  /\ call[w].pc = "open"
  /\ \/ OpenCondition(w) /\ row' = Opened /\ Remember(w, "none") /\ opens' = opens + 1
     \/ ~OpenCondition(w) /\ UNCHANGED <<row, cache, opens>>
  /\ EndCall(w)
  /\ UNCHANGED <<replica, elapsed, window, bounds, observed, closings, missed, usurped>>

-----------------------------------------------------------------------------
(* Faults                                                                  *)

\* A request fails and its write, if any, did not happen.  A failed read lets the call
\* proceed; a failed lease write fails it.
request_error(w) ==
  /\ faults < MaxFaults /\ faults' = faults + 1
  /\ \/ call[w].pc = "idle" /\ cache[w] = "none" /\ Goto(w, "run") /\ UNCHANGED missed
     \/ /\ call[w].pc \in {"lease", "settle", "count", "roll", "open"}
        /\ EndCall(w)
        /\ missed' = (missed \/ call[w].pc = "open")
  /\ UNCHANGED <<row, replica, elapsed, window, cache, failures,
                 observed, opens, closings, usurped>>

\* The write happened and its answer never arrived: the worker acts on neither outcome,
\* and its cache keeps what it had.  The client repeats such a request: a conditional
\* write is then refused, while an increment is applied again.
answer_lost(w) ==
  /\ faults < MaxFaults /\ faults' = faults + 1
  /\ \/ /\ call[w].pc = "lease" /\ LeaseFree /\ row' = Leased
        /\ EndCall(w) /\ UNCHANGED history
     \/ call[w].pc = "settle" /\ SettleWrite(w) /\ EndCall(w)
     \/ /\ \/ call[w].pc = "count" /\ InWindow(w) /\ row' = Incremented(w)
           \/ call[w].pc = "roll" /\ WindowOver(w) /\ row' = Rolled(w)
        /\ \/ EndCall(w) /\ observed' = [observed EXCEPT ![call[w].window] = @ + 1]
           \/ call[w].pc = "count" /\ UNCHANGED <<call, observed>>
        /\ missed' = TRUE
        /\ UNCHANGED <<opens, closings, usurped>>
     \/ /\ call[w].pc = "open" /\ OpenCondition(w) /\ row' = Opened
        /\ EndCall(w) /\ UNCHANGED history
  /\ UNCHANGED <<replica, elapsed, window, cache, failures>>

\* The subprocess dies, or is killed at its timeout, in the middle of a call; the next
\* one starts with an empty cache.
crash(w) ==
  /\ faults < MaxFaults /\ faults' = faults + 1
  /\ call[w].pc # "idle"
  /\ EndCall(w) /\ Remember(w, "none")
  /\ missed' = (missed \/ call[w].pc = "open")
  /\ UNCHANGED <<row, replica, elapsed, window, failures,
                 observed, opens, closings, usurped>>

-----------------------------------------------------------------------------
(* Time                                                                    *)

Probing(w) == call[w].probe

\* The timestamps that still matter: the row's, and the leases of those who probe.
Stamps ==
  {call[w].version : w \in {x \in Workers : Probing(x)}} \cup
  (IF row.state = "CLOSED" THEN {} ELSE {row.version})

\* A recovery period or a lease runs out.
period_ends ==
  /\ \E v \in Stamps \ elapsed : elapsed' = elapsed \cup {v}
  /\ UNCHANGED <<row, replica, window, call, cache, bounds, history>>

\* window_start moves on.
next_window ==
  /\ window < MaxWindow
  /\ window' = window + 1
  /\ UNCHANGED <<row, replica, elapsed, call, cache, bounds, history>>

\* cache_entry_fresh: an entry outlives its cap, or the subprocess that held it.
cache_expires(w) ==
  /\ cache[w] # "none" /\ Remember(w, "none")
  /\ UNCHANGED call /\ OnlyWorker

replicate ==
  /\ replica # row
  /\ replica' = row
  /\ UNCHANGED <<row, elapsed, window, call, cache, bounds, history>>

\* DynamoDB removes a row nobody has touched for 24 hours, when no subprocess of that
\* time is left.
ttl_expiry ==
  /\ row # InitRow
  /\ \A w \in Workers : call[w].pc = "idle" /\ cache[w] = "none"
  /\ row' = InitRow /\ elapsed' = {} /\ observed' = Unobserved
  /\ closings' = closings + (IF row.state = "CLOSED" THEN 0 ELSE 1)
  /\ UNCHANGED <<replica, window, call, cache, bounds, opens, missed, usurped>>

-----------------------------------------------------------------------------

\* What a worker does when nothing goes wrong with the worker or the table.
Attempt(w) ==
  \/ pre_check(w)
  \/ _try_acquire_probe_lease(w)
  \/ observe_success(w)
  \/ observe_failure(w)
  \/ _transition_from_probe(w)
  \/ _increment_failure(w)
  \/ roll_window(w)
  \/ _count_and_maybe_open(w)

Fault(w) ==
  \/ request_error(w)
  \/ answer_lost(w)
  \/ crash(w)

Environment ==
  \/ period_ends
  \/ next_window
  \/ replicate
  \/ ttl_expiry

Next ==
  \/ \E w \in Workers : Attempt(w) \/ Fault(w) \/ cache_expires(w)
  \/ Environment

Spec == Init /\ [][Next]_vars

\* Agents keep calling the tool and their calls end, entries and periods run out, reads
\* catch up. Nothing forces a fault, a failure, a new window or the TTL.
Fairness ==
  /\ \A w \in Workers : WF_vars(Attempt(w)) /\ WF_vars(cache_expires(w))
  /\ WF_vars(period_ends)
  /\ WF_vars(replicate)

FairSpec == Spec /\ Fairness

-----------------------------------------------------------------------------
(* Properties                                                              *)

\* Two workers probe at once, each within its lease, only after a prober that outlived
\* its lease had moved the breaker under another one's (_try_acquire_probe_lease:
\* however many workers find the recovery period over, one wins).
OneLiveProber ==
  \A v, w \in Workers :
    Probing(v) /\ Probing(w) /\ {call[v].version, call[w].version} \cap elapsed = {}
      => v = w \/ usurped

\* However many workers see the threshold reached, one finding is filed each time the
\* breaker opens: never a second one before it has closed again.
OneFindingPerOpening ==
  opens <= closings + (IF row.state = "CLOSED" THEN 0 ELSE 1)

\* A closed breaker opens only on Threshold failures reported since it last closed, in
\* one window, where a request the client had to repeat may stand for one of them: never
\* on the count of an earlier episode or on what a slow worker saw before.
OpenedOnEvidence ==
  [][row.state = "CLOSED" /\ row'.state = "OPEN" =>
       \E x \in Windows : observed[x] + faults >= Threshold]_vars

\* A threshold that was reached is acted on: while the breaker stays closed somebody is
\* about to open it, unless the last worker to see it died or lost its request.
ThresholdActedOn ==
  row.state = "CLOSED" /\ row.count >= Threshold =>
    \/ missed
    \/ \E w \in Workers : call[w].pc = "open" /\ call[w].version = row.version

\* Once the target's failures are over the breaker closes again, whichever prober died
\* with the lease and whichever request was lost.
RecoversEventually == (row.state # "CLOSED") ~> (row.state = "CLOSED")

-----------------------------------------------------------------------------
(* What the safety invariants rest on                                      *)

\* A probe is under way from the lease to its outcome.
ProbesRun ==
  \A w \in Workers :
    /\ call[w].probe => call[w].pc \in {"run", "settle"}
    /\ call[w].pc = "settle" => call[w].probe

\* No timestamp and nobody about to act is ahead of the row, and each probe has a
\* version of its own.
Versions ==
  /\ \A v \in elapsed : v <= row.version
  /\ \A w \in Workers :
       Probing(w) \/ call[w].pc = "open" => call[w].version <= row.version
  /\ \A v, w \in Workers :
       Probing(v) /\ Probing(w) /\ call[v].version = call[w].version => v = w

\* Who probes within the lease is the one the row names.
LeaseHeld ==
  \A w \in Workers :
    Probing(w) /\ call[w].version \notin elapsed =>
      usurped \/ (row.state = "HALF_OPEN" /\ row.version = call[w].version)

\* The row counts no more than was reported in its window, but for repeated requests.
CountBacked ==
  /\ \/ row.window = 0 /\ row.count = 0
     \/ row.window \in Windows /\ row.count <= observed[row.window] + faults
  /\ \A w \in Workers : call[w].pc \in {"count", "roll"} => call[w].window \in Windows

\* Who is about to open a closed breaker, on a version that still stands, has a reason to.
OpenerBacked ==
  \A w \in Workers :
    call[w].pc = "open" /\ row.state = "CLOSED" /\ call[w].version = row.version =>
      \E x \in Windows : observed[x] + faults >= Threshold
=============================================================================
