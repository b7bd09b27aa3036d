# Formal models of Citadel's execution and release core

TLA+ modules, TLC configurations and TLAPS proofs for the parts of Citadel where
several Lambdas decide on shared rows: the workflow step runner with its watchdog
and workers, the graph functions it schedules by, the ledger that keeps tool calls
from being executed twice, the circuit breaker around external tools, the promotion of
releases with its gate, canaries and automatic rollback, and evaluation runs. Paths are relative to the repository's
`src/`; `executor.py` is `arbiter/stepRunner/executor.py`, and Lambdas named without a
directory are in `backend/src/lambda/`.

## 1. The system

### Parts and the state they keep

| Part | State | Operations | Interacts with |
|---|---|---|---|
| Step runner (`arbiter/stepRunner/{index,executor,retry,condition,events}.py`) | one DynamoDB row per execution: status, and per node status, retryCount, dispatchGeneration, output | start, node completed, node failed, cancel, resume; dispatch, skip, finalize | receives EventBridge events, sends to the worker queue, publishes events |
| Graph functions (`arbiter/stepRunner/dag.py`) | none | roots, ready nodes, skip propagation | called by the step runner and the watchdog |
| Approval gates, pause (`executor.py` 805-1016, 1734-2320, 3148-3340, `approval_requests.py`) | `awaiting_approval` and `paused` states, approval requests | park, approve, deny, pause | off by default (`APPROVAL_GATE_ENABLED`) |
| Compensation (`executor.py` 2596-3102, `compensation_executor.py`) | per-node compensation status | reverse walk after a failure | worker queue, tool ledger |
| Timeout watchdog (`timeout_watchdog.py`) | none of its own | sweeps running executions every 5 minutes | shares the execution row, calls the step runner's functions |
| Worker (`arbiter/workerWrapper/index.py`) | the message it works on | run the agent, persist the node's result, signal it | worker queue, execution row, event bus |
| Execution API (`backend/src/lambda/execution-resolver.ts`) | the initial row | start, cancel, resume | writes the row, publishes events |
| Tool execution ledger (`arbiter/governance/tool_execution_ledger.py`, `arbiter/workerWrapper/tool_idempotency_hook.py`) | one DynamoDB row per idempotency key | reserve, resolve, reclaim, poll, finalize, release | fenced by the execution row's dispatchGeneration |
| Tool circuit breaker (`arbiter/governance/tool_breaker_{store,logic}.py`, `arbiter/workerWrapper/tool_breaker_hook.py`) | one DynamoDB row per external target: state, version, failure window, probe lease; a cache per worker | check, probe, count a failure, open, close | outermost around every call of an external tool |
| Tool approval (`tool_approval.py`) | a row per request | request, consume | around governed tool calls |
| Release promotion (`environment-release-pointer-{resolver,store}.ts`, `utils/release-gate*.ts`, `utils/promotion-*.ts`) | per agent and environment a versioned pointer with an optional canary, an append-only history, a policy row | promote, start, reweight, promote and abort a canary, set policy | reads evaluation runs as evidence, writes findings and approvals |
| Rollback evaluator (`agent-release-rollback-evaluator.ts`, `utils/rollback-*.ts`) | none of its own | every minute aborts canaries that breach their metrics | moves the pointers too, reads the policy row |
| Evaluation runs (`eval-run-resolver.ts`, `eval-runner.ts`, `eval-run-completion.ts`, `eval-conversation-worker.ts`, `eval-case-scorer.ts`, `eval-run-aggregator.ts`, `eval-comparison-resolver.ts`) | a run row with a countdown, one row per case | start, dispatch, record, sweep, score, aggregate | sends to a queue and the step runner, receives workflow events |
| Release resolution, governance engine, supervisor, fabricator, catalog, cost, published apps, ingestion, frontend, CDK | see `PROJECT.json` | | |

`PROJECT.json` lists every component, the ones left out with the reason.

### What is hard

Nothing coordinates the Lambdas but single DynamoDB requests. An invocation
reads the row once (without `ConsistentRead`), decides on that snapshot, and
writes attributes one at a time, some under a condition, most without. Several
invocations, the watchdog, the API and the workers do so at once; events are
delivered late or twice or lost, workers and invocations die between any two
requests. Correctness rests on a few conditions (the dispatch write, the
first-write-wins completion, the running-to-completed flip, the ledger's
compare-and-set writes) and on orders (persist before signal, reserve before
execute, fence before key). `PROJECT.json` lists these hazards line by line, with
the properties that would catch each going wrong.

The release pointer is the one place with a real transaction, conditional on a
version; everything a mutation decides on before it (ladder, gate, approval,
ceiling, canary state) is read earlier, without `ConsistentRead`, and the scheduled
evaluator acts on the same pointers from an index. An evaluation run is counted
down by three parties (worker, workflow event, timeout sweep), each of which may
be late, repeated or dead between its flag and its subtraction.

The breaker has no owner at all: workers that know nothing of each other count,
open, probe and close one row by conditional writes, act on cached or lagging reads,
and give up silently whenever a request fails.

### What correctness means

- Graph functions: skip propagation marks exactly the nodes no live path reaches,
  and an execution is never left with nothing to do and nodes pending.
- Step runner: a node is dispatched once per grant and only after its
  predecessors; the retry count stays within its policy; completion is announced
  only when every node is terminal; no fan-in is missed; every running execution
  ends.
- Tool ledger: one attempt at a time executes; the side effect is repeated only
  when its outcome was lost; recorded outcomes stand; superseded workers never
  execute.
- Tool breaker: one worker probes at a time; each opening rests on enough failures of
  one window and files one finding; a threshold that was reached is acted on; the breaker
  closes again.
- Release promotion: the history is complete; a release reaches an environment only
  after it was stable in the one below; a canary is one episode; nothing automatic
  moves the stable release; what a strict gate let through is on record; a stricter
  policy admits less.
- Evaluation runs: the countdown accounts for every case; a run completes once and
  only when every case has; outcomes are the case's own; every run completes.

## 2. Modules

| Module | Models | Proofs |
|---|---|---|
| `Dag` | the graph functions, as operators over any graph | used by both below |
| `DagWalk` | any order of dispatch, completion and pruning, over all acyclic graphs of `Size` nodes | `DagWalkProofs` |
| `Workflow` | abstract: what the step runner promises of an execution | |
| `StepRunner` (extends `Dag`, implements `Workflow`), `MCStepRunner` | one execution: handlers, watchdog, workers, API, deliveries | `StepRunnerProofs`, `StepRunnerRefinement`, `StepRunnerAttempts` |
| `OneShot` | abstract: what the ledger promises of the attempts at one call | |
| `ToolLedger` (implements `OneShot`), `MCToolLedger` | one idempotency key and the attempts that share it | `ToolLedgerProofs` |
| `ToolBreaker` | one target's breaker row, the workers that call it, their caches | `ToolBreakerProofs` |
| `ReleaseGate` | policy merge, strictness, gate verdict, rollback rule, as operators | in `ReleasePointerProofs` |
| `Rollout` | abstract: what promotion promises of an agent's releases | |
| `ReleasePointer` (extends `ReleaseGate`, implements `Rollout`), `MCReleasePointer` | one agent's pointers on the ladder: mutations, policy row, evaluator | `ReleasePointerProofs` |
| `EvalRun` | one evaluation run, its targets, queue, sweep, scorer and aggregator | `EvalRunProofs` |

`DagWalk` instantiates `Dag` at every graph; the step runner extends it. The other
components meet through values only: `ReleasePointer` takes what an evaluation run
shows as a constant (`EvidenceOf`), `EvalRun` takes the step runner as a target that
starts, ends or is stuck, and `StepRunner` a release refused at dispatch as `Refused`.

Three components have an abstract specification that they are shown to implement,
checked as a property of a run and proved as a theorem. `Workflow` knows only which
nodes were dispatched, granted a retry, settled and ended: every dispatch has its
predecessors settled and a grant to spend, every grant, result and failure a dispatch
(or a refused release) before it, every announcement an ended workflow. `OneShot` knows
only who executes, what is on record and what has been forgotten: one attempt at a time
starts, only while nothing is on record, and whoever does not execute leaves with nothing,
with the recorded result, or with one that has been forgotten. `Rollout` knows only what
each environment serves: every move is one step from what is served now, whatever was
read long before. The refinement mappings stand at the end of `StepRunner`, `ToolLedger`
and `ReleasePointer`.

### StepRunner

`row` is the execution row. A slot of `inv` is one Lambda invocation: `pc` names
the request it makes next, `view` is the part of its snapshot it decides on,
`todo` and `cuts` the loop it is in, `count` the retry count or generation it has
read. Each action is the code from one request to the next, so two invocations
interleave exactly where the Lambdas do. `handler` is `index.handler` with the
five handlers' first load and early returns; `schedule_frontier`,
`invoke_node`, `_evaluate_and_persist_skips` (as `evaluate_condition`, `persist_skip`,
`persist_unreachable`), `_finalize_execution`, `ensure_running` are the functions
they share. `_process_execution` is one sweep's decision about this execution.
Workers take messages from `queue`, persist the result (first write wins) and then
publish it. `published`, `grants`, `everSettled` and `everTerminal` are history:
nothing in the model reads them.

Data is abstracted to what decides: an output is the set of successors whose
condition it makes false; an error is transient or fatal; time is a
nondeterministic choice (any running node may be judged stalled, `MaxStalls`
times; the execution timeout may have passed if `ExecTimeout`). The approval gate
is off and the workflow has no compensation policy. A node in `Refused` is one
whose agent the release gate refuses, which `invoke_node` turns into a
non-retryable failure.

### ToolLedger

`row` is the ledger row; `createdAt` is abstracted to the rank of the
reservation, and `horizon` is the newest rank older than the lease. A member of
`Calls` is one worker attempt at the call, running
`_IdempotentToolWrapper.stream`: one action per request (`reserve`,
`_resolve_existing`, `_reclaim_released`, `_reclaim_stale`, `wait_for_terminal`,
`_finalize` for the two finalizers and release), the tool itself (`run_tool`, whose
`Outcomes` are the failure matrix), requests that fail before or after taking
effect, and crashes. Reads return the row or an older replica. `generation` is
the node's dispatchGeneration on the execution row; generation 0 stands for an
attempt to which none was threaded (unfenced reserve).

`lease_runs_out` assumes that no holder outlives its lease: the agent subprocess is
killed after 840 s (`workerWrapper/index.py:928`), the lease is 900 s and not
overridden by the stacks. With a shorter `TOOL_LEDGER_LEASE_SECONDS` the
assumption, and with it `OneHolder`, would not hold: finalize and release carry no
owner token.

### ToolBreaker

`row` is the breaker row, `replica` what a lagging read still returns, `call[w]` a
worker subprocess in a call: checking, taking the lease, running the tool, writing a
probe's outcome, counting a failure (`_increment_failure`, then `roll_window` for its
second request), opening. One action per request to the table. `pre_check` reads the
cache or the row; `observe_success` and `observe_failure` are the tool's end, where a
failure that says nothing about the target (or an approval that refuses the call) writes
nothing. `request_error`, `answer_lost` and `crash` are the faults; a lost answer makes
the client repeat the request, which a condition refuses and `ADD failureCount` does not.

Time is abstract. A row's `version` names the timestamp that was written with it
(`openedAt` when OPEN, the lease when HALF_OPEN); `elapsed` holds the versions whose
period is over, and `period_ends` adds one at any moment, so a lease may well run out
under a prober that is still calling. Windows are numbered, and move on at any moment.
`observed`, `opens`, `closings`, `missed` and `usurped` are history that no action reads.
`usurped` records that a prober settled the breaker under another one's lease, which
`_transition_from_probe` allows (section 5).

### ReleaseGate and ReleasePointer

`ptr` and `hist` are the pointer items and the history items of one agent, `row` the
organisation's item of the policy table. A mutation is split where its order
matters: `Call` (everything up to its first write), `validateReleaseGate`,
`validatePromotionApproval`, `writePointer`. Any of them may refuse, and `Fail` ends a
request anywhere. `Reads` returns the pointer or one of its last `Lag` versions, for
the pointer, the rung below, the baseline of the gate and the evaluator's index alike.
The reads of `Call` are one step: between them only the request's own pointer
matters to its outcome, and a move of that pointer dooms its conditional write. A
plain promotion reads the pointer it replaces only after the approval, as the code
does. The evaluator's run lists active canaries, judges each by the policy row of the
moment, aborts under the same version condition and writes its finding after the move.

A policy source is a function whose domain is the fields it supplies; rates are whole
percents. `IsRow` is what `isReadableRow` accepts: a row with a field of a wrong type is
`UNREADABLE` and refuses, which the model has as the `FAIL` that every verdict may be.
Evidence, comparison verdicts and metrics are values of constants; the salt is the
version that minted it.

### EvalRun

`row` and `run` are the case rows and the run's row; `task[<<case, source>>]` is how far
`recordCaseCompletion` is for that case when called by the worker, the workflow event
or the sweep: flag, event, `ADD pendingCases -1`, the completing write, its
announcement. `crash` takes a handler anywhere; whether it is run again is what the
queue, the bus or the schedule does. `Stuck` are targets that never answer.
`suiteId` is a field of the case row that the code reads and nothing writes; it is kept
as a field so that the scorer's guard is the code's. Judged scores are left out: they
are applied to a score that is never written.

## 3. What TLC checks

All runs finish within four minutes.

The hazards of `PROJECT.json` name the properties that would catch them. Where the code
does the very thing the hazard warns of, and nothing in the row could undo it (a skip or a
stall judgement over a completion, a duplicated failure that consumes a retry, a prober
past its lease), no property can hold, and the hazard's note points to section 5.

| Run | Instance | Shows |
|---|---|---|
| `dag` | all acyclic graphs of 4 nodes, all sets of conditional edges | `UnreachableIsExact`, `NeverStranded`, `PruneOnlyPending` |
| `fanin` | a,b -> c with a condition on a -> c; a handler and a watchdog, every read possibly stale, fatal errors, a resume | `TypeOK`, `DispatchOncePerGrant`, `DispatchAfterPredecessors`, `FinalizedAfterAllTerminal` |
| `faults` | a -> b on a condition, b refused; one fault, a cancel, a stall, the execution timeout, one retry; fair | `RetryBudget`, `ImplementsWorkflow`, `EventuallyEnds` |
| `single` | the fan-in, two handlers, no watchdog, no faults, one retry, a resume; fair | `AllAttemptsMade`, `CompletionKept`, `FanInReached` |
| `ledger` | three attempts, two generations, one expiry | `TypeOK`, `OneHolder`, `OnceUnlessOutcomeLost`, `ResultsAgree`, `SupersededNeverExecutes`, `TerminalKept`, `ImplementsOneShot` |
| `breaker` | two workers, a threshold of two, two windows, three failures, one fault; fair | `TypeOK`, `OneLiveProber`, `OneFindingPerOpening`, `ThresholdActedOn`, `OpenedOnEvidence`, `RecoversEventually` |
| `release` | two rungs, two releases, one client and one evaluator, reads one version behind, two authored configurations and a rollback policy | `TypeOK`, `HistoryComplete`, `LadderClimbed`, `FloorHeld`, `CanaryEpisodes`, `FindingFollowsMove`, `StricterAdmitsLess`, `StrictlyRecorded`, `ImplementsRollout` |
| `evalrun` | a conversation and two executions, one of them stuck, two starters with the same key, one fault; fair | `TypeOK`, `CounterAccounts`, `CompletedOnce`, `OutcomeIsItsOwn`, `RunCompletes` |

Four runs refute a statement of the repository's documentation or comments:

| Run | Statement | What the code does |
|---|---|---|
| `finalize_twice` | finalize and the terminal event fire exactly once (`docs/TRACING_RUNBOOK.md:606`) | `ensure_running` (`executor.py:1697`) takes a completed execution back to running when its caller's snapshot is older, and the watchdog finalizes it again |
| `refused` | a refused dispatch fails the execution (`executor.py:1080`, `docs/BLUEPRINTS_WORKFLOWS.md:511`) | the same `schedule_frontier` call sets it back to running, and a sweep completes it |
| `hang` | a stuck target cannot hang a run forever (`eval-runner.ts:26-28`) | only executions get a `deadlineAt`; a conversation that never answers is received three times, dead-lettered, and never swept |
| `unscored` | every completed case gets a score vector, from the scorer or else the aggregator (`backend/src/types/index.ts:626-629`) | both look the case up by a `suiteId` its row does not carry, and score nothing |

### Bounds

Two parties are enough for every race found so far: each is between a reader of an
old snapshot and one writer. They are two handlers in `single` and `finalize_twice`,
and a handler and the watchdog in `fanin`, where lagging replicas make
even the handler's own next read old. The fan-in is the smallest
graph in which two completions meet; the chain the smallest with a node that
depends on another; larger graphs are covered for the graph functions by `dag` and for
the safety properties by the proofs. One retry, one fault and one stall let each
recovery path happen, and meet another. In the ledger, three attempts give a dead
holder and two that race to replace it. `MaxFaults`, `MaxStalls`, `MaxRetries`,
`MaxGeneration` and `MaxExpired` are named constants in the guards. Attempts are
symmetric in the `ledger` run.

In `breaker`, two workers give every pair of racing requests: two lease takers, an opener
and one who counts, a late prober and its successor. A threshold of two needs failures of
both; three failures open the breaker, fail a probe, and leave one more to count, or
count one in each window. Deadlock is checked.

In `release`, a move by another client and a read that is one version behind look the
same to a request: it acts on a pointer that has been replaced. One client with
`Lag = 1`, beside one evaluator, therefore shows the races that two clients show, in
a state space that can be searched; the proofs cover any number of both and any lag.
`MaxVersion` (two moves on the lower rung, three on the upper) is enough for a canary
to start, be reweighted, and end by either party. In `evalrun`, one fault lets each
handler die once at each point; `MaxReceives = 3` is the queue's `maxReceiveCount`.

`CHECK_DEADLOCK FALSE` elsewhere: an execution that has ended, and a ledger key
whose attempts have all ended, have nothing left to do; nor have pointers at their
bound or an aggregated run.

### Fairness

The `FairSpec` of `StepRunner` is used by `single` and `faults`: weak fairness of delivering events
(EventBridge retries), of an invocation's next step (Lambda runs what it started;
a crash is a fault and bounded), of workers (SQS redelivers), of the sweep
(scheduled every 5 minutes, `backend/lib/arbiter-stack.ts:2148`) and of replication.
Nothing is assumed of users, faults or stalls.

The `FairSpec` of `EvalRun` assumes that a started Lambda goes on, that the queue
delivers again after its visibility timeout (15 minutes, three receives,
`backend/lib/governance-stack.ts:1190-1198`), that the bus delivers workflow events,
that a target that is not stuck ends, and that the sweep runs every five minutes
(`governance-stack.ts:2323-2331`). Nobody has to start a run or ask for a comparison.
`RunCompletes` excuses runs in which something failed: section 5 lists what a single
fault does to them.

The `FairSpec` of `ToolBreaker` assumes that agents keep calling the tool and their calls
end (a subprocess is killed after 840 s), that cached entries, recovery periods and
leases run out, and that reads catch up. Failures and faults are bounded, so
`RecoversEventually` says what happens once the target is healthy. An agent that never
calls again leaves the breaker as it is; no schedule touches it.

## 4. What is proved

For every graph, every number of invocations or attempts, and every bound:

| Module | Theorem | |
|---|---|---|
| `DagWalkProofs` | `UnreachableIsExactHolds`, `NeverStrandedHolds`, `PruneOnlyPendingHolds` | every property of `dag`, for graphs of every size |
| `StepRunnerProofs` | `TypeCorrect`, `DispatchOncePerGrantHolds`, `RetryBudgetHolds`, `DispatchAfterPredecessorsHolds`, `FinalizedAfterAllTerminalHolds` | the type invariant and the four safety invariants of `fanin` and `faults` |
| `StepRunnerRefinement` | `ImplementsWorkflowHolds` | `Spec => ImplementsWorkflow` |
| `StepRunnerAttempts` | `CompletionKeptHolds`, `AllAttemptsMadeHolds` | the safety properties of `single`, under its hypotheses |
| `ToolLedgerProofs` | `LedgerTypeCorrect`, `OneHolderHolds`, `OnceUnlessOutcomeLostHolds`, `ResultsAgreeHolds`, `SupersededNeverExecutesHolds`, `TerminalKeptHolds`, `ImplementsOneShotHolds` | every property of `ledger` |
| `ToolBreakerProofs` | `BreakerTypeCorrect`, `OneLiveProberHolds`, `OneFindingPerOpeningHolds`, `ThresholdActedOnHolds`, `OpenedOnEvidenceHolds` | the safety properties of `breaker` |
| `EvalRunProofs` | `EvalRunTypeCorrect`, `CounterAccountsHolds`, `CompletedOnceHolds`, `OutcomeIsItsOwnHolds` | the type invariant and the safety invariants of `evalrun` |
| `ReleasePointerProofs` | `StricterPolicyAdmitsLess` | for all policies and evidence |
| | `ReleaseTypeCorrect`, `HistoryCompleteHolds`, `LadderClimbedHolds`, `CanaryEpisodesHolds`, `FloorHeldHolds`, `FindingFollowsMoveHolds`, `StrictlyRecordedHolds`, `StricterAdmitsLessHolds`, `ImplementsRolloutHolds` | every property of `release` |

The assumptions are those of the modules: a workflow has finitely many nodes and edges
between them (`NodesAssumption`, `EdgesAssumption`), `StepRunnerAssumption`,
`LedgerConstants` and `BreakerConstants` (bounds are naturals, the constants have their types), the
lease assumption built into `lease_runs_out`, a finite suite (`CasesAssumption`), and
for releases that authored rows and evidence have their types (`ConfigsAssumption`,
`EvidenceAssumption`) and that `None` is no release, number or approval.

**Step runner.** None of the four invariants is inductive: each speaks of the row,
while what a step will write is in some invocation's snapshot. The strengthening
(end of `StepRunner`) has a part for each side. *Budgets*: a pending node has a
dispatch paid for (`PendingPaid`) and every count in a snapshot that is about to be
written is within the policy (`CountsInBudget`). *Frontier*: every status a row, replica or
snapshot shows as settled has really been reached (`Witnessed`), and what an
invocation is about to dispatch is ready by such a witness (`TodoReady`).
*Completion*: the same for terminal statuses, and an announcement that is still to
be made has its witness (`AnnouncedTerminal`). The lemmas `RowEffect` and
`InvocationEffect` sum up what any step may do to the row and to a snapshot; the
invariants follow from these alone. Staleness needs no bound: a snapshot may be
arbitrarily old, since settled and terminal are tracked as "at some time".

**Step runner implements Workflow.** The invariants above say when a dispatch may happen;
they leave open that whoever writes a result, a failure, a retry or a prune has a cause
for it. `Grounded` adds that: every message, event and pending write about a node goes
back to a dispatch of it (or to a refused release), and every prune to an edge into the
node and to something that has settled before. Each request of a handler then maps to one step of `Workflow` or to none. That a
prune only ever takes the target of an edge needs the loop of `propagate_skips`, and
with it finitely many nodes.

**Undisturbed runs.** `CompletionKept` and `AllAttemptsMade` are false in general (section
5). They are theorems of runs without faults, cancellation, stalls, timeouts and
conditional edges (`Undisturbed`), the second also only if every error is retriable,
no release is refused and reads are current (`Curable`): the constants of `single`, at any
size. There may still be any number of handlers, sweeps, resumes and failing nodes, and for
the first theorem refused nodes and reads of any age. The proof follows an attempt from
hand to hand: `OneAttempt` says that it is in one place at a time, in the queue, on the bus
or with one invocation; `ResultsPersisted` that who carries a completion carries what
the row has; `RefusedNeverRun` that refused nodes never get there. `Counted` then ties
dispatches to the retry count.

**Graph functions.** `propagate_skips` is a loop, and the theorems are about what its loop
reaches. The library's induction theorems take an operator as a parameter and cannot be
used, so each induction is an argument by least counterexample, on a set of numbers
(`LeastNumber`, from the well-foundedness of `<`): over the sweeps of the loop, and along the
order of the nodes, in which every edge of an acyclic graph goes forward (`Shape`). The
invariant adds that a dispatched node had all its predecessors settled and one of them
completed (`Backed`), and that nothing that is cut off is unmarked (`CutsComplete`).
`NeverStranded` follows: unless something runs, the first pending node in the order is ready.

**Tool ledger.** `HolderOwns` (whoever executes owns the row, within the lease) makes
`OneHolder` inductive together with `Ranked` (what an attempt saw as stale is behind
the horizon, and so belongs to nobody alive). `Accounted` counts: every applied
effect is recorded, about to be recorded by its one holder, lost or expired.
`LateIsFenced` and `ResultStands` carry the fence and the replayed results.
`AttemptEffect` reduces eleven actions to five effects, from which all are kept, and
which `ImplementsOneShot` maps one by one: moving on is to be barred, to leave or
nothing; taking the row is to start; running the tool is the effect; finalizing records;
a failed recording or a death abandons. The refinement needs one fact more, that nobody
has an answer before the end (`Unanswered`).

**Tool breaker.** `Versions` says that versions only grow and that each probe has its own;
with it, `LeaseHeld` (whoever probes within its lease is named by the row) is inductive
and gives `OneLiveProber`: a second lease is only granted on a row whose lease is over.
`CountBacked` keeps the row's count below the reported failures plus the repeated
requests, and `OpenerBacked` carries that to the opener, whose version must still
stand: every write that takes evidence away also moves the version or leaves an opener
nothing to open. `OneFindingPerOpening` and `ThresholdActedOn` are inductive beside them.

**Evaluation runs.** `CounterAccounts` is nearly inductive: each subtraction moves a
case from "recorded, not subtracted" to "subtracted". What it needs is that a
recorded case has ended (`Ended`) and that nothing happens before the run exists
(`Untouched`). `LastOne` then says that whoever reaches zero is alone, which gives
`CompletedOnce`. `OutcomeIsItsOwn` needs that a case is dispatched once although two
starters fan it out (`DispatchedOnce`), and that a worker holds its message
(`MessageHeld`).

**Releases.** One idea carries all of it: every pointer a request or an evaluator run
holds is `NoPointer` or an item of the history (`Snapshot`), however old. With
`HistoryComplete` the version condition then makes the pointer that was read the one
that is replaced (`Commit`), so everything decided on it is still true at the write.
`Established` keeps what a request has checked, by operation; the ladder needs no
more, since "was once stable below" stays true. `Recorded` keeps what the checks left
behind, for `StrictlyRecorded`. `LastHuman` restates `FloorHeld` without a maximum, so
that appending an item preserves it. The refinement of `Rollout` is the same argument told
once: `CommitMaps` says that a commit acts on the pointer of that moment, and each of the six
kinds of item is then one of `Rollout`'s moves. The gate theorem is separate: it goes
through staleness, thresholds and required packs one by one, and
`MergedPolicyIsPolicy` makes it apply to every row (`StricterAdmitsLess`).

Checked by TLC only: what must eventually happen (`FanInReached`, `EventuallyEnds`,
`RunCompletes`, `RecoversEventually`), since liveness under fairness is out of the prover's
reach. Every safety property of the passing runs, invariant, action property or
refinement, is also a theorem. The findings are counterexamples, which need no proof.

## 5. Observations from modelling, not stated as runs

- `CompletionKept` fails once a conditional edge and a resume meet: the resume can
  dispatch the false branch before the prune, and the prune's unconditional
  `skipped` (`executor.py:1493`) then overwrites a completed node. With the watchdog a
  late stall judgement overwrites a completion too (`timeout_watchdog.py:407`).
- With stale reads a failing node's old `retryCount` lets retries repeat, although
  the recorded count never exceeds the policy.
- `docs/WORKFLOW_USER_GUIDE.md:279` calls cancellation terminal; `ensure_running` takes a
  cancelled execution back to running. `cancelExecution` also overwrites an ended one
  (`execution-resolver.ts:550`), where `docs/BLUEPRINTS_WORKFLOWS.md:501` says it is
  returned unchanged.
- A crash between the finalizing write and `publish_workflow_completed` loses the event.
- The idempotency key does not contain the generation, so a node retried after a
  tool crash replays the recorded failure instead of calling the tool again.
- The fence is part of the reservation only: a worker superseded after it has
  reserved still executes. `OneHolder` keeps that to one execution per key.

- A duplicate delivery of a failure that is retried consumes a retry
  (`executor.py:2453`), where `docs/BLUEPRINTS_WORKFLOWS.md:384` says duplicates produce
  the same state.
- A tool call whose holder dies between the side effect and recording it is
  reclaimed after the lease and runs again (`tool_execution_ledger.py:507`), where
  `docs/TOOL_IDEMPOTENCY.md:14` guarantees exactly-once per key.
- A lost auto-rollback finding is never written again: the comment at
  `agent-release-rollback-evaluator.ts:182-184` relies on a later run, but the canary is
  gone from the index that run reads.
- `setPromotionPolicy` puts a whole item without `rollbackPolicy`, which lives on the
  same item (`docs/RELEASE_RUNBOOK.md:339`): authoring a promotion policy switches
  automatic rollback off.
- A plain promotion drops an active canary silently. The agent of the release that is
  promoted is never compared with the agent of the pointer. The gate reads the policy of
  its target and that of the rung below in two reads.
- A late completion overwrites a `TIMEOUT` of the same case, and the other way round,
  before the case is recorded; the first to record it decides which one counts.
- A handler that dies between the flag of a case and `ADD pendingCases` leaves the
  counter one too high for good; one that dies after marking `TIMEOUT` and before the
  flag is not swept again; a failed fan-out leaves cases `PENDING`, which nothing resumes
  although `eval-run-resolver.ts:342-345` calls the run resumable. In each case the
  run never completes. So does a run of an empty suite, whose counter never moves.
- `_transition_from_probe` is guarded by `HALF_OPEN` alone, although its docstring says
  "only the current prober transitions" and its callers pass `owner_required=True`, which
  nothing reads (`tool_breaker_store.py:370-393`): a prober whose call outlives its lease
  settles the breaker under the next prober's lease.
- The lease condition does not look at `openedAt` again (`tool_breaker_store.py:342`): a
  worker that read an older OPEN row probes a breaker that has just reopened.
- A failed lease request fails the call (`tool_breaker_store.py:361-366`, 270), although
  it is logged as fail-open like every other failed request.
- A probe that replays a recorded result from the ledger closes the breaker without
  touching the target; a probe that ends in a neutral failure or a refused approval
  leaves `HALF_OPEN` until the lease runs out.
- A request repeated by the client counts one failure twice.
- Compensation cannot take its first step on a real table: `_dispatch_compensation` sets
  `nodeResults.#cid.#status` under a `<node>#comp` map that nothing creates
  (`executor.py:2665-2670`), which DynamoDB refuses; the repository's own end-to-end test
  says so and uses a separate table (`arbiter/stepRunner/__tests__/test_workflow_e2e.py:489-499`).
  The exception leaves `handle_node_failure` after `compensationStatus` was set to
  `running`; the repeated event returns early, since its node has already failed. The sweep that
  would notice, `reconcile_stalled_compensations` (`timeout_watchdog.py:686`), has no
  caller, although its helper says that a stalled unwind must not be silent. Besides: no
  EventBridge rule in `backend/lib` routes `workflow.compensation.*` to the step runner,
  the registry of compensating tools is empty (`workerWrapper/index.py:1395`), the worker
  leaves the generation out of its result, so the fence at `executor.py:2966` never applies,
  and the ledger's fence compares the compensation's generation with the node's.
- `listActiveRuns` scans one page. With no case scored, the aggregates are zero and
  a strict gate fails.

## 6. Not modelled, and the plan

1. **Approval gates and pause**: extend `StepRunner` by the parked statuses, scoped grants
   and denials (unconditional writes), and the watchdog's blindness to
   `awaiting_approval`.
2. **Compensation**: a module for the reverse walk after a failure, with an abstract
   specification (each completed node compensated at most once, dependents first) and
   the refinement to it. As the code stands no walk gets past its first write (section
   5), so a faithful model today has nothing to walk; it waits for the write to be
   repaired and the result events to be routed.
3. **Tool approval**: single-use approvals against concurrent workers.
4. **Composition** of `ToolLedger` with the step runner's dispatch: the fence against
   re-dispatch of a node with several keys.
5. **Composition** of `EvalRun` with `ReleasePointer`: the evidence of a gate taken from a
   run that is still changing.
6. **Proofs**: abstract specifications for `ToolBreaker` (one prober, openings with a
   cause) and `EvalRun` (a tally), the refinements of 2 and 4, invariants of 3.

Left out for good: the language-model parts (supervisor, fabricator, intake), user
interface and infrastructure code, record keeping without concurrent protocols,
and external services beyond how this code uses them. That is most of the
repository by lines: of its two hundred thousand, the frontend, the CDK stacks and the
resolvers that read and write a record each have no behaviour of several steps for a
model to show, so the modelled share stays small.
