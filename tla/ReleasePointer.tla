--------------------------- MODULE ReleasePointer ---------------------------
(***************************************************************************)
(* Which release of one agent each environment serves: promotion up the    *)
(* ladder of environments, canaries, and the scheduled evaluator that      *)
(* aborts a canary that breaches its metrics.                              *)
(*                                                                         *)
(* A mutation is a client's request, split where it awaits a table: it     *)
(* reads pointers that may lag behind, decides, writes its findings and    *)
(* ends in one transaction conditional on the version it read. A request   *)
(* that throws, or whose Lambda dies, goes back to Idle.                   *)
(***************************************************************************)
EXTENDS ReleaseGate, Sequences

CONSTANTS
    Ladder,        \* the environments, lowest first
    Releases,      \* the releases that were cut for the agent
    Clients,       \* concurrent callers of the mutations
    Evaluators,    \* overlapping invocations of the scheduled evaluator
    EvidenceOf,    \* per release, what its evaluation run may show when it is read
    Comparable,    \* pairs <<baseline, candidate>> whose comparison may PASS
    Configs,       \* policy configurations an administrator may author
    RollbackConfigs, \* rollback sources an operator may author
    Modes,         \* values the enforcement parameter of an environment takes
    Approvals,     \* what a caller may pass as approval
    Percents,      \* canary percentages a caller may ask for
    Metrics,       \* metrics the candidate arm may show
    Lag,           \* how many versions a read may be behind
    MaxVersion,    \* per rung, bound on the moves of its pointer
    MaxFaults      \* bound on failed writes of a rollback finding

Rungs == DOMAIN Ladder

ASSUME LadderAssumption == Rungs = 1..Len(Ladder) /\ Len(Ladder) \in Nat
ASSUME ReleasesAssumption == None \notin Releases
ASSUME ApprovalAssumption == None # "approved"
ASSUME LagAssumption == Lag \in Nat
ASSUME EvidenceAssumption == \A r \in Releases : \A e \in EvidenceOf[r] : IsEvidence(e)

\* A row of the policy table; one with a field of the wrong type is refused as
\* unreadable before it is merged.
IsRow(r) ==
    /\ DOMAIN r = {"policy", "agent", "env", "rollback"}
    /\ IsOverride(r.policy) /\ IsOverride(r.agent)
    /\ \A i \in Rungs : IsOverride(r.env[i])

ASSUME ConfigsAssumption == \A config \in Configs : IsRow(config)

VARIABLES
    row,       \* the organisation's row of the policy table
    ptr,       \* per rung, the pointer item
    hist,      \* per rung, the history items in the order of their versions
    rollbacks, \* the auto-rollback findings, by rung and version moved from
    req,       \* per client, the request it runs and the permit findings it has written
    eval,      \* per evaluator, the run it is in
    faults     \* failed finding writes so far

vars == <<row, ptr, hist, rollbacks, req, eval, faults>>

GatedOps == {"promote", "startCanary", "promoteCanary"}
CanaryOps == {"startCanary", "reweightCanary", "promoteCanary", "abortCanary"}
Ops == {"promote"} \cup CanaryOps

\* A pointer item. Version 0 stands for an item that does not exist. cand, percent
\* and salt are the canary.
NoPointer == [rel |-> None, prev |-> None, ver |-> 0, cand |-> None, percent |-> 0,
              salt |-> 0, kind |-> "NONE"]

\* gate and appr keep the modes that the gate and the approval of a request read.
Idle == [op |-> "idle", pc |-> "idle", rung |-> 0, rel |-> None, approval |-> None,
         percent |-> 0, seen |-> NoPointer, policy |-> None, gate |-> None, appr |-> None,
         permits |-> {}]
Asleep == [pc |-> "idle", todo |-> {}, rung |-> 0, seen |-> NoPointer]

NoOverride == [f \in {} |-> 0]
NoRow == [policy |-> NoOverride, agent |-> NoOverride,
          env |-> [i \in Rungs |-> NoOverride], rollback |-> <<>>]

Init ==
    /\ row = NoRow
    /\ ptr = [i \in Rungs |-> NoPointer]
    /\ hist = [i \in Rungs |-> <<>>]
    /\ rollbacks = {}
    /\ req = [c \in Clients |-> Idle]
    /\ eval = [x \in Evaluators |-> Asleep]
    /\ faults = 0

---------------------------------------------------------------------------
(* The stores *)

\* What a read of a pointer, or of the sparse index of active canaries, may return:
\* neither asks for a consistent read.
Reads(i) == {ptr[i]} \cup {hist[i][v] : v \in {w \in DOMAIN hist[i] : w + Lag >= Len(hist[i])}}
                     \cup {p \in {NoPointer} : Len(hist[i]) <= Lag}

\* Mutant: the transaction puts without its condition.
AnyVersion(i, seen) == TRUE

\* The condition of the pointer's Put.
VersionMatches(i, seen) == ptr[i].ver = 0 \/ (seen.ver # 0 /\ ptr[i].ver = seen.ver)

\* The transaction that moves a pointer and appends its history item.
setEnvironmentReleasePointer(i, seen, item) ==
    LET next == [item EXCEPT !.prev = seen.rel, !.ver = seen.ver + 1]
    IN /\ VersionMatches(i, seen)
       /\ Len(hist[i]) < MaxVersion[i]
       /\ ptr' = [ptr EXCEPT ![i] = next]
       /\ hist' = [hist EXCEPT ![i] = Append(@, next)]

resolvePromotionPolicy(r, i) == mergePolicyFields(<<r.policy, r.agent, r.env[i]>>)
resolveBaseEnvironmentPolicy(r, i) == mergePolicyFields(<<r.policy, r.env[i]>>)

\* Every rung's policy, per-agent overrides aside, is as strict as the one below.
assertMonotonicLadder(config) ==
    \A i \in Rungs \ {1} : comparePolicyStrictness(resolveBaseEnvironmentPolicy(config, i),
                                                   resolveBaseEnvironmentPolicy(config, i - 1))

\* An administrator's Put replaces the whole item, and an authored configuration
\* has no rollback sources.
setPromotionPolicy(config) ==
    /\ assertMonotonicLadder(config)
    /\ row' = config
    /\ UNCHANGED <<ptr, hist, rollbacks, req, eval, faults>>

\* External: an operator stores rollback sources on the same item.
AuthorRollback(sources) ==
    /\ row' = [row EXCEPT !.rollback = sources]
    /\ UNCHANGED <<ptr, hist, rollbacks, req, eval, faults>>

---------------------------------------------------------------------------
(* The mutations *)

At(c, pc) == req[c].pc = pc
Go(c, r, pc) == req' = [req EXCEPT ![c] = [r EXCEPT !.pc = pc]]
Stop(c) == req' = [req EXCEPT ![c] = Idle]

\* The arguments of each mutation; the ones it does not take are at rest.
InputsOf(op) ==
    [rel : IF op \in {"promote", "startCanary"} THEN Releases ELSE {None},
     approval : IF op \in GatedOps THEN Approvals ELSE {None},
     percent : IF op \in {"startCanary", "reweightCanary"} THEN Percents ELSE {0}]

\* Mutant: the environment below only has to serve some release.
BelowServesSomething(i, release) == i # 1 => \E below \in Reads(i - 1) : below.ver # 0

\* The environment below must serve this release now; the lowest is unconstrained.
assertLadderAdjacency(i, release) ==
    i # 1 => release \in {below.rel : below \in Reads(i - 1)}

\* The share of traffic is held to the policy of the moment; unreadable refuses.
enforceCanaryCeiling(i, percent) == percent <= resolvePromotionPolicy(row, i).canaryMaxBasisPoints

\* A gated request passed the ladder and read the policy of its target.
Admit(c, r) ==
    /\ assertLadderAdjacency(r.rung, r.rel)
    /\ Go(c, [r EXCEPT !.policy = resolvePromotionPolicy(row, r.rung)], "gate")

\* A request up to its first write: permission, existence and organisation, the
\* pointer and the canary state it requires, the ladder. These reads are one step,
\* since a move of its own pointer among them dooms the conditional write anyway. A
\* promotion reads no pointer of its own yet. A refusal leaves the client idle.
Call(c, op, i, input) ==
    LET r == [Idle EXCEPT !.op = op, !.rung = i, !.rel = input.rel,
                          !.approval = input.approval, !.percent = input.percent]
    IN /\ At(c, "idle")
       /\ \/ op = "promote" /\ Admit(c, r)
          \/ \E p \in Reads(i) :
                /\ p.ver # 0
                /\ \/ op = "startCanary" /\ p.cand = None /\ Admit(c, [r EXCEPT !.seen = p])
                   \/ /\ op = "promoteCanary" /\ p.cand # None
                      /\ Admit(c, [r EXCEPT !.seen = p, !.rel = p.cand])
                   \/ /\ op = "reweightCanary" /\ p.cand # None
                      /\ enforceCanaryCeiling(i, r.percent)
                      /\ Go(c, [r EXCEPT !.seen = p], "write")
                   \/ /\ op = "abortCanary" /\ p.cand # None
                      /\ Go(c, [r EXCEPT !.seen = p], "write")
       /\ UNCHANGED <<row, ptr, hist, rollbacks, eval, faults>>

\* The verdict over the evidence. A policy weaker than the one of the environment
\* below fails, and so do a policy or evidence that cannot be read.
Verdicts(r) ==
    LET weaker == r.rung # 1 /\ ~comparePolicyStrictness(r.policy, resolvePromotionPolicy(row, r.rung - 1))
    IN {"FAIL"} \cup
       (IF weaker THEN {}
        ELSE {evaluateReleaseGate(e, p.ver # 0,
                                  IF <<p.rel, r.rel>> \in Comparable THEN "PASS" ELSE "FAIL",
                                  r.policy)
                : e \in EvidenceOf[r.rel], p \in Reads(r.rung)})

\* The rest of the gate: verdict, mode, and the finding, whose failed write refuses
\* the request in every mode that records one.
validateReleaseGate(c) ==
    LET r == req[c]
    IN /\ At(c, "gate")
       /\ \E status \in Verdicts(r), mode \in Modes, written \in BOOLEAN :
             IF \/ recordFinding(mode) /\ ~written
                \/ block(mode) /\ isFailStatus(status)
             THEN Stop(c)
             ELSE Go(c, [r EXCEPT !.gate = mode, !.policy = None,
                            !.permits = {p \in {"gate"} : recordFinding(mode) /\ ~isFailStatus(status)}],
                     "approve")
       /\ UNCHANGED <<row, ptr, hist, rollbacks, eval, faults>>

\* Approval reads the mode again; strict needs a recorded approval, shadow records
\* what was supplied, permissive ignores it. The refusal is recorded first. Then come
\* the reads before the write: a promotion reads the pointer it replaces, only now,
\* and the start of a canary checks the ceiling.
validatePromotionApproval(c) ==
    LET r == req[c]
    IN /\ At(c, "approve")
       /\ \E mode \in Modes, written \in BOOLEAN :
             LET records == recordFinding(mode) /\ r.approval # None
                 next == [r EXCEPT !.appr = mode, !.approval = None,
                            !.permits = @ \cup {p \in {"approval"} : records /\ r.approval = "approved"}]
             IN IF \/ records /\ ~written
                   \/ block(mode) /\ r.approval # "approved"
                   \/ r.op = "startCanary" /\ ~enforceCanaryCeiling(r.rung, r.percent)
                THEN Stop(c)
                ELSE \/ /\ r.op = "promote"
                        /\ \E p \in Reads(r.rung) : Go(c, [next EXCEPT !.seen = p], "write")
                     \/ r.op # "promote" /\ Go(c, next, "write")
       /\ UNCHANGED <<row, ptr, hist, rollbacks, eval, faults>>

\* A pointer without a canary, and one with it.
Bare(rel, kind) == [NoPointer EXCEPT !.rel = rel, !.kind = kind]
Canary(rel, kind, cand, percent, salt) ==
    [Bare(rel, kind) EXCEPT !.cand = cand, !.percent = percent, !.salt = salt]

\* Mutants: a start mints no salt; a reweight mints a new one.
NoSalt(r) == None
SaltAgain(r) == r.seen.ver + 1

\* A start mints the salt that assigns callers to the arms; a reweight keeps it.
MintedSalt(r) == r.seen.ver + 1
KeptSalt(r) == r.seen.salt

\* The item each mutation writes: a promotion, a cut-over and an abort drop the
\* canary, a reweight keeps everything but the share.
ItemOf(r) ==
    CASE r.op = "promote" -> Bare(r.rel, "PROMOTE")
      [] r.op = "startCanary" ->
           Canary(r.seen.rel, "CANARY_START", r.rel, r.percent, MintedSalt(r))
      [] r.op = "reweightCanary" ->
           Canary(r.seen.rel, "CANARY_REWEIGHT", r.seen.cand, r.percent, KeptSalt(r))
      [] r.op = "promoteCanary" -> Bare(r.rel, "CANARY_PROMOTE")
      [] r.op = "abortCanary" -> Bare(r.seen.rel, "CANARY_ABORT")

\* The conditional write, or the refusal of one that lost the race.
writePointer(c) ==
    LET r == req[c]
    IN /\ At(c, "write")
       /\ \/ setEnvironmentReleasePointer(r.rung, r.seen, ItemOf(r))
          \/ ~VersionMatches(r.rung, r.seen) /\ UNCHANGED <<ptr, hist>>
       /\ Stop(c)
       /\ UNCHANGED <<row, rollbacks, eval, faults>>

\* A throttled call or a dead Lambda ends a request anywhere.
Fail(c) ==
    /\ ~At(c, "idle")
    /\ Stop(c)
    /\ UNCHANGED <<row, ptr, hist, rollbacks, eval, faults>>

---------------------------------------------------------------------------
(* The scheduled evaluator *)

Wake(x, e) == eval' = [eval EXCEPT ![x] = e]
Resume(x) == Wake(x, IF eval[x].todo = {} THEN Asleep
                     ELSE [Asleep EXCEPT !.pc = "evaluate", !.todo = eval[x].todo])

\* The index lists the pointers that carry a canary, as of some recent moment.
queryActiveCanaries(x) ==
    /\ eval[x].pc = "idle"
    /\ \E f \in {g \in [Rungs -> UNION {Reads(i) : i \in Rungs}] : \A i \in Rungs : g[i] \in Reads(i)} :
          LET todo == {<<i, f[i]>> : i \in {j \in Rungs : f[j].cand # None}}
          IN /\ todo # {}
             /\ Wake(x, [Asleep EXCEPT !.pc = "evaluate", !.todo = todo])
    /\ UNCHANGED <<row, ptr, hist, rollbacks, req, faults>>

\* One canary of the list: an unreadable or disabled policy, or metrics within
\* bounds, leave it alone.
evaluateOneCanary(x) ==
    /\ eval[x].pc = "evaluate"
    /\ \E task \in eval[x].todo, m \in Metrics, readable \in BOOLEAN :
          LET rest == eval[x].todo \ {task}
          IN IF readable /\ evaluateRollback(m, mergeRollbackFields(row.rollback))
             THEN Wake(x, [pc |-> "abort", todo |-> rest, rung |-> task[1], seen |-> task[2]])
             ELSE Wake(x, IF rest = {} THEN Asleep ELSE [eval[x] EXCEPT !.todo = rest])
    /\ UNCHANGED <<row, ptr, hist, rollbacks, req, faults>>

\* Mutants: the abort keeps the wrong arm; a run that lost the race records the
\* rollback all the same.
KeepCandidate(seen) == Bare(seen.cand, "AUTO_ABORT_CANARY")
RecordAnyway(x) == Wake(x, [eval[x] EXCEPT !.pc = "finding"])

\* The store's abort: the stable release stays, the canary goes, and a lost race
\* leaves this canary to whoever won.
AbortItem(seen) == Bare(seen.rel, "AUTO_ABORT_CANARY")
LostRace(x) == Resume(x)

performAutoAbortCanary(x) ==
    LET seen == eval[x].seen
    IN /\ eval[x].pc = "abort"
       /\ \/ /\ setEnvironmentReleasePointer(eval[x].rung, seen, AbortItem(seen))
             /\ Wake(x, [eval[x] EXCEPT !.pc = "finding"])
          \/ /\ ~VersionMatches(eval[x].rung, seen)
             /\ LostRace(x)
             /\ UNCHANGED <<ptr, hist>>
       /\ UNCHANGED <<row, rollbacks, req, faults>>

\* The finding follows the move; when its write fails the run goes on.
writeAutoRollbackFinding(x) ==
    /\ eval[x].pc = "finding"
    /\ \/ rollbacks' = rollbacks \cup {<<eval[x].rung, eval[x].seen.ver>>} /\ UNCHANGED faults
       \/ faults < MaxFaults /\ faults' = faults + 1 /\ UNCHANGED rollbacks
    /\ Resume(x)
    /\ UNCHANGED <<row, ptr, hist, req>>

\* A run that dies leaves the rest of its list to a later one.
Die(x) ==
    /\ eval[x].pc # "idle"
    /\ faults < MaxFaults
    /\ faults' = faults + 1
    /\ Wake(x, Asleep)
    /\ UNCHANGED <<row, ptr, hist, rollbacks, req>>

---------------------------------------------------------------------------
ClientStep(c) ==
    \/ \E op \in Ops, i \in Rungs : \E input \in InputsOf(op) : Call(c, op, i, input)
    \/ validateReleaseGate(c) \/ validatePromotionApproval(c) \/ writePointer(c) \/ Fail(c)

EvaluatorStep(x) ==
    \/ queryActiveCanaries(x) \/ evaluateOneCanary(x) \/ performAutoAbortCanary(x)
    \/ writeAutoRollbackFinding(x) \/ Die(x)

Next ==
    \/ \E config \in Configs : setPromotionPolicy(config)
    \/ \E sources \in RollbackConfigs : AuthorRollback(sources)
    \/ \E c \in Clients : ClientStep(c)
    \/ \E x \in Evaluators : EvaluatorStep(x)

Spec == Init /\ [][Next]_vars

---------------------------------------------------------------------------
Kinds == {"PROMOTE", "CANARY_START", "CANARY_REWEIGHT", "CANARY_PROMOTE", "CANARY_ABORT",
          "AUTO_ABORT_CANARY"}
HumanStableTransitions == {"PROMOTE", "CANARY_PROMOTE"}
Pointer == [rel : Releases \cup {None}, prev : Releases \cup {None}, ver : Nat,
            cand : Releases \cup {None}, percent : Percents \cup {0}, salt : Nat,
            kind : Kinds \cup {"NONE"}]

Request == [op : Ops \cup {"idle"}, pc : {"idle", "gate", "approve", "write"},
            rung : Rungs \cup {0}, rel : Releases \cup {None}, approval : Approvals \cup {None},
            percent : Percents \cup {0}, seen : Pointer, policy : PromotionPolicy \cup {None},
            gate : Modes \cup {None}, appr : Modes \cup {None}, permits : SUBSET {"gate", "approval"}]
Evaluation == [pc : {"idle", "evaluate", "abort", "finding"}, todo : SUBSET (Rungs \X Pointer),
               rung : Rungs \cup {0}, seen : Pointer]

\* The variables have their types; in particular every policy a request was judged
\* by is a whole policy, whatever the sources it was merged from leave out.
TypeOK ==
    /\ IsRow(row)
    /\ ptr \in [Rungs -> Pointer]
    /\ hist \in [Rungs -> Seq(Pointer)]
    /\ rollbacks \subseteq Rungs \X Nat
    /\ req \in [Clients -> Request]
    /\ eval \in [Evaluators -> Evaluation]
    /\ faults \in Nat

\* The history table is a gap-free record: its last item is the pointer, versions
\* count from one, and each item names the release its predecessor left stable
\* (setEnvironmentReleasePointer: the transaction and its version condition).
HistoryComplete ==
    \A i \in Rungs :
        /\ Len(hist[i]) = ptr[i].ver
        /\ ptr[i].ver # 0 => hist[i][ptr[i].ver] = ptr[i]
        /\ \A v \in DOMAIN hist[i] :
              /\ hist[i][v].ver = v
              /\ hist[i][v].prev = IF v = 1 THEN None ELSE hist[i][v - 1].rel

\* A release that became stable or a candidate in an environment was stable in the
\* environment below before (assertLadderAdjacency, however stale its read and
\* whatever moved between it and the write).
LadderClimbed ==
    \A i \in Rungs \ {1} : \A v \in DOMAIN hist[i] :
        LET served == {hist[i - 1][w].rel : w \in DOMAIN hist[i - 1]}
        IN hist[i][v].rel \in served /\ (hist[i][v].cand # None => hist[i][v].cand \in served)

\* A canary is one episode: it starts where there is none, a reweight keeps its
\* candidate and its salt, a cut-over makes that candidate stable, and an abort,
\* whoever asks for it, ends it and leaves the stable release alone.
CanaryEpisodes ==
    \A i \in Rungs : \A v \in DOMAIN hist[i] :
        LET now == hist[i][v]
            before == IF v = 1 THEN NoPointer ELSE hist[i][v - 1]
        IN CASE now.kind = "CANARY_START" ->
                   v > 1 /\ before.cand = None /\ now.rel = before.rel /\ now.salt = v
             [] now.kind = "CANARY_REWEIGHT" ->
                   before.cand # None /\ now.rel = before.rel
                   /\ now.cand = before.cand /\ now.salt = before.salt
             [] now.kind = "CANARY_PROMOTE" ->
                   before.cand # None /\ now.rel = before.cand /\ now.cand = None
             [] now.kind \in {"CANARY_ABORT", "AUTO_ABORT_CANARY"} ->
                   before.cand # None /\ now.rel = before.rel /\ now.cand = None
             [] OTHER -> now.kind = "PROMOTE" /\ now.cand = None

deriveLastHumanStableReleaseId(history) ==
    LET human == {v \in DOMAIN history : history[v].kind \in HumanStableTransitions}
    IN IF human = {} THEN None ELSE history[Max(human)].rel

\* The stable release is the one a human last cut over to: no automatic action, and
\* no canary, moves it (rollback-floor.ts and performAutoAbortCanary).
FloorHeld ==
    \A i \in Rungs : ptr[i].rel = deriveLastHumanStableReleaseId(hist[i])

\* A gated request moves a pointer only after both checks ran, and what a strict
\* gate or a strict approval let through was recorded as permitted before the move
\* (validateReleaseGate, validatePromotionApproval: the finding is awaited first).
StrictlyRecorded ==
    [][\A c \in Clients :
          LET r == req[c]
          IN r.op \in GatedOps /\ req'[c] = Idle /\ ptr'[r.rung] # ptr[r.rung] =>
                /\ r.gate \in Modes /\ r.appr \in Modes
                /\ r.gate = "strict" => "gate" \in r.permits
                /\ r.appr = "strict" => "approval" \in r.permits]_vars

\* An auto-rollback finding names a move that was committed from that very version
\* (evaluateOneCanary writes it after the move, never for a race it lost).
FindingFollowsMove ==
    \A f \in rollbacks :
        /\ f[2] + 1 \in DOMAIN hist[f[1]]
        /\ hist[f[1]][f[2] + 1].kind = "AUTO_ABORT_CANARY"

\* Whatever the row holds, where a rung is as strict as the one below, evidence that
\* passes its gate passes the gate below (comparePolicyStrictness against
\* evaluateReleaseGate: the comparison covers every field the verdict depends on).
StricterAdmitsLess ==
    \A i \in Rungs \ {1} :
        LET higher == resolvePromotionPolicy(row, i)
            lower == resolvePromotionPolicy(row, i - 1)
        IN comparePolicyStrictness(higher, lower) =>
              \A r \in Releases : \A e \in EvidenceOf[r] :
              \A baseline \in BOOLEAN, comparison \in {"PASS", "FAIL"} :
                 isFailStatus(evaluateReleaseGate(e, baseline, comparison, lower))
                 => isFailStatus(evaluateReleaseGate(e, baseline, comparison, higher))

\* How the state maps to Rollout's: a pointer item split into the release it serves and
\* the canary beside it, the history into what was served and what was aborted.
Beside(p) == [release |-> p.cand, share |-> p.percent, salt |-> p.salt]
Served(h) == {h[w].rel : w \in DOMAIN h}
Aborts(i, h) == {<<i, v>> : v \in {w \in DOMAIN h : h[w].kind = "AUTO_ABORT_CANARY"}}

R == INSTANCE Rollout WITH
       Shares <- Percents \cup {0},
       stable <- [i \in Rungs |-> ptr[i].rel],
       canary <- [i \in Rungs |-> Beside(ptr[i])],
       moves <- [i \in Rungs |-> ptr[i].ver],
       served <- [i \in Rungs |-> Served(hist[i])],
       aborts <- UNION {Aborts(i, hist[i]) : i \in Rungs},
       reported <- {<<f[1], f[2] + 1>> : f \in rollbacks}

\* The mutations and the evaluator keep the promises of Rollout: what each of them reads,
\* checks, awaits and finally writes comes to one step on the pointer as it is then
\* (setEnvironmentReleasePointer's condition against the five mutations' early reads and
\* performAutoAbortCanary's index).
ImplementsRollout == R!Spec
=============================================================================
