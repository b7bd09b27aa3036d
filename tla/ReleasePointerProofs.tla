------------------------ MODULE ReleasePointerProofs ------------------------
(***************************************************************************)
(* The promotion properties hold for every ladder, every number of clients *)
(* and evaluators, every lag of the reads and every policy. What carries   *)
(* them: whatever a request or a run has read is NoPointer or an item of   *)
(* the history, so that the version condition of the transaction makes the *)
(* pointer that was read the pointer that is replaced.                     *)
(***************************************************************************)
EXTENDS ReleasePointer, TLAPS

(***************************************************************************)
(* The gate. The comparison of two policies covers everything the gate     *)
(* looks at: for all policies and all evidence, a stricter policy admits   *)
(* less. And a policy merged from readable sources is a policy.            *)
(***************************************************************************)
LEMMA StaleUnderStricter ==
    ASSUME NEW e, IsEvidence(e), NEW h \in PromotionPolicy, NEW l \in PromotionPolicy,
           comparePolicyStrictness(h, l), stale(e, l)
    PROVE  stale(e, h)
<1>1. h.maxEvidenceAgeDays \in Int /\ l.maxEvidenceAgeDays \in Int
      /\ h.maxEvidenceAgeDays <= l.maxEvidenceAgeDays
  BY DEF PromotionPolicy, comparePolicyStrictness, TighteningCeilingFields
<1>2. e.ageDays \in Int \cup {None}
  BY DEF IsEvidence
<1>3. QED
  BY <1>1, <1>2, NoneAssumption DEF stale

LEMMA BreachUnderStricter ==
    ASSUME NEW d \in Dimensions, NEW m \in Int, NEW h \in PromotionPolicy, NEW l \in PromotionPolicy,
           comparePolicyStrictness(h, l), Breach(d, m, l)
    PROVE  Breach(d, m, h)
<1>1. /\ h.taskSuccessMin \in Int /\ l.taskSuccessMin \in Int /\ h.taskSuccessMin >= l.taskSuccessMin
      /\ h.policyComplianceMin \in Int /\ l.policyComplianceMin \in Int
      /\ h.policyComplianceMin >= l.policyComplianceMin
  BY DEF PromotionPolicy, comparePolicyStrictness, RisingFloorFields
<1>2. /\ h.latencyP95TargetMs \in Int /\ l.latencyP95TargetMs \in Int
      /\ h.latencyP95TargetMs <= l.latencyP95TargetMs
      /\ h.avgCostBudgetUsd \in Int /\ l.avgCostBudgetUsd \in Int
      /\ h.avgCostBudgetUsd <= l.avgCostBudgetUsd
  BY DEF PromotionPolicy, comparePolicyStrictness, TighteningCeilingFields
<1>3. CASE d = "task_success"
  <2>1. m < l.taskSuccessMin
    BY <1>3 DEF Breach
  <2>2. QED
    BY <1>1, <1>3, <2>1 DEF Breach
<1>4. CASE d = "policy_compliance"
  <2>1. m < l.policyComplianceMin
    BY <1>4 DEF Breach
  <2>2. m < h.policyComplianceMin
    BY <1>1, <2>1
  <2>3. QED
    BY <1>4, <2>2 DEF Breach
<1>5. CASE d = "latency"
  <2>1. m > l.latencyP95TargetMs
    BY <1>5 DEF Breach
  <2>2. m > h.latencyP95TargetMs
    BY <1>2, <2>1
  <2>3. QED
    BY <1>5, <2>2 DEF Breach
<1>6. CASE d = "cost"
  <2>1. m > l.avgCostBudgetUsd
    BY <1>6 DEF Breach
  <2>2. m > h.avgCostBudgetUsd
    BY <1>2, <2>1
  <2>3. QED
    BY <1>6, <2>2 DEF Breach
<1>7. QED
  BY <1>3, <1>4, <1>5, <1>6 DEF Dimensions

LEMMA ThresholdsUnderStricter ==
    ASSUME NEW e, IsEvidence(e), NEW h \in PromotionPolicy, NEW l \in PromotionPolicy,
           comparePolicyStrictness(h, l)
    PROVE  evaluateAbsoluteThresholds(e.aggregates, l) \subseteq evaluateAbsoluteThresholds(e.aggregates, h)
<1>1. \A d \in DOMAIN e.aggregates : /\ e.aggregates[d].scoredCount \in Int
                                     /\ e.aggregates[d].measure \in Int \cup {None}
  BY DEF IsEvidence
<1>2. h.minSampleCount \in Int /\ l.minSampleCount \in Int /\ h.minSampleCount >= l.minSampleCount
  BY DEF PromotionPolicy, comparePolicyStrictness, RisingFloorFields
<1>3. ASSUME NEW d \in evaluateAbsoluteThresholds(e.aggregates, l)
      PROVE  d \in evaluateAbsoluteThresholds(e.aggregates, h)
  <2>1. d \in Dimensions
    BY DEF evaluateAbsoluteThresholds
  <2>2. CASE d \notin DOMAIN e.aggregates
    BY <2>1, <2>2 DEF evaluateAbsoluteThresholds
  <2>3. CASE d \in DOMAIN e.aggregates
    <3>1. e.aggregates[d].scoredCount \in Int /\ e.aggregates[d].measure \in Int \cup {None}
      BY <1>1, <2>3
    <3>2. \/ e.aggregates[d].scoredCount < l.minSampleCount
          \/ e.aggregates[d].measure = None
          \/ Breach(d, e.aggregates[d].measure, l)
      BY <2>3 DEF evaluateAbsoluteThresholds
    <3>3. \/ e.aggregates[d].scoredCount < h.minSampleCount
          \/ e.aggregates[d].measure = None
          \/ Breach(d, e.aggregates[d].measure, h)
      BY <1>2, <2>1, <3>1, <3>2, BreachUnderStricter
    <3>4. QED
      BY <2>1, <2>3, <3>3 DEF evaluateAbsoluteThresholds
  <2>4. QED
    BY <2>2, <2>3
<1>4. QED
  BY <1>3

LEMMA PacksUnderStricter ==
    ASSUME NEW e, NEW h, NEW l, comparePolicyStrictness(h, l), evaluateRequiredPacks(e, h)
    PROVE  evaluateRequiredPacks(e, l)
  BY DEF comparePolicyStrictness, evaluateRequiredPacks

\* Where comparePolicyStrictness finds a policy at least as strict as another, evidence
\* that the other refuses is refused, whatever the baseline and the comparison.
THEOREM StricterPolicyAdmitsLess ==
    ASSUME NEW e, IsEvidence(e), NEW baseline \in BOOLEAN, NEW comparison,
           NEW h \in PromotionPolicy, NEW l \in PromotionPolicy, comparePolicyStrictness(h, l),
           isFailStatus(evaluateReleaseGate(e, baseline, comparison, l))
    PROVE  isFailStatus(evaluateReleaseGate(e, baseline, comparison, h))
<1> DEFINE Met(p) == /\ evaluateAbsoluteThresholds(e.aggregates, p) = {}
                     /\ evaluateRequiredPacks(e, p)
           Passes(p) == /\ ~stale(e, p) /\ Met(p)
                        /\ IF baseline THEN comparison = "PASS" ELSE p.allowNoBaselineOnAbsoluteFloors
<1>1. ASSUME NEW p PROVE isFailStatus(evaluateReleaseGate(e, baseline, comparison, p)) <=> ~Passes(p)
  BY DEF isFailStatus, evaluateReleaseGate
<1>2. Met(h) => Met(l)
  BY ThresholdsUnderStricter, PacksUnderStricter
<1>3. stale(e, l) => stale(e, h)
  BY StaleUnderStricter
<1>4. h.allowNoBaselineOnAbsoluteFloors => l.allowNoBaselineOnAbsoluteFloors
  BY DEF comparePolicyStrictness
<1> HIDE DEF Met
<1>5. Passes(h) => Passes(l)
  BY <1>2, <1>3, <1>4
<1>6. QED
  BY <1>1, <1>5

---------------------------------------------------------------------------
(* The merge *)

LEMMA MaxOfThree ==
    ASSUME NEW S \in SUBSET (1..3), S # {}
    PROVE  Max(S) \in S
<1>1. \E m \in S : \A n \in S : m >= n
  <2>1. CASE 3 \in S
    BY <2>1
  <2>2. CASE 3 \notin S /\ 2 \in S
    BY <2>2
  <2>3. CASE 3 \notin S /\ 2 \notin S
    <3>1. \A n \in S : n = 1
      BY <2>3
    <3>2. 1 \in S
      BY <3>1
    <3>3. QED
      BY <3>1, <3>2
  <2>4. QED
    BY <2>1, <2>2, <2>3
<1>2. QED
  BY <1>1 DEF Max

LEMMA MergedField ==
    ASSUME NEW a, NEW b, NEW c, NEW f \in DOMAIN DefaultPromotionPolicy
    PROVE  LET merged == mergePolicyFields(<<a, b, c>>)
           IN \/ merged[f] = DefaultPromotionPolicy[f]
              \/ f \in DOMAIN a /\ merged[f] = a[f]
              \/ f \in DOMAIN b /\ merged[f] = b[f]
              \/ f \in DOMAIN c /\ merged[f] = c[f]
<1> DEFINE s == <<a, b, c>>
           supplied == {i \in DOMAIN s : f \in DOMAIN s[i] /\ SanePromotionField(f, s[i][f])}
           merged == mergePolicyFields(s)
<1>1. merged[f] = IF supplied = {} THEN DefaultPromotionPolicy[f] ELSE s[Max(supplied)][f]
  BY DEF mergePolicyFields, mergeFields
<1>2. DOMAIN s = 1..3 /\ s[1] = a /\ s[2] = b /\ s[3] = c
  OBVIOUS
<1>3. CASE supplied = {}
  BY <1>1, <1>3
<1>4. CASE supplied # {}
  <2>1. supplied \in SUBSET (1..3)
    BY <1>2
  <2>2. PICK i \in supplied : i = Max(supplied)
    BY <1>4, <2>1, MaxOfThree
  <2>3. i \in 1..3 /\ f \in DOMAIN s[i] /\ merged[f] = s[i][f]
    BY <1>1, <1>2, <1>4, <2>2
  <2>4. QED
    BY <1>2, <2>3
<1>5. QED
  BY <1>3, <1>4

\* A policy merged from sources whose fields have their types is a whole policy.
LEMMA MergedPolicyIsPolicy ==
    ASSUME NEW a, NEW b, NEW c, IsOverride(a), IsOverride(b), IsOverride(c)
    PROVE  mergePolicyFields(<<a, b, c>>) \in PromotionPolicy
<1> DEFINE p == mergePolicyFields(<<a, b, c>>)
           Numbers == {"taskSuccessMin", "policyComplianceMin", "minSampleCount",
                       "latencyP95TargetMs", "avgCostBudgetUsd", "maxEvidenceAgeDays",
                       "canaryMaxBasisPoints"}
<1>1. DOMAIN DefaultPromotionPolicy
         = Numbers \cup {"requiredGateClasses", "allowNoBaselineOnAbsoluteFloors"}
  BY DEF DefaultPromotionPolicy
<1>2. p = [f \in Numbers \cup {"requiredGateClasses", "allowNoBaselineOnAbsoluteFloors"} |-> p[f]]
  BY <1>1 DEF mergePolicyFields, mergeFields
<1>3. ASSUME NEW f \in Numbers PROVE p[f] \in Int
  <2>1. DefaultPromotionPolicy[f] \in Int
    BY DEF DefaultPromotionPolicy
  <2>2. ASSUME NEW s, IsOverride(s), f \in DOMAIN s PROVE s[f] \in Int
    BY <2>2 DEF IsOverride
  <2> HIDE DEF p
  <2>3. QED
    BY <1>1, <2>1, <2>2, MergedField DEF p
<1>4. p["requiredGateClasses"] \subseteq STRING
  <2>1. DefaultPromotionPolicy["requiredGateClasses"] \subseteq STRING
    BY DEF DefaultPromotionPolicy
  <2>2. ASSUME NEW s, IsOverride(s), "requiredGateClasses" \in DOMAIN s
        PROVE  s["requiredGateClasses"] \subseteq STRING
    BY <2>2 DEF IsOverride
  <2>3. QED
    BY <1>1, <2>1, <2>2, MergedField
<1>5. p["allowNoBaselineOnAbsoluteFloors"] \in BOOLEAN
  <2>1. DefaultPromotionPolicy["allowNoBaselineOnAbsoluteFloors"] \in BOOLEAN
    BY DEF DefaultPromotionPolicy
  <2>2. ASSUME NEW s, IsOverride(s), "allowNoBaselineOnAbsoluteFloors" \in DOMAIN s
        PROVE  s["allowNoBaselineOnAbsoluteFloors"] \in BOOLEAN
    BY <2>2 DEF IsOverride
  <2>3. QED
    BY <1>1, <2>1, <2>2, MergedField
<1> HIDE DEF p
<1>6. p \in PromotionPolicy
  BY <1>2, <1>3, <1>4, <1>5 DEF PromotionPolicy
<1>7. QED
  BY <1>6 DEF p

(***************************************************************************)
(* The inductive invariant                                                 *)
(***************************************************************************)

\* The inductive invariant speaks of a history h, or of the histories h of all rungs.
Snapshot(h, p) == p = NoPointer \/ (p.ver \in DOMAIN h /\ h[p.ver] = p)

\* What a request has read and established, by the operation it runs.
Established(r, h) ==
    /\ r.rung \in Rungs /\ r.op \in Ops
    /\ Snapshot(h[r.rung], r.seen)
    /\ r.op \in GatedOps => r.rel # None /\ (r.rung # 1 => r.rel \in Served(h[r.rung - 1]))
    /\ r.op # "promote" => r.seen.ver # 0
    /\ r.op = "startCanary" => r.seen.cand = None
    /\ r.op \in {"reweightCanary", "promoteCanary", "abortCanary"} => r.seen.cand # None
    /\ r.op = "promoteCanary" => r.rel = r.seen.cand

\* What the checks of a gated request have left behind.
Recorded(r) ==
    /\ r.pc \in {"gate", "approve"} => r.op \in GatedOps
    /\ r.pc \in {"approve", "write"} /\ r.op \in GatedOps =>
          r.gate \in Modes /\ (r.gate = "strict" => "gate" \in r.permits)
    /\ r.pc = "write" /\ r.op \in GatedOps =>
          r.appr \in Modes /\ (r.appr = "strict" => "approval" \in r.permits)

RequestOK(r, h) ==
    IF r.pc = "idle" THEN r = Idle ELSE Established(r, h) /\ Recorded(r)

EvaluationOK(e, h) ==
    /\ \A t \in e.todo : Snapshot(h[t[1]], t[2]) /\ t[2].cand # None
    /\ e.pc \in {"abort", "finding"} =>
          e.rung \in Rungs /\ Snapshot(h[e.rung], e.seen) /\ e.seen.cand # None
    /\ e.pc = "finding" =>
          e.seen.ver + 1 \in DOMAIN h[e.rung] /\ h[e.rung][e.seen.ver + 1].kind = "AUTO_ABORT_CANARY"

\* The last human transition of a history left rel stable.
LastHuman(h, rel) ==
    IF \E v \in DOMAIN h : h[v].kind \in HumanStableTransitions
    THEN \E m \in DOMAIN h :
            /\ h[m].kind \in HumanStableTransitions /\ h[m].rel = rel
            /\ \A v \in DOMAIN h : h[v].kind \in HumanStableTransitions => m >= v
    ELSE rel = None

IInv ==
    /\ TypeOK
    /\ HistoryComplete
    /\ \A i \in Rungs : ptr[i].ver = 0 => ptr[i] = NoPointer
    /\ \A c \in Clients : RequestOK(req[c], hist)
    /\ \A x \in Evaluators : EvaluationOK(eval[x], hist)
    /\ \A i \in Rungs : LastHuman(hist[i], ptr[i].rel)
    /\ LadderClimbed
    /\ CanaryEpisodes
    /\ FindingFollowsMove

---------------------------------------------------------------------------
(* Typing *)

LEMMA Constants ==
    /\ NoPointer \in Pointer /\ Idle \in Request /\ Asleep \in Evaluation
    /\ Rungs \subseteq Nat \ {0}
<1>1. NoPointer \in Pointer
  BY DEF NoPointer, Pointer
<1>2. Idle \in Request
  BY <1>1 DEF Idle, Request
<1>3. Asleep \in Evaluation
  BY <1>1 DEF Asleep, Evaluation
<1>4. QED
  BY <1>1, <1>2, <1>3, LadderAssumption

LEMMA ResolvedPolicy ==
    ASSUME NEW r, IsRow(r), NEW i \in Rungs
    PROVE  resolvePromotionPolicy(r, i) \in PromotionPolicy
  BY MergedPolicyIsPolicy DEF resolvePromotionPolicy, IsRow

LEMMA ReadsTyped ==
    ASSUME TypeOK, NEW i \in Rungs
    PROVE  Reads(i) \subseteq Pointer
<1>1. ptr[i] \in Pointer /\ hist[i] \in Seq(Pointer)
  BY DEF TypeOK
<1>2. \A v \in DOMAIN hist[i] : hist[i][v] \in Pointer
  BY <1>1
<1>3. QED
  BY <1>1, <1>2, Constants DEF Reads

LEMMA GoTyped ==
    ASSUME TypeOK, NEW c \in Clients, NEW r \in Request,
           NEW pc \in {"idle", "gate", "approve", "write"}, Go(c, r, pc)
    PROVE  req' \in [Clients -> Request]
<1>1. [r EXCEPT !.pc = pc] \in Request
  BY DEF Request
<1>2. QED
  BY <1>1 DEF Go, TypeOK

LEMMA StopTyped ==
    ASSUME TypeOK, NEW c \in Clients, Stop(c)
    PROVE  req' \in [Clients -> Request]
  BY Constants DEF Stop, TypeOK

LEMMA WakeTyped ==
    ASSUME TypeOK, NEW x \in Evaluators, NEW e \in Evaluation, Wake(x, e)
    PROVE  eval' \in [Evaluators -> Evaluation]
  BY DEF Wake, TypeOK

\* The request that Call starts from.
Fresh(op, i, input) ==
    [Idle EXCEPT !.op = op, !.rung = i, !.rel = input.rel,
                 !.approval = input.approval, !.percent = input.percent]

LEMMA FreshTyped ==
    ASSUME NEW op \in Ops, NEW i \in Rungs, NEW input \in InputsOf(op)
    PROVE  Fresh(op, i, input) \in Request
<1>1. /\ input.rel \in Releases \cup {None} /\ input.approval \in Approvals \cup {None}
      /\ input.percent \in Percents \cup {0}
  BY DEF InputsOf
<1>2. QED
  BY <1>1, Constants DEF Fresh, Request

LEMMA AdmitTyped ==
    ASSUME TypeOK, NEW c \in Clients, NEW r \in Request, r.rung \in Rungs, Admit(c, r)
    PROVE  req' \in [Clients -> Request]
<1>1. resolvePromotionPolicy(row, r.rung) \in PromotionPolicy
  BY ResolvedPolicy DEF TypeOK
<1>2. [r EXCEPT !.policy = resolvePromotionPolicy(row, r.rung)] \in Request
  BY <1>1 DEF Request
<1>3. QED
  BY <1>2, GoTyped DEF Admit

---------------------------------------------------------------------------
(* What a read returns, and what a request makes of it *)

LEMMA ReadsAreSnapshots ==
    ASSUME IInv, NEW i \in Rungs, NEW p \in Reads(i)
    PROVE  Snapshot(hist[i], p)
<1>1. /\ hist[i] \in Seq(Pointer) /\ ptr[i] \in Pointer /\ Len(hist[i]) = ptr[i].ver
      /\ ptr[i].ver # 0 => hist[i][ptr[i].ver] = ptr[i]
      /\ \A v \in DOMAIN hist[i] : hist[i][v].ver = v
      /\ ptr[i].ver = 0 => ptr[i] = NoPointer
  BY DEF IInv, TypeOK, HistoryComplete
<1>2. ptr[i].ver \in Nat
  BY <1>1 DEF Pointer
<1>3. CASE p = ptr[i]
  <2>1. CASE ptr[i].ver = 0
    BY <1>1, <1>3, <2>1 DEF Snapshot
  <2>2. CASE ptr[i].ver # 0
    <3>1. ptr[i].ver \in DOMAIN hist[i]
      BY <1>1, <1>2, <2>2
    <3>2. QED
      BY <1>1, <1>3, <2>2, <3>1 DEF Snapshot
  <2>3. QED
    BY <2>1, <2>2
<1>4. CASE \E v \in DOMAIN hist[i] : p = hist[i][v]
  BY <1>1, <1>4 DEF Snapshot
<1>5. CASE p = NoPointer
  BY <1>5 DEF Snapshot
<1>6. QED
  BY <1>3, <1>4, <1>5 DEF Reads

LEMMA AdjacencyServed ==
    ASSUME IInv, NEW i \in Rungs, NEW rel, rel # None, assertLadderAdjacency(i, rel), i # 1
    PROVE  rel \in Served(hist[i - 1])
<1>1. i - 1 \in Rungs
  BY LadderAssumption
<1>2. PICK below \in Reads(i - 1) : below.rel = rel
  BY DEF assertLadderAdjacency
<1>3. Snapshot(hist[i - 1], below)
  BY <1>1, ReadsAreSnapshots
<1>4. below # NoPointer
  BY <1>2 DEF NoPointer
<1>5. QED
  BY <1>2, <1>3, <1>4 DEF Snapshot, Served

LEMMA GoOK ==
    ASSUME IInv, NEW c \in Clients, NEW r \in Request, NEW pc \in {"gate", "approve", "write"},
           Go(c, r, pc), Established(r, hist), Recorded([r EXCEPT !.pc = pc])
    PROVE  \A d \in Clients : RequestOK(req'[d], hist)
<1> DEFINE s == [r EXCEPT !.pc = pc]
<1>1. s.pc = pc /\ s.rung = r.rung /\ s.op = r.op /\ s.seen = r.seen /\ s.rel = r.rel
  BY DEF Request
<1>2. Established(s, hist)
  BY <1>1 DEF Established
<1>3. RequestOK(s, hist)
  BY <1>1, <1>2 DEF RequestOK
<1>4. req'[c] = s /\ \A d \in Clients \ {c} : req'[d] = req[d]
  BY DEF Go, IInv, TypeOK
<1>5. \A d \in Clients : RequestOK(req[d], hist)
  BY DEF IInv
<1> HIDE DEF s
<1>6. QED
  BY <1>3, <1>4, <1>5

LEMMA StopOK ==
    ASSUME IInv, NEW c \in Clients, Stop(c)
    PROVE  \A d \in Clients : RequestOK(req'[d], hist)
<1>1. req'[c] = Idle /\ \A d \in Clients \ {c} : req'[d] = req[d]
  BY DEF Stop, IInv, TypeOK
<1>2. RequestOK(Idle, hist)
  BY DEF RequestOK, Idle
<1>3. QED
  BY <1>1, <1>2 DEF IInv

\* A step that only moves a request.
LEMMA RequestStep ==
    ASSUME IInv, req' \in [Clients -> Request], \A d \in Clients : RequestOK(req'[d], hist),
           UNCHANGED <<row, ptr, hist, rollbacks, eval, faults>>
    PROVE  IInv'
<1>1. TypeOK'
  BY DEF IInv, TypeOK
<1>2. HistoryComplete' /\ LadderClimbed' /\ CanaryEpisodes' /\ FindingFollowsMove'
  BY DEF IInv, HistoryComplete, LadderClimbed, CanaryEpisodes, FindingFollowsMove
<1>3. QED
  BY <1>1, <1>2 DEF IInv

LEMMA AdmitKeeps ==
    ASSUME IInv, NEW c \in Clients, NEW r \in Request, r.rung \in Rungs, r.op \in GatedOps,
           r.rel # None, Snapshot(hist[r.rung], r.seen),
           r.op # "promote" => r.seen.ver # 0,
           r.op = "startCanary" => r.seen.cand = None,
           r.op = "promoteCanary" => r.seen.cand # None /\ r.rel = r.seen.cand,
           Admit(c, r)
    PROVE  /\ req' \in [Clients -> Request]
           /\ \A d \in Clients : RequestOK(req'[d], hist)
<1> DEFINE s == [r EXCEPT !.policy = resolvePromotionPolicy(row, r.rung)]
<1>1. s \in Request
  BY ResolvedPolicy DEF Request, IInv, TypeOK
<1>2. s.rung = r.rung /\ s.op = r.op /\ s.seen = r.seen /\ s.rel = r.rel
  BY DEF Request
<1>3. assertLadderAdjacency(r.rung, r.rel) /\ Go(c, s, "gate")
  BY DEF Admit
<1>4. r.rung # 1 => r.rel \in Served(hist[r.rung - 1])
  BY <1>3, AdjacencyServed
<1>5. Established(s, hist)
  BY <1>2, <1>4 DEF Established, GatedOps, CanaryOps, Ops
<1>6. Recorded([s EXCEPT !.pc = "gate"])
  <2>1. [s EXCEPT !.pc = "gate"].pc = "gate" /\ [s EXCEPT !.pc = "gate"].op = r.op
    BY <1>1, <1>2 DEF Request
  <2>2. QED
    BY <2>1 DEF Recorded
<1>7. TypeOK
  BY DEF IInv
<1> HIDE DEF s
<1>8. QED
  BY <1>1, <1>3, <1>5, <1>6, <1>7, GoTyped, GoOK

LEMMA CallKeeps ==
    ASSUME IInv, NEW c \in Clients, NEW op \in Ops, NEW i \in Rungs, NEW input \in InputsOf(op),
           Call(c, op, i, input)
    PROVE  IInv'
<1> DEFINE r == Fresh(op, i, input)
           Seen(p) == [r EXCEPT !.seen = p]
           Goal == req' \in [Clients -> Request] /\ \A d \in Clients : RequestOK(req'[d], hist)
<1>1. r \in Request /\ TypeOK
  BY FreshTyped DEF IInv
<1>2. r.op = op /\ r.rung = i /\ r.rel = input.rel /\ r.seen = NoPointer
  BY DEF Fresh, Idle
<1>3. ASSUME op \in {"promote", "startCanary"} PROVE r.rel # None
  BY <1>2, <1>3, ReleasesAssumption DEF InputsOf
<1>4. \/ op = "promote" /\ Admit(c, r)
      \/ \E p \in Reads(i) :
            /\ p.ver # 0
            /\ \/ op = "startCanary" /\ p.cand = None /\ Admit(c, Seen(p))
               \/ op = "promoteCanary" /\ p.cand # None /\ Admit(c, [r EXCEPT !.seen = p, !.rel = p.cand])
               \/ op \in {"reweightCanary", "abortCanary"} /\ p.cand # None /\ Go(c, Seen(p), "write")
  BY DEF Call, Fresh
<1>5. ASSUME op = "promote", Admit(c, r) PROVE Goal
  <2>1. Snapshot(hist[r.rung], r.seen)
    BY <1>2 DEF Snapshot
  <2> HIDE DEF r
  <2>2. QED
    BY <1>1, <1>2, <1>3, <1>5, <2>1, AdmitKeeps DEF GatedOps
<1>6. ASSUME NEW p \in Reads(i), p.ver # 0
      PROVE  p \in Pointer /\ Snapshot(hist[i], p) /\ Seen(p) \in Request
             /\ Seen(p).op = op /\ Seen(p).rung = i /\ Seen(p).rel = input.rel /\ Seen(p).seen = p
             /\ Seen(p).permits = {}
  <2>1. p \in Pointer /\ Snapshot(hist[i], p)
    BY <1>1, <1>6, ReadsTyped, ReadsAreSnapshots
  <2>2. r.permits = {}
    BY DEF Fresh, Idle
  <2> HIDE DEF r
  <2>3. QED
    BY <1>1, <1>2, <2>1, <2>2 DEF Request
<1>7. ASSUME NEW p \in Reads(i), p.ver # 0, op = "startCanary", p.cand = None, Admit(c, Seen(p))
      PROVE  Goal
  <2> HIDE DEF Seen
  <2>1. QED
    BY <1>2, <1>3, <1>6, <1>7, AdmitKeeps DEF GatedOps
<1>8. ASSUME NEW p \in Reads(i), p.ver # 0, op = "promoteCanary", p.cand # None,
             Admit(c, [r EXCEPT !.seen = p, !.rel = p.cand])
      PROVE  Goal
  <2> DEFINE s == [r EXCEPT !.seen = p, !.rel = p.cand]
  <2>1. p.cand \in Releases
    BY <1>6, <1>8 DEF Pointer
  <2>2. s \in Request /\ s.op = op /\ s.rung = i /\ s.rel = p.cand /\ s.seen = p
    <3> HIDE DEF r
    <3>1. QED
      BY <1>1, <1>2, <1>6, <1>8, <2>1 DEF Request
  <2>3. Admit(c, s)
    BY <1>8
  <2> HIDE DEF s
  <2>4. QED
    BY <1>6, <1>8, <2>2, <2>3, AdmitKeeps DEF GatedOps
<1>9. ASSUME NEW p \in Reads(i), p.ver # 0, op \in {"reweightCanary", "abortCanary"}, p.cand # None,
             Go(c, Seen(p), "write")
      PROVE  Goal
  <2>1. Established(Seen(p), hist)
    <3> HIDE DEF Seen
    <3>1. QED
      BY <1>6, <1>9 DEF Established, GatedOps
  <2>2. Recorded([Seen(p) EXCEPT !.pc = "write"])
    <3>1. [Seen(p) EXCEPT !.pc = "write"].pc = "write" /\ [Seen(p) EXCEPT !.pc = "write"].op = op
      <4>1. Seen(p) \in Request /\ Seen(p).op = op
        BY <1>6, <1>9
      <4> HIDE DEF Seen
      <4>2. QED
        BY <4>1 DEF Request
    <3> HIDE DEF Seen
    <3>2. QED
      BY <1>9, <3>1 DEF Recorded, GatedOps
  <2> HIDE DEF Seen
  <2>3. QED
    BY <1>1, <1>6, <1>9, <2>1, <2>2, GoTyped, GoOK
<1> HIDE DEF Seen, r, Goal
<1>10. Goal
  BY <1>4, <1>5, <1>7, <1>8, <1>9
<1>11. QED
  BY <1>10, RequestStep DEF Call, Goal

LEMMA FailKeeps ==
    ASSUME IInv, NEW c \in Clients, Fail(c)
    PROVE  IInv'
<1>1. TypeOK /\ Stop(c)
  BY DEF IInv, Fail
<1>2. QED
  BY <1>1, StopTyped, StopOK, RequestStep DEF Fail

LEMMA GateKeeps ==
    ASSUME IInv, NEW c \in Clients, validateReleaseGate(c)
    PROVE  IInv'
<1> DEFINE r == req[c]
           Permits(status, mode) == {p \in {"gate"} : recordFinding(mode) /\ ~isFailStatus(status)}
           Passed(status, mode) ==
              [r EXCEPT !.gate = mode, !.policy = None, !.permits = Permits(status, mode)]
           Goal == req' \in [Clients -> Request] /\ \A d \in Clients : RequestOK(req'[d], hist)
<1>1. TypeOK /\ r \in Request /\ r.pc = "gate"
  BY DEF IInv, TypeOK, validateReleaseGate, At
<1>2. Established(r, hist) /\ r.op \in GatedOps
  BY <1>1 DEF IInv, RequestOK, Recorded
<1>3. PICK status \in Verdicts(r), mode \in Modes :
         \/ Stop(c)
         \/ ~(block(mode) /\ isFailStatus(status)) /\ Go(c, Passed(status, mode), "approve")
  BY DEF validateReleaseGate
<1>4. ASSUME Stop(c) PROVE Goal
  BY <1>1, <1>4, StopTyped, StopOK
<1>5. ASSUME ~(block(mode) /\ isFailStatus(status)), Go(c, Passed(status, mode), "approve")
      PROVE  Goal
  <2> DEFINE s == Passed(status, mode)
             t == [s EXCEPT !.pc = "approve"]
  <2>1. mode = "strict" => "gate" \in Permits(status, mode)
    BY <1>5 DEF block, recordFinding
  <2>2. Permits(status, mode) \in SUBSET {"gate", "approval"}
    OBVIOUS
  <2> HIDE DEF Permits
  <2>3. s \in Request /\ s.op = r.op /\ s.rung = r.rung /\ s.rel = r.rel /\ s.seen = r.seen
        /\ t.op = r.op /\ t.gate = mode /\ t.permits = Permits(status, mode) /\ t.pc = "approve"
    <3> HIDE DEF r
    <3>1. QED
      BY <1>1, <2>2 DEF Request
  <2> HIDE DEF Passed, r
  <2>4. Established(s, hist)
    BY <1>2, <2>3 DEF Established
  <2>5. Recorded(t)
    BY <1>2, <2>1, <2>3 DEF Recorded
  <2> HIDE DEF s
  <2>6. Go(c, s, "approve")
    BY <1>5 DEF s
  <2>7. QED
    BY <1>1, <2>3, <2>4, <2>5, <2>6, GoTyped, GoOK
<1>6. Goal
  BY <1>3, <1>4, <1>5
<1>7. QED
  BY <1>6, RequestStep DEF validateReleaseGate

LEMMA ApprovalKeeps ==
    ASSUME IInv, NEW c \in Clients, validatePromotionApproval(c)
    PROVE  IInv'
<1> DEFINE r == req[c]
           Permits(mode) ==
              r.permits \cup {p \in {"approval"} :
                  (recordFinding(mode) /\ r.approval # None) /\ r.approval = "approved"}
           Passed(mode) == [r EXCEPT !.appr = mode, !.approval = None, !.permits = Permits(mode)]
           Goal == req' \in [Clients -> Request] /\ \A d \in Clients : RequestOK(req'[d], hist)
<1>1. TypeOK /\ r \in Request /\ r.pc = "approve"
  BY DEF IInv, TypeOK, validatePromotionApproval, At
<1>2. /\ Established(r, hist) /\ r.op \in GatedOps
      /\ r.gate \in Modes /\ (r.gate = "strict" => "gate" \in r.permits)
  BY <1>1 DEF IInv, RequestOK, Recorded
<1>3. PICK mode \in Modes :
         \/ Stop(c)
         \/ /\ ~(block(mode) /\ r.approval # "approved")
            /\ \/ r.op = "promote" /\ \E p \in Reads(r.rung) : Go(c, [Passed(mode) EXCEPT !.seen = p], "write")
               \/ r.op # "promote" /\ Go(c, Passed(mode), "write")
  BY DEF validatePromotionApproval
<1>4. ASSUME Stop(c) PROVE Goal
  BY <1>1, <1>4, StopTyped, StopOK
<1>5. ASSUME ~(block(mode) /\ r.approval # "approved"),
             NEW s \in Request, Go(c, s, "write"),
             s.op = r.op, s.rung = r.rung, s.rel = r.rel, s.gate = r.gate, s.appr = mode,
             s.permits = Permits(mode),
             s.seen = r.seen \/ (r.op = "promote" /\ Snapshot(hist[r.rung], s.seen))
      PROVE  Goal
  <2> DEFINE t == [s EXCEPT !.pc = "write"]
  <2>1. mode = "strict" => "approval" \in Permits(mode)
    <3>1. mode = "strict" => recordFinding(mode) /\ r.approval = "approved"
      BY <1>5 DEF block, recordFinding
    <3>2. QED
      BY <3>1, ApprovalAssumption
  <2>2. r.permits \subseteq Permits(mode)
    OBVIOUS
  <2> HIDE DEF Permits, r
  <2>3. t.op = r.op /\ t.gate = r.gate /\ t.appr = mode /\ t.permits = Permits(mode) /\ t.pc = "write"
    BY <1>5 DEF Request
  <2>4. Established(s, hist)
    BY <1>2, <1>5 DEF Established
  <2>5. Recorded(t)
    BY <1>2, <2>1, <2>2, <2>3 DEF Recorded
  <2>6. QED
    BY <1>1, <1>5, <2>4, <2>5, GoTyped, GoOK
<1>6. /\ Passed(mode) \in Request /\ Passed(mode).op = r.op /\ Passed(mode).rung = r.rung
      /\ Passed(mode).rel = r.rel /\ Passed(mode).gate = r.gate /\ Passed(mode).appr = mode
      /\ Passed(mode).permits = Permits(mode) /\ Passed(mode).seen = r.seen
  <2>1. Permits(mode) \in SUBSET {"gate", "approval"}
    <3>1. r.permits \in SUBSET {"gate", "approval"}
      BY <1>1 DEF Request
    <3>2. QED
      BY <3>1
  <2> HIDE DEF Permits, r
  <2>2. QED
    BY <1>1, <2>1 DEF Request
<1>7. ASSUME ~(block(mode) /\ r.approval # "approved"), r.op = "promote",
             NEW p \in Reads(r.rung), Go(c, [Passed(mode) EXCEPT !.seen = p], "write")
      PROVE  Goal
  <2>1. p \in Pointer /\ Snapshot(hist[r.rung], p)
    BY <1>1, <1>2, ReadsTyped, ReadsAreSnapshots DEF Established
  <2> HIDE DEF Permits, r, Passed
  <2> DEFINE s == [Passed(mode) EXCEPT !.seen = p]
  <2>2. /\ s \in Request /\ s.op = r.op /\ s.rung = r.rung /\ s.rel = r.rel /\ s.gate = r.gate
        /\ s.appr = mode /\ s.permits = Permits(mode) /\ s.seen = p
    BY <1>6, <2>1 DEF Request
  <2>3. Go(c, s, "write")
    BY <1>7
  <2> HIDE DEF s, Goal
  <2>4. QED
    BY <1>5, <1>7, <2>1, <2>2, <2>3
<1>8. ASSUME ~(block(mode) /\ r.approval # "approved"), r.op # "promote", Go(c, Passed(mode), "write")
      PROVE  Goal
  <2> HIDE DEF Permits, r, Passed, Goal
  <2>1. QED
    BY <1>5, <1>6, <1>8
<1> HIDE DEF Permits, r, Passed
<1>9. Goal
  <2> HIDE DEF Goal
  <2>1. QED
    BY <1>3, <1>4, <1>7, <1>8
<1>10. QED
  BY <1>9, RequestStep DEF validatePromotionApproval

---------------------------------------------------------------------------
(* The evaluator, while it moves no pointer *)

LEMMA WakeOK ==
    ASSUME IInv, NEW x \in Evaluators, NEW e \in Evaluation, EvaluationOK(e, hist), Wake(x, e)
    PROVE  /\ eval' \in [Evaluators -> Evaluation]
           /\ \A y \in Evaluators : EvaluationOK(eval'[y], hist)
<1>1. eval'[x] = e /\ \A y \in Evaluators \ {x} : eval'[y] = eval[y]
  BY DEF Wake, IInv, TypeOK
<1>2. \A y \in Evaluators : EvaluationOK(eval[y], hist)
  BY DEF IInv
<1>3. TypeOK
  BY DEF IInv
<1>4. QED
  BY <1>1, <1>2, <1>3, WakeTyped

LEMMA AsleepOK == EvaluationOK(Asleep, hist)
  BY DEF EvaluationOK, Asleep

\* An evaluation at the head of a list of snapshots.
LEMMA ListOK ==
    ASSUME NEW h, NEW todo \in SUBSET (Rungs \X Pointer),
           \A t \in todo : Snapshot(h[t[1]], t[2]) /\ t[2].cand # None
    PROVE  /\ [Asleep EXCEPT !.pc = "evaluate", !.todo = todo] \in Evaluation
           /\ EvaluationOK([Asleep EXCEPT !.pc = "evaluate", !.todo = todo], h)
<1> DEFINE e == [Asleep EXCEPT !.pc = "evaluate", !.todo = todo]
<1>1. e.pc = "evaluate" /\ e.todo = todo
  BY DEF Asleep
<1>2. e \in Evaluation
  BY Constants DEF Evaluation
<1>3. EvaluationOK(e, h)
  BY <1>1 DEF EvaluationOK
<1>4. QED
  BY <1>2, <1>3

\* A step that only moves an evaluator.
LEMMA EvaluatorStepKeeps ==
    ASSUME IInv, eval' \in [Evaluators -> Evaluation],
           \A y \in Evaluators : EvaluationOK(eval'[y], hist),
           faults' \in Nat, rollbacks' \subseteq Rungs \X Nat, FindingFollowsMove',
           UNCHANGED <<row, ptr, hist, req>>
    PROVE  IInv'
<1>1. TypeOK'
  BY DEF IInv, TypeOK
<1>2. HistoryComplete' /\ LadderClimbed' /\ CanaryEpisodes'
  BY DEF IInv, HistoryComplete, LadderClimbed, CanaryEpisodes
<1>3. QED
  BY <1>1, <1>2 DEF IInv

LEMMA ResumeOK ==
    ASSUME IInv, NEW x \in Evaluators, Resume(x)
    PROVE  /\ eval' \in [Evaluators -> Evaluation]
           /\ \A y \in Evaluators : EvaluationOK(eval'[y], hist)
<1>1. /\ eval[x].todo \in SUBSET (Rungs \X Pointer)
      /\ \A t \in eval[x].todo : Snapshot(hist[t[1]], t[2]) /\ t[2].cand # None
  BY DEF IInv, TypeOK, Evaluation, EvaluationOK
<1>2. CASE eval[x].todo = {}
  <2>1. Wake(x, Asleep)
    BY <1>2 DEF Resume
  <2>2. QED
    BY <2>1, WakeOK, AsleepOK, Constants
<1>3. CASE eval[x].todo # {}
  <2>1. Wake(x, [Asleep EXCEPT !.pc = "evaluate", !.todo = eval[x].todo])
    BY <1>3 DEF Resume
  <2>2. QED
    BY <1>1, <2>1, WakeOK, ListOK
<1>4. QED
  BY <1>2, <1>3

LEMMA QueryKeeps ==
    ASSUME IInv, NEW x \in Evaluators, queryActiveCanaries(x)
    PROVE  IInv'
<1>1. PICK f \in [Rungs -> UNION {Reads(i) : i \in Rungs}] :
         /\ \A i \in Rungs : f[i] \in Reads(i)
         /\ Wake(x, [Asleep EXCEPT !.pc = "evaluate",
                                   !.todo = {<<i, f[i]>> : i \in {j \in Rungs : f[j].cand # None}}])
  BY DEF queryActiveCanaries
<1> DEFINE todo == {<<i, f[i]>> : i \in {j \in Rungs : f[j].cand # None}}
<1>2. \A i \in Rungs : f[i] \in Pointer /\ Snapshot(hist[i], f[i])
  BY <1>1, ReadsTyped, ReadsAreSnapshots DEF IInv
<1>3. todo \in SUBSET (Rungs \X Pointer)
  BY <1>2
<1>4. \A t \in todo : Snapshot(hist[t[1]], t[2]) /\ t[2].cand # None
  BY <1>2
<1> HIDE DEF todo
<1>5. Wake(x, [Asleep EXCEPT !.pc = "evaluate", !.todo = todo])
  BY <1>1 DEF todo
<1>6. /\ eval' \in [Evaluators -> Evaluation]
      /\ \A y \in Evaluators : EvaluationOK(eval'[y], hist)
  BY <1>3, <1>4, <1>5, WakeOK, ListOK
<1>7. /\ UNCHANGED <<row, ptr, hist, rollbacks, req, faults>>
      /\ faults' \in Nat /\ rollbacks' \subseteq Rungs \X Nat /\ FindingFollowsMove'
  BY DEF queryActiveCanaries, IInv, TypeOK, FindingFollowsMove
<1>8. QED
  BY <1>6, <1>7, EvaluatorStepKeeps

LEMMA EvaluateKeeps ==
    ASSUME IInv, NEW x \in Evaluators, evaluateOneCanary(x)
    PROVE  IInv'
<1> DEFINE Goal == /\ eval' \in [Evaluators -> Evaluation]
                   /\ \A y \in Evaluators : EvaluationOK(eval'[y], hist)
<1>1. eval[x] \in Evaluation /\ eval[x].pc = "evaluate" /\ EvaluationOK(eval[x], hist)
  BY DEF IInv, TypeOK, evaluateOneCanary
<1>2. PICK task \in eval[x].todo :
         \/ Wake(x, [pc |-> "abort", todo |-> eval[x].todo \ {task}, rung |-> task[1], seen |-> task[2]])
         \/ Wake(x, Asleep)
         \/ Wake(x, [eval[x] EXCEPT !.todo = eval[x].todo \ {task}])
  BY DEF evaluateOneCanary
<1>3. task \in Rungs \X Pointer /\ eval[x].todo \in SUBSET (Rungs \X Pointer)
  BY <1>1 DEF Evaluation
<1>4. \A t \in eval[x].todo : Snapshot(hist[t[1]], t[2]) /\ t[2].cand # None
  BY <1>1 DEF EvaluationOK
<1>5. ASSUME Wake(x, [pc |-> "abort", todo |-> eval[x].todo \ {task}, rung |-> task[1], seen |-> task[2]])
      PROVE  Goal
  <2> DEFINE e == [pc |-> "abort", todo |-> eval[x].todo \ {task}, rung |-> task[1], seen |-> task[2]]
  <2>1. e \in Evaluation
    BY <1>3 DEF Evaluation
  <2>2. EvaluationOK(e, hist)
    BY <1>3, <1>4 DEF EvaluationOK
  <2>3. QED
    BY <1>5, <2>1, <2>2, WakeOK
<1>6. ASSUME Wake(x, Asleep) PROVE Goal
  BY <1>6, WakeOK, AsleepOK, Constants
<1>7. ASSUME Wake(x, [eval[x] EXCEPT !.todo = eval[x].todo \ {task}]) PROVE Goal
  <2> DEFINE e == [eval[x] EXCEPT !.todo = eval[x].todo \ {task}]
  <2>1. e \in Evaluation /\ e.pc = "evaluate" /\ e.todo = eval[x].todo \ {task}
    BY <1>1 DEF Evaluation
  <2>2. EvaluationOK(e, hist)
    <3> HIDE DEF e
    <3>1. QED
      BY <1>4, <2>1 DEF EvaluationOK
  <2> HIDE DEF e
  <2>3. Wake(x, e)
    BY <1>7 DEF e
  <2>4. QED
    BY <2>1, <2>2, <2>3, WakeOK
<1>8. Goal
  BY <1>2, <1>5, <1>6, <1>7
<1>9. /\ UNCHANGED <<row, ptr, hist, rollbacks, req, faults>>
      /\ faults' \in Nat /\ rollbacks' \subseteq Rungs \X Nat /\ FindingFollowsMove'
  BY DEF evaluateOneCanary, IInv, TypeOK, FindingFollowsMove
<1>10. QED
  BY <1>8, <1>9, EvaluatorStepKeeps

LEMMA FindingKeeps ==
    ASSUME IInv, NEW x \in Evaluators, writeAutoRollbackFinding(x)
    PROVE  IInv'
<1>1. eval[x] \in Evaluation /\ eval[x].pc = "finding" /\ EvaluationOK(eval[x], hist)
  BY DEF IInv, TypeOK, writeAutoRollbackFinding
<1>2. /\ eval[x].rung \in Rungs /\ eval[x].seen.ver \in Nat
      /\ eval[x].seen.ver + 1 \in DOMAIN hist[eval[x].rung]
      /\ hist[eval[x].rung][eval[x].seen.ver + 1].kind = "AUTO_ABORT_CANARY"
  BY <1>1 DEF EvaluationOK, Evaluation, Pointer
<1>3. /\ Resume(x) /\ UNCHANGED <<row, ptr, hist, req>> /\ faults' \in Nat
      /\ rollbacks' \subseteq rollbacks \cup {<<eval[x].rung, eval[x].seen.ver>>}
  BY DEF writeAutoRollbackFinding, IInv, TypeOK
<1>4. rollbacks' \subseteq Rungs \X Nat
  BY <1>2, <1>3 DEF IInv, TypeOK
<1>5. FindingFollowsMove'
  BY <1>2, <1>3 DEF IInv, FindingFollowsMove
<1>6. QED
  BY <1>3, <1>4, <1>5, ResumeOK, EvaluatorStepKeeps

LEMMA DieKeeps ==
    ASSUME IInv, NEW x \in Evaluators, Die(x)
    PROVE  IInv'
<1>1. /\ eval' \in [Evaluators -> Evaluation]
      /\ \A y \in Evaluators : EvaluationOK(eval'[y], hist)
  BY WakeOK, AsleepOK, Constants DEF Die
<1>2. /\ UNCHANGED <<row, ptr, hist, rollbacks, req>>
      /\ faults' \in Nat /\ rollbacks' \subseteq Rungs \X Nat /\ FindingFollowsMove'
  BY DEF Die, IInv, TypeOK, FindingFollowsMove
<1>3. QED
  BY <1>1, <1>2, EvaluatorStepKeeps

\* Authoring policies moves nothing.
LEMMA AuthoringKeeps ==
    ASSUME IInv, \/ \E config \in Configs : setPromotionPolicy(config)
                 \/ \E sources \in RollbackConfigs : AuthorRollback(sources)
    PROVE  IInv'
<1>1. UNCHANGED <<ptr, hist, rollbacks, req, eval, faults>>
  BY DEF setPromotionPolicy, AuthorRollback
<1>2. IsRow(row')
  <2>1. CASE \E config \in Configs : setPromotionPolicy(config)
    BY <2>1, ConfigsAssumption DEF setPromotionPolicy
  <2>2. CASE \E sources \in RollbackConfigs : AuthorRollback(sources)
    <3>1. PICK sources : row' = [row EXCEPT !.rollback = sources]
      BY <2>2 DEF AuthorRollback
    <3>2. IsRow(row)
      BY DEF IInv, TypeOK
    <3>3. /\ DOMAIN row' = DOMAIN row /\ row'.policy = row.policy /\ row'.agent = row.agent
          /\ row'.env = row.env
      BY <3>1, <3>2 DEF IsRow
    <3>4. QED
      BY <3>2, <3>3 DEF IsRow
  <2>3. QED
    BY <2>1, <2>2
<1>3. TypeOK'
  BY <1>1, <1>2 DEF IInv, TypeOK
<1>4. HistoryComplete' /\ LadderClimbed' /\ CanaryEpisodes' /\ FindingFollowsMove'
  BY <1>1 DEF IInv, HistoryComplete, LadderClimbed, CanaryEpisodes, FindingFollowsMove
<1>5. QED
  BY <1>1, <1>3, <1>4 DEF IInv

---------------------------------------------------------------------------
(* The transaction *)

\* What the transaction writes, and what it does to a history.
Written(seen, item) == [item EXCEPT !.prev = seen.rel, !.ver = seen.ver + 1]
Longer(h, g) == DOMAIN h \subseteq DOMAIN g /\ \A v \in DOMAIN h : g[v] = h[v]

LEMMA SnapshotGrows ==
    ASSUME NEW h, NEW g, Longer(h, g), NEW p, Snapshot(h, p)
    PROVE  Snapshot(g, p)
  BY DEF Longer, Snapshot

LEMMA ServedGrows ==
    ASSUME NEW h, NEW g, Longer(h, g)
    PROVE  Served(h) \subseteq Served(g)
  BY DEF Longer, Served

LEMMA RequestGrows ==
    ASSUME NEW h, NEW g, \A i \in Rungs : Longer(h[i], g[i]), NEW r, RequestOK(r, h)
    PROVE  RequestOK(r, g)
<1>1. ASSUME Established(r, h) PROVE Established(r, g)
  <2>1. Snapshot(g[r.rung], r.seen)
    BY <1>1, SnapshotGrows DEF Established
  <2>2. r.rung # 1 => r.rung - 1 \in Rungs
    BY <1>1, LadderAssumption DEF Established
  <2>3. r.op \in GatedOps => r.rel # None /\ (r.rung # 1 => r.rel \in Served(g[r.rung - 1]))
    BY <1>1, <2>2, ServedGrows DEF Established
  <2>4. QED
    BY <1>1, <2>1, <2>3 DEF Established
<1>2. QED
  BY <1>1 DEF RequestOK

LEMMA EvaluationGrows ==
    ASSUME NEW h, NEW g, \A i \in Rungs : Longer(h[i], g[i]),
           NEW e \in Evaluation, EvaluationOK(e, h)
    PROVE  EvaluationOK(e, g)
<1>1. \A t \in e.todo : t[1] \in Rungs
  BY DEF Evaluation
<1>2. \A t \in e.todo : Snapshot(g[t[1]], t[2]) /\ t[2].cand # None
  BY <1>1, SnapshotGrows DEF EvaluationOK
<1>3. e.pc \in {"abort", "finding"} =>
         e.rung \in Rungs /\ Snapshot(g[e.rung], e.seen) /\ e.seen.cand # None
  BY SnapshotGrows DEF EvaluationOK
<1>4. e.pc = "finding" =>
         e.seen.ver + 1 \in DOMAIN g[e.rung] /\ g[e.rung][e.seen.ver + 1].kind = "AUTO_ABORT_CANARY"
  BY <1>3 DEF EvaluationOK, Longer
<1>5. QED
  BY <1>2, <1>3, <1>4 DEF EvaluationOK

\* The version condition makes the pointer that was read the one that is replaced,
\* and the item lands at the end of the history.
LEMMA Commit ==
    ASSUME IInv, NEW i \in Rungs, NEW seen \in Pointer, Snapshot(hist[i], seen), NEW item \in Pointer,
           setEnvironmentReleasePointer(i, seen, item)
    PROVE  /\ seen = ptr[i] /\ Len(hist[i]) = seen.ver /\ seen.ver \in Nat
           /\ Written(seen, item) \in Pointer
           /\ ptr' \in [Rungs -> Pointer] /\ hist' \in [Rungs -> Seq(Pointer)]
           /\ ptr'[i] = Written(seen, item) /\ hist'[i][seen.ver + 1] = Written(seen, item)
           /\ DOMAIN hist[i] = 1..seen.ver /\ DOMAIN hist'[i] = 1..(seen.ver + 1)
           /\ Len(hist'[i]) = seen.ver + 1
           /\ \A v \in 1..seen.ver : hist'[i][v] = hist[i][v]
           /\ \A j \in Rungs \ {i} : hist'[j] = hist[j] /\ ptr'[j] = ptr[j]
           /\ \A j \in Rungs : Longer(hist[j], hist'[j])
<1> DEFINE next == Written(seen, item)
<1>1. /\ hist[i] \in Seq(Pointer) /\ ptr[i] \in Pointer /\ Len(hist[i]) = ptr[i].ver
      /\ ptr[i].ver # 0 => hist[i][ptr[i].ver] = ptr[i]
      /\ ptr[i].ver = 0 => ptr[i] = NoPointer
      /\ ptr \in [Rungs -> Pointer] /\ hist \in [Rungs -> Seq(Pointer)]
  BY DEF IInv, TypeOK, HistoryComplete
<1>2. ptr[i].ver \in Nat /\ seen.ver \in Nat /\ seen.rel \in Releases \cup {None}
  BY <1>1 DEF Pointer
<1>3. /\ VersionMatches(i, seen)
      /\ ptr' = [ptr EXCEPT ![i] = next] /\ hist' = [hist EXCEPT ![i] = Append(@, next)]
  BY DEF setEnvironmentReleasePointer, Written
<1>4. seen = ptr[i]
  <2>1. CASE ptr[i].ver = 0
    BY <1>1, <2>1 DEF Snapshot
  <2>2. CASE seen.ver # 0 /\ ptr[i].ver = seen.ver
    <3>1. seen # NoPointer
      BY <2>2 DEF NoPointer
    <3>2. QED
      BY <1>1, <2>2, <3>1 DEF Snapshot
  <2>3. QED
    BY <1>3, <2>1, <2>2 DEF VersionMatches
<1>5. next \in Pointer
  <2>1. ASSUME NEW rel \in Releases \cup {None}, NEW ver \in Nat
        PROVE  [item EXCEPT !.prev = rel, !.ver = ver] \in Pointer
    BY DEF Pointer
  <2>2. seen.ver + 1 \in Nat
    BY <1>2
  <2>3. QED
    BY <1>2, <2>1, <2>2 DEF Written
<1> HIDE DEF next
<1>6. /\ Append(hist[i], next) \in Seq(Pointer) /\ Len(Append(hist[i], next)) = seen.ver + 1
      /\ Append(hist[i], next)[seen.ver + 1] = next
      /\ \A v \in 1..seen.ver : Append(hist[i], next)[v] = hist[i][v]
  BY <1>1, <1>2, <1>4, <1>5
<1>7. DOMAIN hist[i] = 1..seen.ver /\ DOMAIN Append(hist[i], next) = 1..(seen.ver + 1)
  BY <1>1, <1>4, <1>6
<1>8. /\ hist'[i] = Append(hist[i], next) /\ ptr'[i] = next
      /\ \A j \in Rungs \ {i} : hist'[j] = hist[j] /\ ptr'[j] = ptr[j]
      /\ ptr' \in [Rungs -> Pointer] /\ hist' \in [Rungs -> Seq(Pointer)]
  BY <1>1, <1>3, <1>5, <1>6
<1>9. \A j \in Rungs : Longer(hist[j], hist'[j])
  <2>1. Longer(hist[i], hist'[i])
    BY <1>2, <1>6, <1>7, <1>8 DEF Longer
  <2>2. QED
    BY <1>8, <2>1 DEF Longer
<1>10. QED
  BY <1>1, <1>2, <1>4, <1>5, <1>6, <1>7, <1>8, <1>9 DEF next

\* What CanaryEpisodes and LadderClimbed ask of one item.
Episode(now, before, v) ==
    CASE now.kind = "CANARY_START" ->
            v > 1 /\ before.cand = None /\ now.rel = before.rel /\ now.salt = v
      [] now.kind = "CANARY_REWEIGHT" ->
            before.cand # None /\ now.rel = before.rel
            /\ now.cand = before.cand /\ now.salt = before.salt
      [] now.kind = "CANARY_PROMOTE" ->
            before.cand # None /\ now.rel = before.cand /\ now.cand = None
      [] now.kind \in {"CANARY_ABORT", "AUTO_ABORT_CANARY"} ->
            before.cand # None /\ now.rel = before.rel /\ now.cand = None
      [] OTHER -> now.kind = "PROMOTE" /\ now.cand = None
Before(h, v) == IF v = 1 THEN NoPointer ELSE h[v - 1]
Climbed(now, below) == now.rel \in Served(below) /\ (now.cand # None => now.cand \in Served(below))

LEMMA EpisodesByItem ==
    CanaryEpisodes <=> \A i \in Rungs : \A v \in DOMAIN hist[i] : Episode(hist[i][v], Before(hist[i], v), v)
  BY DEF CanaryEpisodes, Episode, Before

LEMMA ClimbedByItem ==
    LadderClimbed <=> \A i \in Rungs \ {1} : \A v \in DOMAIN hist[i] : Climbed(hist[i][v], hist[i - 1])
  BY DEF LadderClimbed, Climbed, Served

LEMMA MoveKeepsHistory ==
    ASSUME IInv, NEW i \in Rungs, NEW seen \in Pointer, Snapshot(hist[i], seen), NEW item \in Pointer,
           setEnvironmentReleasePointer(i, seen, item)
    PROVE  HistoryComplete' /\ \A j \in Rungs : ptr'[j].ver = 0 => ptr'[j] = NoPointer
<1> DEFINE now == Written(seen, item)
           n == seen.ver
<1>1. now.ver = n + 1 /\ now.prev = seen.rel
  BY DEF Written, Pointer
<1>2. /\ seen = ptr[i] /\ n \in Nat /\ ptr'[i] = now /\ hist'[i][n + 1] = now
      /\ DOMAIN hist[i] = 1..n /\ DOMAIN hist'[i] = 1..(n + 1) /\ Len(hist'[i]) = n + 1
      /\ \A v \in 1..n : hist'[i][v] = hist[i][v]
      /\ \A j \in Rungs \ {i} : hist'[j] = hist[j] /\ ptr'[j] = ptr[j]
  BY Commit
<1>3. /\ n # 0 => hist[i][n] = seen
      /\ n = 0 => seen = NoPointer
      /\ \A v \in 1..n : /\ hist[i][v].ver = v
                         /\ hist[i][v].prev = IF v = 1 THEN None ELSE hist[i][v - 1].rel
  <2>1. (ptr[i].ver # 0 => hist[i][ptr[i].ver] = ptr[i]) /\ (ptr[i].ver = 0 => ptr[i] = NoPointer)
    BY DEF IInv, HistoryComplete
  <2>2. \A v \in DOMAIN hist[i] :
           /\ hist[i][v].ver = v
           /\ hist[i][v].prev = IF v = 1 THEN None ELSE hist[i][v - 1].rel
    BY DEF IInv, HistoryComplete
  <2>3. QED
    BY <1>2, <2>1, <2>2
<1> HIDE DEF now
<1>4. ASSUME NEW v \in 1..(n + 1)
      PROVE  /\ hist'[i][v].ver = v
             /\ hist'[i][v].prev = IF v = 1 THEN None ELSE hist'[i][v - 1].rel
  <2>1. CASE v = n + 1
    <3>1. CASE n = 0
      BY <1>1, <1>2, <1>3, <2>1, <3>1 DEF NoPointer
    <3>2. CASE n # 0
      <4>1. hist'[i][n] = seen /\ v # 1 /\ v - 1 = n
        BY <1>2, <1>3, <2>1, <3>2
      <4>2. QED
        BY <1>1, <1>2, <2>1, <4>1
    <3>3. QED
      BY <3>1, <3>2
  <2>2. CASE v \in 1..n
    <3>1. v # 1 => v - 1 \in 1..n
      BY <1>2, <2>2
    <3>2. QED
      BY <1>2, <1>3, <2>2, <3>1
  <2>3. QED
    BY <1>2, <2>1, <2>2
<1>5. ptr'[i].ver = n + 1 /\ n + 1 # 0
  BY <1>1, <1>2
<1>6. HistoryComplete'
  <2>1. ASSUME NEW j \in Rungs
        PROVE  /\ Len(hist'[j]) = ptr'[j].ver
               /\ ptr'[j].ver # 0 => hist'[j][ptr'[j].ver] = ptr'[j]
               /\ \A v \in DOMAIN hist'[j] :
                     /\ hist'[j][v].ver = v
                     /\ hist'[j][v].prev = IF v = 1 THEN None ELSE hist'[j][v - 1].rel
    <3>1. CASE j = i
      BY <1>2, <1>4, <1>5, <3>1
    <3>2. CASE j # i
      BY <1>2, <3>2 DEF IInv, HistoryComplete
    <3>3. QED
      BY <3>1, <3>2
  <2>2. QED
    BY <2>1 DEF HistoryComplete
<1>7. \A j \in Rungs : ptr'[j].ver = 0 => ptr'[j] = NoPointer
  BY <1>2, <1>5 DEF IInv
<1>8. QED
  BY <1>6, <1>7

LEMMA MoveKeepsEpisodes ==
    ASSUME IInv, NEW i \in Rungs, NEW seen \in Pointer, Snapshot(hist[i], seen), NEW item \in Pointer,
           setEnvironmentReleasePointer(i, seen, item),
           Episode(Written(seen, item), seen, seen.ver + 1)
    PROVE  CanaryEpisodes'
<1> DEFINE now == Written(seen, item)
           n == seen.ver
<1>1. /\ seen = ptr[i] /\ n \in Nat /\ hist'[i][n + 1] = now
      /\ DOMAIN hist[i] = 1..n /\ DOMAIN hist'[i] = 1..(n + 1)
      /\ \A v \in 1..n : hist'[i][v] = hist[i][v]
      /\ \A j \in Rungs \ {i} : hist'[j] = hist[j]
  BY Commit
<1>2. (n # 0 => hist[i][n] = seen) /\ (n = 0 => seen = NoPointer)
  BY <1>1 DEF IInv, HistoryComplete
<1>3. \A j \in Rungs : \A v \in DOMAIN hist[j] : Episode(hist[j][v], Before(hist[j], v), v)
  BY EpisodesByItem DEF IInv
<1> HIDE DEF now
<1>4. ASSUME NEW v \in 1..(n + 1) PROVE Episode(hist'[i][v], Before(hist'[i], v), v)
  <2>1. CASE v = n + 1
    <3>1. Before(hist'[i], v) = seen
      <4>1. CASE n = 0
        BY <1>2, <2>1, <4>1 DEF Before
      <4>2. CASE n # 0
        <5>1. v # 1 /\ v - 1 = n /\ n \in 1..n
          BY <1>1, <2>1, <4>2
        <5>2. QED
          BY <1>1, <1>2, <4>2, <5>1 DEF Before
      <4>3. QED
        BY <4>1, <4>2
    <3>2. QED
      BY <1>1, <2>1, <3>1 DEF now
  <2>2. CASE v \in 1..n
    <3>1. Before(hist'[i], v) = Before(hist[i], v)
      BY <1>1, <2>2 DEF Before
    <3>2. QED
      BY <1>1, <1>3, <2>2, <3>1
  <2>3. QED
    BY <1>1, <2>1, <2>2
<1>5. \A j \in Rungs : \A v \in DOMAIN hist'[j] : Episode(hist'[j][v], Before(hist'[j], v), v)
  BY <1>1, <1>3, <1>4
<1>6. QED
  BY <1>5 DEF CanaryEpisodes, Episode, Before

LEMMA MoveKeepsLadder ==
    ASSUME IInv, NEW i \in Rungs, NEW seen \in Pointer, Snapshot(hist[i], seen), NEW item \in Pointer,
           setEnvironmentReleasePointer(i, seen, item),
           i # 1 => Climbed(Written(seen, item), hist[i - 1])
    PROVE  LadderClimbed'
<1> DEFINE now == Written(seen, item)
           n == seen.ver
<1>1. /\ n \in Nat /\ hist'[i][n + 1] = now
      /\ DOMAIN hist[i] = 1..n /\ DOMAIN hist'[i] = 1..(n + 1)
      /\ \A v \in 1..n : hist'[i][v] = hist[i][v]
      /\ \A j \in Rungs \ {i} : hist'[j] = hist[j]
      /\ \A j \in Rungs : Longer(hist[j], hist'[j])
  BY Commit
<1>2. ASSUME NEW j \in Rungs \ {1}, NEW v \in DOMAIN hist'[j] PROVE Climbed(hist'[j][v], hist'[j - 1])
  <2>1. j - 1 \in Rungs
    BY LadderAssumption
  <2>2. Climbed(hist'[j][v], hist[j - 1])
    <3>1. CASE v \in DOMAIN hist[j]
      <4>1. hist'[j][v] = hist[j][v]
        BY <1>1, <3>1 DEF Longer
      <4>2. QED
        BY <3>1, <4>1, ClimbedByItem DEF IInv
    <3>2. CASE v \notin DOMAIN hist[j]
      <4>1. j = i /\ v = n + 1
        BY <1>1, <1>2, <3>2
      <4>2. QED
        BY <1>1, <1>2, <4>1
    <3>3. QED
      BY <3>1, <3>2
  <2>3. Served(hist[j - 1]) \subseteq Served(hist'[j - 1])
    BY <1>1, <2>1, ServedGrows
  <2>4. QED
    BY <2>2, <2>3 DEF Climbed
<1>3. QED
  BY <1>2 DEF LadderClimbed, Climbed, Served

LEMMA MoveKeepsFloor ==
    ASSUME IInv, NEW i \in Rungs, NEW seen \in Pointer, Snapshot(hist[i], seen), NEW item \in Pointer,
           setEnvironmentReleasePointer(i, seen, item),
           item.kind \in HumanStableTransitions \/ item.rel = seen.rel
    PROVE  \A j \in Rungs : LastHuman(hist'[j], ptr'[j].rel)
<1> DEFINE now == Written(seen, item)
           n == seen.ver
           h == hist[i]
           g == hist'[i]
           Human(p) == p.kind \in HumanStableTransitions
<1>1. /\ seen = ptr[i] /\ n \in Nat /\ ptr'[i] = now /\ g[n + 1] = now
      /\ DOMAIN h = 1..n /\ DOMAIN g = 1..(n + 1) /\ \A v \in 1..n : g[v] = h[v]
      /\ \A j \in Rungs \ {i} : hist'[j] = hist[j] /\ ptr'[j] = ptr[j]
  BY Commit
<1>2. now.kind = item.kind /\ now.rel = item.rel
  BY DEF Written, Pointer
<1>3. LastHuman(h, seen.rel)
  BY <1>1 DEF IInv
<1> HIDE DEF now, h, g
<1>4. LastHuman(g, now.rel)
  <2>1. CASE Human(now)
    <3>1. n + 1 \in DOMAIN g /\ Human(g[n + 1]) /\ g[n + 1].rel = now.rel
          /\ \A v \in DOMAIN g : n + 1 >= v
      BY <1>1, <2>1
    <3>2. QED
      BY <3>1 DEF LastHuman
  <2>2. CASE ~Human(now)
    <3>1. now.rel = seen.rel
      BY <1>2, <2>2
    <3>2. ASSUME NEW v \in DOMAIN g, Human(g[v]) PROVE v \in DOMAIN h /\ g[v] = h[v]
      BY <1>1, <2>2, <3>2
    <3>3. ASSUME NEW v \in DOMAIN h PROVE v \in DOMAIN g /\ g[v] = h[v]
      BY <1>1
    <3>4. CASE \E v \in DOMAIN h : Human(h[v])
      <4>1. PICK m \in DOMAIN h : /\ Human(h[m]) /\ h[m].rel = seen.rel
                                  /\ \A v \in DOMAIN h : Human(h[v]) => m >= v
        BY <1>3, <3>4 DEF LastHuman
      <4>2. /\ m \in DOMAIN g /\ Human(g[m]) /\ g[m].rel = now.rel
            /\ \A v \in DOMAIN g : Human(g[v]) => m >= v
        BY <3>1, <3>2, <3>3, <4>1
      <4>3. QED
        BY <4>2 DEF LastHuman
    <3>5. CASE ~\E v \in DOMAIN h : Human(h[v])
      <4>1. seen.rel = None
        BY <1>3, <3>5 DEF LastHuman
      <4>2. ~\E v \in DOMAIN g : Human(g[v])
        BY <3>2, <3>5
      <4>3. QED
        BY <3>1, <4>1, <4>2 DEF LastHuman
    <3>6. QED
      BY <3>4, <3>5
  <2>3. QED
    BY <2>1, <2>2
<1>5. QED
  BY <1>1, <1>4 DEF IInv, g

LEMMA MoveKeeps ==
    ASSUME IInv, NEW i \in Rungs, NEW seen \in Pointer, Snapshot(hist[i], seen), NEW item \in Pointer,
           setEnvironmentReleasePointer(i, seen, item),
           Episode(Written(seen, item), seen, seen.ver + 1),
           i # 1 => Climbed(Written(seen, item), hist[i - 1]),
           item.kind \in HumanStableTransitions \/ item.rel = seen.rel,
           req' \in [Clients -> Request], \A d \in Clients : RequestOK(req'[d], hist),
           eval' \in [Evaluators -> Evaluation], \A y \in Evaluators : EvaluationOK(eval'[y], hist'),
           UNCHANGED <<row, rollbacks, faults>>
    PROVE  IInv'
<1>1. /\ ptr' \in [Rungs -> Pointer] /\ hist' \in [Rungs -> Seq(Pointer)]
      /\ \A j \in Rungs : Longer(hist[j], hist'[j])
  BY Commit
<1>2. TypeOK'
  BY <1>1 DEF IInv, TypeOK
<1>3. HistoryComplete' /\ \A j \in Rungs : ptr'[j].ver = 0 => ptr'[j] = NoPointer
  BY MoveKeepsHistory
<1>4. CanaryEpisodes'
  BY MoveKeepsEpisodes
<1>5. LadderClimbed'
  BY MoveKeepsLadder
<1>6. \A j \in Rungs : LastHuman(hist'[j], ptr'[j].rel)
  BY MoveKeepsFloor
<1>7. \A d \in Clients : RequestOK(req'[d], hist')
  BY <1>1, RequestGrows
<1>8. FindingFollowsMove'
  <2>1. rollbacks \subseteq Rungs \X Nat
    BY DEF IInv, TypeOK
  <2>2. ASSUME NEW f \in rollbacks
        PROVE  f[2] + 1 \in DOMAIN hist'[f[1]] /\ hist'[f[1]][f[2] + 1].kind = "AUTO_ABORT_CANARY"
    <3>1. f[1] \in Rungs
      BY <2>1
    <3>2. f[2] + 1 \in DOMAIN hist[f[1]] /\ hist[f[1]][f[2] + 1].kind = "AUTO_ABORT_CANARY"
      BY DEF IInv, FindingFollowsMove
    <3>3. QED
      BY <1>1, <3>1, <3>2 DEF Longer
  <2>3. QED
    BY <2>2 DEF FindingFollowsMove
<1>9. QED
  BY <1>2, <1>3, <1>4, <1>5, <1>6, <1>7, <1>8 DEF IInv

LEMMA BareFields ==
    ASSUME NEW rel \in Releases \cup {None}, NEW kind \in Kinds
    PROVE  /\ Bare(rel, kind) \in Pointer /\ Bare(rel, kind).rel = rel
           /\ Bare(rel, kind).kind = kind /\ Bare(rel, kind).cand = None
<1>1. NoPointer.cand = None
  BY DEF NoPointer
<1>2. QED
  BY <1>1, Constants DEF Bare, Pointer

LEMMA CanaryFields ==
    ASSUME NEW rel \in Releases \cup {None}, NEW kind \in Kinds, NEW cand \in Releases \cup {None},
           NEW percent \in Percents \cup {0}, NEW salt \in Nat,
           NEW p, p = Canary(rel, kind, cand, percent, salt)
    PROVE  p \in Pointer /\ p.rel = rel /\ p.kind = kind /\ p.cand = cand /\ p.salt = salt
<1>1. Bare(rel, kind) \in Pointer /\ Bare(rel, kind).rel = rel /\ Bare(rel, kind).kind = kind
  BY BareFields
<1>2. QED
  BY <1>1 DEF Canary, Pointer

LEMMA WrittenFields ==
    ASSUME NEW item \in Pointer, NEW seen
    PROVE  LET p == Written(seen, item)
           IN p.rel = item.rel /\ p.kind = item.kind /\ p.cand = item.cand /\ p.salt = item.salt
  BY DEF Written, Pointer

\* A snapshot with a version is an item, and its releases were served below.
LEMMA SeenClimbed ==
    ASSUME IInv, NEW i \in Rungs, NEW seen, Snapshot(hist[i], seen), seen # NoPointer, i # 1
    PROVE  Climbed(seen, hist[i - 1])
<1>1. seen.ver \in DOMAIN hist[i] /\ hist[i][seen.ver] = seen
  BY DEF Snapshot
<1>2. QED
  BY <1>1, ClimbedByItem DEF IInv

\* What the item of each mutation is to the pointer it replaces.
Fits(r, below) ==
    /\ ItemOf(r) \in Pointer
    /\ Episode(Written(r.seen, ItemOf(r)), r.seen, r.seen.ver + 1)
    /\ r.rung # 1 => Climbed(Written(r.seen, ItemOf(r)), below)
    /\ ItemOf(r).kind \in HumanStableTransitions \/ ItemOf(r).rel = r.seen.rel

LEMMA ItemFits ==
    ASSUME IInv, NEW r \in Request, Established(r, hist)
    PROVE  Fits(r, hist[r.rung - 1])
<1> DEFINE item == ItemOf(r)
           now == Written(r.seen, item)
           below == hist[r.rung - 1]
<1>1. /\ r.seen \in Pointer /\ r.rel \in Releases \cup {None} /\ r.percent \in Percents \cup {0}
      /\ r.seen.rel \in Releases \cup {None} /\ r.seen.cand \in Releases \cup {None}
      /\ r.seen.ver \in Nat /\ r.seen.salt \in Nat /\ r.rung \in Rungs /\ r.op \in Ops
  BY DEF Request, Pointer, Established
<1>2. r.op # "promote" => r.seen # NoPointer /\ r.seen.ver # 0
  BY DEF Established, NoPointer
<1>3. r.op # "promote" /\ r.rung # 1 => Climbed(r.seen, below)
  BY <1>1, <1>2, SeenClimbed DEF Established
<1>4. r.op \in GatedOps /\ r.rung # 1 => r.rel \in Served(below)
  BY DEF Established
<1>5. ASSUME item \in Pointer
      PROVE  now.rel = item.rel /\ now.kind = item.kind /\ now.cand = item.cand /\ now.salt = item.salt
  <2> HIDE DEF item
  <2>1. QED
    BY <1>5, WrittenFields
<1>6. CASE r.op = "promote"
  <2>1. item = Bare(r.rel, "PROMOTE")
    BY <1>6 DEF ItemOf
  <2> HIDE DEF item
  <2>2. item \in Pointer /\ item.rel = r.rel /\ item.kind = "PROMOTE" /\ item.cand = None
    BY <1>1, <2>1, BareFields DEF Kinds
  <2> HIDE DEF now
  <2>3. now.rel = r.rel /\ now.kind = "PROMOTE" /\ now.cand = None
    BY <1>5, <2>2
  <2>4. Episode(now, r.seen, r.seen.ver + 1)
    BY <2>3 DEF Episode
  <2>5. r.rung # 1 => Climbed(now, below)
    BY <1>4, <1>6, <2>3 DEF Climbed, GatedOps
  <2>6. QED
    BY <2>2, <2>4, <2>5 DEF Fits, item, now, HumanStableTransitions
<1>7. CASE r.op = "startCanary"
  <2>1. item = Canary(r.seen.rel, "CANARY_START", r.rel, r.percent, r.seen.ver + 1)
    BY <1>7 DEF ItemOf, MintedSalt
  <2> HIDE DEF item
  <2>2. /\ item \in Pointer /\ item.rel = r.seen.rel /\ item.kind = "CANARY_START"
        /\ item.cand = r.rel /\ item.salt = r.seen.ver + 1
    <3>1. "CANARY_START" \in Kinds
      BY DEF Kinds
    <3>2. PICK salt \in Nat : salt = r.seen.ver + 1
      BY <1>1
    <3>3. item = Canary(r.seen.rel, "CANARY_START", r.rel, r.percent, salt)
      BY <2>1, <3>2
    <3>4. /\ item \in Pointer /\ item.rel = r.seen.rel /\ item.kind = "CANARY_START"
          /\ item.cand = r.rel /\ item.salt = salt
      <4>1. /\ r.seen.rel \in Releases \cup {None} /\ r.rel \in Releases \cup {None}
            /\ r.percent \in Percents \cup {0}
        BY <1>1
      <4>2. PICK b \in Pointer : /\ b = Bare(r.seen.rel, "CANARY_START")
                                 /\ b.rel = r.seen.rel /\ b.kind = "CANARY_START"
        BY <3>1, <4>1, BareFields
      <4>3. item = [b EXCEPT !.cand = r.rel, !.percent = r.percent, !.salt = salt]
        BY <3>3, <4>2 DEF Canary
      <4>4. QED
        BY <4>1, <4>2, <4>3 DEF Pointer
    <3>5. QED
      BY <3>2, <3>4
  <2> HIDE DEF now
  <2>3. now.rel = r.seen.rel /\ now.kind = "CANARY_START" /\ now.cand = r.rel /\ now.salt = r.seen.ver + 1
    BY <1>5, <2>2
  <2>4. r.seen.ver + 1 > 1 /\ r.seen.cand = None
    BY <1>1, <1>2, <1>7 DEF Established
  <2>5. Episode(now, r.seen, r.seen.ver + 1)
    BY <2>3, <2>4 DEF Episode
  <2>6. r.rung # 1 => Climbed(now, below)
    BY <1>3, <1>4, <1>7, <2>3 DEF Climbed, GatedOps
  <2>7. QED
    BY <2>2, <2>5, <2>6 DEF Fits, item, now
<1>8. CASE r.op = "reweightCanary"
  <2>1. item = Canary(r.seen.rel, "CANARY_REWEIGHT", r.seen.cand, r.percent, r.seen.salt)
    BY <1>8 DEF ItemOf, KeptSalt
  <2> HIDE DEF item
  <2>2. /\ item \in Pointer /\ item.rel = r.seen.rel /\ item.kind = "CANARY_REWEIGHT"
        /\ item.cand = r.seen.cand /\ item.salt = r.seen.salt
    <3>1. "CANARY_REWEIGHT" \in Kinds /\ r.seen.salt \in Nat
      BY <1>1 DEF Kinds
    <3>2. QED
      BY <1>1, <2>1, <3>1, CanaryFields
  <2> HIDE DEF now
  <2>3. /\ now.rel = r.seen.rel /\ now.kind = "CANARY_REWEIGHT"
        /\ now.cand = r.seen.cand /\ now.salt = r.seen.salt
    BY <1>5, <2>2
  <2>4. r.seen.cand # None
    BY <1>8 DEF Established
  <2>5. Episode(now, r.seen, r.seen.ver + 1)
    BY <2>3, <2>4 DEF Episode
  <2>6. r.rung # 1 => Climbed(now, below)
    BY <1>3, <1>8, <2>3 DEF Climbed
  <2>7. QED
    BY <2>2, <2>5, <2>6 DEF Fits, item, now
<1>9. CASE r.op = "promoteCanary"
  <2>1. item = Bare(r.rel, "CANARY_PROMOTE")
    BY <1>9 DEF ItemOf
  <2> HIDE DEF item
  <2>2. item \in Pointer /\ item.rel = r.rel /\ item.kind = "CANARY_PROMOTE" /\ item.cand = None
    BY <1>1, <2>1, BareFields DEF Kinds
  <2> HIDE DEF now
  <2>3. now.rel = r.rel /\ now.kind = "CANARY_PROMOTE" /\ now.cand = None
    BY <1>5, <2>2
  <2>4. r.seen.cand # None /\ r.rel = r.seen.cand
    BY <1>9 DEF Established
  <2>5. Episode(now, r.seen, r.seen.ver + 1)
    BY <2>3, <2>4 DEF Episode
  <2>6. r.rung # 1 => Climbed(now, below)
    BY <1>4, <1>9, <2>3 DEF Climbed, GatedOps
  <2>7. QED
    BY <2>2, <2>5, <2>6 DEF Fits, item, now, HumanStableTransitions
<1>10. CASE r.op = "abortCanary"
  <2>1. item = Bare(r.seen.rel, "CANARY_ABORT")
    BY <1>10 DEF ItemOf
  <2> HIDE DEF item
  <2>2. item \in Pointer /\ item.rel = r.seen.rel /\ item.kind = "CANARY_ABORT" /\ item.cand = None
    BY <1>1, <2>1, BareFields DEF Kinds
  <2> HIDE DEF now
  <2>3. now.rel = r.seen.rel /\ now.kind = "CANARY_ABORT" /\ now.cand = None
    BY <1>5, <2>2
  <2>4. r.seen.cand # None
    BY <1>10 DEF Established
  <2>5. Episode(now, r.seen, r.seen.ver + 1)
    BY <2>3, <2>4 DEF Episode
  <2>6. r.rung # 1 => Climbed(now, below)
    BY <1>3, <1>10, <2>3 DEF Climbed
  <2>7. QED
    BY <2>2, <2>5, <2>6 DEF Fits, item, now
<1>11. QED
  BY <1>1, <1>6, <1>7, <1>8, <1>9, <1>10 DEF Ops, CanaryOps

LEMMA WriteKeeps ==
    ASSUME IInv, NEW c \in Clients, writePointer(c)
    PROVE  IInv'
<1> DEFINE r == req[c]
<1>1. r \in Request /\ r.pc = "write" /\ TypeOK
  BY DEF IInv, TypeOK, writePointer, At
<1>2. Established(r, hist)
  BY <1>1 DEF IInv, RequestOK
<1>3. r.rung \in Rungs /\ r.seen \in Pointer /\ Snapshot(hist[r.rung], r.seen)
  BY <1>1, <1>2 DEF Established, Request
<1>4. Stop(c) /\ UNCHANGED <<row, rollbacks, eval, faults>>
  BY DEF writePointer
<1>5. req' \in [Clients -> Request] /\ \A d \in Clients : RequestOK(req'[d], hist)
  BY <1>1, <1>4, StopTyped, StopOK
<1>6. CASE UNCHANGED <<ptr, hist>>
  BY <1>4, <1>5, <1>6, RequestStep
<1>7. CASE setEnvironmentReleasePointer(r.rung, r.seen, ItemOf(r))
  <2>1. Fits(r, hist[r.rung - 1])
    BY <1>1, <1>2, ItemFits
  <2>2. ItemOf(r) \in Pointer
    BY <2>1 DEF Fits
  <2>3. \A j \in Rungs : Longer(hist[j], hist'[j])
    BY <1>3, <1>7, <2>2, Commit
  <2>4. eval' \in [Evaluators -> Evaluation] /\ \A y \in Evaluators : EvaluationOK(eval'[y], hist')
    <3>1. eval \in [Evaluators -> Evaluation] /\ \A y \in Evaluators : EvaluationOK(eval[y], hist)
      BY DEF IInv, TypeOK
    <3>2. \A y \in Evaluators : EvaluationOK(eval[y], hist')
      BY <2>3, <3>1, EvaluationGrows
    <3>3. QED
      BY <1>4, <3>1, <3>2
  <2> HIDE DEF r
  <2>5. QED
    BY <1>3, <1>4, <1>5, <1>7, <2>1, <2>2, <2>4, MoveKeeps DEF Fits
<1>8. QED
  BY <1>6, <1>7 DEF writePointer

LEMMA AbortKeeps ==
    ASSUME IInv, NEW x \in Evaluators, performAutoAbortCanary(x)
    PROVE  IInv'
<1> DEFINE e == eval[x]
           i == e.rung
           seen == e.seen
           item == AbortItem(seen)
<1>1. e \in Evaluation /\ e.pc = "abort" /\ EvaluationOK(e, hist)
  BY DEF IInv, TypeOK, performAutoAbortCanary
<1>2. i \in Rungs /\ seen \in Pointer /\ Snapshot(hist[i], seen) /\ seen.cand # None
  BY <1>1 DEF EvaluationOK, Evaluation
<1>3. UNCHANGED <<row, rollbacks, req, faults>>
  BY DEF performAutoAbortCanary
<1>4. ASSUME Resume(x), UNCHANGED <<ptr, hist>> PROVE IInv'
  <2>1. faults' \in Nat /\ rollbacks' \subseteq Rungs \X Nat /\ FindingFollowsMove'
    BY <1>3, <1>4 DEF IInv, TypeOK, FindingFollowsMove
  <2>2. QED
    BY <1>3, <1>4, <2>1, ResumeOK, EvaluatorStepKeeps
<1>5. ASSUME setEnvironmentReleasePointer(i, seen, item), Wake(x, [e EXCEPT !.pc = "finding"]) PROVE IInv'
  <2>1. seen.rel \in Releases \cup {None} /\ seen.ver \in Nat
    BY <1>2 DEF Pointer
  <2>2. item \in Pointer /\ item.rel = seen.rel /\ item.kind = "AUTO_ABORT_CANARY" /\ item.cand = None
    BY <2>1, BareFields DEF AbortItem, Kinds
  <2> DEFINE now == Written(seen, item)
             f == [e EXCEPT !.pc = "finding"]
  <2>3. now.rel = seen.rel /\ now.kind = "AUTO_ABORT_CANARY" /\ now.cand = None
    BY <2>2, WrittenFields
  <2>4. Episode(now, seen, seen.ver + 1)
    <3> HIDE DEF now
    <3>1. QED
      BY <1>2, <2>3 DEF Episode
  <2>5. i # 1 => Climbed(now, hist[i - 1])
    <3>1. seen # NoPointer
      BY <1>2 DEF NoPointer
    <3>2. i # 1 => Climbed(seen, hist[i - 1])
      BY <1>2, <3>1, SeenClimbed
    <3> HIDE DEF now
    <3>3. QED
      BY <2>3, <3>2 DEF Climbed
  <2>6. /\ \A j \in Rungs : Longer(hist[j], hist'[j])
        /\ hist'[i][seen.ver + 1] = now /\ DOMAIN hist'[i] = 1..(seen.ver + 1)
    <3> HIDE DEF i, seen, item
    <3>1. QED
      BY <1>2, <1>5, <2>2, Commit
  <2>7. f \in Evaluation /\ f.pc = "finding" /\ f.rung = i /\ f.seen = seen /\ f.todo = e.todo
    BY <1>1 DEF Evaluation
  <2>8. EvaluationOK(f, hist')
    <3>1. EvaluationOK(e, hist')
      BY <1>1, <2>6, EvaluationGrows
    <3>2. seen.ver + 1 \in DOMAIN hist'[i] /\ hist'[i][seen.ver + 1].kind = "AUTO_ABORT_CANARY"
      <4> HIDE DEF now
      <4>1. QED
        BY <2>1, <2>3, <2>6
    <3>3. Snapshot(hist'[i], seen)
      BY <1>2, <2>6, SnapshotGrows
    <3> HIDE DEF f, i, seen
    <3>4. QED
      BY <1>2, <2>7, <3>1, <3>2, <3>3 DEF EvaluationOK
  <2>9. eval' \in [Evaluators -> Evaluation] /\ \A y \in Evaluators : EvaluationOK(eval'[y], hist')
    <3>1. eval \in [Evaluators -> Evaluation] /\ \A y \in Evaluators : EvaluationOK(eval[y], hist)
      BY DEF IInv, TypeOK
    <3>2. \A y \in Evaluators : EvaluationOK(eval[y], hist')
      BY <2>6, <3>1, EvaluationGrows
    <3> HIDE DEF f
    <3>3. eval' = [eval EXCEPT ![x] = f]
      BY <1>5 DEF Wake, f
    <3>4. QED
      BY <2>7, <2>8, <3>1, <3>2, <3>3
  <2>10. req' \in [Clients -> Request] /\ \A d \in Clients : RequestOK(req'[d], hist)
    BY <1>3 DEF IInv, TypeOK
  <2> HIDE DEF i, seen, item
  <2>11. QED
    BY <1>2, <1>3, <1>5, <2>2, <2>4, <2>5, <2>9, <2>10, MoveKeeps
<1>6. QED
  BY <1>4, <1>5 DEF performAutoAbortCanary, LostRace

---------------------------------------------------------------------------
(* The theorems *)

LEMMA InitEstablishes ==
    ASSUME Init
    PROVE  IInv
<1>1. IsRow(row)
  <2>1. IsOverride(NoOverride)
    BY DEF IsOverride, NoOverride
  <2>2. /\ DOMAIN NoRow = {"policy", "agent", "env", "rollback"} /\ NoRow.policy = NoOverride
        /\ NoRow.agent = NoOverride /\ \A i \in Rungs : NoRow.env[i] = NoOverride
    BY DEF NoRow
  <2>3. QED
    BY <2>1, <2>2 DEF Init, IsRow
<1>2. /\ ptr = [i \in Rungs |-> NoPointer] /\ hist = [i \in Rungs |-> <<>>] /\ rollbacks = {}
      /\ req = [c \in Clients |-> Idle] /\ eval = [x \in Evaluators |-> Asleep] /\ faults = 0
  BY DEF Init
<1>3. TypeOK
  BY <1>1, <1>2, Constants DEF TypeOK
<1>4. \A i \in Rungs : Len(hist[i]) = 0 /\ DOMAIN hist[i] = {} /\ ptr[i] = NoPointer
  BY <1>2
<1>5. NoPointer.ver = 0 /\ NoPointer.rel = None /\ Idle.pc = "idle"
  BY DEF NoPointer, Idle
<1>6. HistoryComplete
  BY <1>4, <1>5 DEF HistoryComplete
<1>7. LadderClimbed /\ CanaryEpisodes
  BY <1>4 DEF LadderClimbed, CanaryEpisodes
<1>8. FindingFollowsMove
  BY <1>2 DEF FindingFollowsMove
<1>9. \A i \in Rungs : LastHuman(hist[i], ptr[i].rel)
  BY <1>4, <1>5 DEF LastHuman
<1>10. \A c \in Clients : RequestOK(req[c], hist)
  BY <1>2, <1>5 DEF RequestOK
<1>11. \A x \in Evaluators : EvaluationOK(eval[x], hist)
  BY <1>2, AsleepOK
<1>12. QED
  BY <1>3, <1>4, <1>6, <1>7, <1>8, <1>9, <1>10, <1>11 DEF IInv

LEMMA StutterKeeps ==
    ASSUME IInv, UNCHANGED vars
    PROVE  IInv'
<1>1. TypeOK'
  BY DEF IInv, TypeOK, vars
<1>2. HistoryComplete' /\ LadderClimbed' /\ CanaryEpisodes' /\ FindingFollowsMove'
  BY DEF IInv, HistoryComplete, LadderClimbed, CanaryEpisodes, FindingFollowsMove, vars
<1>3. QED
  BY <1>1, <1>2 DEF IInv, vars

LEMMA NextKeeps ==
    ASSUME IInv, [Next]_vars
    PROVE  IInv'
<1>1. CASE \/ \E config \in Configs : setPromotionPolicy(config)
           \/ \E sources \in RollbackConfigs : AuthorRollback(sources)
  BY <1>1, AuthoringKeeps
<1>2. ASSUME NEW c \in Clients, ClientStep(c) PROVE IInv'
  BY <1>2, CallKeeps, GateKeeps, ApprovalKeeps, WriteKeeps, FailKeeps DEF ClientStep
<1>3. ASSUME NEW x \in Evaluators, EvaluatorStep(x) PROVE IInv'
  BY <1>3, QueryKeeps, EvaluateKeeps, AbortKeeps, FindingKeeps, DieKeeps DEF EvaluatorStep
<1>4. CASE UNCHANGED vars
  BY <1>4, StutterKeeps
<1>5. QED
  BY <1>1, <1>2, <1>3, <1>4 DEF Next

LEMMA Inductive == Spec => []IInv
<1>1. Init => IInv
  BY InitEstablishes
<1>2. IInv /\ [Next]_vars => IInv'
  BY NextKeeps
<1>3. QED
  BY <1>1, <1>2, PTL DEF Spec

\* Pointers, histories, requests and evaluator runs keep their types, and every
\* policy a request is judged by is a whole one.
THEOREM ReleaseTypeCorrect == Spec => []TypeOK
<1>1. IInv => TypeOK
  BY DEF IInv
<1>2. QED
  BY <1>1, Inductive, PTL

\* The transaction and its version condition keep the history gap-free and its last
\* item the pointer, whoever races and however stale the reads.
THEOREM HistoryCompleteHolds == Spec => []HistoryComplete
<1>1. IInv => HistoryComplete
  BY DEF IInv
<1>2. QED
  BY <1>1, Inductive, PTL

\* assertLadderAdjacency, read long before the write, still makes every release
\* climb the ladder rung by rung.
THEOREM LadderClimbedHolds == Spec => []LadderClimbed
<1>1. IInv => LadderClimbed
  BY DEF IInv
<1>2. QED
  BY <1>1, Inductive, PTL

\* Starts, reweights, cut-overs and aborts, by callers and by the evaluator, compose
\* into whole canary episodes.
THEOREM CanaryEpisodesHolds == Spec => []CanaryEpisodes
<1>1. IInv => CanaryEpisodes
  BY DEF IInv
<1>2. QED
  BY <1>1, Inductive, PTL

\* The stable release of an environment is the one the last human transition of its
\* history left.
THEOREM FloorHeldHolds == Spec => []FloorHeld
<1>1. ASSUME NEW h, NEW rel, LastHuman(h, rel), NEW n \in Nat, DOMAIN h = 1..n
      PROVE  rel = deriveLastHumanStableReleaseId(h)
  <2> DEFINE human == {v \in DOMAIN h : h[v].kind \in HumanStableTransitions}
  <2>1. CASE human = {}
    <3>1. rel = None
      BY <1>1, <2>1 DEF LastHuman
    <3>2. QED
      BY <2>1, <3>1 DEF deriveLastHumanStableReleaseId
  <2>2. CASE human # {}
    <3>1. PICK m \in human : h[m].rel = rel /\ \A v \in human : m >= v
      BY <1>1, <2>2 DEF LastHuman
    <3>2. human \subseteq Nat
      BY <1>1
    <3> HIDE DEF human
    <3>3. \A k \in human : (\A v \in human : k >= v) => k = m
      BY <3>1, <3>2
    <3>4. Max(human) = m
      BY <3>1, <3>3 DEF Max
    <3>5. QED
      BY <2>2, <3>1, <3>4 DEF deriveLastHumanStableReleaseId, human
  <2>3. QED
    BY <2>1, <2>2
<1>2. ASSUME IInv PROVE FloorHeld
  <2>1. ASSUME NEW i \in Rungs PROVE ptr[i].rel = deriveLastHumanStableReleaseId(hist[i])
    <3>1. LastHuman(hist[i], ptr[i].rel) /\ hist[i] \in Seq(Pointer)
      BY <1>2 DEF IInv, TypeOK
    <3>2. Len(hist[i]) \in Nat /\ DOMAIN hist[i] = 1..Len(hist[i])
      BY <3>1
    <3>3. QED
      BY <1>1, <3>1, <3>2
  <2>2. QED
    BY <2>1 DEF FloorHeld
<1>3. QED
  BY <1>2, Inductive, PTL

\* An auto-rollback finding names an abort that was committed from that version.
THEOREM FindingFollowsMoveHolds == Spec => []FindingFollowsMove
<1>1. IInv => FindingFollowsMove
  BY DEF IInv
<1>2. QED
  BY <1>1, Inductive, PTL

\* Whatever configurations were authored, a rung that comparePolicyStrictness finds as
\* strict as the one below admits no evidence the one below refuses.
THEOREM StricterAdmitsLessHolds == Spec => []StricterAdmitsLess
<1>1. ASSUME IInv PROVE StricterAdmitsLess
  <2>1. ASSUME NEW i \in Rungs \ {1},
               comparePolicyStrictness(resolvePromotionPolicy(row, i), resolvePromotionPolicy(row, i - 1)),
               NEW r \in Releases, NEW e \in EvidenceOf[r], NEW baseline \in BOOLEAN,
               NEW comparison \in {"PASS", "FAIL"},
               isFailStatus(evaluateReleaseGate(e, baseline, comparison, resolvePromotionPolicy(row, i - 1)))
        PROVE  isFailStatus(evaluateReleaseGate(e, baseline, comparison, resolvePromotionPolicy(row, i)))
    <3>1. i \in Rungs /\ i - 1 \in Rungs
      BY LadderAssumption
    <3>2. IsRow(row)
      BY <1>1 DEF IInv, TypeOK
    <3>3. /\ resolvePromotionPolicy(row, i) \in PromotionPolicy
          /\ resolvePromotionPolicy(row, i - 1) \in PromotionPolicy
      BY <3>1, <3>2, ResolvedPolicy
    <3>4. IsEvidence(e)
      BY EvidenceAssumption
    <3>5. QED
      BY <2>1, <3>3, <3>4, StricterPolicyAdmitsLess
  <2>2. QED
    BY <2>1 DEF StricterAdmitsLess
<1>2. QED
  BY <1>1, Inductive, PTL

\* No gated request moves a pointer before both of its checks ran, and what a strict
\* check let through is on record by then.
THEOREM StrictlyRecordedHolds == Spec => StrictlyRecorded
<1> DEFINE Moved(c) == /\ req[c].op \in GatedOps /\ req'[c] = Idle
                       /\ ptr'[req[c].rung] # ptr[req[c].rung]
           Kept(c) == LET r == req[c]
                      IN /\ r.gate \in Modes /\ r.appr \in Modes
                         /\ r.gate = "strict" => "gate" \in r.permits
                         /\ r.appr = "strict" => "approval" \in r.permits
<1>1. ASSUME IInv, [Next]_vars, NEW c \in Clients, Moved(c) PROVE Kept(c)
  <2>1. req[c] # Idle
    BY <1>1 DEF Idle, GatedOps
  <2>2. req'[c] # req[c] /\ ptr' # ptr
    BY <1>1, <2>1
  <2>3. \A x \in Evaluators : EvaluatorStep(x) => req' = req
    BY DEF EvaluatorStep, queryActiveCanaries, evaluateOneCanary, performAutoAbortCanary,
           writeAutoRollbackFinding, Die
  <2>4. PICK d \in Clients : ClientStep(d)
    BY <1>1, <2>2, <2>3 DEF Next, vars, setPromotionPolicy, AuthorRollback
  <2>5. writePointer(d)
    <3>1. \A op, i, input : Call(d, op, i, input) => ptr' = ptr
      BY DEF Call
    <3>2. validateReleaseGate(d) \/ validatePromotionApproval(d) \/ Fail(d) => ptr' = ptr
      BY DEF validateReleaseGate, validatePromotionApproval, Fail
    <3>3. QED
      BY <2>2, <2>4, <3>1, <3>2 DEF ClientStep
  <2>6. d = c
    BY <2>2, <2>5 DEF writePointer, Stop, IInv, TypeOK
  <2>7. req[c].pc = "write"
    BY <2>5, <2>6 DEF writePointer, At
  <2>8. Recorded(req[c])
    BY <1>1, <2>7 DEF IInv, RequestOK
  <2>9. QED
    BY <1>1, <2>7, <2>8 DEF Recorded
<1>2. IInv /\ [Next]_vars => [\A c \in Clients :
          LET r == req[c]
          IN r.op \in GatedOps /\ req'[c] = Idle /\ ptr'[r.rung] # ptr[r.rung] =>
                /\ r.gate \in Modes /\ r.appr \in Modes
                /\ r.gate = "strict" => "gate" \in r.permits
                /\ r.appr = "strict" => "approval" \in r.permits]_vars
  BY <1>1
<1>3. QED
  BY <1>2, Inductive, PTL DEF Spec, StrictlyRecorded

---------------------------------------------------------------------------
(* The refinement of Rollout *)

Stable == [i \in Rungs |-> ptr[i].rel]
Canaries == [i \in Rungs |-> Beside(ptr[i])]
MoveCount == [i \in Rungs |-> ptr[i].ver]
ServedSets == [i \in Rungs |-> Served(hist[i])]
AbortSet == UNION {Aborts(i, hist[i]) : i \in Rungs}
ReportedSet == {<<f[1], f[2] + 1>> : f \in rollbacks}

\* One commit, as Rollout sees it.
MoveMaps(i, item) ==
    /\ Stable' = [Stable EXCEPT ![i] = item.rel]
    /\ Canaries' = [Canaries EXCEPT ![i] = Beside(item)]
    /\ MoveCount' = [MoveCount EXCEPT ![i] = @ + 1]
    /\ ServedSets' = [ServedSets EXCEPT ![i] = @ \cup {item.rel}]
    /\ AbortSet' = AbortSet \cup (IF item.kind = "AUTO_ABORT_CANARY" THEN {<<i, MoveCount[i] + 1>>} ELSE {})

LEMMA WrittenBeside ==
    ASSUME NEW item \in Pointer, NEW seen
    PROVE  Beside(Written(seen, item)) = Beside(item) /\ Written(seen, item).ver = seen.ver + 1
  BY DEF Beside, Written, Pointer

\* Every move acts on the pointer as it is, and appends to the history.
LEMMA CommitMaps ==
    ASSUME IInv, NEW i \in Rungs, NEW seen \in Pointer, Snapshot(hist[i], seen), NEW item \in Pointer,
           setEnvironmentReleasePointer(i, seen, item)
    PROVE  seen = ptr[i] /\ MoveMaps(i, item)
<1> DEFINE now == Written(seen, item)
           n == seen.ver
<1>1. /\ seen = ptr[i] /\ n \in Nat /\ ptr'[i] = now /\ hist'[i][n + 1] = now
      /\ DOMAIN hist[i] = 1..n /\ DOMAIN hist'[i] = 1..(n + 1)
      /\ \A v \in 1..n : hist'[i][v] = hist[i][v]
      /\ \A j \in Rungs \ {i} : hist'[j] = hist[j] /\ ptr'[j] = ptr[j]
  BY Commit
<1>2. /\ now.rel = item.rel /\ now.kind = item.kind /\ Beside(now) = Beside(item)
      /\ now.ver = n + 1
  BY WrittenFields, WrittenBeside
<1> HIDE DEF now
<1>3. /\ Stable' = [Stable EXCEPT ![i] = item.rel]
      /\ Canaries' = [Canaries EXCEPT ![i] = Beside(item)]
      /\ MoveCount' = [MoveCount EXCEPT ![i] = @ + 1]
  BY <1>1, <1>2 DEF Stable, Canaries, MoveCount
<1>4. Served(hist'[i]) = Served(hist[i]) \cup {item.rel}
  <2>1. 1..(n + 1) = 1..n \cup {n + 1}
    BY <1>1
  <2>2. PICK h, g : h = hist[i] /\ g = hist'[i]
    OBVIOUS
  <2>3. DOMAIN g = DOMAIN h \cup {n + 1} /\ g[n + 1].rel = item.rel /\ \A v \in DOMAIN h : g[v] = h[v]
    BY <1>1, <1>2, <2>1, <2>2
  <2> HIDE DEF n
  <2>4. Served(g) = Served(h) \cup {item.rel}
    BY <2>3 DEF Served
  <2>5. QED
    BY <2>2, <2>4
<1>5. ServedSets' = [ServedSets EXCEPT ![i] = @ \cup {item.rel}]
  BY <1>1, <1>4 DEF ServedSets
<1>6. Aborts(i, hist'[i]) = Aborts(i, hist[i])
         \cup (IF item.kind = "AUTO_ABORT_CANARY" THEN {<<i, n + 1>>} ELSE {})
  <2>1. 1..(n + 1) = 1..n \cup {n + 1}
    BY <1>1
  <2>2. QED
    BY <1>1, <1>2, <2>1 DEF Aborts
<1>7. \A j \in Rungs \ {i} : Aborts(j, hist'[j]) = Aborts(j, hist[j])
  BY <1>1
<1>8. MoveCount[i] = n
  BY <1>1 DEF MoveCount
<1> HIDE DEF n
<1>9. AbortSet' = AbortSet \cup (IF item.kind = "AUTO_ABORT_CANARY" THEN {<<i, MoveCount[i] + 1>>} ELSE {})
  BY <1>6, <1>7, <1>8 DEF AbortSet
<1>10. QED
  BY <1>1, <1>3, <1>5, <1>9 DEF MoveMaps

\* An item without a canary, as Rollout sees it.
LEMMA BareBeside ==
    ASSUME NEW rel \in Releases \cup {None}, NEW kind \in Kinds
    PROVE  Beside(Bare(rel, kind)) = R!NoCanary
<1>1. NoPointer.cand = None /\ NoPointer.percent = 0 /\ NoPointer.salt = 0 /\ NoPointer \in Pointer
  BY Constants DEF NoPointer
<1>2. QED
  BY <1>1 DEF Beside, Bare, R!NoCanary, Pointer

\* What Rollout's operators are in terms of the mapped state.
LEMMA RolloutActions ==
    ASSUME NEW i \in Rungs
    PROVE  /\ \A rel, new : /\ Stable' = [Stable EXCEPT ![i] = rel]
                            /\ Canaries' = [Canaries EXCEPT ![i] = new]
                            /\ ServedSets' = [ServedSets EXCEPT ![i] = @ \cup {rel}]
                            => R!Serve(i, rel, new)
           /\ \A r : R!Climbs(i, r) <=> i = 1 \/ r \in ServedSets[i - 1]
           /\ R!HasCanary(i) <=> ptr[i].cand # None
           /\ (/\ MoveCount' = [MoveCount EXCEPT ![i] = @ + 1]
               /\ UNCHANGED ReportedSet
               /\ \/ \E r \in Releases : \/ R!Promote(i, r)
                                         \/ \E share \in Percents \cup {0} : R!Start(i, r, share)
                  \/ \E share \in Percents \cup {0} : R!Reweight(i, share)
                  \/ R!CutOver(i) \/ R!Abort(i))
              => R!Move(i)
           /\ UNCHANGED <<ptr, hist, rollbacks>> => UNCHANGED R!vars
  BY DEF Stable, Canaries, MoveCount, ServedSets, ReportedSet, Beside,
         R!Serve, R!Climbs, R!HasCanary, R!Move, R!vars

\* The five mutations.
LEMMA MutationImplements ==
    ASSUME IInv, NEW r \in Request, Established(r, hist), NEW i \in Rungs, i = r.rung,
           NEW item \in Pointer, item = ItemOf(r),
           setEnvironmentReleasePointer(i, r.seen, item), UNCHANGED rollbacks
    PROVE  R!Move(i)
<1>1. /\ r.seen \in Pointer /\ Snapshot(hist[i], r.seen)
      /\ r.rel \in Releases \cup {None} /\ r.percent \in Percents \cup {0} /\ r.op \in Ops
  BY DEF Established, Request
<1>2. r.seen = ptr[i] /\ MoveMaps(i, item)
  BY <1>1, CommitMaps
<1>3. /\ r.seen.rel \in Releases \cup {None} /\ r.seen.cand \in Releases \cup {None}
      /\ r.seen.ver \in Nat /\ r.seen.salt \in Nat
  BY <1>1 DEF Pointer
<1>4. r.op \in GatedOps => r.rel \in Releases /\ R!Climbs(i, r.rel)
  <2>1. r.op \in GatedOps => r.rel # None /\ (i # 1 => r.rel \in Served(hist[i - 1]))
    BY DEF Established
  <2>2. i # 1 => i - 1 \in Rungs
    BY LadderAssumption
  <2>3. i # 1 => ServedSets[i - 1] = Served(hist[i - 1])
    BY <2>2 DEF ServedSets
  <2>4. QED
    BY <1>1, <2>1, <2>3, RolloutActions
<1>5. R!Serve(i, item.rel, Beside(item))
  BY <1>2, RolloutActions DEF MoveMaps
<1>6. item.kind # "AUTO_ABORT_CANARY" => UNCHANGED AbortSet
  BY <1>2 DEF MoveMaps
<1>7. R!HasCanary(i) <=> r.seen.cand # None
  BY <1>2, RolloutActions
<1>8. /\ Stable[i] = r.seen.rel /\ Canaries[i] = Beside(r.seen) /\ MoveCount[i] = r.seen.ver
  BY <1>2 DEF Stable, Canaries, MoveCount
<1>9. MoveCount' = [MoveCount EXCEPT ![i] = @ + 1] /\ UNCHANGED ReportedSet
  BY <1>2 DEF MoveMaps, ReportedSet
<1>10. CASE r.op = "promote"
  <2>1. item = Bare(r.rel, "PROMOTE")
    BY <1>10 DEF ItemOf
  <2>2. item.rel = r.rel /\ item.kind = "PROMOTE" /\ Beside(item) = R!NoCanary
    BY <1>1, <2>1, BareFields, BareBeside DEF Kinds
  <2>3. R!Promote(i, r.rel)
    BY <1>4, <1>5, <1>6, <1>10, <2>2 DEF R!Promote, GatedOps, AbortSet
  <2>4. QED
    BY <1>4, <1>9, <1>10, <2>3, RolloutActions DEF GatedOps
<1>11. CASE r.op = "startCanary"
  <2>1. item = Canary(r.seen.rel, "CANARY_START", r.rel, r.percent, r.seen.ver + 1)
    BY <1>11 DEF ItemOf, MintedSalt
  <2>2. PICK salt \in Nat : salt = r.seen.ver + 1
    BY <1>3
  <2>3. /\ item.rel = r.seen.rel /\ item.kind = "CANARY_START"
        /\ Beside(item) = [release |-> r.rel, share |-> r.percent, salt |-> salt]
    <3>1. "CANARY_START" \in Kinds
      BY DEF Kinds
    <3>2. item = Canary(r.seen.rel, "CANARY_START", r.rel, r.percent, salt)
      BY <2>1, <2>2
    <3>3. /\ r.seen.rel \in Releases \cup {None} /\ r.rel \in Releases \cup {None}
          /\ r.percent \in Percents \cup {0}
      BY <1>1, <1>3
    <3>4. PICK b \in Pointer : /\ b = Bare(r.seen.rel, "CANARY_START")
                               /\ b.rel = r.seen.rel /\ b.kind = "CANARY_START"
      BY <3>1, <3>3, BareFields
    <3>5. item = [b EXCEPT !.cand = r.rel, !.percent = r.percent, !.salt = salt]
      BY <3>2, <3>4 DEF Canary
    <3>6. QED
      BY <3>4, <3>5 DEF Pointer, Beside
  <2>4. r.seen.ver # 0 /\ r.seen.cand = None
    BY <1>11 DEF Established
  <2>5. R!Start(i, r.rel, r.percent)
    <3>1. MoveCount[i] > 0 /\ ~R!HasCanary(i) /\ R!Climbs(i, r.rel) /\ UNCHANGED AbortSet
      BY <1>3, <1>4, <1>6, <1>7, <1>8, <1>11, <2>3, <2>4 DEF GatedOps
    <3>2. /\ Stable' = [Stable EXCEPT ![i] = Stable[i]]
          /\ ServedSets' = [ServedSets EXCEPT ![i] = @ \cup {Stable[i]}]
          /\ Canaries' = [Canaries EXCEPT ![i] =
                            [release |-> r.rel, share |-> r.percent, salt |-> MoveCount[i] + 1]]
      BY <1>2, <1>8, <2>2, <2>3 DEF MoveMaps
    <3>3. QED
      BY <3>1, <3>2 DEF R!Start, R!Serve, AbortSet, Stable, Canaries, ServedSets, MoveCount
  <2>6. QED
    BY <1>1, <1>4, <1>9, <1>11, <2>5, RolloutActions DEF GatedOps
<1>12. CASE r.op = "reweightCanary"
  <2>1. item = Canary(r.seen.rel, "CANARY_REWEIGHT", r.seen.cand, r.percent, r.seen.salt)
    BY <1>12 DEF ItemOf, KeptSalt
  <2>2. /\ item.rel = r.seen.rel /\ item.kind = "CANARY_REWEIGHT"
        /\ Beside(item) = [release |-> r.seen.cand, share |-> r.percent, salt |-> r.seen.salt]
    <3>1. "CANARY_REWEIGHT" \in Kinds
      BY DEF Kinds
    <3>2. /\ r.seen.rel \in Releases \cup {None} /\ r.seen.cand \in Releases \cup {None}
          /\ r.percent \in Percents \cup {0} /\ r.seen.salt \in Nat
      BY <1>1, <1>3
    <3>3. PICK b \in Pointer : /\ b = Bare(r.seen.rel, "CANARY_REWEIGHT")
                               /\ b.rel = r.seen.rel /\ b.kind = "CANARY_REWEIGHT"
      BY <3>1, <3>2, BareFields
    <3>4. item = [b EXCEPT !.cand = r.seen.cand, !.percent = r.percent, !.salt = r.seen.salt]
      BY <2>1, <3>3 DEF Canary
    <3>5. QED
      BY <3>3, <3>4 DEF Pointer, Beside
  <2>3. Beside(item) = [Canaries[i] EXCEPT !.share = r.percent]
    BY <1>8, <2>2 DEF Beside
  <2>4. r.seen.cand # None
    BY <1>12 DEF Established
  <2>5. R!Reweight(i, r.percent)
    <3>1. R!HasCanary(i) /\ UNCHANGED AbortSet
      BY <1>6, <1>7, <2>2, <2>4
    <3>2. /\ Stable' = [Stable EXCEPT ![i] = Stable[i]]
          /\ ServedSets' = [ServedSets EXCEPT ![i] = @ \cup {Stable[i]}]
          /\ Canaries' = [Canaries EXCEPT ![i] = [Canaries[i] EXCEPT !.share = r.percent]]
      BY <1>2, <1>8, <2>2, <2>3 DEF MoveMaps
    <3>3. QED
      BY <3>1, <3>2 DEF R!Reweight, R!Serve, AbortSet, Stable, Canaries, ServedSets
  <2>6. QED
    BY <1>1, <1>9, <2>5, RolloutActions
<1>13. CASE r.op = "promoteCanary"
  <2>1. item = Bare(r.rel, "CANARY_PROMOTE")
    BY <1>13 DEF ItemOf
  <2>2. item.rel = r.rel /\ item.kind = "CANARY_PROMOTE" /\ Beside(item) = R!NoCanary
    BY <1>1, <2>1, BareFields, BareBeside DEF Kinds
  <2>3. r.seen.cand # None /\ r.rel = r.seen.cand
    BY <1>13 DEF Established
  <2>4. Canaries[i].release = r.rel
    BY <1>8, <2>3 DEF Beside
  <2>5. R!CutOver(i)
    BY <1>5, <1>6, <1>7, <2>2, <2>3, <2>4 DEF R!CutOver, AbortSet, Canaries
  <2>6. QED
    BY <1>9, <2>5, RolloutActions
<1>14. CASE r.op = "abortCanary"
  <2>1. item = Bare(r.seen.rel, "CANARY_ABORT")
    BY <1>14 DEF ItemOf
  <2>2. item.rel = r.seen.rel /\ item.kind = "CANARY_ABORT" /\ Beside(item) = R!NoCanary
    BY <1>3, <2>1, BareFields, BareBeside DEF Kinds
  <2>3. r.seen.cand # None
    BY <1>14 DEF Established
  <2>4. R!Abort(i)
    BY <1>5, <1>6, <1>7, <1>8, <2>2, <2>3 DEF R!Abort, AbortSet, Stable
  <2>5. QED
    BY <1>9, <2>4, RolloutActions
<1>15. QED
  BY <1>1, <1>10, <1>11, <1>12, <1>13, <1>14 DEF Ops, CanaryOps

LEMMA WriteImplements ==
    ASSUME IInv, NEW c \in Clients, writePointer(c)
    PROVE  R!Next \/ UNCHANGED R!vars
<1> DEFINE r == req[c]
<1>1. r \in Request /\ r.pc = "write" /\ Established(r, hist) /\ rollbacks' = rollbacks
  BY DEF IInv, TypeOK, RequestOK, writePointer, At
<1>2. r.rung \in Rungs /\ ItemOf(r) \in Pointer
  BY <1>1, ItemFits DEF Established, Fits
<1>3. CASE UNCHANGED <<ptr, hist>>
  BY <1>1, <1>2, <1>3, RolloutActions
<1>4. CASE setEnvironmentReleasePointer(r.rung, r.seen, ItemOf(r))
  <2>1. PICK s \in Request, i \in Rungs, item \in Pointer : s = r /\ i = s.rung /\ item = ItemOf(s)
    BY <1>1, <1>2
  <2>2. Established(s, hist) /\ setEnvironmentReleasePointer(i, s.seen, item)
    BY <1>1, <1>4, <2>1
  <2>3. R!Move(i)
    BY <1>1, <2>1, <2>2, MutationImplements
  <2>4. QED
    BY <2>3 DEF R!Next
<1>5. QED
  BY <1>3, <1>4 DEF writePointer

\* The evaluator's abort, and the finding that reports it.
LEMMA AbortImplements ==
    ASSUME IInv, NEW x \in Evaluators, performAutoAbortCanary(x)
    PROVE  R!Next \/ UNCHANGED R!vars
<1>1. eval[x] \in Evaluation /\ eval[x].pc = "abort" /\ EvaluationOK(eval[x], hist)
  BY DEF IInv, TypeOK, performAutoAbortCanary
<1>2. /\ eval[x].rung \in Rungs /\ eval[x].seen \in Pointer
      /\ Snapshot(hist[eval[x].rung], eval[x].seen) /\ eval[x].seen.cand # None
  BY <1>1 DEF EvaluationOK, Evaluation
<1>3. rollbacks' = rollbacks
  BY DEF performAutoAbortCanary
<1>4. CASE UNCHANGED <<ptr, hist>>
  BY <1>2, <1>3, <1>4, RolloutActions
<1>5. CASE setEnvironmentReleasePointer(eval[x].rung, eval[x].seen, AbortItem(eval[x].seen))
  <2>1. PICK i \in Rungs, seen \in Pointer : i = eval[x].rung /\ seen = eval[x].seen
    BY <1>2
  <2>2. seen.rel \in Releases \cup {None} /\ seen.cand # None /\ Snapshot(hist[i], seen)
    BY <1>2, <2>1 DEF Pointer
  <2>3. PICK item \in Pointer : /\ item = AbortItem(seen) /\ item.rel = seen.rel
                                /\ item.kind = "AUTO_ABORT_CANARY" /\ Beside(item) = R!NoCanary
    BY <2>2, BareFields, BareBeside DEF AbortItem, Kinds
  <2>4. seen = ptr[i] /\ MoveMaps(i, item)
    BY <1>5, <2>1, <2>2, <2>3, CommitMaps
  <2>5. /\ R!HasCanary(i) /\ Stable[i] = seen.rel /\ R!Serve(i, item.rel, Beside(item))
        /\ AbortSet' = AbortSet \cup {<<i, MoveCount[i] + 1>>}
        /\ MoveCount' = [MoveCount EXCEPT ![i] = @ + 1] /\ UNCHANGED ReportedSet
    BY <1>3, <2>2, <2>3, <2>4, RolloutActions DEF MoveMaps, Stable, ReportedSet
  <2>6. R!Abort(i)
    BY <2>3, <2>5 DEF R!Abort, AbortSet, Stable, MoveCount
  <2>7. R!Move(i)
    BY <2>5, <2>6, RolloutActions
  <2>8. QED
    BY <2>7 DEF R!Next
<1>6. QED
  BY <1>4, <1>5 DEF performAutoAbortCanary

LEMMA FindingImplements ==
    ASSUME IInv, NEW x \in Evaluators, writeAutoRollbackFinding(x)
    PROVE  R!Next \/ UNCHANGED R!vars
<1>1. /\ EvaluationOK(eval[x], hist) /\ eval[x].pc = "finding" /\ UNCHANGED <<ptr, hist>>
      /\ eval[x].rung \in Rungs
  BY DEF IInv, EvaluationOK, writeAutoRollbackFinding
<1>2. CASE UNCHANGED rollbacks
  BY <1>1, <1>2, RolloutActions
<1>3. CASE rollbacks' = rollbacks \cup {<<eval[x].rung, eval[x].seen.ver>>}
  <2>1. PICK m : m = <<eval[x].rung, eval[x].seen.ver + 1>>
    OBVIOUS
  <2>2. m \in AbortSet
    <3>1. m \in Aborts(eval[x].rung, hist[eval[x].rung])
      BY <1>1, <2>1 DEF EvaluationOK, Aborts
    <3>2. QED
      BY <1>1, <3>1 DEF AbortSet
  <2>3. ReportedSet' = ReportedSet \cup {m}
    <3>1. PICK S, a, b : S = rollbacks /\ a = eval[x].rung /\ b = eval[x].seen.ver
      OBVIOUS
    <3> DEFINE F(f) == <<f[1], f[2] + 1>>
    <3>2. F(<<a, b>>) = <<a, b + 1>>
      OBVIOUS
    <3> HIDE DEF F
    <3>3. {F(f) : f \in S \cup {<<a, b>>}} = {F(f) : f \in S} \cup {<<a, b + 1>>}
      BY <3>2
    <3>4. QED
      BY <1>3, <2>1, <3>1, <3>3 DEF ReportedSet, F
  <2>4. R!Report(m)
    BY <1>1, <2>3 DEF R!Report, ReportedSet
  <2>5. QED
    BY <2>2, <2>4 DEF R!Next, AbortSet
<1>4. QED
  BY <1>2, <1>3 DEF writeAutoRollbackFinding

\* For any number of rungs, releases, clients and evaluators, and reads of any age, what the
\* mutations and the evaluator do to the pointers comes to single steps on what each
\* environment serves at that moment.
THEOREM ImplementsRolloutHolds == Spec => ImplementsRollout
<1>1. ASSUME Init PROVE R!Init
  <2>1. /\ ptr = [i \in Rungs |-> NoPointer] /\ hist = [i \in Rungs |-> <<>>] /\ rollbacks = {}
    BY <1>1 DEF Init
  <2>2. \A i \in Rungs : Served(hist[i]) = {} /\ Aborts(i, hist[i]) = {}
    BY <2>1 DEF Served, Aborts
  <2>3. QED
    BY <2>1, <2>2 DEF R!Init, R!NoCanary, Beside, NoPointer
<1>2. ASSUME IInv, [Next]_vars PROVE R!Next \/ UNCHANGED R!vars
  <2>1. CASE UNCHANGED <<ptr, hist, rollbacks>>
    BY <2>1 DEF R!vars
  <2>2. ASSUME NEW c \in Clients, ClientStep(c) PROVE R!Next \/ UNCHANGED R!vars
    <3>1. \/ writePointer(c)
          \/ UNCHANGED <<ptr, hist, rollbacks>>
      <4>1. \A op, i, input : Call(c, op, i, input) => UNCHANGED <<ptr, hist, rollbacks>>
        BY DEF Call
      <4>2. validateReleaseGate(c) \/ validatePromotionApproval(c) \/ Fail(c)
               => UNCHANGED <<ptr, hist, rollbacks>>
        BY DEF validateReleaseGate, validatePromotionApproval, Fail
      <4>3. QED
        BY <2>2, <4>1, <4>2 DEF ClientStep
    <3>2. QED
      BY <1>2, <2>1, <3>1, WriteImplements
  <2>3. ASSUME NEW x \in Evaluators, EvaluatorStep(x) PROVE R!Next \/ UNCHANGED R!vars
    <3>1. \/ performAutoAbortCanary(x) \/ writeAutoRollbackFinding(x)
          \/ UNCHANGED <<ptr, hist, rollbacks>>
      <4>1. queryActiveCanaries(x) \/ evaluateOneCanary(x) \/ Die(x)
               => UNCHANGED <<ptr, hist, rollbacks>>
        BY DEF queryActiveCanaries, evaluateOneCanary, Die
      <4>2. QED
        BY <2>3, <4>1 DEF EvaluatorStep
    <3>2. QED
      BY <1>2, <2>1, <3>1, AbortImplements, FindingImplements
  <2>4. CASE \/ \E config \in Configs : setPromotionPolicy(config)
             \/ \E sources \in RollbackConfigs : AuthorRollback(sources)
             \/ UNCHANGED vars
    BY <2>1, <2>4 DEF setPromotionPolicy, AuthorRollback, vars
  <2>5. QED
    BY <1>2, <2>2, <2>3, <2>4 DEF Next
<1>3. IInv /\ [Next]_vars => [R!Next]_(R!vars)
  BY <1>2
<1>4. QED
  BY <1>1, <1>3, Inductive, PTL DEF Spec, ImplementsRollout, R!Spec
=============================================================================
