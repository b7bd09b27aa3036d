---------------------------- MODULE ReleaseGate ----------------------------
(***************************************************************************)
(* The pure functions that decide whether a release may be promoted, and   *)
(* whether a canary must be rolled back: the field-level merge of a policy *)
(* row, the comparison of two rungs of the ladder, the gate verdict over   *)
(* evaluation evidence, and the rollback rule over a canary's metrics.     *)
(* Rates are whole percents and every other measure an integer.            *)
(***************************************************************************)
EXTENDS Integers, FiniteSets, FiniteSetsExt

CONSTANT None  \* what is absent: a threshold not set, a metric not measured, no release

ASSUME NoneAssumption == None \notin Int

---------------------------------------------------------------------------
(* Policies *)

RateFields == {"taskSuccessMin", "policyComplianceMin"}
RisingFloorFields == {"taskSuccessMin", "policyComplianceMin", "minSampleCount"}
TighteningCeilingFields ==
    {"latencyP95TargetMs", "avgCostBudgetUsd", "maxEvidenceAgeDays", "canaryMaxBasisPoints"}

PromotionPolicy ==
    [taskSuccessMin : Int, policyComplianceMin : Int, minSampleCount : Int,
     latencyP95TargetMs : Int, avgCostBudgetUsd : Int, maxEvidenceAgeDays : Int,
     canaryMaxBasisPoints : Int, requiredGateClasses : SUBSET STRING,
     allowNoBaselineOnAbsoluteFloors : BOOLEAN]

DefaultPromotionPolicy ==
    [taskSuccessMin |-> 90, policyComplianceMin |-> 100, minSampleCount |-> 5,
     latencyP95TargetMs |-> 5000, avgCostBudgetUsd |-> 1, maxEvidenceAgeDays |-> 7,
     canaryMaxBasisPoints |-> 2500, requiredGateClasses |-> {},
     allowNoBaselineOnAbsoluteFloors |-> FALSE]

\* A source of the merge that has the type of a policy in the fields it supplies.
IsOverride(source) ==
    \A f \in DOMAIN source :
        CASE f = "requiredGateClasses" -> source[f] \subseteq STRING
          [] f = "allowNoBaselineOnAbsoluteFloors" -> source[f] \in BOOLEAN
          [] OTHER -> source[f] \in Int

\* The sanity floor of a field; a value below it counts as absent from its source.
SanePromotionField(field, value) ==
    CASE field \in RateFields -> value \in 0..100
      [] field = "canaryMaxBasisPoints" -> value \in 0..10000
      [] field \in {"requiredGateClasses", "allowNoBaselineOnAbsoluteFloors"} -> TRUE
      [] OTHER -> value >= 0

DefaultRollbackPolicy ==
    [enabled |-> FALSE, costPerInvocation |-> None, modelCallLatencyP95 |-> None,
     errorRate |-> None, policyViolationFindingRate |-> None, driftScore |-> None,
     minSampleCount |-> 20]

SaneRollbackField(field, value) ==
    CASE value = None -> TRUE
      [] field \in {"errorRate", "policyViolationFindingRate", "driftScore"} -> value \in 0..100
      [] field = "enabled" -> TRUE
      [] OTHER -> value >= 0

\* Later sources win, field by field; a source is a function whose domain is the
\* set of fields it supplies.
mergeFields(default, sources, Sane(_, _)) ==
    [field \in DOMAIN default |->
        LET supplied == {i \in DOMAIN sources : /\ field \in DOMAIN sources[i]
                                                /\ Sane(field, sources[i][field])}
        IN IF supplied = {} THEN default[field] ELSE sources[Max(supplied)][field]]

mergePolicyFields(sources) == mergeFields(DefaultPromotionPolicy, sources, SanePromotionField)
mergeRollbackFields(sources) == mergeFields(DefaultRollbackPolicy, sources, SaneRollbackField)

\* Mutant: the comparison forgets the number of samples.
SampleCountForgotten(higher, lower) ==
    /\ \A f \in RateFields : higher[f] >= lower[f]
    /\ \A f \in TighteningCeilingFields : higher[f] <= lower[f]
    /\ lower.requiredGateClasses \subseteq higher.requiredGateClasses
    /\ higher.allowNoBaselineOnAbsoluteFloors => lower.allowNoBaselineOnAbsoluteFloors

\* Whether the policy of the higher rung is at least as strict as that of the lower.
comparePolicyStrictness(higher, lower) ==
    /\ \A f \in RisingFloorFields : higher[f] >= lower[f]
    /\ \A f \in TighteningCeilingFields : higher[f] <= lower[f]
    /\ lower.requiredGateClasses \subseteq higher.requiredGateClasses
    /\ higher.allowNoBaselineOnAbsoluteFloors => lower.allowNoBaselineOnAbsoluteFloors

---------------------------------------------------------------------------
(* The gate *)

Dimensions == {"task_success", "policy_compliance", "latency", "cost"}

\* What the gate reads of an evaluation run and its suite: the aggregates of the
\* dimensions that were scored, the age of the run and whether the suite moved on.
IsEvidence(evidence) ==
    /\ \A d \in DOMAIN evidence.aggregates :
          /\ evidence.aggregates[d].scoredCount \in Int
          /\ evidence.aggregates[d].measure \in Int \cup {None}
    /\ evidence.pinnedSuiteVersion \in Int /\ evidence.liveSuiteVersion \in Int
    /\ evidence.frozen \in BOOLEAN /\ evidence.gateClass \in STRING
    /\ evidence.ageDays \in Int \cup {None}

stale(evidence, policy) ==
    \/ evidence.pinnedSuiteVersion < evidence.liveSuiteVersion
    \/ ~evidence.frozen
    \/ evidence.ageDays = None
    \/ evidence.ageDays > policy.maxEvidenceAgeDays

\* A measure that misses its bound, for each gated dimension.
Breach(dimension, measure, policy) ==
    CASE dimension = "task_success" -> measure < policy.taskSuccessMin
      [] dimension = "policy_compliance" -> measure < policy.policyComplianceMin
      [] dimension = "latency" -> measure > policy.latencyP95TargetMs
      [] dimension = "cost" -> measure > policy.avgCostBudgetUsd

\* The dimensions that fail: task success must have been scored, the others are
\* only held to their bound when they were.
evaluateAbsoluteThresholds(aggregates, policy) ==
    {d \in Dimensions :
        IF d \notin DOMAIN aggregates
        THEN d = "task_success"
        ELSE \/ aggregates[d].scoredCount < policy.minSampleCount
             \/ aggregates[d].measure = None
             \/ Breach(d, aggregates[d].measure, policy)}

\* Every required class must be THE class of the one suite that was run.
evaluateRequiredPacks(evidence, policy) ==
    \A class \in policy.requiredGateClasses : evidence.gateClass = class

\* hasBaseline: the environment has a release to compare with; comparison: the
\* verdict of compareRuns against it.
evaluateReleaseGate(evidence, hasBaseline, comparison, policy) ==
    LET floorsMet == /\ evaluateAbsoluteThresholds(evidence.aggregates, policy) = {}
                     /\ evaluateRequiredPacks(evidence, policy)
    IN IF stale(evidence, policy) THEN "FAIL"
       ELSE IF hasBaseline
            THEN IF comparison = "PASS" /\ floorsMet THEN "PASS" ELSE "FAIL"
            ELSE IF policy.allowNoBaselineOnAbsoluteFloors /\ floorsMet
                 THEN "NO_BASELINE_PASS" ELSE "NO_BASELINE"

isFailStatus(status) == status \in {"FAIL", "NO_BASELINE"}

\* Mutant: a mode that blocks keeps no record.
ShadowRecordsOnly(mode) == mode = "shadow"

\* What each enforcement mode does with a verdict.
recordFinding(mode) == mode \in {"shadow", "strict"}
block(mode) == mode = "strict"

---------------------------------------------------------------------------
(* Automatic rollback of a canary *)

RollbackMetrics == {"costPerInvocation", "modelCallLatencyP95", "errorRate",
                    "policyViolationFindingRate", "driftScore"}

\* The candidate arm breaches a bound that is set, on a metric that is measured,
\* over enough samples. A value equal to its bound does not breach.
evaluateRollback(metrics, policy) ==
    /\ policy.enabled
    /\ metrics.sampleCount >= policy.minSampleCount
    /\ \E m \in RollbackMetrics :
          /\ policy[m] # None
          /\ metrics[m] # None
          /\ metrics[m] > policy[m]
=============================================================================
