-------------------------- MODULE MCReleasePointer --------------------------
(***************************************************************************)
(* Two rungs, two releases, and policies that cross the bounds.            *)
(***************************************************************************)
EXTENDS ReleasePointer

TwoRungs == <<"STAGING", "PROD">>
Moves == <<2, 3>>

Scored(success, count) ==
    [aggregates |-> [d \in {"task_success"} |-> [scoredCount |-> count, measure |-> success]],
     pinnedSuiteVersion |-> 1, liveSuiteVersion |-> 1, frozen |-> TRUE,
     gateClass |-> "core", ageDays |-> 1]

\* r1 is good; r2 has too few samples for the default, or has gone stale.
EvidenceSets ==
    [r \in Releases |-> IF r = "r1" THEN {Scored(95, 5)}
                        ELSE {Scored(95, 4), [Scored(95, 5) EXCEPT !.ageDays = 8]}]
AllPairs == Releases \X Releases

Config(org, agent, prod) ==
    [policy |-> org, agent |-> agent, env |-> <<NoOverride, prod>>, rollback |-> <<>>]
Only(f, v) == [g \in {f} |-> v]

\* A lenient organisation, and an agent override that makes the upper rung the
\* weaker one, which only the gate can see.
SomeConfigs ==
    {Config([minSampleCount |-> 4, allowNoBaselineOnAbsoluteFloors |-> TRUE], NoOverride, NoOverride),
     Config(Only("allowNoBaselineOnAbsoluteFloors", TRUE), Only("minSampleCount", 6),
            [minSampleCount |-> 5, canaryMaxBasisPoints |-> 0])}
SomeRollbacks == {<<[enabled |-> TRUE, costPerInvocation |-> 10]>>}

Measured(cost, count) ==
    [costPerInvocation |-> cost, modelCallLatencyP95 |-> None, errorRate |-> None,
     policyViolationFindingRate |-> None, driftScore |-> None, sampleCount |-> count]
SomeMetrics == {Measured(11, 20), Measured(10, 20)}
=============================================================================
