------------------------------ MODULE Rollout -------------------------------
(***************************************************************************)
(* What promotion promises of the releases of one agent, whoever races and *)
(* however old what they have read: every move takes one environment, in a *)
(* single step, from what it serves now to what the move makes of it.  It  *)
(* says nothing of reads, versions to compare, requests, gates or runs.    *)
(***************************************************************************)
EXTENDS Naturals

CONSTANTS Rungs,     \* the environments, numbered from the lowest
          Releases,  \* the releases of the agent
          Shares,    \* the shares of traffic a canary may have
          None       \* no release

VARIABLES stable,    \* per rung, the release it serves
          canary,    \* per rung, the canary beside it
          moves,     \* per rung, how often it has moved
          served,    \* per rung, the releases it has served so far
          aborts,    \* the moves that were automatic aborts
          reported   \* those of them that have been reported

vars == <<stable, canary, moves, served, aborts, reported>>

NoCanary == [release |-> None, share |-> 0, salt |-> 0]

Init ==
  /\ stable = [i \in Rungs |-> None]
  /\ canary = [i \in Rungs |-> NoCanary]
  /\ moves = [i \in Rungs |-> 0]
  /\ served = [i \in Rungs |-> {}]
  /\ aborts = {} /\ reported = {}

\* What is above the lowest environment has been served by the one below.
Climbs(i, r) == i = 1 \/ r \in served[i - 1]
HasCanary(i) == canary[i].release # None

Serve(i, release, beside) ==
  /\ stable' = [stable EXCEPT ![i] = release]
  /\ canary' = [canary EXCEPT ![i] = beside]
  /\ served' = [served EXCEPT ![i] = @ \cup {release}]

Promote(i, r) == Climbs(i, r) /\ Serve(i, r, NoCanary) /\ UNCHANGED aborts

\* Beside a stable release, one at a time, and with a salt of its own.
Start(i, r, share) ==
  /\ moves[i] > 0 /\ ~HasCanary(i)
  /\ Climbs(i, r)
  /\ Serve(i, stable[i], [release |-> r, share |-> share, salt |-> moves[i] + 1])
  /\ UNCHANGED aborts

Reweight(i, share) ==
  /\ HasCanary(i)
  /\ Serve(i, stable[i], [canary[i] EXCEPT !.share = share])
  /\ UNCHANGED aborts

CutOver(i) == HasCanary(i) /\ Serve(i, canary[i].release, NoCanary) /\ UNCHANGED aborts

\* By a caller or automatically: what is stable stays.
Abort(i) ==
  /\ HasCanary(i)
  /\ Serve(i, stable[i], NoCanary)
  /\ UNCHANGED aborts \/ aborts' = aborts \cup {<<i, moves[i] + 1>>}

Move(i) ==
  /\ moves' = [moves EXCEPT ![i] = @ + 1]
  /\ \/ \E r \in Releases : Promote(i, r) \/ \E share \in Shares : Start(i, r, share)
     \/ \E share \in Shares : Reweight(i, share)
     \/ CutOver(i) \/ Abort(i)
  /\ UNCHANGED reported

\* Only what has happened is reported.
Report(m) ==
  /\ reported' = reported \cup {m}
  /\ UNCHANGED <<stable, canary, moves, served, aborts>>

Next == (\E i \in Rungs : Move(i)) \/ (\E m \in aborts : Report(m))

Spec == Init /\ [][Next]_vars
=============================================================================
