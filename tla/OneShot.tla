------------------------------ MODULE OneShot -------------------------------
(***************************************************************************)
(* What the tool-execution ledger promises of the attempts at one call,    *)
(* whoever dies, lags or comes again: one of them at a time executes the   *)
(* tool, its outcome is recorded once for all, and everybody else is given *)
(* that outcome.  It says nothing of rows, replicas, leases or conditions. *)
(***************************************************************************)
EXTENDS Naturals

CONSTANTS Calls,   \* the attempts
          None     \* no result

VARIABLES executing,  \* the attempts that execute the tool
          barred,     \* those that came too late to execute it
          ended,      \* those that have been given an answer
          got,        \* the result each was given
          record,     \* the outcome on record
          owed,       \* effects that are to be recorded yet
          applied,    \* effects there have been
          forgotten   \* effects and outcomes that never were, or no longer are, on record

vars == <<executing, barred, ended, got, record, owed, applied, forgotten>>

Nothing == [status |-> "none", result |-> None]

Init ==
  /\ executing = {} /\ barred = {} /\ ended = {}
  /\ got = [c \in Calls |-> None]
  /\ record = Nothing
  /\ owed = 0 /\ applied = 0 /\ forgotten = 0

Bar(c) ==
  /\ c \notin executing \cup ended
  /\ barred' = barred \cup {c}
  /\ UNCHANGED <<executing, ended, got, record, owed, applied, forgotten>>

\* Alone, in time, and only while nothing is on record.
Start(c) ==
  /\ executing = {} /\ record = Nothing
  /\ c \notin barred \cup ended
  /\ executing' = {c}
  /\ UNCHANGED <<barred, ended, got, record, owed, applied, forgotten>>

\* The effect, once for every start.
Apply(c) ==
  /\ c \in executing /\ owed = 0
  /\ owed' = 1 /\ applied' = applied + 1
  /\ UNCHANGED <<executing, barred, ended, got, record, forgotten>>

Return(c, r) ==
  /\ c \notin ended
  /\ ended' = ended \cup {c}
  /\ got' = [got EXCEPT ![c] = r]

Stop(c) ==
  /\ c \in executing
  /\ executing' = {} /\ owed' = 0
  /\ UNCHANGED <<barred, applied>>

\* A completed call has had its effect; a failed one may have had it.
Record(c) ==
  /\ Stop(c)
  /\ \/ /\ owed = 1
        /\ record' = [status |-> "completed", result |-> c] /\ Return(c, c)
     \/ record' = [status |-> "failed", result |-> None] /\ Return(c, None)
  /\ UNCHANGED forgotten

\* Nothing is recorded: the effect, if there was one, is forgotten, although the
\* attempt itself may know of it.
Abandon(c) ==
  /\ Stop(c)
  /\ forgotten' = forgotten + owed
  /\ Return(c, None) \/ (owed = 1 /\ Return(c, c))
  /\ UNCHANGED record

\* Without executing: no result, the one on record, or one that has been forgotten.
Leave(c) ==
  /\ c \notin executing
  /\ \/ Return(c, None)
     \/ record.status = "completed" /\ Return(c, record.result)
     \/ forgotten > 0 /\ \E r \in Calls \cup {None} : Return(c, r)
  /\ UNCHANGED <<executing, barred, record, owed, applied, forgotten>>

Expire ==
  /\ executing = {} /\ record # Nothing
  /\ record' = Nothing /\ forgotten' = forgotten + 1
  /\ UNCHANGED <<executing, barred, ended, got, owed, applied>>

Next ==
  \/ \E c \in Calls : Bar(c) \/ Start(c) \/ Apply(c) \/ Record(c) \/ Abandon(c) \/ Leave(c)
  \/ Expire

Spec == Init /\ [][Next]_vars
=============================================================================
