---------------------------- MODULE OwedDeletion ----------------------------
(***************************************************************************)
(* What an outbox promises about the deletions it owes an external store,  *)
(* with no leases, batches, retry counts or processors: a deletion that    *)
(* was recorded waits until nothing is left or it is given up, nothing     *)
(* comes back, and the outcome is final.  The exception is named: an       *)
(* outcome may still be overwritten while late holds, that is while a      *)
(* processor that took the row up when it waited has outlived its lease.   *)
(* Outbox implements it.                                                   *)
(***************************************************************************)

CONSTANTS
    Event,      \* deletions
    Piece       \* points or objects of one deletion

VARIABLES
    owed,       \* "none", "waiting", "PROCESSED" or "DEAD"
    left,       \* what the external store still has
    late        \* an outdated outcome may still be written

vars == <<owed, left, late>>

Init ==
    /\ owed = [e \in Event |-> "none"]
    /\ left = [e \in Event |-> Piece]
    /\ late = [e \in Event |-> FALSE]

Become(e, outcome) == owed' = [owed EXCEPT ![e] = outcome]

Record(e) ==
    /\ owed[e] = "none"
    /\ Become(e, "waiting")
    /\ UNCHANGED <<left, late>>

\* Any part is deleted, by whomever.
Remove(e) ==
    /\ owed[e] # "none"
    /\ \E remaining \in SUBSET left[e] : left' = [left EXCEPT ![e] = remaining]
    /\ UNCHANGED <<owed, late>>

Possible(e, outcome) ==
    outcome \in {"waiting", "DEAD"} \/ (outcome = "PROCESSED" /\ left[e] = {})

Settle(e) ==
    /\ owed[e] = "waiting"
    /\ \E outcome \in {"PROCESSED", "DEAD"} : Possible(e, outcome) /\ Become(e, outcome)
    /\ UNCHANGED <<left, late>>

Outlive(e) ==
    /\ owed[e] = "waiting" /\ ~late[e]
    /\ late' = [late EXCEPT ![e] = TRUE]
    /\ UNCHANGED <<owed, left>>

\* It may have been the last one that could.
Overwrite(e) ==
    /\ late[e]
    /\ \E outcome \in {"waiting", "DEAD", "PROCESSED"} :
         Possible(e, outcome) /\ Become(e, outcome)
    /\ late' \in {late, [late EXCEPT ![e] = FALSE]}
    /\ UNCHANGED left

\* A late processor dies and forgets its rows.
Forget(S) ==
    /\ late' = [e \in Event |-> late[e] /\ e \notin S]
    /\ UNCHANGED <<owed, left>>

Next ==
    \/ \E e \in Event : Record(e) \/ Remove(e) \/ Settle(e) \/ Outlive(e) \/ Overwrite(e)
    \/ \E S \in SUBSET Event : Forget(S)

Spec == Init /\ [][Next]_vars
=============================================================================
