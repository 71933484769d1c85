-------------------------- MODULE OutboxRefinement --------------------------
(***************************************************************************)
(* Outbox implements OwedDeletion: the mapping reads the state of a        *)
(* deletion off its row, and who can still write an outdated outcome off   *)
(* the hands of the processors.                                            *)
(***************************************************************************)
EXTENDS Outbox

OwedOf(e) ==
    CASE table[e].status = "absent" -> "none"
      [] Waiting(e)                 -> "waiting"
      [] OTHER                      -> table[e].status

Holds(p, e) == \E r \in hand[p] : r.event = e

\* Somebody holds the row although its lease is over or another one holds it too.
LateOf(e) ==
    \E p \in Processor :
        /\ Holds(p, e)
        /\ \/ ~Waiting(e) \/ table[e].due
           \/ \E q \in Processor \ {p} : Holds(q, e)

Promise == INSTANCE OwedDeletion
    WITH owed <- [e \in Event |-> OwedOf(e)],
         late <- [e \in Event |-> LateOf(e)]

\* Whatever processors, crashes, lost answers and partial deletions do, a deletion
\* goes from recorded to waiting to an outcome; PROCESSED with nothing left in the
\* store; and an outcome is overwritten only by a processor that has held the row
\* since it waited and whose lease ran out.
ImplementsOwedDeletion == Promise!Spec
=============================================================================
