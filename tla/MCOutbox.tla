------------------------------ MODULE MCOutbox ------------------------------
(* Outbox on small instances.                                               *)
EXTENDS OutboxRefinement, TLC

CONSTANTS e1, e2, p1, p2

MCEvents == {e1, e2}
MCProcessors == {p1, p2}
MCPoison == {e2}
MCOneEvent == {e1}
NoPoison == {}
=============================================================================
