----------------------------- MODULE MCIdentity -----------------------------
(* Identity on a small instance.                                            *)
EXTENDS Identity, TLC

CONSTANTS p1, g1, e1, k1, k2, r1, r2

MCPerson == {p1}
MCGuest == {g1}
MCEmail == {e1}
MCKey == {k1, k2}
MCRequest == {r1, r2}
=============================================================================
