--------------------------- MODULE MCMemberRoles ---------------------------
(* Small instances of MemberRoles for TLC, without symmetry (RowsSettle is *)
(* a liveness property).                                                   *)
EXTENDS MemberRoles, TLC
=============================================================================
