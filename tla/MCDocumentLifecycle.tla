------------------------ MODULE MCDocumentLifecycle ------------------------
(* Small instances of DocumentLifecycle for TLC. *)
EXTENDS DocumentLifecycle, TLC

\* Users and requests are interchangeable.
DocumentSymmetry == Permutations(Users) \cup Permutations(Clients)
=============================================================================
