------------------------------ MODULE MCChat ------------------------------
(* A small instance of Chat: three requests to one session, one of them    *)
(* from another user.                                                      *)
EXTENDS ChatRefinement, TLC

CONSTANTS r1, r2, r3, s1, ann, bob

MCCaller == r1 :> ann @@ r2 :> ann @@ r3 :> bob
MCChat3 == r1 :> s1 @@ r2 :> s1 @@ r3 :> s1
=============================================================================
