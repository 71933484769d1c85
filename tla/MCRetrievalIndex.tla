-------------------------- MODULE MCRetrievalIndex --------------------------
(* RetrievalIndex on a small instance.                                      *)
EXTENDS RetrievalIndex, TLC

CONSTANTS d1, r1

MCOneDoc == {d1}
MCRequest == {r1}
MCIndex == {0, 1}
=============================================================================
