-------------------------- MODULE MCKnowledgeGraph --------------------------
(* KnowledgeGraph on a small instance.                                      *)
EXTENDS KnowledgeGraph, TLC

CONSTANTS d1, d2, n1, n2

MCDoc == {d1, d2}
MCNode == {n1, n2}
MCElement == {[kind |-> "node", name |-> n1],
              [kind |-> "edge", source |-> n1, target |-> n2]}
=============================================================================
