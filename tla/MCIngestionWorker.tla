------------------------- MODULE MCIngestionWorker -------------------------
(* IngestionWorker on small instances.                                      *)
EXTENDS IngestionWorker, TLC

CONSTANTS d1, d2, w1, w2

MCOneDoc == {d1}
MCTwoDocs == {d1, d2}
MCOneWorker == {w1}
MCTwoWorkers == {w1, w2}
AllStages == {"PARSING", "EMBEDDING", "GRAPH_EXTRACTION", "SAVING", "INDEXING"}
=============================================================================
