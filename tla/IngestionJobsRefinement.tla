---------------------- MODULE IngestionJobsRefinement ----------------------
(***************************************************************************)
(* IngestionJobs implements DocumentIngestion: the mapping reads a         *)
(* document's phase off both tables and counts its job rows.               *)
(***************************************************************************)
EXTENDS IngestionJobs

HasJob(d, status) == \E n \in 1..MaxRounds : job[<<d, n>>].status = status

PhaseOf(d) ==
    CASE doc[d].status = "absent"       -> "absent"
      [] doc[d].status = "deleted"      -> "deleted"
      [] doc[d].status = "COMPLETED"    -> "completed"
      [] doc[d].status = "FAILED"       -> "failed"
      [] HasJob(d, "QUEUED")            -> "waiting"
      [] HasJob(d, "PROCESSING")        -> "running"
      [] OTHER                          -> "stranded"

RowsOf(d) == {n \in 1..MaxRounds : job[<<d, n>>].status # "absent"}

Abstract == INSTANCE DocumentIngestion
    WITH phase <- [d \in Doc |-> PhaseOf(d)],
         rounds <- [d \in Doc |-> Cardinality(RowsOf(d))]

\* Every step of the queue is a step of the promised document life cycle or
\* leaves it unchanged: exactly one round per accepted upload or retry, one
\* outcome per round, no outcome for a document that is not being processed.
ImplementsDocumentIngestion == Abstract!Spec
=============================================================================
