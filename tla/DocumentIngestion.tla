------------------------- MODULE DocumentIngestion -------------------------
(***************************************************************************)
(* What the ingestion queue promises about a document, with no rows, claims*)
(* or leases: each accepted upload, retry or remediation opens exactly one *)
(* round of ingestion, a round ends at most once, and only a settled       *)
(* document can be requeued.  IngestionJobs implements it.                 *)
(***************************************************************************)
EXTENDS Naturals

CONSTANT Doc

VARIABLES
    phase,      \* where the document is
    rounds      \* rounds of ingestion opened for it so far

vars == <<phase, rounds>>

Phases == {"absent", "stranded", "waiting", "running", "completed", "failed", "deleted"}

Init ==
    /\ phase \in [Doc -> {"absent", "stranded"}]
    /\ rounds = [d \in Doc |-> 0]

\* Every document of S moves to phase p.
Move(S, p) == phase' = [d \in Doc |-> IF d \in S THEN p ELSE phase[d]]
In(S, P) == S # {} /\ \A d \in S : phase[d] \in P

Open(d) ==
    /\ phase[d] \in {"absent", "completed", "failed"}
    /\ Move({d}, "waiting")
    /\ rounds' = [rounds EXCEPT ![d] = @ + 1]

\* Start, or start again after the worker was lost.
Start(S) == In(S, {"waiting", "running"}) /\ Move(S, "running") /\ UNCHANGED rounds
Retry(d) == In({d}, {"running"}) /\ Move({d}, "waiting") /\ UNCHANGED rounds
Succeed(d) == In({d}, {"running"}) /\ Move({d}, "completed") /\ UNCHANGED rounds
Fail(d) == In({d}, {"running"}) /\ Move({d}, "failed") /\ UNCHANGED rounds
Abandon(S) == In(S, {"stranded"}) /\ Move(S, "failed") /\ UNCHANGED rounds
Delete(d) ==
    /\ In({d}, Phases \ {"absent", "deleted"})
    /\ Move({d}, "deleted")
    /\ UNCHANGED rounds

Next ==
    \/ \E d \in Doc : Open(d) \/ Retry(d) \/ Succeed(d) \/ Fail(d) \/ Delete(d)
    \/ \E S \in SUBSET Doc : Start(S) \/ Abandon(S)

Spec == Init /\ [][Next]_vars
=============================================================================
