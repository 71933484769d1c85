--------------------------- MODULE IngestionJobs ---------------------------
(***************************************************************************)
(* The durable ingestion queue: tables documents and ingestion_jobs and    *)
(* the statements of ingestion/jobs.rs that read and write them.  Every    *)
(* action is one committed transaction.  The callers are unconstrained: a  *)
(* worker may use any claim it was ever given, at any later time and in    *)
(* any order, so what holds here holds for paused, restarted and aborted   *)
(* workers alike.                                                          *)
(***************************************************************************)
EXTENDS Integers, FiniteSets

CONSTANTS
    Doc,            \* document ids (fresh UUIDs, never reused)
    Worker,         \* worker ids (column claimed_by)
    RunningStages,  \* stages a worker reports while it runs a job
    MaxRounds,      \* bound: ingestion_jobs rows one document may ever get
    RowMax,         \* values of max_attempts that rows are inserted with
    ConfigMax,      \* INGESTION_JOB_MAX_ATTEMPTS of the running workers
    BatchSize,      \* INGESTION_JOB_BATCH_SIZE
    MaxClaims       \* bound: claim rounds of the whole behaviour

ASSUME StagesAssumption ==
    RunningStages \subseteq {"PARSING", "EMBEDDING", "GRAPH_EXTRACTION", "SAVING", "INDEXING"}
ASSUME RoundsAssumption == MaxRounds \in Nat
ASSUME RowMaxAssumption == RowMax \subseteq Nat \ {0}
ASSUME ConfigAssumption == ConfigMax \in Nat \ {0} /\ BatchSize \in Nat \ {0}
ASSUME ClaimsAssumption == MaxClaims \in Nat
ASSUME WorkerAssumption == Doc # {} /\ Worker # {}

VARIABLES
    doc,            \* documents: status and processing_stage
    job,            \* ingestion_jobs rows
    claims,         \* every ClaimedJob ever returned to a worker
    settled,        \* history: the claims whose complete/failure call was accepted
    nextToken       \* source of fresh claim tokens

queueVars == <<doc, job, claims, settled, nextToken>>

\* A document's n-th job row; a row id is never used for another document.
Job == Doc \X (1..MaxRounds)

Stages == {"QUEUED", "PARSING", "EMBEDDING", "GRAPH_EXTRACTION", "SAVING", "INDEXING",
           "DONE", "FAILED"}

\* "absent": not uploaded yet; "deleted": the row is gone for good.
DocRow == [status : {"absent", "PROCESSING", "COMPLETED", "FAILED", "deleted"},
           stage : Stages]
Present(d) == doc[d].status \in {"PROCESSING", "COMPLETED", "FAILED"}

\* due: available_at <= now.  live: lease_expires_at > now.
JobRow == [status : {"absent", "QUEUED", "PROCESSING", "SUCCEEDED", "DEAD", "gone"},
           max : Nat, attempts : Nat, due : BOOLEAN, live : BOOLEAN,
           by : Worker, token : Nat]
Claim == [job : Job, worker : Worker, token : Nat]

Active(j) == job[j].status \in {"QUEUED", "PROCESSING"}
HasActiveJob(d) == \E n \in 1..MaxRounds : Active(<<d, n>>)
AttemptLimit(j) == IF job[j].max < ConfigMax THEN job[j].max ELSE ConfigMax

-----------------------------------------------------------------------------
AnyWorker == CHOOSE w \in Worker : TRUE
NoRow == [status |-> "absent", max |-> 0, attempts |-> 0, due |-> FALSE,
          live |-> FALSE, by |-> AnyWorker, token |-> 0]

\* A document may predate the job table: PROCESSING in any stage, with no job.
Init ==
    /\ doc \in [Doc -> {[status |-> "absent", stage |-> "QUEUED"],
                        [status |-> "PROCESSING", stage |-> "EMBEDDING"]}]
    /\ job = [j \in Job |-> NoRow]
    /\ claims = {}
    /\ settled = {}
    /\ nextToken = 1

\* INSERT of the next job row of document d, available at once.
EnqueueJob(d, max) ==
    \E n \in 1..MaxRounds :
        /\ job[<<d, n>>].status = "absent"
        /\ \A m \in 1..(n - 1) : job[<<d, m>>].status # "absent"
        /\ job' = [job EXCEPT ![<<d, n>>] =
                     [NoRow EXCEPT !.status = "QUEUED", !.max = max, !.due = TRUE]]

Upload(d) ==
    /\ doc[d].status = "absent"
    /\ doc' = [doc EXCEPT ![d] = [status |-> "PROCESSING", stage |-> "QUEUED"]]
    /\ \E max \in RowMax : EnqueueJob(d, max)
    /\ UNCHANGED <<claims, settled, nextToken>>

ClaimableQueued == {j \in Job : job[j].status = "QUEUED" /\ job[j].due}  \* mutant: no expired lease
Claimable == {j \in Job : \/ job[j].status = "QUEUED" /\ job[j].due
                          \/ job[j].status = "PROCESSING" /\ ~job[j].live}

\* SKIP LOCKED lets any subset of the candidates come back.  One token stands
\* for the tokens of the batch: every use of a token also names its row.
ClaimJobs(w, S) ==
    /\ S # {} /\ S \subseteq Claimable /\ Cardinality(S) <= BatchSize
    /\ nextToken <= MaxClaims
    /\ job' = [j \in Job |->
                 IF j \in S
                 THEN [job[j] EXCEPT !.status = "PROCESSING", !.by = w, !.token = nextToken,
                                     !.live = TRUE, !.attempts = @ + 1]
                 ELSE job[j]]
    /\ claims' = claims \cup {[job |-> j, worker |-> w, token |-> nextToken] : j \in S}
    /\ nextToken' = nextToken + 1
    /\ UNCHANGED <<doc, settled>>

OwnsByWorker(c) ==          \* mutant: claim_token is not compared
    /\ job[c.job].status = "PROCESSING"
    /\ job[c.job].by = c.worker
Owns(c) ==
    /\ job[c.job].status = "PROCESSING"
    /\ job[c.job].by = c.worker
    /\ job[c.job].token = c.token
OwnsLive(c) == Owns(c) /\ job[c.job].live

\* The heartbeat does not ask that the lease it renews is still running.
ExtendLease(c) ==
    /\ Owns(c)
    /\ job' = [job EXCEPT ![c.job].live = TRUE]
    /\ UNCHANGED <<doc, claims, settled, nextToken>>

SetStage(c, stage) ==
    /\ OwnsLive(c)
    /\ doc' = [doc EXCEPT ![c.job[1]].stage = stage]
    /\ UNCHANGED <<job, claims, settled, nextToken>>

Complete(c) ==
    /\ OwnsLive(c)
    /\ job' = [job EXCEPT ![c.job].status = "SUCCEEDED", ![c.job].live = FALSE]
    /\ doc' = [doc EXCEPT ![c.job[1]] = [status |-> "COMPLETED", stage |-> "DONE"]]
    /\ settled' = settled \cup {c}
    /\ UNCHANGED <<claims, nextToken>>

\* disposition_after_failure: a permanent error or the last attempt is DEAD.
LastAttempt(j) == job[j].attempts >= AttemptLimit(j)

FailRetryableKeepsStage(c) ==   \* mutant: the document keeps the stage it failed in
    /\ OwnsLive(c) /\ ~LastAttempt(c.job)
    /\ job' = [job EXCEPT ![c.job] = [@ EXCEPT !.status = "QUEUED", !.due = FALSE,
                                               !.live = FALSE, !.by = AnyWorker, !.token = 0]]
    /\ settled' = settled \cup {c}
    /\ UNCHANGED <<doc, claims, nextToken>>
FailRetryable(c) ==
    /\ OwnsLive(c) /\ ~LastAttempt(c.job)
    /\ job' = [job EXCEPT ![c.job] = [@ EXCEPT !.status = "QUEUED", !.due = FALSE,
                                               !.live = FALSE, !.by = AnyWorker, !.token = 0]]
    /\ doc' = [doc EXCEPT ![c.job[1]] = [status |-> "PROCESSING", stage |-> "QUEUED"]]
    /\ settled' = settled \cup {c}
    /\ UNCHANGED <<claims, nextToken>>

FailDead(c, retryable) ==
    /\ OwnsLive(c) /\ (retryable => LastAttempt(c.job))
    /\ job' = [job EXCEPT ![c.job].status = "DEAD", ![c.job].live = FALSE]
    /\ doc' = [doc EXCEPT ![c.job[1]] = [status |-> "FAILED", stage |-> "FAILED"]]
    /\ settled' = settled \cup {c}
    /\ UNCHANGED <<claims, nextToken>>

FinishFailure(c, retryable) ==
    \/ retryable /\ FailRetryable(c)
    \/ FailDead(c, retryable)

FailedOnly == {"FAILED"}
FailedOrCompleted == {"FAILED", "COMPLETED"}

RequeueNoStatus(d, eligible) ==     \* mutant: only the active job is looked for
    /\ Present(d) /\ ~HasActiveJob(d)
    /\ doc' = [doc EXCEPT ![d] = [status |-> "PROCESSING", stage |-> "QUEUED"]]
    /\ \E max \in RowMax : EnqueueJob(d, max)
    /\ UNCHANGED <<claims, settled, nextToken>>
Requeue(d, eligible) ==
    /\ doc[d].status \in eligible
    /\ ~HasActiveJob(d)
    /\ doc' = [doc EXCEPT ![d] = [status |-> "PROCESSING", stage |-> "QUEUED"]]
    /\ \E max \in RowMax : EnqueueJob(d, max)
    /\ UNCHANGED <<claims, settled, nextToken>>

\* PROCESSING documents that no job will ever finish.
Stranded == {d \in Doc : doc[d].status = "PROCESSING" /\ ~HasActiveJob(d)}

RecoverLegacy ==
    /\ Stranded # {}
    /\ doc' = [d \in Doc |-> IF d \in Stranded
                             THEN [status |-> "FAILED", stage |-> "FAILED"] ELSE doc[d]]
    /\ UNCHANGED <<job, claims, settled, nextToken>>

\* DELETE FROM documents cascades to the job rows.
DeleteDocument(d) ==
    /\ Present(d)
    /\ doc' = [doc EXCEPT ![d].status = "deleted"]
    /\ job' = [j \in Job |-> IF j[1] = d /\ job[j].status # "absent"
                             THEN [job[j] EXCEPT !.status = "gone"] ELSE job[j]]
    /\ UNCHANGED <<claims, settled, nextToken>>

\* The database clock passes lease_expires_at or available_at.
LeaseLapses(j) ==
    /\ job[j].status = "PROCESSING" /\ job[j].live
    /\ job' = [job EXCEPT ![j].live = FALSE]
    /\ UNCHANGED <<doc, claims, settled, nextToken>>

BackoffElapses(j) ==
    /\ job[j].status = "QUEUED" /\ ~job[j].due
    /\ job' = [job EXCEPT ![j].due = TRUE]
    /\ UNCHANGED <<doc, claims, settled, nextToken>>

-----------------------------------------------------------------------------
DocumentStep(d) ==
    \/ Upload(d)
    \/ \E eligible \in {FailedOnly, FailedOrCompleted} : Requeue(d, eligible)
    \/ DeleteDocument(d)

ClaimStep(c) ==
    \/ ExtendLease(c)
    \/ \E stage \in RunningStages : SetStage(c, stage)
    \/ Complete(c)
    \/ \E retryable \in BOOLEAN : FinishFailure(c, retryable)

Next ==
    \/ \E d \in Doc : DocumentStep(d)
    \/ \E w \in Worker, S \in SUBSET Job : ClaimJobs(w, S)
    \/ \E c \in claims : ClaimStep(c)
    \/ RecoverLegacy
    \/ \E j \in Job : LeaseLapses(j) \/ BackoffElapses(j)

Spec == Init /\ [][Next]_queueVars

-----------------------------------------------------------------------------
\* Types of the two tables and of the claims handed out.
TypeOK ==
    /\ doc \in [Doc -> DocRow]
    /\ job \in [Job -> JobRow]
    /\ claims \in SUBSET Claim
    /\ settled \in SUBSET claims
    /\ nextToken \in Nat \ {0}

\* Never two active jobs for one document, although uploads, requeues, retries
\* and reclaims interleave: the unique index
\* ingestion_jobs_one_active_per_document_idx is never hit.
OneActiveJob ==
    \A d \in Doc : \A m, n \in 1..MaxRounds :
        Active(<<d, m>>) /\ Active(<<d, n>>) => m = n

\* An active job belongs to a document still marked PROCESSING, and a queued one
\* to a document shown as QUEUED: the two tables never disagree on whether work
\* is pending (complete_job_and_document, finish_job_failure, requeue).
ActiveJobMatchesDocument ==
    \A d \in Doc, n \in 1..MaxRounds :
        /\ Active(<<d, n>>) => doc[d].status = "PROCESSING"
        /\ job[<<d, n>>].status = "QUEUED" => doc[d].stage = "QUEUED"

\* The status/stage table of the integration guide (section 4.3): DONE only with
\* COMPLETED, FAILED only with FAILED, every other stage only with PROCESSING.
\* set_stage_for_owner writes the stage without looking at the status.
StageMatchesStatus ==
    \A d \in Doc : Present(d) =>
        /\ doc[d].stage = "DONE" <=> doc[d].status = "COMPLETED"
        /\ doc[d].stage = "FAILED" <=> doc[d].status = "FAILED"

\* Claims on row j; the last one carries the greatest token.
ClaimsOn(j) == {c \in claims : c.job = j}
LastClaimOn(j, c) == c \in ClaimsOn(j) /\ \A e \in ClaimsOn(j) : e.token <= c.token

\* A row that was claimed and is no longer PROCESSING was settled by the last
\* claim made on it, and a PROCESSING row by no settled claim: a worker whose
\* lease was reclaimed never completes, fails or requeues the job of its
\* successor (claim_token).
SettledByLastClaim ==
    \A c \in claims : LastClaimOn(c.job, c) =>
        /\ job[c.job].status \in {"SUCCEEDED", "DEAD", "QUEUED"} => c \in settled
        /\ job[c.job].status = "PROCESSING" => c \notin settled

\* A job goes back to the queue only while it has attempts left under both the
\* row's max_attempts and the worker's configuration (disposition_after_failure).
QueuedHasAttemptsLeft ==
    \A j \in Job : job[j].status = "QUEUED" => job[j].attempts < AttemptLimit(j)

\* The document's outcome is the outcome of its latest job row: COMPLETED after a
\* SUCCEEDED row, FAILED after a DEAD row or, for a legacy document, after none.
LatestRow(d, n) ==
    /\ job[<<d, n>>].status # "absent"
    /\ \A m \in (n + 1)..MaxRounds : job[<<d, m>>].status = "absent"
OutcomeMatchesLatestJob ==
    \A d \in Doc :
        /\ doc[d].status = "COMPLETED" =>
             \E n \in 1..MaxRounds : LatestRow(d, n) /\ job[<<d, n>>].status = "SUCCEEDED"
        /\ doc[d].status = "FAILED" =>
             \A n \in 1..MaxRounds : LatestRow(d, n) => job[<<d, n>>].status = "DEAD"

\* No statement strands a document: the PROCESSING documents without an active
\* job are the legacy ones of Init and only become fewer.
NoNewStranded == [][Stranded' \subseteq Stranded]_queueVars
=============================================================================
