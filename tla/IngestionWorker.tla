-------------------------- MODULE IngestionWorker --------------------------
(***************************************************************************)
(* The ingestion workers over the durable queue: the polling loop and      *)
(* heartbeat of bin/ingestion-worker.rs, the pipeline of processor.rs step *)
(* by step with its writes to PostgreSQL and Qdrant, and the API handlers  *)
(* that upload, retry and delete the same documents meanwhile.  The queue  *)
(* statements are the actions of IngestionJobs.                            *)
(***************************************************************************)
EXTENDS IngestionJobs

CONSTANTS
    NoClaim,        \* no job in hand
    Disturbances,   \* which may occur: "crash", "pause", "lost_write", "signal",
                    \* "delete", "rollback"
    MaxDisturbances \* bound: their number in the whole behaviour

ASSUME NoClaimAssumption == NoClaim \notin Claim
ASSUME BoundAssumption == MaxDisturbances \in Nat
ASSUME AllStagesAssumption ==
    RunningStages = {"PARSING", "EMBEDDING", "GRAPH_EXTRACTION", "SAVING", "INDEXING"}

VARIABLES
    pc,         \* the worker's next step
    cur,        \* the claim it is processing
    batch,      \* claims of its last poll it has not started
    mode,       \* "run", "draining" after one signal, "stopped"
    found,      \* whether the pipeline holds points to index
    blank,      \* documents whose text yields no chunk; fixed by their bytes
    chunks,     \* documents with rows in document_chunks
    points,     \* the upsert batches Qdrant holds of each document
    outbox,     \* qdrant_outbox row delete_by_document of each document
    uploading,  \* uploads whose OpenFGA relation is not written yet
    disturbed   \* disturbances so far

loopVars == <<pc, cur, batch, mode, found>>
storeVars == <<chunks, points, outbox>>
workerVars == <<queueVars, loopVars, storeVars, blank, uploading, disturbed>>

\* set_processing_stage calls: the stage written and the step that follows.
StageAt == [set_parsing |-> "PARSING", set_embedding |-> "EMBEDDING",
            set_graph |-> "GRAPH_EXTRACTION", set_saving |-> "SAVING",
            set_indexing |-> "INDEXING", set_indexing_again |-> "INDEXING"]
AfterUpsertFirst ==         \* mutant: the old points are deleted after the upsert
    [set_parsing |-> "parse", set_embedding |-> "embed", embed |-> "set_graph",
     set_graph |-> "extract", extract |-> "set_saving", set_saving |-> "save",
     save |-> "build_points", build_points |-> "check_document",
     check_document |-> "set_indexing", set_indexing |-> "recheck_document",
     recheck_document |-> "set_indexing_again", clear_output |-> "set_indexing_again",
     set_indexing_again |-> "upsert_first", upsert_first |-> "upsert_rest",
     upsert_rest |-> "delete_points", delete_points |-> "complete"]
After == [set_parsing |-> "parse", set_embedding |-> "embed", embed |-> "set_graph",
          set_graph |-> "extract", extract |-> "set_saving", set_saving |-> "save",
          save |-> "build_points", build_points |-> "check_document",
          check_document |-> "set_indexing", set_indexing |-> "recheck_document",
          recheck_document |-> "set_indexing_again", clear_output |-> "set_indexing_again",
          set_indexing_again |-> "delete_points", delete_points |-> "upsert_first",
          upsert_first |-> "upsert_rest", upsert_rest |-> "complete"]
WorkSteps == DOMAIN After \cup {"parse", "complete"}
FailSteps == {"fail_retryable", "fail_permanent"}

DocOf(w) == cur[w].job[1]
Goto(w, step) == pc' = [pc EXCEPT ![w] = step] /\ UNCHANGED cur
Leave(w) == pc' = [pc EXCEPT ![w] = "idle"] /\ cur' = [cur EXCEPT ![w] = NoClaim]
Batches == {"upsert_first", "upsert_rest"}
Disturb(kind) ==
    kind \in Disturbances /\ disturbed < MaxDisturbances /\ disturbed' = disturbed + 1

WInit ==
    /\ Init
    /\ pc = [w \in Worker |-> "idle"]
    /\ cur = [w \in Worker |-> NoClaim]
    /\ batch = [w \in Worker |-> {}]
    /\ mode = [w \in Worker |-> "run"]
    /\ found = [w \in Worker |-> FALSE]
    /\ blank \in SUBSET Doc
    /\ chunks = {}
    /\ points = [d \in Doc |-> {}]
    /\ outbox = [d \in Doc |-> "none"]
    /\ uploading = {}
    /\ disturbed = 0

-----------------------------------------------------------------------------
(* The polling loop. *)

Poll(w) ==
    /\ pc[w] = "idle" /\ batch[w] = {} /\ mode[w] = "run"
    /\ \E S \in SUBSET Job :
         /\ ClaimJobs(w, S)
         /\ batch' = [batch EXCEPT ![w] =
                        {[job |-> j, worker |-> w, token |-> nextToken] : j \in S}]
    /\ UNCHANGED <<pc, cur, mode, found, storeVars, blank, uploading, disturbed>>

\* The jobs of a batch run one after the other; only the one in hand is renewed.
StartJob(w) ==
    /\ pc[w] = "idle" /\ mode[w] # "stopped"
    /\ \E c \in batch[w] :
         /\ cur' = [cur EXCEPT ![w] = c]
         /\ batch' = [batch EXCEPT ![w] = @ \ {c}]
    /\ pc' = [pc EXCEPT ![w] = "set_parsing"]
    /\ UNCHANGED <<queueVars, mode, found, storeVars, blank, uploading, disturbed>>

Signal(w) ==
    /\ mode[w] = "run" /\ mode' = [mode EXCEPT ![w] = "draining"]
    /\ Disturb("signal")
    /\ UNCHANGED <<queueVars, pc, cur, batch, found, storeVars, blank, uploading>>

\* A draining worker finishes the batch it claimed and claims no other.
DrainedAfterJob(w) ==       \* mutant: stops after the job in hand
    /\ mode[w] = "draining" /\ pc[w] = "idle"
    /\ mode' = [mode EXCEPT ![w] = "stopped"]
    /\ batch' = [batch EXCEPT ![w] = {}]
    /\ UNCHANGED <<queueVars, pc, cur, found, storeVars, blank, uploading, disturbed>>
Drained(w) ==
    /\ mode[w] = "draining" /\ pc[w] = "idle" /\ batch[w] = {}
    /\ mode' = [mode EXCEPT ![w] = "stopped"]
    /\ UNCHANGED <<queueVars, pc, cur, batch, found, storeVars, blank, uploading, disturbed>>

Restart(w) ==
    /\ mode[w] = "stopped" /\ mode' = [mode EXCEPT ![w] = "run"]
    /\ UNCHANGED <<queueVars, pc, cur, batch, found, storeVars, blank, uploading, disturbed>>

\* The process is killed, or stops at once on a second signal, and comes back empty.
Crash(w) ==
    /\ mode[w] # "stopped" /\ Disturb("crash")
    /\ Leave(w)
    /\ batch' = [batch EXCEPT ![w] = {}]
    /\ mode' = [mode EXCEPT ![w] = "run"]
    /\ UNCHANGED <<queueVars, found, storeVars, blank, uploading>>

\* Every lease_secs / 3; a claim that is no longer the row's aborts the task.
Heartbeat(w) ==
    /\ pc[w] \in WorkSteps
    /\ \/ ExtendLease(cur[w]) /\ UNCHANGED <<pc, cur>>
       \/ ~Owns(cur[w]) /\ Leave(w) /\ UNCHANGED queueVars
    /\ UNCHANGED <<batch, mode, found, storeVars, blank, uploading, disturbed>>

-----------------------------------------------------------------------------
(* The pipeline.  A stage report that finds the lease gone ends the job. *)

Report(w) ==
    /\ pc[w] \in DOMAIN StageAt
    /\ \/ SetStage(cur[w], StageAt[pc[w]]) /\ Goto(w, After[pc[w]])
       \/ ~OwnsLive(cur[w]) /\ Leave(w) /\ UNCHANGED queueVars
    /\ UNCHANGED <<batch, mode, found, storeVars, blank, uploading, disturbed>>

\* Text extraction and chunking; an unreadable document fails for good.
Parse(w) ==
    /\ pc[w] = "parse"
    /\ \/ /\ Present(DocOf(w))
          /\ \/ Goto(w, IF DocOf(w) \in blank THEN "clear_output" ELSE "set_embedding")
             \/ Goto(w, "fail_permanent")
       \/ ~Present(DocOf(w)) /\ Goto(w, "fail_retryable")
    /\ found' = [found EXCEPT ![w] = FALSE]
    /\ UNCHANGED <<queueVars, batch, mode, storeVars, blank, uploading, disturbed>>

\* Embedding, graph extraction and the graph rows: nothing a property reads.
Compute(w) ==
    /\ pc[w] \in {"embed", "extract", "clear_output"}
    /\ Goto(w, After[pc[w]])
    /\ UNCHANGED <<queueVars, batch, mode, found, storeVars, blank, uploading, disturbed>>

\* One transaction, not conditioned on the lease; without the document row its
\* foreign key rejects the chunks.
SaveUncommitted(w) ==       \* mutant: the transaction is not committed
    /\ pc[w] = "save"
    /\ Goto(w, IF Present(DocOf(w)) THEN After.save ELSE "fail_retryable")
    /\ UNCHANGED <<queueVars, batch, mode, found, storeVars, blank, uploading, disturbed>>
Save(w) ==
    /\ pc[w] = "save"
    /\ IF Present(DocOf(w))
       THEN chunks' = chunks \cup {DocOf(w)} /\ Goto(w, After.save)
       ELSE UNCHANGED chunks /\ Goto(w, "fail_retryable")
    /\ UNCHANGED <<queueVars, batch, mode, found, points, outbox, blank, uploading, disturbed>>

BuildPoints(w) ==
    /\ pc[w] = "build_points"
    /\ found' = [found EXCEPT ![w] = DocOf(w) \in chunks]
    /\ Goto(w, After.build_points)
    /\ UNCHANGED <<queueVars, batch, mode, storeVars, blank, uploading, disturbed>>

\* document_still_exists: a deleted document ends the job as a success.
CheckDocument(w) ==
    /\ pc[w] \in {"check_document", "recheck_document"}
    /\ IF Present(DocOf(w)) THEN Goto(w, After[pc[w]]) ELSE Leave(w)
    /\ UNCHANGED <<queueVars, batch, mode, found, storeVars, blank, uploading, disturbed>>

DeletePoints(w) ==
    /\ pc[w] = "delete_points"
    /\ points' = [points EXCEPT ![DocOf(w)] = {}]
    /\ Goto(w, After.delete_points)
    /\ UNCHANGED <<queueVars, batch, mode, found, chunks, outbox, blank, uploading, disturbed>>

\* Points go out in batches of 256: here the first batch and the rest.
UpsertPoints(w) ==
    /\ pc[w] \in {"upsert_first", "upsert_rest"}
    /\ points' = IF found[w] THEN [points EXCEPT ![DocOf(w)] = @ \cup {pc[w]}] ELSE points
    /\ Goto(w, After[pc[w]])
    /\ UNCHANGED <<queueVars, batch, mode, found, chunks, outbox, blank, uploading, disturbed>>

CompleteJob(w) ==
    /\ pc[w] = "complete"
    /\ \/ Complete(cur[w])
       \/ ~OwnsLive(cur[w]) /\ UNCHANGED queueVars
    /\ Leave(w)
    /\ UNCHANGED <<batch, mode, found, storeVars, blank, uploading, disturbed>>

\* A provider, database or vector-store error, a timeout or a panic.  A write
\* applied although its answer was lost is that write followed by this step.
StepFails(w) ==
    /\ pc[w] \in WorkSteps
    /\ Goto(w, "fail_retryable")
    /\ UNCHANGED <<queueVars, batch, mode, found, storeVars, blank, uploading, disturbed>>

\* finish_job_failure after the task ended; a failed write leaves the row as it is.
RecordFailure(w) ==
    /\ pc[w] \in FailSteps
    /\ \/ FinishFailure(cur[w], pc[w] = "fail_retryable") /\ UNCHANGED disturbed
       \/ ~OwnsLive(cur[w]) /\ UNCHANGED <<queueVars, disturbed>>
       \/ Disturb("lost_write") /\ UNCHANGED queueVars
    /\ Leave(w)
    /\ UNCHANGED <<batch, mode, found, storeVars, blank, uploading>>

-----------------------------------------------------------------------------
(* The API and the outbox. *)

\* The document and its job commit together; then the OpenFGA relation is written.
UploadDocument(d) ==
    /\ Upload(d)
    /\ uploading' = uploading \cup {d}
    /\ UNCHANGED <<loopVars, storeVars, blank, disturbed>>

UploadDone(d) ==
    /\ d \in uploading /\ uploading' = uploading \ {d}
    /\ UNCHANGED <<queueVars, loopVars, storeVars, blank, disturbed>>

\* The relation could not be written: the row is deleted again, with no outbox row.
\* (Where the row is gone already this is UploadDone.)
UploadRolledBack(d) ==
    /\ d \in uploading /\ uploading' = uploading \ {d}
    /\ DeleteDocument(d) /\ Disturb("rollback")
    /\ chunks' = chunks \ {d}
    /\ UNCHANGED <<loopVars, points, outbox, blank>>

\* POST retry and the OCR remediation.
RequeueDocument(d) ==
    /\ \E eligible \in {FailedOnly, FailedOrCompleted} : Requeue(d, eligible)
    /\ UNCHANGED <<loopVars, storeVars, blank, uploading, disturbed>>

\* delete_document: rows, chunks (cascade) and outbox row in one transaction.
DeleteRequest(d) ==
    /\ DeleteDocument(d) /\ Disturb("delete")
    /\ chunks' = chunks \ {d}
    /\ outbox' = [outbox EXCEPT ![d] = "pending"]
    /\ UNCHANGED <<loopVars, points, blank, uploading>>

\* The request's own best-effort delete, which leaves the row alone, or the outbox
\* processor, which marks it unless it is stopped before.  Either may come late.
QdrantDelete(d) ==
    /\ outbox[d] # "none"
    /\ points' = [points EXCEPT ![d] = {}]
    /\ outbox' \in {outbox, [outbox EXCEPT ![d] = "processed"]}
    /\ UNCHANGED <<queueVars, loopVars, chunks, blank, uploading, disturbed>>

RecoverStale ==
    /\ RecoverLegacy
    /\ UNCHANGED <<loopVars, storeVars, blank, uploading, disturbed>>

-----------------------------------------------------------------------------
(* Time.  Only a job in a worker's hand, or about to be taken up, is renewed. *)

Renewed(j) == \E w \in Worker :
    LET c == [job |-> j, worker |-> job[j].by, token |-> job[j].token]
    IN  cur[w] = c \/ (pc[w] = "idle" /\ mode[w] # "stopped" /\ c \in batch[w])

LapseAbandoned(j) ==
    /\ ~Renewed(j) /\ LeaseLapses(j)
    /\ UNCHANGED <<loopVars, storeVars, blank, uploading, disturbed>>

\* The worker is alive but its heartbeats do not arrive for a whole lease.
LapsePaused(j) ==
    /\ Renewed(j) /\ LeaseLapses(j) /\ Disturb("pause")
    /\ UNCHANGED <<loopVars, storeVars, blank, uploading>>

Backoff(j) ==
    /\ BackoffElapses(j)
    /\ UNCHANGED <<loopVars, storeVars, blank, uploading, disturbed>>

-----------------------------------------------------------------------------
Progress(w) ==
    \/ Poll(w) \/ StartJob(w) \/ Drained(w)
    \/ Report(w) \/ Parse(w) \/ Compute(w) \/ Save(w) \/ BuildPoints(w)
    \/ CheckDocument(w) \/ DeletePoints(w) \/ UpsertPoints(w) \/ CompleteJob(w)
    \/ RecordFailure(w)

ApiStep(d) ==
    \/ UploadDocument(d) \/ UploadDone(d) \/ UploadRolledBack(d)
    \/ RequeueDocument(d) \/ DeleteRequest(d) \/ QdrantDelete(d)

WNext ==
    \/ \E w \in Worker : Progress(w) \/ Heartbeat(w) \/ StepFails(w)
                         \/ Signal(w) \/ Restart(w) \/ Crash(w)
    \/ \E d \in Doc : ApiStep(d)
    \/ \E j \in Job : LapseAbandoned(j) \/ LapsePaused(j) \/ Backoff(j)
    \/ RecoverStale

WSpec == WInit /\ [][WNext]_workerVars

\* The runtime polls each task, the orchestrator restarts a stopped worker, and
\* the database clock advances.
Fairness ==
    /\ \A w \in Worker : WF_workerVars(Progress(w)) /\ WF_workerVars(Restart(w))
    /\ \A j \in Job : WF_workerVars(LapseAbandoned(j)) /\ WF_workerVars(Backoff(j))

FairWSpec == WSpec /\ Fairness

-----------------------------------------------------------------------------
\* Types of the worker's variables; the queue's are those of IngestionJobs.  A
\* worker has a job in hand exactly while its pipeline is under way.
WorkerTypeOK ==
    /\ TypeOK
    /\ \A w \in Worker : pc[w] = "idle" <=> cur[w] = NoClaim
    /\ pc \in [Worker -> {"idle"} \cup WorkSteps \cup FailSteps]
    /\ cur \in [Worker -> claims \cup {NoClaim}]
    /\ batch \in [Worker -> SUBSET claims]
    /\ mode \in [Worker -> {"run", "draining", "stopped"}]
    /\ found \in [Worker -> BOOLEAN]
    /\ chunks \cup blank \cup uploading \subseteq Doc
    /\ points \in [Doc -> SUBSET Batches]
    /\ outbox \in [Doc -> {"none", "pending", "processed"}]
    /\ disturbed \in 0..MaxDisturbances

\* COMPLETED is never shown for a document whose text is not in document_chunks,
\* whatever crashes, pauses or lost answers befell its workers.
CompletedHasChunks ==
    \A d \in Doc \ blank : doc[d].status = "COMPLETED" => d \in chunks

\* A COMPLETED document has all its points in Qdrant, so chat can find it
\* (integration guide, section 4.2).  It needs that no worker outlives its lease:
\* the delete before the upsert is not fenced by the claim token.
SearchableWhenCompleted ==
    \A d \in Doc \ blank : doc[d].status = "COMPLETED" => points[d] = Batches

\* A worker that drained and stopped after one signal holds no lease: nothing it
\* claimed has to wait for a lease to run out.  It presupposes that no worker of
\* its name was killed or lost its last write before.
DrainedHoldsNothing ==
    \A w \in Worker, j \in Job :
        mode[w] = "stopped" =>
            ~(job[j].status = "PROCESSING" /\ job[j].live /\ job[j].by = w)

\* Every document whose job is pending is eventually completed, failed for good
\* or deleted, although workers crash, pause, drain and lose their last write.
EveryDocumentSettles ==
    \A d \in Doc : HasActiveJob(d) ~> doc[d].status # "PROCESSING"
=============================================================================
