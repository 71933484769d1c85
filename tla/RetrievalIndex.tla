--------------------------- MODULE RetrievalIndex ---------------------------
(***************************************************************************)
(* The vectors of one workspace: the rows of document_chunks in PostgreSQL *)
(* and their points in Qdrant, which no transaction ties together.  Around *)
(* them: the ingestion rounds that write both (ingestion/processor.rs),    *)
(* the chat requests that back-fill, search and load chunks                *)
(* (retrieval/mod.rs, chat/retrieval.rs), deletions and their outbox rows, *)
(* and the operator's commands: cleanup-qdrant-orphans                     *)
(* (retrieval/cleanup.rs) and the residue report (retention_report.rs).    *)
(* The queue of jobs is in IngestionJobs, the outbox protocol in Outbox.   *)
(***************************************************************************)
EXTENDS Integers, FiniteSets, Sequences

CONSTANTS
    Doc,            \* documents; an id is never used again
    Whole,          \* target of an outbox row or a clean-up: the whole workspace
    Request,        \* chat requests the API process serves at one time
    ChunkIndex,     \* bound: positions of a chunk in its document
    MaxRounds,      \* bound: ingestions of one document
    MaxCommands     \* bound: commands the operator gives

ASSUME RetrievalAssumption ==
    /\ Whole \notin Doc
    /\ ChunkIndex \subseteq Nat
    /\ MaxRounds \in Nat \ {0} /\ MaxCommands \in Nat

VARIABLES
    row,        \* documents.status; "none" before the upload, then "gone", or
                \* "undone" when the upload itself was rolled back
    round,      \* the ingestion round the document is in, or came out of
    chunks,     \* document_chunks
    points,     \* the collection in Qdrant
    work,       \* the worker's step on each document, and the points it holds
    blank,      \* documents whose last round found no text
    filled,     \* the workspace is in the process's backfilled_workspaces
    req,        \* chat requests
    owed,       \* qdrant_outbox row of each document and of the workspace: "none",
                \* "waiting" (PENDING or FAILED), "DEAD" or "PROCESSED"
    op,         \* the operator's command
    commands,   \* commands so far
    mistaken    \* history: documents a clean-up took for orphans, being newer
                \* than its snapshot

docVars == <<row, round, chunks, work, blank>>
vars == <<docVars, points, filled, req, owed, op, commands, mistaken>>

\* A chunk row, and the point made of it: where it stands, the round that
\* inserted the row (with doc and index: its id) and the round of its embedding.
Chunk == [doc : Doc, index : ChunkIndex, born : 1..MaxRounds, round : 1..MaxRounds]
Id(c) == <<c.doc, c.index, c.born>>
Ids(S) == {Id(c) : c \in S}
Of(S, d) == {c \in S : c.doc = d}

Stored == {"processing", "completed", "failed"}
Present(d) == row[d] \in Stored
Target == Doc \cup {Whole}
Covers(t, d) == t \in {d, Whole}
Open == {"waiting", "DEAD"}

\* The queries of run_retention_report, in order; the probe reads Qdrant.
OwedBeforeLive == <<"owed", "live", "events", "probe">>     \* mutant: read in this order
ReportReads == <<"live", "owed", "events", "probe">>

Idle == [pc |-> "idle", hold |-> {}]
NoRequest == [pc |-> "idle", allowed |-> {}, hold |-> {}]
NoCommand == [pc |-> "idle"]

TypeOK ==
    /\ row \in [Doc -> Stored \cup {"none", "gone", "undone"}]
    /\ round \in [Doc -> 0..MaxRounds]
    /\ chunks \subseteq Chunk /\ points \subseteq Chunk
    /\ work \in [Doc -> [pc : {"idle", "save", "check", "drop", "upsert", "complete"},
                         hold : SUBSET Chunk]]
    /\ blank \subseteq Doc /\ mistaken \subseteq Doc
    /\ filled \in BOOLEAN
    /\ req \in [Request -> [pc : {"idle", "load", "fill", "mark", "search", "fetch"},
                            allowed : SUBSET Doc, hold : SUBSET Chunk]]
    /\ owed \in [Target -> {"none"} \cup Open \cup {"PROCESSED"}]
    /\ op.pc \in {"idle", "scan", "apply", "report"} /\ commands \in 0..MaxCommands

\* Some documents were ingested before the collection existed: rows, no points.
Init ==
    /\ \E old \in SUBSET Doc :
         /\ row = [d \in Doc |-> IF d \in old THEN "completed" ELSE "none"]
         /\ round = [d \in Doc |-> IF d \in old THEN 1 ELSE 0]
         /\ chunks = [doc : old, index : ChunkIndex, born : {1}, round : {1}]
    /\ points = {}
    /\ work = [d \in Doc |-> Idle]
    /\ blank = {}
    /\ filled = FALSE
    /\ req = [r \in Request |-> NoRequest]
    /\ owed = [t \in Target |-> "none"]
    /\ op = NoCommand
    /\ commands = 0
    /\ mistaken = {}

\* upsert_chunk_points: a point replaces the one with its id.
Upsert(S) == points' = {p \in points : Id(p) \notin Ids(S)} \cup S
DeletePoints(t) == points' = {p \in points : ~Covers(t, p.doc)}
Unindexed == UNCHANGED points

-----------------------------------------------------------------------------
(* Ingestion.  A document has one worker at a time. *)

Goto(d, pc, hold) == work' = [work EXCEPT ![d] = [pc |-> pc, hold |-> hold]]
Beside == UNCHANGED <<filled, req, owed, op, commands, mistaken>>

\* Upload, or retry and OCR remediation of a settled document.
Begin(d) ==
    /\ row[d] \in {"none", "completed", "failed"} /\ work[d] = Idle
    /\ owed[Whole] = "none" /\ round[d] < MaxRounds
    /\ row' = [row EXCEPT ![d] = "processing"]
    /\ round' = [round EXCEPT ![d] = @ + 1]
    /\ Goto(d, "save", {})
    /\ UNCHANGED <<chunks, blank>> /\ Unindexed /\ Beside

\* bulk_upsert_document_chunks: a row keeps its id when its index stays.
Born(d, i) ==
    LET rows == {c \in Of(chunks, d) : c.index = i}
    IN  IF rows = {} THEN round[d] ELSE (CHOOSE c \in rows : TRUE).born
ChunkRows(d, n) ==
    {[doc |-> d, index |-> i, born |-> Born(d, i), round |-> round[d]] :
        i \in {i \in ChunkIndex : i < n}}

\* The save transaction: the chunks of this round, and none of an earlier one.
\* The foreign key rejects it once the document is gone.
SaveKeepsTail(d) ==         \* mutant: delete_stale_document_chunks is not called
    /\ work[d].pc = "save" /\ Present(d)
    /\ \E n \in 1..Cardinality(ChunkIndex) :
         /\ chunks' = {c \in chunks : Id(c) \notin Ids(ChunkRows(d, n))} \cup ChunkRows(d, n)
         /\ Goto(d, "check", ChunkRows(d, n))
    /\ blank' = blank \ {d}
    /\ UNCHANGED <<row, round>> /\ Unindexed /\ Beside
Save(d) ==
    /\ work[d].pc = "save" /\ Present(d)
    /\ \E n \in 1..Cardinality(ChunkIndex) :
         /\ chunks' = (chunks \ Of(chunks, d)) \cup ChunkRows(d, n)
         /\ Goto(d, "check", ChunkRows(d, n))
    /\ blank' = blank \ {d}
    /\ UNCHANGED <<row, round>> /\ Unindexed /\ Beside

\* No text: the branch clears the graph's rows and leaves document_chunks alone.
SaveNothing(d) ==
    /\ work[d].pc = "save"
    /\ Goto(d, "drop", {})
    /\ blank' = blank \cup {d}
    /\ UNCHANGED <<row, round, chunks>> /\ Unindexed /\ Beside

\* document_still_exists: a deleted document ends the job.
CheckDocument(d) ==
    /\ work[d].pc = "check"
    /\ IF Present(d) THEN Goto(d, "drop", work[d].hold) ELSE Goto(d, "idle", {})
    /\ UNCHANGED <<row, round, chunks, blank>> /\ Unindexed /\ Beside

\* index_document_outputs: the old points go, then the new ones come.
DropPoints(d) ==
    /\ work[d].pc = "drop"
    /\ DeletePoints(d)
    /\ Goto(d, "upsert", work[d].hold)
    /\ UNCHANGED <<row, round, chunks, blank>> /\ Beside

UpsertPoints(d) ==
    /\ work[d].pc = "upsert"
    /\ Upsert(work[d].hold)
    /\ Goto(d, "complete", {})
    /\ UNCHANGED <<row, round, chunks, blank>> /\ Beside

Complete(d) ==
    /\ work[d].pc = "complete"
    /\ Goto(d, "idle", {})
    /\ row' = [row EXCEPT ![d] = IF Present(d) THEN "completed" ELSE @]
    /\ UNCHANGED <<round, chunks, blank>> /\ Unindexed /\ Beside

\* Any step may fail, the upsert after some batches of 256; the job is tried
\* again from the start or the document fails.
StepFails(d) ==
    /\ work[d] # Idle
    /\ \E S \in SUBSET work[d].hold :
         /\ work[d].pc # "upsert" => S = {}
         /\ Upsert(S)
    /\ \/ Present(d) /\ Goto(d, "save", {}) /\ UNCHANGED row
       \/ Goto(d, "idle", {}) /\ row' = [row EXCEPT ![d] = IF Present(d) THEN "failed" ELSE @]
    /\ UNCHANGED <<round, chunks, blank>> /\ Beside

-----------------------------------------------------------------------------
(* Deletion, and the outbox rows it leaves. *)

Beyond(S) == chunks' = {c \in chunks : c.doc \notin S}
Quiet == UNCHANGED <<round, work, blank, filled, req, op, commands, mistaken>> /\ Unindexed

\* Row, chunks (cascade), audit event and outbox row in one transaction.
DeleteDocument(d) ==
    /\ Present(d)
    /\ row' = [row EXCEPT ![d] = "gone"]
    /\ Beyond({d})
    /\ owed' = [owed EXCEPT ![d] = "waiting"]
    /\ Quiet

\* The workspace with all its documents; an id captured before the cascade.
DeleteWorkspace ==
    /\ owed[Whole] = "none"
    /\ row' = [d \in Doc |-> IF Present(d) THEN "gone" ELSE row[d]]
    /\ Beyond(Doc)
    /\ owed' = [owed EXCEPT ![Whole] = "waiting"]
    /\ Quiet

\* The relation of an upload could not be written: no event and no outbox row.
UndoUpload(d) ==
    /\ row[d] = "processing" /\ round[d] = 1
    /\ row' = [row EXCEPT ![d] = "undone"]
    /\ Beyond({d})
    /\ UNCHANGED owed
    /\ Quiet

\* The request's own delete or the processor's: the answer, or the update of the
\* row, may be lost.  A timed-out call may still be carried out.
Deliver(t) ==
    /\ owed[t] = "waiting"
    /\ DeletePoints(t)
    /\ owed' \in {owed, [owed EXCEPT ![t] = "PROCESSED"]}
    /\ UNCHANGED <<docVars, filled, req, op, commands, mistaken>>

LastDeliveryFails(t) ==
    /\ owed[t] = "waiting"
    /\ owed' = [owed EXCEPT ![t] = "DEAD"]
    /\ UNCHANGED <<docVars, filled, req, op, commands, mistaken>> /\ Unindexed
-----------------------------------------------------------------------------
(* Chat. *)

Calm == UNCHANGED <<docVars, owed, op, commands, mistaken>>
Answering(r, change) == req' = [req EXCEPT ![r] = change]

\* The visible documents are those COMPLETED now and allowed by their ACL; the
\* cache of back-filled workspaces is read under its lock and the lock released.
Ask(r) ==
    /\ req[r].pc = "idle"
    /\ \E V \in SUBSET {d \in Doc : row[d] = "completed"} :
         Answering(r, [NoRequest EXCEPT !.pc = IF filled THEN "search" ELSE "load",
                                        !.allowed = V])
    /\ UNCHANGED filled /\ Unindexed /\ Calm

\* ensure_workspace_backfilled, for every request that found the cache empty.
LoadChunks(r) ==
    /\ req[r].pc = "load"
    /\ Answering(r, [req[r] EXCEPT !.pc = "fill", !.hold = chunks])
    /\ UNCHANGED filled /\ Unindexed /\ Calm

FillPoints(r) ==
    /\ req[r].pc = "fill"
    /\ Upsert(req[r].hold)
    /\ Answering(r, [req[r] EXCEPT !.pc = "mark", !.hold = {}])
    /\ UNCHANGED filled /\ Calm

\* A batch is refused: the request ends in an error and the cache stays as it is.
FillFailsMarked(r) ==       \* mutant: the workspace is marked before the upserts
    /\ req[r].pc = "fill"
    /\ \E S \in SUBSET req[r].hold : Upsert(S)
    /\ Answering(r, NoRequest)
    /\ filled' = TRUE
    /\ Calm
FillFails(r) ==
    /\ req[r].pc = "fill"
    /\ \E S \in SUBSET req[r].hold : Upsert(S)
    /\ Answering(r, NoRequest)
    /\ UNCHANGED filled /\ Calm

MarkFilled(r) ==
    /\ req[r].pc = "mark"
    /\ filled' = TRUE
    /\ Answering(r, [req[r] EXCEPT !.pc = "search"])
    /\ Unindexed /\ Calm

\* search_chunk_ids, with a limit no smaller than the workspace's points.
SearchPoints(r) ==
    /\ req[r].pc = "search"
    /\ Answering(r, [pc |-> "fetch", allowed |-> {},
                     hold |-> {p \in points : p.doc \in req[r].allowed}])
    /\ UNCHANGED filled /\ Unindexed /\ Calm

\* fetch_chunks_by_ids: the rows of these ids whose document is COMPLETED by now.
Shown(r) ==
    {c \in chunks : Id(c) \in Ids(req[r].hold) /\ row[c.doc] = "completed"}
FetchChunks(r) ==
    /\ req[r].pc = "fetch"
    /\ Answering(r, NoRequest)
    /\ UNCHANGED filled /\ Unindexed /\ Calm

\* The API process stops: its requests and its cache are gone.
RestartApi ==
    /\ filled' = FALSE
    /\ req' = [r \in Request |-> NoRequest]
    /\ Unindexed /\ Calm

-----------------------------------------------------------------------------
(* The operator: one command at a time. *)

WorkspaceGone == owed[Whole] # "none"

Reported == op.pc = "report" /\ op.next > Len(ReportReads)
Free == op = NoCommand /\ commands < MaxCommands
Command(change) ==
    /\ op' = change
    /\ commands' = IF op = NoCommand THEN commands + 1 ELSE commands
    /\ UNCHANGED <<docVars, filled, req>>

\* cleanup-qdrant-orphans --delete: the targets of the rows not yet processed,
OutboxTargets == {t \in Target : owed[t] \in Open}
CleanOutbox ==
    /\ Free
    /\ Command([pc |-> "apply", targets |-> OutboxTargets])
    /\ UNCHANGED <<owed, mistaken>> /\ Unindexed

\* or --workspace-id, refused without --force while the workspace is in SQL,
CleanWorkspace ==
    /\ Free /\ WorkspaceGone
    /\ Command([pc |-> "apply", targets |-> {Whole}])
    /\ UNCHANGED <<owed, mistaken>> /\ Unindexed

\* or --full-scan, which reads the rows of SQL and then every page of the collection.
CleanAll ==
    /\ Free
    /\ Command([pc |-> "scan", known |-> {d \in Doc : Present(d)}, gone |-> WorkspaceGone,
                targets |-> OutboxTargets])
    /\ UNCHANGED <<owed, mistaken>> /\ Unindexed

Orphans == {p.doc : p \in points} \ op.known
ScrollPoints ==
    /\ op.pc = "scan"
    /\ Command([pc |-> "apply",
                targets |-> op.targets \cup
                    (IF op.gone /\ points # {} THEN {Whole} ELSE Orphans)])
    /\ mistaken' = mistaken \cup {d \in Orphans \ op.known : Present(d)}
    /\ UNCHANGED owed /\ Unindexed

\* apply_targets.  A failed delete is queued again, unless that fails too.
ApplyTarget(t) ==
    /\ op.pc = "apply" /\ t \in op.targets
    /\ Command([op EXCEPT !.targets = @ \ {t}])
    /\ \/ DeletePoints(t) /\ UNCHANGED owed
       \/ owed' \in {owed, [owed EXCEPT ![t] = "waiting"]} /\ Unindexed
    /\ UNCHANGED mistaken

\* report-retention-residue: what it has read so far, one query after the other.
StartReport ==
    /\ Free
    /\ Command([pc |-> "report", next |-> 1, born |-> {}, live |-> {},
                owed |-> owed, events |-> {}, probe |-> {}])
    /\ UNCHANGED <<owed, mistaken>> /\ Unindexed

ReadNext ==
    /\ op.pc = "report" /\ op.next <= Len(ReportReads)
    /\ LET read == ReportReads[op.next]
           after == [op EXCEPT !.next = @ + 1]
       IN  Command(
             CASE read = "live"   -> [after EXCEPT !.live = {d \in Doc : Present(d)},
                                                   !.born = {d \in Doc : row[d] # "none"}]
               [] read = "owed"   -> [after EXCEPT !.owed = owed]
               [] read = "events" -> [after EXCEPT !.events = {d \in Doc : row[d] = "gone"}]
               [] read = "probe"  -> [after EXCEPT !.probe = {p.doc : p \in points}])
    /\ UNCHANGED <<owed, mistaken>> /\ Unindexed

EndCommand ==
    /\ Reported \/ (op.pc = "apply" /\ op.targets = {})
    /\ Command(NoCommand)
    /\ UNCHANGED <<owed, mistaken>> /\ Unindexed

\* The classes of the finished report.
Residue == op.probe \ op.live
OwedTo(d) == {op.owed[t] : t \in {t \in Target : Covers(t, d)}} \cap Open
Class(d) ==
    IF "waiting" \in OwedTo(d) THEN "recovery_pending"
    ELSE IF "DEAD" \in OwedTo(d) THEN "recovery_dead"
    ELSE IF d \in op.events THEN "unrecovered"
    ELSE "unexplained"

-----------------------------------------------------------------------------
Worker(d) ==
    \/ Save(d) \/ SaveNothing(d) \/ CheckDocument(d) \/ DropPoints(d)
    \/ UpsertPoints(d) \/ Complete(d) \/ StepFails(d)

Deletion ==
    \/ \E d \in Doc : DeleteDocument(d) \/ UndoUpload(d)
    \/ \E t \in Target : Deliver(t) \/ LastDeliveryFails(t)
    \/ DeleteWorkspace

Chat(r) ==
    \/ Ask(r) \/ LoadChunks(r) \/ FillPoints(r) \/ FillFails(r) \/ MarkFilled(r)
    \/ SearchPoints(r) \/ FetchChunks(r)

Operator ==
    \/ CleanOutbox \/ CleanWorkspace \/ CleanAll \/ ScrollPoints \/ EndCommand
    \/ \E t \in Target : ApplyTarget(t)
    \/ StartReport \/ ReadNext

Next ==
    \/ \E d \in Doc : Begin(d) \/ Worker(d)
    \/ \E r \in Request : Chat(r)
    \/ Deletion \/ RestartApi \/ Operator

Spec == Init /\ [][Next]_vars

-----------------------------------------------------------------------------
\* A search of ensure_workspace_backfilled's workspace reaches every chunk of
\* every COMPLETED document it may show: those of documents ingested before the
\* collection existed, those another request's failed back-fill left out, those
\* ingested again meanwhile.  Two gaps are known: a clean-up whose snapshot is
\* older than the document, and the rows a round without text leaves behind.
SearchReachesCompleted ==
    [][\A r \in Request : req[r].pc = "search" /\ req'[r].pc = "fetch" =>
         \A c \in chunks :
            /\ c.doc \in req[r].allowed \ (mistaken \cup blank)
            /\ row[c.doc] = "completed"
            => Id(c) \in Ids(req'[r].hold)]_vars

\* What chat is shown of a document is the text of its last ingestion, not that of
\* an earlier or an unfinished one, although search and load see different states
\* and a point may be older than the row (a round without text is the known gap).
AnswerFromLatestRound ==
    \A r \in Request : req[r].pc = "fetch" =>
        \A c \in Shown(r) : c.doc \in blank \/ c.round = round[c.doc]

\* The report calls the points of a deleted document unrecovered or unexplained
\* (exit code 2, an operator must act) only if the outbox row of its deletion is
\* PROCESSED: nobody will come back for them.  It reads SQL in several queries.
AlarmMeansNobodyOwes ==
    Reported =>
      \A d \in Residue \cap op.born :
        row[d] = "gone" /\ Class(d) \in {"unrecovered", "unexplained"} =>
            owed[IF owed[d] # "none" THEN d ELSE Whole] = "PROCESSED"
=============================================================================
