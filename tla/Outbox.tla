------------------------------- MODULE Outbox -------------------------------
(***************************************************************************)
(* The outboxes of point and object deletions: tables qdrant_outbox and    *)
(* storage_outbox, which share their columns, and their processors         *)
(* (retrieval/outbox.rs, storage/outbox.rs, outbox/mod.rs).  A row is      *)
(* committed with the SQL deletion it belongs to; processors lease rows in *)
(* batches, delete in the external store and record the outcome by row id. *)
(***************************************************************************)
EXTENDS Integers, FiniteSets

CONSTANTS
    Event,          \* outbox rows
    Poison,         \* rows of an unknown type or with a payload that does not parse
    Piece,          \* points or objects one row is to delete
    Processor,      \* running processors; both tables allow several
    MaxRetries,     \* *_OUTBOX_MAX_RETRIES
    BatchSize,      \* *_OUTBOX_BATCH_SIZE
    MaxCrashes,     \* bound: processors killed, or stopped by an SQL error
    MaxOverruns     \* bound: leases that run out under a processor still at work

ASSUME PoisonAssumption == Poison \subseteq Event
ASSUME RetriesAssumption == MaxRetries \in Nat \ {0}
ASSUME BatchAssumption == BatchSize \in Nat \ {0}
ASSUME BoundsAssumption == MaxCrashes \in Nat /\ MaxOverruns \in Nat

VARIABLES
    table,      \* the rows; due: next_attempt_at <= now
    left,       \* what the external store still has of each event
    hand,       \* rows a processor leased and has not recorded, with its retry_count
    seen,       \* rows it took up in this run (seen_ids)
    crashes,
    overruns

outboxVars == <<table, left, hand, seen, crashes, overruns>>

Row == [status : {"absent", "PENDING", "FAILED", "PROCESSED", "DEAD"},
        retries : Nat, due : BOOLEAN]
Held == [event : Event, retries : Nat, outcome : {"waiting", "deleted", "error", "permanent"}]
Waiting(e) == table[e].status \in {"PENDING", "FAILED"}
HeldBySome(e) == \E p \in Processor : \E r \in hand[p] : r.event = e

OutboxInit ==
    /\ table = [e \in Event |-> [status |-> "absent", retries |-> 0, due |-> FALSE]]
    /\ left = [e \in Event |-> Piece]
    /\ hand = [p \in Processor |-> {}]
    /\ seen = [p \in Processor |-> {}]
    /\ crashes = 0
    /\ overruns = 0

-----------------------------------------------------------------------------
\* In the transaction that deletes the document or workspace.
Enqueue(e) ==
    /\ table[e].status = "absent"
    /\ table' = [table EXCEPT ![e] = [status |-> "PENDING", retries |-> 0, due |-> TRUE]]
    /\ UNCHANGED <<left, hand, seen, crashes, overruns>>

\* The request's own attempt after its commit: ok, in part or not at all.
BestEffort(e) ==
    /\ table[e].status # "absent" /\ e \notin Poison
    /\ left' \in {[left EXCEPT ![e] = remaining] : remaining \in SUBSET left[e]}
    /\ UNCHANGED <<table, hand, seen, crashes, overruns>>

Claimable(p) ==
    {e \in Event : Waiting(e) /\ table[e].retries < MaxRetries /\ table[e].due /\ e \notin seen[p]}

ClaimWithoutLease(p, S) ==  \* mutant: next_attempt_at is not moved
    /\ hand[p] = {} /\ S # {} /\ S \subseteq Claimable(p) /\ Cardinality(S) <= BatchSize
    /\ hand' = [hand EXCEPT ![p] =
                  {[event |-> e, retries |-> table[e].retries, outcome |-> "waiting"] : e \in S}]
    /\ UNCHANGED <<table, left, seen, crashes, overruns>>
\* FOR UPDATE SKIP LOCKED; the lease is next_attempt_at moved into the future.
Claim(p, S) ==
    /\ hand[p] = {} /\ S # {} /\ S \subseteq Claimable(p) /\ Cardinality(S) <= BatchSize
    /\ table' = [e \in Event |-> IF e \in S THEN [table[e] EXCEPT !.due = FALSE] ELSE table[e]]
    /\ hand' = [hand EXCEPT ![p] =
                  {[event |-> e, retries |-> table[e].retries, outcome |-> "waiting"] : e \in S}]
    /\ UNCHANGED <<left, seen, crashes, overruns>>

Next1(p, r) == r \in hand[p] /\ r.outcome = "waiting"
               /\ \A s \in hand[p] : s.outcome = "waiting"

Answer(p, r, outcome) ==
    /\ hand' = [hand EXCEPT ![p] = (@ \ {r}) \cup {[r EXCEPT !.outcome = outcome]}]
    /\ seen' = [seen EXCEPT ![p] = @ \cup {r.event}]

\* The rows of a batch are processed one at a time.
DeleteSucceeds(p, r) ==
    /\ Next1(p, r) /\ r.event \notin Poison
    /\ left' = [left EXCEPT ![r.event] = {}]
    /\ Answer(p, r, "deleted")
    /\ UNCHANGED <<table, crashes, overruns>>

\* An error, a timeout or a lost answer: any part may have been deleted.
DeleteFails(p, r) ==
    /\ Next1(p, r) /\ r.event \notin Poison
    /\ left' \in {[left EXCEPT ![r.event] = remaining] : remaining \in SUBSET left[r.event]}
    /\ Answer(p, r, "error")
    /\ UNCHANGED <<table, crashes, overruns>>

Reject(p, r) ==
    /\ Next1(p, r) /\ r.event \in Poison
    /\ Answer(p, r, "permanent")
    /\ UNCHANGED <<table, left, crashes, overruns>>

MarkProcessedAnyAnswer(p, r) ==     \* mutant: an error is taken for success
    /\ r \in hand[p] /\ r.outcome \in {"deleted", "error"}
    /\ table' = [table EXCEPT ![r.event].status = "PROCESSED"]
    /\ hand' = [hand EXCEPT ![p] = @ \ {r}]
    /\ UNCHANGED <<left, seen, crashes, overruns>>
MarkProcessed(p, r) ==
    /\ r \in hand[p] /\ r.outcome = "deleted"
    /\ table' = [table EXCEPT ![r.event].status = "PROCESSED"]
    /\ hand' = [hand EXCEPT ![p] = @ \ {r}]
    /\ UNCHANGED <<left, seen, crashes, overruns>>

\* disposition_after_failure on the retry_count read when the row was leased.
LastRetry(r) == r.outcome = "permanent" \/ r.retries + 1 >= MaxRetries

MarkFailure(p, r) ==
    /\ r \in hand[p] /\ r.outcome \in {"error", "permanent"}
    /\ table' = [table EXCEPT ![r.event] =
                 IF LastRetry(r)
                 THEN [@ EXCEPT !.status = "DEAD", !.retries = r.retries + 1]
                 ELSE [status |-> "FAILED", retries |-> r.retries + 1, due |-> FALSE]]
    /\ hand' = [hand EXCEPT ![p] = @ \ {r}]
    /\ UNCHANGED <<left, seen, crashes, overruns>>

\* Nothing left to claim, or a stop signal before the next claim; a new run follows.
EndRunKeepsSeen(p) ==       \* mutant: seen_ids outlives the run
    hand[p] = {} /\ UNCHANGED outboxVars
EndRun(p) ==
    /\ hand[p] = {} /\ seen' = [seen EXCEPT ![p] = {}]
    /\ UNCHANGED <<table, left, hand, crashes, overruns>>

\* A kill, a second signal, or an SQL error, which ends the process; its leases stay.
Crash(p) ==
    /\ crashes < MaxCrashes /\ crashes' = crashes + 1
    /\ hand' = [hand EXCEPT ![p] = {}]
    /\ seen' = [seen EXCEPT ![p] = {}]
    /\ UNCHANGED <<table, left, overruns>>

\* The clock passes next_attempt_at: a backoff, or the lease of a lost processor.
BecomesDue(e) ==
    /\ Waiting(e) /\ ~table[e].due /\ ~HeldBySome(e)
    /\ table' = [table EXCEPT ![e].due = TRUE]
    /\ UNCHANGED <<left, hand, seen, crashes, overruns>>

\* The rows of a batch share one lease, slow deletions use it up.
Overrun(e) ==
    /\ Waiting(e) /\ ~table[e].due /\ HeldBySome(e)
    /\ overruns < MaxOverruns /\ overruns' = overruns + 1
    /\ table' = [table EXCEPT ![e].due = TRUE]
    /\ UNCHANGED <<left, hand, seen, crashes>>

-----------------------------------------------------------------------------
RowStep(p, r) ==
    \/ DeleteSucceeds(p, r) \/ DeleteFails(p, r) \/ Reject(p, r)
    \/ MarkProcessed(p, r) \/ MarkFailure(p, r)

Process(p) ==
    \/ \E S \in SUBSET Event : Claim(p, S)
    \/ \E r \in hand[p] : RowStep(p, r)
    \/ EndRun(p)

OutboxNext ==
    \/ \E e \in Event : Enqueue(e) \/ BestEffort(e) \/ BecomesDue(e) \/ Overrun(e)
    \/ \E p \in Processor : Process(p) \/ Crash(p)

OutboxSpec == OutboxInit /\ [][OutboxNext]_outboxVars

\* The supervisor runs the processors again and again, and time passes.
OutboxFairness ==
    /\ \A p \in Processor : WF_outboxVars(Process(p))
    /\ \A e \in Event : WF_outboxVars(BecomesDue(e))

FairOutboxSpec == OutboxSpec /\ OutboxFairness

-----------------------------------------------------------------------------
\* Types of the table and of the processors' memory.
OutboxTypeOK ==
    /\ table \in [Event -> Row]
    /\ left \in [Event -> SUBSET Piece]
    /\ hand \in [Processor -> SUBSET Held]
    /\ seen \in [Processor -> SUBSET Event]
    /\ crashes \in 0..MaxCrashes /\ overruns \in 0..MaxOverruns

\* A PROCESSED row means that nothing is left in the external store, whatever
\* stale processors, lost answers and partial deletions came before.
ProcessedIsDeleted == \A e \in Event : table[e].status = "PROCESSED" => left[e] = {}

\* No row is stuck: one that is neither PROCESSED nor DEAD can still be claimed,
\* also after an outcome was computed from an outdated retry_count.
WaitingHasRetriesLeft == \A e \in Event : Waiting(e) => table[e].retries < MaxRetries

\* Several processors are safe as long as no lease runs out under its holder: a
\* row is in one hand only and its retry_count is the one that hand has read.
LeaseIsExclusive ==
    overruns = 0 =>
        \A p, q \in Processor : \A r \in hand[p], s \in hand[q] :
            /\ r.event = s.event => p = q /\ r = s
            /\ table[r.event].retries = r.retries

\* PROCESSED and DEAD are final ("DEAD: not claimed again", outbox/mod.rs) as long as
\* no lease runs out under its holder: outcomes are written by id alone, so that
\* nothing but the lease keeps a second processor from writing over the first.
SettledIsFinal ==
    [][overruns = 0 =>
         \A e \in Event : table[e].status \in {"PROCESSED", "DEAD"} =>
                            table'[e].status = table[e].status]_outboxVars

\* Every row is eventually deleted or DEAD, although processors die with leases
\* and leases run out.
EveryRowSettles ==
    \A e \in Event : Waiting(e) ~> table[e].status \in {"PROCESSED", "DEAD"}
=============================================================================
