------------------------ MODULE RetrievalIndexProofs ------------------------
(***************************************************************************)
(* Proofs about the points in Qdrant and the outboxes that delete them:    *)
(* first Outbox and its refinement of OwedDeletion, for any number of      *)
(* rows, processors, pieces and retries, then RetrievalIndex, for any      *)
(* number of documents, chat requests, rounds and commands.  The two       *)
(* modules share no variable: each theorem is about the specification it   *)
(* names.                                                                  *)
(***************************************************************************)
EXTENDS OutboxRefinement, RetrievalIndex, TLAPS

-----------------------------------------------------------------------------
(* The outbox and its processors *)

\* The fresh tables are typed.
LEMMA InitOutboxType == OutboxInit => OutboxTypeOK
BY BoundsAssumption DEF OutboxInit, OutboxTypeOK, Row

\* The answer to one row keeps the processors' memory typed.
LEMMA AnswerType ==
  ASSUME OutboxTypeOK, NEW p \in Processor, NEW r \in hand[p],
         NEW outcome \in {"deleted", "error", "permanent"}, Answer(p, r, outcome)
  PROVE  /\ hand' \in [Processor -> SUBSET Held]
         /\ seen' \in [Processor -> SUBSET Event]
<1>1. r \in Held
  BY DEF OutboxTypeOK
<1>2. [r EXCEPT !.outcome = outcome] \in Held /\ r.event \in Event
  BY <1>1 DEF Held
<1> QED
  BY <1>1, <1>2 DEF Answer, OutboxTypeOK

\* Types survive every step.
LEMMA NextOutboxType == OutboxTypeOK /\ [OutboxNext]_outboxVars => OutboxTypeOK'
<1> SUFFICES ASSUME OutboxTypeOK, [OutboxNext]_outboxVars PROVE OutboxTypeOK'
  OBVIOUS
<1> USE BoundsAssumption
<1>1. ASSUME NEW e \in Event, Enqueue(e) PROVE OutboxTypeOK'
  BY <1>1 DEF Enqueue, OutboxTypeOK, Row
<1>2. ASSUME NEW e \in Event, BestEffort(e) PROVE OutboxTypeOK'
  BY <1>2 DEF BestEffort, OutboxTypeOK
<1>3. ASSUME NEW e \in Event, BecomesDue(e) PROVE OutboxTypeOK'
  BY <1>3 DEF BecomesDue, OutboxTypeOK, Row
<1>4. ASSUME NEW e \in Event, Overrun(e) PROVE OutboxTypeOK'
  <2>1. table' \in [Event -> Row]
    BY <1>4 DEF Overrun, OutboxTypeOK, Row
  <2>2. overruns' \in 0..MaxOverruns
    BY <1>4 DEF Overrun, OutboxTypeOK
  <2> QED
    BY <1>4, <2>1, <2>2 DEF Overrun, OutboxTypeOK
<1>5. ASSUME NEW p \in Processor, NEW S \in SUBSET Event, Claim(p, S) PROVE OutboxTypeOK'
  <2>1. table' \in [Event -> Row]
    BY <1>5 DEF Claim, OutboxTypeOK, Row
  <2>2. {[event |-> e, retries |-> table[e].retries, outcome |-> "waiting"] : e \in S}
           \subseteq Held
    BY DEF OutboxTypeOK, Row, Held
  <2> QED
    BY <1>5, <2>1, <2>2 DEF Claim, OutboxTypeOK
<1>6. ASSUME NEW p \in Processor, NEW r \in hand[p], RowStep(p, r) PROVE OutboxTypeOK'
  <2>1. r \in Held /\ r.event \in Event /\ r.retries \in Nat
    BY DEF OutboxTypeOK, Held
  <2>2. CASE DeleteSucceeds(p, r)
    BY <2>1, <2>2, AnswerType DEF DeleteSucceeds, OutboxTypeOK
  <2>3. CASE DeleteFails(p, r)
    BY <2>1, <2>3, AnswerType DEF DeleteFails, OutboxTypeOK
  <2>4. CASE Reject(p, r)
    BY <2>1, <2>4, AnswerType DEF Reject, OutboxTypeOK
  <2>5. CASE MarkProcessed(p, r)
    BY <2>1, <2>5 DEF MarkProcessed, OutboxTypeOK, Row
  <2>6. CASE MarkFailure(p, r)
    <3> DEFINE entry == IF LastRetry(r)
                        THEN [table[r.event] EXCEPT !.status = "DEAD", !.retries = r.retries + 1]
                        ELSE [status |-> "FAILED", retries |-> r.retries + 1, due |-> FALSE]
    <3>1. entry \in Row
      <4>1. table[r.event] \in Row /\ r.retries + 1 \in Nat
        BY <2>1 DEF OutboxTypeOK
      <4>2. [table[r.event] EXCEPT !.status = "DEAD", !.retries = r.retries + 1] \in Row
        BY <4>1 DEF Row
      <4>3. [status |-> "FAILED", retries |-> r.retries + 1, due |-> FALSE] \in Row
        BY <4>1 DEF Row
      <4> QED
        BY <4>2, <4>3
    <3>2. table' = [table EXCEPT ![r.event] = entry]
      BY <2>6 DEF MarkFailure
    <3>3. table' \in [Event -> Row]
      BY <2>1, <3>1, <3>2 DEF OutboxTypeOK
    <3> QED
      BY <2>6, <3>3 DEF MarkFailure, OutboxTypeOK
  <2> QED
    BY <1>6, <2>2, <2>3, <2>4, <2>5, <2>6 DEF RowStep
<1>7. ASSUME NEW p \in Processor, EndRun(p) PROVE OutboxTypeOK'
  BY <1>7 DEF EndRun, OutboxTypeOK
<1>8. ASSUME NEW p \in Processor, Crash(p) PROVE OutboxTypeOK'
  BY <1>8 DEF Crash, OutboxTypeOK
<1>9. CASE UNCHANGED outboxVars
  BY <1>9 DEF outboxVars, OutboxTypeOK
<1> QED
  BY <1>1, <1>2, <1>3, <1>4, <1>5, <1>6, <1>7, <1>8, <1>9 DEF OutboxNext, Process

\* The outbox tables and the processors' memory stay typed.
THEOREM OutboxTypeCorrect == OutboxSpec => []OutboxTypeOK
<1> QED
  BY InitOutboxType, NextOutboxType, PTL DEF OutboxSpec

-----------------------------------------------------------------------------
\* No row gets stuck between claimable and DEAD: the only writer of FAILED is the
\* branch of disposition_after_failure below the limit.
THEOREM WaitingHasRetriesLeftHolds == OutboxSpec => []WaitingHasRetriesLeft
<1> DEFINE Inv == OutboxTypeOK /\ WaitingHasRetriesLeft
<1>1. OutboxInit => Inv
  BY InitOutboxType DEF OutboxInit, WaitingHasRetriesLeft, Waiting
<1>2. Inv /\ [OutboxNext]_outboxVars => Inv'
  <2> SUFFICES ASSUME Inv, [OutboxNext]_outboxVars PROVE WaitingHasRetriesLeft'
    BY NextOutboxType
  <2> SUFFICES ASSUME NEW e \in Event, Waiting(e)' PROVE table'[e].retries < MaxRetries
    BY DEF WaitingHasRetriesLeft
  <2>1. CASE UNCHANGED table[e]
    BY <2>1 DEF Waiting, WaitingHasRetriesLeft
  <2>2. ASSUME NEW d \in Event, Enqueue(d) PROVE table'[e].retries < MaxRetries
    BY <2>1, <2>2, RetriesAssumption DEF Enqueue, OutboxTypeOK
  <2>3. ASSUME NEW d \in Event, BecomesDue(d) \/ Overrun(d)
        PROVE table'[e].retries < MaxRetries
    BY <2>1, <2>3 DEF BecomesDue, Overrun, OutboxTypeOK, WaitingHasRetriesLeft, Waiting, Row
  <2>4. ASSUME NEW p \in Processor, NEW S \in SUBSET Event, Claim(p, S)
        PROVE table'[e].retries < MaxRetries
    BY <2>4 DEF Claim, OutboxTypeOK, WaitingHasRetriesLeft, Waiting, Row
  <2>5. ASSUME NEW p \in Processor, NEW r \in hand[p], MarkProcessed(p, r)
        PROVE table'[e].retries < MaxRetries
    BY <2>1, <2>5 DEF MarkProcessed, OutboxTypeOK, Waiting, Row
  <2>6. ASSUME NEW p \in Processor, NEW r \in hand[p], MarkFailure(p, r)
        PROVE table'[e].retries < MaxRetries
    <3>1. r.event \in Event /\ r.retries \in Nat
      BY DEF OutboxTypeOK, Held
    <3>2. CASE r.event = e /\ LastRetry(r)
      BY <2>6, <3>1, <3>2 DEF MarkFailure, OutboxTypeOK, Waiting, Row
    <3>3. CASE r.event = e /\ ~LastRetry(r)
      BY <2>6, <3>1, <3>3, RetriesAssumption DEF MarkFailure, OutboxTypeOK, LastRetry
    <3>4. CASE r.event # e
      BY <2>1, <2>6, <3>1, <3>4 DEF MarkFailure, OutboxTypeOK
    <3> QED
      BY <3>2, <3>3, <3>4
  <2> QED
    BY <2>1, <2>2, <2>3, <2>4, <2>5, <2>6
    DEF OutboxNext, Process, RowStep, BestEffort, DeleteSucceeds, DeleteFails, Reject, EndRun,
        Crash, outboxVars
<1> QED
  BY <1>1, <1>2, PTL DEF OutboxSpec

-----------------------------------------------------------------------------
\* What makes ProcessedIsDeleted inductive: a deletion that was answered with
\* success has left nothing, and nothing is ever added again.
DeletedIsGone == \A p \in Processor : \A r \in hand[p] :
    r.outcome = "deleted" => left[r.event] = {}

GoneInv == OutboxTypeOK /\ DeletedIsGone /\ ProcessedIsDeleted

\* The external store only shrinks.
LEMMA LeftShrinks ==
  ASSUME OutboxTypeOK, [OutboxNext]_outboxVars
  PROVE  \A e \in Event : left'[e] \subseteq left[e]
<1>1. ASSUME NEW e \in Event, BestEffort(e) PROVE \A d \in Event : left'[d] \subseteq left[d]
  BY <1>1 DEF BestEffort, OutboxTypeOK
<1>2. ASSUME NEW p \in Processor, NEW r \in hand[p], DeleteSucceeds(p, r)
      PROVE \A d \in Event : left'[d] \subseteq left[d]
  BY <1>2 DEF DeleteSucceeds, OutboxTypeOK
<1>3. ASSUME NEW p \in Processor, NEW r \in hand[p], DeleteFails(p, r)
      PROVE \A d \in Event : left'[d] \subseteq left[d]
  BY <1>3 DEF DeleteFails, OutboxTypeOK
<1> QED
  BY <1>1, <1>2, <1>3
  DEF OutboxNext, Process, RowStep, Enqueue, BecomesDue, Overrun, Claim, Reject, MarkProcessed,
      MarkFailure, EndRun, Crash, outboxVars

\* A row carrying a successful answer was there before, or the step deleted it all.
LEMMA DeletedAnswers ==
  ASSUME OutboxTypeOK, DeletedIsGone, [OutboxNext]_outboxVars
  PROVE  DeletedIsGone'
<1> SUFFICES ASSUME NEW p \in Processor, NEW r \in hand'[p], r.outcome = "deleted"
             PROVE  left'[r.event] = {}
  BY DEF DeletedIsGone
<1>1. ASSUME r \in hand[p] PROVE left'[r.event] = {}
  <2>1. r.event \in Event
    BY <1>1 DEF OutboxTypeOK, Held
  <2> QED
    BY <1>1, <2>1, LeftShrinks DEF DeletedIsGone
<1>2. ASSUME NEW q \in Processor, NEW S \in SUBSET Event, Claim(q, S)
      PROVE  left'[r.event] = {}
  BY <1>1, <1>2 DEF Claim, OutboxTypeOK
<1>3. ASSUME NEW q \in Processor, NEW s \in hand[q], DeleteSucceeds(q, s)
      PROVE  left'[r.event] = {}
  <2>1. s \in Held /\ s.event \in Event
    BY DEF OutboxTypeOK, Held
  <2>2. CASE r = [s EXCEPT !.outcome = "deleted"]
    BY <1>3, <2>1, <2>2 DEF DeleteSucceeds, OutboxTypeOK, Held
  <2>3. CASE r # [s EXCEPT !.outcome = "deleted"]
    BY <1>1, <1>3, <2>3 DEF DeleteSucceeds, Answer, OutboxTypeOK
  <2> QED
    BY <2>2, <2>3
<1>4. ASSUME NEW q \in Processor, NEW s \in hand[q], DeleteFails(q, s) \/ Reject(q, s)
      PROVE  left'[r.event] = {}
  <2>1. s \in Held
    BY DEF OutboxTypeOK
  <2>2. r # [s EXCEPT !.outcome = "error"] /\ r # [s EXCEPT !.outcome = "permanent"]
    BY <2>1 DEF Held
  <2> QED
    BY <1>1, <1>4, <2>2 DEF DeleteFails, Reject, Answer, OutboxTypeOK
<1>5. ASSUME NEW q \in Processor, NEW s \in hand[q], MarkProcessed(q, s) \/ MarkFailure(q, s)
      PROVE  left'[r.event] = {}
  BY <1>1, <1>5 DEF MarkProcessed, MarkFailure, OutboxTypeOK
<1>6. ASSUME NEW q \in Processor, EndRun(q) \/ Crash(q) PROVE left'[r.event] = {}
  BY <1>1, <1>6 DEF EndRun, Crash, OutboxTypeOK
<1>7. CASE UNCHANGED hand
  BY <1>1, <1>7
<1> QED
  BY <1>2, <1>3, <1>4, <1>5, <1>6, <1>7
  DEF OutboxNext, Process, RowStep, Enqueue, BestEffort, BecomesDue, Overrun, outboxVars

\* A row turns PROCESSED only on a successful answer.
LEMMA ProcessedRows ==
  ASSUME GoneInv, [OutboxNext]_outboxVars
  PROVE  ProcessedIsDeleted'
<1> SUFFICES ASSUME NEW e \in Event, table'[e].status = "PROCESSED" PROVE left'[e] = {}
  BY DEF ProcessedIsDeleted
<1>1. ASSUME table[e].status = "PROCESSED" PROVE left'[e] = {}
  BY <1>1, LeftShrinks DEF GoneInv, ProcessedIsDeleted
<1>2. CASE UNCHANGED table
  BY <1>1, <1>2
<1>3. ASSUME NEW d \in Event, Enqueue(d) \/ BecomesDue(d) \/ Overrun(d) PROVE left'[e] = {}
  BY <1>1, <1>3 DEF Enqueue, BecomesDue, Overrun, GoneInv, OutboxTypeOK, Row
<1>4. ASSUME NEW p \in Processor, NEW S \in SUBSET Event, Claim(p, S) PROVE left'[e] = {}
  BY <1>1, <1>4 DEF Claim, GoneInv, OutboxTypeOK, Row
<1>5. ASSUME NEW p \in Processor, NEW r \in hand[p], MarkProcessed(p, r) PROVE left'[e] = {}
  <2>1. CASE r.event = e
    BY <1>5, <2>1 DEF MarkProcessed, GoneInv, DeletedIsGone
  <2>2. CASE r.event # e
    BY <1>1, <1>5, <2>2 DEF MarkProcessed, GoneInv, OutboxTypeOK
  <2> QED
    BY <2>1, <2>2
<1>6. ASSUME NEW p \in Processor, NEW r \in hand[p], MarkFailure(p, r) PROVE left'[e] = {}
  BY <1>1, <1>6 DEF MarkFailure, GoneInv, OutboxTypeOK, Row
<1> QED
  BY <1>2, <1>3, <1>4, <1>5, <1>6
  DEF OutboxNext, Process, RowStep, BestEffort, DeleteSucceeds, DeleteFails, Reject, EndRun,
      Crash, outboxVars

\* A row is marked PROCESSED only when the external store holds nothing of it.
THEOREM ProcessedIsDeletedHolds == OutboxSpec => []ProcessedIsDeleted
<1>1. OutboxInit => GoneInv
  BY InitOutboxType DEF OutboxInit, GoneInv, DeletedIsGone, ProcessedIsDeleted
<1>2. GoneInv /\ [OutboxNext]_outboxVars => GoneInv'
  BY NextOutboxType, DeletedAnswers, ProcessedRows DEF GoneInv
<1>3. GoneInv => ProcessedIsDeleted
  BY DEF GoneInv
<1> QED
  BY <1>1, <1>2, <1>3, PTL DEF OutboxSpec

-----------------------------------------------------------------------------
\* While no lease ran out under its holder: a row in some hand is still waiting,
\* is not due and counts the retries that hand has read; and it is in no other.
Leased == \A p \in Processor : \A r \in hand[p] :
    Waiting(r.event) /\ ~table[r.event].due /\ table[r.event].retries = r.retries
OneHand == \A p, q \in Processor : \A r \in hand[p], s \in hand[q] :
    r.event = s.event => p = q /\ r = s
LeaseInv == OutboxTypeOK /\ (overruns = 0 => Leased /\ OneHand)

\* Dropping rows from hands and changing rows nobody holds is harmless.
LEMMA FrameLease ==
  ASSUME OutboxTypeOK, Leased, OneHand,
         \A q \in Processor : hand'[q] \subseteq hand[q],
         \A q \in Processor : \A r \in hand'[q] : table'[r.event] = table[r.event]
  PROVE  Leased' /\ OneHand'
BY DEF Leased, OneHand, Waiting

\* A new lease is on rows that are due, so on rows in no hand.
LEMMA ClaimLease ==
  ASSUME OutboxTypeOK, Leased, OneHand, NEW p \in Processor, NEW S \in SUBSET Event, Claim(p, S)
  PROVE  Leased' /\ OneHand'
<1> DEFINE Fresh(e) == [event |-> e, retries |-> table[e].retries, outcome |-> "waiting"]
<1>1. \A e \in S : e \in Event /\ Waiting(e) /\ table[e].due
  BY DEF Claim, Claimable
<1>2. \A q \in Processor : \A r \in hand[q] : r.event \notin S /\ r.event \in Event
  BY <1>1 DEF Leased, OutboxTypeOK, Held
<1>3. \A e \in S : /\ table'[e].status = table[e].status /\ ~table'[e].due
                   /\ table'[e].retries = table[e].retries
  BY <1>1 DEF Claim, OutboxTypeOK, Row
<1>4. \A e \in Event \ S : table'[e] = table[e]
  BY DEF Claim, OutboxTypeOK
<1>5. hand'[p] = {Fresh(e) : e \in S}
  BY DEF Claim, OutboxTypeOK
<1>6. \A q \in Processor : q # p => hand'[q] = hand[q]
  BY DEF Claim, OutboxTypeOK
<1>7. \A q \in Processor : \A r \in hand'[q] :
         \/ q = p /\ r.event \in S /\ r = Fresh(r.event)
         \/ q # p /\ r \in hand[q]
  BY <1>5, <1>6
<1>8. Leased'
  BY <1>1, <1>2, <1>3, <1>4, <1>7 DEF Leased, Waiting
<1>9. OneHand'
  BY <1>2, <1>7 DEF OneHand
<1> QED
  BY <1>8, <1>9

\* An answer changes the outcome only.
LEMMA AnswerLease ==
  ASSUME OutboxTypeOK, Leased, OneHand, UNCHANGED table, NEW p \in Processor, NEW r \in hand[p],
         NEW outcome \in {"deleted", "error", "permanent"}, Answer(p, r, outcome)
  PROVE  Leased' /\ OneHand'
<1> DEFINE n == [r EXCEPT !.outcome = outcome]
<1>1. n.event = r.event /\ n.retries = r.retries
  BY DEF OutboxTypeOK, Held
<1>2. hand'[p] = (hand[p] \ {r}) \cup {n}
  BY DEF Answer, OutboxTypeOK
<1>3. \A q \in Processor : q # p => hand'[q] = hand[q]
  BY DEF Answer, OutboxTypeOK
<1>4. \A q \in Processor : \A x \in hand'[q] :
         (q = p /\ x = n) \/ (x \in hand[q] /\ ~(q = p /\ x = r))
  BY <1>2, <1>3
<1> HIDE DEF n
<1>5. Leased'
  BY <1>1, <1>4 DEF Leased, Waiting
<1>6. OneHand'
  BY <1>1, <1>4 DEF OneHand
<1> QED
  BY <1>5, <1>6

\* Recording an outcome changes the row of the hand that gives it up.
LEMMA MarkLease ==
  ASSUME OutboxTypeOK, Leased, OneHand, NEW p \in Processor, NEW r \in hand[p],
         MarkProcessed(p, r) \/ MarkFailure(p, r)
  PROVE  Leased' /\ OneHand'
<1>1. \A q \in Processor : hand'[q] = IF q = p THEN hand[q] \ {r} ELSE hand[q]
  BY DEF MarkProcessed, MarkFailure, OutboxTypeOK
<1>2. \A e \in Event : e # r.event => table'[e] = table[e]
  BY DEF MarkProcessed, MarkFailure, OutboxTypeOK
<1>3. \A q \in Processor : \A s \in hand'[q] : s.event # r.event /\ s.event \in Event
  <2> SUFFICES ASSUME NEW q \in Processor, NEW s \in hand'[q]
               PROVE  s.event # r.event /\ s.event \in Event
    OBVIOUS
  <2>1. s \in hand[q] /\ ~(q = p /\ s = r)
    BY <1>1
  <2>2. s.event # r.event
    BY <2>1 DEF OneHand
  <2>3. s \in Held
    BY <2>1 DEF OutboxTypeOK
  <2> QED
    BY <2>2, <2>3 DEF Held
<1> QED
  BY <1>1, <1>2, <1>3, FrameLease

\* Every step keeps the leases as long as none has been overrun.
LEMMA NextLeaseInv == LeaseInv /\ [OutboxNext]_outboxVars => LeaseInv'
<1> SUFFICES ASSUME LeaseInv, [OutboxNext]_outboxVars, overruns' = 0 PROVE Leased' /\ OneHand'
  BY NextOutboxType DEF LeaseInv
<1>1. overruns = 0
  <2>1. overruns \in Nat
    BY BoundsAssumption DEF LeaseInv, OutboxTypeOK
  <2>2. overruns' = overruns \/ overruns' = overruns + 1
    BY DEF OutboxNext, Process, RowStep, Enqueue, BestEffort, BecomesDue, Overrun, Claim,
           DeleteSucceeds, DeleteFails, Reject, MarkProcessed, MarkFailure, EndRun, Crash,
           outboxVars
  <2> QED
    BY <2>1, <2>2
<1>2. OutboxTypeOK /\ Leased /\ OneHand
  BY <1>1 DEF LeaseInv
<1>3. \A q \in Processor : \A r \in hand[q] : r.event \in Event
  BY <1>2 DEF OutboxTypeOK, Held
<1>4. ASSUME NEW e \in Event, Enqueue(e) PROVE Leased' /\ OneHand'
  <2>1. \A q \in Processor : \A r \in hand[q] : r.event # e
    BY <1>2, <1>4 DEF Enqueue, Leased, Waiting
  <2> QED
    BY <1>2, <1>3, <1>4, <2>1, FrameLease DEF Enqueue, OutboxTypeOK
<1>5. ASSUME NEW e \in Event, BecomesDue(e) PROVE Leased' /\ OneHand'
  BY <1>2, <1>3, <1>5, FrameLease DEF BecomesDue, HeldBySome, OutboxTypeOK
<1>6. ASSUME NEW e \in Event, Overrun(e) PROVE FALSE
  BY <1>1, <1>6 DEF Overrun
<1>7. ASSUME NEW p \in Processor, NEW S \in SUBSET Event, Claim(p, S) PROVE Leased' /\ OneHand'
  BY <1>2, <1>7, ClaimLease
<1>8. ASSUME NEW p \in Processor, NEW r \in hand[p], RowStep(p, r) PROVE Leased' /\ OneHand'
  <2>1. CASE DeleteSucceeds(p, r) \/ DeleteFails(p, r) \/ Reject(p, r)
    BY <1>2, <2>1, AnswerLease DEF DeleteSucceeds, DeleteFails, Reject
  <2>2. CASE MarkProcessed(p, r) \/ MarkFailure(p, r)
    BY <1>2, <2>2, MarkLease
  <2> QED
    BY <1>8, <2>1, <2>2 DEF RowStep
<1>9. ASSUME NEW p \in Processor, EndRun(p) \/ Crash(p) PROVE Leased' /\ OneHand'
  BY <1>2, <1>3, <1>9, FrameLease DEF EndRun, Crash, OutboxTypeOK
<1>10. CASE UNCHANGED <<table, hand>>
  BY <1>2, <1>10, FrameLease
<1> QED
  BY <1>4, <1>5, <1>6, <1>7, <1>8, <1>9, <1>10
  DEF OutboxNext, Process, BestEffort, outboxVars

\* Several processors never hold the same row unless a lease was overrun.
THEOREM LeaseIsExclusiveHolds == OutboxSpec => []LeaseIsExclusive
<1>1. OutboxInit => LeaseInv
  BY InitOutboxType DEF OutboxInit, LeaseInv, Leased, OneHand
<1>2. LeaseInv => LeaseIsExclusive
  BY DEF LeaseInv, LeaseIsExclusive, Leased, OneHand
<1> QED
  BY <1>1, <1>2, NextLeaseInv, PTL DEF OutboxSpec

-----------------------------------------------------------------------------
\* While no lease ran out a row in some hand waits, so nobody can record an outcome
\* of a row that has one.
LEMMA SettledStep ==
  ASSUME LeaseInv, [OutboxNext]_outboxVars, overruns = 0,
         NEW e \in Event, table[e].status \in {"PROCESSED", "DEAD"}
  PROVE  table'[e].status = table[e].status
<1>1. OutboxTypeOK /\ Leased /\ ~Waiting(e)
  BY DEF LeaseInv, Waiting
<1>2. ASSUME NEW d \in Event, Enqueue(d) \/ BecomesDue(d) \/ Overrun(d)
      PROVE  table'[e].status = table[e].status
  BY <1>1, <1>2 DEF Enqueue, BecomesDue, Overrun, OutboxTypeOK, Row
<1>3. ASSUME NEW p \in Processor, NEW S \in SUBSET Event, Claim(p, S)
      PROVE  table'[e].status = table[e].status
  BY <1>1, <1>3 DEF Claim, OutboxTypeOK, Row
<1>4. ASSUME NEW p \in Processor, NEW r \in hand[p], MarkProcessed(p, r) \/ MarkFailure(p, r)
      PROVE  table'[e].status = table[e].status
  <2>1. r.event # e
    BY <1>1 DEF Leased
  <2> QED
    BY <1>1, <1>4, <2>1 DEF MarkProcessed, MarkFailure, OutboxTypeOK
<1> QED
  BY <1>2, <1>3, <1>4
  DEF OutboxNext, Process, RowStep, BestEffort, DeleteSucceeds, DeleteFails, Reject, EndRun,
      Crash, outboxVars

\* The outcomes are written by id alone (mark_outbox_row_*): PROCESSED and DEAD are
\* final as long as no processor outlives its lease.
THEOREM SettledIsFinalHolds == OutboxSpec => SettledIsFinal
<1>1. OutboxInit => LeaseInv
  BY InitOutboxType DEF OutboxInit, LeaseInv, Leased, OneHand
<1>2. LeaseInv /\ [OutboxNext]_outboxVars =>
        [overruns = 0 =>
           \A e \in Event : table[e].status \in {"PROCESSED", "DEAD"} =>
                              table'[e].status = table[e].status]_outboxVars
  BY SettledStep
<1> QED
  BY <1>1, <1>2, NextLeaseInv, PTL DEF OutboxSpec, SettledIsFinal

-----------------------------------------------------------------------------
(* The outbox implements OwedDeletion under the mapping of OutboxRefinement. *)

\* A row in some hand was recorded, and no hand has two copies of it.
HandsInv == \A p \in Processor : \A r \in hand[p] :
    /\ table[r.event].status # "absent"
    /\ \A s \in hand[p] : s.event = r.event => s = r
PromiseInv == GoneInv /\ HandsInv

\* A recorded row stays recorded.
LEMMA StaysRecorded ==
  ASSUME OutboxTypeOK, [OutboxNext]_outboxVars, NEW e \in Event, table[e].status # "absent"
  PROVE  table'[e].status # "absent"
<1>1. ASSUME NEW d \in Event, Enqueue(d) \/ BecomesDue(d) \/ Overrun(d)
      PROVE  table'[e].status # "absent"
  BY <1>1 DEF Enqueue, BecomesDue, Overrun, OutboxTypeOK, Row
<1>2. ASSUME NEW p \in Processor, NEW S \in SUBSET Event, Claim(p, S)
      PROVE  table'[e].status # "absent"
  BY <1>2 DEF Claim, OutboxTypeOK, Row
<1>3. ASSUME NEW p \in Processor, NEW r \in hand[p], MarkProcessed(p, r)
      PROVE  table'[e].status # "absent"
  BY <1>3 DEF MarkProcessed, OutboxTypeOK, Row
<1>4. ASSUME NEW p \in Processor, NEW r \in hand[p], MarkFailure(p, r)
      PROVE  table'[e].status # "absent"
  BY <1>4 DEF MarkFailure, OutboxTypeOK, Row
<1> QED
  BY <1>1, <1>2, <1>3, <1>4
  DEF OutboxNext, Process, RowStep, BestEffort, DeleteSucceeds, DeleteFails, Reject, EndRun,
      Crash, outboxVars

\* What a hand holds after a step: a row it has claimed, the row that was answered
\* with another outcome, or what it held before.
LEMMA HandsStep ==
  ASSUME OutboxTypeOK, HandsInv, [OutboxNext]_outboxVars, NEW p \in Processor
  PROVE  \/ hand'[p] \subseteq hand[p]
         \/ \E S \in SUBSET Event :
              /\ \A e \in S : table[e].status # "absent"
              /\ hand'[p] = {[event |-> e, retries |-> table[e].retries,
                              outcome |-> "waiting"] : e \in S}
         \/ \E r \in hand[p] : \E n :
              n.event = r.event /\ hand'[p] = (hand[p] \ {r}) \cup {n}
<1>1. ASSUME NEW q \in Processor, NEW S \in SUBSET Event, Claim(q, S)
      PROVE  \/ hand'[p] = hand[p]
             \/ /\ \A e \in S : table[e].status # "absent"
                /\ hand'[p] = {[event |-> e, retries |-> table[e].retries,
                                outcome |-> "waiting"] : e \in S}
  BY <1>1 DEF Claim, Claimable, Waiting, OutboxTypeOK
<1>2. ASSUME NEW q \in Processor, NEW r \in hand[q],
             NEW outcome \in {"deleted", "error", "permanent"}, Answer(q, r, outcome)
      PROVE  \/ hand'[p] = hand[p]
             \/ q = p /\ \E n : n.event = r.event /\ hand'[p] = (hand[p] \ {r}) \cup {n}
  <2>1. [r EXCEPT !.outcome = outcome].event = r.event
    BY DEF OutboxTypeOK, Held
  <2> QED
    BY <1>2, <2>1 DEF Answer, OutboxTypeOK
<1>3. ASSUME NEW q \in Processor, NEW r \in hand[q], MarkProcessed(q, r) \/ MarkFailure(q, r)
      PROVE  hand'[p] \subseteq hand[p]
  BY <1>3 DEF MarkProcessed, MarkFailure, OutboxTypeOK
<1>4. ASSUME NEW q \in Processor, EndRun(q) \/ Crash(q) PROVE hand'[p] \subseteq hand[p]
  BY <1>4 DEF EndRun, Crash, OutboxTypeOK
<1>5. ASSUME NEW q \in Processor, NEW r \in hand[q],
             DeleteSucceeds(q, r) \/ DeleteFails(q, r) \/ Reject(q, r)
      PROVE  \E outcome \in {"deleted", "error", "permanent"} : Answer(q, r, outcome)
  BY <1>5 DEF DeleteSucceeds, DeleteFails, Reject
<1> DEFINE Claimed == \E S \in SUBSET Event :
                        /\ \A e \in S : table[e].status # "absent"
                        /\ hand'[p] = {[event |-> e, retries |-> table[e].retries,
                                        outcome |-> "waiting"] : e \in S}
           Answered == \E r \in hand[p] : \E n :
                         n.event = r.event /\ hand'[p] = (hand[p] \ {r}) \cup {n}
<1>6. ASSUME NEW q \in Processor, Process(q) PROVE hand'[p] \subseteq hand[p] \/ Claimed \/ Answered
  <2>1. ASSUME NEW S \in SUBSET Event, Claim(q, S) PROVE hand'[p] \subseteq hand[p] \/ Claimed
    BY <1>1, <2>1
  <2>2. ASSUME NEW r \in hand[q], RowStep(q, r) PROVE hand'[p] \subseteq hand[p] \/ Answered
    BY <1>2, <1>3, <1>5, <2>2 DEF RowStep
  <2> HIDE DEF Claimed, Answered
  <2> QED
    BY <1>4, <1>6, <2>1, <2>2 DEF Process
<1>7. CASE UNCHANGED hand
  BY <1>7
<1> HIDE DEF Claimed, Answered
<1>8. hand'[p] \subseteq hand[p] \/ Claimed \/ Answered
  BY <1>4, <1>6, <1>7 DEF OutboxNext, Enqueue, BestEffort, BecomesDue, Overrun, outboxVars
<1> QED
  BY <1>8 DEF Claimed, Answered

LEMMA NextPromiseInv == PromiseInv /\ [OutboxNext]_outboxVars => PromiseInv'
<1> SUFFICES ASSUME PromiseInv, [OutboxNext]_outboxVars PROVE HandsInv'
  BY NextOutboxType, DeletedAnswers, ProcessedRows DEF PromiseInv, GoneInv
<1> SUFFICES ASSUME NEW p \in Processor, NEW r \in hand'[p]
             PROVE  /\ table'[r.event].status # "absent"
                    /\ \A s \in hand'[p] : s.event = r.event => s = r
  BY DEF HandsInv
<1>1. OutboxTypeOK /\ HandsInv
  BY DEF PromiseInv, GoneInv
<1>2. \A s \in hand[p] : s.event \in Event /\ table'[s.event].status # "absent"
  BY <1>1, StaysRecorded DEF HandsInv, OutboxTypeOK, Held
<1>3. CASE hand'[p] \subseteq hand[p]
  BY <1>1, <1>2, <1>3 DEF HandsInv
<1>4. ASSUME NEW S \in SUBSET Event, \A e \in S : table[e].status # "absent",
             hand'[p] = {[event |-> e, retries |-> table[e].retries,
                          outcome |-> "waiting"] : e \in S}
      PROVE  /\ table'[r.event].status # "absent"
             /\ \A s \in hand'[p] : s.event = r.event => s = r
  BY <1>1, <1>4, StaysRecorded
<1>5. ASSUME NEW s \in hand[p], NEW n, n.event = s.event,
             hand'[p] = (hand[p] \ {s}) \cup {n}
      PROVE  /\ table'[r.event].status # "absent"
             /\ \A x \in hand'[p] : x.event = r.event => x = r
  BY <1>1, <1>2, <1>5 DEF HandsInv
<1> QED
  BY <1>1, <1>3, <1>4, <1>5, HandsStep

\* The status of a row decides what the promise says of its deletion.
LEMMA OwedTable ==
  ASSUME NEW e \in Event
  PROVE  /\ table[e].status = "absent" => OwedOf(e) = "none"
         /\ Waiting(e) => OwedOf(e) = "waiting"
         /\ table[e].status \in {"PROCESSED", "DEAD"} => OwedOf(e) = table[e].status
         /\ table[e].status # "absent" /\ OutboxTypeOK => OwedOf(e) # "none"
BY DEF OwedOf, Waiting, OutboxTypeOK, Row

LEMMA OwedFrame ==
  ASSUME NEW e \in Event, table'[e].status = table[e].status
  PROVE  OwedOf(e)' = OwedOf(e)
BY DEF OwedOf, Waiting

\* Nobody's hold on the row and nothing of the row changed.
LEMMA LateFrame ==
  ASSUME NEW e \in Event, table'[e].status = table[e].status, table'[e].due = table[e].due,
         \A p \in Processor : Holds(p, e)' <=> Holds(p, e)
  PROVE  LateOf(e)' = LateOf(e)
BY DEF LateOf, Waiting

\* With the row in the hand given up and nobody else's, nothing late remains.
LEMMA NobodyLeft ==
  ASSUME NEW e \in Event, \A p \in Processor : ~Holds(p, e)'
  PROVE  LateOf(e)' = FALSE
BY DEF LateOf

LEMMA OutboxKept ==
  ASSUME \A e \in Event : OwedOf(e)' = OwedOf(e) /\ LateOf(e)' = LateOf(e)
  PROVE  /\ [e \in Event |-> OwedOf(e)]' = [e \in Event |-> OwedOf(e)]
         /\ [e \in Event |-> LateOf(e)]' = [e \in Event |-> LateOf(e)]
OBVIOUS

LEMMA ClaimStutters ==
  ASSUME PromiseInv, NEW p \in Processor, NEW S \in SUBSET Event, Claim(p, S)
  PROVE  UNCHANGED Promise!vars
<1>t. OutboxTypeOK
  BY DEF PromiseInv, GoneInv
<1>1. /\ \A e \in S : Waiting(e) /\ table[e].due
      /\ \A e \in Event : table'[e].status = table[e].status
      /\ \A e \in S : Waiting(e)' /\ ~table'[e].due
      /\ \A e \in Event \ S : table'[e] = table[e]
  BY <1>t DEF Claim, Claimable, OutboxTypeOK, Row, Waiting
<1>2. /\ \A e \in Event : ~Holds(p, e) /\ (Holds(p, e)' <=> e \in S)
      /\ \A q \in Processor \ {p} : \A e \in Event : Holds(q, e)' <=> Holds(q, e)
  <2>1. /\ hand[p] = {} /\ \A q \in Processor \ {p} : hand'[q] = hand[q]
        /\ hand'[p] = {[event |-> e, retries |-> table[e].retries, outcome |-> "waiting"] : e \in S}
    BY <1>t DEF Claim, OutboxTypeOK
  <2>2. ASSUME NEW e \in Event PROVE Holds(p, e)' <=> e \in S
    <3> DEFINE fresh == [event |-> e, retries |-> table[e].retries, outcome |-> "waiting"]
    <3>1. e \in S => fresh \in hand'[p] /\ fresh.event = e
      BY <2>1
    <3>2. \A r \in hand'[p] : r.event \in S
      BY <2>1
    <3> QED
      BY <3>1, <3>2 DEF Holds
  <2> QED
    BY <2>1, <2>2 DEF Holds
<1>3. \A e \in Event \ S : LateOf(e)' = LateOf(e)
  BY <1>1, <1>2, LateFrame
<1>4. ASSUME NEW e \in S PROVE LateOf(e)' = LateOf(e)
  <2>1. LateOf(e) <=> \E q \in Processor \ {p} : Holds(q, e)
    BY <1>1, <1>2 DEF LateOf
  <2>2. LateOf(e)' <=> \E q \in Processor \ {p} : Holds(q, e)
    BY <1>1, <1>2 DEF LateOf
  <2> QED
    BY <2>1, <2>2 DEF LateOf
<1> QED
  BY <1>1, <1>3, <1>4, OwedFrame, OutboxKept DEF Claim, Promise!vars

\* An answer leaves the row and the hold on it; at most the store has lost something.
LEMMA AnswerRemoves ==
  ASSUME PromiseInv, NEW p \in Processor, NEW r \in hand[p],
         DeleteSucceeds(p, r) \/ DeleteFails(p, r) \/ Reject(p, r)
  PROVE  (\E e \in Event : Promise!Remove(e)) \/ UNCHANGED Promise!vars
<1>t. OutboxTypeOK /\ r \in Held /\ r.event \in Event /\ table[r.event].status # "absent"
  BY DEF PromiseInv, GoneInv, HandsInv, OutboxTypeOK, Held
<1>1. table' = table /\ \E outcome \in {"deleted", "error", "permanent"} : Answer(p, r, outcome)
  BY DEF DeleteSucceeds, DeleteFails, Reject
<1>2. \A q \in Processor : \A e \in Event : Holds(q, e)' <=> Holds(q, e)
  <2> PICK outcome \in {"deleted", "error", "permanent"} : Answer(p, r, outcome)
    BY <1>1
  <2>1. [r EXCEPT !.outcome = outcome].event = r.event
    BY <1>t DEF Held
  <2>2. \A q \in Processor :
           hand'[q] = IF q = p THEN (hand[p] \ {r}) \cup {[r EXCEPT !.outcome = outcome]}
                      ELSE hand[q]
    BY <1>t DEF Answer, OutboxTypeOK
  <2> QED
    BY <2>1, <2>2 DEF Holds
<1>3. \A e \in Event : OwedOf(e)' = OwedOf(e) /\ LateOf(e)' = LateOf(e)
  BY <1>1, <1>2, OwedFrame, LateFrame
<1>4. \/ left' = left
      \/ \E remaining \in SUBSET left[r.event] : left' = [left EXCEPT ![r.event] = remaining]
  BY DEF DeleteSucceeds, DeleteFails, Reject
<1> QED
  BY <1>t, <1>3, <1>4, OwedTable, OutboxKept DEF Promise!vars, Promise!Remove

\* An outcome that is recorded is the first one of its row, or the processor that
\* records it was late: it has outlived its lease, or another one holds the row too.
LEMMA MarkSettles ==
  ASSUME PromiseInv, NEW p \in Processor, NEW r \in hand[p],
         MarkProcessed(p, r) \/ MarkFailure(p, r)
  PROVE  \/ \E e \in Event : Promise!Settle(e) \/ Promise!Overwrite(e)
         \/ UNCHANGED Promise!vars
<1> DEFINE e == r.event
           owedMap == [d \in Event |-> OwedOf(d)]
           lateMap == [d \in Event |-> LateOf(d)]
<1>t. OutboxTypeOK /\ HandsInv /\ e \in Event /\ Holds(p, e)
  BY DEF PromiseInv, GoneInv, OutboxTypeOK, Held, Holds
<1>1. /\ left' = left
      /\ table'[e].status \in {"PROCESSED", "DEAD", "FAILED"}
      /\ table'[e].status = "PROCESSED" => left[e] = {}
      /\ \A d \in Event \ {e} : table'[d] = table[d]
  <2>1. CASE MarkProcessed(p, r)
    BY <1>t, <2>1 DEF MarkProcessed, OutboxTypeOK, Row, PromiseInv, GoneInv, DeletedIsGone
  <2>2. CASE MarkFailure(p, r)
    <3>1. table'[e].status = IF LastRetry(r) THEN "DEAD" ELSE "FAILED"
      BY <1>t, <2>2 DEF MarkFailure, OutboxTypeOK, Row
    <3> QED
      BY <1>t, <2>2, <3>1 DEF MarkFailure, OutboxTypeOK
  <2> QED
    BY <2>1, <2>2
<1>2. /\ \A q \in Processor : \A d \in Event \ {e} : Holds(q, d)' <=> Holds(q, d)
      /\ ~Holds(p, e)'
      /\ \A q \in Processor \ {p} : Holds(q, e)' <=> Holds(q, e)
  <2>1. \A q \in Processor : hand'[q] = IF q = p THEN hand[q] \ {r} ELSE hand[q]
    BY <1>t DEF MarkProcessed, MarkFailure, OutboxTypeOK
  <2> QED
    BY <1>t, <2>1 DEF Holds, HandsInv
<1>3. \A d \in Event \ {e} : OwedOf(d)' = OwedOf(d) /\ LateOf(d)' = LateOf(d)
  BY <1>1, <1>2, OwedFrame, LateFrame
<1>4. /\ OwedOf(e)' \in {"PROCESSED", "DEAD", "waiting"}
      /\ OwedOf(e)' = "PROCESSED" => left[e] = {}
  BY <1>1 DEF OwedOf, Waiting
<1>5. /\ owedMap' = [owedMap EXCEPT ![e] = OwedOf(e)']
      /\ lateMap' = [lateMap EXCEPT ![e] = LateOf(e)']
      /\ LateOf(e)' \in BOOLEAN /\ LateOf(e) \in BOOLEAN
  BY <1>3 DEF LateOf
<1>6. CASE LateOf(e)
  <2>1. lateMap' = lateMap \/ lateMap' = [lateMap EXCEPT ![e] = FALSE]
    BY <1>t, <1>5, <1>6
  <2>2. Promise!Overwrite(e)
    BY <1>t, <1>1, <1>4, <1>5, <1>6, <2>1
    DEF Promise!Overwrite, Promise!Possible, Promise!Become
  <2> QED
    BY <1>t, <2>2
<1>7. CASE ~LateOf(e)
  <2>1. Waiting(e) /\ \A q \in Processor \ {p} : ~Holds(q, e)
    BY <1>t, <1>7 DEF LateOf
  <2>2. LateOf(e)' = LateOf(e)
    <3>1. \A q \in Processor : ~Holds(q, e)'
      BY <1>2, <2>1
    <3>2. LateOf(e)' = FALSE
      BY <1>t, <3>1, NobodyLeft
    <3>3. LateOf(e) = FALSE
      BY <1>5, <1>7
    <3> QED
      BY <3>2, <3>3
  <2>3. OwedOf(e) = "waiting"
    BY <1>t, <2>1, OwedTable
  <2>4. CASE OwedOf(e)' = "waiting"
    BY <1>1, <1>3, <2>2, <2>3, <2>4, OutboxKept DEF Promise!vars
  <2>5. CASE OwedOf(e)' # "waiting"
    <3>1. lateMap' = lateMap
      BY <1>3, <2>2
    <3>2. Promise!Settle(e)
      BY <1>t, <1>1, <1>4, <1>5, <2>3, <2>5, <3>1
      DEF Promise!Settle, Promise!Possible, Promise!Become
    <3> QED
      BY <1>t, <3>2
  <2> QED
    BY <2>4, <2>5
<1> QED
  BY <1>6, <1>7

\* A lease that runs out under its holder makes the row late.
LEMMA OverrunOutlives ==
  ASSUME PromiseInv, NEW e \in Event, Overrun(e)
  PROVE  Promise!Outlive(e) \/ UNCHANGED Promise!vars
<1> DEFINE owedMap == [d \in Event |-> OwedOf(d)]
           lateMap == [d \in Event |-> LateOf(d)]
<1>t. OutboxTypeOK
  BY DEF PromiseInv, GoneInv
<1>1. /\ table'[e].status = table[e].status /\ table'[e].due /\ Waiting(e)
      /\ \A d \in Event \ {e} : table'[d] = table[d]
      /\ UNCHANGED <<left, hand>>
  BY <1>t DEF Overrun, OutboxTypeOK, Row
<1>2. \A d \in Event : OwedOf(d)' = OwedOf(d)
  BY <1>1, OwedFrame
<1>3. \A p \in Processor : \A d \in Event : Holds(p, d)' <=> Holds(p, d)
  BY <1>1 DEF Holds
<1>4. \A d \in Event \ {e} : LateOf(d)' = LateOf(d)
  BY <1>1, <1>3, LateFrame
<1>5. LateOf(e)' = TRUE
  <2>1. \E p \in Processor : Holds(p, e)
    BY DEF Overrun, HeldBySome, Holds
  <2> QED
    BY <1>1, <1>3, <2>1 DEF LateOf
<1>6. CASE LateOf(e)
  <2>1. LateOf(e) = TRUE
    BY <1>6 DEF LateOf
  <2> QED
    BY <1>1, <1>2, <1>4, <1>5, <2>1, OutboxKept DEF Promise!vars
<1>7. CASE ~LateOf(e)
  <2>1. lateMap' = [lateMap EXCEPT ![e] = TRUE]
    BY <1>4, <1>5
  <2>2. owedMap' = owedMap /\ OwedOf(e) = "waiting"
    BY <1>1, <1>2, OwedTable
  <2> QED
    BY <1>1, <1>7, <2>1, <2>2 DEF Promise!Outlive
<1> QED
  BY <1>6, <1>7

\* A processor that dies takes along what only it could still have overwritten.
LEMMA CrashForgets ==
  ASSUME PromiseInv, NEW p \in Processor, Crash(p)
  PROVE  \E S \in SUBSET Event : Promise!Forget(S)
<1> DEFINE S == {e \in Event : LateOf(e) /\ ~LateOf(e)'}
           lateMap == [d \in Event |-> LateOf(d)]
<1>t. OutboxTypeOK
  BY DEF PromiseInv, GoneInv
<1>1. table' = table /\ left' = left /\ \A e \in Event : OwedOf(e)' = OwedOf(e)
  BY OwedFrame DEF Crash
<1>2. \A e \in Event : \A q \in Processor : Holds(q, e)' => q # p /\ Holds(q, e)
  BY <1>t DEF Crash, OutboxTypeOK, Holds
<1>3. \A e \in Event : LateOf(e)' => LateOf(e)
  BY <1>1, <1>2 DEF LateOf, Waiting
<1>4. \A e \in Event : LateOf(e)' = (LateOf(e) /\ e \notin S)
  BY <1>3 DEF LateOf
<1>5. lateMap' = [e \in Event |-> lateMap[e] /\ e \notin S]
  BY <1>4
<1>6. Promise!Forget(S)
  BY <1>1, <1>5 DEF Promise!Forget
<1> QED
  BY <1>6

\* Every step of the outbox is a step of the promise or leaves it alone.
LEMMA OutboxStepRefines ==
  ASSUME PromiseInv, [OutboxNext]_outboxVars
  PROVE  Promise!Next \/ UNCHANGED Promise!vars
<1>t. OutboxTypeOK /\ HandsInv
  BY DEF PromiseInv, GoneInv
<1>1. ASSUME NEW e \in Event, Enqueue(e) PROVE Promise!Record(e)
  <2> DEFINE owedMap == [d \in Event |-> OwedOf(d)]
  <2>1. /\ table[e].status = "absent" /\ table'[e].status = "PENDING"
        /\ \A d \in Event \ {e} : table'[d] = table[d]
        /\ UNCHANGED <<left, hand>>
    BY <1>t, <1>1 DEF Enqueue, OutboxTypeOK
  <2>2. \A p \in Processor : ~Holds(p, e)
    BY <1>t, <2>1 DEF Holds, HandsInv
  <2>3. \A p \in Processor : \A d \in Event : Holds(p, d)' <=> Holds(p, d)
    BY <2>1 DEF Holds
  <2>4. LateOf(e)' = LateOf(e)
    BY <2>2, <2>3 DEF LateOf
  <2>5. \A d \in Event \ {e} : OwedOf(d)' = OwedOf(d) /\ LateOf(d)' = LateOf(d)
    BY <2>1, <2>3, OwedFrame, LateFrame
  <2>6. OwedOf(e) = "none" /\ OwedOf(e)' = "waiting"
    BY <2>1 DEF OwedOf, Waiting
  <2>7. owedMap' = [owedMap EXCEPT ![e] = "waiting"]
    BY <2>5, <2>6
  <2> QED
    BY <2>1, <2>4, <2>5, <2>6, <2>7 DEF Promise!Record, Promise!Become
<1>2. ASSUME NEW e \in Event, BestEffort(e) PROVE Promise!Remove(e)
  <2>1. OwedOf(e) # "none" /\ UNCHANGED <<table, hand>>
    BY <1>t, <1>2, OwedTable DEF BestEffort
  <2>2. \A p \in Processor : \A d \in Event : Holds(p, d)' <=> Holds(p, d)
    BY <2>1 DEF Holds
  <2>3. \A d \in Event : OwedOf(d)' = OwedOf(d) /\ LateOf(d)' = LateOf(d)
    BY <2>1, <2>2, OwedFrame, LateFrame
  <2> QED
    BY <1>2, <2>1, <2>3, OutboxKept DEF BestEffort, Promise!Remove
<1>3. ASSUME NEW e \in Event, BecomesDue(e) PROVE UNCHANGED Promise!vars
  <2>1. /\ table'[e].status = table[e].status
        /\ \A d \in Event \ {e} : table'[d] = table[d]
        /\ UNCHANGED <<left, hand>>
    BY <1>t, <1>3 DEF BecomesDue, OutboxTypeOK, Row
  <2>2. \A p \in Processor : \A d \in Event : Holds(p, d)' <=> Holds(p, d)
    BY <2>1 DEF Holds
  <2>3. LateOf(e)' = LateOf(e)
    BY <1>3, <2>2 DEF BecomesDue, HeldBySome, Holds, LateOf
  <2> QED
    BY <2>1, <2>2, <2>3, OwedFrame, LateFrame, OutboxKept DEF Promise!vars
<1>4. ASSUME NEW p \in Processor, NEW r \in hand[p], RowStep(p, r)
      PROVE  \/ \E e \in Event : Promise!Remove(e) \/ Promise!Settle(e) \/ Promise!Overwrite(e)
             \/ UNCHANGED Promise!vars
  BY <1>4, AnswerRemoves, MarkSettles DEF RowStep
<1>5. ASSUME UNCHANGED <<table, hand, left>> PROVE UNCHANGED Promise!vars
  <2>1. \A p \in Processor : \A d \in Event : Holds(p, d)' <=> Holds(p, d)
    BY <1>5 DEF Holds
  <2> QED
    BY <1>5, <2>1, OwedFrame, LateFrame, OutboxKept DEF Promise!vars
<1>6. ASSUME NEW p \in Processor, EndRun(p) PROVE UNCHANGED Promise!vars
  BY <1>5, <1>6 DEF EndRun
<1>7. CASE UNCHANGED outboxVars
  BY <1>5, <1>7 DEF outboxVars
<1>8. ASSUME NEW e \in Event, Enqueue(e) \/ BestEffort(e) \/ BecomesDue(e) \/ Overrun(e)
      PROVE  Promise!Next \/ UNCHANGED Promise!vars
  BY <1>1, <1>2, <1>3, <1>8, OverrunOutlives DEF Promise!Next
<1>9. ASSUME NEW p \in Processor, Process(p) \/ Crash(p)
      PROVE  Promise!Next \/ UNCHANGED Promise!vars
  BY <1>4, <1>6, <1>9, ClaimStutters, CrashForgets DEF Process, Promise!Next
<1> QED
  BY <1>7, <1>8, <1>9 DEF OutboxNext

\* The outboxes keep their promise: whatever processors, crashes, lost answers and
\* partial deletions do, a recorded deletion waits, is PROCESSED with nothing left or
\* DEAD, and only a processor that outlived its lease writes over an outcome.
THEOREM OutboxImplementsOwedDeletion == OutboxSpec => ImplementsOwedDeletion
<1>1. OutboxInit => PromiseInv
  BY InitOutboxType
  DEF OutboxInit, PromiseInv, GoneInv, DeletedIsGone, ProcessedIsDeleted, HandsInv
<1>2. OutboxInit => Promise!Init
  <2> SUFFICES ASSUME OutboxInit PROVE Promise!Init
    OBVIOUS
  <2>1. \A e \in Event : OwedOf(e) = "none" /\ LateOf(e) = FALSE
    <3> SUFFICES ASSUME NEW e \in Event PROVE OwedOf(e) = "none" /\ LateOf(e) = FALSE
      OBVIOUS
    <3>1. table[e].status = "absent" /\ \A p \in Processor : ~Holds(p, e)
      BY DEF OutboxInit, Holds
    <3> QED
      BY <3>1, OwedTable DEF LateOf
  <2>2. /\ [e \in Event |-> OwedOf(e)] = [e \in Event |-> "none"]
        /\ [e \in Event |-> LateOf(e)] = [e \in Event |-> FALSE]
    BY <2>1
  <2> QED
    BY <2>2 DEF OutboxInit, Promise!Init
<1> QED
  BY <1>1, <1>2, NextPromiseInv, OutboxStepRefines, PTL
  DEF OutboxSpec, ImplementsOwedDeletion, Promise!Spec

-----------------------------------------------------------------------------
(* The index.  The invariant is about one document at a time: whose rows   *)
(* and points there are, which round they are of, which deletes are on     *)
(* their way to it, which of its chunks a search can reach, and what a     *)
(* report in progress has read of it.                                      *)

OutboxStatus == {"none", "waiting", "DEAD", "PROCESSED"}
Commands ==
    {NoCommand}
    \cup [pc : {"apply"}, targets : SUBSET Target]
    \cup [pc : {"scan"}, known : SUBSET Doc, gone : BOOLEAN, targets : SUBSET Target]
    \cup [pc : {"report"}, next : 1..5, born : SUBSET Doc, live : SUBSET Doc,
          owed : [Target -> OutboxStatus], events : SUBSET Doc, probe : SUBSET Doc]
IndexTypes == TypeOK /\ op \in Commands

\* Whose rows and points there are, and who may still bring some.
Owned(d) ==
    /\ work[d] # Idle => /\ round[d] \in 1..MaxRounds
                         /\ row[d] \in {"processing", "gone", "undone"}
    /\ \A c \in work[d].hold : c.doc = d
    /\ Of(chunks, d) # {} => Present(d)
    /\ row[d] = "none" => Of(points, d) = {} /\ \A r \in Request : Of(req[r].hold, d) = {}

\* After its save a worker has the rows of its round, and holds their points.
Fresh(d) == \A c \in Of(chunks, d) : c.round = round[d]
Texts(d) ==
    d \notin blank =>
        /\ work[d].pc \in {"check", "drop", "upsert", "complete"} => Fresh(d)
        /\ row[d] = "completed" => Fresh(d)
        /\ work[d].pc \in {"check", "drop", "upsert"} /\ Present(d) => work[d].hold = Of(chunks, d)

\* No delete is on its way to a document that is there, but for the known mistake.
Aimed == IF op.pc \in {"scan", "apply"} THEN op.targets ELSE {}
Deletes(d) ==
    /\ owed[Whole] # "none" => ~Present(d)
    /\ d \notin mistaken /\ (Present(d) \/ row[d] = "none") => owed[d] = "none" /\ d \notin Aimed
    /\ row[d] = "gone" => owed[d] # "none" \/ owed[Whole] # "none"

\* Every chunk of d has its point; or nobody has back-filled yet, and whoever is
\* about to has loaded them all.
Indexed(d) == Ids(Of(chunks, d)) \subseteq Ids(Of(points, d))
Unfilled(d) ==
    /\ ~filled
    /\ \A r \in Request : /\ req[r].pc \notin {"mark", "search"}
                          /\ req[r].pc = "fill" => Of(chunks, d) \subseteq req[r].hold
Reachable(d) ==
    d \notin mistaken \cup blank =>
        /\ work[d].pc = "complete" /\ Present(d) => Indexed(d)
        /\ row[d] = "completed" => Indexed(d) \/ Unfilled(d)

\* What the report has read of a document that was gone when it began.
Reading(d) ==
    op.pc = "report" /\ d \in op.born \ op.live =>
        /\ op.next > 1 => row[d] \in {"gone", "undone"}
        /\ op.next > 2 /\ row[d] = "gone" =>
             /\ op.owed[d] # "none" \/ op.owed[Whole] # "none"
             /\ owed[d] = "none" <=> op.owed[d] = "none"
             /\ \A t \in {d, Whole} : op.owed[t] = "PROCESSED" => owed[t] = "PROCESSED"

DocInv(d) == Owned(d) /\ Texts(d) /\ Deletes(d) /\ Reachable(d) /\ Reading(d)

\* A clean-up of the whole workspace is under way only when it is gone.
WholeInv ==
    /\ Whole \in Aimed => owed[Whole] # "none"
    /\ op.pc = "scan" => (op.gone => owed[Whole] # "none")

IndexInv == IndexTypes /\ WholeInv /\ \A d \in Doc : DocInv(d)

-----------------------------------------------------------------------------
(* Points, rows, and what a step leaves alone *)

LEMMA Targets == /\ Whole \in Target /\ \A d \in Doc : d \in Target /\ d # Whole
                 /\ \A t \in Target : t \in Doc \/ t = Whole
BY RetrievalAssumption DEF Target

\* An upsert takes no point away, and adds only its own.
LEMMA UpsertAdds ==
    ASSUME NEW S, Upsert(S), NEW d
    PROVE  /\ Ids(Of(points, d)) \subseteq Ids(Of(points', d))
           /\ Ids(Of(S, d)) \subseteq Ids(Of(points', d))
           /\ Of(points', d) \subseteq Of(points, d) \cup Of(S, d)
<1>1. \A p \in points : p \in points' \/ \E s \in S : Id(p) = Id(s)
  BY DEF Upsert, Ids
<1>2. S \subseteq points' /\ points' \subseteq points \cup S
  BY DEF Upsert
<1>3. \A p, s : Id(p) = Id(s) => p.doc = s.doc
  BY DEF Id
<1>4. ASSUME NEW p \in Of(points, d) PROVE \E q \in Of(points', d) : Id(q) = Id(p)
  BY <1>1, <1>2, <1>3 DEF Of
<1>5. Ids(Of(points, d)) \subseteq Ids(Of(points', d))
  BY <1>4 DEF Ids
<1>6. Of(S, d) \subseteq Of(points', d) /\ Of(points', d) \subseteq Of(points, d) \cup Of(S, d)
  BY <1>2 DEF Of
<1>7. Ids(Of(S, d)) \subseteq Ids(Of(points', d))
  BY <1>6 DEF Ids
<1> QED BY <1>5, <1>6, <1>7

\* A delete takes the points of its target.
LEMMA DeleteTakes ==
    ASSUME NEW t \in Target, DeletePoints(t), NEW d \in Doc
    PROVE  /\ t = d \/ t = Whole => Of(points', d) = {}
           /\ t # d /\ t # Whole => Of(points', d) = Of(points, d)
BY DEF DeletePoints, Covers, Of

\* A step that leaves what concerns a document alone leaves its invariant alone.
LEMMA Apart ==
    ASSUME NEW d \in Doc, DocInv(d),
           row'[d] = row[d], round'[d] = round[d], work'[d] = work[d],
           Of(chunks', d) = Of(chunks, d), Of(points', d) = Of(points, d),
           d \in blank' <=> d \in blank, d \in mistaken' <=> d \in mistaken,
           owed'[d] = owed[d], owed'[Whole] = owed[Whole], UNCHANGED <<filled, req, op>>
    PROVE  DocInv(d)'
<1>1. Owned(d)'
  BY DEF DocInv, Owned, Present
<1>2. Texts(d)'
  BY DEF DocInv, Texts, Fresh, Present
<1>3. Deletes(d)'
  BY DEF DocInv, Deletes, Aimed, Present
<1>4. Reachable(d)'
  BY DEF DocInv, Reachable, Indexed, Unfilled, Present
<1>5. Reading(d)'
  BY DEF DocInv, Reading
<1> QED BY <1>1, <1>2, <1>3, <1>4, <1>5 DEF DocInv

-----------------------------------------------------------------------------
(* Ingestion *)

\* A step of the ingestion of d is about d alone.
Alone(d) ==
    /\ Beside
    /\ \A e \in Doc \ {d} :
         /\ row'[e] = row[e] /\ round'[e] = round[e] /\ work'[e] = work[e]
         /\ Of(chunks', e) = Of(chunks, e) /\ Of(points', e) = Of(points, e)
         /\ e \in blank' <=> e \in blank

\* The deletions and the report do not mind an ingestion.
RowMoves(d) ==
    \/ row'[d] = row[d]
    \/ row[d] = "processing" /\ row'[d] \in {"completed", "failed"}
    \/ row[d] \in {"none", "completed", "failed"} /\ row'[d] = "processing" /\ owed[Whole] = "none"

LEMMA IngestionStep ==
    ASSUME IndexInv, NEW d \in Doc, Alone(d), RowMoves(d), TypeOK',
           Owned(d)', Texts(d)', Reachable(d)'
    PROVE  IndexInv'
<1>0. DocInv(d) /\ UNCHANGED <<filled, req, owed, op, commands, mistaken>>
  BY DEF IndexInv, Alone, Beside
<1>1. Deletes(d)'
  BY <1>0 DEF DocInv, Deletes, Aimed, RowMoves, Present, Stored
<1>2. Reading(d)'
  BY <1>0 DEF DocInv, Reading, RowMoves
<1>3. ASSUME NEW e \in Doc \ {d} PROVE DocInv(e)'
  BY <1>0, Apart DEF Alone, IndexInv
<1>4. WholeInv' /\ IndexTypes'
  BY <1>0 DEF IndexInv, WholeInv, IndexTypes, Aimed, Commands
<1> QED BY <1>1, <1>2, <1>3, <1>4 DEF IndexInv, DocInv

\* The slot of one document, and the types of its worker's memory.
Steps == {"idle", "save", "check", "drop", "upsert", "complete"}
LEMMA GotoSlot ==
    ASSUME TypeOK, NEW d \in Doc, NEW pc \in Steps, NEW hold \in SUBSET Chunk,
           Goto(d, pc, hold)
    PROVE  /\ work'[d].pc = pc /\ work'[d].hold = hold
           /\ \A e \in Doc \ {d} : work'[e] = work[e]
           /\ work' \in [Doc -> [pc : Steps, hold : SUBSET Chunk]]
BY DEF Goto, TypeOK, Steps

\* A worker at a step is at work on a document of a round.
LEMMA Working ==
    ASSUME IndexInv, NEW d \in Doc, work[d].pc # "idle"
    PROVE  /\ work[d] # Idle /\ round[d] \in 1..MaxRounds
           /\ row[d] \in {"processing", "gone", "undone"} /\ (Present(d) <=> row[d] = "processing")
           /\ work[d].hold \subseteq Chunk /\ \A c \in work[d].hold : c.doc = d
BY DEF IndexInv, DocInv, Owned, Idle, IndexTypes, TypeOK, Present, Stored

\* The rows a save writes.
LEMMA RowsOfRound ==
    ASSUME TypeOK, NEW d \in Doc, round[d] \in 1..MaxRounds, NEW n
    PROVE  /\ ChunkRows(d, n) \subseteq Chunk
           /\ \A c \in ChunkRows(d, n) : c.doc = d /\ c.round = round[d]
<1>1. ASSUME NEW i \in ChunkIndex PROVE Born(d, i) \in 1..MaxRounds
  <2>1. PICK rows : rows = {c \in Of(chunks, d) : c.index = i}
    OBVIOUS
  <2>2. Born(d, i) = IF rows = {} THEN round[d] ELSE (CHOOSE c \in rows : TRUE).born
    BY <2>1 DEF Born
  <2>3. rows \subseteq Chunk
    BY <2>1 DEF Of, TypeOK
  <2>4. CASE rows = {}
    BY <2>2, <2>4
  <2>5. CASE rows # {}
    <3>1. PICK c : c = CHOOSE x \in rows : TRUE
      OBVIOUS
    <3>2. c \in rows
      BY <2>5, <3>1
    <3> QED BY <2>2, <2>3, <2>5, <3>1, <3>2 DEF Chunk
  <2> QED BY <2>4, <2>5
<1> QED BY <1>1 DEF ChunkRows, Chunk

LEMMA BeginKeeps ==
    ASSUME IndexInv, NEW d \in Doc, Begin(d)
    PROVE  IndexInv'
<1>1. /\ TypeOK /\ work[d] = Idle /\ round[d] \in 0..MaxRounds /\ round[d] < MaxRounds
      /\ row[d] \in {"none", "completed", "failed"} /\ owed[Whole] = "none"
      /\ row'[d] = "processing" /\ round'[d] = round[d] + 1
      /\ \A e \in Doc \ {d} : row'[e] = row[e] /\ round'[e] = round[e]
      /\ UNCHANGED <<chunks, blank, points>> /\ Beside /\ Goto(d, "save", {})
  BY DEF Begin, IndexInv, IndexTypes, TypeOK, Unindexed
<1>2. work'[d].pc = "save" /\ work'[d].hold = {} /\ \A e \in Doc \ {d} : work'[e] = work[e]
  BY <1>1, GotoSlot DEF Steps
<1>3. TypeOK'
  <2>1. row' \in [Doc -> Stored \cup {"none", "gone", "undone"}] /\ round' \in [Doc -> 0..MaxRounds]
    BY <1>1, RetrievalAssumption DEF Begin, TypeOK, Stored
  <2>2. work' \in [Doc -> [pc : Steps, hold : SUBSET Chunk]]
    BY <1>1, GotoSlot DEF Steps
  <2> QED BY <1>1, <2>1, <2>2 DEF TypeOK, Beside, Steps
<1>4. Alone(d) /\ RowMoves(d)
  BY <1>1, <1>2 DEF Alone, RowMoves
<1>5. Owned(d)'
  BY <1>1, <1>2, RetrievalAssumption DEF Owned, Present, Stored, IndexInv, DocInv
<1>6. Texts(d)' /\ Reachable(d)'
  BY <1>1, <1>2 DEF Texts, Reachable
<1> QED BY <1>3, <1>4, <1>5, <1>6, IngestionStep

LEMMA SaveKeeps ==
    ASSUME IndexInv, NEW d \in Doc, Save(d)
    PROVE  IndexInv'
<1>0. work[d].pc = "save" /\ Present(d) /\ TypeOK
  BY DEF Save, IndexInv, IndexTypes
<1>1. PICK n : /\ chunks' = (chunks \ Of(chunks, d)) \cup ChunkRows(d, n)
               /\ Goto(d, "check", ChunkRows(d, n))
  BY DEF Save
<1>2. PICK R : R = ChunkRows(d, n)
  OBVIOUS
<1>3. R \subseteq Chunk /\ \A c \in R : c.doc = d /\ c.round = round[d]
  BY <1>0, <1>2, Working, RowsOfRound
<1>4. /\ work'[d].pc = "check" /\ work'[d].hold = R /\ work'[d] # Idle
      /\ \A e \in Doc \ {d} : work'[e] = work[e]
      /\ work' \in [Doc -> [pc : Steps, hold : SUBSET Chunk]]
  BY <1>0, <1>1, <1>2, <1>3, GotoSlot DEF Idle, Steps
<1>5. /\ Of(chunks', d) = R /\ chunks' \subseteq Chunk
      /\ \A e \in Doc \ {d} : Of(chunks', e) = Of(chunks, e)
  BY <1>0, <1>1, <1>2, <1>3 DEF Of, TypeOK
<1>6. blank' = blank \ {d} /\ UNCHANGED <<row, round, points>> /\ Beside
  BY DEF Save, Unindexed
<1>7. TypeOK'
  BY <1>0, <1>4, <1>5, <1>6 DEF TypeOK, Beside, Steps
<1>8. Alone(d) /\ RowMoves(d)
  BY <1>4, <1>5, <1>6 DEF Alone, RowMoves
<1>9. Owned(d)'
  BY <1>0, <1>3, <1>4, <1>6, Working DEF Owned, Present, Stored
<1>10. Texts(d)'
  BY <1>0, <1>3, <1>4, <1>5, <1>6, Working DEF Texts, Fresh, Present
<1>11. Reachable(d)'
  BY <1>0, <1>4, <1>6, Working DEF Reachable
<1> QED BY <1>7, <1>8, <1>9, <1>10, <1>11, IngestionStep

LEMMA SaveNothingKeeps ==
    ASSUME IndexInv, NEW d \in Doc, SaveNothing(d)
    PROVE  IndexInv'
<1>0. work[d].pc = "save" /\ TypeOK
  BY DEF SaveNothing, IndexInv, IndexTypes
<1>1. /\ Goto(d, "drop", {}) /\ blank' = blank \cup {d}
      /\ UNCHANGED <<row, round, chunks, points>> /\ Beside
  BY DEF SaveNothing, Unindexed
<1>2. /\ work'[d].pc = "drop" /\ work'[d].hold = {} /\ work'[d] # Idle
      /\ \A e \in Doc \ {d} : work'[e] = work[e]
      /\ work' \in [Doc -> [pc : Steps, hold : SUBSET Chunk]]
  BY <1>0, <1>1, GotoSlot DEF Idle, Steps
<1>3. TypeOK'
  BY <1>0, <1>1, <1>2 DEF TypeOK, Beside, Steps
<1>4. Alone(d) /\ RowMoves(d)
  BY <1>1, <1>2 DEF Alone, RowMoves
<1>5. Owned(d)'
  BY <1>0, <1>1, <1>2, Working DEF Owned, Present, IndexInv, DocInv
<1>6. Texts(d)' /\ Reachable(d)'
  BY <1>1 DEF Texts, Reachable
<1> QED BY <1>3, <1>4, <1>5, <1>6, IngestionStep

LEMMA CheckKeeps ==
    ASSUME IndexInv, NEW d \in Doc, CheckDocument(d)
    PROVE  IndexInv'
<1>0. work[d].pc = "check" /\ TypeOK /\ Owned(d) /\ Texts(d)
  BY DEF CheckDocument, IndexInv, IndexTypes, DocInv
<1>1. UNCHANGED <<row, round, chunks, blank, points>> /\ Beside
  BY DEF CheckDocument, Unindexed
<1>2. PICK pc, hold : /\ Goto(d, pc, hold)
                      /\ \/ Present(d) /\ pc = "drop" /\ hold = work[d].hold
                         \/ ~Present(d) /\ pc = "idle" /\ hold = {}
  BY DEF CheckDocument
<1>3. hold \subseteq Chunk /\ \A c \in hold : c.doc = d
  BY <1>0, <1>2, Working
<1>4. /\ work'[d].pc = pc /\ work'[d].hold = hold
      /\ \A e \in Doc \ {d} : work'[e] = work[e]
      /\ work' \in [Doc -> [pc : Steps, hold : SUBSET Chunk]]
  BY <1>0, <1>2, <1>3, GotoSlot DEF Steps
<1>5. TypeOK'
  BY <1>0, <1>1, <1>4 DEF TypeOK, Beside, Steps
<1>6. Alone(d) /\ RowMoves(d)
  BY <1>1, <1>4 DEF Alone, RowMoves
<1>7. Owned(d)'
  BY <1>0, <1>1, <1>3, <1>4, Working DEF Owned, Present, Beside
<1>8. Texts(d)' /\ Reachable(d)'
  BY <1>0, <1>1, <1>2, <1>4, Working DEF Texts, Fresh, Reachable, Present
<1> QED BY <1>5, <1>6, <1>7, <1>8, IngestionStep

LEMMA DropKeeps ==
    ASSUME IndexInv, NEW d \in Doc, DropPoints(d)
    PROVE  IndexInv'
<1>0. work[d].pc = "drop" /\ TypeOK /\ Owned(d) /\ Texts(d)
  BY DEF DropPoints, IndexInv, IndexTypes, DocInv
<1>1. UNCHANGED <<row, round, chunks, blank>> /\ Beside /\ Goto(d, "upsert", work[d].hold)
  BY DEF DropPoints
<1>2. /\ work'[d].pc = "upsert" /\ work'[d].hold = work[d].hold /\ work'[d] # Idle
      /\ \A e \in Doc \ {d} : work'[e] = work[e]
      /\ work' \in [Doc -> [pc : Steps, hold : SUBSET Chunk]]
  <2>1. work[d].hold \in SUBSET Chunk
    BY <1>0 DEF TypeOK
  <2> QED BY <1>0, <1>1, <2>1, GotoSlot DEF Steps, Idle
<1>3. points' \subseteq points /\ Of(points', d) = {} /\ \A e \in Doc \ {d} : Of(points', e) = Of(points, e)
  <2>1. points' \subseteq points
    BY DEF DropPoints, DeletePoints
  <2> QED BY <2>1, DeleteTakes, Targets DEF DropPoints
<1>4. TypeOK'
  BY <1>0, <1>1, <1>2, <1>3 DEF TypeOK, Beside, Steps
<1>5. Alone(d) /\ RowMoves(d)
  BY <1>1, <1>2, <1>3 DEF Alone, RowMoves
<1>6. Owned(d)'
  BY <1>0, <1>1, <1>2, <1>3, Working DEF Owned, Present, Beside
<1>7. Texts(d)' /\ Reachable(d)'
  BY <1>0, <1>1, <1>2, Working DEF Texts, Fresh, Reachable, Present
<1> QED BY <1>4, <1>5, <1>6, <1>7, IngestionStep

LEMMA UpsertKeeps ==
    ASSUME IndexInv, NEW d \in Doc, UpsertPoints(d)
    PROVE  IndexInv'
<1>0. work[d].pc = "upsert" /\ TypeOK /\ Owned(d) /\ Texts(d)
  BY DEF UpsertPoints, IndexInv, IndexTypes, DocInv
<1>1. UNCHANGED <<row, round, chunks, blank>> /\ Beside /\ Goto(d, "complete", {})
  BY DEF UpsertPoints
<1>2. /\ work'[d].pc = "complete" /\ work'[d].hold = {} /\ work'[d] # Idle
      /\ \A e \in Doc \ {d} : work'[e] = work[e]
      /\ work' \in [Doc -> [pc : Steps, hold : SUBSET Chunk]]
  BY <1>0, <1>1, GotoSlot DEF Steps, Idle
<1>3. PICK H : H = work[d].hold
  OBVIOUS
<1>4. Upsert(H) /\ H \subseteq Chunk /\ Of(H, d) = H /\ \A e \in Doc \ {d} : Of(H, e) = {}
  BY <1>0, <1>3, Working DEF UpsertPoints, Of
<1>5. /\ points' \subseteq Chunk /\ Ids(H) \subseteq Ids(Of(points', d))
      /\ \A e \in Doc \ {d} : Of(points', e) = Of(points, e)
  <2>1. points' \subseteq Chunk
    BY <1>0, <1>4 DEF Upsert, TypeOK
  <2>2. Ids(H) \subseteq Ids(Of(points', d))
    BY <1>4, UpsertAdds
  <2>3. ASSUME NEW e \in Doc \ {d}, NEW p \in points, p.doc = e PROVE p \in points'
    <3>1. \A s \in H : Id(p) # Id(s)
      BY <1>4, <2>3 DEF Id, Of
    <3> QED BY <1>4, <3>1 DEF Upsert, Ids
  <2>4. \A p \in points' : p \in points \/ p \in H
    BY <1>4 DEF Upsert
  <2> QED BY <1>4, <2>1, <2>2, <2>3, <2>4 DEF Of
<1>6. TypeOK'
  BY <1>0, <1>1, <1>2, <1>5 DEF TypeOK, Beside, Steps
<1>7. Alone(d) /\ RowMoves(d)
  BY <1>1, <1>2, <1>5 DEF Alone, RowMoves
<1>8. Owned(d)'
  BY <1>0, <1>1, <1>2, Working DEF Owned, Present, Beside
<1>9. Texts(d)'
  BY <1>0, <1>1, <1>2, Working DEF Texts, Fresh, Present
<1>10. Reachable(d)'
  BY <1>0, <1>1, <1>2, <1>3, <1>5, Working DEF Reachable, Texts, Indexed, Present
<1> QED BY <1>6, <1>7, <1>8, <1>9, <1>10, IngestionStep

LEMMA CompleteKeeps ==
    ASSUME IndexInv, NEW d \in Doc, Complete(d)
    PROVE  IndexInv'
<1>0. work[d].pc = "complete" /\ TypeOK /\ Owned(d) /\ Texts(d) /\ Reachable(d)
  BY DEF Complete, IndexInv, IndexTypes, DocInv
<1>1. /\ UNCHANGED <<round, chunks, blank, points>> /\ Beside /\ Goto(d, "idle", {})
      /\ row' = [row EXCEPT ![d] = IF Present(d) THEN "completed" ELSE row[d]]
  BY DEF Complete, Unindexed
<1>2. /\ work'[d].pc = "idle" /\ work'[d].hold = {}
      /\ \A e \in Doc \ {d} : work'[e] = work[e]
      /\ work' \in [Doc -> [pc : Steps, hold : SUBSET Chunk]]
  BY <1>0, <1>1, GotoSlot DEF Steps
<1>3. /\ row' \in [Doc -> Stored \cup {"none", "gone", "undone"}]
      /\ row'[d] = IF Present(d) THEN "completed" ELSE row[d]
      /\ \A e \in Doc \ {d} : row'[e] = row[e]
  BY <1>0, <1>1 DEF TypeOK, Stored
<1>4. TypeOK'
  BY <1>0, <1>1, <1>2, <1>3 DEF TypeOK, Beside, Steps
<1>5. Alone(d) /\ RowMoves(d)
  BY <1>0, <1>1, <1>2, <1>3, Working DEF Alone, RowMoves
<1>6. work'[d] = Idle
  BY <1>0, <1>1 DEF Goto, Idle, TypeOK
<1>7. Owned(d)'
  BY <1>0, <1>1, <1>2, <1>3, <1>6, Working DEF Owned, Present, Stored
<1>8. Texts(d)'
  BY <1>0, <1>1, <1>2, <1>3, Working DEF Texts, Fresh
<1>9. Reachable(d)'
  BY <1>0, <1>1, <1>2, <1>3, Working DEF Reachable, Indexed, Beside
<1> QED BY <1>4, <1>5, <1>7, <1>8, <1>9, IngestionStep

LEMMA FailKeeps ==
    ASSUME IndexInv, NEW d \in Doc, StepFails(d)
    PROVE  IndexInv'
<1>0. work[d] # Idle /\ TypeOK /\ Owned(d) /\ Texts(d)
  BY DEF StepFails, IndexInv, IndexTypes, DocInv
<1>1. UNCHANGED <<round, chunks, blank>> /\ Beside
  BY DEF StepFails
<1>2. /\ row[d] \in {"processing", "gone", "undone"} /\ (Present(d) <=> row[d] = "processing")
      /\ round[d] \in 1..MaxRounds
  BY <1>0 DEF Owned, Present, Stored
<1>3. PICK pc \in {"save", "idle"} :
        /\ Goto(d, pc, {})
        /\ \/ pc = "save" /\ Present(d) /\ UNCHANGED row
           \/ pc = "idle" /\ row' = [row EXCEPT ![d] = IF Present(d) THEN "failed" ELSE row[d]]
  BY DEF StepFails
<1>4. /\ work'[d].pc = pc /\ work'[d].hold = {}
      /\ \A e \in Doc \ {d} : work'[e] = work[e]
      /\ work' \in [Doc -> [pc : Steps, hold : SUBSET Chunk]]
  BY <1>0, <1>3, GotoSlot DEF Steps
<1>5. /\ row' \in [Doc -> Stored \cup {"none", "gone", "undone"}]
      /\ \/ row'[d] = row[d]
         \/ row[d] = "processing" /\ row'[d] = "failed" /\ pc = "idle"
      /\ \A e \in Doc \ {d} : row'[e] = row[e]
  <2>1. CASE pc = "save"
    BY <1>0, <1>3, <2>1 DEF TypeOK
  <2>2. CASE pc = "idle"
    <3>1. row' = [row EXCEPT ![d] = IF Present(d) THEN "failed" ELSE row[d]]
      BY <1>3, <2>2
    <3> QED BY <1>0, <1>2, <2>2, <3>1 DEF TypeOK, Stored
  <2> QED BY <1>3, <2>1, <2>2
<1>6. PICK S \in SUBSET work[d].hold : Upsert(S)
  BY DEF StepFails
<1>7. S \subseteq Chunk /\ \A c \in S : c.doc = d
  BY <1>0, <1>6 DEF Owned, TypeOK
<1>8. points' \subseteq Chunk /\ \A e \in Doc \ {d} : Of(points', e) = Of(points, e)
  <2>1. points' \subseteq Chunk /\ \A p \in points' : p \in points \/ p \in S
    BY <1>0, <1>6, <1>7 DEF Upsert, TypeOK
  <2>2. ASSUME NEW e \in Doc \ {d}, NEW p \in points, p.doc = e PROVE p \in points'
    <3>1. \A s \in S : Id(p) # Id(s)
      BY <1>7, <2>2 DEF Id
    <3> QED BY <1>6, <3>1 DEF Upsert, Ids
  <2> QED BY <1>7, <2>1, <2>2 DEF Of
<1>9. TypeOK'
  BY <1>0, <1>1, <1>4, <1>5, <1>8 DEF TypeOK, Beside, Steps
<1>10. Alone(d) /\ RowMoves(d)
  BY <1>1, <1>4, <1>5, <1>8 DEF Alone, RowMoves
<1>11. Owned(d)'
  <2>1. pc = "idle" => work'[d] = Idle
    BY <1>0, <1>3 DEF Goto, Idle, TypeOK
  <2>2. pc = "save" => row'[d] = "processing"
    BY <1>2, <1>3
  <2> QED BY <1>0, <1>1, <1>2, <1>3, <1>4, <1>5, <2>1, <2>2 DEF Owned, Present, Stored
<1>12. Texts(d)' /\ Reachable(d)'
  BY <1>2, <1>3, <1>4, <1>5 DEF Texts, Reachable
<1> QED BY <1>9, <1>10, <1>11, <1>12, IngestionStep

-----------------------------------------------------------------------------
(* Deletion *)

LEMMA Vanishes ==
    ASSUME TypeOK, op \in Commands, NEW d \in Doc, DocInv(d), Present(d),
           row'[d] \in {"gone", "undone"}, Of(chunks', d) = {},
           row'[d] = "gone" => owed'[d] # "none" \/ owed'[Whole] # "none", Quiet
    PROVE  DocInv(d)'
<1>0. /\ UNCHANGED <<round, work, blank, filled, req, op, commands, mistaken, points>>
      /\ row'[d] \notin Stored \cup {"none"}
  BY DEF Quiet, Unindexed, Stored
<1>1. Owned(d)'
  BY <1>0 DEF DocInv, Owned
<1>2. Texts(d)'
  BY <1>0 DEF Texts, Fresh, Present, Stored
<1>3. Deletes(d)'
  BY <1>0 DEF Deletes, Present
<1>4. Reachable(d)'
  BY <1>0 DEF Reachable, Present, Stored
<1>5. Reading(d)'
  <2> SUFFICES ASSUME op.pc = "report", d \in op.born \ op.live PROVE ~(op.next > 1) /\ ~(op.next > 2)
    BY <1>0 DEF Reading
  <2>1. op.next \in 1..5
    BY DEF Commands, NoCommand
  <2>2. ~(op.next > 1)
    BY DEF DocInv, Reading, Present, Stored
  <2> QED BY <2>1, <2>2
<1> QED BY <1>1, <1>2, <1>3, <1>4, <1>5 DEF DocInv

LEMMA DeleteDocumentKeeps ==
    ASSUME IndexInv, NEW d \in Doc, DeleteDocument(d) \/ UndoUpload(d)
    PROVE  IndexInv'
<1>0. TypeOK /\ op \in Commands /\ WholeInv /\ \A e \in Doc : DocInv(e)
  BY DEF IndexInv, IndexTypes
<1>1. PICK status \in {"gone", "undone"} : row' = [row EXCEPT ![d] = status]
  BY DEF DeleteDocument, UndoUpload
<1>2. Quiet /\ Beyond({d}) /\ Present(d)
  BY DEF DeleteDocument, UndoUpload, Present, Stored
<1>3. /\ owed' \in [Target -> OutboxStatus] /\ owed'[Whole] = owed[Whole]
      /\ \A e \in Doc \ {d} : owed'[e] = owed[e]
      /\ row'[d] = "gone" => owed'[d] # "none"
  BY <1>0, <1>1, Targets DEF DeleteDocument, UndoUpload, TypeOK, OutboxStatus, Open
<1>4. /\ row' \in [Doc -> Stored \cup {"none", "gone", "undone"}] /\ row'[d] = status
      /\ \A e \in Doc \ {d} : row'[e] = row[e]
  BY <1>0, <1>1 DEF TypeOK
<1>5. /\ chunks' \subseteq chunks /\ Of(chunks', d) = {}
      /\ \A e \in Doc \ {d} : Of(chunks', e) = Of(chunks, e)
  BY <1>2 DEF Beyond, Of
<1>6. TypeOK'
  BY <1>0, <1>2, <1>3, <1>4, <1>5 DEF TypeOK, Quiet, Unindexed, OutboxStatus, Open
<1>7. DocInv(d)'
  BY <1>0, <1>2, <1>3, <1>4, <1>5, Vanishes
<1>8. ASSUME NEW e \in Doc \ {d} PROVE DocInv(e)'
  BY <1>0, <1>2, <1>3, <1>4, <1>5, Apart DEF Quiet, Unindexed
<1>9. WholeInv' /\ op' \in Commands'
  BY <1>0, <1>2, <1>3 DEF WholeInv, Aimed, Quiet, Commands
<1> QED BY <1>6, <1>7, <1>8, <1>9 DEF IndexInv, IndexTypes

LEMMA DeleteWorkspaceKeeps ==
    ASSUME IndexInv, DeleteWorkspace
    PROVE  IndexInv'
<1>0. TypeOK /\ op \in Commands /\ WholeInv /\ \A e \in Doc : DocInv(e)
  BY DEF IndexInv, IndexTypes
<1>1. /\ owed[Whole] = "none" /\ row' = [d \in Doc |-> IF Present(d) THEN "gone" ELSE row[d]]
      /\ Beyond(Doc) /\ owed' = [owed EXCEPT ![Whole] = "waiting"] /\ Quiet
  BY DEF DeleteWorkspace
<1>2. UNCHANGED <<round, work, blank, filled, req, op, commands, mistaken, points>>
  BY <1>1 DEF Quiet, Unindexed
<1>3. /\ owed' \in [Target -> OutboxStatus] /\ owed'[Whole] = "waiting"
      /\ \A e \in Doc : owed'[e] = owed[e]
  BY <1>0, <1>1, Targets DEF TypeOK, OutboxStatus, Open
<1>4. chunks' \subseteq chunks /\ \A e \in Doc : Of(chunks', e) = {}
  BY <1>1 DEF Beyond, Of
<1>5. TypeOK'
  BY <1>0, <1>1, <1>2, <1>3, <1>4 DEF TypeOK, OutboxStatus, Open
<1>6. ASSUME NEW d \in Doc PROVE DocInv(d)'
  <2>1. CASE Present(d)
    BY <1>0, <1>1, <1>3, <1>4, <2>1, Vanishes
  <2>2. CASE ~Present(d)
    <3>0. DocInv(d) /\ row'[d] = row[d] /\ Of(chunks', d) = Of(chunks, d) /\ ~Present(d)'
      BY <1>0, <1>1, <1>4, <2>2 DEF DocInv, Owned, Present
    <3>1. Owned(d)'
      BY <1>2, <1>4, <3>0 DEF DocInv, Owned
    <3>2. Texts(d)'
      BY <1>2, <3>0 DEF DocInv, Texts, Fresh
    <3>3. Deletes(d)'
      BY <1>2, <1>3, <2>2, <3>0 DEF DocInv, Deletes, Aimed
    <3>4. Reachable(d)'
      BY <1>2, <3>0 DEF DocInv, Reachable, Indexed, Unfilled
    <3>5. Reading(d)'
      BY <1>1, <1>2, <1>3, <3>0 DEF DocInv, Reading
    <3> QED BY <3>1, <3>2, <3>3, <3>4, <3>5 DEF DocInv
  <2> QED BY <2>1, <2>2
<1>7. WholeInv' /\ op' \in Commands'
  BY <1>0, <1>2, <1>3 DEF WholeInv, Aimed, Commands
<1> QED BY <1>5, <1>6, <1>7 DEF IndexInv, IndexTypes

\* A delivery that is done, repeated, lost or given up meets no document that is there.
LEMMA DeliveryKeeps ==
    ASSUME IndexInv, NEW t \in Target, Deliver(t) \/ LastDeliveryFails(t)
    PROVE  IndexInv'
<1>0. TypeOK /\ op \in Commands /\ WholeInv /\ \A e \in Doc : DocInv(e)
  BY DEF IndexInv, IndexTypes
<1>1. /\ owed[t] = "waiting" /\ UNCHANGED <<docVars, filled, req, op, commands, mistaken>>
      /\ DeletePoints(t) \/ UNCHANGED points
      /\ \E s \in {"waiting", "PROCESSED", "DEAD"} : owed' = [owed EXCEPT ![t] = s]
  <2>1. owed \in [Target -> {"none"} \cup Open \cup {"PROCESSED"}]
    BY <1>0 DEF TypeOK
  <2>2. CASE Deliver(t)
    <3>1. owed[t] = "waiting" /\ owed' \in {owed, [owed EXCEPT ![t] = "PROCESSED"]}
      BY <2>2 DEF Deliver
    <3>2. owed = [owed EXCEPT ![t] = "waiting"]
      BY <2>1, <3>1
    <3> QED BY <2>2, <3>1, <3>2 DEF Deliver
  <2>3. CASE LastDeliveryFails(t)
    BY <2>3 DEF LastDeliveryFails, Unindexed
  <2> QED BY <2>2, <2>3
<1>2. /\ owed' \in [Target -> OutboxStatus]
      /\ \A x \in Target : /\ owed'[x] = "none" <=> owed[x] = "none"
                           /\ owed[x] = "PROCESSED" => owed'[x] = "PROCESSED"
  BY <1>0, <1>1 DEF TypeOK, OutboxStatus, Open
<1>3. points' \subseteq points
  BY <1>1 DEF DeletePoints
<1>4. TypeOK'
  BY <1>0, <1>1, <1>2, <1>3 DEF TypeOK, docVars, OutboxStatus, Open
<1>5. ASSUME NEW d \in Doc PROVE DocInv(d)'
  <2>0. DocInv(d) /\ Of(points', d) \subseteq Of(points, d) /\ d \in Target /\ Whole \in Target
    BY <1>0, <1>3, Targets DEF Of
  <2>1. Owned(d)'
    BY <1>1, <2>0 DEF DocInv, Owned, Present, docVars
  <2>2. Texts(d)'
    BY <1>1, <2>0 DEF DocInv, Texts, Fresh, Present, docVars
  <2>3. Deletes(d)'
    BY <1>1, <1>2, <2>0 DEF DocInv, Deletes, Aimed, Present, docVars
  <2>4. Reachable(d)'
    <3> SUFFICES ASSUME d \notin mistaken \cup blank, Present(d) PROVE Reachable(d)'
      BY <1>1, <2>0 DEF Reachable, Present, Stored, docVars
    <3>1. t # d /\ t # Whole
      BY <1>1, <2>0 DEF DocInv, Deletes
    <3>2. Of(points', d) = Of(points, d)
      BY <1>1, <3>1, DeleteTakes
    <3> QED BY <1>1, <2>0, <3>2 DEF DocInv, Reachable, Indexed, Unfilled, Present, docVars
  <2>5. Reading(d)'
    BY <1>1, <1>2, <2>0 DEF DocInv, Reading, docVars
  <2> QED BY <2>1, <2>2, <2>3, <2>4, <2>5 DEF DocInv
<1>6. WholeInv' /\ op' \in Commands'
  BY <1>0, <1>1, <1>2, Targets DEF WholeInv, Aimed, Commands
<1> QED BY <1>4, <1>5, <1>6 DEF IndexInv, IndexTypes

-----------------------------------------------------------------------------
(* Chat *)

ReqSteps == {"idle", "load", "fill", "mark", "search", "fetch"}
Requests == [pc : ReqSteps, allowed : SUBSET Doc, hold : SUBSET Chunk]

\* A chat request changes no document: it may add points, and must not come to a
\* search that misses some.
LEMMA ChatStep ==
    ASSUME IndexInv, Calm, points' \subseteq Chunk, filled' \in BOOLEAN,
           req' \in [Request -> Requests],
           \A d \in Doc :
             /\ Ids(Of(points, d)) \subseteq Ids(Of(points', d))
             /\ row[d] = "none" => /\ Of(points', d) = {}
                                   /\ \A r \in Request : Of(req'[r].hold, d) = {}
             /\ Indexed(d) \/ Unfilled(d) => Indexed(d)' \/ Unfilled(d)'
    PROVE  IndexInv'
<1>0. /\ TypeOK /\ op \in Commands /\ WholeInv /\ \A e \in Doc : DocInv(e)
      /\ UNCHANGED <<row, round, chunks, work, blank, owed, op, commands, mistaken>>
  BY DEF IndexInv, IndexTypes, Calm, docVars
<1>1. TypeOK'
  BY <1>0 DEF TypeOK, Requests, ReqSteps
<1>2. ASSUME NEW d \in Doc PROVE DocInv(d)'
  <2>0. DocInv(d)
    BY <1>0
  <2>1. Owned(d)'
    BY <1>0, <2>0 DEF DocInv, Owned, Present
  <2>2. Texts(d)'
    BY <1>0, <2>0 DEF DocInv, Texts, Fresh, Present
  <2>3. Deletes(d)'
    BY <1>0, <2>0 DEF DocInv, Deletes, Aimed, Present
  <2>4. Reachable(d)'
    <3>1. Indexed(d) => Indexed(d)'
      BY <1>0 DEF Indexed
    <3> QED BY <1>0, <2>0, <3>1 DEF DocInv, Reachable, Present
  <2>5. Reading(d)'
    BY <1>0, <2>0 DEF DocInv, Reading
  <2> QED BY <2>1, <2>2, <2>3, <2>4, <2>5 DEF DocInv
<1>3. WholeInv' /\ op' \in Commands'
  BY <1>0 DEF WholeInv, Aimed, Commands
<1> QED BY <1>1, <1>2, <1>3 DEF IndexInv, IndexTypes

\* The slot of one request.
LEMMA AnsweringSlot ==
    ASSUME TypeOK, NEW r \in Request, NEW t \in Requests, Answering(r, t)
    PROVE  /\ req'[r] = t /\ \A s \in Request \ {r} : req'[s] = req[s]
           /\ req' \in [Request -> Requests]
BY DEF Answering, TypeOK, Requests, ReqSteps

LEMMA ChatKeeps ==
    ASSUME IndexInv, NEW r \in Request, Chat(r)
    PROVE  IndexInv'
<1>0. /\ TypeOK /\ \A e \in Doc : DocInv(e)
      /\ req[r] \in Requests /\ req[r].hold \subseteq Chunk
      /\ points \subseteq Chunk /\ chunks \subseteq Chunk /\ filled \in BOOLEAN
  BY DEF IndexInv, IndexTypes, TypeOK, Requests, ReqSteps
<1>none. ASSUME NEW d \in Doc, row[d] = "none"
         PROVE  /\ Of(points, d) = {} /\ Of(chunks, d) = {}
                /\ \A s \in Request : Of(req[s].hold, d) = {}
  BY <1>0, <1>none DEF DocInv, Owned, Present, Stored
<1>1. CASE Ask(r)
  <2>1. PICK V \in SUBSET Doc, pc \in {"search", "load"} :
          /\ pc = IF filled THEN "search" ELSE "load"
          /\ Answering(r, [NoRequest EXCEPT !.pc = IF filled THEN "search" ELSE "load", !.allowed = V])
    BY <1>1 DEF Ask
  <2>3. PICK t : t = [NoRequest EXCEPT !.pc = IF filled THEN "search" ELSE "load", !.allowed = V]
    OBVIOUS
  <2>2. UNCHANGED <<filled, points, chunks, row>> /\ Calm
    BY <1>1 DEF Ask, Unindexed, Calm, docVars
  <2>4. /\ req'[r].pc = pc /\ req'[r].hold = {}
        /\ \A s \in Request \ {r} : req'[s] = req[s]
        /\ req' \in [Request -> Requests]
    <3>1. t \in Requests /\ t.pc = pc /\ t.hold = {}
      BY <1>0, <2>1, <2>3 DEF Requests, ReqSteps, NoRequest
    <3> QED BY <1>0, <2>1, <2>3, <3>1, AnsweringSlot
  <2>5. ASSUME NEW d \in Doc PROVE Indexed(d) \/ Unfilled(d) => Indexed(d)' \/ Unfilled(d)'
    BY <2>1, <2>2, <2>4 DEF Indexed, Unfilled
  <2>6. ASSUME NEW d \in Doc, row[d] = "none" PROVE \A s \in Request : Of(req'[s].hold, d) = {}
    BY <1>none, <2>4, <2>6 DEF Of
  <2> QED BY <1>0, <1>none, <2>2, <2>4, <2>5, <2>6, ChatStep
<1>2. CASE LoadChunks(r)
  <2>t. PICK t : t = [req[r] EXCEPT !.pc = "fill", !.hold = chunks]
    OBVIOUS
  <2>1. Answering(r, t)
    BY <1>2, <2>t DEF LoadChunks
  <2>2. UNCHANGED <<filled, points, chunks, row>> /\ Calm
    BY <1>2 DEF LoadChunks, Unindexed, Calm, docVars
  <2>4. /\ req'[r].pc = "fill" /\ req'[r].hold = chunks
        /\ \A s \in Request \ {r} : req'[s] = req[s]
        /\ req' \in [Request -> Requests]
    <3>1. t \in Requests /\ t.pc = "fill" /\ t.hold = chunks
      BY <1>0, <2>t DEF Requests, ReqSteps, NoRequest
    <3> QED BY <1>0, <2>1, <2>t, <3>1, AnsweringSlot
  <2>5. ASSUME NEW d \in Doc PROVE Indexed(d) \/ Unfilled(d) => Indexed(d)' \/ Unfilled(d)'
    <3>1. Of(chunks, d) \subseteq chunks
      BY DEF Of
    <3> QED BY <2>2, <2>4, <3>1 DEF Indexed, Unfilled
  <2>6. ASSUME NEW d \in Doc, row[d] = "none" PROVE \A s \in Request : Of(req'[s].hold, d) = {}
    BY <1>none, <2>4, <2>6
  <2> QED BY <1>0, <1>none, <2>2, <2>4, <2>5, <2>6, ChatStep
<1>3. CASE FillPoints(r)
  <2>t. PICK t : t = [req[r] EXCEPT !.pc = "mark", !.hold = {}]
    OBVIOUS
  <2>1. Answering(r, t) /\ req[r].pc = "fill"
    BY <1>3, <2>t DEF FillPoints
  <2>2. UNCHANGED <<filled, chunks, row>> /\ Calm
    BY <1>3 DEF FillPoints, Calm, docVars
  <2>3. PICK H \in SUBSET Chunk : H = req[r].hold /\ Upsert(H)
    BY <1>0, <1>3 DEF FillPoints
  <2>4. /\ req'[r].pc = "mark" /\ req'[r].hold = {}
        /\ \A s \in Request \ {r} : req'[s] = req[s]
        /\ req' \in [Request -> Requests]
    <3>1. t \in Requests /\ t.pc = "mark" /\ t.hold = {}
      BY <1>0, <2>t DEF Requests, ReqSteps, NoRequest
    <3> QED BY <1>0, <2>1, <2>t, <3>1, AnsweringSlot
  <2>5. /\ points' \subseteq Chunk
        /\ \A d \in Doc : /\ Ids(Of(points, d)) \subseteq Ids(Of(points', d))
                          /\ Ids(Of(H, d)) \subseteq Ids(Of(points', d))
                          /\ Of(points', d) \subseteq Of(points, d) \cup Of(H, d)
    <3>1. points' \subseteq Chunk
      BY <1>0, <2>3 DEF Upsert
    <3> QED BY <2>3, <3>1, UpsertAdds
  <2>6. ASSUME NEW d \in Doc PROVE Indexed(d) \/ Unfilled(d) => Indexed(d)' \/ Unfilled(d)'
    <3>1. CASE Indexed(d)
      BY <2>2, <2>5, <3>1 DEF Indexed
    <3>2. CASE Unfilled(d)
      <4>1. Of(chunks, d) \subseteq H
        BY <2>1, <2>3, <3>2 DEF Unfilled
      <4>2. Of(chunks, d) \subseteq Of(H, d)
        BY <4>1 DEF Of
      <4>3. Ids(Of(chunks, d)) \subseteq Ids(Of(H, d))
        BY <4>2 DEF Ids
      <4> QED BY <2>2, <2>5, <4>3 DEF Indexed
    <3> QED BY <3>1, <3>2
  <2>7. ASSUME NEW d \in Doc, row[d] = "none"
        PROVE  Of(points', d) = {} /\ \A s \in Request : Of(req'[s].hold, d) = {}
    <3>1. Of(H, d) = {} /\ Of(points, d) = {} /\ \A s \in Request : Of(req[s].hold, d) = {}
      BY <1>none, <2>3, <2>7
    <3>2. Of({}, d) = {}
      BY DEF Of
    <3> QED BY <2>4, <2>5, <3>1, <3>2
  <2> QED BY <1>0, <2>2, <2>4, <2>5, <2>6, <2>7, ChatStep
<1>4. CASE FillFails(r)
  <2>1. PICK S \in SUBSET Chunk : S \subseteq req[r].hold /\ Upsert(S)
    BY <1>0, <1>4 DEF FillFails
  <2>t. PICK t : t = NoRequest
    OBVIOUS
  <2>2. /\ UNCHANGED <<filled, chunks, row>> /\ Calm
        /\ Answering(r, NoRequest)
    BY <1>4 DEF FillFails, Calm, docVars
  <2>4. /\ req'[r].pc = "idle" /\ req'[r].hold = {}
        /\ \A s \in Request \ {r} : req'[s] = req[s]
        /\ req' \in [Request -> Requests]
    <3>1. t \in Requests /\ t.pc = "idle" /\ t.hold = {}
      BY <1>0, <2>t DEF Requests, ReqSteps, NoRequest
    <3> QED BY <1>0, <2>2, <2>t, <3>1, AnsweringSlot
  <2>5. /\ points' \subseteq Chunk
        /\ \A d \in Doc : /\ Ids(Of(points, d)) \subseteq Ids(Of(points', d))
                          /\ Of(points', d) \subseteq Of(points, d) \cup Of(S, d)
    <3>1. points' \subseteq Chunk
      BY <1>0, <2>1 DEF Upsert
    <3> QED BY <2>1, <3>1, UpsertAdds
  <2>6. ASSUME NEW d \in Doc PROVE Indexed(d) \/ Unfilled(d) => Indexed(d)' \/ Unfilled(d)'
    BY <2>2, <2>4, <2>5 DEF Indexed, Unfilled
  <2>7. ASSUME NEW d \in Doc, row[d] = "none"
        PROVE  Of(points', d) = {} /\ \A s \in Request : Of(req'[s].hold, d) = {}
    <3>1. Of(points, d) = {} /\ \A s \in Request : Of(req[s].hold, d) = {}
      BY <1>none, <2>7
    <3>2. Of({}, d) = {} /\ Of(S, d) = {}
      BY <2>1, <3>1 DEF Of
    <3> QED BY <2>4, <2>5, <3>1, <3>2
  <2> QED BY <1>0, <2>2, <2>4, <2>5, <2>6, <2>7, ChatStep
<1>5. CASE MarkFilled(r)
  <2>t. PICK t : t = [req[r] EXCEPT !.pc = "search"]
    OBVIOUS
  <2>1. Answering(r, t) /\ req[r].pc = "mark"
    BY <1>5, <2>t DEF MarkFilled
  <2>2. UNCHANGED <<points, chunks, row>> /\ Calm /\ filled' = TRUE
    BY <1>5 DEF MarkFilled, Unindexed, Calm, docVars
  <2>4. /\ req'[r].pc = "search" /\ req'[r].hold = req[r].hold
        /\ \A s \in Request \ {r} : req'[s] = req[s]
        /\ req' \in [Request -> Requests]
    <3>1. t \in Requests /\ t.pc = "search" /\ t.hold = req[r].hold
      BY <1>0, <2>t DEF Requests, ReqSteps, NoRequest
    <3> QED BY <1>0, <2>1, <2>t, <3>1, AnsweringSlot
  <2>5. ASSUME NEW d \in Doc PROVE Indexed(d) \/ Unfilled(d) => Indexed(d)'
    BY <2>1, <2>2 DEF Indexed, Unfilled
  <2>6. ASSUME NEW d \in Doc, row[d] = "none" PROVE \A s \in Request : Of(req'[s].hold, d) = {}
    BY <1>none, <2>4, <2>6
  <2> QED BY <1>0, <1>none, <2>2, <2>4, <2>5, <2>6, ChatStep
<1>6. CASE SearchPoints(r)
  <2>1. PICK H \in SUBSET points : Answering(r, [pc |-> "fetch", allowed |-> {}, hold |-> H])
    BY <1>6 DEF SearchPoints
  <2>t. PICK t : t = [pc |-> "fetch", allowed |-> {}, hold |-> H]
    OBVIOUS
  <2>2. UNCHANGED <<filled, points, chunks, row>> /\ Calm /\ req[r].pc = "search"
    BY <1>6 DEF SearchPoints, Unindexed, Calm, docVars
  <2>4. /\ req'[r].pc = "fetch" /\ req'[r].hold = H
        /\ \A s \in Request \ {r} : req'[s] = req[s]
        /\ req' \in [Request -> Requests]
    <3>1. t \in Requests /\ t.pc = "fetch" /\ t.hold = H
      BY <1>0, <2>t DEF Requests, ReqSteps, NoRequest
    <3> QED BY <1>0, <2>1, <2>t, <3>1, AnsweringSlot
  <2>5. ASSUME NEW d \in Doc PROVE Indexed(d) \/ Unfilled(d) => Indexed(d)'
    BY <2>2 DEF Indexed, Unfilled
  <2>6. ASSUME NEW d \in Doc, row[d] = "none" PROVE \A s \in Request : Of(req'[s].hold, d) = {}
    <3>1. Of(points, d) = {} /\ \A s \in Request : Of(req[s].hold, d) = {}
      BY <1>none, <2>6
    <3>2. Of(H, d) = {}
      BY <3>1 DEF Of
    <3> QED BY <2>4, <3>1, <3>2
  <2> QED BY <1>0, <1>none, <2>2, <2>4, <2>5, <2>6, ChatStep
<1>7. CASE FetchChunks(r)
  <2>t. PICK t : t = NoRequest
    OBVIOUS
  <2>2. /\ UNCHANGED <<filled, points, chunks, row>> /\ Calm
        /\ Answering(r, NoRequest)
    BY <1>7 DEF FetchChunks, Unindexed, Calm, docVars
  <2>4. /\ req'[r].pc = "idle" /\ req'[r].hold = {}
        /\ \A s \in Request \ {r} : req'[s] = req[s]
        /\ req' \in [Request -> Requests]
    <3>1. t \in Requests /\ t.pc = "idle" /\ t.hold = {}
      BY <1>0, <2>t DEF Requests, ReqSteps, NoRequest
    <3> QED BY <1>0, <2>2, <2>t, <3>1, AnsweringSlot
  <2>5. ASSUME NEW d \in Doc PROVE Indexed(d) \/ Unfilled(d) => Indexed(d)' \/ Unfilled(d)'
    BY <2>2, <2>4 DEF Indexed, Unfilled
  <2>6. ASSUME NEW d \in Doc, row[d] = "none" PROVE \A s \in Request : Of(req'[s].hold, d) = {}
    BY <1>none, <2>4, <2>6 DEF Of
  <2> QED BY <1>0, <1>none, <2>2, <2>4, <2>5, <2>6, ChatStep
<1> QED BY <1>1, <1>2, <1>3, <1>4, <1>5, <1>6, <1>7 DEF Chat

LEMMA RestartKeeps ==
    ASSUME IndexInv, RestartApi
    PROVE  IndexInv'
<1>1. /\ Calm /\ filled' = FALSE /\ UNCHANGED <<points, chunks, row>>
      /\ req' = [r \in Request |-> NoRequest]
  BY DEF RestartApi, Unindexed, Calm, docVars
<1>2. /\ req' \in [Request -> Requests]
      /\ \A r \in Request : req'[r].pc = "idle" /\ req'[r].hold = {}
  BY <1>1 DEF NoRequest, Requests, ReqSteps
<1>3. \A d \in Doc : Unfilled(d)'
  BY <1>1, <1>2 DEF Unfilled
<1>4. ASSUME NEW d \in Doc, row[d] = "none"
      PROVE  Of(points', d) = {} /\ \A r \in Request : Of(req'[r].hold, d) = {}
  BY <1>1, <1>2, <1>4 DEF IndexInv, DocInv, Owned, Of
<1>5. points' \subseteq Chunk
  BY <1>1 DEF IndexInv, IndexTypes, TypeOK
<1> QED BY <1>1, <1>2, <1>3, <1>4, <1>5, ChatStep

-----------------------------------------------------------------------------
(* The operator *)

\* A command changes no document; it takes the points of those that are gone,
\* and of those it mistakes for orphans.
LEMMA OperatorStep ==
    ASSUME IndexInv, UNCHANGED <<docVars, filled, req>>, commands' \in 0..MaxCommands,
           owed' \in [Target -> OutboxStatus], op' \in Commands,
           mistaken \subseteq mistaken', mistaken' \subseteq Doc, points' \subseteq points,
           \A d \in Doc : d \notin mistaken' /\ Present(d) => Of(points', d) = Of(points, d),
           WholeInv', \A d \in Doc : Deletes(d)' /\ Reading(d)'
    PROVE  IndexInv'
<1>0. /\ TypeOK /\ \A e \in Doc : DocInv(e)
      /\ UNCHANGED <<row, round, chunks, work, blank, filled, req>>
  BY DEF IndexInv, IndexTypes, docVars
<1>1. op'.pc \in {"idle", "scan", "apply", "report"}
  BY DEF Commands, NoCommand
<1>2. TypeOK'
  BY <1>0, <1>1 DEF TypeOK, OutboxStatus, Open
<1>3. ASSUME NEW d \in Doc PROVE DocInv(d)'
  <2>0. DocInv(d)
    BY <1>0
  <2>1. Of(points', d) \subseteq Of(points, d)
    BY DEF Of
  <2>2. Owned(d)'
    BY <1>0, <2>0, <2>1 DEF DocInv, Owned, Present
  <2>3. Texts(d)'
    BY <1>0, <2>0 DEF DocInv, Texts, Fresh, Present
  <2>4. Reachable(d)'
    <3>1. d \notin mistaken' /\ Present(d) /\ Indexed(d) => Indexed(d)'
      BY <1>0 DEF Indexed
    <3>2. Unfilled(d) => Unfilled(d)'
      BY <1>0 DEF Unfilled
    <3> QED BY <1>0, <2>0, <3>1, <3>2 DEF DocInv, Reachable, Present, Stored
  <2> QED BY <2>2, <2>3, <2>4 DEF DocInv
<1> QED BY <1>2, <1>3 DEF IndexInv, IndexTypes

\* Every command is counted, and only a new one.
LEMMA CommandCounted ==
    ASSUME IndexTypes, NEW c, Command(c), Free \/ op # NoCommand
    PROVE  /\ op' = c /\ UNCHANGED <<docVars, filled, req>>
           /\ commands' \in 0..MaxCommands
BY RetrievalAssumption DEF Command, Free, IndexTypes, TypeOK

\* A command that reads, or decides what to delete, and deletes nothing yet.
LEMMA ReadingStep ==
    ASSUME IndexInv, NEW c \in Commands, Command(c), Free \/ op # NoCommand,
           UNCHANGED <<owed, points>>, mistaken \subseteq mistaken', mistaken' \subseteq Doc,
           Whole \in Aimed' => owed[Whole] # "none",
           op'.pc = "scan" => (op'.gone => owed[Whole] # "none"),
           \A d \in Doc : /\ d \notin mistaken' /\ (Present(d) \/ row[d] = "none") => d \notin Aimed'
                          /\ Reading(d)'
    PROVE  IndexInv'
<1>0. /\ TypeOK /\ owed \in [Target -> OutboxStatus] /\ IndexTypes
      /\ \A e \in Doc : DocInv(e)
  BY DEF IndexInv, IndexTypes, TypeOK, OutboxStatus, Open
<1>1. /\ op' = c /\ UNCHANGED <<docVars, filled, req, row>>
      /\ commands' \in 0..MaxCommands
  BY <1>0, CommandCounted DEF docVars
<1>2. WholeInv'
  BY DEF WholeInv
<1>3. \A d \in Doc : Deletes(d)'
  BY <1>0, <1>1 DEF DocInv, Deletes, Present
<1> QED BY <1>0, <1>1, <1>2, <1>3, OperatorStep

LEMMA CleanKeeps ==
    ASSUME IndexInv, CleanOutbox \/ CleanWorkspace \/ CleanAll
    PROVE  IndexInv'
<1>0. /\ Free /\ UNCHANGED <<owed, mistaken, points>> /\ mistaken \subseteq Doc
      /\ \A e \in Doc : Deletes(e)
      /\ owed \in [Target -> OutboxStatus]
  BY DEF CleanOutbox, CleanWorkspace, CleanAll, Unindexed, IndexInv, IndexTypes, TypeOK, DocInv,
         OutboxStatus, Open
<1>1. /\ OutboxTargets \subseteq Target
      /\ Whole \in OutboxTargets => owed[Whole] # "none"
      /\ \A d \in Doc : d \in OutboxTargets => owed[d] # "none"
  BY DEF OutboxTargets, Open
<1>2. PICK c \in Commands :
        /\ Command(c) /\ c.pc \in {"apply", "scan"}
        /\ c.targets = OutboxTargets \/ (c.targets = {Whole} /\ WorkspaceGone)
        /\ c.pc = "scan" => (c.gone => WorkspaceGone)
  <2>1. CASE CleanOutbox
    <3>1. [pc |-> "apply", targets |-> OutboxTargets] \in Commands
      BY <1>1 DEF Commands
    <3> QED BY <2>1, <3>1 DEF CleanOutbox
  <2>2. CASE CleanWorkspace
    <3>1. [pc |-> "apply", targets |-> {Whole}] \in Commands
      BY Targets DEF Commands
    <3> QED BY <2>2, <3>1 DEF CleanWorkspace
  <2>3. CASE CleanAll
    <3>1. PICK c : c = [pc |-> "scan", known |-> {d \in Doc : Present(d)},
                        gone |-> WorkspaceGone, targets |-> OutboxTargets]
      OBVIOUS
    <3>2. WorkspaceGone \in BOOLEAN
      BY DEF WorkspaceGone
    <3>3. c \in Commands
      BY <1>1, <3>1, <3>2 DEF Commands
    <3>4. Command(c)
      BY <2>3, <3>1 DEF CleanAll
    <3>5. c.pc = "scan" /\ c.targets = OutboxTargets /\ c.gone = WorkspaceGone
      BY <3>1
    <3> QED BY <3>3, <3>4, <3>5
  <2> QED BY <2>1, <2>2, <2>3
<1>3. op' = c
  BY <1>2 DEF Command
<1>4. Whole \in Aimed' => owed[Whole] # "none"
  BY <1>1, <1>2, <1>3 DEF Aimed, WorkspaceGone
<1>5. ASSUME NEW d \in Doc
      PROVE  /\ d \notin mistaken' /\ (Present(d) \/ row[d] = "none") => d \notin Aimed'
             /\ Reading(d)'
  BY <1>0, <1>1, <1>2, <1>3, Targets DEF Aimed, Reading, Deletes
<1>6. op'.pc = "scan" => (op'.gone => owed[Whole] # "none")
  BY <1>2, <1>3 DEF WorkspaceGone
<1> QED BY <1>0, <1>2, <1>4, <1>5, <1>6, ReadingStep

LEMMA ScrollKeeps ==
    ASSUME IndexInv, ScrollPoints
    PROVE  IndexInv'
<1>0. /\ TypeOK /\ op \in Commands /\ WholeInv /\ \A e \in Doc : DocInv(e)
      /\ op.pc = "scan" /\ UNCHANGED <<owed, points>>
      /\ mistaken' = mistaken \cup {d \in Orphans \ op.known : Present(d)}
  BY DEF ScrollPoints, Unindexed, IndexInv, IndexTypes
<1>1. op.targets \subseteq Target /\ op.gone \in BOOLEAN /\ op # NoCommand
  BY <1>0 DEF Commands, NoCommand
<1>2. PICK T : T = op.targets \cup (IF op.gone /\ points # {} THEN {Whole} ELSE Orphans)
  OBVIOUS
<1>3. Orphans \subseteq Doc
  BY <1>0 DEF Orphans, TypeOK, Chunk
<1>4. T \subseteq Target
  BY <1>1, <1>2, <1>3, Targets
<1>5. PICK c : c = [pc |-> "apply", targets |-> T]
  OBVIOUS
<1>6. c \in Commands /\ c.pc = "apply" /\ c.targets = T
  BY <1>4, <1>5 DEF Commands
<1>7. Command(c) /\ op' = c
  BY <1>2, <1>5 DEF ScrollPoints, Command
<1>8. Whole \in Aimed' => owed[Whole] # "none"
  BY <1>0, <1>2, <1>3, <1>6, <1>7, Targets DEF Aimed, WholeInv
<1>9. ASSUME NEW d \in Doc, d \notin mistaken', Present(d) \/ row[d] = "none"
      PROVE  d \notin T
  <2>1. d \notin op.targets
    BY <1>0, <1>9 DEF DocInv, Deletes, Aimed
  <2>2. d \notin Orphans
    BY <1>0, <1>9 DEF DocInv, Owned, Orphans, Of
  <2> QED BY <1>2, <2>1, <2>2, Targets
<1>10. mistaken \subseteq mistaken' /\ mistaken' \subseteq Doc
  BY <1>0, <1>3 DEF TypeOK
<1>11. \A d \in Doc : Reading(d)'
  BY <1>6, <1>7 DEF Reading
<1>12. \A d \in Doc : d \notin mistaken' /\ (Present(d) \/ row[d] = "none") => d \notin Aimed'
  BY <1>6, <1>7, <1>9 DEF Aimed
<1>13. op'.pc # "scan"
  BY <1>6, <1>7
<1> QED BY <1>0, <1>1, <1>6, <1>7, <1>8, <1>10, <1>11, <1>12, <1>13, ReadingStep

LEMMA ApplyKeeps ==
    ASSUME IndexInv, NEW t \in Target, ApplyTarget(t)
    PROVE  IndexInv'
<1>0. /\ TypeOK /\ op \in Commands /\ WholeInv /\ IndexTypes /\ \A e \in Doc : DocInv(e)
      /\ op.pc = "apply" /\ t \in op.targets /\ UNCHANGED mistaken /\ mistaken \subseteq Doc
  BY DEF ApplyTarget, IndexInv, IndexTypes, TypeOK
<1>1. PICK c : c = [op EXCEPT !.targets = op.targets \ {t}]
  OBVIOUS
<1>2. op \in [pc : {"apply"}, targets : SUBSET Target] /\ op # NoCommand
  BY <1>0 DEF Commands, NoCommand
<1>3. c \in Commands /\ c.pc = "apply" /\ c.targets = op.targets \ {t}
  BY <1>1, <1>2 DEF Commands
<1>4. Command(c)
  BY <1>1 DEF ApplyTarget
<1>5. /\ op' = c /\ UNCHANGED <<docVars, filled, req, row>> /\ commands' \in 0..MaxCommands
  BY <1>0, <1>2, <1>4, CommandCounted DEF docVars
<1>6. /\ \/ DeletePoints(t) /\ UNCHANGED owed
         \/ UNCHANGED points /\ owed' \in {owed, [owed EXCEPT ![t] = "waiting"]}
      /\ owed \in [Target -> OutboxStatus]
  BY <1>0 DEF ApplyTarget, Unindexed, TypeOK, OutboxStatus, Open
<1>7. /\ owed' \in [Target -> OutboxStatus]
      /\ \A s \in Target \ {t} : owed'[s] = owed[s]
      /\ owed[t] # "none" => owed'[t] # "none"
      /\ owed'[t] = owed[t] \/ owed'[t] = "waiting"
  BY <1>6 DEF OutboxStatus
<1>8. Aimed = op.targets /\ Aimed' = op.targets \ {t}
  BY <1>0, <1>3, <1>5 DEF Aimed
<1>9. WholeInv'
  BY <1>0, <1>3, <1>5, <1>7, <1>8, Targets DEF WholeInv
<1>10. ASSUME NEW d \in Doc PROVE Deletes(d)' /\ Reading(d)'
  <2>1. Deletes(d) /\ (t = Whole => owed[Whole] # "none") /\ (t = d => d \in Aimed)
    BY <1>0, <1>8 DEF DocInv, WholeInv
  <2>2. Deletes(d)'
    BY <1>0, <1>5, <1>7, <1>8, <2>1, Targets DEF Deletes, Present
  <2> QED BY <1>3, <1>5, <2>2 DEF Reading
<1>11. points' \subseteq points
  BY <1>6 DEF DeletePoints
<1>12. ASSUME NEW d \in Doc, d \notin mistaken', Present(d) PROVE Of(points', d) = Of(points, d)
  <2>1. t # d /\ t # Whole
    BY <1>0, <1>8, <1>12 DEF DocInv, Deletes, WholeInv
  <2> QED BY <1>6, <2>1, DeleteTakes
<1> QED BY <1>0, <1>3, <1>5, <1>7, <1>9, <1>10, <1>11, <1>12, OperatorStep

-----------------------------------------------------------------------------
(* The report *)

Report == [pc : {"report"}, next : 1..5, born : SUBSET Doc, live : SUBSET Doc,
           owed : [Target -> OutboxStatus], events : SUBSET Doc, probe : SUBSET Doc]

\* A report deletes nothing: what it has read is all that matters.
LEMMA ReportStep ==
    ASSUME IndexInv, NEW c \in Report, Command(c), Free \/ op # NoCommand,
           UNCHANGED <<owed, points, mistaken>>, \A d \in Doc : Reading(d)'
    PROVE  IndexInv'
<1>1. c \in Commands /\ c.pc = "report" /\ op' = c
  BY DEF Report, Commands, Command
<1>2. mistaken \subseteq Doc
  BY DEF IndexInv, IndexTypes, TypeOK
<1>3. Aimed' = {} /\ op'.pc # "scan"
  BY <1>1 DEF Aimed
<1> QED BY <1>1, <1>2, <1>3, ReadingStep

LEMMA StartKeeps ==
    ASSUME IndexInv, StartReport
    PROVE  IndexInv'
<1>1. PICK c : c = [pc |-> "report", next |-> 1, born |-> {}, live |-> {},
                    owed |-> owed, events |-> {}, probe |-> {}]
  OBVIOUS
<1>2. owed \in [Target -> OutboxStatus]
  BY DEF IndexInv, IndexTypes, TypeOK, OutboxStatus, Open
<1>3. c \in Report /\ c.born = {}
  BY <1>1, <1>2 DEF Report
<1>4. /\ Free /\ Command(c) /\ UNCHANGED <<owed, points, mistaken>> /\ op' = c
  BY <1>1 DEF StartReport, Command, Unindexed
<1>5. \A d \in Doc : Reading(d)'
  BY <1>3, <1>4 DEF Reading
<1> QED BY <1>3, <1>4, <1>5, ReportStep

\* After the live rows the documents born and not live are gone; after the outbox
\* rows, what is known of their deletion holds until it is done.
LEMMA ReadKeeps ==
    ASSUME IndexInv, ReadNext
    PROVE  IndexInv'
<1>0. /\ TypeOK /\ op \in Commands /\ \A e \in Doc : DocInv(e)
      /\ op.pc = "report" /\ UNCHANGED <<owed, points, mistaken>>
      /\ op.next <= Len(ReportReads)
  BY DEF ReadNext, Unindexed, IndexInv, IndexTypes
<1>1. op \in Report /\ op # NoCommand /\ op.next \in 1..4
  BY <1>0 DEF Commands, NoCommand, Report, ReportReads
<1>2. owed \in [Target -> OutboxStatus] /\ IndexTypes
  BY <1>0 DEF TypeOK, OutboxStatus, Open, IndexTypes
<1>3. PICK after : after = [op EXCEPT !.next = op.next + 1]
  OBVIOUS
<1>4. /\ after \in Report /\ after.next = op.next + 1
      /\ after.born = op.born /\ after.live = op.live /\ after.owed = op.owed
  BY <1>1, <1>3 DEF Report
<1>5. UNCHANGED row
  BY DEF ReadNext, Command, docVars
<1>6. CASE op.next = 1
  <2>c. PICK s : s = [after EXCEPT !.live = {d \in Doc : Present(d)}]
    OBVIOUS
  <2>s. s \in Report /\ s.next = 2 /\ s.live = {d \in Doc : Present(d)}
    BY <1>4, <1>6, <2>c DEF Report
  <2>e. PICK c : c = [s EXCEPT !.born = {d \in Doc : row[d] # "none"}]
    OBVIOUS
  <2>1. c = [after EXCEPT !.live = {d \in Doc : Present(d)},
                         !.born = {d \in Doc : row[d] # "none"}]
    BY <2>c, <2>e
  <2>0. ReportReads[op.next] = "live"
    BY <1>6 DEF ReportReads
  <2>2. Command(c)
    BY <1>3, <2>0, <2>1 DEF ReadNext
  <2>p. op' = c
    BY <2>2 DEF Command
  <2>3. /\ c \in Report /\ c.next = 2
        /\ c.live = {d \in Doc : Present(d)} /\ c.born = {d \in Doc : row[d] # "none"}
    BY <2>s, <2>e DEF Report
  <2>4. ASSUME NEW d \in Doc PROVE Reading(d)'
    <3>1. row[d] \in Stored \cup {"none", "gone", "undone"}
      BY <1>0 DEF TypeOK
    <3> QED BY <1>5, <2>p, <2>3, <3>1 DEF Reading, Present
  <2> QED BY <1>0, <1>1, <2>2, <2>3, <2>4, ReportStep
<1>7. CASE op.next = 2
  <2>1. PICK c : c = [after EXCEPT !.owed = owed]
    OBVIOUS
  <2>0. ReportReads[op.next] = "owed"
    BY <1>7 DEF ReportReads
  <2>2. Command(c)
    BY <1>3, <2>0, <2>1 DEF ReadNext
  <2>p. op' = c
    BY <2>2 DEF Command
  <2>3. c \in Report /\ c.next = 3 /\ c.live = op.live /\ c.born = op.born /\ c.owed = owed
    BY <1>2, <1>4, <1>7, <2>1 DEF Report
  <2>4. ASSUME NEW d \in Doc PROVE Reading(d)'
    <3>1. Reading(d) /\ Deletes(d)
      BY <1>0 DEF DocInv
    <3> QED BY <1>0, <1>5, <1>7, <2>p, <2>3, <3>1 DEF Reading, Deletes
  <2> QED BY <1>0, <1>1, <2>2, <2>3, <2>4, ReportStep
<1>8. CASE op.next \in {3, 4}
  <2>1. PICK c : \/ op.next = 3 /\ c = [after EXCEPT !.events = {d \in Doc : row[d] = "gone"}]
                 \/ op.next = 4 /\ c = [after EXCEPT !.probe = {p.doc : p \in points}]
    BY <1>8
  <2>2. Command(c) /\ op' = c
    BY <1>3, <1>8, <2>1 DEF ReadNext, ReportReads, Command
  <2>3. {p.doc : p \in points} \subseteq Doc
    BY <1>0 DEF TypeOK, Chunk
  <2>4. /\ c \in Report /\ c.next = op.next + 1
        /\ c.live = op.live /\ c.born = op.born /\ c.owed = op.owed
    BY <1>4, <2>1, <2>3 DEF Report
  <2>5. ASSUME NEW d \in Doc PROVE Reading(d)'
    <3>1. Reading(d)
      BY <1>0 DEF DocInv
    <3> QED BY <1>0, <1>5, <1>8, <2>2, <2>4, <3>1 DEF Reading
  <2> QED BY <1>0, <1>1, <2>2, <2>4, <2>5, ReportStep
<1> QED BY <1>1, <1>6, <1>7, <1>8

LEMMA EndKeeps ==
    ASSUME IndexInv, EndCommand
    PROVE  IndexInv'
<1>1. /\ Command(NoCommand) /\ UNCHANGED <<owed, mistaken, points>> /\ op # NoCommand
  BY DEF EndCommand, Unindexed, Reported, NoCommand
<1>2. NoCommand \in Commands /\ NoCommand.pc = "idle" /\ mistaken \subseteq Doc
  BY DEF Commands, NoCommand, IndexInv, IndexTypes, TypeOK
<1>3. op' = NoCommand
  BY <1>1 DEF Command
<1>4. Aimed' = {} /\ op'.pc # "scan" /\ \A d \in Doc : Reading(d)'
  BY <1>2, <1>3 DEF Aimed, Reading
<1> QED BY <1>1, <1>2, <1>4, ReadingStep

-----------------------------------------------------------------------------
(* The invariant holds *)

LEMMA IndexInit == Init => IndexInv
<1> SUFFICES ASSUME Init PROVE IndexInv
  OBVIOUS
<1>1. PICK old \in SUBSET Doc :
        /\ row = [d \in Doc |-> IF d \in old THEN "completed" ELSE "none"]
        /\ round = [d \in Doc |-> IF d \in old THEN 1 ELSE 0]
        /\ chunks = [doc : old, index : ChunkIndex, born : {1}, round : {1}]
  BY DEF Init
<1>2. /\ points = {} /\ work = [d \in Doc |-> Idle] /\ blank = {} /\ filled = FALSE
      /\ req = [r \in Request |-> NoRequest] /\ owed = [t \in Target |-> "none"]
      /\ op = NoCommand /\ commands = 0 /\ mistaken = {}
  BY DEF Init
<1>3. chunks \subseteq Chunk
  <2>1. 1 \in 1..MaxRounds
    BY RetrievalAssumption
  <2> QED BY <1>1, <2>1 DEF Chunk
<1>4. TypeOK
  <2>1. /\ row \in [Doc -> Stored \cup {"none", "gone", "undone"}]
        /\ round \in [Doc -> 0..MaxRounds]
    BY <1>1, RetrievalAssumption DEF Stored
  <2>2. work \in [Doc -> [pc : {"idle", "save", "check", "drop", "upsert", "complete"},
                         hold : SUBSET Chunk]]
    BY <1>2 DEF Idle
  <2>3. req \in [Request -> [pc : {"idle", "load", "fill", "mark", "search", "fetch"},
                            allowed : SUBSET Doc, hold : SUBSET Chunk]]
    BY <1>2 DEF NoRequest
  <2>4. commands \in 0..MaxCommands /\ op.pc = "idle"
    BY <1>2, RetrievalAssumption DEF NoCommand
  <2> QED BY <1>2, <1>3, <2>1, <2>2, <2>3, <2>4 DEF TypeOK
<1>5. op \in Commands /\ op.pc = "idle" /\ WholeInv
  BY <1>2 DEF Commands, NoCommand, WholeInv, Aimed
<1>6. ASSUME NEW d \in Doc PROVE DocInv(d)
  <2>1. /\ work[d].pc = "idle" /\ work[d].hold = {} /\ work[d] = Idle
        /\ \A r \in Request : req[r].pc = "idle" /\ req[r].hold = {}
        /\ owed[d] = "none" /\ owed[Whole] = "none"
        /\ row[d] \in {"completed", "none"}
    BY <1>1, <1>2, Targets DEF Idle, NoRequest
  <2>2. Of(points, d) = {} /\ Of({}, d) = {}
    BY <1>2 DEF Of
  <2>3. row[d] = "completed" => round[d] = 1
    BY <1>1
  <2>4. row[d] # "completed" => Of(chunks, d) = {}
    BY <1>1 DEF Of
  <2>5. \A c \in chunks : c.round = 1
    BY <1>1
  <2>6. Owned(d)
    BY <2>1, <2>2, <2>4 DEF Owned, Present, Stored
  <2>7. Texts(d)
    BY <2>1, <2>3, <2>5 DEF Texts, Fresh, Of
  <2>8. Deletes(d)
    BY <1>5, <2>1 DEF Deletes, Aimed
  <2>9. Reachable(d)
    BY <1>2, <2>1 DEF Reachable, Unfilled
  <2>10. Reading(d)
    BY <1>5 DEF Reading
  <2> QED BY <2>6, <2>7, <2>8, <2>9, <2>10 DEF DocInv
<1> QED BY <1>4, <1>5, <1>6 DEF IndexInv, IndexTypes

LEMMA IndexStep ==
    ASSUME IndexInv, [Next]_vars
    PROVE  IndexInv'
<1>1. CASE \E d \in Doc : Begin(d) \/ Worker(d)
  BY <1>1, BeginKeeps, SaveKeeps, SaveNothingKeeps, CheckKeeps, DropKeeps, UpsertKeeps,
     CompleteKeeps, FailKeeps DEF Worker
<1>2. CASE \E r \in Request : Chat(r)
  BY <1>2, ChatKeeps
<1>3. CASE Deletion
  BY <1>3, DeleteDocumentKeeps, DeliveryKeeps, DeleteWorkspaceKeeps DEF Deletion
<1>4. CASE RestartApi
  BY <1>4, RestartKeeps
<1>5. CASE Operator
  BY <1>5, CleanKeeps, ScrollKeeps, EndKeeps, ApplyKeeps, StartKeeps, ReadKeeps DEF Operator
<1>6. CASE UNCHANGED vars
  <2>1. UNCHANGED <<row, round, chunks, work, blank, points, filled, req, owed, op, commands, mistaken>>
    BY <1>6 DEF vars, docVars
  <2>2. IndexTypes' /\ WholeInv'
    BY <2>1 DEF IndexInv, IndexTypes, TypeOK, WholeInv, Aimed, Commands
  <2>3. \A d \in Doc : DocInv(d)'
    BY <2>1, Apart DEF IndexInv, Of
  <2> QED BY <2>2, <2>3 DEF IndexInv
<1> QED BY <1>1, <1>2, <1>3, <1>4, <1>5, <1>6 DEF Next

LEMMA IndexInvariant == Spec => []IndexInv
BY IndexInit, IndexStep, PTL DEF Spec

-----------------------------------------------------------------------------
(* The theorems *)

\* Rows, points, workers, requests, outbox rows and the operator's command stay
\* of their types, under ingestion, chat, deletion and the commands.
THEOREM TypeCorrect == Spec => []TypeOK
<1>1. IndexInv => TypeOK
  BY DEF IndexInv, IndexTypes
<1> QED BY <1>1, IndexInvariant, PTL

\* What a search found is shown with the text of the document's last ingestion:
\* the rows of a COMPLETED document are all of its last round, whichever points
\* led to them.
THEOREM AnswerFromLatestRoundHolds == Spec => []AnswerFromLatestRound
<1>1. ASSUME IndexInv PROVE AnswerFromLatestRound
  <2>1. SUFFICES ASSUME NEW r \in Request, req[r].pc = "fetch", NEW c \in Shown(r)
                 PROVE  c.doc \in blank \/ c.round = round[c.doc]
    BY DEF AnswerFromLatestRound
  <2>2. c \in chunks /\ row[c.doc] = "completed" /\ c.doc \in Doc
    BY <1>1, <2>1 DEF Shown, IndexInv, IndexTypes, TypeOK, Chunk
  <2> QED BY <1>1, <2>2 DEF IndexInv, DocInv, Texts, Fresh, Of
<1> QED BY <1>1, IndexInvariant, PTL

\* The report calls what is left of a deleted document unrecovered or unexplained
\* only when the outbox row of its deletion is PROCESSED: because live rows are
\* read before outbox rows, and a row that has become PROCESSED stays so.
THEOREM AlarmMeansNobodyOwesHolds == Spec => []AlarmMeansNobodyOwes
<1>1. ASSUME IndexInv PROVE AlarmMeansNobodyOwes
  <2>1. SUFFICES ASSUME Reported, NEW d \in Residue \cap op.born, row[d] = "gone",
                        Class(d) \in {"unrecovered", "unexplained"}
                 PROVE  owed[IF owed[d] # "none" THEN d ELSE Whole] = "PROCESSED"
    BY DEF AlarmMeansNobodyOwes
  <2>2. op \in Report /\ op.next = 5
    <3>1. op.pc = "report" /\ op.next > 4
      BY <2>1 DEF Reported, ReportReads
    <3> QED BY <1>1, <3>1 DEF IndexInv, IndexTypes, Commands, NoCommand, Report
  <2>3. d \in Doc /\ d \in op.born \ op.live
    BY <2>1, <2>2 DEF Residue, Report
  <2>4. Reading(d)
    BY <1>1, <2>3 DEF IndexInv, DocInv
  <2>5. "waiting" \notin OwedTo(d) /\ "DEAD" \notin OwedTo(d)
    BY <2>1 DEF Class
  <2>6. \A t \in {d, Whole} : op.owed[t] \notin Open
    BY <2>3, <2>5, Targets DEF OwedTo, Covers, Open
  <2>7. \A t \in {d, Whole} : op.owed[t] \in {"none", "PROCESSED"}
    BY <2>2, <2>3, <2>6, Targets DEF Report, OutboxStatus, Open
  <2>8. op.pc = "report" /\ op.next > 2
    BY <2>2 DEF Report
  <2> QED BY <2>1, <2>3, <2>4, <2>7, <2>8 DEF Reading
<1> QED BY <1>1, IndexInvariant, PTL

\* A search reaches every chunk of every COMPLETED document it may show, but for
\* the two known gaps: a document either has all its points by then, or nobody
\* has back-filled, and then no request is as far as the search.
THEOREM SearchReachesCompletedHolds == Spec => SearchReachesCompleted
<1>1. ASSUME IndexInv, [Next]_vars,
             NEW r \in Request, req[r].pc = "search", req'[r].pc = "fetch",
             NEW c \in chunks, c.doc \in req[r].allowed \ (mistaken \cup blank),
             row[c.doc] = "completed"
      PROVE  Id(c) \in Ids(req'[r].hold)
  <2>0. /\ TypeOK /\ req[r] \in Requests /\ c.doc \in Doc
    BY <1>1 DEF IndexInv, IndexTypes, TypeOK, Requests, ReqSteps, Chunk
  <2>1. SearchPoints(r)
    <3>1. CASE \E s \in Request : Chat(s)
      <4>1. PICK s \in Request : Chat(s)
        BY <3>1
      <4>2. \E t : req' = [req EXCEPT ![s] = t]
        BY <4>1 DEF Chat, Ask, LoadChunks, FillPoints, FillFails, MarkFilled, SearchPoints,
                    FetchChunks, Answering
      <4>3. s = r
        BY <1>1, <2>0, <4>2 DEF TypeOK
      <4> QED BY <1>1, <4>1, <4>3 DEF Chat, Ask, LoadChunks, FillPoints, FillFails, MarkFilled,
                                      FetchChunks
    <3>2. CASE RestartApi
      BY <1>1, <3>2 DEF RestartApi, NoRequest
    <3>3. CASE Deletion
      <4>1. UNCHANGED req
        BY <3>3 DEF Deletion, DeleteDocument, UndoUpload, Deliver, LastDeliveryFails,
                    DeleteWorkspace, Quiet
      <4> QED BY <1>1, <4>1
    <3>4. CASE Operator
      <4>1. UNCHANGED req
        BY <3>4 DEF Operator, CleanOutbox, CleanWorkspace, CleanAll, ScrollPoints, EndCommand,
                    ApplyTarget, StartReport, ReadNext, Command
      <4> QED BY <1>1, <4>1
    <3>5. CASE \E d \in Doc : Begin(d) \/ Worker(d)
      <4>1. UNCHANGED req
        BY <3>5 DEF Worker, Begin, Save, SaveNothing, CheckDocument, DropPoints, UpsertPoints,
                    Complete, StepFails, Beside
      <4> QED BY <1>1, <4>1
    <3>6. CASE UNCHANGED vars
      BY <1>1, <3>6 DEF vars
    <3> QED BY <1>1, <3>1, <3>2, <3>3, <3>4, <3>5, <3>6 DEF Next
  <2>2. Indexed(c.doc)
    BY <1>1, <2>0 DEF IndexInv, DocInv, Reachable, Unfilled
  <2>3. PICK p \in Of(points, c.doc) : Id(p) = Id(c)
    BY <2>2 DEF Indexed, Ids, Of
  <2>4. req'[r].hold = {q \in points : q.doc \in req[r].allowed}
    <3>1. PICK t : t = [pc |-> "fetch", allowed |-> {},
                        hold |-> {q \in points : q.doc \in req[r].allowed}]
      OBVIOUS
    <3>2. req' = [req EXCEPT ![r] = t] /\ t.hold = {q \in points : q.doc \in req[r].allowed}
      BY <2>1, <3>1 DEF SearchPoints, Answering
    <3> QED BY <2>0, <3>2 DEF TypeOK
  <2>5. p \in req'[r].hold
    BY <1>1, <2>3, <2>4 DEF Of
  <2> QED BY <2>3, <2>5 DEF Ids
<1>2. ASSUME IndexInv, [Next]_vars
      PROVE  [\A r \in Request : req[r].pc = "search" /\ req'[r].pc = "fetch" =>
                 \A c \in chunks :
                    /\ c.doc \in req[r].allowed \ (mistaken \cup blank)
                    /\ row[c.doc] = "completed"
                    => Id(c) \in Ids(req'[r].hold)]_vars
  BY <1>1, <1>2
<1> QED BY <1>2, IndexInvariant, PTL DEF Spec, SearchReachesCompleted
=============================================================================
