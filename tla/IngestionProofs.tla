-------------------------- MODULE IngestionProofs --------------------------
(***************************************************************************)
(* Safety of the durable ingestion queue for any number of documents,      *)
(* workers, rounds, attempts and claims, and that the queue implements the *)
(* document life cycle of DocumentIngestion (first part, IngestionJobs).   *)
(* The workers and the API handlers use the queue only through its         *)
(* statements, and only with claims the queue gave them: IngestionWorker   *)
(* implements IngestionJobs, so what is proved of the queue holds of the   *)
(* running system (second part, IngestionWorker).                          *)
(***************************************************************************)
EXTENDS IngestionJobsRefinement, IngestionWorker, FiniteSetTheorems, TLAPS

-----------------------------------------------------------------------------
(* Part one: the queue *)

\* The default of an unclaimed row is a worker id.
LEMMA AnyWorkerType == AnyWorker \in Worker
BY WorkerAssumption DEF AnyWorker

\* An empty slot of the job table is a typed row.
LEMMA NoRowType == NoRow \in JobRow
BY AnyWorkerType DEF NoRow, JobRow

\* A document's slots are job ids.
LEMMA JobType == \A d \in Doc, n \in 1..MaxRounds : <<d, n>> \in Job
BY DEF Job

\* A job id is a document and one of its rounds.
LEMMA JobParts == \A j \in Job : /\ j[1] \in Doc /\ j[2] \in 1..MaxRounds
                                 /\ j = <<j[1], j[2]>>
BY DEF Job

\* What an insert does to the table, from its definition.
LEMMA EnqueueRow ==
    ASSUME TypeOK, NEW d \in Doc, NEW max \in RowMax, EnqueueJob(d, max)
    PROVE  \E n \in 1..MaxRounds :
             /\ job[<<d, n>>].status = "absent"
             /\ \A m \in 1..(n - 1) : job[<<d, m>>].status # "absent"
             /\ job' = [job EXCEPT ![<<d, n>>] =
                          [status |-> "QUEUED", max |-> max, attempts |-> 0, due |-> TRUE,
                           live |-> FALSE, by |-> AnyWorker, token |-> 0]]
BY ZenonT(40) DEF EnqueueJob, NoRow

-----------------------------------------------------------------------------
\* The tables of a fresh or a legacy database are typed.
THEOREM InitTypeOK == Init => TypeOK
<1> SUFFICES ASSUME Init PROVE TypeOK
  OBVIOUS
<1>1. doc \in [Doc -> DocRow]
  BY DEF Init, DocRow, Stages
<1>2. job \in [Job -> JobRow]
  BY NoRowType DEF Init
<1> QED
  BY <1>1, <1>2 DEF Init, TypeOK

\* Types survive every step.
THEOREM NextTypeOK == TypeOK /\ [Next]_queueVars => TypeOK'
<1> SUFFICES ASSUME TypeOK, [Next]_queueVars PROVE TypeOK'
  OBVIOUS
<1> USE AnyWorkerType
<1>e. ASSUME NEW d \in Doc, NEW max \in RowMax, EnqueueJob(d, max)
      PROVE  job' \in [Job -> JobRow]
  <2>1. PICK n \in 1..MaxRounds :
          job' = [job EXCEPT ![<<d, n>>] =
                    [status |-> "QUEUED", max |-> max, attempts |-> 0, due |-> TRUE,
                     live |-> FALSE, by |-> AnyWorker, token |-> 0]]
    BY <1>e, EnqueueRow
  <2>2. <<d, n>> \in Job /\ max \in Nat
    BY JobType, RowMaxAssumption
  <2> QED
    BY <2>1, <2>2 DEF TypeOK, JobRow
<1>1. ASSUME NEW d \in Doc, Upload(d) PROVE TypeOK'
  BY <1>1, <1>e DEF Upload, TypeOK, DocRow, Stages
<1>2. ASSUME NEW d \in Doc, NEW eligible, Requeue(d, eligible) PROVE TypeOK'
  BY <1>2, <1>e DEF Requeue, TypeOK, DocRow, Stages
<1>3. ASSUME NEW d \in Doc, DeleteDocument(d) PROVE TypeOK'
  <2>1. job' \in [Job -> JobRow]
    BY <1>3 DEF DeleteDocument, TypeOK, JobRow
  <2> QED
    BY <1>3, <2>1 DEF DeleteDocument, TypeOK, DocRow
<1>4. ASSUME NEW w \in Worker, NEW S \in SUBSET Job, ClaimJobs(w, S) PROVE TypeOK'
  <2> DEFINE New == {[job |-> j, worker |-> w, token |-> nextToken] : j \in S}
  <2>1. /\ job' = [j \in Job |->
                    IF j \in S
                    THEN [job[j] EXCEPT !.status = "PROCESSING", !.by = w,
                            !.token = nextToken, !.live = TRUE, !.attempts = @ + 1]
                    ELSE job[j]]
        /\ claims' = claims \cup New
        /\ nextToken' = nextToken + 1
        /\ doc' = doc /\ settled' = settled
    BY <1>4 DEF ClaimJobs
  <2>2. job' \in [Job -> JobRow]
    <3> SUFFICES ASSUME NEW j \in Job
                 PROVE  [job[j] EXCEPT !.status = "PROCESSING", !.by = w,
                           !.token = nextToken, !.live = TRUE, !.attempts = @ + 1] \in JobRow
      BY <2>1 DEF TypeOK
    <3>1. job[j] \in JobRow /\ job[j].attempts + 1 \in Nat /\ nextToken \in Nat
      BY DEF TypeOK, JobRow
    <3> QED
      BY <3>1 DEF JobRow
  <2>3. New \subseteq Claim
    BY DEF TypeOK, Claim
  <2>4. nextToken \in Nat \ {0}
    BY DEF TypeOK
  <2>5. nextToken' = nextToken + 1
    BY <2>1
  <2>6. nextToken' \in Nat \ {0}
    BY <2>4, <2>5
  <2>7. claims' = claims \cup New /\ doc' = doc /\ settled' = settled
    BY <2>1
  <2> HIDE DEF New
  <2>8. claims' \in SUBSET Claim /\ settled' \in SUBSET claims'
    BY <2>3, <2>7 DEF TypeOK
  <2>9. doc' \in [Doc -> DocRow]
    BY <2>7 DEF TypeOK
  <2> QED
    BY <2>2, <2>6, <2>8, <2>9 DEF TypeOK
<1>5. ASSUME NEW c \in claims, ClaimStep(c) PROVE TypeOK'
  <2>c. c \in Claim /\ c.job \in Job /\ c.job[1] \in Doc
    BY JobParts DEF TypeOK, Claim
  <2>1. CASE ExtendLease(c)
    BY <2>c, <2>1, ZenonT(40) DEF ExtendLease, TypeOK, JobRow
  <2>2. ASSUME NEW stage \in RunningStages, SetStage(c, stage) PROVE TypeOK'
    BY <2>c, <2>2, StagesAssumption DEF SetStage, TypeOK, DocRow, Stages
  <2>3. CASE Complete(c)
    <3> DEFINE row == [job[c.job] EXCEPT !.status = "SUCCEEDED", !.live = FALSE]
    <3>1. row \in JobRow
      <4>1. job[c.job] \in JobRow
        BY <2>c DEF TypeOK
      <4> QED
        BY <4>1 DEF JobRow
    <3>2. job' = [job EXCEPT ![c.job] = row]
      BY <2>c, <2>3 DEF Complete, TypeOK
    <3> HIDE DEF row
    <3>3. job' \in [Job -> JobRow]
      BY <2>c, <3>1, <3>2, SMTT(30) DEF TypeOK
    <3>4. doc' \in [Doc -> DocRow]
      BY <2>c, <2>3 DEF Complete, TypeOK, DocRow, Stages
    <3> QED
      BY <2>3, <3>3, <3>4 DEF Complete, TypeOK
  <2>4. CASE FailRetryable(c)
    <3> DEFINE row == [job[c.job] EXCEPT !.status = "QUEUED", !.due = FALSE,
                         !.live = FALSE, !.by = AnyWorker, !.token = 0]
    <3>1. row \in JobRow
      <4>1. job[c.job] \in JobRow
        BY <2>c DEF TypeOK
      <4> QED
        BY <4>1 DEF JobRow
    <3>2. job' = [job EXCEPT ![c.job] = row]
      BY <2>4 DEF FailRetryable
    <3> HIDE DEF row
    <3>3. job' \in [Job -> JobRow]
      BY <2>c, <3>1, <3>2, SMTT(30) DEF TypeOK
    <3>4. doc' \in [Doc -> DocRow]
      BY <2>c, <2>4 DEF FailRetryable, TypeOK, DocRow, Stages
    <3> QED
      BY <2>4, <3>3, <3>4 DEF FailRetryable, TypeOK
  <2>5. ASSUME NEW retryable \in BOOLEAN, FailDead(c, retryable) PROVE TypeOK'
    <3> DEFINE row == [job[c.job] EXCEPT !.status = "DEAD", !.live = FALSE]
    <3>1. row \in JobRow
      <4>1. job[c.job] \in JobRow
        BY <2>c DEF TypeOK
      <4> QED
        BY <4>1 DEF JobRow
    <3>2. job' = [job EXCEPT ![c.job] = row]
      BY <2>c, <2>5 DEF FailDead, TypeOK
    <3> HIDE DEF row
    <3>3. job' \in [Job -> JobRow]
      BY <2>c, <3>1, <3>2, SMTT(30) DEF TypeOK
    <3>4. doc' \in [Doc -> DocRow]
      BY <2>c, <2>5 DEF FailDead, TypeOK, DocRow, Stages
    <3> QED
      BY <2>5, <3>3, <3>4 DEF FailDead, TypeOK
  <2> QED
    BY <1>5, <2>1, <2>2, <2>3, <2>4, <2>5 DEF ClaimStep, FinishFailure
<1>6. CASE RecoverLegacy
  BY <1>6 DEF RecoverLegacy, TypeOK, DocRow, Stages
<1>7. ASSUME NEW j \in Job, LeaseLapses(j) PROVE TypeOK'
  BY <1>7, ZenonT(40) DEF LeaseLapses, TypeOK, JobRow
<1>8. ASSUME NEW j \in Job, BackoffElapses(j) PROVE TypeOK'
  BY <1>8, ZenonT(40) DEF BackoffElapses, TypeOK, JobRow
<1>9. CASE UNCHANGED queueVars
  BY <1>9 DEF queueVars, TypeOK
<1> QED
  BY <1>1, <1>2, <1>3, <1>4, <1>5, <1>6, <1>7, <1>8, <1>9 DEF Next, DocumentStep

\* Both tables and the set of claims keep their types in every reachable state.
THEOREM TypeCorrect == Spec => []TypeOK
<1> QED
  BY InitTypeOK, NextTypeOK, PTL DEF Spec

-----------------------------------------------------------------------------
(***************************************************************************)
(* The invariant of one document: what its row of documents and its job    *)
(* rows say together.  The properties alone are not inductive: that an     *)
(* active row is the latest one, that rows are filled in order and that a  *)
(* document without an active job has no rows while it is PROCESSING are   *)
(* what the inserts and the settlements rely on.                           *)
(***************************************************************************)
Status(d, n) == job[<<d, n>>].status

RowsInOrder(d) == \A m, n \in 1..MaxRounds :
    m < n /\ Status(d, m) = "absent" => Status(d, n) = "absent"

ActiveIsLatest(d) == \A n \in 1..MaxRounds : Active(<<d, n>>) => LatestRow(d, n)

ActiveWhileProcessing(d) == \A n \in 1..MaxRounds :
    /\ Active(<<d, n>>) => doc[d].status = "PROCESSING"
    /\ Status(d, n) = "QUEUED" => doc[d].stage = "QUEUED"

StageFits(d) == Present(d) =>
    /\ doc[d].stage = "DONE" <=> doc[d].status = "COMPLETED"
    /\ doc[d].stage = "FAILED" <=> doc[d].status = "FAILED"

QueuedBelowLimit(d) == \A n \in 1..MaxRounds :
    Status(d, n) = "QUEUED" => job[<<d, n>>].attempts < AttemptLimit(<<d, n>>)

OutcomeFits(d) ==
    /\ doc[d].status = "COMPLETED" =>
         \E n \in 1..MaxRounds : LatestRow(d, n) /\ Status(d, n) = "SUCCEEDED"
    /\ doc[d].status = "FAILED" =>
         \A n \in 1..MaxRounds : LatestRow(d, n) => Status(d, n) = "DEAD"

NoRowsWithoutWork(d) ==
    doc[d].status = "absent" \/ (doc[d].status = "PROCESSING" /\ ~HasActiveJob(d))
      => \A n \in 1..MaxRounds : Status(d, n) = "absent"

DocInv(d) ==
    /\ RowsInOrder(d)
    /\ ActiveIsLatest(d)
    /\ ActiveWhileProcessing(d)
    /\ StageFits(d)
    /\ QueuedBelowLimit(d)
    /\ OutcomeFits(d)
    /\ NoRowsWithoutWork(d)

TableInv == TypeOK /\ \A d \in Doc : DocInv(d)

-----------------------------------------------------------------------------
\* A step that touches neither the document nor the status and the attempts of
\* its rows keeps the document's invariant.
LEMMA FrameDoc ==
    ASSUME NEW d \in Doc, DocInv(d), doc'[d] = doc[d],
           \A n \in 1..MaxRounds : /\ job'[<<d, n>>].status = job[<<d, n>>].status
                                   /\ job'[<<d, n>>].attempts = job[<<d, n>>].attempts
                                   /\ job'[<<d, n>>].max = job[<<d, n>>].max
    PROVE  DocInv(d)'
<1>0. \A n \in 1..MaxRounds : LatestRow(d, n)' <=> LatestRow(d, n)
  BY RoundsAssumption DEF LatestRow
<1>1. RowsInOrder(d)'
  BY DEF DocInv, RowsInOrder, Status
<1>2. ActiveIsLatest(d)'
  BY <1>0 DEF DocInv, ActiveIsLatest, Active
<1>3. ActiveWhileProcessing(d)'
  BY DEF DocInv, ActiveWhileProcessing, Active, Status
<1>4. StageFits(d)'
  BY DEF DocInv, StageFits, Present
<1>5. QueuedBelowLimit(d)'
  BY DEF DocInv, QueuedBelowLimit, AttemptLimit, Status
<1>6. OutcomeFits(d)'
  BY <1>0 DEF DocInv, OutcomeFits, Status
<1>7. NoRowsWithoutWork(d)'
  BY DEF DocInv, NoRowsWithoutWork, HasActiveJob, Active, Status
<1> QED
  BY <1>1, <1>2, <1>3, <1>4, <1>5, <1>6, <1>7 DEF DocInv

\* An insert for a document without active work.
LEMMA EnqueueDoc ==
    ASSUME TypeOK, NEW d \in Doc, DocInv(d), ~HasActiveJob(d),
           NEW max \in RowMax, EnqueueJob(d, max),
           doc'[d] = [status |-> "PROCESSING", stage |-> "QUEUED"]
    PROVE  DocInv(d)'
<1> PICK n \in 1..MaxRounds :
      /\ job[<<d, n>>].status = "absent"
      /\ \A m \in 1..(n - 1) : job[<<d, m>>].status # "absent"
      /\ job' = [job EXCEPT ![<<d, n>>] =
                   [status |-> "QUEUED", max |-> max, attempts |-> 0, due |-> TRUE,
                    live |-> FALSE, by |-> AnyWorker, token |-> 0]]
  BY EnqueueRow
<1>1. job'[<<d, n>>] = [status |-> "QUEUED", max |-> max, attempts |-> 0, due |-> TRUE,
                        live |-> FALSE, by |-> AnyWorker, token |-> 0]
  BY JobType DEF TypeOK
<1>2. \A m \in 1..MaxRounds : m # n => job'[<<d, m>>] = job[<<d, m>>]
  BY JobType DEF TypeOK
<1>3. \A m \in 1..MaxRounds : n < m => job[<<d, m>>].status = "absent"
  BY DEF DocInv, RowsInOrder, Status
<1>4. \A m \in 1..MaxRounds : ~Active(<<d, m>>)
  BY DEF HasActiveJob
<1>5. RowsInOrder(d)'
  BY <1>1, <1>2, <1>3, RoundsAssumption DEF RowsInOrder, Status
<1>6. ActiveIsLatest(d)'
  BY <1>1, <1>2, <1>3, <1>4, RoundsAssumption DEF ActiveIsLatest, Active, LatestRow, Status
<1>7. ActiveWhileProcessing(d)'
  BY DEF ActiveWhileProcessing
<1>8. StageFits(d)'
  BY DEF StageFits, Present
<1>9. QueuedBelowLimit(d)'
  <2>1. max \in Nat /\ 0 < max /\ 0 < ConfigMax
    BY RowMaxAssumption, ConfigAssumption
  <2> QED
    BY <1>1, <1>2, <1>4, <2>1 DEF QueuedBelowLimit, AttemptLimit, Status, Active
<1>10. OutcomeFits(d)'
  BY DEF OutcomeFits
<1>11. NoRowsWithoutWork(d)'
  BY <1>1 DEF NoRowsWithoutWork, HasActiveJob, Active
<1> QED
  BY <1>5, <1>6, <1>7, <1>8, <1>9, <1>10, <1>11 DEF DocInv

\* A settlement: the one PROCESSING row of the document changes its status and
\* the document's row changes with it.
LEMMA SettleDoc ==
    ASSUME TypeOK, NEW d \in Doc, DocInv(d), NEW n \in 1..MaxRounds,
           job[<<d, n>>].status = "PROCESSING",
           \A m \in 1..MaxRounds : m # n => job'[<<d, m>>] = job[<<d, m>>],
           \/ /\ job'[<<d, n>>].status = "SUCCEEDED"
              /\ doc'[d] = [status |-> "COMPLETED", stage |-> "DONE"]
           \/ /\ job'[<<d, n>>].status = "DEAD"
              /\ doc'[d] = [status |-> "FAILED", stage |-> "FAILED"]
           \/ /\ job'[<<d, n>>].status = "QUEUED"
              /\ job'[<<d, n>>].attempts < AttemptLimit(<<d, n>>)'
              /\ doc'[d] = [status |-> "PROCESSING", stage |-> "QUEUED"]
    PROVE  DocInv(d)'
<1>1. LatestRow(d, n)
  BY DEF DocInv, ActiveIsLatest, Active
<1>2. \A m \in 1..MaxRounds : m # n => ~Active(<<d, m>>)
  <2> SUFFICES ASSUME NEW m \in 1..MaxRounds, m # n, Active(<<d, m>>) PROVE FALSE
    OBVIOUS
  <2>1. LatestRow(d, m)
    BY DEF DocInv, ActiveIsLatest
  <2>2. m < n \/ n < m
    BY RoundsAssumption
  <2> QED
    BY <1>1, <2>1, <2>2, RoundsAssumption DEF LatestRow
<1>3. \A m \in (n + 1)..MaxRounds : m \in 1..MaxRounds /\ m # n /\ job'[<<d, m>>].status = "absent"
  BY <1>1, RoundsAssumption DEF LatestRow
<1>4. LatestRow(d, n)'
  BY <1>3 DEF LatestRow
<1>5. RowsInOrder(d)'
  BY RoundsAssumption DEF DocInv, RowsInOrder, Status
<1>6. ActiveIsLatest(d)'
  BY <1>2, <1>4 DEF ActiveIsLatest, Active
<1>7. ActiveWhileProcessing(d)'
  BY <1>2 DEF ActiveWhileProcessing, Active, Status
<1>8. StageFits(d)'
  BY DEF StageFits, Present
<1>9. QueuedBelowLimit(d)'
  BY <1>2 DEF QueuedBelowLimit, Active, Status
<1>10. OutcomeFits(d)'
  <2>1. \A m \in 1..MaxRounds : LatestRow(d, m)' => m = n
    BY <1>4, RoundsAssumption DEF LatestRow
  <2> QED
    BY <1>4, <2>1 DEF OutcomeFits, Status
<1>11. NoRowsWithoutWork(d)'
  BY DEF NoRowsWithoutWork, HasActiveJob, Active
<1> QED
  BY <1>5, <1>6, <1>7, <1>8, <1>9, <1>10, <1>11 DEF DocInv

\* A claim: some active rows become PROCESSING.
LEMMA ClaimDoc ==
    ASSUME TypeOK, NEW d \in Doc, DocInv(d), doc'[d] = doc[d],
           \A n \in 1..MaxRounds :
              \/ job'[<<d, n>>] = job[<<d, n>>]
              \/ Active(<<d, n>>) /\ job'[<<d, n>>].status = "PROCESSING"
    PROVE  DocInv(d)'
<1>1. \A n \in 1..MaxRounds : Active(<<d, n>>)' <=> Active(<<d, n>>)
  BY DEF Active
<1>2. \A n \in 1..MaxRounds : Status(d, n)' = "absent" <=> Status(d, n) = "absent"
  BY DEF Active, Status
<1>3. RowsInOrder(d)'
  BY <1>2 DEF DocInv, RowsInOrder
<1>4. \A n \in 1..MaxRounds : LatestRow(d, n)' <=> LatestRow(d, n)
  BY <1>2, RoundsAssumption DEF LatestRow, Status
<1>5. ActiveIsLatest(d)'
  BY <1>1, <1>4 DEF DocInv, ActiveIsLatest
<1>6. ActiveWhileProcessing(d)'
  BY <1>1 DEF DocInv, ActiveWhileProcessing, Status
<1>7. StageFits(d)'
  BY DEF DocInv, StageFits, Present
<1>8. QueuedBelowLimit(d)'
  BY DEF DocInv, QueuedBelowLimit, AttemptLimit, Status
<1>9. OutcomeFits(d)'
  BY <1>4 DEF DocInv, OutcomeFits, Active, Status
<1>10. NoRowsWithoutWork(d)'
  BY <1>1, <1>2 DEF DocInv, NoRowsWithoutWork, HasActiveJob
<1> QED
  BY <1>3, <1>5, <1>6, <1>7, <1>8, <1>9, <1>10 DEF DocInv

-----------------------------------------------------------------------------
\* No document of the initial tables has a job row, so its invariant holds.
LEMMA InitTableInv == Init => TableInv
<1> SUFFICES ASSUME Init PROVE TableInv
  OBVIOUS
<1>1. TypeOK
  BY InitTypeOK
<1>2. ASSUME NEW d \in Doc PROVE DocInv(d)
  <2>1. \A n \in 1..MaxRounds : job[<<d, n>>].status = "absent"
    BY JobType DEF Init, NoRow
  <2>2. \/ doc[d] = [status |-> "absent", stage |-> "QUEUED"]
        \/ doc[d] = [status |-> "PROCESSING", stage |-> "EMBEDDING"]
    BY DEF Init
  <2> QED
    BY <2>1, <2>2 DEF DocInv, RowsInOrder, ActiveIsLatest, ActiveWhileProcessing, StageFits,
       QueuedBelowLimit, OutcomeFits, NoRowsWithoutWork, Active, Present, Status
<1> QED
  BY <1>1, <1>2 DEF TableInv

\* One case per action; under it the document the action is about and the others.
LEMMA NextDocInv ==
    ASSUME TableInv, [Next]_queueVars, NEW d \in Doc
    PROVE  DocInv(d)'
<1> TypeOK /\ DocInv(d)
  BY DEF TableInv
<1>rows. \A n \in 1..MaxRounds : <<d, n>> \in Job
  BY JobType
<1>1. ASSUME NEW x \in Doc, NEW max \in RowMax, EnqueueJob(x, max), ~HasActiveJob(x),
             doc' = [doc EXCEPT ![x] = [status |-> "PROCESSING", stage |-> "QUEUED"]]
      PROVE  DocInv(d)'
  <2>1. CASE x = d
    <3>1. doc'[d] = [status |-> "PROCESSING", stage |-> "QUEUED"]
      BY <1>1, <2>1 DEF TypeOK
    <3> QED
      BY <1>1, <2>1, <3>1, EnqueueDoc
  <2>2. CASE x # d
    <3>1. doc'[d] = doc[d]
      BY <1>1, <2>2 DEF TypeOK
    <3>2. \A n \in 1..MaxRounds : job'[<<d, n>>] = job[<<d, n>>]
      BY <1>1, <1>rows, <2>2, EnqueueRow DEF TypeOK
    <3> QED
      BY <3>1, <3>2, FrameDoc
  <2> QED
    BY <2>1, <2>2
<1>2. ASSUME NEW x \in Doc, Upload(x) PROVE DocInv(d)'
  <2>1. ~HasActiveJob(x)
    BY <1>2 DEF Upload, TableInv, DocInv, NoRowsWithoutWork, HasActiveJob, Active, Status
  <2> QED
    BY <1>1, <1>2, <2>1 DEF Upload
<1>3. ASSUME NEW x \in Doc, NEW eligible, Requeue(x, eligible) PROVE DocInv(d)'
  BY <1>1, <1>3 DEF Requeue
<1>4. ASSUME NEW x \in Doc, DeleteDocument(x) PROVE DocInv(d)'
  <2>1. CASE x = d
    <3>1. /\ doc'[d].status = "deleted"
          /\ \A n \in 1..MaxRounds :
               job'[<<d, n>>].status = IF job[<<d, n>>].status = "absent"
                                       THEN "absent" ELSE "gone"
      BY <1>4, <1>rows, <2>1 DEF DeleteDocument, TypeOK, DocRow, JobRow
    <3> QED
      BY <3>1 DEF DocInv, RowsInOrder, ActiveIsLatest, ActiveWhileProcessing, StageFits,
         QueuedBelowLimit, OutcomeFits, NoRowsWithoutWork, Active, Present, Status
  <2>2. CASE x # d
    <3>1. doc'[d] = doc[d] /\ \A n \in 1..MaxRounds : job'[<<d, n>>] = job[<<d, n>>]
      BY <1>4, <1>rows, <2>2 DEF DeleteDocument, TypeOK
    <3> QED
      BY <3>1, FrameDoc
  <2> QED
    BY <2>1, <2>2
<1>5. ASSUME NEW w \in Worker, NEW S \in SUBSET Job, ClaimJobs(w, S) PROVE DocInv(d)'
  <2>1. doc'[d] = doc[d] /\ \A j \in S : Active(j)
    BY <1>5 DEF ClaimJobs, Claimable, Active
  <2>2. \A j \in Job : IF j \in S THEN job'[j].status = "PROCESSING" ELSE job'[j] = job[j]
    BY <1>5 DEF ClaimJobs, TypeOK, JobRow
  <2> QED
    BY <1>rows, <2>1, <2>2, ClaimDoc
<1>6. ASSUME NEW c \in claims, ClaimStep(c) PROVE DocInv(d)'
  <2> DEFINE x == c.job[1]
             n == c.job[2]
  <2>c. c.job \in Job /\ x \in Doc /\ n \in 1..MaxRounds /\ c.job = <<x, n>>
    BY JobParts DEF TypeOK, Claim
  <2>s. ASSUME job[c.job].status = "PROCESSING",
               \A j \in Job : j # c.job => job'[j] = job[j],
               \A y \in Doc : y # x => doc'[y] = doc[y],
               \/ /\ job'[c.job].status = "SUCCEEDED"
                  /\ doc'[x] = [status |-> "COMPLETED", stage |-> "DONE"]
               \/ /\ job'[c.job].status = "DEAD"
                  /\ doc'[x] = [status |-> "FAILED", stage |-> "FAILED"]
               \/ /\ job'[c.job].status = "QUEUED"
                  /\ job'[c.job].attempts < AttemptLimit(c.job)'
                  /\ doc'[x] = [status |-> "PROCESSING", stage |-> "QUEUED"]
        PROVE  DocInv(d)'
    <3>1. CASE x = d
      <4>1. c.job = <<d, n>>
        BY <2>c, <3>1
      <4>2. \A m \in 1..MaxRounds : m # n => job'[<<d, m>>] = job[<<d, m>>]
        BY <1>rows, <2>s, <4>1
      <4> HIDE DEF x, n
      <4> QED
        BY <2>c, <2>s, <3>1, <4>1, <4>2, SettleDoc
    <3>2. CASE x # d
      <4>1. \A m \in 1..MaxRounds : job'[<<d, m>>] = job[<<d, m>>]
        BY <1>rows, <2>c, <2>s, <3>2
      <4> QED
        BY <2>s, <3>2, <4>1, FrameDoc
    <3> QED
      BY <3>1, <3>2
  <2>1. CASE ExtendLease(c)
    BY <1>rows, <2>c, <2>1, FrameDoc DEF ExtendLease, TypeOK, JobRow
  <2>2. ASSUME NEW stage \in RunningStages, SetStage(c, stage) PROVE DocInv(d)'
    <3>1. job' = job /\ Status(x, n) = "PROCESSING"
      BY <2>2, <2>c DEF SetStage, OwnsLive, Owns, Status
    <3>2. CASE x # d
      <4>1. doc'[d] = doc[d]
        BY <2>2, <3>2 DEF SetStage, TypeOK
      <4> QED
        BY <3>1, <4>1, FrameDoc
    <3>3. CASE x = d
      <4>1. doc'[d] = [doc[d] EXCEPT !.stage = stage]
        BY <2>2, <3>3 DEF SetStage, TypeOK
      <4>2. doc'[d].status = doc[d].status /\ doc'[d].stage = stage
        BY <4>1 DEF TypeOK, DocRow
      <4>3. Status(d, n) = "PROCESSING"
        BY <3>1, <3>3
      <4> HIDE DEF x, n
      <4>4. Active(<<d, n>>)
        BY <4>3 DEF Active, Status
      <4>5. doc[d].status = "PROCESSING" /\ LatestRow(d, n)
        BY <2>c, <4>4 DEF DocInv, ActiveWhileProcessing, ActiveIsLatest
      <4>6. \A m \in 1..MaxRounds : Status(d, m) # "QUEUED"
        <5> SUFFICES ASSUME NEW m \in 1..MaxRounds, Status(d, m) = "QUEUED" PROVE FALSE
          OBVIOUS
        <5>1. LatestRow(d, m) /\ m # n
          BY <4>3 DEF DocInv, ActiveIsLatest, Active, Status
        <5> QED
          BY <2>c, <4>5, <5>1, RoundsAssumption DEF LatestRow
      <4>7. RowsInOrder(d)' /\ ActiveIsLatest(d)' /\ QueuedBelowLimit(d)'
        BY <3>1 DEF DocInv, RowsInOrder, ActiveIsLatest, QueuedBelowLimit, Active,
           LatestRow, AttemptLimit, Status
      <4>8. ActiveWhileProcessing(d)'
        BY <3>1, <4>2, <4>5, <4>6 DEF ActiveWhileProcessing, Status
      <4>9. StageFits(d)'
        BY <2>2, <4>2, <4>5, StagesAssumption DEF StageFits
      <4>10. OutcomeFits(d)' /\ NoRowsWithoutWork(d)'
        BY <2>c, <3>1, <4>2, <4>4, <4>5 DEF OutcomeFits, NoRowsWithoutWork, HasActiveJob, Active
      <4> QED
        BY <4>7, <4>8, <4>9, <4>10 DEF DocInv
    <3> QED
      BY <3>2, <3>3
  <2>3. CASE Complete(c)
    <3>1. /\ job[c.job].status = "PROCESSING"
          /\ job'[c.job].status = "SUCCEEDED"
          /\ \A j \in Job : j # c.job => job'[j] = job[j]
      BY <2>3, <2>c DEF Complete, OwnsLive, Owns, TypeOK, JobRow
    <3>2. /\ doc'[x] = [status |-> "COMPLETED", stage |-> "DONE"]
          /\ \A y \in Doc : y # x => doc'[y] = doc[y]
      BY <2>3, <2>c DEF Complete, TypeOK
    <3> QED
      BY <2>s, <3>1, <3>2
  <2>4. CASE FailRetryable(c)
    <3>1. /\ job[c.job].status = "PROCESSING"
          /\ job'[c.job].status = "QUEUED"
          /\ job'[c.job].attempts = job[c.job].attempts
          /\ job'[c.job].max = job[c.job].max
          /\ \A j \in Job : j # c.job => job'[j] = job[j]
      BY <2>4, <2>c DEF FailRetryable, OwnsLive, Owns, TypeOK, JobRow
    <3>2. /\ doc'[x] = [status |-> "PROCESSING", stage |-> "QUEUED"]
          /\ \A y \in Doc : y # x => doc'[y] = doc[y]
      BY <2>4, <2>c DEF FailRetryable, TypeOK
    <3>3. job[c.job].attempts < AttemptLimit(c.job)
      <4>1. /\ job[c.job].attempts \in Int /\ AttemptLimit(c.job) \in Int
            /\ ~(job[c.job].attempts >= AttemptLimit(c.job))
        BY <2>4, <2>c, ConfigAssumption
           DEF FailRetryable, LastAttempt, AttemptLimit, TypeOK, JobRow
      <4> QED
        BY <4>1
    <3>4. AttemptLimit(c.job)' = AttemptLimit(c.job)
      BY <3>1 DEF AttemptLimit
    <3> QED
      BY <2>s, <3>1, <3>2, <3>3, <3>4
  <2>5. ASSUME NEW retryable \in BOOLEAN, FailDead(c, retryable) PROVE DocInv(d)'
    <3>1. /\ job[c.job].status = "PROCESSING"
          /\ job'[c.job].status = "DEAD"
          /\ \A j \in Job : j # c.job => job'[j] = job[j]
      BY <2>5, <2>c DEF FailDead, OwnsLive, Owns, TypeOK, JobRow
    <3>2. /\ doc'[x] = [status |-> "FAILED", stage |-> "FAILED"]
          /\ \A y \in Doc : y # x => doc'[y] = doc[y]
      BY <2>5, <2>c DEF FailDead, TypeOK
    <3> QED
      BY <2>s, <3>1, <3>2
  <2> QED
    BY <1>6, <2>1, <2>2, <2>3, <2>4, <2>5 DEF ClaimStep, FinishFailure
<1>7. CASE RecoverLegacy
  <2>1. CASE d \in Stranded
    <3>1. \A n \in 1..MaxRounds : Status(d, n) = "absent"
      BY <2>1 DEF Stranded, DocInv, NoRowsWithoutWork
    <3>2. doc'[d] = [status |-> "FAILED", stage |-> "FAILED"] /\ job' = job
      BY <1>7, <2>1 DEF RecoverLegacy
    <3> QED
      BY <3>1, <3>2 DEF DocInv, RowsInOrder, ActiveIsLatest, ActiveWhileProcessing, StageFits,
         QueuedBelowLimit, OutcomeFits, NoRowsWithoutWork, Active, LatestRow, Status
  <2>2. CASE d \notin Stranded
    BY <1>7, <2>2, FrameDoc DEF RecoverLegacy
  <2> QED
    BY <2>1, <2>2
<1>8. ASSUME NEW j \in Job, LeaseLapses(j) \/ BackoffElapses(j) PROVE DocInv(d)'
  <2>1. doc' = doc /\ \A k \in Job : /\ job'[k].status = job[k].status
                                     /\ job'[k].attempts = job[k].attempts
                                     /\ job'[k].max = job[k].max
    BY <1>8 DEF LeaseLapses, BackoffElapses, TypeOK, JobRow
  <2> QED
    BY <1>rows, <2>1, FrameDoc
<1>9. CASE UNCHANGED queueVars
  BY <1>9, FrameDoc DEF queueVars
<1> QED
  BY <1>2, <1>3, <1>4, <1>5, <1>6, <1>7, <1>8, <1>9 DEF Next, DocumentStep

\* Every statement of jobs.rs keeps every document's invariant.
LEMMA NextTableInv == TableInv /\ [Next]_queueVars => TableInv'
BY NextTypeOK, NextDocInv DEF TableInv

\* Every document's invariant holds in every reachable state.
LEMMA TableInvariant == Spec => []TableInv
<1> QED
  BY InitTableInv, NextTableInv, PTL DEF Spec

-----------------------------------------------------------------------------
(***************************************************************************)
(* Fencing.  Tokens grow, so a row's claims are ordered; the claim a       *)
(* PROCESSING row carries is the last one made on it and is not settled.   *)
(***************************************************************************)
TokensFresh == \A c \in claims : c.token < nextToken /\ job[c.job].status # "absent"
TokensUnique == \A c, e \in claims : c.job = e.job /\ c.token = e.token => c = e
Current(j) == [job |-> j, worker |-> job[j].by, token |-> job[j].token]
CurrentIsLast == \A j \in Job : job[j].status = "PROCESSING" =>
    Current(j) \in claims /\ \A e \in claims : e.job = j => e.token <= job[j].token
CurrentUnsettled == \A c \in settled :
    job[c.job].status = "PROCESSING" => c.token # job[c.job].token
LastIsSettled == \A c \in claims :
    LastClaimOn(c.job, c) /\ job[c.job].status \in {"SUCCEEDED", "DEAD", "QUEUED"}
      => c \in settled

FenceInv == /\ TypeOK
            /\ TokensFresh
            /\ TokensUnique
            /\ CurrentIsLast
            /\ CurrentUnsettled
            /\ LastIsSettled

\* A step that hands out and settles no claim and leaves every claimed row's
\* status and claim alone, except that rows may disappear, keeps the fence.
LEMMA FrameFence ==
    ASSUME FenceInv, TypeOK', claims' = claims, settled' = settled, nextToken' = nextToken,
           \A j \in Job : \/ /\ job'[j].status = job[j].status
                             /\ job'[j].by = job[j].by
                             /\ job'[j].token = job[j].token
                          \/ job[j].status = "absent" /\ job'[j].status = "QUEUED"
                          \/ job[j].status # "absent" /\ job'[j].status = "gone"
    PROVE  FenceInv'
<1>c. \A c \in claims : c.job \in Job
  BY DEF FenceInv, TypeOK, Claim
<1>s. settled \subseteq claims
  BY DEF FenceInv, TypeOK
<1>1. TokensFresh'
  BY <1>c DEF FenceInv, TokensFresh
<1>2. TokensUnique'
  BY DEF FenceInv, TokensUnique
<1>3. CurrentIsLast'
  BY DEF FenceInv, CurrentIsLast, Current
<1>4. CurrentUnsettled'
  BY <1>c, <1>s DEF FenceInv, CurrentUnsettled
<1>5. LastIsSettled'
  <2> SUFFICES ASSUME NEW c \in claims, LastClaimOn(c.job, c),
                      job'[c.job].status \in {"SUCCEEDED", "DEAD", "QUEUED"}
               PROVE  c \in settled
    BY DEF LastIsSettled, LastClaimOn, ClaimsOn
  <2>1. job[c.job].status # "absent"
    BY DEF FenceInv, TokensFresh
  <2>2. job'[c.job].status = job[c.job].status
    BY <1>c, <2>1
  <2> QED
    BY <2>2 DEF FenceInv, LastIsSettled
<1> QED
  BY <1>1, <1>2, <1>3, <1>4, <1>5 DEF FenceInv

\* Settling the claim a row carries.
LEMMA SettleFence ==
    ASSUME FenceInv, TypeOK', NEW c \in claims, Owns(c),
           claims' = claims, settled' = settled \cup {c}, nextToken' = nextToken,
           job'[c.job].status \in {"SUCCEEDED", "DEAD", "QUEUED"},
           \A j \in Job : j # c.job => job'[j] = job[j]
    PROVE  FenceInv'
<1>c. \A e \in claims : e.job \in Job
  BY DEF FenceInv, TypeOK, Claim
<1>s. settled \subseteq claims
  BY DEF FenceInv, TypeOK
<1>1. TokensFresh'
  BY <1>c DEF FenceInv, TokensFresh
<1>2. TokensUnique'
  BY DEF FenceInv, TokensUnique
<1>3. CurrentIsLast'
  BY DEF FenceInv, CurrentIsLast, Current
<1>4. CurrentUnsettled'
  BY <1>c, <1>s DEF FenceInv, CurrentUnsettled
<1>5. LastIsSettled'
  <2> SUFFICES ASSUME NEW e \in claims, LastClaimOn(e.job, e),
                      job'[e.job].status \in {"SUCCEEDED", "DEAD", "QUEUED"}
               PROVE  e \in settled \cup {c}
    BY DEF LastIsSettled, LastClaimOn, ClaimsOn
  <2>1. CASE e.job = c.job
    <3>1. c.token <= e.token
      BY <2>1 DEF LastClaimOn, ClaimsOn
    <3>2. e.token <= c.token
      BY <1>c, <2>1 DEF FenceInv, CurrentIsLast, Owns
    <3>3. c.token \in Nat /\ e.token \in Nat
      BY DEF FenceInv, TypeOK, Claim
    <3>4. c.token = e.token
      BY <3>1, <3>2, <3>3
    <3> QED
      BY <2>1, <3>4 DEF FenceInv, TokensUnique
  <2>2. CASE e.job # c.job
    BY <1>c, <2>2 DEF FenceInv, LastIsSettled
  <2> QED
    BY <2>1, <2>2
<1> QED
  BY <1>1, <1>2, <1>3, <1>4, <1>5 DEF FenceInv

\* Handing out claims under a token larger than every earlier one.
LEMMA ClaimFence ==
    ASSUME FenceInv, TypeOK', NEW w \in Worker, NEW S \in SUBSET Job, ClaimJobs(w, S)
    PROVE  FenceInv'
<1> DEFINE New == {[job |-> j, worker |-> w, token |-> nextToken] : j \in S}
<1>a. /\ claims' = claims \cup New /\ settled' = settled /\ nextToken' = nextToken + 1
      /\ S \subseteq Claimable
  BY DEF ClaimJobs
<1>b. \A j \in Job : IF j \in S THEN /\ job'[j].status = "PROCESSING"
                                     /\ job'[j].by = w
                                     /\ job'[j].token = nextToken
                                ELSE job'[j] = job[j]
  <2>1. job' = [j \in Job |->
                 IF j \in S
                 THEN [job[j] EXCEPT !.status = "PROCESSING", !.by = w, !.token = nextToken,
                                     !.live = TRUE, !.attempts = @ + 1]
                 ELSE job[j]]
    BY DEF ClaimJobs
  <2>2. \A j \in Job : job[j] \in JobRow
    BY DEF FenceInv, TypeOK
  <2> QED
    BY <2>1, <2>2 DEF JobRow
<1>c. \A e \in claims : e.job \in Job /\ e.token \in Nat
  BY DEF FenceInv, TypeOK, Claim
<1>n. \A e \in New : e.job \in S /\ e.token = nextToken /\ e.worker = w
  OBVIOUS
<1>m. \A j \in S : [job |-> j, worker |-> w, token |-> nextToken] \in New
  OBVIOUS
<1>e. \A e, f \in New : e.job = f.job => e = f
  OBVIOUS
<1>t. nextToken \in Nat
  BY DEF FenceInv, TypeOK
<1>s. settled \subseteq claims
  BY DEF FenceInv, TypeOK
<1> HIDE DEF New
<1>f. \A e \in claims : e.token < nextToken
  BY DEF FenceInv, TokensFresh
<1>1. TokensFresh'
  <2> SUFFICES ASSUME NEW e \in claims' PROVE e.token < nextToken' /\ job'[e.job].status # "absent"
    BY DEF TokensFresh
  <2>1. CASE e \in claims
    <3>1. e.token < nextToken + 1
      BY <1>c, <1>f, <1>t, <2>1
    <3>2. job'[e.job].status # "absent"
      BY <1>b, <1>c, <2>1 DEF FenceInv, TokensFresh
    <3> QED
      BY <1>a, <3>1, <3>2
  <2>2. CASE e \in New
    <3>1. e.token < nextToken + 1
      BY <1>n, <1>t, <2>2
    <3>2. e.job \in S /\ e.job \in Job
      BY <1>n, <2>2
    <3> QED
      BY <1>a, <1>b, <3>1, <3>2
  <2> QED
    BY <1>a, <2>1, <2>2
<1>2. TokensUnique'
  <2> SUFFICES ASSUME NEW e \in claims', NEW f \in claims', e.job = f.job, e.token = f.token
               PROVE  e = f
    BY DEF TokensUnique
  <2>1. ASSUME NEW x \in claims, NEW y \in New PROVE x.token # y.token
    BY <1>c, <1>f, <1>n, <1>t
  <2> QED
    BY <1>a, <1>e, <2>1 DEF FenceInv, TokensUnique
<1>3. CurrentIsLast'
  <2> SUFFICES ASSUME NEW j \in Job, job'[j].status = "PROCESSING"
               PROVE  /\ Current(j)' \in claims'
                      /\ \A e \in claims' : e.job = j => e.token <= job'[j].token
    BY DEF CurrentIsLast
  <2>1. CASE j \in S
    <3>1. Current(j)' \in claims'
      BY <1>a, <1>b, <1>m, <2>1 DEF Current
    <3>2. \A e \in claims' : e.token <= nextToken
      BY <1>a, <1>c, <1>f, <1>n, <1>t
    <3> QED
      BY <1>b, <2>1, <3>1, <3>2
  <2>2. CASE j \notin S
    <3>1. job'[j] = job[j]
      BY <1>b, <2>2
    <3>2. Current(j)' = Current(j) /\ Current(j) \in claims
      BY <3>1 DEF Current, FenceInv, CurrentIsLast
    <3>3. \A e \in claims' : e.job = j => e \in claims
      BY <1>a, <1>n, <2>2
    <3> QED
      BY <1>a, <3>1, <3>2, <3>3 DEF FenceInv, CurrentIsLast
  <2> QED
    BY <2>1, <2>2
<1>4. CurrentUnsettled'
  <2> SUFFICES ASSUME NEW e \in settled, job'[e.job].status = "PROCESSING"
               PROVE  e.token # job'[e.job].token
    BY <1>a DEF CurrentUnsettled
  <2>1. e.job \in Job /\ e.token \in Nat /\ e.token < nextToken
    BY <1>c, <1>f, <1>s
  <2>2. CASE e.job \in S
    BY <1>b, <1>t, <2>1, <2>2
  <2>3. CASE e.job \notin S
    BY <1>b, <2>1, <2>3 DEF FenceInv, CurrentUnsettled
  <2> QED
    BY <2>2, <2>3
<1>5. LastIsSettled'
  <2> SUFFICES ASSUME NEW e \in claims', LastClaimOn(e.job, e)',
                      job'[e.job].status \in {"SUCCEEDED", "DEAD", "QUEUED"}
               PROVE  e \in settled
    BY <1>a DEF LastIsSettled
  <2>1. e.job \in Job /\ e.job \notin S
    BY <1>a, <1>b, <1>c, <1>n
  <2>2. e \in claims /\ job'[e.job] = job[e.job]
    BY <1>a, <1>b, <1>n, <2>1
  <2>3. LastClaimOn(e.job, e)
    BY <1>a, <2>2 DEF LastClaimOn, ClaimsOn
  <2> QED
    BY <2>2, <2>3 DEF FenceInv, LastIsSettled
<1> QED
  BY <1>1, <1>2, <1>3, <1>4, <1>5 DEF FenceInv

\* Nothing is claimed yet, so nothing is fenced.
LEMMA InitFenceInv == Init => FenceInv
<1> SUFFICES ASSUME Init PROVE FenceInv
  OBVIOUS
<1>1. \A j \in Job : job[j].status = "absent"
  BY DEF Init, NoRow
<1> QED
  BY <1>1, InitTypeOK DEF Init, FenceInv, TokensFresh, TokensUnique, CurrentIsLast,
     CurrentUnsettled, LastIsSettled

\* No statement of jobs.rs breaks the order of the claims of a row.
LEMMA NextFenceInv == FenceInv /\ [Next]_queueVars => FenceInv'
<1> SUFFICES ASSUME FenceInv, [Next]_queueVars PROVE FenceInv'
  OBVIOUS
<1>t. TypeOK /\ TypeOK'
  BY NextTypeOK DEF FenceInv
<1>e. ASSUME NEW d \in Doc, NEW max \in RowMax, EnqueueJob(d, max),
             UNCHANGED <<claims, settled, nextToken>>
      PROVE  FenceInv'
  <2> PICK n \in 1..MaxRounds :
        /\ job[<<d, n>>].status = "absent"
        /\ job' = [job EXCEPT ![<<d, n>>] =
                     [status |-> "QUEUED", max |-> max, attempts |-> 0, due |-> TRUE,
                      live |-> FALSE, by |-> AnyWorker, token |-> 0]]
    BY <1>e, <1>t, EnqueueRow
  <2>1. \A j \in Job : \/ job'[j] = job[j]
                       \/ job[j].status = "absent" /\ job'[j].status = "QUEUED"
    BY <1>t DEF TypeOK
  <2> QED
    BY <1>e, <1>t, <2>1, FrameFence
<1>1. ASSUME NEW d \in Doc, Upload(d) PROVE FenceInv'
  BY <1>1, <1>e DEF Upload
<1>2. ASSUME NEW d \in Doc, NEW eligible, Requeue(d, eligible) PROVE FenceInv'
  BY <1>2, <1>e DEF Requeue
<1>3. ASSUME NEW d \in Doc, DeleteDocument(d) PROVE FenceInv'
  <2>1. \A j \in Job : \/ job'[j] = job[j]
                       \/ job[j].status # "absent" /\ job'[j].status = "gone"
    BY <1>3, <1>t DEF DeleteDocument, TypeOK, JobRow
  <2> QED
    BY <1>3, <1>t, <2>1, FrameFence DEF DeleteDocument
<1>4. ASSUME NEW w \in Worker, NEW S \in SUBSET Job, ClaimJobs(w, S) PROVE FenceInv'
  BY <1>4, <1>t, ClaimFence
<1>5. ASSUME NEW c \in claims, ClaimStep(c) PROVE FenceInv'
  <2>c. c.job \in Job
    BY <1>t DEF TypeOK, Claim
  <2>1. CASE ExtendLease(c)
    <3>1. \A j \in Job : /\ job'[j].status = job[j].status
                         /\ job'[j].by = job[j].by
                         /\ job'[j].token = job[j].token
      BY <1>t, <2>1, <2>c DEF ExtendLease, TypeOK, JobRow
    <3> QED
      BY <1>t, <2>1, <3>1, FrameFence DEF ExtendLease
  <2>2. ASSUME NEW stage \in RunningStages, SetStage(c, stage) PROVE FenceInv'
    BY <1>t, <2>2, FrameFence DEF SetStage
  <2>3. CASE Complete(c)
    <3>1. /\ job'[c.job].status = "SUCCEEDED"
          /\ \A j \in Job : j # c.job => job'[j] = job[j]
      BY <1>t, <2>3, <2>c DEF Complete, TypeOK, JobRow
    <3> QED
      BY <1>t, <2>3, <3>1, SettleFence DEF Complete, OwnsLive
  <2>4. CASE FailRetryable(c)
    <3>1. /\ job'[c.job].status = "QUEUED"
          /\ \A j \in Job : j # c.job => job'[j] = job[j]
      BY <1>t, <2>4, <2>c DEF FailRetryable, TypeOK, JobRow
    <3> QED
      BY <1>t, <2>4, <3>1, SettleFence DEF FailRetryable, OwnsLive
  <2>5. ASSUME NEW retryable \in BOOLEAN, FailDead(c, retryable) PROVE FenceInv'
    <3>1. /\ job'[c.job].status = "DEAD"
          /\ \A j \in Job : j # c.job => job'[j] = job[j]
      BY <1>t, <2>5, <2>c DEF FailDead, TypeOK, JobRow
    <3> QED
      BY <1>t, <2>5, <3>1, SettleFence DEF FailDead, OwnsLive
  <2> QED
    BY <1>5, <2>1, <2>2, <2>3, <2>4, <2>5 DEF ClaimStep, FinishFailure
<1>6. CASE RecoverLegacy
  BY <1>6, <1>t, FrameFence DEF RecoverLegacy
<1>7. ASSUME NEW k \in Job, LeaseLapses(k) \/ BackoffElapses(k) PROVE FenceInv'
  <2>1. \A j \in Job : /\ job'[j].status = job[j].status
                       /\ job'[j].by = job[j].by
                       /\ job'[j].token = job[j].token
    BY <1>7, <1>t DEF LeaseLapses, BackoffElapses, TypeOK, JobRow
  <2> QED
    BY <1>7, <1>t, <2>1, FrameFence DEF LeaseLapses, BackoffElapses
<1>8. CASE UNCHANGED queueVars
  BY <1>8, <1>t, FrameFence DEF queueVars
<1> QED
  BY <1>1, <1>2, <1>3, <1>4, <1>5, <1>6, <1>7, <1>8 DEF Next, DocumentStep

\* The fencing invariant holds in every reachable state.
LEMMA FenceInvariant == Spec => []FenceInv
<1> QED
  BY InitFenceInv, NextFenceInv, PTL DEF Spec

-----------------------------------------------------------------------------
\* An active row is the latest one, so there is at most one.
LEMMA OneActiveRow == TableInv => OneActiveJob
<1> SUFFICES ASSUME TableInv, NEW d \in Doc, NEW m \in 1..MaxRounds, NEW n \in 1..MaxRounds,
                    Active(<<d, m>>), Active(<<d, n>>), m # n
             PROVE  FALSE
  BY DEF OneActiveJob
<1>1. LatestRow(d, m) /\ LatestRow(d, n)
  BY DEF TableInv, DocInv, ActiveIsLatest
<1>2. m < n \/ n < m
  BY RoundsAssumption
<1> QED
  BY <1>1, <1>2, RoundsAssumption DEF LatestRow

\* There are never two active jobs for one document.
THEOREM OneActiveJobHolds == Spec => []OneActiveJob
<1> QED
  BY OneActiveRow, TableInvariant, PTL

\* The two tables agree: pending work, stages and outcomes of every document.
THEOREM TablesAgree ==
    Spec => [](ActiveJobMatchesDocument /\ StageMatchesStatus /\ OutcomeMatchesLatestJob)
<1>1. TableInv => ActiveJobMatchesDocument /\ StageMatchesStatus /\ OutcomeMatchesLatestJob
  BY DEF TableInv, DocInv, ActiveWhileProcessing, StageFits, OutcomeFits, Status,
     ActiveJobMatchesDocument, StageMatchesStatus, OutcomeMatchesLatestJob
<1> QED
  BY <1>1, TableInvariant, PTL

\* Only a job with attempts left waits in the queue.
THEOREM QueuedHasAttemptsLeftHolds == Spec => []QueuedHasAttemptsLeft
<1>1. TableInv => QueuedHasAttemptsLeft
  BY JobParts DEF TableInv, DocInv, QueuedBelowLimit, QueuedHasAttemptsLeft, Status
<1> QED
  BY <1>1, TableInvariant, PTL

\* A worker whose lease was reclaimed settles nothing: fencing by claim_token.
THEOREM SettledByLastClaimHolds == Spec => []SettledByLastClaim
<1>1. FenceInv => SettledByLastClaim
  <2> SUFFICES ASSUME FenceInv, NEW c \in claims, LastClaimOn(c.job, c)
               PROVE  /\ job[c.job].status \in {"SUCCEEDED", "DEAD", "QUEUED"} => c \in settled
                      /\ job[c.job].status = "PROCESSING" => c \notin settled
    BY DEF SettledByLastClaim
  <2>1. job[c.job].status \in {"SUCCEEDED", "DEAD", "QUEUED"} => c \in settled
    BY DEF FenceInv, LastIsSettled
  <2>2. ASSUME job[c.job].status = "PROCESSING" PROVE c \notin settled
    <3>1. c.job \in Job /\ c.token \in Nat
      BY DEF FenceInv, TypeOK, Claim
    <3>2. /\ Current(c.job) \in claims
          /\ c.token <= job[c.job].token
      BY <2>2, <3>1 DEF FenceInv, CurrentIsLast
    <3>3. Current(c.job).job = c.job /\ Current(c.job).token = job[c.job].token
      BY DEF Current
    <3>4. job[c.job].token <= c.token
      BY <3>2, <3>3 DEF LastClaimOn, ClaimsOn
    <3>5. job[c.job].token \in Nat
      BY <3>1 DEF FenceInv, TypeOK, JobRow
    <3>6. c.token = job[c.job].token
      BY <3>1, <3>2, <3>4, <3>5
    <3> QED
      BY <2>2, <3>6 DEF FenceInv, CurrentUnsettled
  <2> QED
    BY <2>1, <2>2
<1> QED
  BY <1>1, FenceInvariant, PTL

\* A document becomes PROCESSING only together with a queued row, and a row once
\* inserted never reads as absent again.
LEMMA ProcessingNeedsRow ==
    ASSUME TypeOK, TypeOK', [Next]_queueVars, NEW d \in Doc, doc'[d].status = "PROCESSING",
           \A n \in 1..MaxRounds : job'[<<d, n>>].status = "absent"
    PROVE  /\ doc[d].status = "PROCESSING"
           /\ \A n \in 1..MaxRounds : job[<<d, n>>].status = "absent"
<1>rows. \A n \in 1..MaxRounds : <<d, n>> \in Job
  BY JobType
<1>1. ASSUME NEW x \in Doc, NEW max \in RowMax, EnqueueJob(x, max),
             doc' = [doc EXCEPT ![x] = [status |-> "PROCESSING", stage |-> "QUEUED"]]
      PROVE  doc'[d] = doc[d] /\ \A n \in 1..MaxRounds : job'[<<d, n>>] = job[<<d, n>>]
  <2> PICK n \in 1..MaxRounds :
        job' = [job EXCEPT ![<<x, n>>] =
                  [status |-> "QUEUED", max |-> max, attempts |-> 0, due |-> TRUE,
                   live |-> FALSE, by |-> AnyWorker, token |-> 0]]
    BY <1>1, EnqueueRow
  <2>1. x # d
    <3> SUFFICES ASSUME x = d PROVE FALSE
      OBVIOUS
    <3>1. job'[<<d, n>>].status = "QUEUED"
      BY <1>rows DEF TypeOK
    <3> QED
      BY <3>1
  <2> QED
    BY <1>1, <1>rows, <2>1 DEF TypeOK
<1>2. ASSUME NEW x \in Doc, Upload(x) \/ \E eligible : Requeue(x, eligible)
      PROVE  doc'[d] = doc[d] /\ \A n \in 1..MaxRounds : job'[<<d, n>>] = job[<<d, n>>]
  BY <1>1, <1>2 DEF Upload, Requeue
<1>3. ASSUME NEW x \in Doc, DeleteDocument(x)
      PROVE  /\ doc[d].status = "PROCESSING"
             /\ \A n \in 1..MaxRounds : job[<<d, n>>].status = "absent"
  <2>1. x # d
    BY <1>3 DEF DeleteDocument, TypeOK, DocRow
  <2> QED
    BY <1>3, <1>rows, <2>1 DEF DeleteDocument, TypeOK
<1>4. ASSUME NEW w \in Worker, NEW S \in SUBSET Job, ClaimJobs(w, S)
      PROVE  doc' = doc /\ \A n \in 1..MaxRounds : job'[<<d, n>>] = job[<<d, n>>]
  <2>1. \A j \in S : job'[j].status = "PROCESSING"
    <3>1. \A j \in S : job'[j] = [job[j] EXCEPT !.status = "PROCESSING", !.by = w,
                                    !.token = nextToken, !.live = TRUE, !.attempts = @ + 1]
      BY <1>4 DEF ClaimJobs
    <3>2. \A j \in S : job[j] \in JobRow
      BY DEF TypeOK
    <3> QED
      BY <3>1, <3>2 DEF JobRow
  <2>2. \A n \in 1..MaxRounds : <<d, n>> \notin S
    BY <2>1
  <2> QED
    BY <1>4, <1>rows, <2>2 DEF ClaimJobs
<1>5. ASSUME NEW c \in claims, ClaimStep(c)
      PROVE  /\ doc[d].status = "PROCESSING"
             /\ \A n \in 1..MaxRounds : job[<<d, n>>].status = "absent"
  <2>c. /\ c.job \in Job /\ c.job[1] \in Doc
        /\ job[c.job].status = "PROCESSING"
    BY <1>5, JobParts DEF TypeOK, Claim, ClaimStep, ExtendLease, SetStage, Complete,
       FinishFailure, FailRetryable, FailDead, OwnsLive, Owns
  <2>1. job'[c.job].status # "absent" /\ \A j \in Job : j # c.job => job'[j] = job[j]
    <3>1. CASE ExtendLease(c)
      BY <2>c, <3>1 DEF ExtendLease, TypeOK, JobRow
    <3>2. CASE \E stage \in RunningStages : SetStage(c, stage)
      BY <2>c, <3>2 DEF SetStage
    <3>3. CASE Complete(c)
      BY <2>c, <3>3 DEF Complete, TypeOK, JobRow
    <3>4. CASE FailRetryable(c)
      BY <2>c, <3>4 DEF FailRetryable, TypeOK, JobRow
    <3>5. CASE \E retryable \in BOOLEAN : FailDead(c, retryable)
      BY <2>c, <3>5 DEF FailDead, TypeOK, JobRow
    <3> QED
      BY <1>5, <3>1, <3>2, <3>3, <3>4, <3>5 DEF ClaimStep, FinishFailure
  <2>2. \A n \in 1..MaxRounds : <<d, n>> # c.job /\ job[<<d, n>>].status = "absent"
    BY <1>rows, <2>1
  <2>3. c.job[1] # d
    BY <2>2, <2>c, JobParts
  <2>4. doc'[d] = doc[d]
    BY <1>5, <2>3 DEF ClaimStep, ExtendLease, SetStage, Complete, FinishFailure,
       FailRetryable, FailDead, TypeOK
  <2> QED
    BY <2>2, <2>4
<1>6. CASE RecoverLegacy
  BY <1>6 DEF RecoverLegacy
<1>7. ASSUME NEW k \in Job, LeaseLapses(k) \/ BackoffElapses(k)
      PROVE  doc' = doc /\ \A j \in Job : job'[j].status = job[j].status
  BY <1>7 DEF LeaseLapses, BackoffElapses, TypeOK, JobRow
<1>8. CASE UNCHANGED queueVars
  BY <1>8 DEF queueVars
<1> QED
  BY <1>rows, <1>2, <1>3, <1>4, <1>5, <1>6, <1>7, <1>8 DEF Next, DocumentStep

\* No step leaves a PROCESSING document without an active job.
THEOREM NoNewStrandedHolds == Spec => NoNewStranded
<1>1. TableInv /\ TableInv' /\ [Next]_queueVars => [Stranded' \subseteq Stranded]_queueVars
  <2> SUFFICES ASSUME TableInv, TableInv', [Next]_queueVars, NEW d \in Doc, d \in Stranded'
               PROVE  d \in Stranded
    BY DEF Stranded
  <2>1. /\ doc'[d].status = "PROCESSING"
        /\ \A n \in 1..MaxRounds : job'[<<d, n>>].status = "absent"
    BY DEF Stranded, TableInv, DocInv, NoRowsWithoutWork, Status
  <2>2. /\ doc[d].status = "PROCESSING"
        /\ \A n \in 1..MaxRounds : job[<<d, n>>].status = "absent"
    BY <2>1, ProcessingNeedsRow DEF TableInv
  <2> QED
    BY <2>2 DEF Stranded, HasActiveJob, Active
<1> QED
  BY <1>1, TableInvariant, PTL DEF Spec, NoNewStranded

-----------------------------------------------------------------------------
(***************************************************************************)
(* The queue implements DocumentIngestion: under the mapping of            *)
(* IngestionJobsRefinement every statement is a step of the document's     *)
(* life cycle or leaves phase and rounds alone.                            *)
(***************************************************************************)

\* The phase of a document, read off its row and its job rows.
PhaseTable == \A d \in Doc :
    /\ doc[d].status = "absent" => PhaseOf(d) = "absent"
    /\ doc[d].status = "deleted" => PhaseOf(d) = "deleted"
    /\ doc[d].status = "COMPLETED" => PhaseOf(d) = "completed"
    /\ doc[d].status = "FAILED" => PhaseOf(d) = "failed"
    /\ d \in Stranded => PhaseOf(d) = "stranded"
    /\ \A n \in 1..MaxRounds :
         /\ Status(d, n) = "QUEUED" => PhaseOf(d) = "waiting"
         /\ Status(d, n) = "PROCESSING" => PhaseOf(d) = "running"

\* One active row and tables that agree make the phase unambiguous.
LEMMA PhaseTableHolds == TableInv => PhaseTable
<1> SUFFICES ASSUME TableInv, NEW d \in Doc
             PROVE  /\ doc[d].status = "absent" => PhaseOf(d) = "absent"
                    /\ doc[d].status = "deleted" => PhaseOf(d) = "deleted"
                    /\ doc[d].status = "COMPLETED" => PhaseOf(d) = "completed"
                    /\ doc[d].status = "FAILED" => PhaseOf(d) = "failed"
                    /\ d \in Stranded => PhaseOf(d) = "stranded"
                    /\ \A n \in 1..MaxRounds :
                         /\ Status(d, n) = "QUEUED" => PhaseOf(d) = "waiting"
                         /\ Status(d, n) = "PROCESSING" => PhaseOf(d) = "running"
  BY DEF PhaseTable
<1>1. d \in Stranded => PhaseOf(d) = "stranded"
  BY DEF Stranded, HasActiveJob, Active, PhaseOf, HasJob
<1>2. ASSUME NEW n \in 1..MaxRounds, Status(d, n) = "QUEUED" PROVE PhaseOf(d) = "waiting"
  <2>1. doc[d].status = "PROCESSING" /\ HasJob(d, "QUEUED")
    BY <1>2 DEF TableInv, DocInv, ActiveWhileProcessing, Active, Status, HasJob
  <2>2. ~HasJob(d, "PROCESSING")
    BY <1>2, OneActiveRow DEF OneActiveJob, Active, HasJob, Status
  <2> QED BY <2>1, <2>2 DEF PhaseOf
<1>3. ASSUME NEW n \in 1..MaxRounds, Status(d, n) = "PROCESSING" PROVE PhaseOf(d) = "running"
  <2>1. doc[d].status = "PROCESSING" /\ HasJob(d, "PROCESSING")
    BY <1>3 DEF TableInv, DocInv, ActiveWhileProcessing, Active, Status, HasJob
  <2>2. ~HasJob(d, "QUEUED")
    BY <1>3, OneActiveRow DEF OneActiveJob, Active, HasJob, Status
  <2> QED BY <2>1, <2>2 DEF PhaseOf
<1>4. doc[d].status # "PROCESSING" => ~HasJob(d, "QUEUED") /\ ~HasJob(d, "PROCESSING")
  BY DEF TableInv, DocInv, ActiveWhileProcessing, Active, HasJob
<1> QED BY <1>1, <1>2, <1>3, <1>4 DEF PhaseOf

\* The phase depends on statuses alone, the rounds on which rows there are.
LEMMA PhaseFrame ==
    ASSUME NEW d \in Doc, doc'[d].status = doc[d].status,
           \A n \in 1..MaxRounds : job'[<<d, n>>].status = job[<<d, n>>].status
    PROVE  PhaseOf(d)' = PhaseOf(d)
<1>1. \A s : HasJob(d, s)' <=> HasJob(d, s)
  BY DEF HasJob
<1> QED BY <1>1 DEF PhaseOf

LEMMA RowsFrame ==
    ASSUME NEW d \in Doc,
           \A n \in 1..MaxRounds : job'[<<d, n>>].status = "absent"
                                   <=> job[<<d, n>>].status = "absent"
    PROVE  RowsOf(d)' = RowsOf(d)
BY DEF RowsOf

\* A move of the documents of S to one phase, and no new round.
LEMMA PhaseMoves ==
    ASSUME NEW S \in SUBSET Doc, NEW p, \A d \in S : PhaseOf(d)' = p,
           \A d \in Doc \ S : PhaseOf(d)' = PhaseOf(d)
    PROVE  Abstract!Move(S, p)
BY DEF Abstract!Move

LEMMA PhaseIn ==
    ASSUME NEW S \in SUBSET Doc, S # {}, NEW P, \A d \in S : PhaseOf(d) \in P
    PROVE  Abstract!In(S, P)
BY DEF Abstract!In

LEMMA RoundsKept ==
    ASSUME \A d \in Doc : RowsOf(d)' = RowsOf(d)
    PROVE  [d \in Doc |-> Cardinality(RowsOf(d))]' = [d \in Doc |-> Cardinality(RowsOf(d))]
OBVIOUS

\* An insert opens a round of the document.
LEMMA EnqueueOpens ==
    ASSUME TableInv, TableInv', NEW d \in Doc, NEW max \in RowMax, EnqueueJob(d, max),
           PhaseOf(d) \in {"absent", "completed", "failed"},
           \A e \in Doc \ {d} : doc'[e] = doc[e]
    PROVE  Abstract!Open(d)
<1>t. TypeOK /\ PhaseTable'
  BY PhaseTableHolds, PTL DEF TableInv
<1> PICK n \in 1..MaxRounds :
      /\ job[<<d, n>>].status = "absent"
      /\ job' = [job EXCEPT ![<<d, n>>] =
                   [status |-> "QUEUED", max |-> max, attempts |-> 0, due |-> TRUE,
                    live |-> FALSE, by |-> AnyWorker, token |-> 0]]
  BY <1>t, EnqueueRow
<1>1. /\ job'[<<d, n>>].status = "QUEUED"
      /\ \A m \in 1..MaxRounds : m # n => job'[<<d, m>>] = job[<<d, m>>]
      /\ \A e \in Doc \ {d} : \A m \in 1..MaxRounds : job'[<<e, m>>] = job[<<e, m>>]
  BY <1>t, JobType DEF TypeOK
<1>2. PhaseOf(d)' = "waiting"
  BY <1>1, <1>t DEF PhaseTable, Status
<1>3. Abstract!Move({d}, "waiting")
  BY <1>1, <1>2, PhaseFrame, PhaseMoves
<1>4. \A e \in Doc \ {d} : RowsOf(e)' = RowsOf(e)
  BY <1>1, RowsFrame
<1>5. RowsOf(d)' = RowsOf(d) \cup {n} /\ n \notin RowsOf(d)
  BY <1>1 DEF RowsOf
<1>6. Cardinality(RowsOf(d)') = Cardinality(RowsOf(d)) + 1
  <2>1. IsFiniteSet(1..MaxRounds) /\ RowsOf(d) \in SUBSET (1..MaxRounds)
    BY RoundsAssumption, FS_Interval DEF RowsOf
  <2>2. IsFiniteSet(RowsOf(d))
    BY <2>1, FS_Subset
  <2> QED BY <1>5, <2>2, FS_AddElement
<1>7. [e \in Doc |-> Cardinality(RowsOf(e))]' =
        [[e \in Doc |-> Cardinality(RowsOf(e))] EXCEPT ![d] = Cardinality(RowsOf(d)) + 1]
  BY <1>4, <1>6
<1> QED BY <1>3, <1>7 DEF Abstract!Open

\* A settlement by the owner of a running job moves its document.
LEMMA SettleMoves ==
    ASSUME TableInv, NEW c \in claims, OwnsLive(c), NEW p,
           \A j \in Job : j # c.job => job'[j] = job[j], job'[c.job].status # "absent",
           \A e \in Doc : e # c.job[1] => doc'[e] = doc[e],
           PhaseOf(c.job[1])' = p
    PROVE  /\ c.job[1] \in Doc
           /\ Abstract!In({c.job[1]}, {"running"}) /\ Abstract!Move({c.job[1]}, p)
           /\ [d \in Doc |-> Cardinality(RowsOf(d))]' = [d \in Doc |-> Cardinality(RowsOf(d))]
<1>1. PICK d \in Doc, n \in 1..MaxRounds : c.job = <<d, n>> /\ c.job[1] = d
  BY JobParts DEF TableInv, TypeOK, Claim
<1>2. PhaseOf(d) = "running"
  BY <1>1, PhaseTableHolds DEF OwnsLive, Owns, PhaseTable, Status
<1>3. ASSUME NEW e \in Doc \ {d}, NEW m \in 1..MaxRounds
      PROVE  job'[<<e, m>>] = job[<<e, m>>]
  <2>1. <<e, m>> # c.job
    BY <1>1
  <2> QED BY <2>1, JobType
<1>4. Abstract!Move({d}, p)
  BY <1>1, <1>3, PhaseFrame, PhaseMoves
<1>5. Abstract!In({d}, {"running"})
  BY <1>2, PhaseIn
<1>6. \A m \in 1..MaxRounds : m # n => job'[<<d, m>>] = job[<<d, m>>]
  BY <1>1, JobType
<1>7. \A e \in Doc : RowsOf(e)' = RowsOf(e)
  <2>1. RowsOf(d)' = RowsOf(d)
    BY <1>1, <1>6, RowsFrame DEF OwnsLive, Owns
  <2> QED BY <1>3, <2>1, RowsFrame
<1> QED BY <1>1, <1>4, <1>5, <1>7, RoundsKept

\* One case per statement.
LEMMA QueueStepRefines ==
    TableInv /\ TableInv' /\ [Next]_queueVars => [Abstract!Next]_(Abstract!vars)
<1> SUFFICES ASSUME TableInv, TableInv', [Next]_queueVars
             PROVE  [Abstract!Next]_(Abstract!vars)
  OBVIOUS
<1>t. TypeOK /\ TypeOK' /\ PhaseTable /\ PhaseTable'
  BY PhaseTableHolds, PTL DEF TableInv
<1>s. ASSUME \A d \in Doc : doc'[d].status = doc[d].status,
             \A j \in Job : job'[j].status = job[j].status
      PROVE  UNCHANGED Abstract!vars
  <2>1. \A d \in Doc : PhaseOf(d)' = PhaseOf(d) /\ RowsOf(d)' = RowsOf(d)
    BY <1>s, JobType, PhaseFrame, RowsFrame
  <2> QED BY <2>1 DEF Abstract!vars
<1>1. ASSUME NEW d \in Doc, Upload(d) PROVE Abstract!Open(d)
  <2>1. PhaseOf(d) = "absent" /\ \A e \in Doc \ {d} : doc'[e] = doc[e]
    BY <1>1, <1>t DEF Upload, PhaseTable, TypeOK
  <2> QED BY <1>1, <2>1, EnqueueOpens DEF Upload
<1>2. ASSUME NEW d \in Doc, NEW eligible \in {FailedOnly, FailedOrCompleted}, Requeue(d, eligible)
      PROVE  Abstract!Open(d)
  <2>1. PhaseOf(d) \in {"completed", "failed"} /\ \A e \in Doc \ {d} : doc'[e] = doc[e]
    BY <1>2, <1>t DEF Requeue, FailedOnly, FailedOrCompleted, PhaseTable, TypeOK
  <2> QED BY <1>2, <2>1, EnqueueOpens DEF Requeue
<1>3. ASSUME NEW d \in Doc, DeleteDocument(d) PROVE Abstract!Delete(d)
  <2>1. /\ Present(d) /\ doc'[d].status = "deleted" /\ \A e \in Doc \ {d} : doc'[e] = doc[e]
    BY <1>3, <1>t DEF DeleteDocument, TypeOK, DocRow
  <2>2. /\ \A e \in Doc \ {d} : \A m \in 1..MaxRounds : job'[<<e, m>>] = job[<<e, m>>]
        /\ \A m \in 1..MaxRounds : job'[<<d, m>>].status =
             IF job[<<d, m>>].status = "absent" THEN "absent" ELSE "gone"
    BY <1>3, <1>t, JobType DEF DeleteDocument, TypeOK, JobRow
  <2>3. \A e \in Doc : RowsOf(e)' = RowsOf(e)
    BY <2>2, RowsFrame
  <2>4. Abstract!Move({d}, "deleted")
    BY <1>t, <2>1, <2>2, PhaseFrame, PhaseMoves DEF PhaseTable
  <2>5. PhaseOf(d) \in {"stranded", "waiting", "running", "completed", "failed"}
    BY <1>t, <2>1 DEF Present, PhaseOf
  <2>6. Abstract!In({d}, Abstract!Phases \ {"absent", "deleted"})
    BY <2>5, PhaseIn DEF Abstract!Phases
  <2> QED BY <2>3, <2>4, <2>6, RoundsKept DEF Abstract!Delete
<1>4. ASSUME NEW w \in Worker, NEW S \in SUBSET Job, ClaimJobs(w, S)
      PROVE  \E D \in SUBSET Doc : Abstract!Start(D)
  <2>1. PICK D \in SUBSET Doc : D = {d \in Doc : \E n \in 1..MaxRounds : <<d, n>> \in S}
    OBVIOUS
  <2>2. /\ \A j \in S : Active(j) /\ job'[j].status = "PROCESSING"
        /\ \A j \in Job \ S : job'[j] = job[j]
        /\ doc' = doc /\ S # {}
    <3>1. /\ S \subseteq Claimable /\ S # {} /\ doc' = doc
          /\ job' = [j \in Job |->
                       IF j \in S
                       THEN [job[j] EXCEPT !.status = "PROCESSING", !.by = w, !.token = nextToken,
                                           !.live = TRUE, !.attempts = @ + 1]
                       ELSE job[j]]
      BY <1>4 DEF ClaimJobs
    <3>2. \A j \in S : job[j] \in JobRow /\ Active(j)
      BY <1>t, <3>1 DEF Claimable, Active, TypeOK
    <3>3. \A j \in S : job'[j].status = "PROCESSING"
      BY <3>1, <3>2 DEF JobRow
    <3> QED BY <3>1, <3>2, <3>3
  <2>3. \A d \in D : PhaseOf(d) \in {"waiting", "running"} /\ PhaseOf(d)' = "running"
    BY <1>t, <2>1, <2>2 DEF PhaseTable, Status, Active
  <2>4. \A d \in Doc \ D : \A n \in 1..MaxRounds : job'[<<d, n>>] = job[<<d, n>>]
    BY <2>1, <2>2, JobType
  <2>5. D # {}
    BY <2>1, <2>2, JobParts
  <2>6. \A d \in Doc, n \in 1..MaxRounds :
          job'[<<d, n>>].status = "absent" <=> job[<<d, n>>].status = "absent"
    BY <2>2, JobType DEF Active
  <2>7. \A d \in Doc : RowsOf(d)' = RowsOf(d)
    BY <2>6, RowsFrame
  <2>8. Abstract!Move(D, "running")
    BY <2>2, <2>3, <2>4, PhaseFrame, PhaseMoves
  <2>9. Abstract!In(D, {"waiting", "running"})
    BY <2>3, <2>5, PhaseIn
  <2> QED BY <2>7, <2>8, <2>9, RoundsKept DEF Abstract!Start
<1>5. ASSUME NEW c \in claims, ClaimStep(c)
      PROVE  \/ UNCHANGED Abstract!vars
             \/ \E d \in Doc : Abstract!Succeed(d) \/ Abstract!Retry(d) \/ Abstract!Fail(d)
  <2>1. PICK d \in Doc, n \in 1..MaxRounds : c.job = <<d, n>> /\ c.job[1] = d /\ c.job \in Job
    BY <1>t, JobParts DEF TypeOK, Claim
  <2>2. CASE ExtendLease(c)
    BY <1>s, <1>t, <2>1, <2>2 DEF ExtendLease, TypeOK, JobRow
  <2>3. ASSUME NEW stage \in RunningStages, SetStage(c, stage) PROVE UNCHANGED Abstract!vars
    BY <1>s, <1>t, <2>1, <2>3 DEF SetStage, TypeOK, DocRow
  <2>4. CASE Complete(c)
    <3>1. /\ OwnsLive(c) /\ job'[c.job].status = "SUCCEEDED"
          /\ \A j \in Job : j # c.job => job'[j] = job[j]
          /\ doc'[d].status = "COMPLETED" /\ \A e \in Doc : e # d => doc'[e] = doc[e]
      BY <1>t, <2>1, <2>4 DEF Complete, TypeOK, JobRow, DocRow
    <3>2. PhaseOf(d)' = "completed"
      BY <1>t, <3>1 DEF PhaseTable
    <3> QED BY <2>1, <3>1, <3>2, SettleMoves DEF Abstract!Succeed
  <2>5. CASE FailRetryable(c)
    <3>1. /\ OwnsLive(c) /\ job'[c.job].status = "QUEUED"
          /\ \A j \in Job : j # c.job => job'[j] = job[j]
          /\ \A e \in Doc : e # d => doc'[e] = doc[e]
      BY <1>t, <2>1, <2>5 DEF FailRetryable, TypeOK, JobRow
    <3>2. PhaseOf(d)' = "waiting"
      BY <1>t, <2>1, <3>1 DEF PhaseTable, Status
    <3> QED BY <2>1, <3>1, <3>2, SettleMoves DEF Abstract!Retry
  <2>6. ASSUME NEW retryable \in BOOLEAN, FailDead(c, retryable)
        PROVE  \E e \in Doc : Abstract!Fail(e)
    <3>1. /\ OwnsLive(c) /\ job'[c.job].status = "DEAD"
          /\ \A j \in Job : j # c.job => job'[j] = job[j]
          /\ doc'[d].status = "FAILED" /\ \A e \in Doc : e # d => doc'[e] = doc[e]
      BY <1>t, <2>1, <2>6 DEF FailDead, TypeOK, JobRow, DocRow
    <3>2. PhaseOf(d)' = "failed"
      BY <1>t, <3>1 DEF PhaseTable
    <3> QED BY <2>1, <3>1, <3>2, SettleMoves DEF Abstract!Fail
  <2> QED BY <1>5, <2>2, <2>3, <2>4, <2>5, <2>6 DEF ClaimStep, FinishFailure
<1>6. CASE RecoverLegacy
  <2>1. /\ Stranded \in SUBSET Doc /\ Stranded # {} /\ job' = job
        /\ \A d \in Stranded : doc'[d].status = "FAILED"
        /\ \A d \in Doc \ Stranded : doc'[d] = doc[d]
    BY <1>6 DEF RecoverLegacy, Stranded
  <2>2. \A d \in Stranded : PhaseOf(d) \in {"stranded"} /\ PhaseOf(d)' = "failed"
    BY <1>t, <2>1 DEF PhaseTable
  <2>3. Abstract!Move(Stranded, "failed") /\ Abstract!In(Stranded, {"stranded"})
    BY <2>1, <2>2, PhaseFrame, PhaseMoves, PhaseIn
  <2>4. \A d \in Doc : RowsOf(d)' = RowsOf(d)
    BY <2>1, RowsFrame
  <2>5. Abstract!Abandon(Stranded)
    BY <2>3, <2>4, RoundsKept DEF Abstract!Abandon
  <2> QED BY <2>1, <2>5 DEF Abstract!Next
<1>7. ASSUME NEW j \in Job, LeaseLapses(j) \/ BackoffElapses(j)
      PROVE  UNCHANGED Abstract!vars
  <2>1. doc' = doc /\ \A k \in Job : job'[k].status = job[k].status
    BY <1>7, <1>t DEF LeaseLapses, BackoffElapses, TypeOK, JobRow
  <2> QED BY <1>s, <2>1
<1>8. CASE UNCHANGED queueVars
  BY <1>s, <1>8 DEF queueVars
<1> QED BY <1>1, <1>2, <1>3, <1>4, <1>5, <1>6, <1>7, <1>8 DEF Next, DocumentStep, Abstract!Next

\* Every statement of the queue (ingestion/jobs.rs) is a step of the promised
\* life cycle of a document or leaves it unchanged: one round per accepted upload
\* or requeue, one outcome per round, no outcome of a document not in work.
THEOREM QueueImplementsDocumentIngestion == Spec => ImplementsDocumentIngestion
<1>1. Init => Abstract!Init
  <2> SUFFICES ASSUME Init PROVE Abstract!Init
    OBVIOUS
  <2>1. ASSUME NEW d \in Doc PROVE PhaseOf(d) \in {"absent", "stranded"} /\ RowsOf(d) = {}
    <3>1. /\ doc[d].status \in {"absent", "PROCESSING"}
          /\ \A n \in 1..MaxRounds : job[<<d, n>>].status = "absent"
      BY JobType DEF Init, NoRow
    <3> QED BY <3>1 DEF PhaseOf, HasJob, RowsOf
  <2>2. [d \in Doc |-> Cardinality(RowsOf(d))] = [d \in Doc |-> 0]
    BY <2>1, FS_EmptySet
  <2> QED BY <2>1, <2>2 DEF Abstract!Init
<1> QED BY <1>1, QueueStepRefines, TableInvariant, PTL DEF Spec, ImplementsDocumentIngestion, Abstract!Spec

-----------------------------------------------------------------------------
(* Part two: the workers *)

\* Claims in a worker's memory are claims the queue returned.
HeldClaims ==
    /\ cur \in [Worker -> claims \cup {NoClaim}]
    /\ batch \in [Worker -> SUBSET claims]

\* The control state of each worker.
Control ==
    /\ pc \in [Worker -> {"idle"} \cup WorkSteps \cup FailSteps]
    /\ \A w \in Worker : pc[w] = "idle" <=> cur[w] = NoClaim
    /\ mode \in [Worker -> {"run", "draining", "stopped"}]
    /\ found \in [Worker -> BOOLEAN]

\* The stores the pipeline writes and the counters of the model.
Stores ==
    /\ chunks \cup blank \cup uploading \subseteq Doc
    /\ points \in [Doc -> SUBSET Batches]
    /\ outbox \in [Doc -> {"none", "pending", "processed"}]
    /\ disturbed \in 0..MaxDisturbances

WInv == HeldClaims /\ Control /\ Stores

\* Every action of the worker module is a queue step by a held claim, or leaves
\* the queue alone.
LEMMA WorkerStepIsQueueStep ==
    ASSUME HeldClaims, Control, WNext
    PROVE  Next \/ UNCHANGED queueVars
<1> USE DEF queueVars, loopVars, storeVars
<1>1. ASSUME NEW w \in Worker, Poll(w) PROVE Next
  BY <1>1 DEF Poll, Next
<1>2. ASSUME NEW w \in Worker, pc[w] # "idle" PROVE cur[w] \in claims
  BY <1>2 DEF HeldClaims, Control
<1>3. ASSUME NEW w \in Worker, Heartbeat(w) PROVE Next \/ UNCHANGED queueVars
  <2>1. pc[w] # "idle"
    BY <1>3 DEF Heartbeat, WorkSteps, After
  <2>2. CASE ExtendLease(cur[w])
    BY <1>2, <2>1, <2>2 DEF Next, ClaimStep
  <2> QED BY <1>3, <2>2 DEF Heartbeat
<1>4. ASSUME NEW w \in Worker, Report(w) PROVE Next \/ UNCHANGED queueVars
  <2>1. pc[w] # "idle" /\ StageAt[pc[w]] \in RunningStages
    BY <1>4, AllStagesAssumption DEF Report, StageAt
  <2>2. CASE SetStage(cur[w], StageAt[pc[w]])
    BY <1>2, <2>1, <2>2 DEF Next, ClaimStep
  <2> QED BY <1>4, <2>2 DEF Report
<1>5. ASSUME NEW w \in Worker, CompleteJob(w) PROVE Next \/ UNCHANGED queueVars
  BY <1>2, <1>5 DEF CompleteJob, Next, ClaimStep
<1>6. ASSUME NEW w \in Worker, RecordFailure(w) PROVE Next \/ UNCHANGED queueVars
  <2>1. pc[w] # "idle" /\ (pc[w] = "fail_retryable") \in BOOLEAN
    BY <1>6 DEF RecordFailure, FailSteps
  <2>2. CASE FinishFailure(cur[w], pc[w] = "fail_retryable")
    BY <1>2, <2>1, <2>2 DEF Next, ClaimStep
  <2> QED BY <1>6, <2>2 DEF RecordFailure
<1>7. ASSUME NEW w \in Worker,
             \/ StartJob(w) \/ Drained(w) \/ Parse(w) \/ Compute(w) \/ Save(w)
             \/ BuildPoints(w) \/ CheckDocument(w) \/ DeletePoints(w) \/ UpsertPoints(w)
             \/ StepFails(w) \/ Signal(w) \/ Restart(w) \/ Crash(w)
      PROVE  UNCHANGED queueVars
  BY <1>7 DEF StartJob, Drained, Parse, Compute, Save, BuildPoints, CheckDocument,
              DeletePoints, UpsertPoints, StepFails, Signal, Restart, Crash
<1>8. ASSUME NEW d \in Doc, ApiStep(d) PROVE Next \/ UNCHANGED queueVars
  <2>1. CASE UploadDocument(d) \/ UploadRolledBack(d) \/ RequeueDocument(d) \/ DeleteRequest(d)
    <3>1. DocumentStep(d)
      BY <2>1 DEF UploadDocument, UploadRolledBack, RequeueDocument, DeleteRequest, DocumentStep
    <3> QED BY <3>1 DEF Next
  <2>2. CASE UploadDone(d) \/ QdrantDelete(d)
    BY <2>2 DEF UploadDone, QdrantDelete
  <2> QED BY <1>8, <2>1, <2>2 DEF ApiStep
<1>9. ASSUME NEW j \in Job, LapseAbandoned(j) \/ LapsePaused(j) \/ Backoff(j)
      PROVE  Next
  BY <1>9 DEF LapseAbandoned, LapsePaused, Backoff, Next
<1>10. CASE RecoverStale
  BY <1>10 DEF RecoverStale, Next
<1> QED
  BY <1>1, <1>3, <1>4, <1>5, <1>6, <1>7, <1>8, <1>9, <1>10 DEF WNext, Progress

-----------------------------------------------------------------------------
\* Claims are typed, so none of them is the NoClaim that marks an idle worker.
LEMMA ClaimIsNotNoClaim == TypeOK => NoClaim \notin claims
BY NoClaimAssumption DEF TypeOK

\* The queue only adds claims.
LEMMA ClaimsGrow == Next \/ UNCHANGED queueVars => claims \subseteq claims'
<1> SUFFICES ASSUME Next \/ UNCHANGED queueVars PROVE claims \subseteq claims'
  OBVIOUS
<1>1. CASE UNCHANGED queueVars
  BY <1>1 DEF queueVars
<1>2. CASE \E w \in Worker, S \in SUBSET Job : ClaimJobs(w, S)
  BY <1>2 DEF ClaimJobs
<1>3. CASE \E d \in Doc : DocumentStep(d)
  BY <1>3 DEF DocumentStep, Upload, Requeue, DeleteDocument
<1>4. CASE \E c \in claims : ClaimStep(c)
  BY <1>4 DEF ClaimStep, ExtendLease, SetStage, Complete, FinishFailure, FailRetryable, FailDead
<1>5. CASE RecoverLegacy \/ \E j \in Job : LeaseLapses(j) \/ BackoffElapses(j)
  BY <1>5 DEF RecoverLegacy, LeaseLapses, BackoffElapses
<1> QED
  BY <1>1, <1>2, <1>3, <1>4, <1>5 DEF Next

\* Steps that move one worker along and take no claim from the queue.
LEMMA MovesKeepHeldClaims ==
    ASSUME TypeOK, HeldClaims, Control, claims \subseteq claims', NEW w \in Worker,
           UNCHANGED <<batch, mode>>, found' \in [Worker -> BOOLEAN],
           \/ Leave(w)
           \/ pc[w] # "idle" /\ UNCHANGED <<pc, cur>>
           \/ \E step \in WorkSteps \cup FailSteps : pc[w] # "idle" /\ Goto(w, step)
    PROVE  HeldClaims' /\ Control'
<1>1. "idle" \notin WorkSteps \cup FailSteps
  BY DEF WorkSteps, FailSteps, After
<1> HIDE DEF WorkSteps, FailSteps
<1> USE ClaimIsNotNoClaim DEF HeldClaims, Control
<1>2. CASE Leave(w)
  BY <1>2 DEF Leave
<1>3. CASE UNCHANGED <<pc, cur>>
  BY <1>3
<1>4. CASE \E step \in WorkSteps \cup FailSteps : pc[w] # "idle" /\ Goto(w, step)
  BY <1>1, <1>4 DEF Goto
<1> QED
  BY <1>2, <1>3, <1>4

\* The document of a claim a worker has in hand.
LEMMA TypesOfHeldClaim ==
    ASSUME TypeOK, HeldClaims, Control, NEW w \in Worker, pc[w] # "idle"
    PROVE  DocOf(w) \in Doc
BY JobParts DEF HeldClaims, Control, DocOf, TypeOK, Claim

\* What is in a worker's memory stays typed and stays backed by the queue.
LEMMA WorkerStepKeepsClaims ==
    ASSUME TypeOK, HeldClaims, Control, claims \subseteq claims',
           NEW w \in Worker,
           Progress(w) \/ Heartbeat(w) \/ StepFails(w) \/ Signal(w) \/ Restart(w) \/ Crash(w)
    PROVE  HeldClaims' /\ Control'
<1>1. CASE Poll(w)
  <2>1. PICK S \in SUBSET Job :
           /\ ClaimJobs(w, S)
           /\ batch' = [batch EXCEPT ![w] =
                          {[job |-> j, worker |-> w, token |-> nextToken] : j \in S}]
    BY <1>1 DEF Poll
  <2>2. {[job |-> j, worker |-> w, token |-> nextToken] : j \in S} \subseteq claims'
    BY <2>1 DEF ClaimJobs
  <2>3. HeldClaims'
    BY <1>1, <2>1, <2>2 DEF HeldClaims, Poll
  <2> QED BY <1>1, <2>3 DEF Poll, Control
<1>2. CASE StartJob(w)
  <2>1. PICK c \in batch[w] : /\ cur' = [cur EXCEPT ![w] = c]
                              /\ batch' = [batch EXCEPT ![w] = @ \ {c}]
    BY <1>2 DEF StartJob
  <2>2. c \in claims /\ c # NoClaim
    BY <2>1, ClaimIsNotNoClaim DEF HeldClaims
  <2>3. HeldClaims'
    BY <1>2, <2>1, <2>2 DEF HeldClaims, StartJob
  <2>4. "set_parsing" \in WorkSteps
    BY DEF WorkSteps, After
  <2> HIDE DEF WorkSteps, FailSteps
  <2> QED BY <1>2, <2>1, <2>2, <2>3, <2>4 DEF StartJob, Control, HeldClaims
<1>3. CASE Drained(w) \/ Signal(w) \/ Restart(w)
  BY <1>3 DEF Drained, Signal, Restart, HeldClaims, Control
<1>4. CASE Crash(w)
  <2>1. HeldClaims'
    BY <1>4 DEF Crash, Leave, HeldClaims
  <2> HIDE DEF WorkSteps, FailSteps
  <2> QED BY <1>4, <2>1, ClaimIsNotNoClaim DEF Crash, Leave, HeldClaims, Control
<1>5. CASE Heartbeat(w)
  <2>1. pc[w] # "idle"
    BY <1>5 DEF Heartbeat, WorkSteps, After
  <2> QED BY <1>5, <2>1, MovesKeepHeldClaims DEF Heartbeat, Control
<1>6. CASE StepFails(w) \/ Report(w) \/ Compute(w) \/ CheckDocument(w)
           \/ DeletePoints(w) \/ UpsertPoints(w) \/ Save(w)
  <2>1. pc[w] # "idle"
    BY <1>6 DEF StepFails, Report, Compute, CheckDocument, DeletePoints, UpsertPoints, Save,
                WorkSteps, After, StageAt
  <2>2. Leave(w) \/ \E step \in WorkSteps \cup FailSteps : Goto(w, step)
    BY <1>6 DEF StepFails, Report, Compute, CheckDocument, DeletePoints, UpsertPoints, Save,
                WorkSteps, FailSteps, After, StageAt
  <2>3. UNCHANGED <<batch, mode, found>>
    BY <1>6 DEF StepFails, Report, Compute, CheckDocument, DeletePoints, UpsertPoints, Save
  <2> QED BY <2>1, <2>2, <2>3, MovesKeepHeldClaims DEF Control
<1>7. CASE Parse(w) \/ BuildPoints(w)
  <2>1. pc[w] # "idle"
    BY <1>7 DEF Parse, BuildPoints
  <2>2. \E step \in WorkSteps \cup FailSteps : Goto(w, step)
    <3>1. /\ {"clear_output", "set_embedding", After.build_points} \subseteq WorkSteps
          /\ {"fail_permanent", "fail_retryable"} \subseteq FailSteps
      BY DEF WorkSteps, FailSteps, After
    <3> HIDE DEF WorkSteps, FailSteps
    <3> QED BY <1>7, <3>1 DEF Parse, BuildPoints
  <2>3. \E b \in BOOLEAN : found' = [found EXCEPT ![w] = b]
    <3>1. CASE Parse(w)
      BY <3>1 DEF Parse
    <3>2. CASE BuildPoints(w)
      <4>1. (DocOf(w) \in chunks) \in BOOLEAN
        OBVIOUS
      <4> QED BY <3>2, <4>1 DEF BuildPoints
    <3> QED BY <1>7, <3>1, <3>2
  <2>4. UNCHANGED <<batch, mode>> /\ found' \in [Worker -> BOOLEAN]
    BY <1>7, <2>3 DEF Parse, BuildPoints, Control
  <2> QED BY <2>1, <2>2, <2>4, MovesKeepHeldClaims
<1>8. CASE CompleteJob(w) \/ RecordFailure(w)
  <2>1. Leave(w) /\ UNCHANGED <<batch, mode, found>>
    BY <1>8 DEF CompleteJob, RecordFailure
  <2> QED BY <2>1, MovesKeepHeldClaims DEF Control
<1> QED
  BY <1>1, <1>2, <1>3, <1>4, <1>5, <1>6, <1>7, <1>8 DEF Progress

\* The API, the clock and the recovery command touch no worker's memory.
LEMMA OtherStepsKeepClaims ==
    ASSUME HeldClaims, Control, claims \subseteq claims', UNCHANGED loopVars
    PROVE  HeldClaims' /\ Control'
BY DEF HeldClaims, Control, loopVars

\* The stores keep their types.
LEMMA StepKeepsStores ==
    ASSUME TypeOK, WInv, WNext \/ UNCHANGED workerVars
    PROVE  Stores'
<1> USE DEF WInv, Stores, storeVars, Batches
<1>1. CASE UNCHANGED workerVars
  BY <1>1 DEF workerVars
<1>2. ASSUME NEW kind, Disturb(kind) PROVE disturbed' \in 0..MaxDisturbances
  BY <1>2, BoundAssumption DEF Disturb
<1>3. ASSUME NEW w \in Worker, Progress(w) \/ Heartbeat(w) \/ StepFails(w)
                               \/ Signal(w) \/ Restart(w) \/ Crash(w)
      PROVE  Stores'
  <2>1. CASE Save(w)
    <3>1. CASE Present(DocOf(w))
      <4>1. DocOf(w) \in Doc
        BY <2>1, TypesOfHeldClaim DEF Save, Control, WorkSteps, After
      <4> QED BY <2>1, <3>1, <4>1 DEF Save
    <3> QED BY <2>1, <3>1 DEF Save
  <2>2. CASE DeletePoints(w) \/ UpsertPoints(w)
    BY <2>2 DEF DeletePoints, UpsertPoints
  <2>3. CASE Signal(w) \/ Crash(w) \/ RecordFailure(w)
    BY <1>2, <2>3 DEF Signal, Crash, RecordFailure
  <2> QED
    BY <1>3, <2>1, <2>2, <2>3 DEF Progress, Heartbeat, StepFails, Restart, Poll, StartJob,
       Drained, Report, Parse, Compute, BuildPoints, CheckDocument, CompleteJob
<1>4. ASSUME NEW d \in Doc, ApiStep(d) PROVE Stores'
  BY <1>2, <1>4 DEF ApiStep, UploadDocument, UploadDone, UploadRolledBack, RequeueDocument,
     DeleteRequest, QdrantDelete
<1>5. CASE RecoverStale \/ \E j \in Job : LapseAbandoned(j) \/ LapsePaused(j) \/ Backoff(j)
  BY <1>2, <1>5 DEF RecoverStale, LapseAbandoned, LapsePaused, Backoff
<1> QED
  BY <1>1, <1>3, <1>4, <1>5 DEF WNext

-----------------------------------------------------------------------------
\* The inductive invariant: both modules' types.
FullInv == TypeOK /\ WInv

\* The initial states are typed.
LEMMA InitFullInv == WInit => FullInv
<1> SUFFICES ASSUME WInit PROVE FullInv
  OBVIOUS
<1>1. TypeOK
  BY InitTypeOK DEF WInit
<1>2. HeldClaims /\ Control
  BY DEF WInit, HeldClaims, Control
<1>3. Stores
  BY BoundAssumption DEF WInit, Stores
<1> QED
  BY <1>1, <1>2, <1>3 DEF FullInv, WInv

\* Every step keeps them, and is a step of the queue or leaves it alone.
LEMMA NextFullInv == FullInv /\ [WNext]_workerVars => FullInv' /\ [Next]_queueVars
<1> SUFFICES ASSUME FullInv, [WNext]_workerVars PROVE FullInv' /\ [Next]_queueVars
  OBVIOUS
<1> USE DEF FullInv, WInv
<1>1. Next \/ UNCHANGED queueVars
  BY WorkerStepIsQueueStep DEF workerVars
<1>2. TypeOK' /\ claims \subseteq claims'
  BY <1>1, NextTypeOK, ClaimsGrow
<1>3. HeldClaims' /\ Control'
  <2>1. CASE UNCHANGED workerVars
    BY <1>2, <2>1, OtherStepsKeepClaims DEF workerVars
  <2>2. CASE WNext
    <3>1. ASSUME NEW d \in Doc, ApiStep(d) PROVE UNCHANGED loopVars
      BY <3>1 DEF ApiStep, UploadDocument, UploadDone, UploadRolledBack, RequeueDocument,
         DeleteRequest, QdrantDelete
    <3>2. ASSUME NEW j \in Job, LapseAbandoned(j) \/ LapsePaused(j) \/ Backoff(j)
          PROVE  UNCHANGED loopVars
      BY <3>2 DEF LapseAbandoned, LapsePaused, Backoff
    <3>3. ASSUME RecoverStale PROVE UNCHANGED loopVars
      BY <3>3 DEF RecoverStale
    <3> QED
      BY <1>2, <2>2, <3>1, <3>2, <3>3, OtherStepsKeepClaims, WorkerStepKeepsClaims DEF WNext
  <2> QED BY <2>1, <2>2
<1>4. Stores'
  BY StepKeepsStores
<1> QED
  BY <1>1, <1>2, <1>3, <1>4

\* Whatever the workers, the API and the faults do, the tables documents and
\* ingestion_jobs go through a behaviour of the queue specification.
THEOREM WorkersImplementQueue == WSpec => Spec
<1>1. WInit => Init
  BY DEF WInit
<1> QED
  BY <1>1, InitFullInv, NextFullInv, PTL DEF WSpec, Spec

\* Down both steps of abstraction: what processes, timers and handlers do to a
\* document, crashes and lost calls included, is the promised life cycle.
THEOREM WorkersImplementIngestion == WSpec => ImplementsDocumentIngestion
<1> QED
  BY WorkersImplementQueue, QueueImplementsDocumentIngestion, PTL

\* Types of the running system; an idle worker is one with no job in hand.
THEOREM WorkerTypeCorrect == WSpec => []WorkerTypeOK
<1>1. FullInv => WorkerTypeOK
  BY DEF FullInv, WInv, HeldClaims, Control, Stores, WorkerTypeOK
<1> QED
  BY <1>1, InitFullInv, NextFullInv, PTL DEF WSpec

\* The safety of the queue, carried over to the running workers: no document is
\* ever worked on under two active jobs, the two tables agree, and no worker
\* settles a job after its successor has claimed it.
THEOREM WorkersKeepQueueSafe ==
    WSpec => []( /\ OneActiveJob /\ ActiveJobMatchesDocument /\ StageMatchesStatus
                 /\ OutcomeMatchesLatestJob /\ QueuedHasAttemptsLeft /\ SettledByLastClaim )
<1> QED
  BY WorkersImplementQueue, OneActiveJobHolds, TablesAgree, QueuedHasAttemptsLeftHolds,
     SettledByLastClaimHolds, PTL

-----------------------------------------------------------------------------
(* The steps of one worker.                                                *)

\* The document's row is gone for good.
Gone(d) == doc[d].status = "deleted"

\* The steps of the pipeline that go on to another step.
Works(w) ==
    \/ Report(w) \/ Parse(w) \/ Compute(w) \/ Save(w) \/ BuildPoints(w)
    \/ CheckDocument(w) \/ DeletePoints(w) \/ UpsertPoints(w)

\* What a step of the system does to one worker: nothing, the end or the start
\* of a job, a failure, or the next step of its pipeline.
LEMMA WorkerMoves ==
    ASSUME FullInv, [WNext]_workerVars, NEW w \in Worker
    PROVE  \/ pc'[w] = pc[w] /\ cur'[w] = cur[w] /\ found'[w] = found[w]
           \/ pc'[w] \in {"idle", "set_parsing"} \cup FailSteps
           \/ Works(w) /\ pc[w] # "idle" /\ cur'[w] = cur[w]
<1> DEFINE Goal == \/ pc'[w] = pc[w] /\ cur'[w] = cur[w] /\ found'[w] = found[w]
                   \/ pc'[w] \in {"idle", "set_parsing"} \cup FailSteps
                   \/ Works(w) /\ pc[w] # "idle" /\ cur'[w] = cur[w]
<1>t. /\ pc \in [Worker -> {"idle"} \cup WorkSteps \cup FailSteps]
      /\ cur \in [Worker -> claims \cup {NoClaim}]
      /\ found \in [Worker -> BOOLEAN]
  BY DEF FullInv, WInv, HeldClaims, Control
<1> HIDE DEF WorkSteps, FailSteps
<1>1. ASSUME UNCHANGED loopVars PROVE Goal
  BY <1>1 DEF loopVars
<1>2. ASSUME NEW v \in Worker, Poll(v) \/ Drained(v) \/ Signal(v) \/ Restart(v) PROVE Goal
  BY <1>2 DEF Poll, Drained, Signal, Restart
<1>3. ASSUME NEW v \in Worker, StartJob(v) \/ Crash(v) PROVE Goal
  BY <1>t, <1>3 DEF StartJob, Crash, Leave
<1>4. ASSUME NEW v \in Worker, Heartbeat(v) \/ CompleteJob(v) \/ RecordFailure(v) PROVE Goal
  BY <1>t, <1>4 DEF Heartbeat, CompleteJob, RecordFailure, Leave
<1>5. ASSUME NEW v \in Worker, StepFails(v) PROVE Goal
  BY <1>t, <1>5 DEF StepFails, Goto, FailSteps
<1>6. ASSUME NEW v \in Worker, Works(v) PROVE Goal
  <2>1. CASE v # w
    <3>1. Leave(v) \/ \E step : Goto(v, step)
      BY <1>6 DEF Works, Report, Parse, Compute, Save, BuildPoints, CheckDocument, DeletePoints,
                  UpsertPoints
    <3>2. pc'[w] = pc[w] /\ cur'[w] = cur[w]
      BY <1>t, <2>1, <3>1 DEF Leave, Goto
    <3>3. found'[w] = found[w]
      BY <1>t, <1>6, <2>1 DEF Works, Report, Parse, Compute, Save, BuildPoints, CheckDocument,
                              DeletePoints, UpsertPoints
    <3> QED BY <3>2, <3>3
  <2>2. CASE v = w
    <3>1. pc[w] # "idle"
      BY <1>6, <2>2 DEF Works, Report, Parse, Compute, Save, BuildPoints, CheckDocument,
                        DeletePoints, UpsertPoints, StageAt
    <3>2. Leave(w) \/ UNCHANGED cur
      BY <1>6, <2>2 DEF Works, Report, Parse, Compute, Save, BuildPoints, CheckDocument,
                        DeletePoints, UpsertPoints, Goto
    <3> QED BY <1>t, <1>6, <2>2, <3>1, <3>2 DEF Leave
  <2> QED BY <2>1, <2>2
<1>7. ASSUME NEW d \in Doc, ApiStep(d) PROVE UNCHANGED loopVars
  BY <1>7 DEF ApiStep, UploadDocument, UploadDone, UploadRolledBack, RequeueDocument,
     DeleteRequest, QdrantDelete
<1>8. ASSUME NEW j \in Job, LapseAbandoned(j) \/ LapsePaused(j) \/ Backoff(j)
      PROVE  UNCHANGED loopVars
  BY <1>8 DEF LapseAbandoned, LapsePaused, Backoff
<1>9. ASSUME RecoverStale \/ UNCHANGED workerVars PROVE UNCHANGED loopVars
  BY <1>9 DEF RecoverStale, workerVars, loopVars
<1> HIDE DEF Goal
<1>10. ASSUME NEW v \in Worker, Progress(v) PROVE Goal
  BY <1>2, <1>3, <1>4, <1>6, <1>10 DEF Progress, Works
<1>11. Goal
  BY <1>1, <1>2, <1>3, <1>4, <1>5, <1>7, <1>8, <1>9, <1>10 DEF WNext
<1> QED
  BY <1>11 DEF Goal

\* The document of a claim whose lease is live is being processed.
LEMMA LiveDocument ==
    ASSUME TableInv, NEW c \in claims, OwnsLive(c)
    PROVE  c.job \in Job /\ c.job[1] \in Doc /\ doc[c.job[1]].status = "PROCESSING"
<1>1. c.job \in Job /\ c.job[1] \in Doc /\ c.job[2] \in 1..MaxRounds /\ c.job = <<c.job[1], c.job[2]>>
  BY JobParts DEF TableInv, TypeOK, Claim
<1>2. Active(<<c.job[1], c.job[2]>>)
  BY <1>1 DEF OwnsLive, Owns, Active
<1> QED
  BY <1>1, <1>2 DEF TableInv, DocInv, ActiveWhileProcessing

\* An API statement writes one document's row, never a deleted one, and leaves it
\* pending or deleted.
LEMMA DocumentStepRow ==
    ASSUME doc \in [Doc -> DocRow], NEW x \in Doc, DocumentStep(x), NEW d \in Doc
    PROVE  \/ doc'[d] = doc[d]
           \/ doc[d].status # "deleted" /\ doc'[d].status \in {"PROCESSING", "deleted"}
<1>1. CASE Upload(x)
  <2>1. /\ doc' = [doc EXCEPT ![x] = [status |-> "PROCESSING", stage |-> "QUEUED"]]
        /\ doc[x].status = "absent"
    BY <1>1 DEF Upload
  <2> QED BY <2>1
<1>2. ASSUME NEW eligible \in {FailedOnly, FailedOrCompleted}, Requeue(x, eligible)
      PROVE  doc'[d] = doc[d] \/ (doc[d].status # "deleted" /\ doc'[d].status = "PROCESSING")
  <2>1. /\ doc' = [doc EXCEPT ![x] = [status |-> "PROCESSING", stage |-> "QUEUED"]]
        /\ doc[x].status \in {"FAILED", "COMPLETED"}
    BY <1>2 DEF Requeue, FailedOnly, FailedOrCompleted
  <2> QED BY <2>1
<1>3. CASE DeleteDocument(x)
  <2>1. /\ doc' = [doc EXCEPT ![x].status = "deleted"]
        /\ doc[x].status \in {"PROCESSING", "COMPLETED", "FAILED"}
    BY <1>3 DEF DeleteDocument, Present
  <2> QED BY <2>1 DEF DocRow
<1> QED
  BY <1>1, <1>2, <1>3 DEF DocumentStep

\* A deleted row stays deleted: an identifier is not used again.
LEMMA DeletedStays ==
    ASSUME TableInv, [Next]_queueVars, NEW d \in Doc, Gone(d)
    PROVE  Gone(d)'
<1> USE DEF Gone
<1>t. doc \in [Doc -> DocRow]
  BY DEF TableInv, TypeOK
<1>1. ASSUME NEW x \in Doc, DocumentStep(x) PROVE Gone(d)'
  BY <1>t, <1>1, DocumentStepRow
<1>2. ASSUME NEW c \in claims, ClaimStep(c) PROVE Gone(d)'
  <2>1. CASE ExtendLease(c)
    BY <2>1 DEF ExtendLease
  <2>2. CASE ~ExtendLease(c)
    <3>1. OwnsLive(c)
      BY <1>2, <2>2 DEF ClaimStep, SetStage, Complete, FinishFailure, FailRetryable, FailDead
    <3>2. c.job[1] # d
      BY <3>1, LiveDocument
    <3> QED BY <1>t, <1>2, <2>2, <3>2 DEF ClaimStep, SetStage, Complete, FinishFailure,
                                          FailRetryable, FailDead
  <2> QED BY <2>1, <2>2
<1>3. ASSUME RecoverLegacy PROVE Gone(d)'
  BY <1>t, <1>3 DEF RecoverLegacy, Stranded
<1>4. ASSUME UNCHANGED doc PROVE Gone(d)'
  BY <1>4
<1>5. ASSUME NEW w \in Worker, NEW S \in SUBSET Job, ClaimJobs(w, S) PROVE UNCHANGED doc
  BY <1>5 DEF ClaimJobs
<1>6. ASSUME NEW j \in Job, LeaseLapses(j) \/ BackoffElapses(j) PROVE UNCHANGED doc
  BY <1>6 DEF LeaseLapses, BackoffElapses
<1> QED
  BY <1>1, <1>2, <1>3, <1>4, <1>5, <1>6 DEF Next, queueVars

\* A document is shown as COMPLETED only by the worker that completes its job.
LEMMA CompletedBy ==
    ASSUME FullInv, TableInv, [WNext]_workerVars, NEW d \in Doc,
           doc'[d].status = "COMPLETED", doc[d].status # "COMPLETED"
    PROVE  \E w \in Worker : pc[w] = "complete" /\ OwnsLive(cur[w]) /\ DocOf(w) = d
<1>t. doc \in [Doc -> DocRow]
  BY DEF TableInv, TypeOK
<1>1. ASSUME NEW x \in Doc, DocumentStep(x) PROVE FALSE
  BY <1>t, <1>1, DocumentStepRow
<1>2. ASSUME UNCHANGED doc PROVE FALSE
  BY <1>2
<1>3. ASSUME NEW w \in Worker, CompleteJob(w)
      PROVE  pc[w] = "complete" /\ OwnsLive(cur[w]) /\ DocOf(w) = d
  BY <1>t, <1>3 DEF CompleteJob, Complete, DocOf, queueVars
<1>4. ASSUME NEW w \in Worker, Report(w) \/ RecordFailure(w) \/ Heartbeat(w) \/ Poll(w) PROVE FALSE
  <2>1. ASSUME NEW c, NEW stage, SetStage(c, stage) PROVE FALSE
    BY <1>t, <2>1 DEF SetStage
  <2>2. ASSUME NEW c, NEW r, FinishFailure(c, r) PROVE FALSE
    BY <1>t, <2>2 DEF FinishFailure, FailRetryable, FailDead
  <2>3. ASSUME NEW c, ExtendLease(c) PROVE FALSE
    BY <1>2, <2>3 DEF ExtendLease
  <2>4. ASSUME NEW S, ClaimJobs(w, S) PROVE FALSE
    BY <1>2, <2>4 DEF ClaimJobs
  <2>5. ASSUME UNCHANGED queueVars PROVE FALSE
    BY <1>2, <2>5 DEF queueVars
  <2> QED BY <1>4, <2>1, <2>2, <2>3, <2>4, <2>5 DEF Report, RecordFailure, Heartbeat, Poll
<1>5. ASSUME NEW w \in Worker,
             \/ StartJob(w) \/ Drained(w) \/ Parse(w) \/ Compute(w) \/ Save(w)
             \/ BuildPoints(w) \/ CheckDocument(w) \/ DeletePoints(w) \/ UpsertPoints(w)
             \/ StepFails(w) \/ Signal(w) \/ Restart(w) \/ Crash(w)
      PROVE  FALSE
  BY <1>2, <1>5 DEF StartJob, Drained, Parse, Compute, Save, BuildPoints, CheckDocument,
              DeletePoints, UpsertPoints, StepFails, Signal, Restart, Crash, queueVars
<1>6. ASSUME NEW x \in Doc, ApiStep(x) PROVE FALSE
  <2>1. DocumentStep(x) \/ UNCHANGED doc
    BY <1>6 DEF ApiStep, UploadDocument, UploadDone, UploadRolledBack, RequeueDocument,
       DeleteRequest, QdrantDelete, DocumentStep, queueVars
  <2> QED BY <1>1, <1>2, <2>1
<1>7. ASSUME NEW j \in Job, LapseAbandoned(j) \/ LapsePaused(j) \/ Backoff(j) PROVE FALSE
  BY <1>2, <1>7 DEF LapseAbandoned, LapsePaused, Backoff, LeaseLapses, BackoffElapses
<1>8. ASSUME RecoverStale \/ UNCHANGED workerVars PROVE FALSE
  BY <1>t, <1>2, <1>8 DEF RecoverStale, RecoverLegacy, workerVars, queueVars
<1> QED
  BY <1>3, <1>4, <1>5, <1>6, <1>7, <1>8 DEF WNext, Progress

-----------------------------------------------------------------------------
(* What a completed document has in document_chunks.                       *)

\* The steps after the text was saved, or was found to yield no chunk.
Saved == {"build_points", "check_document", "set_indexing", "recheck_document",
          "set_indexing_again", "delete_points", "upsert_first", "upsert_rest", "complete"}

\* The pipeline reaches those steps only through Save, or through the branch of
\* Parse for a document without text.
LEMMA PipelineOrder ==
    ASSUME FullInv, NEW w \in Worker, Works(w)
    PROVE  /\ pc'[w] = "clear_output" => DocOf(w) \in blank
           /\ pc'[w] = "build_points" => pc[w] = "save" /\ DocOf(w) \in chunks'
           /\ pc'[w] \in Saved \ {"build_points"} => pc[w] \in Saved \cup {"clear_output"}
<1>t. pc \in [Worker -> {"idle"} \cup WorkSteps \cup FailSteps]
  BY DEF FullInv, WInv, Control
<1>to. ASSUME NEW step, Goto(w, step) PROVE pc'[w] = step
  BY <1>t, <1>to DEF Goto
<1>le. ASSUME Leave(w) PROVE pc'[w] = "idle"
  BY <1>t, <1>le DEF Leave
<1>1. CASE Report(w)
  <2>1. /\ pc[w] \in DOMAIN StageAt
        /\ pc'[w] = "idle" \/ pc'[w] = After[pc[w]]
    BY <1>1, <1>to, <1>le DEF Report
  <2> QED BY <2>1 DEF StageAt, After, Saved
<1>2. CASE Parse(w)
  <2>1. \/ pc'[w] = "clear_output" /\ DocOf(w) \in blank
        \/ pc'[w] \in {"set_embedding", "fail_permanent", "fail_retryable"}
    BY <1>2, <1>to DEF Parse
  <2> QED BY <2>1 DEF Saved
<1>3. CASE Compute(w) \/ DeletePoints(w) \/ UpsertPoints(w) \/ BuildPoints(w)
  <2>1. /\ pc[w] \in {"embed", "extract", "clear_output", "delete_points", "upsert_first",
                       "upsert_rest", "build_points"}
        /\ pc'[w] = After[pc[w]]
    BY <1>3, <1>to DEF Compute, DeletePoints, UpsertPoints, BuildPoints
  <2> QED BY <2>1 DEF After, Saved
<1>4. CASE CheckDocument(w)
  <2>1. /\ pc[w] \in {"check_document", "recheck_document"}
        /\ pc'[w] = "idle" \/ pc'[w] = After[pc[w]]
    BY <1>4, <1>to, <1>le DEF CheckDocument
  <2> QED BY <2>1 DEF After, Saved
<1>5. CASE Save(w)
  <2>1. /\ pc[w] = "save"
        /\ \/ pc'[w] = After.save /\ DocOf(w) \in chunks'
           \/ pc'[w] = "fail_retryable"
    BY <1>5, <1>to DEF Save
  <2> QED BY <2>1 DEF After, Saved
<1> QED
  BY <1>1, <1>2, <1>3, <1>4, <1>5 DEF Works

\* Chunks leave document_chunks only with their document, and whether a text
\* yields any does not change.
LEMMA ChunksStay ==
    ASSUME FullInv, [WNext]_workerVars, NEW d \in Doc, d \in chunks
    PROVE  d \in chunks' \/ Gone(d)'
<1>t. doc \in [Doc -> DocRow]
  BY DEF FullInv, TypeOK
<1>1. ASSUME NEW x \in Doc, DeleteDocument(x), chunks' = chunks \ {x}
      PROVE  d \in chunks' \/ Gone(d)'
  <2>1. doc' = [doc EXCEPT ![x].status = "deleted"]
    BY <1>1 DEF DeleteDocument
  <2> QED BY <1>t, <1>1, <2>1 DEF Gone, DocRow
<1>2. ASSUME NEW x \in Doc, ApiStep(x) PROVE d \in chunks' \/ Gone(d)'
  <2>1. CASE UploadRolledBack(x) \/ DeleteRequest(x)
    BY <1>1, <2>1 DEF UploadRolledBack, DeleteRequest
  <2> QED BY <1>2, <2>1 DEF ApiStep, UploadDocument, UploadDone, RequeueDocument, QdrantDelete,
                            storeVars
<1>3. ASSUME NEW w \in Worker, Progress(w) \/ Heartbeat(w) \/ StepFails(w) \/ Signal(w)
                               \/ Restart(w) \/ Crash(w)
      PROVE  d \in chunks'
  BY <1>3 DEF Progress, Poll, StartJob, Drained, Report, Parse, Compute, Save, BuildPoints,
     CheckDocument, DeletePoints, UpsertPoints, CompleteJob, RecordFailure, Heartbeat,
     StepFails, Signal, Restart, Crash, storeVars
<1>4. ASSUME NEW j \in Job, LapseAbandoned(j) \/ LapsePaused(j) \/ Backoff(j)
      PROVE  d \in chunks'
  BY <1>4 DEF LapseAbandoned, LapsePaused, Backoff, storeVars
<1>5. ASSUME RecoverStale \/ UNCHANGED workerVars PROVE d \in chunks'
  BY <1>5 DEF RecoverStale, workerVars, storeVars
<1> QED
  BY <1>2, <1>3, <1>4, <1>5 DEF WNext

\* No step changes what a document's bytes yield.
LEMMA BlankFixed == [WNext]_workerVars => blank' = blank
<1> SUFFICES ASSUME [WNext]_workerVars PROVE blank' = blank
  OBVIOUS
<1>1. ASSUME NEW x \in Doc, ApiStep(x) PROVE blank' = blank
  BY <1>1 DEF ApiStep, UploadDocument, UploadDone, UploadRolledBack, RequeueDocument,
     DeleteRequest, QdrantDelete
<1>2. ASSUME NEW w \in Worker, Progress(w) \/ Heartbeat(w) \/ StepFails(w) \/ Signal(w)
                               \/ Restart(w) \/ Crash(w)
      PROVE  blank' = blank
  BY <1>2 DEF Progress, Poll, StartJob, Drained, Report, Parse, Compute, Save, BuildPoints,
     CheckDocument, DeletePoints, UpsertPoints, CompleteJob, RecordFailure, Heartbeat,
     StepFails, Signal, Restart, Crash
<1>3. ASSUME NEW j \in Job, LapseAbandoned(j) \/ LapsePaused(j) \/ Backoff(j)
      PROVE  blank' = blank
  BY <1>3 DEF LapseAbandoned, LapsePaused, Backoff
<1> QED
  BY <1>1, <1>2, <1>3 DEF WNext, RecoverStale, workerVars

\* A document has its chunks in the table, needs none, or is deleted.
Covered(d) == d \in blank \/ d \in chunks \/ Gone(d)

\* Once covered, always covered.
LEMMA CoveredStays ==
    ASSUME FullInv, TableInv, [WNext]_workerVars, NEW d \in Doc, Covered(d)
    PROVE  Covered(d)'
<1>1. [Next]_queueVars
  BY NextFullInv
<1> QED
  BY <1>1, DeletedStays, ChunksStay, BlankFixed DEF Covered

\* The worker w past Save works on a covered document.
SavedFor(w) ==
    /\ pc[w] = "clear_output" => DocOf(w) \in blank
    /\ pc[w] \in Saved => Covered(DocOf(w))

\* The strengthening: a COMPLETED document stays covered, and until it is
\* COMPLETED the worker that is past Save stands for it.
ChunksInv ==
    /\ FullInv
    /\ TableInv
    /\ \A w \in Worker : SavedFor(w)
    /\ \A d \in Doc : doc[d].status = "COMPLETED" => Covered(d)

\* At the start no pipeline is under way and no document is COMPLETED.
LEMMA InitChunksInv == WInit => ChunksInv
<1> SUFFICES ASSUME WInit PROVE ChunksInv
  OBVIOUS
<1>1. FullInv /\ TableInv
  BY InitFullInv, InitTableInv DEF WInit
<1>2. \A w \in Worker : SavedFor(w)
  BY DEF WInit, SavedFor, Saved
<1>3. \A d \in Doc : doc[d].status # "COMPLETED"
  BY DEF WInit, Init
<1> QED
  BY <1>1, <1>2, <1>3 DEF ChunksInv

\* Whatever interleaves, a worker past Save stands for a covered document, and
\* only such a worker completes one.
LEMMA NextChunksInv == ChunksInv /\ [WNext]_workerVars => ChunksInv'
<1> SUFFICES ASSUME ChunksInv, [WNext]_workerVars PROVE ChunksInv'
  OBVIOUS
<1>1. FullInv /\ TableInv /\ FullInv' /\ TableInv'
  BY NextFullInv, NextTableInv DEF ChunksInv
<1>2. ASSUME NEW w \in Worker PROVE SavedFor(w)'
  <2>1. SavedFor(w)
    BY DEF ChunksInv
  <2>2. ASSUME pc'[w] = pc[w], cur'[w] = cur[w], pc[w] \in Saved \cup {"clear_output"}
        PROVE  SavedFor(w)'
    <3>1. DocOf(w) \in Doc /\ DocOf(w)' = DocOf(w)
      BY <1>1, <2>2, TypesOfHeldClaim DEF FullInv, WInv, DocOf, Saved
    <3> QED BY <1>1, <2>1, <2>2, <3>1, CoveredStays, BlankFixed DEF SavedFor
  <2>3. ASSUME pc'[w] \in {"idle", "set_parsing"} \cup FailSteps PROVE SavedFor(w)'
    BY <2>3 DEF SavedFor, Saved, FailSteps
  <2>4. ASSUME Works(w), pc[w] # "idle", cur'[w] = cur[w] PROVE SavedFor(w)'
    <3>1. DocOf(w) \in Doc /\ DocOf(w)' = DocOf(w)
      BY <1>1, <2>4, TypesOfHeldClaim DEF FullInv, WInv, DocOf
    <3>2. /\ pc'[w] = "clear_output" => DocOf(w) \in blank
          /\ pc'[w] = "build_points" => DocOf(w) \in chunks'
          /\ pc'[w] \in Saved \ {"build_points"} => pc[w] \in Saved \cup {"clear_output"}
      BY <1>1, <2>4, PipelineOrder
    <3>3. pc[w] \in Saved \cup {"clear_output"} => Covered(DocOf(w))
      BY <2>1 DEF SavedFor, Covered
    <3>4. pc'[w] \in Saved => Covered(DocOf(w))'
      BY <1>1, <3>1, <3>2, <3>3, CoveredStays DEF Covered
    <3>5. pc'[w] = "clear_output" => DocOf(w)' \in blank'
      BY <3>1, <3>2, BlankFixed
    <3> QED BY <3>4, <3>5 DEF SavedFor
  <2>5. ASSUME pc'[w] = pc[w], pc[w] \notin Saved \cup {"clear_output"} PROVE SavedFor(w)'
    BY <2>5 DEF SavedFor
  <2> QED BY <1>1, <2>2, <2>3, <2>4, <2>5, WorkerMoves
<1>3. ASSUME NEW d \in Doc, doc'[d].status = "COMPLETED" PROVE Covered(d)'
  <2>1. CASE doc[d].status = "COMPLETED"
    BY <1>1, <2>1, CoveredStays DEF ChunksInv
  <2>2. CASE doc[d].status # "COMPLETED"
    <3>1. PICK w \in Worker : pc[w] = "complete" /\ DocOf(w) = d
      BY <1>1, <1>3, <2>2, CompletedBy
    <3>2. Covered(d)
      BY <3>1 DEF ChunksInv, SavedFor, Saved
    <3> QED BY <1>1, <3>2, CoveredStays
  <2> QED BY <2>1, <2>2
<1> QED
  BY <1>1, <1>2, <1>3 DEF ChunksInv

\* COMPLETED is never shown for a document whose text is not in document_chunks,
\* whatever crashes, pauses, lost answers, retries and deletions interleave: the
\* save is not fenced by the lease, and need not be.
THEOREM CompletedHasChunksHolds == WSpec => []CompletedHasChunks
<1>1. ChunksInv => CompletedHasChunks
  BY DEF ChunksInv, Covered, Gone, CompletedHasChunks
<1> QED
  BY <1>1, InitChunksInv, NextChunksInv, PTL DEF WSpec

-----------------------------------------------------------------------------
(* What a completed document has in Qdrant, when no worker is paused past   *)
(* its lease.                                                               *)

\* A worker acts under its own name.
OwnClaims(w) ==
    /\ pc[w] # "idle" => cur[w].worker = w
    /\ \A c \in batch[w] : c.worker = w

\* Only Poll puts claims in a batch, and only StartJob takes one in hand.
LEMMA OwnClaimsStay ==
    ASSUME FullInv, [WNext]_workerVars, NEW w \in Worker, OwnClaims(w)
    PROVE  OwnClaims(w)'
<1> DEFINE Goal == OwnClaims(w)'
<1>t. /\ pc \in [Worker -> {"idle"} \cup WorkSteps \cup FailSteps]
      /\ cur \in [Worker -> claims \cup {NoClaim}]
      /\ batch \in [Worker -> SUBSET claims]
  BY DEF FullInv, WInv, HeldClaims, Control
<1>i. /\ pc[w] # "idle" => cur[w].worker = w
      /\ \A c \in batch[w] : c.worker = w
  BY DEF OwnClaims
<1> HIDE DEF WorkSteps, FailSteps
<1>g. ASSUME batch'[w] \subseteq batch[w],
             pc'[w] = "idle" \/ (pc[w] # "idle" /\ cur'[w] = cur[w])
      PROVE  Goal
  BY <1>i, <1>g DEF OwnClaims
<1>1. ASSUME UNCHANGED loopVars PROVE Goal
  BY <1>g, <1>1 DEF loopVars
<1>2. ASSUME NEW v \in Worker, Poll(v) PROVE Goal
  <2>1. PICK S \in SUBSET Job :
           batch' = [batch EXCEPT ![v] =
                       {[job |-> j, worker |-> v, token |-> nextToken] : j \in S}]
    BY <1>2 DEF Poll
  <2>2. pc' = pc /\ cur' = cur
    BY <1>2 DEF Poll
  <2>3. CASE v = w
    <3>1. \A c \in batch'[w] : c.worker = w
      BY <1>t, <2>1, <2>3
    <3> QED BY <1>i, <2>2, <3>1 DEF OwnClaims
  <2>4. CASE v # w
    BY <1>t, <1>g, <2>1, <2>2, <2>4
  <2> QED BY <2>3, <2>4
<1>3. ASSUME NEW v \in Worker, StartJob(v) PROVE Goal
  <2>1. PICK c \in batch[v] : /\ cur' = [cur EXCEPT ![v] = c]
                              /\ batch' = [batch EXCEPT ![v] = @ \ {c}]
    BY <1>3 DEF StartJob
  <2>2. pc' = [pc EXCEPT ![v] = "set_parsing"]
    BY <1>3 DEF StartJob
  <2>3. CASE v = w
    <3>1. cur'[w].worker = w /\ batch'[w] \subseteq batch[w]
      BY <1>t, <1>i, <2>1, <2>3
    <3> QED BY <1>i, <3>1 DEF OwnClaims
  <2>4. CASE v # w
    <3>1. pc'[w] = pc[w] /\ cur'[w] = cur[w] /\ batch'[w] = batch[w]
      BY <1>t, <2>1, <2>2, <2>4
    <3> QED BY <1>g, <3>1
  <2> QED BY <2>3, <2>4
<1>4. ASSUME NEW v \in Worker, Leave(v), batch' = batch \/ batch' = [batch EXCEPT ![v] = {}]
      PROVE  Goal
  <2>1. batch'[w] \subseteq batch[w]
    BY <1>t, <1>4
  <2>2. pc'[w] = "idle" \/ (pc'[w] = pc[w] /\ cur'[w] = cur[w])
    BY <1>t, <1>4 DEF Leave
  <2> QED BY <1>g, <2>1, <2>2
<1>5. ASSUME NEW v \in Worker, NEW step, pc[v] # "idle", Goto(v, step), batch' = batch PROVE Goal
  <2>1. pc'[w] = pc[w] \/ (v = w /\ pc[w] # "idle")
    BY <1>t, <1>5 DEF Goto
  <2> QED BY <1>g, <1>5, <2>1 DEF Goto
<1>6. ASSUME UNCHANGED <<pc, cur, batch>> PROVE Goal
  BY <1>g, <1>6
<1> HIDE DEF Goal
<1>7. ASSUME NEW v \in Worker,
             \/ Works(v) \/ Heartbeat(v) \/ CompleteJob(v) \/ RecordFailure(v) \/ StepFails(v)
             \/ Crash(v) \/ Drained(v) \/ Signal(v) \/ Restart(v)
      PROVE  Goal
  <2>1. CASE Works(v)
    <3>1. pc[v] # "idle" /\ batch' = batch /\ (Leave(v) \/ \E step : Goto(v, step))
      BY <2>1 DEF Works, Report, Parse, Compute, Save, BuildPoints, CheckDocument, DeletePoints,
                  UpsertPoints, StageAt
    <3> QED BY <1>4, <1>5, <3>1
  <2>2. CASE StepFails(v)
    <3>1. pc[v] # "idle" /\ batch' = batch /\ Goto(v, "fail_retryable")
      BY <2>2 DEF StepFails, WorkSteps, After
    <3> QED BY <1>5, <3>1
  <2>3. CASE Heartbeat(v)
    BY <1>4, <1>6, <2>3 DEF Heartbeat
  <2>4. CASE CompleteJob(v) \/ RecordFailure(v) \/ Crash(v)
    BY <1>4, <2>4 DEF CompleteJob, RecordFailure, Crash
  <2>5. CASE Drained(v) \/ Signal(v) \/ Restart(v)
    BY <1>6, <2>5 DEF Drained, Signal, Restart
  <2> QED BY <1>7, <2>1, <2>2, <2>3, <2>4, <2>5
<1>8. ASSUME NEW d \in Doc, ApiStep(d) PROVE UNCHANGED loopVars
  BY <1>8 DEF ApiStep, UploadDocument, UploadDone, UploadRolledBack, RequeueDocument,
     DeleteRequest, QdrantDelete
<1>9. ASSUME NEW j \in Job, LapseAbandoned(j) \/ LapsePaused(j) \/ Backoff(j)
      PROVE  UNCHANGED loopVars
  BY <1>9 DEF LapseAbandoned, LapsePaused, Backoff
<1>10. ASSUME RecoverStale \/ UNCHANGED workerVars PROVE UNCHANGED loopVars
  BY <1>10 DEF RecoverStale, workerVars, loopVars
<1>11. ASSUME NEW v \in Worker, Progress(v) PROVE Goal
  BY <1>2, <1>3, <1>7, <1>11 DEF Progress, Works
<1>12. Goal
  BY <1>1, <1>7, <1>8, <1>9, <1>10, <1>11 DEF WNext
<1> QED
  BY <1>12 DEF Goal

\* A live lease in a worker's hand is lost only by settling the job or with the
\* document: the lease is renewed, and no other worker holds it.
LEMMA LeaseKept ==
    ASSUME FullInv, TableInv, \A v \in Worker : OwnClaims(v), "pause" \notin Disturbances,
           [WNext]_workerVars, NEW w \in Worker, pc[w] # "idle", cur'[w] = cur[w],
           OwnsLive(cur[w])
    PROVE  OwnsLive(cur[w])' \/ Gone(DocOf(w))'
<1> DEFINE c == cur[w]
           Same == job'[c.job] = job[c.job]
           Goal == OwnsLive(cur[w])' \/ Gone(DocOf(w))'
<1>t. job \in [Job -> JobRow] /\ doc \in [Doc -> DocRow]
  BY DEF FullInv, TypeOK
<1>c. /\ c \in claims /\ c # NoClaim /\ c.worker = w /\ c \in Claim
      /\ \A v \in Worker : pc[v] # "idle" => cur[v] \in claims /\ cur[v].worker = v
  BY DEF FullInv, WInv, HeldClaims, Control, OwnClaims, TypeOK
<1>j. c.job \in Job /\ c.job[1] \in Doc
  BY <1>c, JobParts DEF Claim
<1>r. /\ job[c.job].status = "PROCESSING" /\ job[c.job].by = w
      /\ job[c.job].token = c.token /\ job[c.job].live
  BY <1>c DEF OwnsLive, Owns
<1>s. ASSUME Same PROVE Goal
  BY <1>s DEF OwnsLive, Owns
<1>1. ASSUME UNCHANGED job PROVE Goal
  BY <1>s, <1>1
<1>2. ASSUME NEW v \in Worker, Poll(v) PROVE Goal
  <2>1. PICK S \in SUBSET Job : ClaimJobs(v, S)
    BY <1>2 DEF Poll
  <2>2. c.job \notin S
    BY <1>r, <2>1 DEF ClaimJobs, Claimable
  <2>3. Same
    BY <1>j, <2>1, <2>2 DEF ClaimJobs
  <2> QED BY <1>s, <2>3
<1>3. ASSUME NEW e, ExtendLease(e) PROVE Goal
  <2>1. job' = [job EXCEPT ![e.job].live = TRUE]
    BY <1>3 DEF ExtendLease
  <2>2. /\ job'[c.job].status = job[c.job].status /\ job'[c.job].by = job[c.job].by
        /\ job'[c.job].token = job[c.job].token /\ job'[c.job].live
    BY <1>t, <1>j, <1>r, <2>1 DEF JobRow
  <2> QED BY <2>2 DEF OwnsLive, Owns
<1>4. ASSUME NEW e, e.job # c.job,
             Complete(e) \/ (\E r \in BOOLEAN : FinishFailure(e, r))
      PROVE  Goal
  <2>1. Same
    BY <1>t, <1>j, <1>4 DEF Complete, FinishFailure, FailRetryable, FailDead
  <2> QED BY <1>s, <2>1
<1>5. ASSUME NEW v \in Worker, Leave(v), pc[v] # "idle", OwnsLive(cur[v])
      PROVE  cur[v].job # c.job
  <2>1. SUFFICES ASSUME cur[v].job = c.job PROVE FALSE
    OBVIOUS
  <2>2. v = w
    BY <1>c, <1>r, <1>5, <2>1 DEF OwnsLive, Owns
  <2>3. cur'[w] = NoClaim
    BY <1>5, <2>2 DEF Leave, FullInv, WInv, HeldClaims
  <2> QED BY <1>c, <2>3
<1>6. ASSUME NEW x \in Doc, DocumentStep(x) PROVE Goal
  <2>1. ASSUME NEW max \in RowMax, EnqueueJob(x, max) PROVE Same
    <3>1. PICK n \in 1..MaxRounds : /\ job[<<x, n>>].status = "absent"
                                    /\ \E row : job' = [job EXCEPT ![<<x, n>>] = row]
      BY <2>1 DEF EnqueueJob
    <3>2. c.job # <<x, n>>
      BY <1>r, <3>1
    <3> QED BY <1>t, <1>j, <3>1, <3>2
  <2>2. ASSUME DeleteDocument(x) PROVE Goal
    <3>1. CASE c.job[1] = x
      <4>1. doc' = [doc EXCEPT ![x].status = "deleted"]
        BY <2>2 DEF DeleteDocument
      <4>2. doc'[c.job[1]].status = "deleted"
        BY <1>t, <3>1, <4>1 DEF DocRow
      <4> QED BY <4>2 DEF Gone, DocOf
    <3>2. CASE c.job[1] # x
      <4>1. Same
        BY <1>j, <2>2, <3>2 DEF DeleteDocument
      <4> QED BY <1>s, <4>1
    <3> QED BY <3>1, <3>2
  <2>3. ASSUME Upload(x) \/ (\E eligible \in {FailedOnly, FailedOrCompleted} : Requeue(x, eligible))
        PROVE  \E max \in RowMax : EnqueueJob(x, max)
    BY <2>3 DEF Upload, Requeue
  <2> QED BY <1>6, <1>s, <2>1, <2>2, <2>3 DEF DocumentStep
<1>7. ASSUME NEW j \in Job, j # c.job, LeaseLapses(j) \/ BackoffElapses(j) PROVE Goal
  <2>1. Same
    BY <1>t, <1>j, <1>7 DEF LeaseLapses, BackoffElapses
  <2> QED BY <1>s, <2>1
<1>8. ASSUME NEW j \in Job, LapseAbandoned(j) \/ LapsePaused(j) \/ Backoff(j)
      PROVE  j # c.job /\ (LeaseLapses(j) \/ BackoffElapses(j))
  <2>1. ~LapsePaused(j)
    BY DEF LapsePaused, Disturb
  <2>2. CASE Backoff(j)
    BY <1>r, <2>2 DEF Backoff, BackoffElapses
  <2>3. CASE LapseAbandoned(j)
    <3>1. c = [job |-> c.job, worker |-> job[c.job].by, token |-> job[c.job].token]
      BY <1>c, <1>r DEF Claim
    <3> QED BY <2>3, <3>1 DEF LapseAbandoned, Renewed
  <2> QED BY <1>8, <2>1, <2>2, <2>3
<1>9. ASSUME NEW v \in Worker, CompleteJob(v) \/ RecordFailure(v) PROVE Goal
  <2>1. pc[v] # "idle" /\ Leave(v)
    BY <1>9 DEF CompleteJob, RecordFailure, FailSteps
  <2>2. \/ UNCHANGED job
        \/ /\ OwnsLive(cur[v])
           /\ Complete(cur[v]) \/ (\E r \in BOOLEAN : FinishFailure(cur[v], r))
    BY <1>9 DEF CompleteJob, RecordFailure, queueVars, Complete, FinishFailure, FailRetryable,
                FailDead
  <2>3. CASE UNCHANGED job
    BY <1>1, <2>3
  <2>4. CASE /\ OwnsLive(cur[v])
             /\ Complete(cur[v]) \/ (\E r \in BOOLEAN : FinishFailure(cur[v], r))
    <3>1. cur[v].job # c.job
      BY <1>5, <2>1, <2>4
    <3> QED BY <1>4, <2>4, <3>1
  <2> QED BY <2>2, <2>3, <2>4
<1>10. ASSUME NEW v \in Worker, Heartbeat(v) \/ Report(v) PROVE Goal
  BY <1>1, <1>3, <1>10 DEF Heartbeat, Report, SetStage, queueVars
<1>11. ASSUME NEW v \in Worker,
             \/ StartJob(v) \/ Drained(v) \/ Parse(v) \/ Compute(v) \/ Save(v)
             \/ BuildPoints(v) \/ CheckDocument(v) \/ DeletePoints(v) \/ UpsertPoints(v)
             \/ StepFails(v) \/ Signal(v) \/ Restart(v) \/ Crash(v)
      PROVE  UNCHANGED job
  BY <1>11 DEF StartJob, Drained, Parse, Compute, Save, BuildPoints, CheckDocument,
              DeletePoints, UpsertPoints, StepFails, Signal, Restart, Crash, queueVars
<1>12. ASSUME NEW x \in Doc, ApiStep(x) PROVE DocumentStep(x) \/ UNCHANGED job
  BY <1>12 DEF ApiStep, UploadDocument, UploadDone, UploadRolledBack, RequeueDocument,
       DeleteRequest, QdrantDelete, DocumentStep, queueVars
<1>13. ASSUME RecoverStale \/ UNCHANGED workerVars PROVE UNCHANGED job
  BY <1>13 DEF RecoverStale, RecoverLegacy, workerVars, queueVars
<1> HIDE DEF Goal, Same, c
<1>14. ASSUME NEW v \in Worker, Progress(v) PROVE Goal
  BY <1>1, <1>2, <1>9, <1>10, <1>11, <1>14 DEF Progress
<1>15. Goal
  BY <1>1, <1>6, <1>7, <1>8, <1>10, <1>11, <1>12, <1>13, <1>14 DEF WNext
<1> QED
  BY <1>15 DEF Goal

\* Two workers with live leases on one document are one worker.
LEMMA OneLiveWorker ==
    ASSUME FullInv, TableInv, NEW v \in Worker, NEW w \in Worker, OwnClaims(v), OwnClaims(w),
           pc[v] # "idle", pc[w] # "idle", OwnsLive(cur[v]), OwnsLive(cur[w]),
           DocOf(v) = DocOf(w)
    PROVE  v = w
<1>1. ASSUME NEW u \in Worker, pc[u] # "idle", OwnsLive(cur[u]), OwnClaims(u)
      PROVE  /\ cur[u].job \in Job /\ cur[u].job = <<DocOf(u), cur[u].job[2]>>
             /\ DocOf(u) \in Doc /\ cur[u].job[2] \in 1..MaxRounds
             /\ Active(cur[u].job) /\ job[cur[u].job].by = u
  <2>1. cur[u] \in Claim
    BY <1>1 DEF FullInv, WInv, HeldClaims, Control, TypeOK
  <2>2. cur[u].job \in Job
    BY <2>1 DEF Claim
  <2> QED BY <1>1, <2>2, JobParts DEF OwnsLive, Owns, Active, OwnClaims, DocOf
<1>2. cur[v].job[2] = cur[w].job[2]
  BY <1>1, OneActiveRow DEF OneActiveJob
<1>3. cur[v].job = cur[w].job
  BY <1>1, <1>2
<1> QED
  BY <1>1, <1>3

\* The pipeline gets past set_parsing only with a live lease, holds points from
\* BuildPoints on where the document has chunks, and reaches the last steps only
\* through the two upserts.
LEMMA IndexOrder ==
    ASSUME FullInv, NEW w \in Worker, DocOf(w) \in Doc, Works(w)
    PROVE  /\ \/ pc'[w] \in {"idle", "set_parsing"} \cup FailSteps
              \/ pc[w] \in WorkSteps \ {"set_parsing"}
              \/ OwnsLive(cur[w])
           /\ pc'[w] \in Saved \ {"build_points"} =>
                \/ pc[w] = "clear_output"
                \/ pc[w] = "build_points" /\ (DocOf(w) \in chunks => found'[w])
                \/ pc[w] \in Saved \ {"build_points"} /\ found'[w] = found[w]
           /\ pc'[w] = "upsert_rest" =>
                /\ pc[w] = "upsert_first"
                /\ found[w] => "upsert_first" \in points'[DocOf(w)]
           /\ pc'[w] = "complete" =>
                /\ pc[w] = "upsert_rest"
                /\ found[w] => points'[DocOf(w)] = points[DocOf(w)] \cup {"upsert_rest"}
<1>t. /\ pc \in [Worker -> {"idle"} \cup WorkSteps \cup FailSteps]
      /\ found \in [Worker -> BOOLEAN] /\ points \in [Doc -> SUBSET Batches]
  BY DEF FullInv, WInv, Control, Stores
<1>to. ASSUME NEW step, Goto(w, step) PROVE pc'[w] = step
  BY <1>t, <1>to DEF Goto
<1>le. ASSUME Leave(w) PROVE pc'[w] = "idle"
  BY <1>t, <1>le DEF Leave
<1>1. CASE Report(w)
  <2>1. /\ pc[w] \in DOMAIN StageAt /\ found' = found
        /\ pc'[w] = "idle" \/ (pc'[w] = After[pc[w]] /\ OwnsLive(cur[w]))
    BY <1>1, <1>to, <1>le DEF Report, SetStage
  <2> QED BY <2>1 DEF StageAt, After, Saved, WorkSteps
<1>2. CASE Parse(w)
  <2>1. /\ pc[w] = "parse"
        /\ pc'[w] \in {"clear_output", "set_embedding", "fail_permanent", "fail_retryable"}
    BY <1>2, <1>to DEF Parse
  <2> QED BY <2>1 DEF Saved, WorkSteps
<1>3. CASE Compute(w) \/ DeletePoints(w)
  <2>1. /\ pc[w] \in {"embed", "extract", "clear_output", "delete_points"} /\ found' = found
        /\ pc'[w] = After[pc[w]]
    BY <1>3, <1>to DEF Compute, DeletePoints
  <2> QED BY <2>1 DEF After, Saved, WorkSteps
<1>4. CASE UpsertPoints(w)
  <2>1. /\ pc[w] \in {"upsert_first", "upsert_rest"} /\ found' = found
        /\ pc'[w] = After[pc[w]]
    BY <1>4, <1>to DEF UpsertPoints
  <2>2. found[w] => points'[DocOf(w)] = points[DocOf(w)] \cup {pc[w]}
    BY <1>t, <1>4 DEF UpsertPoints
  <2> QED BY <2>1, <2>2 DEF After, Saved, WorkSteps
<1>5. CASE BuildPoints(w)
  <2>1. /\ pc[w] = "build_points" /\ pc'[w] = After.build_points
        /\ DocOf(w) \in chunks => found'[w]
    BY <1>t, <1>5, <1>to DEF BuildPoints
  <2> QED BY <2>1 DEF After, Saved, WorkSteps
<1>6. CASE CheckDocument(w)
  <2>1. /\ pc[w] \in {"check_document", "recheck_document"} /\ found' = found
        /\ pc'[w] = "idle" \/ pc'[w] = After[pc[w]]
    BY <1>6, <1>to, <1>le DEF CheckDocument
  <2> QED BY <2>1 DEF After, Saved, WorkSteps
<1>7. CASE Save(w)
  <2>1. pc[w] = "save" /\ pc'[w] \in {After.save, "fail_retryable"}
    BY <1>7, <1>to DEF Save
  <2> QED BY <2>1 DEF After, Saved, WorkSteps
<1> QED
  BY <1>1, <1>2, <1>3, <1>4, <1>5, <1>6, <1>7 DEF Works

\* Points leave Qdrant by the delete of a pipeline, or for a queued outbox row.
LEMMA PointsStay ==
    ASSUME FullInv, [WNext]_workerVars, NEW d \in Doc, outbox[d] = "none",
           \A v \in Worker : pc[v] = "delete_points" => DocOf(v) # d
    PROVE  points[d] \subseteq points'[d]
<1>t. points \in [Doc -> SUBSET Batches]
  BY DEF FullInv, WInv, Stores
<1>1. ASSUME NEW w \in Worker, DeletePoints(w) \/ UpsertPoints(w)
      PROVE  points[d] \subseteq points'[d]
  <2>1. CASE DeletePoints(w)
    BY <1>t, <2>1 DEF DeletePoints
  <2>2. CASE UpsertPoints(w)
    BY <1>t, <2>2 DEF UpsertPoints
  <2> QED BY <1>1, <2>1, <2>2
<1>2. ASSUME NEW x \in Doc, ApiStep(x) PROVE points[d] \subseteq points'[d]
  <2>1. CASE QdrantDelete(x)
    BY <1>t, <2>1 DEF QdrantDelete
  <2> QED BY <1>2, <2>1 DEF ApiStep, UploadDocument, UploadDone, UploadRolledBack,
                            RequeueDocument, DeleteRequest, storeVars
<1>3. ASSUME NEW w \in Worker, Progress(w) \/ Heartbeat(w) \/ StepFails(w) \/ Signal(w)
                               \/ Restart(w) \/ Crash(w)
      PROVE  points[d] \subseteq points'[d]
  BY <1>1, <1>3 DEF Progress, Poll, StartJob, Drained, Report, Parse, Compute, Save, BuildPoints,
     CheckDocument, CompleteJob, RecordFailure, Heartbeat, StepFails, Signal, Restart, Crash,
     storeVars
<1>4. ASSUME NEW j \in Job, LapseAbandoned(j) \/ LapsePaused(j) \/ Backoff(j)
      PROVE  points' = points
  BY <1>4 DEF LapseAbandoned, LapsePaused, Backoff, storeVars
<1>5. ASSUME RecoverStale \/ UNCHANGED workerVars PROVE points' = points
  BY <1>5 DEF RecoverStale, workerVars, storeVars
<1> QED
  BY <1>2, <1>3, <1>4, <1>5 DEF WNext

\* An outbox row is queued in the transaction that deletes the document.
OutboxOfDeleted == \A d \in Doc : outbox[d] # "none" => Gone(d)

\* No other step queues one.
LEMMA OutboxStays ==
    ASSUME FullInv, TableInv, [WNext]_workerVars, OutboxOfDeleted
    PROVE  OutboxOfDeleted'
<1> SUFFICES ASSUME NEW d \in Doc, outbox'[d] # "none" PROVE Gone(d)'
  BY DEF OutboxOfDeleted
<1>t. outbox \in [Doc -> {"none", "pending", "processed"}] /\ doc \in [Doc -> DocRow]
  BY DEF FullInv, WInv, Stores, TypeOK
<1>k. ASSUME outbox[d] # "none" PROVE Gone(d)'
  BY <1>k, NextFullInv, DeletedStays DEF OutboxOfDeleted
<1>1. ASSUME NEW x \in Doc, DeleteRequest(x) PROVE Gone(d)'
  <2>1. /\ doc' = [doc EXCEPT ![x].status = "deleted"]
        /\ outbox' = [outbox EXCEPT ![x] = "pending"]
    BY <1>1 DEF DeleteRequest, DeleteDocument
  <2>2. CASE x = d
    BY <1>t, <2>1, <2>2 DEF Gone, DocRow
  <2>3. CASE x # d
    BY <1>t, <1>k, <2>1, <2>3
  <2> QED BY <2>2, <2>3
<1>2. ASSUME NEW x \in Doc, QdrantDelete(x) PROVE outbox[d] # "none"
  BY <1>t, <1>2 DEF QdrantDelete
<1>3. ASSUME NEW x \in Doc, ApiStep(x) PROVE Gone(d)'
  BY <1>1, <1>2, <1>3, <1>k DEF ApiStep, UploadDocument, UploadDone, UploadRolledBack,
     RequeueDocument, storeVars
<1>4. ASSUME NEW w \in Worker, Progress(w) \/ Heartbeat(w) \/ StepFails(w) \/ Signal(w)
                               \/ Restart(w) \/ Crash(w)
      PROVE  outbox' = outbox
  BY <1>4 DEF Progress, Poll, StartJob, Drained, Report, Parse, Compute, Save, BuildPoints,
     CheckDocument, DeletePoints, UpsertPoints, CompleteJob, RecordFailure, Heartbeat,
     StepFails, Signal, Restart, Crash, storeVars
<1>5. ASSUME NEW j \in Job, LapseAbandoned(j) \/ LapsePaused(j) \/ Backoff(j)
      PROVE  outbox' = outbox
  BY <1>5 DEF LapseAbandoned, LapsePaused, Backoff, storeVars
<1>6. ASSUME RecoverStale \/ UNCHANGED workerVars PROVE outbox' = outbox
  BY <1>6 DEF RecoverStale, workerVars, storeVars
<1> QED
  BY <1>3, <1>4, <1>5, <1>6, <1>k DEF WNext

\* A document that needs no points: without text, or deleted.
NoIndex(d) == d \in blank \/ Gone(d)

\* Once so, always so.
LEMMA NoIndexStays ==
    ASSUME FullInv, TableInv, [WNext]_workerVars, NEW d \in Doc, NoIndex(d)
    PROVE  NoIndex(d)'
BY NextFullInv, DeletedStays, BlankFixed DEF NoIndex

\* Worker w past its first report holds the live lease of a document that still
\* exists; from BuildPoints on it holds points; and what it has upserted is there.
IndexFor(w) ==
    /\ pc[w] \in WorkSteps \ {"set_parsing"} => OwnsLive(cur[w]) \/ Gone(DocOf(w))
    /\ pc[w] \in Saved \ {"build_points"} => found[w] \/ NoIndex(DocOf(w))
    /\ pc[w] = "upsert_rest" => "upsert_first" \in points[DocOf(w)] \/ NoIndex(DocOf(w))
    /\ pc[w] = "complete" => points[DocOf(w)] = Batches \/ NoIndex(DocOf(w))

Indexed(d) == doc[d].status = "COMPLETED" => points[d] = Batches \/ NoIndex(d)

\* The strengthening: the lease is what keeps a second pipeline, and its delete
\* before the upsert, away from the document.
SearchInv ==
    /\ ChunksInv
    /\ OutboxOfDeleted
    /\ \A w \in Worker : OwnClaims(w) /\ IndexFor(w)
    /\ \A d \in Doc : Indexed(d)

\* At the start no pipeline is under way and no document is COMPLETED.
LEMMA InitSearchInv == WInit => SearchInv
<1> SUFFICES ASSUME WInit PROVE SearchInv
  OBVIOUS
<1>1. OutboxOfDeleted
  BY DEF WInit, OutboxOfDeleted
<1>2. \A w \in Worker : OwnClaims(w) /\ IndexFor(w)
  BY DEF WInit, OwnClaims, IndexFor, Saved, WorkSteps, After
<1>3. \A d \in Doc : Indexed(d)
  BY DEF WInit, Init, Indexed
<1> QED
  BY <1>1, <1>2, <1>3, InitChunksInv DEF SearchInv

\* Points of a document in the hand of a live lease leave only by that worker's
\* own delete.
LEMMA LeasedPointsStay ==
    ASSUME SearchInv, [WNext]_workerVars, NEW w \in Worker, pc[w] # "idle",
           pc[w] # "delete_points", OwnsLive(cur[w]), ~Gone(DocOf(w))
    PROVE  points[DocOf(w)] \subseteq points'[DocOf(w)]
<1>1. FullInv /\ TableInv /\ DocOf(w) \in Doc
  BY TypesOfHeldClaim DEF SearchInv, ChunksInv, FullInv, WInv
<1>2. ASSUME NEW v \in Worker, pc[v] = "delete_points", DocOf(v) = DocOf(w) PROVE FALSE
  <2>1. OwnsLive(cur[v]) \/ Gone(DocOf(v))
    BY <1>2 DEF SearchInv, IndexFor, WorkSteps, After
  <2> QED BY <1>1, <1>2, <2>1, OneLiveWorker DEF SearchInv
<1>3. outbox[DocOf(w)] = "none"
  BY <1>1 DEF SearchInv, OutboxOfDeleted
<1> QED
  BY <1>1, <1>2, <1>3, PointsStay

\* A COMPLETED document has no live lease, so no pipeline deletes its points.
LEMMA CompletedPointsStay ==
    ASSUME SearchInv, [WNext]_workerVars, NEW d \in Doc, doc[d].status = "COMPLETED"
    PROVE  points[d] \subseteq points'[d]
<1>1. FullInv /\ TableInv
  BY DEF SearchInv, ChunksInv
<1>2. ASSUME NEW v \in Worker, pc[v] = "delete_points", DocOf(v) = d PROVE FALSE
  <2>1. OwnsLive(cur[v]) \/ Gone(d)
    BY <1>2 DEF SearchInv, IndexFor, WorkSteps, After
  <2>2. cur[v] \in claims
    BY <1>1, <1>2 DEF FullInv, WInv, HeldClaims, Control
  <2>3. OwnsLive(cur[v]) => doc[d].status = "PROCESSING"
    BY <1>1, <1>2, <2>2, LiveDocument DEF DocOf
  <2> QED BY <2>1, <2>3 DEF Gone
<1>3. outbox[d] = "none"
  BY DEF SearchInv, OutboxOfDeleted, Gone
<1> QED
  BY <1>1, <1>2, <1>3, PointsStay

\* Every step keeps the invariant, when no worker is paused past its lease.
LEMMA NextSearchInv ==
    ASSUME "pause" \notin Disturbances
    PROVE  SearchInv /\ [WNext]_workerVars => SearchInv'
<1> SUFFICES ASSUME SearchInv, [WNext]_workerVars PROVE SearchInv'
  OBVIOUS
<1>1. /\ ChunksInv /\ ChunksInv' /\ FullInv /\ FullInv' /\ TableInv
      /\ OutboxOfDeleted' /\ \A w \in Worker : OwnClaims(w) /\ OwnClaims(w)'
  BY NextChunksInv, OutboxStays, OwnClaimsStay DEF SearchInv, ChunksInv
<1>p. points' \in [Doc -> SUBSET Batches]
  BY <1>1 DEF FullInv, WInv, Stores
<1>2. ASSUME NEW w \in Worker PROVE IndexFor(w)'
  <2>i. IndexFor(w)
    BY DEF SearchInv
  <2>1. ASSUME pc'[w] \in {"idle", "set_parsing"} \cup FailSteps PROVE IndexFor(w)'
    BY <2>1 DEF IndexFor, Saved, WorkSteps, After, FailSteps
  <2>2. ASSUME pc[w] # "idle", cur'[w] = cur[w], pc'[w] \notin {"idle", "set_parsing"} \cup FailSteps,
               \/ pc'[w] = pc[w] /\ found'[w] = found[w]
               \/ Works(w)
        PROVE  IndexFor(w)'
    <3>0. DocOf(w) \in Doc /\ DocOf(w)' = DocOf(w)
      BY <1>1, <2>2, TypesOfHeldClaim DEF FullInv, WInv, DocOf
    <3>1. PICK d \in Doc : DocOf(w) = d /\ DocOf(w)' = d
      BY <3>0
    <3>2. pc'[w] \in WorkSteps \ {"set_parsing"}
      BY <1>1, <2>2 DEF FullInv, WInv, Control
    <3>3. OwnsLive(cur[w]) \/ Gone(d)
      <4>1. pc[w] \in WorkSteps \ {"set_parsing"} \/ OwnsLive(cur[w])
        BY <1>1, <2>2, <3>1, <3>2, IndexOrder
      <4> QED BY <2>i, <3>1, <4>1 DEF IndexFor
    <3>4. OwnsLive(cur[w])' \/ Gone(d)'
      <4>1. Gone(d) => Gone(d)'
        BY <1>1, <3>1, NextFullInv, DeletedStays
      <4>2. OwnsLive(cur[w]) => OwnsLive(cur[w])' \/ Gone(d)'
        BY <1>1, <2>2, <3>1, LeaseKept
      <4> QED BY <3>3, <4>1, <4>2
    <3>n. NoIndex(d) => NoIndex(d)'
      BY <1>1, <3>1, NoIndexStays
    <3>5. pc'[w] \in Saved \ {"build_points"} => found'[w] \/ NoIndex(d)'
      <4>1. SUFFICES ASSUME pc'[w] \in Saved \ {"build_points"} PROVE found'[w] \/ NoIndex(d)'
        OBVIOUS
      <4>2. \/ pc[w] = "clear_output"
            \/ pc[w] = "build_points" /\ (d \in chunks => found'[w])
            \/ pc[w] \in Saved \ {"build_points"} /\ found'[w] = found[w]
        BY <1>1, <2>2, <3>1, <4>1, IndexOrder
      <4>3. pc[w] = "clear_output" => NoIndex(d)
        BY <3>1 DEF SearchInv, ChunksInv, SavedFor, NoIndex
      <4>4. pc[w] = "build_points" => d \in chunks \/ NoIndex(d)
        BY <3>1 DEF SearchInv, ChunksInv, SavedFor, Saved, Covered, NoIndex
      <4>5. pc[w] \in Saved \ {"build_points"} => found[w] \/ NoIndex(d)
        BY <2>i, <3>1 DEF IndexFor
      <4> QED BY <3>n, <4>2, <4>3, <4>4, <4>5
    <3>k. pc[w] \in {"upsert_rest", "complete", "upsert_first"} => points[d] \subseteq points'[d] \/ NoIndex(d)
      BY <2>2, <3>1, <3>3, LeasedPointsStay DEF NoIndex
    <3>6. pc'[w] = "upsert_rest" => "upsert_first" \in points'[d] \/ NoIndex(d)'
      <4>1. SUFFICES ASSUME pc'[w] = "upsert_rest" PROVE "upsert_first" \in points'[d] \/ NoIndex(d)'
        OBVIOUS
      <4>2. CASE pc[w] = "upsert_rest"
        BY <2>i, <3>1, <3>n, <3>k, <4>2 DEF IndexFor
      <4>3. CASE pc[w] # "upsert_rest"
        <5>1. pc[w] = "upsert_first" /\ (found[w] => "upsert_first" \in points'[d])
          BY <1>1, <2>2, <3>1, <4>1, <4>3, IndexOrder
        <5>2. found[w] \/ NoIndex(d)
          BY <2>i, <3>1, <5>1 DEF IndexFor, Saved
        <5> QED BY <3>n, <5>1, <5>2
      <4> QED BY <4>2, <4>3
    <3>7. pc'[w] = "complete" => points'[d] = Batches \/ NoIndex(d)'
      <4>1. SUFFICES ASSUME pc'[w] = "complete" PROVE points'[d] = Batches \/ NoIndex(d)'
        OBVIOUS
      <4>2. CASE pc[w] = "complete"
        BY <1>p, <2>i, <3>1, <3>n, <3>k, <4>2 DEF IndexFor
      <4>3. CASE pc[w] # "complete"
        <5>1. pc[w] = "upsert_rest" /\ (found[w] => points'[d] = points[d] \cup {"upsert_rest"})
          BY <1>1, <2>2, <3>1, <4>1, <4>3, IndexOrder
        <5>2. found[w] \/ NoIndex(d)
          BY <2>i, <3>1, <5>1 DEF IndexFor, Saved
        <5>3. "upsert_first" \in points[d] \/ NoIndex(d)
          BY <2>i, <3>1, <5>1 DEF IndexFor
        <5>4. points'[d] \subseteq Batches
          BY <1>p, <3>1
        <5> QED BY <3>n, <5>1, <5>2, <5>3, <5>4 DEF Batches
      <4> QED BY <4>2, <4>3
    <3> QED BY <3>1, <3>4, <3>5, <3>6, <3>7 DEF IndexFor
  <2>3. ASSUME pc'[w] = pc[w], pc[w] = "idle" PROVE IndexFor(w)'
    BY <2>1, <2>3
  <2> QED BY <1>1, <2>1, <2>2, <2>3, WorkerMoves
<1>3. ASSUME NEW d \in Doc PROVE Indexed(d)'
  <2>1. SUFFICES ASSUME doc'[d].status = "COMPLETED" PROVE points'[d] = Batches \/ NoIndex(d)'
    BY DEF Indexed
  <2>n. NoIndex(d) => NoIndex(d)'
    BY <1>1, NoIndexStays
  <2>p. points'[d] \subseteq Batches
    BY <1>p
  <2>2. CASE doc[d].status = "COMPLETED"
    <3>1. points[d] = Batches \/ NoIndex(d)
      BY <2>2 DEF SearchInv, Indexed
    <3> QED BY <2>2, <2>n, <2>p, <3>1, CompletedPointsStay
  <2>3. CASE doc[d].status # "COMPLETED"
    <3>1. PICK w \in Worker : pc[w] = "complete" /\ OwnsLive(cur[w]) /\ DocOf(w) = d
      BY <1>1, <2>1, <2>3, CompletedBy
    <3>2. points[d] = Batches \/ NoIndex(d)
      BY <3>1 DEF SearchInv, IndexFor
    <3>3. points[d] \subseteq points'[d] \/ NoIndex(d)
      BY <3>1, LeasedPointsStay DEF NoIndex
    <3> QED BY <2>n, <2>p, <3>2, <3>3
  <2> QED BY <2>2, <2>3
<1> QED
  BY <1>1, <1>2, <1>3 DEF SearchInv

\* Without a pause longer than the lease, a COMPLETED document has all its points
\* in Qdrant, whatever crashes, lost writes, retries, re-ingestions, deletions and
\* late outbox deletes interleave.  With a pause it has not: the delete before
\* the upsert is not fenced by the claim token.
THEOREM SearchableWhenCompletedHolds ==
    ASSUME "pause" \notin Disturbances
    PROVE  WSpec => []SearchableWhenCompleted
<1>1. SearchInv => SearchableWhenCompleted
  BY DEF SearchInv, Indexed, NoIndex, Gone, SearchableWhenCompleted
<1>2. SearchInv /\ [WNext]_workerVars => SearchInv'
  BY NextSearchInv
<1> QED
  BY <1>1, <1>2, InitSearchInv, PTL DEF WSpec

-----------------------------------------------------------------------------
(* What a worker leaves behind when it drains and stops.                    *)

\* Every live lease in w's name is one of the claims in w's memory.
ClaimOf(j) == [job |-> j, worker |-> job[j].by, token |-> job[j].token]
LeasedTo(j, w) == job[j].status = "PROCESSING" /\ job[j].live /\ job[j].by = w
Held(w) == \A j \in Job : LeasedTo(j, w) => ClaimOf(j) \in batch[w] \cup {cur[w]}

\* A worker stops with nothing in memory.
StopFor(w) == mode[w] = "stopped" => pc[w] = "idle" /\ batch[w] = {}

\* How a step moves a worker's mode, and that the count of disturbances only grows.
LEMMA ModeMoves ==
    ASSUME FullInv, [WNext]_workerVars, NEW w \in Worker
    PROVE  /\ \/ mode'[w] = mode[w] \/ mode'[w] = "run"
              \/ mode'[w] = "draining" /\ disturbed' = disturbed + 1
              \/ /\ mode'[w] = "stopped" /\ mode[w] = "draining"
                 /\ pc[w] = "idle" /\ batch[w] = {} /\ pc' = pc /\ batch' = batch
           /\ disturbed' = disturbed \/ (disturbed < MaxDisturbances /\ disturbed' = disturbed + 1)
<1> DEFINE Moved ==
             \/ mode'[w] = mode[w] \/ mode'[w] = "run"
             \/ mode'[w] = "draining" /\ disturbed' = disturbed + 1
             \/ /\ mode'[w] = "stopped" /\ mode[w] = "draining"
                /\ pc[w] = "idle" /\ batch[w] = {} /\ pc' = pc /\ batch' = batch
           Counted == disturbed' = disturbed \/ (disturbed < MaxDisturbances /\ disturbed' = disturbed + 1)
<1>t. mode \in [Worker -> {"run", "draining", "stopped"}]
  BY DEF FullInv, WInv, Control
<1>1. ASSUME NEW v \in Worker, Signal(v) \/ Crash(v) \/ Drained(v) \/ Restart(v)
      PROVE  Moved /\ Counted
  BY <1>t, <1>1 DEF Signal, Crash, Drained, Restart, Disturb
<1>2. ASSUME NEW v \in Worker, Progress(v) \/ Heartbeat(v) \/ StepFails(v), ~Drained(v)
      PROVE  Moved /\ Counted
  <2>1. mode' = mode /\ Counted
    BY <1>2 DEF Progress, Heartbeat, StepFails, Poll, StartJob, Report, Parse, Compute, Save,
       BuildPoints, CheckDocument, DeletePoints, UpsertPoints, CompleteJob, RecordFailure, Disturb
  <2> QED BY <2>1
<1>3. ASSUME NEW d \in Doc, ApiStep(d) PROVE Moved /\ Counted
  BY <1>3 DEF ApiStep, UploadDocument, UploadDone, UploadRolledBack, RequeueDocument,
     DeleteRequest, QdrantDelete, loopVars, Disturb
<1>4. ASSUME NEW j \in Job, LapseAbandoned(j) \/ LapsePaused(j) \/ Backoff(j)
      PROVE  Moved /\ Counted
  BY <1>4 DEF LapseAbandoned, LapsePaused, Backoff, loopVars, Disturb
<1>5. ASSUME RecoverStale \/ UNCHANGED workerVars PROVE Moved /\ Counted
  BY <1>5 DEF RecoverStale, workerVars, loopVars
<1> HIDE DEF Moved, Counted
<1>6. Moved /\ Counted
  BY <1>1, <1>2, <1>3, <1>4, <1>5 DEF WNext
<1> QED
  BY <1>6 DEF Moved, Counted

\* A stopped worker neither polls nor starts a job.
LEMMA StopForStays ==
    ASSUME FullInv, [WNext]_workerVars, NEW w \in Worker, StopFor(w)
    PROVE  StopFor(w)'
<1> DEFINE Still == pc'[w] = pc[w] /\ batch'[w] = batch[w]
<1>t. /\ pc \in [Worker -> {"idle"} \cup WorkSteps \cup FailSteps]
      /\ cur \in [Worker -> claims \cup {NoClaim}]
      /\ batch \in [Worker -> SUBSET claims]
      /\ mode \in [Worker -> {"run", "draining", "stopped"}]
  BY DEF FullInv, WInv, HeldClaims, Control
<1> HIDE DEF WorkSteps, FailSteps
<1>1. SUFFICES ASSUME mode'[w] = "stopped", mode[w] = "stopped" PROVE Still
  BY ModeMoves DEF StopFor
<1>2. pc[w] = "idle" /\ batch[w] = {}
  BY <1>1 DEF StopFor
<1>3. ASSUME NEW v \in Worker, Poll(v) \/ StartJob(v) PROVE Still
  <2>1. v # w
    BY <1>1, <1>3 DEF Poll, StartJob
  <2> QED BY <1>t, <1>3, <2>1 DEF Poll, StartJob
<1>4. ASSUME NEW v \in Worker, Crash(v) PROVE Still
  <2>1. v # w
    BY <1>1, <1>4 DEF Crash
  <2> QED BY <1>t, <1>4, <2>1 DEF Crash, Leave
<1>5. ASSUME NEW v \in Worker, Drained(v) \/ Signal(v) \/ Restart(v) PROVE Still
  BY <1>5 DEF Drained, Signal, Restart
<1>6. ASSUME NEW v \in Worker,
             Works(v) \/ Heartbeat(v) \/ CompleteJob(v) \/ RecordFailure(v) \/ StepFails(v)
      PROVE  Still
  <2>1. pc[v] # "idle" /\ batch' = batch
    BY <1>6 DEF Works, Report, Parse, Compute, Save, BuildPoints, CheckDocument, DeletePoints,
       UpsertPoints, StageAt, Heartbeat, CompleteJob, RecordFailure, StepFails, WorkSteps,
       FailSteps, After
  <2>2. pc' = pc \/ \E step : pc' = [pc EXCEPT ![v] = step]
    BY <1>6 DEF Works, Report, Parse, Compute, Save, BuildPoints, CheckDocument, DeletePoints,
       UpsertPoints, Heartbeat, CompleteJob, RecordFailure, StepFails, Goto, Leave
  <2> QED BY <1>t, <1>2, <2>1, <2>2
<1>7. ASSUME UNCHANGED loopVars PROVE Still
  BY <1>7 DEF loopVars
<1>8. ASSUME NEW d \in Doc, ApiStep(d) PROVE UNCHANGED loopVars
  BY <1>8 DEF ApiStep, UploadDocument, UploadDone, UploadRolledBack, RequeueDocument,
     DeleteRequest, QdrantDelete
<1>9. ASSUME NEW j \in Job, LapseAbandoned(j) \/ LapsePaused(j) \/ Backoff(j)
      PROVE  UNCHANGED loopVars
  BY <1>9 DEF LapseAbandoned, LapsePaused, Backoff
<1>10. ASSUME RecoverStale \/ UNCHANGED workerVars PROVE UNCHANGED loopVars
  BY <1>10 DEF RecoverStale, workerVars, loopVars
<1> HIDE DEF Still
<1>11. ASSUME NEW v \in Worker, Progress(v) PROVE Still
  BY <1>3, <1>5, <1>6, <1>11 DEF Progress, Works
<1> QED
  BY <1>4, <1>5, <1>6, <1>7, <1>8, <1>9, <1>10, <1>11 DEF WNext

\* A live lease in w's name was there before with the same token, or is the one w
\* renews, or is one of those its poll just returned.
LEMMA LeaseOrigin ==
    ASSUME FullInv, \A v \in Worker : OwnClaims(v), [WNext]_workerVars,
           NEW w \in Worker, NEW j \in Job, LeasedTo(j, w)'
    PROVE  \/ LeasedTo(j, w) /\ ClaimOf(j)' = ClaimOf(j)
           \/ ClaimOf(j)' = cur[w] /\ cur'[w] = cur[w]
           \/ ClaimOf(j)' \in batch'[w]
<1> DEFINE Goal == \/ LeasedTo(j, w) /\ ClaimOf(j)' = ClaimOf(j)
                   \/ ClaimOf(j)' = cur[w] /\ cur'[w] = cur[w]
                   \/ ClaimOf(j)' \in batch'[w]
<1>t. /\ job \in [Job -> JobRow] /\ batch \in [Worker -> SUBSET claims]
      /\ \A v \in Worker : pc[v] # "idle" => cur[v] \in claims /\ cur[v].worker = v
      /\ claims \subseteq Claim
  BY DEF FullInv, TypeOK, WInv, HeldClaims, Control, OwnClaims
<1>l. job'[j].status = "PROCESSING" /\ job'[j].live /\ job'[j].by = w
  BY DEF LeasedTo
<1>1. ASSUME job'[j] = job[j] PROVE Goal
  BY <1>1 DEF LeasedTo, ClaimOf
<1>2. ASSUME NEW v \in Worker, Poll(v) PROVE Goal
  <2>1. PICK S \in SUBSET Job :
           /\ ClaimJobs(v, S)
           /\ batch' = [batch EXCEPT ![v] =
                          {[job |-> i, worker |-> v, token |-> nextToken] : i \in S}]
    BY <1>2 DEF Poll
  <2>2. CASE j \notin S
    BY <1>1, <2>1, <2>2 DEF ClaimJobs
  <2>3. CASE j \in S
    <3>1. job'[j].by = v /\ job'[j].token = nextToken
      BY <1>t, <2>1, <2>3 DEF ClaimJobs, JobRow
    <3>2. v = w /\ ClaimOf(j)' = [job |-> j, worker |-> w, token |-> nextToken]
      BY <1>l, <3>1 DEF ClaimOf
    <3>3. batch'[w] = {[job |-> i, worker |-> w, token |-> nextToken] : i \in S}
      BY <1>t, <2>1, <3>2
    <3> QED BY <2>3, <3>2, <3>3
  <2> QED BY <2>2, <2>3
<1>3. ASSUME NEW v \in Worker, ExtendLease(cur[v]), pc[v] # "idle", UNCHANGED <<pc, cur>>
      PROVE  Goal
  <2> DEFINE e == cur[v]
  <2>1. /\ job' = [job EXCEPT ![e.job].live = TRUE]
        /\ job[e.job].by = e.worker /\ job[e.job].token = e.token
    BY <1>3 DEF ExtendLease, Owns
  <2>2. e \in Claim /\ e.worker = v
    BY <1>t, <1>3
  <2>3. CASE e.job # j
    BY <1>t, <1>1, <2>1, <2>3
  <2>4. CASE e.job = j
    <3>1. job'[j].by = job[j].by /\ job'[j].token = job[j].token
      BY <1>t, <2>1, <2>4 DEF JobRow
    <3>2. v = w /\ e = [job |-> j, worker |-> w, token |-> job[j].token]
      BY <1>l, <2>1, <2>2, <2>4, <3>1 DEF Claim
    <3>3. ClaimOf(j)' = e
      BY <1>l, <3>1, <3>2 DEF ClaimOf
    <3> QED BY <1>3, <3>2, <3>3
  <2> QED BY <2>3, <2>4
<1>4. ASSUME NEW e, Complete(e) \/ (\E r \in BOOLEAN : FinishFailure(e, r)) PROVE Goal
  <2>1. ASSUME e.job = j PROVE FALSE
    <3>1. CASE Complete(e)
      <4>1. job' = [job EXCEPT ![j].status = "SUCCEEDED", ![j].live = FALSE]
        BY <2>1, <3>1 DEF Complete
      <4> QED BY <1>t, <1>l, <4>1 DEF JobRow
    <3>2. CASE FailRetryable(e)
      <4>1. job' = [job EXCEPT ![j] = [@ EXCEPT !.status = "QUEUED", !.due = FALSE,
                                         !.live = FALSE, !.by = AnyWorker, !.token = 0]]
        BY <2>1, <3>2 DEF FailRetryable
      <4> QED BY <1>t, <1>l, <4>1 DEF JobRow
    <3>3. ASSUME NEW r \in BOOLEAN, FailDead(e, r) PROVE FALSE
      <4>1. job' = [job EXCEPT ![j].status = "DEAD", ![j].live = FALSE]
        BY <2>1, <3>3 DEF FailDead
      <4> QED BY <1>t, <1>l, <4>1 DEF JobRow
    <3> QED BY <1>4, <3>1, <3>2, <3>3 DEF FinishFailure
  <2>2. job'[j] = job[j]
    BY <1>t, <1>4, <2>1 DEF Complete, FinishFailure, FailRetryable, FailDead
  <2> QED BY <1>1, <2>2
<1>5. ASSUME NEW x \in Doc, DocumentStep(x) PROVE Goal
  <2>1. ASSUME NEW max \in RowMax, EnqueueJob(x, max) PROVE job'[j] = job[j]
    <3>1. PICK n \in 1..MaxRounds : job' = [job EXCEPT ![<<x, n>>] =
                     [NoRow EXCEPT !.status = "QUEUED", !.max = max, !.due = TRUE]]
      BY <2>1 DEF EnqueueJob
    <3>2. CASE j = <<x, n>>
      <4>1. job'[j].status = "QUEUED"
        BY <1>t, <3>1, <3>2 DEF NoRow
      <4> QED BY <1>l, <4>1
    <3>3. CASE j # <<x, n>>
      BY <1>t, <3>1, <3>3
    <3> QED BY <3>2, <3>3
  <2>2. ASSUME DeleteDocument(x) PROVE job'[j] = job[j]
    <3>1. job'[j] = job[j] \/ job'[j] = [job[j] EXCEPT !.status = "gone"]
      BY <2>2 DEF DeleteDocument
    <3>2. job[j] \in JobRow
      BY <1>t
    <3>3. [job[j] EXCEPT !.status = "gone"].status = "gone"
      BY <3>2 DEF JobRow
    <3> QED BY <1>l, <3>1, <3>3
  <2>3. ASSUME Upload(x) \/ (\E eligible \in {FailedOnly, FailedOrCompleted} : Requeue(x, eligible))
        PROVE  \E max \in RowMax : EnqueueJob(x, max)
    BY <2>3 DEF Upload, Requeue
  <2> QED BY <1>5, <1>1, <2>1, <2>2, <2>3 DEF DocumentStep
<1>6. ASSUME NEW i \in Job, LeaseLapses(i) \/ BackoffElapses(i) PROVE Goal
  <2>1. CASE i # j
    BY <1>1, <1>6, <1>t, <2>1 DEF LeaseLapses, BackoffElapses
  <2>2. CASE i = j /\ LeaseLapses(i)
    <3>1. ~job'[j].live
      BY <1>t, <2>2 DEF LeaseLapses, JobRow
    <3> QED BY <1>l, <3>1
  <2>3. CASE i = j /\ BackoffElapses(i)
    <3>1. job'[j].status = "QUEUED"
      BY <1>t, <2>3 DEF BackoffElapses, JobRow
    <3> QED BY <1>l, <3>1
  <2> QED BY <1>6, <2>1, <2>2, <2>3
<1>7. ASSUME UNCHANGED job PROVE Goal
  BY <1>1, <1>7
<1>8. ASSUME NEW v \in Worker, Heartbeat(v) \/ Report(v) PROVE Goal
  <2>1. pc[v] # "idle"
    BY <1>8 DEF Heartbeat, Report, WorkSteps, After, StageAt
  <2> QED BY <1>3, <1>7, <1>8, <2>1 DEF Heartbeat, Report, SetStage, queueVars
<1>9. ASSUME NEW v \in Worker, CompleteJob(v) \/ RecordFailure(v) PROVE Goal
  <2>1. \/ UNCHANGED job
        \/ Complete(cur[v]) \/ (\E r \in BOOLEAN : FinishFailure(cur[v], r))
    BY <1>9 DEF CompleteJob, RecordFailure, queueVars
  <2> QED BY <1>4, <1>7, <2>1
<1>10. ASSUME NEW v \in Worker,
             \/ StartJob(v) \/ Drained(v) \/ Parse(v) \/ Compute(v) \/ Save(v)
             \/ BuildPoints(v) \/ CheckDocument(v) \/ DeletePoints(v) \/ UpsertPoints(v)
             \/ StepFails(v) \/ Signal(v) \/ Restart(v) \/ Crash(v)
      PROVE  UNCHANGED job
  BY <1>10 DEF StartJob, Drained, Parse, Compute, Save, BuildPoints, CheckDocument,
              DeletePoints, UpsertPoints, StepFails, Signal, Restart, Crash, queueVars
<1>11. ASSUME NEW x \in Doc, ApiStep(x) PROVE DocumentStep(x) \/ UNCHANGED job
  BY <1>11 DEF ApiStep, UploadDocument, UploadDone, UploadRolledBack, RequeueDocument,
       DeleteRequest, QdrantDelete, DocumentStep, queueVars
<1>12. ASSUME NEW i \in Job, LapseAbandoned(i) \/ LapsePaused(i) \/ Backoff(i)
       PROVE  LeaseLapses(i) \/ BackoffElapses(i)
  BY <1>12 DEF LapseAbandoned, LapsePaused, Backoff
<1>13. ASSUME RecoverStale \/ UNCHANGED workerVars PROVE UNCHANGED job
  BY <1>13 DEF RecoverStale, RecoverLegacy, workerVars, queueVars
<1> HIDE DEF Goal
<1>14. ASSUME NEW v \in Worker, Progress(v) PROVE Goal
  BY <1>2, <1>7, <1>8, <1>9, <1>10, <1>14 DEF Progress
<1>15. Goal
  BY <1>5, <1>6, <1>7, <1>8, <1>10, <1>11, <1>12, <1>13, <1>14 DEF WNext
<1> QED
  BY <1>15 DEF Goal

\* A worker lets go of a claim whose lease is live only by settling the job, by
\* being killed, or by losing its last write.
LEMMA ClaimKept ==
    ASSUME FullInv, TableInv, [WNext]_workerVars, NEW w \in Worker, NEW c \in claims,
           ~Crash(w), ~(RecordFailure(w) /\ Disturb("lost_write")),
           c \in batch[w] \cup {cur[w]}, OwnsLive(c), OwnsLive(c)'
    PROVE  c \in batch'[w] \cup {cur'[w]}
<1> DEFINE Goal == c \in batch'[w] \cup {cur'[w]}
<1>t. /\ pc \in [Worker -> {"idle"} \cup WorkSteps \cup FailSteps]
      /\ cur \in [Worker -> claims \cup {NoClaim}]
      /\ batch \in [Worker -> SUBSET claims]
      /\ job \in [Job -> JobRow] /\ c.job \in Job
      /\ pc[w] = "idle" => cur[w] # c
  BY ClaimIsNotNoClaim DEF FullInv, WInv, HeldClaims, Control, TypeOK, Claim
<1> HIDE DEF WorkSteps, FailSteps
<1>1. ASSUME UNCHANGED <<cur, batch>> PROVE Goal
  BY <1>1
<1>2. ASSUME NEW v \in Worker, Leave(v), batch' = batch, v # w \/ cur[w] # c PROVE Goal
  BY <1>t, <1>2 DEF Leave
<1>3. ASSUME NEW v \in Worker, Poll(v) PROVE Goal
  <2>1. v # w
    BY <1>t, <1>3 DEF Poll
  <2> QED BY <1>t, <1>3, <2>1 DEF Poll
<1>4. ASSUME NEW v \in Worker, StartJob(v) PROVE Goal
  <2>1. PICK e \in batch[v] : /\ cur' = [cur EXCEPT ![v] = e]
                              /\ batch' = [batch EXCEPT ![v] = @ \ {e}]
    BY <1>4 DEF StartJob
  <2>2. v = w => pc[w] = "idle"
    BY <1>4 DEF StartJob
  <2> QED BY <1>t, <2>1, <2>2
<1>5. ASSUME NEW v \in Worker, Crash(v) PROVE Goal
  <2>1. v # w
    BY <1>5
  <2> QED BY <1>t, <1>5, <2>1 DEF Crash, Leave
<1>6. ASSUME NEW v \in Worker, Heartbeat(v) \/ Report(v) PROVE Goal
  BY <1>1, <1>2, <1>6 DEF Heartbeat, Report, Goto, OwnsLive
<1>7. ASSUME NEW v \in Worker, CheckDocument(v) PROVE Goal
  <2>1. CASE Present(DocOf(v))
    BY <1>1, <1>7, <2>1 DEF CheckDocument, Goto
  <2>2. CASE ~Present(DocOf(v))
    <3>1. v # w \/ cur[w] # c
      BY <2>2, LiveDocument DEF DocOf, Present
    <3> QED BY <1>2, <1>7, <2>2, <3>1 DEF CheckDocument
  <2> QED BY <2>1, <2>2
<1>8. ASSUME NEW v \in Worker, CompleteJob(v) \/ RecordFailure(v) PROVE Goal
  <2>0. Leave(v) /\ batch' = batch
    BY <1>8 DEF CompleteJob, RecordFailure
  <2>1. ASSUME v = w, cur[w] = c PROVE FALSE
    <3>1. Complete(c) \/ (\E r \in BOOLEAN : FailRetryable(c) \/ FailDead(c, r))
      BY <1>8, <2>1 DEF CompleteJob, RecordFailure, FinishFailure
    <3>2. CASE Complete(c)
      <4>1. job' = [job EXCEPT ![c.job].status = "SUCCEEDED", ![c.job].live = FALSE]
        BY <3>2 DEF Complete
      <4>2. ~job'[c.job].live
        BY <1>t, <4>1 DEF JobRow
      <4> QED BY <4>2 DEF OwnsLive
    <3>3. CASE FailRetryable(c)
      <4>1. job' = [job EXCEPT ![c.job] = [@ EXCEPT !.status = "QUEUED", !.due = FALSE,
                                         !.live = FALSE, !.by = AnyWorker, !.token = 0]]
        BY <3>3 DEF FailRetryable
      <4>2. ~job'[c.job].live
        BY <1>t, <4>1 DEF JobRow
      <4> QED BY <4>2 DEF OwnsLive
    <3>4. ASSUME NEW r \in BOOLEAN, FailDead(c, r) PROVE FALSE
      <4>1. job' = [job EXCEPT ![c.job].status = "DEAD", ![c.job].live = FALSE]
        BY <3>4 DEF FailDead
      <4>2. ~job'[c.job].live
        BY <1>t, <4>1 DEF JobRow
      <4> QED BY <4>2 DEF OwnsLive
    <3> QED BY <3>1, <3>2, <3>3, <3>4
  <2> QED BY <1>2, <2>0, <2>1
<1>9. ASSUME NEW v \in Worker,
             \/ Parse(v) \/ Compute(v) \/ Save(v) \/ BuildPoints(v) \/ DeletePoints(v)
             \/ UpsertPoints(v) \/ StepFails(v) \/ Drained(v) \/ Signal(v) \/ Restart(v)
      PROVE  UNCHANGED <<cur, batch>>
  BY <1>9 DEF Parse, Compute, Save, BuildPoints, DeletePoints, UpsertPoints, StepFails, Drained,
              Signal, Restart, Goto
<1>10. ASSUME NEW d \in Doc, ApiStep(d) PROVE UNCHANGED <<cur, batch>>
  BY <1>10 DEF ApiStep, UploadDocument, UploadDone, UploadRolledBack, RequeueDocument,
     DeleteRequest, QdrantDelete, loopVars
<1>11. ASSUME NEW j \in Job, LapseAbandoned(j) \/ LapsePaused(j) \/ Backoff(j)
       PROVE  UNCHANGED <<cur, batch>>
  BY <1>11 DEF LapseAbandoned, LapsePaused, Backoff, loopVars
<1>12. ASSUME RecoverStale \/ UNCHANGED workerVars PROVE UNCHANGED <<cur, batch>>
  BY <1>12 DEF RecoverStale, workerVars, loopVars
<1> HIDE DEF Goal
<1>13. ASSUME NEW v \in Worker, Progress(v) PROVE Goal
  BY <1>1, <1>3, <1>4, <1>6, <1>7, <1>8, <1>9, <1>13 DEF Progress
<1>14. Goal
  BY <1>1, <1>5, <1>6, <1>9, <1>10, <1>11, <1>12, <1>13 DEF WNext
<1> QED
  BY <1>14 DEF Goal

\* So its live leases stay in its memory.
LEMMA HeldStays ==
    ASSUME FullInv, TableInv, \A v \in Worker : OwnClaims(v), [WNext]_workerVars,
           NEW w \in Worker, Held(w),
           ~Crash(w), ~(RecordFailure(w) /\ Disturb("lost_write"))
    PROVE  Held(w)'
<1> SUFFICES ASSUME NEW j \in Job, LeasedTo(j, w)' PROVE (ClaimOf(j) \in batch[w] \cup {cur[w]})'
  BY DEF Held
<1>t. /\ cur \in [Worker -> claims \cup {NoClaim}] /\ batch \in [Worker -> SUBSET claims]
      /\ job \in [Job -> JobRow]
  BY DEF FullInv, WInv, HeldClaims, TypeOK
<1>1. CASE LeasedTo(j, w) /\ ClaimOf(j)' = ClaimOf(j)
  <2>1. PICK c : c = ClaimOf(j) /\ c = ClaimOf(j)'
    BY <1>1
  <2>2. /\ c.job = j /\ c.worker = job[j].by /\ c.token = job[j].token
        /\ c.worker = job'[j].by /\ c.token = job'[j].token
    BY <2>1 DEF ClaimOf
  <2>3. c \in batch[w] \cup {cur[w]}
    BY <1>1, <2>1 DEF Held
  <2>4. OwnsLive(c) /\ OwnsLive(c)'
    BY <1>1, <2>2 DEF OwnsLive, Owns, LeasedTo
  <2>5. c # NoClaim
    BY <1>t, <2>1, NoClaimAssumption DEF ClaimOf, Claim, JobRow
  <2>6. c \in claims
    BY <1>t, <2>3, <2>5
  <2>7. c \in batch'[w] \cup {cur'[w]}
    BY <2>3, <2>4, <2>6, ClaimKept
  <2> QED BY <2>1, <2>7
<1>2. CASE ClaimOf(j)' = cur[w] /\ cur'[w] = cur[w]
  BY <1>2
<1>3. CASE ClaimOf(j)' \in batch'[w]
  BY <1>3
<1> QED
  BY <1>1, <1>2, <1>3, LeaseOrigin

\* The strengthening.  Once a worker was killed or lost a write, a lease may be
\* nobody's; in the second part that was the one disturbance there is, and no
\* signal comes.
AllHeld ==
    /\ \A w \in Worker : Held(w)
    /\ disturbed = 0 => \A w \in Worker : mode[w] = "run"
NoSignalComes ==
    /\ disturbed = MaxDisturbances
    /\ \A w \in Worker : mode[w] = "run"
DrainInv ==
    /\ FullInv
    /\ TableInv
    /\ \A w \in Worker : OwnClaims(w) /\ StopFor(w)
    /\ AllHeld \/ NoSignalComes

\* At the start nothing is leased.
LEMMA InitDrainInv == WInit => DrainInv
<1> SUFFICES ASSUME WInit PROVE DrainInv
  OBVIOUS
<1>1. \A w \in Worker : OwnClaims(w) /\ StopFor(w)
  BY DEF WInit, OwnClaims, StopFor
<1>2. \A j \in Job : job[j].status = "absent"
  BY DEF WInit, Init, NoRow
<1>3. \A w \in Worker : Held(w) /\ mode[w] = "run"
  BY <1>2 DEF WInit, Held, LeasedTo
<1> QED
  BY <1>1, <1>3, InitFullInv, InitTableInv DEF WInit, DrainInv, AllHeld

\* Every step keeps it.
LEMMA NextDrainInv ==
    ASSUME {"crash", "lost_write"} \cap Disturbances = {} \/ MaxDisturbances <= 1
    PROVE  DrainInv /\ [WNext]_workerVars => DrainInv'
<1> SUFFICES ASSUME DrainInv, [WNext]_workerVars PROVE DrainInv'
  OBVIOUS
<1>1. /\ FullInv /\ FullInv' /\ TableInv /\ TableInv'
      /\ \A w \in Worker : OwnClaims(w) /\ OwnClaims(w)' /\ StopFor(w)'
  BY NextFullInv, NextTableInv, OwnClaimsStay, StopForStays DEF DrainInv
<1>d. disturbed \in 0..MaxDisturbances /\ MaxDisturbances \in Nat
  BY <1>1, BoundAssumption DEF FullInv, WInv, Stores
<1>m. ASSUME disturbed' = disturbed \/ disturbed' = 0, \A w \in Worker : mode[w] = "run"
      PROVE  \A w \in Worker : mode'[w] = "run"
  <2> SUFFICES ASSUME NEW w \in Worker PROVE mode'[w] = "run"
    OBVIOUS
  <2>1. disturbed' # disturbed + 1 /\ mode[w] = "run"
    BY <1>d, <1>m
  <2> QED BY <1>1, <2>1, ModeMoves
<1>c. disturbed' = disturbed \/ (disturbed < MaxDisturbances /\ disturbed' = disturbed + 1)
  BY <1>1, ModeMoves, WorkerAssumption
<1>2. CASE NoSignalComes
  <2>1. disturbed' = disturbed
    BY <1>c, <1>d, <1>2 DEF NoSignalComes
  <2>2. disturbed' = MaxDisturbances' /\ \A w \in Worker : mode'[w] = "run"
    BY <1>2, <1>m, <2>1 DEF NoSignalComes
  <2> QED BY <1>1, <2>2 DEF DrainInv, NoSignalComes
<1>3. ASSUME AllHeld, NEW w \in Worker, Crash(w) \/ (RecordFailure(w) /\ Disturb("lost_write"))
      PROVE  NoSignalComes'
  <2>1. MaxDisturbances <= 1 /\ disturbed < MaxDisturbances /\ disturbed' = disturbed + 1
    BY <1>3 DEF Crash, Disturb
  <2>2. disturbed = 0 /\ disturbed' = MaxDisturbances
    BY <1>d, <2>1
  <2>3. \A v \in Worker : mode[v] = "run"
    BY <1>3, <2>2 DEF AllHeld
  <2>4. mode' = mode \/ mode' = [mode EXCEPT ![w] = "run"]
    BY <1>3 DEF Crash, RecordFailure
  <2>5. mode \in [Worker -> {"run", "draining", "stopped"}]
    BY <1>1 DEF FullInv, WInv, Control
  <2> QED BY <2>2, <2>3, <2>4, <2>5 DEF NoSignalComes
<1>4. ASSUME AllHeld,
             \A w \in Worker : ~Crash(w) /\ ~(RecordFailure(w) /\ Disturb("lost_write"))
      PROVE  AllHeld'
  <2>1. \A w \in Worker : Held(w)'
    BY <1>1, <1>4, HeldStays DEF AllHeld
  <2>2. ASSUME disturbed' = 0 PROVE \A w \in Worker : mode'[w] = "run"
    <3>1. disturbed = 0
      BY <1>c, <1>d, <2>2
    <3> QED BY <1>4, <1>m, <2>2, <3>1 DEF AllHeld
  <2> QED BY <2>1, <2>2 DEF AllHeld
<1>5. (AllHeld \/ NoSignalComes)' \/ NoSignalComes
  BY <1>3, <1>4 DEF DrainInv
<1> QED
  BY <1>1, <1>2, <1>5 DEF DrainInv

\* A worker that drained and stopped after one signal leaves no live lease in its
\* name, unless a worker of that name was killed or lost its last write before.
THEOREM DrainedHoldsNothingHolds ==
    ASSUME {"crash", "lost_write"} \cap Disturbances = {} \/ MaxDisturbances <= 1
    PROVE  WSpec => []DrainedHoldsNothing
<1>1. DrainInv => DrainedHoldsNothing
  <2> SUFFICES ASSUME DrainInv, NEW w \in Worker, NEW j \in Job, mode[w] = "stopped",
                      LeasedTo(j, w)
               PROVE  FALSE
    BY DEF DrainedHoldsNothing, LeasedTo
  <2>1. pc[w] = "idle" /\ batch[w] = {} /\ Held(w) /\ FullInv
    BY DEF DrainInv, StopFor, NoSignalComes, AllHeld
  <2>2. ClaimOf(j) = NoClaim
    BY <2>1 DEF Held, FullInv, WInv, Control
  <2>3. ClaimOf(j) \in Claim
    BY <2>1 DEF ClaimOf, Claim, FullInv, TypeOK, JobRow
  <2> QED BY <2>2, <2>3, NoClaimAssumption
<1>2. DrainInv /\ [WNext]_workerVars => DrainInv'
  BY NextDrainInv
<1> QED
  BY <1>1, <1>2, InitDrainInv, PTL DEF WSpec
=============================================================================
