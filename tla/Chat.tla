------------------------------- MODULE Chat -------------------------------
(***************************************************************************)
(* A chat request from its admission to the stored answer                  *)
(* (src/gmrag_api/src/admission.rs, routes/chat.rs, chat/mod.rs and        *)
(* chat/deepseek.rs).                                                      *)
(*                                                                         *)
(* A request takes one of Concurrency permits, or waits in a bounded queue *)
(* for one; it then makes sure of its session row, stores the question and *)
(* reserves the position of the answer in one transaction, builds the      *)
(* context and streams the answer.  The answer is not stored by the loop   *)
(* that streams it but by a task that the Drop of PersistAssistantOnDrop   *)
(* spawns, at the end of the stream and when the client goes away alike;   *)
(* the permit is given back by the same drop.  So the task runs beside the *)
(* next request, beside the deletion of the session, and beside the        *)
(* re-creation of a session under the same identifier, which the client    *)
(* chooses.                                                                *)
(*                                                                         *)
(* A question, an answer and the retrieved context are data and left out:  *)
(* of the stream's buffer only whether it holds any text is kept.          *)
(***************************************************************************)
EXTENDS Integers, FiniteSets, Sequences, Functions, SequencesExt

CONSTANTS
  Request,      \* the chat requests that ever arrive
  Session,      \* the session identifiers the clients use
  Caller,       \* the users
  caller,       \* the user who sends each request
  chat,         \* the session each request names
  Concurrency,  \* permits of the semaphore
  QueueDepth,   \* requests that may wait for one
  MaxRows,      \* bound: rows of chat_sessions ever inserted
  MaxCrashes    \* bound: stops of the process

ASSUME RequestAssumption ==
  /\ caller \in [Request -> Caller]
  /\ chat \in [Request -> Session]
  /\ IsFiniteSet(Request)
ASSUME AdmissionAssumption ==
  Concurrency \in Nat \ {0} /\ QueueDepth \in Nat
ASSUME BoundAssumption == MaxRows \in Nat /\ MaxCrashes \in Nat

VARIABLES
  pc,        \* where the handler of each request stands
  free,      \* permits nobody holds
  queue,     \* requests waiting for a permit, first come first
  waiting,   \* the atomic counter of the requests in front of the door
  session,   \* chat_sessions: the row of each identifier, or NoRow
  rows,      \* rows inserted so far; tells a re-created session from its predecessor
  message,   \* chat_messages
  turn,      \* the answer position a request has reserved, and in which row
  text,      \* requests whose assistant_buffer is not empty
  task,      \* the task that stores the answer
  crashes

doorVars == <<free, queue, waiting>>
storeVars == <<session, rows, message>>
answerVars == <<turn, text, task>>
vars == <<pc, doorVars, storeVars, answerVars, crashes>>

NoRow == [owner |-> "none", next |-> 0, row |-> 0]
NoTurn == [at |-> 0, row |-> 0]

Message == [session : Session, at : Nat, role : {"user", "assistant"}, of : Request]

Counted == {"full", "enter", "queued", "granted"}
Holding == {"granted", "lookup", "insert", "confirm", "reserve", "context", "stream"}
Ended == {"shed", "failed", "gone", "done"}
Stages == {"idle", "count"} \cup Counted \cup Holding \cup Ended

Tasks == {"none", "filter", "insert", "stored", "unchecked", "refused", "killed"}

At(stages) == {r \in Request : pc[r] \in stages}
Row(r) == session[chat[r]]

Init ==
  /\ pc = [r \in Request |-> "idle"]
  /\ free = Concurrency
  /\ queue = <<>>
  /\ waiting = 0
  /\ session = [s \in Session |-> NoRow]
  /\ rows = 0
  /\ message = {}
  /\ turn = [r \in Request |-> NoTurn]
  /\ text = {}
  /\ task = [r \in Request |-> "none"]
  /\ crashes = 0

Go(r, from, to) == pc[r] = from /\ pc' = [pc EXCEPT ![r] = to]

-----------------------------------------------------------------------------
(* The door: ChatAdmission::acquire.                                       *)

\* The fast path: tokio hands a released permit to the first waiter, so a
\* permit is free only when nobody queues.
TryAcquire(r) ==
  /\ Go(r, "idle", IF free > 0 THEN "lookup" ELSE "count")
  /\ free' = IF free > 0 THEN free - 1 ELSE free
  /\ UNCHANGED <<queue, waiting, storeVars, answerVars, crashes>>

\* fetch_add first, the comparison after: two requests cannot both take the
\* last place.
CountIn(r) ==
  /\ Go(r, "count", IF waiting >= QueueDepth THEN "full" ELSE "enter")
  /\ waiting' = waiting + 1
  /\ UNCHANGED <<free, queue, storeVars, answerVars, crashes>>

RejectFull(r) ==
  /\ Go(r, "full", "shed")
  /\ waiting' = waiting - 1
  /\ UNCHANGED <<free, queue, storeVars, answerVars, crashes>>

\* The first poll of acquire_owned: it takes a permit that is free by now or
\* joins the queue.
Enter(r) ==
  /\ IF free > 0
     THEN Go(r, "enter", "granted") /\ free' = free - 1 /\ UNCHANGED queue
     ELSE Go(r, "enter", "queued") /\ queue' = Append(queue, r) /\ UNCHANGED free
  /\ UNCHANGED <<waiting, storeVars, answerVars, crashes>>

Admit(r) ==
  /\ Go(r, "granted", "lookup")
  /\ waiting' = waiting - 1
  /\ UNCHANGED <<free, queue, storeVars, answerVars, crashes>>

\* The places behind it move up by one.
LeaveQueue(r) == \E i \in DOMAIN queue : queue[i] = r /\ queue' = RemoveAt(queue, i)

\* tokio's timeout polls the permit before the clock: a request that was
\* granted one is never turned away.
WaitTimeout(r) ==
  /\ Go(r, "queued", "shed")
  /\ LeaveQueue(r)
  /\ waiting' = waiting - 1
  /\ UNCHANGED <<free, storeVars, answerVars, crashes>>

\* OwnedSemaphorePermit::drop; stages is what becomes of pc by the same step.
GiveBack(stages) ==
  IF queue = <<>>
  THEN pc' = stages /\ free' = free + 1 /\ UNCHANGED queue
  ELSE /\ pc' = [stages EXCEPT ![Head(queue)] = "granted"]
       /\ queue' = Tail(queue)
       /\ UNCHANGED free

-----------------------------------------------------------------------------
(* The session row and the turn: ensure_chat_session,                      *)
(* insert_user_chat_message_and_reserve_turn.                              *)

\* A response with an error, before any text: the permit is given back.
Fail(r) ==
  /\ GiveBack([pc EXCEPT ![r] = "failed"])
  /\ UNCHANGED <<waiting, storeVars, answerVars, crashes>>

Mine(r) == Row(r) # NoRow /\ Row(r).owner = caller[r]

Lookup(r) ==
  /\ pc[r] = "lookup"
  /\ \/ /\ Mine(r)
        /\ Go(r, "lookup", "reserve")
        /\ UNCHANGED <<doorVars, storeVars, answerVars, crashes>>
     \/ /\ Row(r) = NoRow
        /\ Go(r, "lookup", "insert")
        /\ UNCHANGED <<doorVars, storeVars, answerVars, crashes>>
     \/ Row(r) # NoRow /\ ~Mine(r) /\ Fail(r)

\* INSERT .. ON CONFLICT DO NOTHING: somebody else may have been faster.
InsertSession(r) ==
  /\ Go(r, "insert", "confirm")
  /\ IF Row(r) = NoRow
     THEN /\ rows < MaxRows
          /\ rows' = rows + 1
          /\ session' = [session EXCEPT ![chat[r]] =
                           [owner |-> caller[r], next |-> 1, row |-> rows + 1]]
     ELSE UNCHANGED <<session, rows>>
  /\ UNCHANGED <<doorVars, message, answerVars, crashes>>

Confirm(r) ==
  /\ pc[r] = "confirm"
  /\ IF Mine(r)
     THEN /\ Go(r, "confirm", "reserve")
          /\ UNCHANGED <<doorVars, storeVars, answerVars, crashes>>
     ELSE Fail(r)

Taken(s) == {m.at : m \in {n \in message : n.session = s}}

\* user_sequence: behind every reservation and every message of the session.
NextPosition(s) ==
  CHOOSE n \in {session[s].next} \cup {p + 1 : p \in Taken(s)} :
    n >= session[s].next /\ \A p \in Taken(s) : p < n

\* One transaction under the lock of the session row; it fails when the row
\* was deleted since the handler saw it.
ReserveTurn(r) ==
  LET at == NextPosition(chat[r]) IN
  /\ pc[r] = "reserve"
  /\ IF Row(r) = NoRow
     THEN Fail(r)
     ELSE /\ Go(r, "reserve", "context")
          /\ session' = [session EXCEPT ![chat[r]].next = at + 2]
          /\ message' = message \cup
               {[session |-> chat[r], at |-> at, role |-> "user", of |-> r]}
          /\ turn' = [turn EXCEPT ![r] = [at |-> at + 1, row |-> Row(r).row]]
          /\ UNCHANGED <<doorVars, rows, text, task, crashes>>

\* mutant: the permit ends with the handler and is not moved into the stream
BuildContextFreesPermit(r) ==
  /\ pc[r] = "context"
  /\ GiveBack([pc EXCEPT ![r] = "stream"])
  /\ UNCHANGED <<waiting, storeVars, answerVars, crashes>>

\* build_chat_context and prepare_deepseek_stream only read and call out; when
\* one of them fails the question stays and its answer position stays empty.
BuildContext(r) ==
  /\ Go(r, "context", "stream")
  /\ UNCHANGED <<doorVars, storeVars, answerVars, crashes>>

CallFails(r) ==
  /\ pc[r] \in {"lookup", "insert", "confirm", "reserve", "context"}
  /\ Fail(r)

-----------------------------------------------------------------------------
(* The stream and the drop of its generator.                               *)

Token(r) ==
  /\ pc[r] = "stream"
  /\ text' = text \cup {r}
  /\ UNCHANGED <<pc, doorVars, storeVars, turn, task, crashes>>

\* mutant: the task is spawned after the loop, which a dropped stream never reaches
PersistAfterLoop(r, end) ==
  task' = IF r \in text /\ end = "done" THEN [task EXCEPT ![r] = "filter"] ELSE task

\* PersistAssistantOnDrop::drop: an empty buffer stores nothing.
PersistOnDrop(r, end) ==
  task' = IF r \in text THEN [task EXCEPT ![r] = "filter"] ELSE task

DropStream(r, end) ==
  /\ pc[r] = "stream"
  /\ PersistOnDrop(r, end)
  /\ GiveBack([pc EXCEPT ![r] = end])
  /\ UNCHANGED <<waiting, storeVars, turn, text, crashes>>

\* mutant: no timeout before the first token, a silent provider is awaited for ever
StreamEndsAfterText(r) == r \in text /\ DropStream(r, "done")

\* [DONE], the end of the bytes, a transport error, the idle timeout: the loop
\* ends, the citations and the final event follow and the generator is dropped.
StreamEnds(r) == DropStream(r, "done")

\* mutant: no WaitingGuard, the counter goes down behind the await only
DisconnectUncounted(r) ==
  /\ pc[r] \in {"queued", "granted"}
  /\ IF pc[r] = "queued"
     THEN /\ pc' = [pc EXCEPT ![r] = "gone"]
          /\ LeaveQueue(r)
          /\ UNCHANGED free
     ELSE GiveBack([pc EXCEPT ![r] = "gone"])
  /\ UNCHANGED <<waiting, storeVars, answerVars, crashes>>

\* The client goes away while the request waits: the dropped future gives its
\* place in the queue, its permit and its count back.
DisconnectWaiting(r) ==
  /\ pc[r] \in {"queued", "granted"}
  /\ IF pc[r] = "queued"
     THEN /\ pc' = [pc EXCEPT ![r] = "gone"]
          /\ LeaveQueue(r)
          /\ UNCHANGED free
     ELSE GiveBack([pc EXCEPT ![r] = "gone"])
  /\ waiting' = waiting - 1
  /\ UNCHANGED <<storeVars, answerVars, crashes>>

\* .. or while its handler awaits a statement or a call,
DisconnectHandler(r) ==
  /\ pc[r] \in Holding \ {"granted", "stream"}
  /\ GiveBack([pc EXCEPT ![r] = "gone"])
  /\ UNCHANGED <<waiting, storeVars, answerVars, crashes>>

\* .. or while the answer streams.
DisconnectStream(r) == DropStream(r, "gone")

-----------------------------------------------------------------------------
(* The spawned task: filter_citations_for_user, insert_chat_message.       *)

Settle(r, from, to) ==
  /\ task[r] = from
  /\ task' = [task EXCEPT ![r] = to]
  /\ UNCHANGED <<pc, doorVars, session, rows, turn, text, crashes>>

\* The authorisation service or the database does not answer: the task gives
\* up without the answer.
FilterCitations(r) ==
  /\ \E to \in {"insert", "unchecked"} : Settle(r, "filter", to)
  /\ UNCHANGED message

\* mutant: the answer goes behind the newest message
AnswerBehindNewest(r) ==
  CHOOSE n \in {1} \cup {p + 1 : p \in Taken(chat[r])} : \A p \in Taken(chat[r]) : p < n

AnswerPosition(r) == turn[r].at

\* The foreign key refuses an answer without a session, the unique key one
\* whose position is taken.
StoreAnswer(r) ==
  LET at == AnswerPosition(r) IN
  IF Row(r) = NoRow \/ at \in Taken(chat[r])
  THEN Settle(r, "insert", "refused") /\ UNCHANGED message
  ELSE /\ Settle(r, "insert", "stored")
       /\ message' = message \cup
            {[session |-> chat[r], at |-> at, role |-> "assistant", of |-> r]}

\* delete_chat_session: the messages go with the row (ON DELETE CASCADE).
DeleteSession(s) ==
  /\ session[s] # NoRow
  /\ session' = [session EXCEPT ![s] = NoRow]
  /\ message' = {m \in message : m.session # s}
  /\ UNCHANGED <<pc, doorVars, rows, answerVars, crashes>>

\* The process stops: requests, permits and tasks are gone, the tables stay.
Crash ==
  /\ crashes < MaxCrashes
  /\ crashes' = crashes + 1
  /\ pc' = [r \in Request |-> IF pc[r] \in {"idle"} \cup Ended THEN pc[r] ELSE "gone"]
  /\ free' = Concurrency
  /\ queue' = <<>>
  /\ waiting' = 0
  /\ task' = [r \in Request |->
                IF task[r] \in {"filter", "insert"} \/ (pc[r] = "stream" /\ r \in text)
                THEN "killed" ELSE task[r]]
  /\ UNCHANGED <<storeVars, turn, text>>

Handle(r) ==
  \/ CountIn(r) \/ RejectFull(r) \/ Enter(r) \/ Admit(r)
  \/ Lookup(r) \/ InsertSession(r) \/ Confirm(r) \/ ReserveTurn(r)
  \/ StreamEnds(r)

Disconnect(r) == DisconnectWaiting(r) \/ DisconnectHandler(r) \/ DisconnectStream(r)

Persist(r) == FilterCitations(r) \/ StoreAnswer(r)

Next ==
  \/ \E r \in Request :
       \/ TryAcquire(r) \/ Handle(r) \/ WaitTimeout(r) \/ CallFails(r)
       \/ BuildContext(r) \/ Token(r) \/ Disconnect(r) \/ Persist(r)
  \/ \E s \in Session : DeleteSession(s)
  \/ Crash

Spec == Init /\ [][Next]_vars

(* Fairness.  The statements of a handler return, the clock of the queue    *)
(* runs, a stream that stays silent is ended by the idle timeout, and       *)
(* spawned tasks run.  That the provider does not stream for ever is an     *)
(* assumption.  Nothing is assumed of BuildContext: the client that embeds  *)
(* the question has no timeout, so a request may stay there and keep its    *)
(* permit.  Nothing obliges a client to arrive, to go away or to delete.    *)
FairSpec ==
  /\ Spec
  /\ \A r \in Request :
       /\ WF_vars(Handle(r))
       /\ WF_vars(WaitTimeout(r))
       /\ WF_vars(Persist(r))

-----------------------------------------------------------------------------
(* Properties.                                                             *)

TypeOK ==
  /\ pc \in [Request -> Stages]
  /\ free \in 0..Concurrency
  /\ queue \in Seq(Request)
  /\ waiting \in Nat
  /\ session \in [Session -> [owner : Caller \cup {"none"}, next : Nat, row : Nat]]
  /\ rows \in 0..MaxRows
  /\ message \in SUBSET Message
  /\ turn \in [Request -> [at : Nat, row : Nat]]
  /\ text \in SUBSET Request
  /\ task \in [Request -> Tasks]
  /\ crashes \in 0..MaxCrashes

(* The door keeps its books: every permit is free or in the hands of one    *)
(* request, the counter is the number of requests in front of the door, the *)
(* queue holds exactly the waiting requests, once each, no more than        *)
(* QueueDepth of them were let in, and nobody waits while a permit is free. *)
(* However a request leaves (answered, refused, timed out, dropped by its   *)
(* client while it waits or streams) it gives back what it took.            *)
AdmissionExact ==
  /\ free + Cardinality(At(Holding)) = Concurrency
  /\ waiting = Cardinality(At(Counted))
  /\ Cardinality(At(Counted \ {"full"})) <= QueueDepth
  /\ ToSet(queue) = At({"queued"})
  /\ IsInjective(queue)
  /\ queue # <<>> => free = 0

\* The turn of r belongs to the session row that exists now.
Current(r) == turn[r] # NoTurn /\ turn[r].row = Row(r).row

(* The answers of concurrent requests of one session never mix: no position *)
(* is used twice, and an answer stands directly behind its own question.    *)
(* An answer that outlived the deletion of its session and found the        *)
(* identifier in use again is outside the property: its question is gone.   *)
AnswerFollowsQuestion ==
  /\ \A m, n \in message : m.session = n.session /\ m.at = n.at => m = n
  /\ \A m \in message :
       m.role = "assistant" /\ Current(m.of) =>
         \E q \in message : /\ q.role = "user"
                            /\ q.of = m.of
                            /\ q.session = m.session
                            /\ q.at + 1 = m.at

\* The answer position of r was taken by an answer of a deleted session.
Displaced(r) ==
  \E m \in message : /\ m.session = chat[r]
                     /\ m.at = turn[r].at
                     /\ turn[m.of].row # turn[r].row

(* Text that was streamed is stored, whether the stream ended, broke off or *)
(* was dropped by its client; except when the citations could not be        *)
(* checked, the process stopped, the session was deleted meanwhile, or an   *)
(* answer from before such a deletion took the place.                       *)
AnswerSettles ==
  \A r \in Request :
    r \in text ~> \/ task[r] \in {"stored", "unchecked", "killed"}
                  \/ task[r] = "refused" /\ (~Current(r) \/ Displaced(r))

(* Nobody waits at the door for ever, even when a request inside keeps its  *)
(* permit for ever because its question is never embedded; and a stream     *)
(* that was opened ends, whether or not the provider sends anything.        *)
WaitersAndStreamsEnd ==
  \A r \in Request :
    /\ pc[r] \in {"count"} \cup Counted ~> pc[r] \in {"lookup"} \cup Ended
    /\ pc[r] = "stream" ~> pc[r] \in Ended
=============================================================================
