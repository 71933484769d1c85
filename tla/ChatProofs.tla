---------------------------- MODULE ChatProofs ----------------------------
(***************************************************************************)
(* Proofs about Chat.  The door: DoorInv, that the permits, the counter and  *)
(* the queue agree with where the requests stand, is inductive and is        *)
(* AdmissionExact with the types the argument needs; under it every step is  *)
(* a step of Admission or leaves it alone.  The conversation:                *)
(* under DoorInv, ConversationInv is inductive.  It says who has a turn      *)
(* (TurnInv), that a session created again has a row no earlier turn names   *)
(* (RowInv), and where the messages of a turn stand (MessageInv).            *)
(***************************************************************************)
EXTENDS ChatRefinement, FiniteSetTheorems, SequenceTheorems, WellFoundedInduction, TLAPS

-----------------------------------------------------------------------------
(* The door.                                                               *)

\* What the door works with; the bounds of its counters follow from the books.
DoorTypes ==
  /\ pc \in [Request -> Stages]
  /\ free \in Nat
  /\ queue \in Seq(Request)
  /\ waiting \in Int

\* The queue and the control state of the requests agree.
QueueExact ==
  /\ ToSet(queue) = At({"queued"})
  /\ IsInjective(queue)

Books ==
  /\ free + Cardinality(At(Holding)) = Concurrency
  /\ waiting = Cardinality(At(Counted))
  /\ Cardinality(At(Counted \ {"full"})) <= QueueDepth
  /\ queue # <<>> => free = 0

DoorInv == DoorTypes /\ QueueExact /\ Books

\* A request that goes from one stage to another enters or leaves a set of
\* stages.
Change(S, from, to) ==
  (IF to \in S THEN 1 ELSE 0) - (IF from \in S THEN 1 ELSE 0)

\* The number of requests in the stages S when p is where each of them stands.
Count(p, S) == Cardinality({r \in Request : p[r] \in S})

\* There are finitely many requests.
LEMMA CountedFinite ==
  ASSUME NEW p, NEW S
  PROVE  IsFiniteSet({r \in Request : p[r] \in S})
<1>1. {r \in Request : p[r] \in S} \in SUBSET Request
  OBVIOUS
<1> QED
  BY <1>1, RequestAssumption, FS_Subset

LEMMA CountType ==
  ASSUME NEW p, NEW S
  PROVE  Count(p, S) \in Nat
BY CountedFinite, FS_CardinalityType DEF Count

LEMMA CountMonotone ==
  ASSUME NEW p, NEW S, NEW T, S \subseteq T
  PROVE  Count(p, S) <= Count(p, T)
<1> DEFINE A == {r \in Request : p[r] \in S}
           B == {r \in Request : p[r] \in T}
<1>1. A \in SUBSET B /\ IsFiniteSet(B)
  BY CountedFinite
<1>2. Cardinality(A) <= Cardinality(B)
  <2> HIDE DEF A, B
  <2> QED BY <1>1, FS_Subset
<1> QED
  BY <1>2 DEF Count

\* One request goes to another stage, p and after are pc before and after.
Moved(p, after, r, to) ==
  /\ p \in [Request -> Stages] /\ after \in [Request -> Stages]
  /\ r \in Request /\ after[r] = to
  /\ \A q \in Request \ {r} : after[q] = p[q]

LEMMA CountMoves ==
  ASSUME NEW p, NEW after, NEW r, NEW to, Moved(p, after, r, to), NEW S
  PROVE  Count(after, S) = Count(p, S) + Change(S, p[r], to)
<1> USE DEF Moved
<1> DEFINE A == {q \in Request : p[q] \in S}
           B == {q \in Request : after[q] \in S}
<1>1. IsFiniteSet(A) /\ Cardinality(A) \in Nat
  BY CountedFinite, FS_CardinalityType
<1>2. CASE to \in S
  <2>1. B = A \cup {r}
    BY <1>2
  <2>2. Cardinality(B) = IF r \in A THEN Cardinality(A) ELSE Cardinality(A) + 1
    BY <1>1, <2>1, FS_AddElement
  <2> QED BY <1>1, <1>2, <2>2 DEF Count, Change
<1>3. CASE to \notin S
  <2>1. B = A \ {r}
    BY <1>3
  <2>2. Cardinality(B) = IF r \in A THEN Cardinality(A) - 1 ELSE Cardinality(A)
    BY <1>1, <2>1, FS_RemoveElement
  <2> QED BY <1>1, <1>3, <2>2 DEF Count, Change
<1> QED BY <1>2, <1>3

LEMMA CountKept ==
  ASSUME NEW p, NEW after, NEW r, NEW to, Moved(p, after, r, to),
         NEW S, to \in S <=> p[r] \in S
  PROVE  Count(after, S) = Count(p, S)
BY CountMoves, CountType DEF Change

LEMMA CountDrops ==
  ASSUME NEW p, NEW after, NEW r, NEW to, Moved(p, after, r, to),
         NEW S, to \notin S, p[r] \in S
  PROVE  Count(after, S) = Count(p, S) - 1
BY CountMoves, CountType DEF Change

\* The operator of the module, before and after a step.
LEMMA AtIsCount ==
  ASSUME NEW S
  PROVE  Cardinality(At(S)) = Count(pc, S) /\ Cardinality(At(S)') = Count(pc', S)
BY DEF At, Count

\* Head, tail and members of a queue without repetitions.
LEMMA HeadLeaves ==
  ASSUME NEW q \in Seq(Request), q # <<>>, IsInjective(q)
  PROVE  /\ Head(q) \in ToSet(q)
         /\ Tail(q) \in Seq(Request)
         /\ ToSet(Tail(q)) = ToSet(q) \ {Head(q)}
         /\ IsInjective(Tail(q))
<1> USE DEF ToSet, IsInjective
<1>1. /\ Len(q) \in Nat \ {0} /\ DOMAIN q = 1..Len(q)
      /\ Tail(q) \in Seq(Request) /\ DOMAIN Tail(q) = 1..(Len(q) - 1)
      /\ \A i \in 1..(Len(q) - 1) : Tail(q)[i] = q[i + 1]
      /\ Head(q) = q[1]
  BY HeadTailProperties, LenProperties, EmptySeq
<1>2. Head(q) \in ToSet(q)
  BY <1>1
<1>3. ToSet(Tail(q)) \subseteq ToSet(q) \ {Head(q)}
  BY <1>1
<1>4. ToSet(q) \ {Head(q)} \subseteq ToSet(Tail(q))
  <2> SUFFICES ASSUME NEW i \in 1..Len(q), q[i] # q[1]
               PROVE  q[i] \in ToSet(Tail(q))
    BY <1>1
  <2>1. i - 1 \in 1..(Len(q) - 1)
    BY <1>1
  <2>2. q[i] = Tail(q)[i - 1]
    BY <1>1, <2>1
  <2> QED BY <1>1, <2>1, <2>2
<1>5. IsInjective(Tail(q))
  BY <1>1
<1> QED BY <1>1, <1>2, <1>3, <1>4, <1>5

\* Whoever leaves the queue leaves it altogether.
LEMMA PlaceCloses ==
  ASSUME NEW q \in Seq(Request), IsInjective(q), NEW i \in DOMAIN q
  PROVE  /\ RemoveAt(q, i) \in Seq(Request)
         /\ ToSet(RemoveAt(q, i)) = ToSet(q) \ {q[i]}
         /\ IsInjective(RemoveAt(q, i))
<1> DEFINE n == Len(q)
           left == SubSeq(q, 1, i - 1)
           right == SubSeq(q, i + 1, n)
           t == RemoveAt(q, i)
<1>1. n \in Nat /\ DOMAIN q = 1..n /\ i \in 1..n /\ \A j \in 1..n : q[j] \in Request
  BY LenProperties, ElementOfSeq
<1>2. /\ left \in Seq(Request) /\ Len(left) = i - 1
      /\ \A j \in 1..(i - 1) : left[j] = q[j]
  <2>1. \A j \in 1..(i - 1) : q[j] \in Request
    BY <1>1
  <2>2. 1 \in Int /\ i - 1 \in Int
    BY <1>1
  <2>3. /\ left \in Seq(Request)
        /\ Len(left) = IF 1 <= i - 1 THEN i - 1 - 1 + 1 ELSE 0
        /\ \A j \in 1..(i - 1 - 1 + 1) : left[j] = q[1 + j - 1]
    BY <2>1, <2>2, SubSeqProperties
  <2> QED BY <1>1, <2>3
<1>3. /\ right \in Seq(Request) /\ Len(right) = n - i
      /\ \A j \in 1..(n - i) : right[j] = q[i + j]
  <2>1. \A j \in (i + 1)..n : q[j] \in Request
    BY <1>1
  <2>2. i + 1 \in Int /\ n \in Int
    BY <1>1
  <2>3. /\ right \in Seq(Request)
        /\ Len(right) = IF i + 1 <= n THEN n - (i + 1) + 1 ELSE 0
        /\ \A j \in 1..(n - (i + 1) + 1) : right[j] = q[i + 1 + j - 1]
    BY <2>1, <2>2, SubSeqProperties
  <2> HIDE DEF n, left, right
  <2>4. n - (i + 1) + 1 = n - i /\ (i + 1 > n => n - i = 0)
    BY <1>1
  <2>5. ASSUME NEW j \in 1..(n - i) PROVE right[j] = q[i + j]
    <3>1. i + 1 + j - 1 = i + j
      BY <1>1
    <3> QED BY <2>3, <2>4, <3>1
  <2> QED BY <1>1, <2>3, <2>4, <2>5
<1>4. /\ t \in Seq(Request) /\ Len(t) = n - 1
      /\ \A j \in 1..(n - 1) : t[j] = IF j < i THEN q[j] ELSE q[j + 1]
  <2>1. /\ t \in Seq(Request) /\ Len(t) = Len(left) + Len(right)
        /\ \A j \in 1..(Len(left) + Len(right)) :
             t[j] = IF j <= Len(left) THEN left[j] ELSE right[j - Len(left)]
    BY <1>2, <1>3, ConcatProperties DEF RemoveAt
  <2>2. Len(left) + Len(right) = n - 1
    BY <1>1, <1>2, <1>3
  <2>3. ASSUME NEW j \in 1..(n - 1)
        PROVE  t[j] = IF j < i THEN q[j] ELSE q[j + 1]
    <3>1. CASE j < i
      <4>1. t[j] = left[j] /\ j \in 1..(i - 1)
        BY <1>1, <1>2, <2>1, <2>2, <3>1
      <4> QED BY <1>2, <3>1, <4>1
    <3>2. CASE ~(j < i)
      <4>1. j - (i - 1) \in 1..(n - i) /\ ~(j <= i - 1)
        BY <1>1, <3>2
      <4>2. t[j] = right[j - (i - 1)]
        BY <1>2, <2>1, <2>2, <4>1
      <4>3. i + (j - (i - 1)) = j + 1
        BY <1>1
      <4> QED BY <1>3, <3>2, <4>1, <4>2, <4>3
    <3> QED BY <3>1, <3>2
  <2> QED BY <2>1, <2>2, <2>3
<1>5. DOMAIN t = 1..(n - 1)
  BY <1>4, LenProperties
<1> HIDE DEF t, n, left, right
<1> DEFINE at(j) == IF j < i THEN j ELSE j + 1
<1>0. ASSUME NEW j \in 1..(n - 1)
      PROVE  at(j) \in 1..n /\ t[j] = q[at(j)] /\ at(j) # i
  BY <1>1, <1>4
<1>6. ToSet(t) \subseteq ToSet(q) \ {q[i]}
  <2> SUFFICES ASSUME NEW j \in 1..(n - 1)
               PROVE  t[j] \in ToSet(q) /\ t[j] # q[i]
    BY <1>5 DEF ToSet
  <2> HIDE DEF at
  <2>1. at(j) \in 1..n /\ t[j] = q[at(j)] /\ at(j) # i
    BY <1>0
  <2> QED BY <1>1, <2>1 DEF ToSet, IsInjective
<1>7. ToSet(q) \ {q[i]} \subseteq ToSet(t)
  <2> SUFFICES ASSUME NEW k \in 1..n, q[k] # q[i]
               PROVE  \E j \in 1..(n - 1) : t[j] = q[k]
    BY <1>1, <1>5 DEF ToSet
  <2>1. CASE k < i
    BY <1>1, <1>4, <2>1
  <2>2. CASE k > i
    <3>1. k - 1 \in 1..(n - 1) /\ ~(k - 1 < i) /\ k - 1 + 1 = k
      BY <1>1, <2>2
    <3> QED BY <1>4, <3>1
  <2> QED BY <1>1, <2>1, <2>2
<1>8. IsInjective(t)
  <2> SUFFICES ASSUME NEW a \in 1..(n - 1), NEW b \in 1..(n - 1), t[a] = t[b]
               PROVE  a = b
    BY <1>5 DEF IsInjective
  <2>1. ASSUME NEW j \in 1..n, NEW k \in 1..n, q[j] = q[k] PROVE j = k
    BY <1>1, <2>1 DEF IsInjective
  <2>2. at(a) = at(b)
    <3> HIDE DEF at
    <3> QED BY <1>0, <2>1
  <2> QED BY <1>1, <2>2
<1> QED BY <1>4, <1>6, <1>7, <1>8 DEF t

\* A request that was nowhere in the queue joins it.
LEMMA JoinsQueue ==
  ASSUME NEW q \in Seq(Request), IsInjective(q), NEW r \in Request, r \notin ToSet(q)
  PROVE  /\ Append(q, r) \in Seq(Request)
         /\ ToSet(Append(q, r)) = ToSet(q) \cup {r}
         /\ IsInjective(Append(q, r))
<1> DEFINE t == Append(q, r)
           n == Len(q)
<1>1. /\ n \in Nat /\ DOMAIN q = 1..n
      /\ t \in Seq(Request) /\ DOMAIN t = 1..(n + 1)
      /\ \A i \in 1..n : t[i] = q[i]
      /\ t[n + 1] = r
  BY AppendProperties, LenProperties
<1> HIDE DEF t, n
<1>2. ToSet(t) = ToSet(q) \cup {r}
  BY <1>1 DEF ToSet
<1>3. IsInjective(t)
  BY <1>1 DEF IsInjective, ToSet
<1> QED BY <1>1, <1>2, <1>3 DEF t

-----------------------------------------------------------------------------
(* What each kind of move does to the books.                               *)

\* What a request in front of the door, or inside, is worth in each account.
LEMMA StageSets ==
  /\ Holding \subseteq Stages /\ Counted \subseteq Stages /\ Ended \subseteq Stages
  /\ "queued" \in Counted \ {"full"} /\ "queued" \notin Holding
  /\ "granted" \in Counted \ {"full"} /\ "granted" \in Holding
  /\ Ended \cap (Holding \cup Counted) = {}
BY DEF Holding, Counted, Ended, Stages

\* A request goes on without touching the queue.
LEMMA MoveKeepsBooks ==
  ASSUME DoorInv, NEW r \in Request, NEW to \in Stages,
         pc' = [pc EXCEPT ![r] = to], pc[r] # "queued", to # "queued",
         UNCHANGED queue,
         free' = free - Change(Holding, pc[r], to), free' >= 0,
         waiting' = waiting + Change(Counted, pc[r], to),
         Change(Counted \ {"full"}, pc[r], to) <= 0 \/ waiting < QueueDepth,
         queue # <<>> => free' = 0
  PROVE  DoorInv'
<1> USE DEF DoorInv
<1>1. DoorTypes'
  BY DEF DoorTypes, Change
<1>2. QueueExact'
  <2>1. At({"queued"})' = At({"queued"})
    BY DEF At, DoorTypes
  <2> QED BY <2>1 DEF QueueExact
<1>3. /\ Count(pc', Holding) = Count(pc, Holding) + Change(Holding, pc[r], to)
      /\ Count(pc', Counted) = Count(pc, Counted) + Change(Counted, pc[r], to)
      /\ Count(pc', Counted \ {"full"}) =
           Count(pc, Counted \ {"full"}) + Change(Counted \ {"full"}, pc[r], to)
  <2>1. Moved(pc, pc', r, to)
    BY <1>1 DEF Moved, DoorTypes
  <2> QED BY <2>1, CountMoves
<1>4. /\ Count(pc, Holding) \in Nat /\ Count(pc, Counted) \in Nat
      /\ Count(pc, Counted \ {"full"}) \in Nat
      /\ Count(pc, Counted \ {"full"}) <= Count(pc, Counted)
  BY CountType, CountMonotone
<1>5. Change(Counted \ {"full"}, pc[r], to) <= 1
  BY DEF Change
<1>6. Books'
  <2>1. /\ free' + Count(pc', Holding) = Concurrency
        /\ waiting' = Count(pc', Counted)
        /\ Count(pc', Counted \ {"full"}) <= QueueDepth
    <3>1. Change(Holding, pc[r], to) \in Int /\ Change(Counted, pc[r], to) \in Int
          /\ Change(Counted \ {"full"}, pc[r], to) \in Int
      BY DEF Change
    <3>2. /\ free + Count(pc, Holding) = Concurrency
          /\ waiting = Count(pc, Counted)
          /\ Count(pc, Counted \ {"full"}) <= QueueDepth
      BY AtIsCount DEF Books
    <3> QED BY <1>3, <1>4, <1>5, <3>1, <3>2, AdmissionAssumption DEF DoorTypes
  <2> QED BY <2>1, AtIsCount DEF Books
<1> QED BY <1>1, <1>2, <1>6

\* A request whose first poll finds no permit joins the queue.
LEMMA JoinKeepsBooks ==
  ASSUME DoorInv, NEW r \in Request, pc[r] = "enter",
         pc' = [pc EXCEPT ![r] = "queued"], queue' = Append(queue, r), free = 0,
         UNCHANGED <<free, waiting>>
  PROVE  DoorInv'
<1> USE DEF DoorInv
<1>1. r \notin ToSet(queue)
  BY DEF QueueExact, At
<1>2. "queued" \in Stages /\ "enter" \in Counted \ {"full"} /\ "enter" \notin Holding
  BY DEF Stages, Counted, Holding
<1>3. DoorTypes'
  BY <1>2, AppendProperties DEF DoorTypes
<1>4. QueueExact'
  <2>1. At({"queued"})' = At({"queued"}) \cup {r}
    BY DEF At, DoorTypes
  <2> QED BY <1>1, <2>1, JoinsQueue DEF QueueExact, DoorTypes
<1>5. /\ Count(pc', Holding) = Count(pc, Holding)
      /\ Count(pc', Counted) = Count(pc, Counted)
      /\ Count(pc', Counted \ {"full"}) = Count(pc, Counted \ {"full"})
  <2>1. Moved(pc, pc', r, "queued")
    BY <1>2, <1>3 DEF Moved, DoorTypes
  <2> QED BY <1>2, <2>1, StageSets, CountKept
<1>6. Books'
  BY <1>5, AtIsCount DEF Books
<1> QED BY <1>3, <1>4, <1>6

\* A waiting request leaves, timed out or dropped by its client.
LEMMA LeaveKeepsBooks ==
  ASSUME DoorInv, NEW r \in Request, NEW to \in Ended, pc[r] = "queued",
         pc' = [pc EXCEPT ![r] = to], LeaveQueue(r),
         waiting' = waiting - 1, UNCHANGED free
  PROVE  DoorInv'
<1> USE DEF DoorInv
<1>1. PICK i \in DOMAIN queue : queue[i] = r /\ queue' = RemoveAt(queue, i)
  BY DEF LeaveQueue
<1>2. /\ queue' \in Seq(Request) /\ ToSet(queue') = ToSet(queue) \ {r}
      /\ IsInjective(queue')
  BY <1>1, PlaceCloses DEF DoorTypes, QueueExact
<1>3. to \in Stages /\ to # "queued" /\ to \notin Counted /\ to \notin Holding
  BY StageSets
<1>4. DoorTypes'
  BY <1>2, <1>3 DEF DoorTypes
<1>5. QueueExact'
  <2>1. At({"queued"})' = At({"queued"}) \ {r}
    BY <1>3 DEF At, DoorTypes
  <2> QED BY <1>2, <2>1 DEF QueueExact
<1>6. /\ Count(pc', Holding) = Count(pc, Holding)
      /\ Count(pc', Counted) = Count(pc, Counted) - 1
      /\ Count(pc', Counted \ {"full"}) = Count(pc, Counted \ {"full"}) - 1
      /\ Count(pc, Counted \ {"full"}) \in Nat
  <2>1. Moved(pc, pc', r, to)
    BY <1>3, <1>4 DEF Moved, DoorTypes
  <2> QED BY <1>3, <2>1, StageSets, CountKept, CountDrops, CountType
<1>7. queue' # <<>> => queue # <<>>
  BY <1>1, <1>2, LenProperties, EmptySeq DEF DoorTypes
<1>8. Books'
  <2>1. /\ free + Count(pc, Holding) = Concurrency
        /\ waiting = Count(pc, Counted)
        /\ Count(pc, Counted \ {"full"}) <= QueueDepth
    BY AtIsCount DEF Books
  <2>2. free' + Count(pc', Holding) = Concurrency /\ waiting' = Count(pc', Counted)
        /\ Count(pc', Counted \ {"full"}) <= QueueDepth
    BY <1>6, <2>1, AdmissionAssumption
  <2> QED BY <1>7, <2>2, AtIsCount DEF Books
<1> QED BY <1>4, <1>5, <1>8

\* A permit given back goes to the first in the queue, or is free.
LEMMA GiveBackKeepsBooks ==
  ASSUME DoorInv, NEW r \in Request, NEW to \in Ended, pc[r] \in Holding,
         GiveBack([pc EXCEPT ![r] = to]),
         waiting' = waiting + Change(Counted, pc[r], to)
  PROVE  DoorInv'
<1> USE DEF DoorInv
<1> DEFINE p == [pc EXCEPT ![r] = to]
<1>1. to \in Stages /\ to # "queued" /\ to \notin Counted /\ to \notin Holding
  BY StageSets
<1>2. p \in [Request -> Stages]
  BY <1>1 DEF DoorTypes
<1>3. /\ Count(p, Holding) = Count(pc, Holding) - 1
      /\ Count(p, Counted) = Count(pc, Counted) + Change(Counted, pc[r], to)
      /\ Count(p, Counted \ {"full"}) <= Count(pc, Counted \ {"full"})
      /\ Count(pc, Holding) \in Nat /\ Count(pc, Counted) \in Nat
      /\ Count(p, Counted) \in Nat
      /\ Count(pc, Counted \ {"full"}) \in Nat /\ Count(p, Counted \ {"full"}) \in Nat
  <2>1. \A S : Count(p, S) = Count(pc, S) + Change(S, pc[r], to)
    <3>1. Moved(pc, p, r, to)
      BY <1>1, <1>2 DEF Moved, DoorTypes
    <3> QED BY <3>1, CountMoves
  <2>2. \A S : Count(p, S) \in Nat /\ Count(pc, S) \in Nat
    BY CountType
  <2>3. /\ Change(Holding, pc[r], to) = -1
        /\ Change(Counted \ {"full"}, pc[r], to) \in {-1, 0}
    BY <1>1 DEF Change
  <2> HIDE DEF p
  <2> QED BY <2>1, <2>2, <2>3
<1>4. {q \in Request : p[q] \in {"queued"}} = At({"queued"})
  BY <1>1, StageSets DEF At, DoorTypes
<1> HIDE DEF p
<1>5. CASE queue = <<>>
  <2>1. pc' = p /\ free' = free + 1 /\ queue' = queue
    BY <1>5 DEF GiveBack, p
  <2>2. DoorTypes'
    BY <1>2, <2>1 DEF DoorTypes, Change
  <2>3. QueueExact'
    BY <1>4, <2>1 DEF QueueExact, At
  <2>4. Books'
    BY <1>3, <1>5, <2>1, AtIsCount, AdmissionAssumption DEF Books, DoorTypes
  <2> QED BY <2>2, <2>3, <2>4
<1>6. CASE queue # <<>>
  <2> DEFINE h == Head(queue)
  <2>1. pc' = [p EXCEPT ![h] = "granted"] /\ free' = free /\ queue' = Tail(queue)
    BY <1>6 DEF GiveBack, p
  <2>2. /\ h \in ToSet(queue) /\ queue' \in Seq(Request)
        /\ ToSet(queue') = ToSet(queue) \ {h} /\ IsInjective(queue')
    BY <1>6, <2>1, HeadLeaves DEF DoorTypes, QueueExact
  <2>3. h \in Request /\ p[h] = "queued"
    BY <1>4, <2>2 DEF QueueExact
  <2> HIDE DEF h
  <2>4. DoorTypes'
    BY <1>2, <2>1, <2>2, <2>3, StageSets DEF DoorTypes, Change
  <2>5. QueueExact'
    <3>1. At({"queued"})' = At({"queued"}) \ {h}
      BY <1>2, <1>4, <2>1, <2>3 DEF At
    <3> QED BY <2>2, <3>1 DEF QueueExact
  <2>6. /\ Count(pc', Holding) = Count(p, Holding) + 1
        /\ Count(pc', Counted) = Count(p, Counted)
        /\ Count(pc', Counted \ {"full"}) = Count(p, Counted \ {"full"})
    <3>1. Moved(p, pc', h, "granted")
      BY <1>2, <2>1, <2>3, <2>4 DEF Moved, DoorTypes
    <3>2. \A S : Count(pc', S) = Count(p, S) + Change(S, "queued", "granted")
      BY <2>3, <3>1, CountMoves
    <3>3. \A S : Count(p, S) \in Nat
      BY CountType
    <3>4. /\ Change(Holding, "queued", "granted") = 1
          /\ Change(Counted, "queued", "granted") = 0
          /\ Change(Counted \ {"full"}, "queued", "granted") = 0
      BY StageSets DEF Change
    <3> QED BY <3>2, <3>3, <3>4
  <2>7. Books'
    <3>1. /\ free + Count(pc, Holding) = Concurrency
          /\ waiting = Count(pc, Counted)
          /\ Count(pc, Counted \ {"full"}) <= QueueDepth
          /\ free = 0
      BY <1>6, AtIsCount DEF Books
    <3>2. /\ free' + Count(pc', Holding) = Concurrency
          /\ waiting' = Count(pc', Counted)
          /\ Count(pc', Counted \ {"full"}) <= QueueDepth
          /\ free' = 0
      BY <1>3, <2>1, <2>6, <3>1, AdmissionAssumption
    <3> QED BY <3>2, AtIsCount DEF Books
  <2> QED BY <2>4, <2>5, <2>7
<1> QED BY <1>5, <1>6

-----------------------------------------------------------------------------
\* The actions that leave the door alone.
LEMMA OtherStepsKeepBooks ==
  ASSUME DoorInv, UNCHANGED <<pc, doorVars>>
  PROVE  DoorInv'
BY DEF DoorInv, DoorTypes, QueueExact, Books, At, doorVars

\* A response with an error gives the permit back.
LEMMA FailKeepsBooks ==
  ASSUME DoorInv, NEW r \in Request, pc[r] \in Holding \ {"granted"}, Fail(r)
  PROVE  DoorInv'
<1>1. "failed" \in Ended /\ "failed" \notin Counted /\ pc[r] \notin Counted
  BY DEF Ended, Counted, Holding
<1>2. waiting' = waiting + Change(Counted, pc[r], "failed")
  BY <1>1 DEF Fail, Change, DoorInv, DoorTypes
<1> QED BY <1>1, <1>2, GiveBackKeepsBooks DEF Fail

\* An empty room.
LEMMA NobodyCounts == Cardinality({}) = 0
BY FS_EmptySet

\* Whatever a request, the client, the clock or a crash does.
LEMMA NextDoorInv == DoorInv /\ [Next]_vars => DoorInv'
<1> SUFFICES ASSUME DoorInv, [Next]_vars PROVE DoorInv'
  OBVIOUS
<1> USE DEF doorVars, storeVars, answerVars
<1>1. ASSUME NEW r \in Request, TryAcquire(r) PROVE DoorInv'
  <2>1. CASE free > 0
    <3>1. "lookup" \in Stages \cap Holding /\ "lookup" \notin Counted
          /\ "idle" \notin Counted \cup Holding
      BY DEF Stages, Holding, Counted
    <3>2. queue = <<>> /\ free \in Int /\ waiting \in Int
      BY <2>1 DEF DoorInv, Books, DoorTypes
    <3>3. /\ free' = free - Change(Holding, pc[r], "lookup")
          /\ waiting' = waiting + Change(Counted, pc[r], "lookup")
          /\ Change(Counted \ {"full"}, pc[r], "lookup") <= 0
      BY <1>1, <2>1, <3>1, <3>2 DEF TryAcquire, Go, Change
    <3>4. /\ pc[r] = "idle" /\ pc' = [pc EXCEPT ![r] = "lookup"]
          /\ UNCHANGED queue /\ free' >= 0
      BY <1>1, <2>1, <3>2 DEF TryAcquire, Go
    <3> QED BY <3>1, <3>2, <3>3, <3>4, MoveKeepsBooks
  <2>2. CASE ~(free > 0)
    <3>1. "count" \in Stages /\ "count" \notin Counted \cup Holding
          /\ "idle" \notin Counted \cup Holding
      BY DEF Stages, Holding, Counted
    <3>2. (queue # <<>> => free = 0) /\ free \in Nat /\ waiting \in Int
      BY DEF DoorInv, Books, DoorTypes
    <3>3. /\ free' = free - Change(Holding, pc[r], "count")
          /\ waiting' = waiting + Change(Counted, pc[r], "count")
          /\ Change(Counted \ {"full"}, pc[r], "count") <= 0
      BY <1>1, <2>2, <3>1, <3>2 DEF TryAcquire, Go, Change
    <3>4. /\ pc[r] = "idle" /\ pc' = [pc EXCEPT ![r] = "count"]
          /\ UNCHANGED queue /\ free' >= 0 /\ (queue # <<>> => free' = 0)
      BY <1>1, <2>2, <3>2 DEF TryAcquire, Go
    <3> QED BY <3>1, <3>2, <3>3, <3>4, MoveKeepsBooks
  <2> QED BY <2>1, <2>2
<1>2. ASSUME NEW r \in Request, NEW from, NEW to \in Stages,
             Go(r, from, to), UNCHANGED <<free, queue>>,
             from # "queued", to # "queued", from \in Holding <=> to \in Holding,
             waiting' = waiting + Change(Counted, from, to),
             from \in Counted \ {"full"} \/ to \notin Counted \ {"full"} \/ waiting < QueueDepth
      PROVE  DoorInv'
  <2>1. pc[r] = from /\ pc' = [pc EXCEPT ![r] = to]
    BY <1>2 DEF Go
  <2>2. /\ free' = free - Change(Holding, from, to) /\ free' >= 0
        /\ Change(Counted \ {"full"}, from, to) <= 0 \/ waiting < QueueDepth
        /\ queue # <<>> => free' = 0
    BY <1>2 DEF Change, DoorInv, DoorTypes, Books
  <2> QED BY <1>2, <2>1, <2>2, MoveKeepsBooks
<1>3. ASSUME NEW r \in Request, CountIn(r) PROVE DoorInv'
  <2> DEFINE to == IF waiting >= QueueDepth THEN "full" ELSE "enter"
  <2>1. /\ Go(r, "count", to) /\ UNCHANGED <<free, queue>> /\ waiting' = waiting + 1
        /\ waiting \in Int /\ QueueDepth \in Int
        /\ to = "full" \/ waiting < QueueDepth
    BY <1>3, AdmissionAssumption DEF CountIn, DoorInv, DoorTypes
  <2>2. /\ to \in Stages /\ to \in Counted /\ to # "queued" /\ to \notin Holding
        /\ "count" \notin Counted /\ "count" \notin Holding
    BY DEF Stages, Holding, Counted
  <2>3. waiting' = waiting + Change(Counted, "count", to)
    BY <2>1, <2>2 DEF Change
  <2>4. "count" \in Counted \ {"full"} \/ to \notin Counted \ {"full"} \/ waiting < QueueDepth
    BY <2>1
  <2> HIDE DEF to
  <2> QED BY <1>2, <2>1, <2>2, <2>3, <2>4
<1>4. ASSUME NEW r \in Request, RejectFull(r) PROVE DoorInv'
  <2>1. Go(r, "full", "shed") /\ UNCHANGED <<free, queue>> /\ waiting' = waiting - 1
        /\ waiting \in Int
    BY <1>4 DEF RejectFull, DoorInv, DoorTypes
  <2>2. /\ "shed" \in Stages /\ "shed" \notin Counted \cup Holding
        /\ "full" \in Counted /\ "full" \notin Holding
    BY DEF Stages, Ended, Holding, Counted
  <2>3. waiting' = waiting + Change(Counted, "full", "shed")
    BY <2>1, <2>2 DEF Change
  <2> QED BY <1>2, <2>1, <2>2, <2>3
<1>5. ASSUME NEW r \in Request, Enter(r) PROVE DoorInv'
  <2>1. CASE free > 0
    <3>1. /\ pc[r] = "enter" /\ pc' = [pc EXCEPT ![r] = "granted"]
          /\ free' = free - 1 /\ UNCHANGED <<queue, waiting>>
      BY <1>5, <2>1 DEF Enter, Go
    <3>2. queue = <<>> /\ free \in Int /\ waiting \in Int
      BY <2>1 DEF DoorInv, Books, DoorTypes
    <3>3. /\ "granted" \in Stages /\ "granted" \in Counted \cap Holding
          /\ "enter" \in Counted \ {"full"} /\ "enter" \notin Holding
      BY DEF Stages, Holding, Counted
    <3>4. /\ free' = free - Change(Holding, pc[r], "granted")
          /\ waiting' = waiting + Change(Counted, pc[r], "granted")
          /\ Change(Counted \ {"full"}, pc[r], "granted") <= 0
          /\ free' >= 0
      BY <2>1, <3>1, <3>2, <3>3 DEF Change
    <3> QED BY <3>1, <3>2, <3>3, <3>4, MoveKeepsBooks
  <2>2. CASE ~(free > 0)
    <3>1. free = 0
      BY <2>2 DEF DoorInv, DoorTypes
    <3>2. /\ pc[r] = "enter" /\ pc' = [pc EXCEPT ![r] = "queued"]
          /\ queue' = Append(queue, r) /\ UNCHANGED <<free, waiting>>
      BY <1>5, <2>2 DEF Enter, Go
    <3> QED BY <3>1, <3>2, JoinKeepsBooks
  <2> QED BY <2>1, <2>2
<1>6. ASSUME NEW r \in Request, Admit(r) PROVE DoorInv'
  <2>1. Go(r, "granted", "lookup") /\ UNCHANGED <<free, queue>> /\ waiting' = waiting - 1
        /\ waiting \in Int
    BY <1>6 DEF Admit, DoorInv, DoorTypes
  <2>2. /\ "lookup" \in Stages /\ "lookup" \notin Counted /\ "lookup" \in Holding
        /\ "granted" \in Counted /\ "granted" \in Holding
    BY DEF Stages, Holding, Counted
  <2>3. waiting' = waiting + Change(Counted, "granted", "lookup")
    BY <2>1, <2>2 DEF Change
  <2> QED BY <1>2, <2>1, <2>2, <2>3
<1>7. ASSUME NEW r \in Request, WaitTimeout(r) PROVE DoorInv'
  <2>1. "shed" \in Ended
    BY DEF Ended
  <2> QED BY <1>7, <2>1, LeaveKeepsBooks DEF WaitTimeout, Go
<1>8. ASSUME NEW r \in Request, NEW from, NEW to,
             from \in Holding \ {"granted"}, to \in Holding \ {"granted"},
             Go(r, from, to), UNCHANGED doorVars
      PROVE  DoorInv'
  <2>1. /\ to \in Stages /\ to \notin Counted /\ to # "queued"
        /\ from \notin Counted /\ from # "queued"
    BY <1>8 DEF Stages, Holding, Counted
  <2>2. waiting' = waiting + Change(Counted, from, to)
    BY <1>8, <2>1 DEF Change, DoorInv, DoorTypes
  <2> QED BY <1>2, <1>8, <2>1, <2>2
<1>9. ASSUME NEW r \in Request,
             Lookup(r) \/ InsertSession(r) \/ Confirm(r) \/ ReserveTurn(r)
             \/ BuildContext(r) \/ CallFails(r)
      PROVE  DoorInv'
  <2>1. {"lookup", "insert", "confirm", "reserve", "context", "stream"} \subseteq Holding \ {"granted"}
    BY DEF Holding
  <2>2. \/ pc[r] \in Holding \ {"granted"} /\ Fail(r)
        \/ \E from, to \in Holding \ {"granted"} : Go(r, from, to) /\ UNCHANGED doorVars
    <3>1. CASE Lookup(r)
      BY <2>1, <3>1 DEF Lookup
    <3>2. CASE InsertSession(r)
      BY <2>1, <3>2 DEF InsertSession
    <3>3. CASE Confirm(r)
      BY <2>1, <3>3 DEF Confirm
    <3>4. CASE ReserveTurn(r)
      BY <2>1, <3>4 DEF ReserveTurn
    <3>5. CASE BuildContext(r)
      BY <2>1, <3>5 DEF BuildContext
    <3>6. CASE CallFails(r)
      BY <2>1, <3>6 DEF CallFails
    <3> QED BY <1>9, <3>1, <3>2, <3>3, <3>4, <3>5, <3>6
  <2> QED BY <1>8, <2>2, FailKeepsBooks
<1>10. ASSUME NEW r \in Request, NEW to \in Ended, pc[r] \in Holding \ {"granted"},
              GiveBack([pc EXCEPT ![r] = to]), UNCHANGED waiting
       PROVE  DoorInv'
  <2>1. to \notin Counted /\ pc[r] \notin Counted
    BY <1>10 DEF Ended, Counted, Holding
  <2>2. waiting' = waiting + Change(Counted, pc[r], to)
    BY <1>10, <2>1 DEF Change, DoorInv, DoorTypes
  <2> QED BY <1>10, <2>2, GiveBackKeepsBooks
<1>11. ASSUME NEW r \in Request,
              StreamEnds(r) \/ DisconnectStream(r) \/ DisconnectHandler(r)
       PROVE  DoorInv'
  <2>1. "stream" \in Holding \ {"granted"} /\ "done" \in Ended /\ "gone" \in Ended
    BY DEF Holding, Ended
  <2>2. pc[r] \in Holding \ {"granted"} /\ UNCHANGED waiting
        /\ \E to \in Ended : GiveBack([pc EXCEPT ![r] = to])
    BY <1>11, <2>1 DEF StreamEnds, DisconnectStream, DisconnectHandler, DropStream
  <2> QED BY <1>10, <2>2
<1>12. ASSUME NEW r \in Request, DisconnectWaiting(r) PROVE DoorInv'
  <2>1. "gone" \in Ended /\ "gone" \notin Counted
    BY DEF Ended, Counted
  <2>2. CASE pc[r] = "queued"
    BY <1>12, <2>1, <2>2, LeaveKeepsBooks DEF DisconnectWaiting
  <2>3. CASE pc[r] = "granted"
    <3>1. "granted" \in Holding /\ "granted" \in Counted
      BY DEF Holding, Counted
    <3>2. waiting' = waiting + Change(Counted, pc[r], "gone")
      BY <1>12, <2>1, <2>3, <3>1 DEF DisconnectWaiting, Change, DoorInv, DoorTypes
    <3>3. GiveBack([pc EXCEPT ![r] = "gone"])
      BY <1>12, <2>3 DEF DisconnectWaiting
    <3> QED BY <2>1, <2>3, <3>1, <3>2, <3>3, GiveBackKeepsBooks
  <2> QED BY <1>12, <2>2, <2>3 DEF DisconnectWaiting
<1>13. ASSUME NEW r \in Request, Token(r) \/ Persist(r) PROVE DoorInv'
  <2>1. UNCHANGED <<pc, doorVars>>
    BY <1>13 DEF Token, Persist, FilterCitations, StoreAnswer, Settle
  <2> QED BY <2>1, OtherStepsKeepBooks
<1>14. ASSUME NEW s \in Session, DeleteSession(s) PROVE DoorInv'
  BY <1>14, OtherStepsKeepBooks DEF DeleteSession
<1>15. CASE Crash
  <2>1. /\ pc' \in [Request -> Stages]
        /\ \A r \in Request : pc'[r] \notin Holding \cup Counted
    BY <1>15 DEF Crash, DoorInv, DoorTypes, Stages, Holding, Counted, Ended
  <2>2. free' = Concurrency /\ queue' = <<>> /\ waiting' = 0
    BY <1>15 DEF Crash
  <2>3. DoorTypes'
    BY <2>1, <2>2, EmptySeq, AdmissionAssumption DEF DoorTypes
  <2>4. At({"queued"})' = {}
    BY <2>1, StageSets DEF At
  <2>5. QueueExact'
    BY <2>2, <2>4 DEF QueueExact, ToSet, IsInjective
  <2>6. At(Holding)' = {} /\ At(Counted)' = {} /\ At(Counted \ {"full"})' = {}
    BY <2>1 DEF At
  <2>7. Books'
    <3>1. /\ Cardinality(At(Holding)') = 0 /\ Cardinality(At(Counted)') = 0
          /\ Cardinality(At(Counted \ {"full"})') = 0
      BY <2>6, NobodyCounts, Zenon
    <3> QED BY <2>2, <3>1, AdmissionAssumption DEF Books
  <2> QED BY <2>3, <2>5, <2>7 DEF DoorInv
<1>16. CASE UNCHANGED vars
  BY <1>16, OtherStepsKeepBooks DEF vars
<1> QED
  BY <1>1, <1>3, <1>4, <1>5, <1>6, <1>7, <1>9, <1>11, <1>12, <1>13, <1>14, <1>15, <1>16
  DEF Next, Handle, Disconnect

\* All permits are free and nobody waits.
LEMMA InitDoorInv == Init => DoorInv
<1> SUFFICES ASSUME Init PROVE DoorInv
  OBVIOUS
<1>1. DoorTypes
  BY EmptySeq, AdmissionAssumption DEF Init, DoorTypes, Stages
<1>2. /\ At({"queued"}) = {} /\ At(Holding) = {} /\ At(Counted) = {}
      /\ At(Counted \ {"full"}) = {}
  BY DEF Init, At, Holding, Counted
<1>3. QueueExact
  BY <1>2 DEF Init, QueueExact, ToSet, IsInjective
<1>4. Books
  <2>1. /\ Cardinality(At(Holding)) = 0 /\ Cardinality(At(Counted)) = 0
        /\ Cardinality(At(Counted \ {"full"})) = 0
    BY <1>2, NobodyCounts, Zenon
  <2> QED BY <2>1, AdmissionAssumption DEF Init, Books
<1> QED BY <1>1, <1>3, <1>4 DEF DoorInv

\* The door keeps its books, for any number of permits, places and requests,
\* however a request leaves (admission.rs, the drops in routes/chat.rs).
THEOREM AdmissionExactHolds == Spec => []AdmissionExact
<1>1. DoorInv => AdmissionExact
  BY DEF DoorInv, QueueExact, Books, AdmissionExact
<1> QED
  BY <1>1, InitDoorInv, NextDoorInv, PTL DEF Spec

-----------------------------------------------------------------------------
(* The door implements Admission under the mapping of ChatRefinement.      *)

\* Admission counts as Chat does.
LEMMA SameCardinality ==
  ASSUME NEW S
  PROVE  Door!Cardinality(S) = Cardinality(S)
BY DEF Door!Cardinality, Cardinality

\* One request moves: who is inside and who has left changes by it alone.
LEMMA AtMoves ==
  ASSUME DoorTypes, NEW r \in Request, NEW to, pc' = [pc EXCEPT ![r] = to], NEW S
  PROVE  At(S)' = IF to \in S THEN At(S) \cup {r} ELSE At(S) \ {r}
BY DEF At, DoorTypes

\* A request on its way to the door is nowhere behind it.
LEMMA BeforeTheDoor ==
  ASSUME DoorInv, NEW r \in Request, pc[r] \notin Holding \cup Ended, pc[r] # "queued"
  PROVE  Door!Outside(r)
BY DEF DoorInv, QueueExact, Door!Outside, Door!ToSet, ToSet, At

\* A line without repetitions is as long as it has members.
LEMMA LineLength ==
  ASSUME NEW q \in Seq(Request), IsInjective(q)
  PROVE  Cardinality(ToSet(q)) = Len(q)
<1> DEFINE n == Len(q)
<1>1. n \in Nat /\ DOMAIN q = 1..n
  BY LenProperties
<1>2. q \in Bijection(1..n, ToSet(q))
  <2>1. q \in [1..n -> ToSet(q)]
    <3>1. q = [i \in DOMAIN q |-> q[i]]
      BY ElementOfSeq, LenProperties
    <3> QED BY <1>1, <3>1 DEF ToSet
  <2> QED BY <1>1, <2>1 DEF Bijection, Injection, Surjection, IsInjective, ToSet
<1>3. ExistsBijection(1..n, ToSet(q))
  BY <1>2 DEF ExistsBijection
<1> QED BY <1>1, <1>3, FS_CountingElements

\* Whoever is about to join has a place: it is counted already, and not in line.
LEMMA PlaceInLine ==
  ASSUME DoorInv, NEW r \in Request, pc[r] = "enter"
  PROVE  Len(queue) < QueueDepth
<1> DEFINE crowd == At(Counted \ {"full"})
<1>1. Cardinality(At({"queued"})) = Len(queue) /\ Len(queue) \in Nat
  BY LineLength, LenProperties DEF DoorInv, DoorTypes, QueueExact
<1>2. IsFiniteSet(crowd)
  BY CountedFinite DEF At
<1>3. At({"queued"}) \subseteq crowd \ {r} /\ r \in crowd
  BY DEF At, Counted
<1>4. Cardinality(crowd) \in Nat /\ Cardinality(crowd) <= QueueDepth
  BY <1>2, FS_CardinalityType DEF DoorInv, Books
<1> HIDE DEF crowd
<1>5. IsFiniteSet(crowd \ {r}) /\ Cardinality(crowd \ {r}) = Cardinality(crowd) - 1
  BY <1>2, <1>3, FS_RemoveElement
<1>6. Cardinality(At({"queued"})) <= Cardinality(crowd \ {r})
  BY <1>3, <1>5, FS_Subset
<1> QED BY <1>1, <1>4, <1>5, <1>6, AdmissionAssumption

\* The permits that are not free are with those inside.
LEMMA RoomInside ==
  ASSUME DoorInv
  PROVE  /\ Cardinality(At(Holding)) \in Nat
         /\ free > 0 => queue = <<>> /\ Cardinality(At(Holding)) < Concurrency
         /\ ~(free > 0) => Cardinality(At(Holding)) = Concurrency
BY AtIsCount, CountType, AdmissionAssumption DEF DoorInv, Books, DoorTypes

\* A request that goes on without entering or leaving changes nothing outside.
LEMMA InnerMove ==
  ASSUME DoorInv, NEW r \in Request, NEW to, pc' = [pc EXCEPT ![r] = to], UNCHANGED queue,
         to \in Holding <=> pc[r] \in Holding, to \in Ended <=> pc[r] \in Ended
  PROVE  UNCHANGED Door!vars
<1>1. \A S : (to \in S <=> pc[r] \in S) => At(S)' = At(S)
  <2> TAKE S
  <2> HAVE to \in S <=> pc[r] \in S
  <2>1. At(S)' = IF to \in S THEN At(S) \cup {r} ELSE At(S) \ {r}
    BY AtMoves DEF DoorInv
  <2>2. r \in At(S) <=> to \in S
    BY DEF At
  <2> QED BY <2>1, <2>2
<1> QED BY <1>1 DEF Door!vars

\* A request enters, a permit being free.
LEMMA StartsInside ==
  ASSUME DoorInv, NEW r \in Request, NEW to \in Holding, pc[r] \in {"idle", "enter"},
         pc' = [pc EXCEPT ![r] = to], UNCHANGED queue, free > 0
  PROVE  Door!Start(r)
<1>1. pc[r] \notin Holding \cup Ended /\ pc[r] # "queued" /\ to \notin Ended
  BY DEF Holding, Ended
<1>2. At(Holding)' = At(Holding) \cup {r} /\ At(Ended)' = At(Ended) \ {r} /\ r \notin At(Ended)
  BY <1>1, AtMoves DEF DoorInv, At
<1>3. Door!Outside(r)
  BY <1>1, BeforeTheDoor
<1>4. At(Ended)' = At(Ended)
  BY <1>2
<1>5. queue = <<>> /\ Cardinality(At(Holding)) < Concurrency
  BY RoomInside
<1> QED BY <1>2, <1>3, <1>4, <1>5, SameCardinality DEF Door!Start

\* A request leaves the line, timed out or dropped.
LEMMA LeavesLine ==
  ASSUME DoorInv, NEW r \in Request, NEW to \in Ended, pc[r] = "queued",
         pc' = [pc EXCEPT ![r] = to], LeaveQueue(r)
  PROVE  Door!Leave(r)
<1>1. to \notin Holding /\ r \notin At(Holding)
  BY StageSets DEF At
<1>2. At(Holding)' = At(Holding) \ {r} /\ At(Ended)' = At(Ended) \cup {r}
  BY <1>1, AtMoves DEF DoorInv
<1>3. At(Holding)' = At(Holding)
  BY <1>1, <1>2
<1> QED BY <1>2, <1>3 DEF Door!Leave, LeaveQueue, Door!RemoveAt, RemoveAt

\* A permit is given back: the first in the line comes in by the same step.
LEMMA GiveBackFinishes ==
  ASSUME DoorInv, NEW r \in Request, NEW to \in Ended, pc[r] \in Holding,
         GiveBack([pc EXCEPT ![r] = to])
  PROVE  Door!Finish(r)
<1> DEFINE p == [pc EXCEPT ![r] = to]
<1>1. to \notin Holding /\ r \in At(Holding) /\ p \in [Request -> Stages]
  BY StageSets DEF At, DoorInv, DoorTypes
<1>2. CASE queue = <<>>
  <2>1. pc' = [pc EXCEPT ![r] = to] /\ queue' = queue
    BY <1>2 DEF GiveBack
  <2>2. At(Holding)' = At(Holding) \ {r} /\ At(Ended)' = At(Ended) \cup {r}
    BY <1>1, <2>1, AtMoves DEF DoorInv
  <2> QED BY <1>1, <1>2, <2>1, <2>2 DEF Door!Finish
<1>3. CASE queue # <<>>
  <2> DEFINE h == Head(queue)
  <2>1. pc' = [p EXCEPT ![h] = "granted"] /\ queue' = Tail(queue)
    BY <1>3 DEF GiveBack
  <2>2. h \in At({"queued"})
    BY <1>3, HeadLeaves DEF DoorInv, DoorTypes, QueueExact
  <2>3. h \in Request /\ pc[h] = "queued" /\ h # r
    BY <2>2, StageSets DEF At
  <2> HIDE DEF h
  <2>4. \A q \in Request : pc'[q] = IF q = h THEN "granted" ELSE IF q = r THEN to ELSE pc[q]
    BY <1>1, <2>1, <2>3 DEF DoorInv, DoorTypes
  <2>5. "granted" \in Holding /\ "granted" \notin Ended /\ pc[h] \notin Ended
    BY <2>3 DEF Holding, Ended
  <2>6. At(Holding)' = (At(Holding) \ {r}) \cup {h}
    BY <1>1, <2>3, <2>4, <2>5 DEF At
  <2>7. At(Ended)' = At(Ended) \cup {r}
    BY <2>3, <2>4, <2>5 DEF At
  <2> QED BY <1>1, <1>3, <2>1, <2>6, <2>7 DEF Door!Finish, h
<1> QED BY <1>2, <1>3

\* Every step of chat is a step of the door's promise or leaves it alone.
LEMMA DoorStepRefines ==
  ASSUME DoorInv, [Next]_vars
  PROVE  Door!Next \/ UNCHANGED Door!vars
<1> DEFINE Refines == Door!Next \/ UNCHANGED Door!vars
<1>1. ASSUME NEW r \in Request,
             Door!Start(r) \/ Door!Join(r) \/ Door!Leave(r) \/ Door!Refuse(r) \/ Door!Finish(r)
      PROVE  Refines
  BY <1>1 DEF Door!Next
<1>2. ASSUME NEW r \in Request, TryAcquire(r) PROVE Refines
  <2>1. CASE free > 0
    <3>1. pc[r] = "idle" /\ pc' = [pc EXCEPT ![r] = "lookup"] /\ UNCHANGED queue
          /\ "lookup" \in Holding
      BY <1>2, <2>1 DEF TryAcquire, Go, Holding
    <3> QED BY <1>1, <2>1, <3>1, StartsInside
  <2>2. CASE ~(free > 0)
    <3>1. pc[r] = "idle" /\ pc' = [pc EXCEPT ![r] = "count"] /\ UNCHANGED queue
      BY <1>2, <2>2 DEF TryAcquire, Go
    <3>2. {"idle", "count"} \cap (Holding \cup Ended) = {}
      BY DEF Holding, Ended
    <3> QED BY <3>1, <3>2, InnerMove
  <2> QED BY <2>1, <2>2
<1>3. ASSUME NEW r \in Request, NEW from, NEW to, Go(r, from, to), UNCHANGED queue,
             \/ {from, to} \subseteq Holding
             \/ {from, to} \cap (Holding \cup Ended) = {}
      PROVE  UNCHANGED Door!vars
  <2>1. pc[r] = from /\ pc' = [pc EXCEPT ![r] = to]
    BY <1>3 DEF Go
  <2>2. Holding \cap Ended = {}
    BY StageSets
  <2> QED BY <1>3, <2>1, <2>2, InnerMove
<1>4. ASSUME NEW r \in Request, CountIn(r) PROVE Refines
  <2>1. {"count", "full", "enter"} \cap (Holding \cup Ended) = {}
    BY DEF Holding, Ended
  <2>2. UNCHANGED queue /\ (Go(r, "count", "full") \/ Go(r, "count", "enter"))
    BY <1>4 DEF CountIn
  <2> QED BY <1>3, <2>1, <2>2
<1>5. ASSUME NEW r \in Request, RejectFull(r) PROVE Refines
  <2>1. /\ pc[r] = "full" /\ pc' = [pc EXCEPT ![r] = "shed"] /\ UNCHANGED queue
        /\ "full" \notin Holding \cup Ended /\ "shed" \in Ended /\ "shed" \notin Holding
    BY <1>5 DEF RejectFull, Go, Holding, Ended
  <2>2. At(Holding)' = At(Holding) \ {r} /\ At(Ended)' = At(Ended) \cup {r}
    BY <2>1, AtMoves DEF DoorInv
  <2>3. r \notin At(Holding)
    BY <2>1 DEF At
  <2>4. Door!Refuse(r)
    BY <2>1, <2>2, <2>3, BeforeTheDoor DEF Door!Refuse
  <2> QED BY <1>1, <2>4
<1>6. ASSUME NEW r \in Request, Enter(r) PROVE Refines
  <2>1. pc[r] = "enter" /\ "granted" \in Holding
    BY <1>6 DEF Enter, Go, Holding
  <2>2. CASE free > 0
    <3>1. pc' = [pc EXCEPT ![r] = "granted"] /\ UNCHANGED queue
      BY <1>6, <2>2 DEF Enter, Go
    <3> QED BY <1>1, <2>1, <2>2, <3>1, StartsInside
  <2>3. CASE ~(free > 0)
    <3>1. pc' = [pc EXCEPT ![r] = "queued"] /\ queue' = Append(queue, r)
      BY <1>6, <2>3 DEF Enter, Go
    <3>2. {"enter", "queued"} \cap (Holding \cup Ended) = {}
      BY DEF Holding, Ended
    <3>3. At(Holding)' = At(Holding) \ {r} /\ At(Ended)' = At(Ended) \ {r}
      BY <3>1, <3>2, AtMoves DEF DoorInv
    <3>4. r \notin At(Holding) /\ r \notin At(Ended)
      BY <2>1, <3>2 DEF At
    <3>5. Door!Outside(r)
      BY <2>1, <3>2, BeforeTheDoor
    <3>6. Door!Join(r)
      <4>1. Cardinality(At(Holding)) = Concurrency /\ Len(queue) < QueueDepth
        BY <2>1, <2>3, PlaceInLine, RoomInside
      <4>2. At(Holding)' = At(Holding) /\ At(Ended)' = At(Ended)
        BY <3>3, <3>4
      <4> QED BY <3>1, <3>5, <4>1, <4>2, SameCardinality DEF Door!Join
    <3> QED BY <1>1, <3>6
  <2> QED BY <2>2, <2>3
<1>7. ASSUME NEW r \in Request, Admit(r) PROVE Refines
  <2>1. {"granted", "lookup"} \subseteq Holding
    BY DEF Holding
  <2> QED BY <1>3, <1>7, <2>1 DEF Admit
<1>8. ASSUME NEW r \in Request, WaitTimeout(r) PROVE Refines
  <2>1. "shed" \in Ended
    BY DEF Ended
  <2> QED BY <1>1, <1>8, <2>1, LeavesLine DEF WaitTimeout, Go
<1>9. ASSUME NEW r \in Request,
             Lookup(r) \/ InsertSession(r) \/ Confirm(r) \/ ReserveTurn(r)
             \/ BuildContext(r) \/ CallFails(r)
      PROVE  Refines
  <2>1. /\ {"lookup", "insert", "confirm", "reserve", "context", "stream"} \subseteq Holding
        /\ "failed" \in Ended
    BY DEF Holding, Ended
  <2>2. \/ pc[r] \in Holding /\ Fail(r)
        \/ \E from, to \in Holding : Go(r, from, to) /\ UNCHANGED doorVars
    <3>1. CASE Lookup(r)
      BY <2>1, <3>1 DEF Lookup
    <3>2. CASE InsertSession(r)
      BY <2>1, <3>2 DEF InsertSession
    <3>3. CASE Confirm(r)
      BY <2>1, <3>3 DEF Confirm
    <3>4. CASE ReserveTurn(r)
      BY <2>1, <3>4 DEF ReserveTurn
    <3>5. CASE BuildContext(r)
      BY <2>1, <3>5 DEF BuildContext
    <3>6. CASE CallFails(r)
      BY <2>1, <3>6 DEF CallFails
    <3> QED BY <1>9, <3>1, <3>2, <3>3, <3>4, <3>5, <3>6
  <2>3. CASE pc[r] \in Holding /\ Fail(r)
    BY <1>1, <2>1, <2>3, GiveBackFinishes DEF Fail
  <2>4. ASSUME NEW from \in Holding, NEW to \in Holding, Go(r, from, to), UNCHANGED doorVars
        PROVE  Refines
    BY <1>3, <2>4 DEF doorVars
  <2> HIDE DEF Refines
  <2> QED BY <2>2, <2>3, <2>4
<1>10. ASSUME NEW r \in Request, StreamEnds(r) \/ Disconnect(r) PROVE Refines
  <2>1. "stream" \in Holding /\ "granted" \in Holding /\ "done" \in Ended /\ "gone" \in Ended
    BY DEF Holding, Ended
  <2>2. CASE DisconnectWaiting(r) /\ pc[r] = "queued"
    BY <1>1, <2>1, <2>2, LeavesLine DEF DisconnectWaiting
  <2>3. CASE DisconnectWaiting(r) /\ pc[r] # "queued"
    <3>1. pc[r] \in Holding /\ GiveBack([pc EXCEPT ![r] = "gone"])
      BY <2>1, <2>3 DEF DisconnectWaiting
    <3> QED BY <1>1, <2>1, <3>1, GiveBackFinishes
  <2>4. CASE StreamEnds(r) \/ DisconnectStream(r) \/ DisconnectHandler(r)
    <3>1. pc[r] \in Holding /\ \E to \in Ended : GiveBack([pc EXCEPT ![r] = to])
      BY <2>1, <2>4 DEF StreamEnds, DisconnectStream, DisconnectHandler, DropStream
    <3> QED BY <1>1, <3>1, GiveBackFinishes
  <2> QED BY <1>10, <2>2, <2>3, <2>4 DEF Disconnect
<1>11. ASSUME UNCHANGED <<pc, doorVars>> PROVE UNCHANGED Door!vars
  BY <1>11 DEF Door!vars, At, doorVars
<1>12. ASSUME NEW r \in Request, Token(r) \/ Persist(r) PROVE UNCHANGED Door!vars
  BY <1>11, <1>12 DEF Token, Persist, FilterCitations, StoreAnswer, Settle
<1>13. ASSUME NEW s \in Session, DeleteSession(s) PROVE UNCHANGED Door!vars
  BY <1>11, <1>13 DEF DeleteSession
<1>14. ASSUME Crash PROVE Refines
  <2>1. /\ queue' = <<>>
        /\ \A r \in Request :
             pc'[r] = IF pc[r] \in {"idle"} \cup Ended THEN pc[r] ELSE "gone"
    BY <1>14 DEF Crash
  <2>2. "gone" \in Ended /\ "gone" \notin Holding /\ "idle" \notin Holding \cup Ended
        /\ Holding \cap Ended = {}
    BY DEF Holding, Ended
  <2>3. At(Holding)' = {}
    BY <2>1, <2>2 DEF At
  <2>4. /\ At(Ended)' \in SUBSET Request
        /\ At(Ended) \cup At(Holding) \cup At({"queued"}) \subseteq At(Ended)'
    BY <2>1, <2>2, StageSets DEF At
  <2>5. At(Ended)' = At(Ended) \cup At(Holding) \cup ToSet(queue) \cup At(Ended)'
    BY <2>4 DEF DoorInv, QueueExact
  <2>6. Door!Restart
    BY <2>1, <2>3, <2>4, <2>5 DEF Door!Restart, Door!ToSet, ToSet
  <2> QED BY <2>6 DEF Door!Next
<1>15. ASSUME UNCHANGED vars PROVE UNCHANGED Door!vars
  BY <1>11, <1>15 DEF vars
<1> HIDE DEF Refines
<1>16. Refines
  <2>1. ASSUME UNCHANGED Door!vars PROVE Refines
    BY <2>1 DEF Refines
  <2> QED
    BY <1>2, <1>4, <1>5, <1>6, <1>7, <1>8, <1>9, <1>10, <1>12, <1>13, <1>14, <1>15, <2>1
    DEF Next, Handle
<1> QED BY <1>16 DEF Refines

\* The door of chat (admission.rs, the permit in routes/chat.rs) keeps its promise for
\* any number of requests, permits and places, however they interleave, fail or leave.
THEOREM ChatImplementsAdmission == Spec => ImplementsAdmission
<1>1. Init => Door!Init
  <2> SUFFICES ASSUME Init PROVE Door!Init
    OBVIOUS
  <2>1. At(Holding) = {} /\ At(Ended) = {}
    BY DEF Init, At, Holding, Ended
  <2> QED BY <2>1 DEF Init, Door!Init
<1> QED
  BY <1>1, InitDoorInv, NextDoorInv, DoorStepRefines, PTL
  DEF Spec, ImplementsAdmission, Door!Spec

-----------------------------------------------------------------------------
(* The conversation.                                                       *)

\* A request has no turn before its transaction, and one from then on.
Early == {"idle", "count", "full", "enter", "queued", "granted",
          "lookup", "insert", "confirm", "reserve"}
Late == {"context", "stream"}

TurnInv ==
  \A r \in Request :
    /\ pc[r] \in Early => turn[r] = NoTurn
    /\ pc[r] \in Late \/ r \in text \/ task[r] # "none" => turn[r] # NoTurn

\* Rows are numbered in the order they were inserted, so a session that was
\* created again has a row no earlier turn names.
RowInv ==
  /\ \A s \in Session : session[s] # NoRow => session[s].row \in 1..rows
  /\ \A r \in Request : turn[r] # NoTurn => turn[r].row \in 1..rows /\ turn[r].at > 0

Question(r) ==
  [session |-> chat[r], at |-> turn[r].at - 1, role |-> "user", of |-> r]

MessageInv ==
  /\ \A m \in message : m.session = chat[m.of]
  /\ \A m \in message : m.role = "assistant" =>
       turn[m.of] # NoTurn /\ m.at = turn[m.of].at
  /\ \A r \in Request : Current(r) => Question(r) \in message
  /\ \A m, n \in message : m.session = n.session /\ m.at = n.at => m = n

\* There is always a position behind all messages.
Bounded == \E b \in Nat : \A m \in message : m.at < b

StoreTypes ==
  /\ session \in [Session -> [owner : Caller \cup {"none"}, next : Nat, row : Nat]]
  /\ rows \in 0..MaxRows
  /\ message \in SUBSET Message
  /\ turn \in [Request -> [at : Nat, row : Nat]]
  /\ text \in SUBSET Request
  /\ task \in [Request -> Tasks]
  /\ crashes \in 0..MaxCrashes

ConversationInv == StoreTypes /\ TurnInv /\ RowInv /\ MessageInv /\ Bounded

\* A set of naturals that is not empty has a least element.
LEMMA LeastNatural ==
  ASSUME NEW T \in SUBSET Nat, T # {}
  PROVE  \E n \in T : \A m \in T : n <= m
<1> DEFINE R == {ss \in Nat \X Nat : ss[1] < ss[2]}
<1>1. IsWellFoundedOn(R, Nat)
  BY NatLessThanWellFounded, Zenon DEF OpToRel
<1> HIDE DEF R
<1>2. PICK n \in T : \A m \in T : ~(<<m, n>> \in R)
  BY <1>1, WFMin
<1>3. ASSUME NEW m \in T PROVE n <= m
  <2>1. m \in Nat /\ n \in Nat
    OBVIOUS
  <2>2. ~(m < n)
    <3> SUFFICES ASSUME m < n PROVE <<m, n>> \in R
      BY <1>2, Zenon
    <3> DEFINE mn == <<m, n>>
    <3>1. mn \in Nat \X Nat /\ mn[1] = m /\ mn[2] = n
      BY <2>1
    <3> HIDE DEF mn
    <3>2. mn \in R
      BY <3>1 DEF R
    <3> QED BY <3>2 DEF mn
  <2> QED BY <2>1, <2>2
<1> QED BY <1>3

\* The position a question gets lies behind everything the session holds.
LEMMA PositionIsFresh ==
  ASSUME StoreTypes, Bounded, NEW s \in Session
  PROVE  NextPosition(s) \in Nat /\ \A p \in Taken(s) : p < NextPosition(s)
<1> DEFINE next == session[s].next
           Free(n) == n >= next /\ \A p \in Taken(s) : p < n
           T == {n \in Nat : Free(n)}
<1>1. next \in Nat /\ Taken(s) \subseteq Nat
  BY DEF StoreTypes, Taken, Message
<1>2. PICK b \in Nat : \A p \in Taken(s) : p < b
  BY DEF Bounded, Taken
<1>3. T # {}
  <2>1. CASE b >= next
    BY <1>2, <2>1
  <2>2. CASE b < next
    <3>1. next \in T
      BY <1>1, <1>2, <2>2
    <3> QED BY <3>1
  <2> QED BY <1>1, <1>2, <2>1, <2>2
<1>4. PICK n \in T : \A m \in T : n <= m
  <2> HIDE DEF T
  <2>1. T \in SUBSET Nat
    BY DEF T
  <2> QED BY <1>3, <2>1, LeastNatural
<1>5. n \in {next} \cup {p + 1 : p \in Taken(s)}
  <2> SUFFICES ASSUME n # next PROVE \E p \in Taken(s) : n = p + 1
    OBVIOUS
  <2>1. n \in Nat /\ n > next /\ n - 1 \in Nat /\ n - 1 >= next /\ n - 1 \notin T
    BY <1>1, <1>4
  <2>2. PICK p \in Taken(s) : ~(p < n - 1)
    BY <2>1
  <2>3. p \in Nat /\ p < n
    BY <1>1, <1>4
  <2> QED BY <2>1, <2>2, <2>3
<1>6. \E m \in {next} \cup {p + 1 : p \in Taken(s)} : Free(m)
  BY <1>4, <1>5
<1> HIDE DEF T, next
<1>7. /\ NextPosition(s) \in {next} \cup {p + 1 : p \in Taken(s)}
      /\ Free(NextPosition(s))
  BY <1>6 DEF NextPosition, next
<1> QED
  BY <1>1, <1>7

-----------------------------------------------------------------------------
\* Where a handler can be before and after a step: only its transaction brings
\* a request from the stages without a turn to those with one.
LEMMA StageOrder ==
  ASSUME DoorInv, [Next]_vars, NEW q \in Request
  PROVE  /\ pc'[q] \in Early => pc[q] \in Early
         /\ pc'[q] \in Late => pc[q] \in Late \/ (ReserveTurn(q) /\ Row(q) # NoRow)
<1> DEFINE Back == pc'[q] \in Early => pc[q] \in Early
           Forth == pc'[q] \in Late => pc[q] \in Late
           Turned == pc'[q] \in Late => pc[q] \in Late \/ (ReserveTurn(q) /\ Row(q) # NoRow)
<1> USE DEF Early, Late
<1>1. pc \in [Request -> Stages]
  BY DEF DoorInv, DoorTypes
<1>2. ASSUME NEW r \in Request, NEW to \in Ended, GiveBack([pc EXCEPT ![r] = to])
      PROVE  Back /\ Forth
  <2>1. to \notin Early \cup Late
    BY DEF Ended
  <2>2. queue # <<>> => Head(queue) \in Request /\ pc[Head(queue)] = "queued"
    BY HeadLeaves DEF DoorInv, DoorTypes, QueueExact, At
  <2>3. CASE queue = <<>>
    BY <1>1, <1>2, <2>1, <2>3 DEF GiveBack
  <2>4. CASE queue # <<>>
    <3>1. pc' = [[pc EXCEPT ![r] = to] EXCEPT ![Head(queue)] = "granted"]
      BY <1>2, <2>4 DEF GiveBack
    <3> QED BY <1>1, <2>1, <2>2, <2>4, <3>1
  <2> QED BY <2>3, <2>4
<1>3. "failed" \in Ended /\ "gone" \in Ended /\ "done" \in Ended
  BY DEF Ended
<1>4. ASSUME NEW r \in Request, Fail(r)
      PROVE  Back /\ Forth
  BY <1>2, <1>3, <1>4 DEF Fail
<1>5. ASSUME NEW r \in Request,
             TryAcquire(r) \/ CountIn(r) \/ RejectFull(r) \/ Enter(r) \/ Admit(r)
             \/ WaitTimeout(r) \/ InsertSession(r) \/ BuildContext(r)
      PROVE  Back /\ Forth
  BY <1>1, <1>5 DEF TryAcquire, CountIn, RejectFull, Enter, Admit, WaitTimeout,
                    InsertSession, BuildContext, Go
<1>6. ASSUME NEW r \in Request, Lookup(r) \/ Confirm(r) \/ CallFails(r)
      PROVE  Back /\ Forth
  BY <1>1, <1>4, <1>6 DEF Lookup, Confirm, CallFails, Go
<1>7. ASSUME NEW r \in Request, ReserveTurn(r)
      PROVE  Back /\ Turned
  <2>1. /\ pc[r] = "reserve"
        /\ Fail(r) \/ (pc' = [pc EXCEPT ![r] = "context"] /\ Row(r) # NoRow)
    BY <1>7 DEF ReserveTurn, Go
  <2>2. CASE Fail(r)
    BY <1>4, <2>2
  <2>3. CASE pc' = [pc EXCEPT ![r] = "context"] /\ Row(r) # NoRow
    <3>1. CASE q = r
      BY <1>1, <1>7, <2>1, <2>3, <3>1
    <3>2. CASE q # r
      BY <1>1, <2>3, <3>2
    <3> QED BY <3>1, <3>2
  <2> QED BY <2>1, <2>2, <2>3
<1>8. ASSUME NEW r \in Request,
             StreamEnds(r) \/ DisconnectHandler(r) \/ DisconnectStream(r)
      PROVE  Back /\ Forth
  BY <1>2, <1>3, <1>8 DEF StreamEnds, DisconnectHandler, DisconnectStream, DropStream
<1>9. ASSUME NEW r \in Request, DisconnectWaiting(r)
      PROVE  Back /\ Forth
  <2>1. pc' = [pc EXCEPT ![r] = "gone"] \/ GiveBack([pc EXCEPT ![r] = "gone"])
    BY <1>9 DEF DisconnectWaiting
  <2> QED BY <1>1, <1>2, <1>3, <2>1
<1>10. ASSUME UNCHANGED pc
       PROVE  Back /\ Forth
  BY <1>10
<1>11. ASSUME Crash PROVE Back /\ Forth
  BY <1>11 DEF Crash, Ended
<1>12. ASSUME NEW r \in Request, Token(r) \/ Persist(r) PROVE Back /\ Forth
  BY <1>10, <1>12 DEF Token, Persist, FilterCitations, StoreAnswer, Settle
<1>13. ASSUME NEW s \in Session, DeleteSession(s) PROVE Back /\ Forth
  BY <1>10, <1>13 DEF DeleteSession
<1>14. ASSUME UNCHANGED vars PROVE Back /\ Forth
  BY <1>10, <1>14 DEF vars
<1>15. Forth => Turned
  OBVIOUS
<1> HIDE DEF Back, Forth, Turned
<1>16. ASSUME NEW r \in Request, Handle(r) \/ Disconnect(r) PROVE Back /\ Turned
  BY <1>5, <1>6, <1>7, <1>8, <1>9, <1>15, <1>16 DEF Handle, Disconnect
<1>17. ASSUME NEW r \in Request,
              TryAcquire(r) \/ WaitTimeout(r) \/ CallFails(r) \/ BuildContext(r)
              \/ Token(r) \/ Persist(r)
       PROVE  Back /\ Turned
  BY <1>5, <1>6, <1>12, <1>15, <1>17
<1>18. Back /\ Turned
  BY <1>11, <1>13, <1>14, <1>15, <1>16, <1>17 DEF Next
<1> QED
  BY <1>18 DEF Back, Turned

\* The steps that matter to the conversation; all others leave the tables, the
\* turns, the buffers and the tasks alone.
Quiet == UNCHANGED <<storeVars, answerVars, crashes>>
Inserts(r) == InsertSession(r) /\ Row(r) = NoRow
Reserves(r) == ReserveTurn(r) /\ Row(r) # NoRow
Drops(r) == \E end \in Ended : DropStream(r, end)

LEMMA ConversationSteps ==
  ASSUME [Next]_vars
  PROVE  \/ Quiet \/ Crash
         \/ \E r \in Request :
              Inserts(r) \/ Reserves(r) \/ Token(r) \/ Drops(r) \/ Persist(r)
         \/ \E s \in Session : DeleteSession(s)
<1> DEFINE Goal == \/ Quiet \/ Crash
                   \/ \E r \in Request :
                        Inserts(r) \/ Reserves(r) \/ Token(r) \/ Drops(r) \/ Persist(r)
                   \/ \E s \in Session : DeleteSession(s)
<1>1. ASSUME NEW r \in Request,
             TryAcquire(r) \/ CountIn(r) \/ RejectFull(r) \/ Enter(r) \/ Admit(r)
             \/ WaitTimeout(r) \/ BuildContext(r)
      PROVE  Quiet
  BY <1>1 DEF TryAcquire, CountIn, RejectFull, Enter, Admit, WaitTimeout, BuildContext, Quiet
<1>2. ASSUME NEW r \in Request,
             Fail(r) \/ Lookup(r) \/ Confirm(r) \/ CallFails(r)
             \/ DisconnectWaiting(r) \/ DisconnectHandler(r)
      PROVE  Quiet
  BY <1>2 DEF Fail, Lookup, Confirm, CallFails, DisconnectWaiting, DisconnectHandler, Quiet
<1>3. ASSUME NEW r \in Request, InsertSession(r) PROVE Goal
  BY <1>3 DEF InsertSession, Inserts, Quiet, storeVars
<1>4. ASSUME NEW r \in Request, ReserveTurn(r) PROVE Goal
  BY <1>2, <1>4 DEF ReserveTurn, Reserves
<1>5. ASSUME NEW r \in Request, StreamEnds(r) \/ DisconnectStream(r) PROVE Goal
  BY <1>5 DEF StreamEnds, DisconnectStream, Drops, Ended
<1>6. ASSUME UNCHANGED vars PROVE Goal
  BY <1>6 DEF vars, Quiet
<1> HIDE DEF Goal
<1>7. ASSUME NEW r \in Request, Handle(r) \/ Disconnect(r) PROVE Goal
  <2>1. Quiet => Goal
    BY DEF Goal
  <2> QED BY <1>1, <1>2, <1>3, <1>4, <1>5, <1>7, <2>1 DEF Handle, Disconnect
<1>8. ASSUME NEW r \in Request,
             TryAcquire(r) \/ WaitTimeout(r) \/ CallFails(r) \/ BuildContext(r)
             \/ Token(r) \/ Persist(r)
      PROVE  Goal
  BY <1>1, <1>2, <1>8 DEF Goal
<1>9. ASSUME Crash \/ \E s \in Session : DeleteSession(s) PROVE Goal
  BY <1>9 DEF Goal
<1> QED
  BY <1>6, <1>7, <1>8, <1>9 DEF Next, Goal

\* What a step does to the turns, the buffers and the tasks.
LEMMA TurnMoves ==
  ASSUME DoorInv, StoreTypes, Bounded, [Next]_vars, NEW q \in Request
  PROVE  /\ turn'[q] = turn[q] \/ (turn'[q] # NoTurn /\ pc'[q] = "context")
         /\ Reserves(q) => turn'[q] # NoTurn
         /\ q \in text' => q \in text \/ pc[q] = "stream"
         /\ task'[q] # "none" => task[q] # "none" \/ q \in text
<1> DEFINE Turn == turn'[q] = turn[q] \/ (turn'[q] # NoTurn /\ pc'[q] = "context")
           Rest == /\ q \in text' => q \in text \/ pc[q] = "stream"
                   /\ task'[q] # "none" => task[q] # "none" \/ q \in text
<1>1. /\ turn \in [Request -> [at : Nat, row : Nat]]
      /\ task \in [Request -> Tasks]
      /\ pc \in [Request -> Stages]
  BY DEF StoreTypes, DoorInv, DoorTypes
<1>2. ASSUME NEW r \in Request, Reserves(r)
      PROVE  Turn /\ Rest /\ (q = r => turn'[q] # NoTurn)
  <2>1. NextPosition(chat[r]) \in Nat
    BY RequestAssumption, PositionIsFresh
  <2>2. /\ turn' = [turn EXCEPT ![r] = [at |-> NextPosition(chat[r]) + 1, row |-> Row(r).row]]
        /\ pc' = [pc EXCEPT ![r] = "context"]
        /\ UNCHANGED <<text, task>>
    BY <1>2 DEF Reserves, ReserveTurn, Go
  <2>3. CASE q = r
    <3>1. turn'[q].at = NextPosition(chat[r]) + 1 /\ pc'[q] = "context"
      BY <1>1, <2>2, <2>3
    <3>2. turn'[q] # NoTurn
      <4>1. NoTurn.at = 0
        BY DEF NoTurn
      <4> QED BY <2>1, <3>1, <4>1
    <3> QED BY <2>2, <3>1, <3>2
  <2>4. CASE q # r
    BY <1>1, <2>2, <2>4
  <2> QED BY <2>3, <2>4
<1>3. ASSUME Quiet \/ \E s \in Session : DeleteSession(s) PROVE Turn /\ Rest
  BY <1>3 DEF Quiet, DeleteSession, answerVars
<1>4. ASSUME NEW r \in Request, Inserts(r) \/ Token(r) \/ Drops(r) \/ Persist(r)
      PROVE  Turn /\ Rest
  <2>1. CASE Inserts(r)
    BY <2>1 DEF Inserts, InsertSession, answerVars
  <2>2. CASE Token(r)
    BY <2>2 DEF Token
  <2>3. CASE Drops(r)
    BY <1>1, <2>3 DEF Drops, DropStream, PersistOnDrop
  <2>4. CASE Persist(r)
    BY <1>1, <2>4 DEF Persist, FilterCitations, StoreAnswer, Settle
  <2> QED BY <1>4, <2>1, <2>2, <2>3, <2>4
<1>5. ASSUME Crash PROVE Turn /\ Rest
  <2>1. /\ UNCHANGED <<turn, text>>
        /\ task'[q] = IF task[q] \in {"filter", "insert"} \/ (pc[q] = "stream" /\ q \in text)
                      THEN "killed" ELSE task[q]
    BY <1>5 DEF Crash
  <2> QED BY <2>1
<1> HIDE DEF Turn, Rest
<1>6. ASSUME NEW r \in Request,
             Inserts(r) \/ Reserves(r) \/ Token(r) \/ Drops(r) \/ Persist(r)
      PROVE  Turn /\ Rest
  BY <1>2, <1>4, <1>6
<1>7. Turn /\ Rest
  BY <1>3, <1>5, <1>6, ConversationSteps
<1> QED
  BY <1>2, <1>7 DEF Turn, Rest

LEMMA TurnInvKept ==
  ASSUME DoorInv, StoreTypes, Bounded, TurnInv, [Next]_vars
  PROVE  TurnInv'
<1> SUFFICES ASSUME NEW q \in Request
             PROVE  /\ pc'[q] \in Early => turn'[q] = NoTurn
                    /\ pc'[q] \in Late \/ q \in text' \/ task'[q] # "none" => turn'[q] # NoTurn
  BY DEF TurnInv
<1>1. "context" \notin Early /\ "stream" \in Late
  BY DEF Early, Late
<1>2. /\ pc[q] \in Early => turn[q] = NoTurn
      /\ pc[q] \in Late \/ q \in text \/ task[q] # "none" => turn[q] # NoTurn
  BY DEF TurnInv
<1>3. /\ pc'[q] \in Early => pc[q] \in Early
      /\ pc'[q] \in Late => pc[q] \in Late \/ Reserves(q)
  BY StageOrder DEF Reserves
<1> QED
  BY <1>1, <1>2, <1>3, TurnMoves

\* What the steps write into the tables.
LEMMA InsertWrites ==
  ASSUME StoreTypes, NEW r \in Request, Inserts(r)
  PROVE  /\ rows' = rows + 1 /\ rows < MaxRows /\ UNCHANGED <<message, turn, text, task, crashes>>
         /\ session' = [session EXCEPT ![chat[r]] =
                          [owner |-> caller[r], next |-> 1, row |-> rows + 1]]
BY DEF Inserts, InsertSession, answerVars

LEMMA ReserveWrites ==
  ASSUME StoreTypes, Bounded, NEW r \in Request, Reserves(r)
  PROVE  \E at \in Nat :
           /\ \A p \in Taken(chat[r]) : p < at
           /\ session' = [session EXCEPT ![chat[r]].next = at + 2]
           /\ message' = message \cup
                {[session |-> chat[r], at |-> at, role |-> "user", of |-> r]}
           /\ turn' = [turn EXCEPT ![r] = [at |-> at + 1, row |-> Row(r).row]]
           /\ pc[r] = "reserve" /\ UNCHANGED <<rows, text, task, crashes>>
<1>1. chat[r] \in Session
  BY RequestAssumption
<1> QED
  BY <1>1, PositionIsFresh DEF Reserves, ReserveTurn

LEMMA StoreWrites ==
  ASSUME NEW r \in Request, Persist(r)
  PROVE  /\ UNCHANGED <<session, rows, turn, text, crashes>>
         /\ task[r] \in {"filter", "insert"}
         /\ \E to \in Tasks : task' = [task EXCEPT ![r] = to]
         /\ \/ UNCHANGED message
            \/ /\ turn[r].at \notin Taken(chat[r])
               /\ message' = message \cup
                    {[session |-> chat[r], at |-> turn[r].at, role |-> "assistant", of |-> r]}
BY DEF Persist, FilterCitations, StoreAnswer, AnswerPosition, Settle, Tasks

LEMMA StoreTypesKept ==
  ASSUME StoreTypes, Bounded, [Next]_vars
  PROVE  StoreTypes'
<1> USE DEF StoreTypes
<1>0. caller \in [Request -> Caller] /\ chat \in [Request -> Session]
  BY RequestAssumption
<1>1. CASE Quiet
  BY <1>1 DEF Quiet, storeVars, answerVars
<1>2. CASE Crash
  <2>1. UNCHANGED <<storeVars, turn, text>> /\ crashes < MaxCrashes /\ crashes' = crashes + 1
    BY <1>2 DEF Crash
  <2>2. crashes' \in 0..MaxCrashes
    BY <2>1, BoundAssumption
  <2>3. task' \in [Request -> Tasks]
    BY <1>2 DEF Crash, Tasks
  <2> QED BY <2>1, <2>2, <2>3 DEF storeVars
<1>3. ASSUME NEW r \in Request, Inserts(r) PROVE StoreTypes'
  <2>1. rows' \in 0..MaxRows
    <3>1. rows' = rows + 1 /\ rows < MaxRows
      BY <1>3, InsertWrites
    <3> QED BY <3>1, BoundAssumption
  <2>2. session' \in [Session -> [owner : Caller \cup {"none"}, next : Nat, row : Nat]]
    BY <1>0, <1>3, InsertWrites
  <2> QED BY <1>3, <2>1, <2>2, InsertWrites
<1>4. ASSUME NEW r \in Request, Reserves(r) PROVE StoreTypes'
  <2>1. PICK at \in Nat :
           /\ session' = [session EXCEPT ![chat[r]].next = at + 2]
           /\ message' = message \cup
                {[session |-> chat[r], at |-> at, role |-> "user", of |-> r]}
           /\ turn' = [turn EXCEPT ![r] = [at |-> at + 1, row |-> Row(r).row]]
           /\ UNCHANGED <<rows, text, task, crashes>>
    BY <1>4, ReserveWrites
  <2>2. session' \in [Session -> [owner : Caller \cup {"none"}, next : Nat, row : Nat]]
    BY <1>0, <2>1
  <2>3. message' \in SUBSET Message
    BY <1>0, <2>1 DEF Message
  <2>4. turn' \in [Request -> [at : Nat, row : Nat]]
    BY <1>0, <2>1 DEF Row
  <2> QED BY <2>1, <2>2, <2>3, <2>4
<1>5. ASSUME NEW r \in Request, Token(r) \/ Drops(r) PROVE StoreTypes'
  BY <1>5 DEF Token, Drops, DropStream, PersistOnDrop, storeVars, Tasks
<1>6. ASSUME NEW r \in Request, Persist(r) PROVE StoreTypes'
  <2>1. message' \in SUBSET Message
    BY <1>0, <1>6, StoreWrites DEF Message
  <2> QED BY <1>6, <2>1, StoreWrites
<1>7. ASSUME NEW s \in Session, DeleteSession(s) PROVE StoreTypes'
  <2>1. session' \in [Session -> [owner : Caller \cup {"none"}, next : Nat, row : Nat]]
    BY <1>7 DEF DeleteSession, NoRow
  <2> QED BY <1>7, <2>1 DEF DeleteSession, answerVars
<1> HIDE DEF StoreTypes
<1> QED
  BY <1>1, <1>2, <1>3, <1>4, <1>5, <1>6, <1>7, ConversationSteps

LEMMA BoundedKept ==
  ASSUME StoreTypes, Bounded, [Next]_vars
  PROVE  Bounded'
<1>1. PICK b \in Nat : \A m \in message : m.at < b
  BY DEF Bounded
<1>2. message \in SUBSET Message
  BY DEF StoreTypes
<1>3. ASSUME NEW at \in Nat,
             \A m \in message' : m \in message \/ m.at = at
      PROVE  Bounded'
  <2>1. PICK c \in Nat : b <= c /\ at < c
    <3>1. b <= b + at + 1 /\ at < b + at + 1 /\ b + at + 1 \in Nat
      OBVIOUS
    <3> QED BY <3>1
  <2>2. \A m \in message' : m.at < c
    BY <1>1, <1>2, <1>3, <2>1 DEF Message
  <2> QED BY <2>2 DEF Bounded
<1>4. ASSUME NEW r \in Request, Reserves(r) PROVE Bounded'
  <2>1. PICK at \in Nat :
           message' = message \cup
             {[session |-> chat[r], at |-> at, role |-> "user", of |-> r]}
    BY <1>4, ReserveWrites
  <2> QED BY <1>3, <2>1
<1>5. ASSUME NEW r \in Request, Persist(r) PROVE Bounded'
  <2>1. turn[r].at \in Nat
    BY DEF StoreTypes
  <2>2. \A m \in message' : m \in message \/ m.at = turn[r].at
    BY <1>5, StoreWrites
  <2> QED BY <1>3, <2>1, <2>2
<1>6. ASSUME \A m \in message' : m \in message PROVE Bounded'
  BY <1>1, <1>6 DEF Bounded
<1>7. ASSUME NEW r \in Request, Inserts(r) \/ Token(r) \/ Drops(r) PROVE Bounded'
  BY <1>6, <1>7 DEF Inserts, InsertSession, Token, Drops, DropStream, storeVars
<1>8. ASSUME Quiet \/ Crash \/ \E s \in Session : DeleteSession(s) PROVE Bounded'
  BY <1>6, <1>8 DEF Quiet, Crash, DeleteSession, storeVars
<1> QED
  BY <1>4, <1>5, <1>7, <1>8, ConversationSteps

\* The turn of a request names a row that is older than any row inserted later.
LEMMA RowInvKept ==
  ASSUME StoreTypes, Bounded, RowInv, [Next]_vars
  PROVE  RowInv'
<1>1. /\ session \in [Session -> [owner : Caller \cup {"none"}, next : Nat, row : Nat]]
      /\ turn \in [Request -> [at : Nat, row : Nat]]
      /\ rows \in Nat
  BY BoundAssumption DEF StoreTypes
<1>2. chat \in [Request -> Session]
  BY RequestAssumption
<1>3. ASSUME UNCHANGED <<session, rows, turn>> PROVE RowInv'
  BY <1>3 DEF RowInv
<1>4. ASSUME NEW r \in Request, Inserts(r) PROVE RowInv'
  <2>1. /\ rows' = rows + 1 /\ UNCHANGED turn
        /\ session' = [session EXCEPT ![chat[r]] =
                         [owner |-> caller[r], next |-> 1, row |-> rows + 1]]
    BY <1>4, InsertWrites
  <2>2. ASSUME NEW s \in Session, session'[s] # NoRow
        PROVE  session'[s].row \in 1..rows'
    <3>1. CASE s = chat[r]
      BY <1>1, <2>1, <3>1
    <3>2. CASE s # chat[r]
      <4>1. session'[s] = session[s]
        BY <1>1, <2>1, <3>2
      <4>2. session[s].row \in 1..rows
        BY <2>2, <4>1 DEF RowInv
      <4>3. rows' = rows + 1
        BY <2>1
      <4> QED BY <1>1, <4>1, <4>2, <4>3
    <3> QED BY <3>1, <3>2
  <2>3. ASSUME NEW q \in Request, turn'[q] # NoTurn
        PROVE  turn'[q].row \in 1..rows' /\ turn'[q].at > 0
    <3>1. rows' = rows + 1 /\ turn' = turn
      BY <2>1
    <3>2. turn[q].row \in 1..rows /\ turn[q].at > 0
      BY <2>3, <3>1 DEF RowInv
    <3> QED BY <1>1, <3>1, <3>2
  <2> QED BY <2>2, <2>3 DEF RowInv
<1>5. ASSUME NEW r \in Request, Reserves(r) PROVE RowInv'
  <2>1. PICK at \in Nat :
           /\ session' = [session EXCEPT ![chat[r]].next = at + 2]
           /\ turn' = [turn EXCEPT ![r] = [at |-> at + 1, row |-> Row(r).row]]
           /\ UNCHANGED rows
    BY <1>5, ReserveWrites
  <2>2. ASSUME NEW s \in Session
        PROVE  session'[s].row = session[s].row
    BY <1>1, <1>2, <2>1
  <2>3. session[chat[r]] # NoRow
    BY <1>5 DEF Reserves, Row
  <2>4. ASSUME NEW s \in Session, session'[s] # NoRow
        PROVE  session'[s].row \in 1..rows'
    <3>1. session[s] # NoRow
      BY <1>1, <1>2, <2>1, <2>3, <2>4
    <3> QED BY <2>1, <2>2, <3>1 DEF RowInv
  <2>5. ASSUME NEW q \in Request, turn'[q] # NoTurn
        PROVE  turn'[q].row \in 1..rows' /\ turn'[q].at > 0
    <3>1. CASE q = r
      <4>1. turn'[q] = [at |-> at + 1, row |-> session[chat[r]].row]
        BY <1>1, <2>1, <3>1 DEF Row
      <4>2. session[chat[r]].row \in 1..rows
        BY <1>2, <2>3 DEF RowInv
      <4> QED BY <2>1, <4>1, <4>2
    <3>2. CASE q # r
      BY <1>1, <2>1, <2>5, <3>2 DEF RowInv
    <3> QED BY <3>1, <3>2
  <2> QED BY <2>4, <2>5 DEF RowInv
<1>6. ASSUME NEW s \in Session, DeleteSession(s) PROVE RowInv'
  BY <1>1, <1>6 DEF DeleteSession, RowInv, NoRow, answerVars
<1>7. ASSUME NEW r \in Request, Token(r) \/ Drops(r) \/ Persist(r) PROVE RowInv'
  <2>1. UNCHANGED <<session, rows, turn>>
    BY <1>7, StoreWrites DEF Token, Drops, DropStream, storeVars
  <2> QED BY <1>3, <2>1
<1>8. ASSUME Quiet \/ Crash PROVE RowInv'
  BY <1>3, <1>8 DEF Quiet, Crash, storeVars, answerVars
<1> QED
  BY <1>4, <1>5, <1>6, <1>7, <1>8, ConversationSteps

\* The questions and answers of a session keep their places: a new question
\* goes behind all messages, an answer to the position behind its question, and
\* the row a session got anew belongs to no earlier turn.
LEMMA MessageInvKept ==
  ASSUME StoreTypes, Bounded, TurnInv, RowInv, MessageInv, [Next]_vars
  PROVE  MessageInv'
<1>1. /\ session \in [Session -> [owner : Caller \cup {"none"}, next : Nat, row : Nat]]
      /\ turn \in [Request -> [at : Nat, row : Nat]]
      /\ rows \in Nat
      /\ message \in SUBSET Message
      /\ task \in [Request -> Tasks]
  BY BoundAssumption DEF StoreTypes
<1>2. chat \in [Request -> Session]
  BY RequestAssumption
<1>3. ASSUME UNCHANGED <<session, message, turn>> PROVE MessageInv'
  BY <1>3 DEF MessageInv, Current, Question, Row
<1>4. ASSUME NEW r \in Request, Inserts(r) PROVE MessageInv'
  <2>1. /\ UNCHANGED <<message, turn>>
        /\ session' = [session EXCEPT ![chat[r]] =
                         [owner |-> caller[r], next |-> 1, row |-> rows + 1]]
    BY <1>4, InsertWrites
  <2>2. ASSUME NEW q \in Request, Current(q)'
        PROVE  Current(q)
    <3>1. turn[q] # NoTurn /\ turn[q].row = session'[chat[q]].row
      BY <2>1, <2>2 DEF Current, Row
    <3>2. turn[q].row \in 1..rows
      BY <3>1 DEF RowInv
    <3>3. chat[q] # chat[r]
      BY <1>1, <1>2, <2>1, <3>1, <3>2
    <3>4. session'[chat[q]] = session[chat[q]]
      BY <1>1, <1>2, <2>1, <3>3
    <3> QED BY <3>1, <3>4 DEF Current, Row
  <2> QED BY <2>1, <2>2 DEF MessageInv, Question
<1>5. ASSUME NEW r \in Request, Reserves(r) PROVE MessageInv'
  <2> DEFINE new(at) == [session |-> chat[r], at |-> at, role |-> "user", of |-> r]
  <2>1. PICK at \in Nat :
           /\ \A p \in Taken(chat[r]) : p < at
           /\ session' = [session EXCEPT ![chat[r]].next = at + 2]
           /\ message' = message \cup {new(at)}
           /\ turn' = [turn EXCEPT ![r] = [at |-> at + 1, row |-> Row(r).row]]
           /\ pc[r] = "reserve"
    BY <1>5, ReserveWrites
  <2>2. turn[r] = NoTurn
    BY <2>1 DEF TurnInv, Early
  <2>3. /\ turn'[r] = [at |-> at + 1, row |-> Row(r).row]
        /\ \A q \in Request \ {r} : turn'[q] = turn[q]
        /\ \A q \in Request : Row(q)'.row = Row(q).row
    BY <1>1, <1>2, <2>1 DEF Row
  <2>4. \A m \in message' : m.session = chat[m.of]
    BY <2>1 DEF MessageInv
  <2>5. ASSUME NEW m \in message', m.role = "assistant"
        PROVE  turn'[m.of] # NoTurn /\ m.at = turn'[m.of].at
    <3>1. m \in message
      BY <2>1, <2>5
    <3>2. turn[m.of] # NoTurn /\ m.at = turn[m.of].at /\ m.of \in Request
      BY <1>1, <2>5, <3>1 DEF MessageInv, Message
    <3> QED BY <2>2, <2>3, <3>2
  <2>6. ASSUME NEW q \in Request, Current(q)'
        PROVE  Question(q)' \in message'
    <3>1. CASE q = r
      <4>1. Question(q)' = [session |-> chat[r], at |-> (at + 1) - 1, role |-> "user", of |-> r]
        BY <2>3, <3>1 DEF Question
      <4>2. (at + 1) - 1 = at
        OBVIOUS
      <4>3. Question(q)' = new(at)
        BY <4>1, <4>2
      <4> QED BY <2>1, <4>3
    <3>2. CASE q # r
      <4>1. turn'[q] = turn[q] /\ Row(q)'.row = Row(q).row
        BY <2>3, <3>2
      <4>2. Current(q)
        BY <2>6, <4>1 DEF Current
      <4> QED BY <2>1, <4>1, <4>2 DEF MessageInv, Question
    <3> QED BY <3>1, <3>2
  <2>7. ASSUME NEW m \in message, m.session = chat[r]
        PROVE  m.at # at
    <3>1. m.at \in Taken(chat[r]) /\ m.at \in Nat
      BY <1>1, <2>7 DEF Taken, Message
    <3> QED BY <2>1, <3>1
  <2>8. ASSUME NEW m \in message', NEW n \in message', m.session = n.session, m.at = n.at
        PROVE  m = n
    <3>1. m \in message \/ m = new(at)
      BY <2>1
    <3>2. n \in message \/ n = new(at)
      BY <2>1
    <3>3. new(at).session = chat[r] /\ new(at).at = at
      OBVIOUS
    <3> HIDE DEF new
    <3> QED BY <2>7, <2>8, <3>1, <3>2, <3>3 DEF MessageInv
  <2> QED BY <2>4, <2>5, <2>6, <2>8 DEF MessageInv
<1>6. ASSUME NEW r \in Request, Persist(r) PROVE MessageInv'
  <2> DEFINE new == [session |-> chat[r], at |-> turn[r].at, role |-> "assistant", of |-> r]
  <2>1. UNCHANGED <<session, turn>> /\ task[r] # "none"
    BY <1>6, StoreWrites
  <2>2. CASE UNCHANGED message
    BY <1>3, <2>1, <2>2
  <2>3. CASE turn[r].at \notin Taken(chat[r]) /\ message' = message \cup {new}
    <3>1. turn[r] # NoTurn
      BY <2>1 DEF TurnInv
    <3>2. /\ new.session = chat[r] /\ new.at = turn[r].at /\ new.of = r
          /\ \A m \in message' : m \in message \/ m = new
      BY <2>3
    <3> HIDE DEF new
    <3>3. \A m \in message' : m.session = chat[m.of]
      BY <3>2 DEF MessageInv
    <3>4. \A m \in message' : m.role = "assistant" =>
            turn[m.of] # NoTurn /\ m.at = turn[m.of].at
      BY <3>1, <3>2 DEF MessageInv
    <3>5. \A q \in Request : Current(q)' => Question(q)' \in message'
      BY <2>1, <2>3 DEF MessageInv, Current, Question, Row
    <3>6. \A m \in message : m.session = chat[r] => m.at # turn[r].at
      BY <2>3 DEF Taken
    <3>7. \A m, n \in message' : m.session = n.session /\ m.at = n.at => m = n
      BY <3>2, <3>6 DEF MessageInv
    <3> QED BY <2>1, <3>3, <3>4, <3>5, <3>7 DEF MessageInv
  <2> QED BY <1>6, <2>2, <2>3, StoreWrites
<1>7. ASSUME NEW s \in Session, DeleteSession(s) PROVE MessageInv'
  <2>1. /\ session' = [session EXCEPT ![s] = NoRow] /\ UNCHANGED turn
        /\ message' = {m \in message : m.session # s}
    BY <1>7 DEF DeleteSession, answerVars
  <2>2. ASSUME NEW q \in Request, Current(q)'
        PROVE  Current(q) /\ chat[q] # s
    <3>1. turn[q] # NoTurn /\ turn[q].row = session'[chat[q]].row
      BY <2>1, <2>2 DEF Current, Row
    <3>2. turn[q].row # 0
      BY <1>1, <3>1 DEF RowInv
    <3>3. chat[q] # s
      BY <1>1, <1>2, <2>1, <3>1, <3>2 DEF NoRow
    <3>4. session'[chat[q]] = session[chat[q]]
      BY <1>1, <1>2, <2>1, <3>3
    <3> QED BY <3>1, <3>3, <3>4 DEF Current, Row
  <2>3. ASSUME NEW q \in Request, Current(q)'
        PROVE  Question(q)' \in message'
    <3>1. Question(q) \in message
      BY <2>2, <2>3 DEF MessageInv
    <3>2. Question(q).session # s
      BY <2>2, <2>3 DEF Question
    <3>3. Question(q)' = Question(q)
      BY <2>1 DEF Question
    <3> QED BY <2>1, <3>1, <3>2, <3>3
  <2> QED BY <2>1, <2>3 DEF MessageInv
<1>8. ASSUME NEW r \in Request, Token(r) \/ Drops(r) PROVE MessageInv'
  BY <1>3, <1>8 DEF Token, Drops, DropStream, storeVars
<1>9. ASSUME Quiet \/ Crash PROVE MessageInv'
  BY <1>3, <1>9 DEF Quiet, Crash, storeVars, answerVars
<1> QED
  BY <1>4, <1>5, <1>6, <1>7, <1>8, <1>9, ConversationSteps

LEMMA InitConversationInv == Init => ConversationInv
<1> SUFFICES ASSUME Init PROVE ConversationInv
  OBVIOUS
<1>1. StoreTypes
  BY BoundAssumption DEF Init, StoreTypes, NoRow, NoTurn, Tasks
<1>2. TurnInv
  BY DEF Init, TurnInv, Late
<1>3. RowInv
  BY DEF Init, RowInv
<1>4. MessageInv
  BY DEF Init, MessageInv, Current
<1>5. Bounded
  BY DEF Init, Bounded
<1> QED BY <1>1, <1>2, <1>3, <1>4, <1>5 DEF ConversationInv

LEMMA NextConversationInv ==
  DoorInv /\ ConversationInv /\ [Next]_vars => ConversationInv'
BY StoreTypesKept, BoundedKept, TurnInvKept, RowInvKept, MessageInvKept DEF ConversationInv

\* The permits nobody holds and the counter stay in their ranges: both are
\* settled by the books.
LEMMA DoorRanges ==
  ASSUME DoorInv
  PROVE  free \in 0..Concurrency /\ waiting \in Nat
<1>1. Cardinality(At(Holding)) \in Nat /\ Cardinality(At(Counted)) \in Nat
  BY AtIsCount, CountType
<1> QED
  BY <1>1, AdmissionAssumption DEF DoorInv, DoorTypes, Books

\* Every variable keeps its type; in particular the counter of waiting requests,
\* an unsigned number in admission.rs, never goes below zero, and the semaphore
\* never has more permits than it was made with.
THEOREM TypeCorrect == Spec => []TypeOK
<1>1. DoorInv /\ ConversationInv => TypeOK
  BY DoorRanges DEF TypeOK, DoorInv, DoorTypes, ConversationInv, StoreTypes
<1> QED
  BY <1>1, InitDoorInv, NextDoorInv, InitConversationInv, NextConversationInv, PTL DEF Spec

\* The answers of concurrent requests never mix, for any number of requests,
\* sessions, deletions and stops of the process
\* (insert_user_chat_message_and_reserve_turn, PersistAssistantOnDrop).
THEOREM AnswersFollow == Spec => []AnswerFollowsQuestion
<1>1. ConversationInv => AnswerFollowsQuestion
  <2> SUFFICES ASSUME ConversationInv, NEW m \in message,
                      m.role = "assistant", Current(m.of)
               PROVE  \E q \in message : /\ q.role = "user" /\ q.of = m.of
                                         /\ q.session = m.session /\ q.at + 1 = m.at
    BY DEF AnswerFollowsQuestion, ConversationInv, MessageInv
  <2>1. m.of \in Request
    BY DEF ConversationInv, StoreTypes, Message
  <2>2. /\ Question(m.of) \in message /\ m.session = chat[m.of]
        /\ m.at = turn[m.of].at /\ turn[m.of].at \in Nat
    BY <2>1 DEF ConversationInv, MessageInv, StoreTypes
  <2>3. Question(m.of).at + 1 = m.at
    BY <2>2 DEF Question
  <2> QED BY <2>2, <2>3 DEF Question
<1> QED
  BY <1>1, InitDoorInv, NextDoorInv, InitConversationInv, NextConversationInv, PTL DEF Spec
=============================================================================
