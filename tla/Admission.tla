----------------------------- MODULE Admission -----------------------------
(***************************************************************************)
(* What the door of chat promises the requests, with no permits, counter,  *)
(* handlers or answers: at most Concurrency of them are inside, at most    *)
(* QueueDepth wait in a line, and only while the room is full; the line is *)
(* served in its order, nobody goes past it, whoever leaves the room lets  *)
(* the first in by the same step, and whoever has left does not come back. *)
(* Chat implements it.                                                     *)
(***************************************************************************)
EXTENDS Integers, FiniteSets, Sequences, SequencesExt

CONSTANTS
  Request,      \* chat requests
  Concurrency,  \* requests that may be inside
  QueueDepth    \* requests that may wait

VARIABLES
  inside,       \* requests that are being worked on
  line,         \* requests that wait, the first to come in front
  past          \* requests that were answered, turned away or lost

vars == <<inside, line, past>>

Init == inside = {} /\ line = <<>> /\ past = {}

Outside(r) == r \notin inside \cup ToSet(line) \cup past

Start(r) ==
  /\ Outside(r) /\ line = <<>> /\ Cardinality(inside) < Concurrency
  /\ inside' = inside \cup {r}
  /\ UNCHANGED <<line, past>>

Join(r) ==
  /\ Outside(r) /\ Cardinality(inside) = Concurrency /\ Len(line) < QueueDepth
  /\ line' = Append(line, r)
  /\ UNCHANGED <<inside, past>>

\* The waiting time is over, or the client has left.
Leave(r) ==
  /\ \E i \in DOMAIN line : line[i] = r /\ line' = RemoveAt(line, i)
  /\ past' = past \cup {r}
  /\ UNCHANGED inside

Refuse(r) ==
  /\ Outside(r)
  /\ past' = past \cup {r}
  /\ UNCHANGED <<inside, line>>

\* However it ends, the next one comes in.
Finish(r) ==
  /\ r \in inside
  /\ past' = past \cup {r}
  /\ \/ /\ line = <<>>
        /\ inside' = inside \ {r} /\ line' = line
     \/ /\ line # <<>>
        /\ inside' = (inside \ {r}) \cup {Head(line)} /\ line' = Tail(line)

\* The process stops; lost are also those on their way to the door.
Restart ==
  /\ inside' = {} /\ line' = <<>>
  /\ \E lost \in SUBSET Request : past' = past \cup inside \cup ToSet(line) \cup lost

Next ==
  \/ \E r \in Request : Start(r) \/ Join(r) \/ Leave(r) \/ Refuse(r) \/ Finish(r)
  \/ Restart

Spec == Init /\ [][Next]_vars
=============================================================================
