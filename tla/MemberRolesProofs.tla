-------------------------- MODULE MemberRolesProofs --------------------------
(***************************************************************************)
(* Proofs about MemberRoles, for any number of members and requests.        *)
(*                                                                          *)
(* The invariant behind ManagementPathKept says what the lock of the        *)
(* workspace's row protects: the role that a request has read is still the  *)
(* role in SQL, and the other administrator the guard found is still there. *)
(* The one behind FailClosed and SyncSettledInAgreement says what a request *)
(* or the processor, alone with a member, knows of its tuples by its place. *)
(***************************************************************************)
EXTENDS MemberRoles, TLAPS

-----------------------------------------------------------------------------
(* Type correctness *)

\* A changed field keeps the record of a request in its set.
LEMMA RequestTypes ==
    ASSUME NEW r \in Requests
    PROVE  /\ r.pc # "idle"
           /\ r.m \in Members
           /\ \A pc \in {"guard", "revoke", "commit", "grant", "enqueue", "mark"} :
                /\ [r EXCEPT !.pc = pc] \in Requests
                /\ \A n \in Nat : [r EXCEPT !.pc = pc, !.row = n] \in Requests
BY DEF Requests

\* A slot that is not idle holds a request.
LEMMA NotIdle ==
    ASSUME TypeOK, NEW c \in Clients, req[c].pc # "idle"
    PROVE  req[c] \in Requests
BY DEF TypeOK, Idle

\* Goto and Return keep the slots typed.
LEMMA SlotTypes ==
    ASSUME TypeOK, NEW c \in Clients
    PROVE  /\ Return(c) => req' \in [Clients -> Requests \cup {Idle}]
           /\ \A pc \in {"guard", "revoke", "commit", "grant", "enqueue", "mark"} :
                req[c].pc # "idle" /\ Goto(c, pc) => req' \in [Clients -> Requests \cup {Idle}]
<1>1. Return(c) => req' \in [Clients -> Requests \cup {Idle}]
  BY DEF TypeOK, Return
<1>2. ASSUME NEW pc \in {"guard", "revoke", "commit", "grant", "enqueue", "mark"},
             req[c].pc # "idle", Goto(c, pc)
      PROVE  req' \in [Clients -> Requests \cup {Idle}]
  <2>1. [req[c] EXCEPT !.pc = pc] \in Requests
    BY <1>2, NotIdle, RequestTypes
  <2>2. req' = [req EXCEPT ![c] = [req[c] EXCEPT !.pc = pc]]
    BY <1>2 DEF Goto
  <2> QED BY <2>1, <2>2 DEF TypeOK
<1> QED BY <1>1, <1>2

\* A row of the outbox queued by a request is typed.
LEMMA RowTypes ==
    ASSUME TypeOK, NEW m \in Members, NEW row,
           \/ row = Row("sync", m, "none")
           \/ \E rel \in Relations : row = Row("write", m, rel)
    PROVE  /\ Append(rows, row) \in Seq(OutboxRows)
           /\ Len(Append(rows, row)) \in Nat
           /\ DOMAIN rows \subseteq DOMAIN Append(rows, row)
<1>1. row \in OutboxRows
  BY DEF Row, OutboxRows, SyncRows, WriteRows, Statuses
<1>2. rows \in Seq(OutboxRows)
  BY DEF TypeOK
<1>3. Len(Append(rows, row)) = Len(rows) + 1 /\ Len(rows) \in Nat
  BY <1>1, <1>2
<1>4. DOMAIN rows = 1..Len(rows) /\ DOMAIN Append(rows, row) = 1..Len(Append(rows, row))
  BY <1>1, <1>2
<1> QED BY <1>1, <1>2, <1>3, <1>4

\* The processor's record stays typed while the table only grows.
LEMMA ProcTypes ==
    ASSUME TypeOK, UNCHANGED proc, DOMAIN rows \subseteq DOMAIN rows'
    PROVE  /\ proc' \in ProcStates
           /\ proc'.pc \in {"take", "call", "mark"} => proc'.todo \subseteq DOMAIN rows'
           /\ proc'.pc \in {"call", "mark"} => proc'.row \in DOMAIN rows'
           /\ proc'.pc = "call" => proc'.calls # <<>>
<1> QED BY DEF TypeOK, ProcStates, Calls

\* What a phase of the processor says of its record.
LEMMA ProcPhases ==
    ASSUME TypeOK
    PROVE  /\ proc.pc = "fetch" => proc \in [pc : {"fetch"}, handled : SUBSET Nat]
           /\ proc.pc = "take" =>
                proc \in [pc : {"take"}, handled : SUBSET Nat, todo : SUBSET Nat]
           /\ proc.pc \in {"call", "mark"} =>
                proc \in [pc : {"call", "mark"}, handled : SUBSET Nat, todo : SUBSET Nat,
                          row : Nat, ok : BOOLEAN, calls : Seq(Calls)]
BY DEF TypeOK, ProcStates, ProcIdle

\* A marked row is a row.
LEMMA MarkedTypes ==
    ASSUME NEW r \in OutboxRows, NEW ok
    PROVE  Marked(r, ok) \in OutboxRows
<1>1. CASE r \in SyncRows
  <2>1. /\ "PROCESSED" \in Statuses /\ "FAILED" \in Statuses
        /\ r.retries + 1 \in Nat
    BY <1>1 DEF SyncRows, Statuses
  <2>2. CASE ok
    BY <1>1, <2>1, <2>2 DEF Marked, OutboxRows, SyncRows
  <2>3. CASE ~ok
    <3>1. [r EXCEPT !.status = "FAILED", !.retries = r.retries + 1] \in SyncRows
      BY <1>1, <2>1 DEF SyncRows
    <3> QED BY <2>3, <3>1 DEF Marked, OutboxRows
  <2> QED BY <2>2, <2>3
<1>2. CASE r \in WriteRows
  <2>1. /\ "PROCESSED" \in Statuses /\ "FAILED" \in Statuses
        /\ r.retries + 1 \in Nat
    BY <1>2 DEF WriteRows, Statuses
  <2>2. CASE ok
    BY <1>2, <2>1, <2>2 DEF Marked, OutboxRows, WriteRows
  <2>3. CASE ~ok
    <3>1. [r EXCEPT !.status = "FAILED", !.retries = r.retries + 1] \in WriteRows
      BY <1>2, <2>1 DEF WriteRows
    <3> QED BY <2>3, <3>1 DEF Marked, OutboxRows
  <2> QED BY <2>2, <2>3
<1> QED BY <1>1, <1>2 DEF OutboxRows

\* Marking a row keeps the table typed and its length.
LEMMA MarkTypes ==
    ASSUME TypeOK, NEW i, NEW r \in OutboxRows
    PROVE  /\ [rows EXCEPT ![i] = r] \in Seq(OutboxRows)
           /\ DOMAIN [rows EXCEPT ![i] = r] = DOMAIN rows
<1>1. rows \in Seq(OutboxRows) /\ Len(rows) \in Nat
  BY DEF TypeOK
<1>2. rows \in [1..Len(rows) -> OutboxRows]
  BY <1>1
<1>3. [rows EXCEPT ![i] = r] \in [1..Len(rows) -> OutboxRows]
  BY <1>2
<1>4. \A f \in [1..Len(rows) -> OutboxRows] : f \in Seq(OutboxRows)
  BY <1>1
<1> QED BY <1>2, <1>3, <1>4

\* A new request is typed, whoever starts it.
LEMMA BeginTypes ==
    ASSUME TypeOK, NEW c \in Clients, NEW m \in Members,
           NEW pc \in {"guard", "revoke", "grant"},
           NEW op \in {"add", "patch", "remove", "recover"},
           NEW old \in Roles \cup {"none"}, NEW new \in Roles \cup {"none"},
           Begin(c, pc, op, m, old, new)
    PROVE  /\ req' \in [Clients -> Requests \cup {Idle}]
           /\ started' \in 0..MaxRequests
           /\ exposed' \subseteq Members
<1>1. [pc |-> pc, op |-> op, m |-> m, old |-> old, new |-> new, row |-> 0] \in Requests
  BY DEF Requests
<1> QED BY <1>1, RolesAssumption DEF Begin, TypeOK

LEMMA InitTyped == Init => TypeOK
<1> SUFFICES ASSUME Init PROVE TypeOK
  OBVIOUS
<1>0. ProcIdle \in ProcStates /\ ProcIdle.pc = "idle"
  BY DEF ProcStates, ProcIdle
<1>1. \A m \in Members : Tuples(sqlRole[m]) \in SUBSET Relations
  BY DEF Init, Tuples, as_fga_relation, Relations, Roles
<1>2. rows \in Seq(OutboxRows)
  BY DEF Init
<1> QED BY <1>0, <1>1, <1>2, RolesAssumption DEF Init, TypeOK, Idle

\* The requests, one step per action.
LEMMA RequestKeepsTypes ==
    ASSUME TypeOK, NEW c \in Clients, Request(c)
    PROVE  TypeOK'
<1> USE RolesAssumption
<1>1. ASSUME NEW m \in Members, NEW role \in Roles, AddMember(c, m, role)
      PROVE  TypeOK'
  BY <1>1, BeginTypes, ProcTypes DEF AddMember, TypeOK
<1>2. ASSUME NEW m \in Members, NEW role \in Roles, ChangeRole(c, m, role)
      PROVE  TypeOK'
  <2>1. Begin(c, "guard", "patch", m, sqlRole[m], role)
        \/ Begin(c, "revoke", "patch", m, sqlRole[m], role)
    BY <1>2 DEF ChangeRole
  <2>2. sqlRole[m] \in Roles \cup {"none"}
    BY DEF TypeOK
  <2>3. /\ req' \in [Clients -> Requests \cup {Idle}]
        /\ started' \in 0..MaxRequests
        /\ exposed' \subseteq Members
    BY <2>1, <2>2, BeginTypes
  <2> QED BY <1>2, <2>3, ProcTypes DEF ChangeRole, TypeOK, lock_workspace_tenant
<1>3. ASSUME NEW m \in Members, RemoveMember(c, m)
      PROVE  TypeOK'
  <2>1. Begin(c, "guard", "remove", m, sqlRole[m], "none")
        \/ Begin(c, "revoke", "remove", m, sqlRole[m], "none")
    BY <1>3 DEF RemoveMember
  <2>2. sqlRole[m] \in Roles \cup {"none"}
    BY DEF TypeOK
  <2>3. /\ req' \in [Clients -> Requests \cup {Idle}]
        /\ started' \in 0..MaxRequests
        /\ exposed' \subseteq Members
    BY <2>1, <2>2, BeginTypes
  <2> QED BY <1>3, <2>3, ProcTypes DEF RemoveMember, TypeOK, lock_workspace_tenant
<1>4. ASSUME NEW m \in Members, RecoverAdmin(c, m)
      PROVE  TypeOK'
  <2>1. /\ req' \in [Clients -> Requests \cup {Idle}]
        /\ started' \in 0..MaxRequests
        /\ exposed' \subseteq Members
    BY <1>4, BeginTypes DEF RecoverAdmin, Roles
  <2> QED BY <1>4, <2>1, ProcTypes DEF RecoverAdmin, TypeOK, lock_workspace_tenant
<1>5. CASE Guard(c)
  <2>1. req' \in [Clients -> Requests \cup {Idle}]
    BY <1>5, SlotTypes DEF Guard
  <2> QED BY <1>5, <2>1, ProcTypes DEF Guard, Fault, TypeOK
<1>6. CASE Revoke(c)
  <2>1. req' \in [Clients -> Requests \cup {Idle}]
    BY <1>6, SlotTypes DEF Revoke
  <2>2. fga' \in [Members -> SUBSET Relations]
    BY <1>6 DEF Revoke, AppliedOrNot, TypeOK
  <2> QED BY <1>6, <2>1, <2>2, ProcTypes DEF Revoke, Fault, TypeOK
<1>7. CASE Commit(c)
  <2>1. req[c] \in Requests
    BY <1>7, NotIdle DEF Commit
  <2>2. req[c].m \in Members /\ req[c].new \in Roles \cup {"none"}
    BY <2>1 DEF Requests
  <2>3. /\ Append(rows, Row("sync", req[c].m, "none")) \in Seq(OutboxRows)
        /\ DOMAIN rows \subseteq DOMAIN Append(rows, Row("sync", req[c].m, "none"))
    BY <2>2, RowTypes
  <2>4. /\ rows' \in Seq(OutboxRows)
        /\ Len(rows') \in Nat
        /\ DOMAIN rows \subseteq DOMAIN rows'
    <3>1. rows' \in {rows, Append(rows, Row("sync", req[c].m, "none"))}
      BY <1>7 DEF Commit, Write
    <3>2. CASE rows' = rows
      <4>1. rows \in Seq(OutboxRows)
        BY DEF TypeOK
      <4> QED BY <3>2, <4>1
    <3>3. CASE rows' = Append(rows, Row("sync", req[c].m, "none"))
      <4>1. Len(Append(rows, Row("sync", req[c].m, "none"))) \in Nat
        BY <2>2, RowTypes
      <4> QED BY <3>3, <4>1, <2>3
    <3> QED BY <3>1, <3>2, <3>3
  <2>5. /\ sqlRole' \in [Members -> Roles \cup {"none"}]
        /\ exposed' \subseteq Members
    BY <1>7, <2>2 DEF Commit, Write, TypeOK
  <2>6. req' \in [Clients -> Requests \cup {Idle}]
    <3>1. [req[c] EXCEPT !.pc = "grant", !.row = Len(rows')] \in Requests
      BY <2>1, <2>4, RequestTypes
    <3>2. CASE req' = [req EXCEPT ![c].pc = "grant", ![c].row = Len(rows')]
      BY <3>1, <3>2 DEF TypeOK
    <3> QED BY <1>7, <3>2, SlotTypes DEF Commit
  <2> QED BY <1>7, <2>4, <2>5, <2>6, ProcTypes DEF Commit, Fault, TypeOK
<1>8. CASE Grant(c)
  <2>1. req' \in [Clients -> Requests \cup {Idle}]
    BY <1>8, SlotTypes DEF Grant
  <2>2. GrantedRelation(c) \in Relations
    BY DEF GrantedRelation, as_fga_relation, Relations
  <2>3. fga' \in [Members -> SUBSET Relations]
    BY <1>8, <2>2 DEF Grant, AppliedOrNot, TypeOK
  <2> QED BY <1>8, <2>1, <2>3, ProcTypes DEF Grant, Fault, TypeOK
<1>9. CASE Enqueue(c)
  <2>1. req' \in [Clients -> Requests \cup {Idle}]
    BY <1>9, SlotTypes DEF Enqueue
  <2>2. req[c].m \in Members
    BY <1>9, NotIdle, RequestTypes DEF Enqueue
  <2>3. GrantedRelation(c) \in Relations /\ RevokedRelation(c) \in Relations
    BY DEF GrantedRelation, RevokedRelation, as_fga_relation, Relations
  <2>4. rows' \in Seq(OutboxRows) /\ DOMAIN rows \subseteq DOMAIN rows'
    <3>1. \/ rows' = rows
          \/ rows' = Append(rows, Row("sync", req[c].m, "none"))
          \/ rows' = Append(rows, Row("write", req[c].m, RevokedRelation(c)))
          \/ rows' = Append(rows, Row("write", req[c].m, GrantedRelation(c)))
      BY <1>9 DEF Enqueue
    <3>2. CASE rows' = rows
      BY <3>2 DEF TypeOK
    <3>3. CASE rows' = Append(rows, Row("sync", req[c].m, "none"))
      BY <2>2, <3>3, RowTypes
    <3>4. CASE rows' = Append(rows, Row("write", req[c].m, RevokedRelation(c)))
      BY <2>2, <2>3, <3>4, RowTypes
    <3>5. CASE rows' = Append(rows, Row("write", req[c].m, GrantedRelation(c)))
      BY <2>2, <2>3, <3>5, RowTypes
    <3> QED BY <3>1, <3>2, <3>3, <3>4, <3>5
  <2> QED BY <1>9, <2>1, <2>2, <2>4, ProcTypes DEF Enqueue, Fault, TypeOK
<1>10. CASE MarkOwnRow(c)
  <2>1. req' \in [Clients -> Requests \cup {Idle}]
    BY <1>10, SlotTypes DEF MarkOwnRow
  <2>2. rows' \in Seq(OutboxRows) /\ DOMAIN rows' = DOMAIN rows
    <3>1. CASE UNCHANGED rows
      BY <3>1 DEF TypeOK
    <3>2. CASE rows' = [rows EXCEPT ![req[c].row].status = "PROCESSED"]
                 /\ req[c].row \in DOMAIN rows
      <4>1. rows[req[c].row] \in OutboxRows
        BY <3>2 DEF TypeOK
      <4>2. [rows[req[c].row] EXCEPT !.status = "PROCESSED"] \in OutboxRows
        BY <4>1, MarkedTypes DEF Marked
      <4> QED BY <3>2, <4>2, MarkTypes
    <3>3. CASE rows' = [rows EXCEPT ![req[c].row].status = "PROCESSED"]
                 /\ req[c].row \notin DOMAIN rows
      <4>1. rows \in Seq(OutboxRows) /\ rows = [i \in DOMAIN rows |-> rows[i]]
        BY DEF TypeOK
      <4> QED BY <3>3, <4>1
    <3> QED BY <1>10, <3>1, <3>2, <3>3 DEF MarkOwnRow
  <2> QED BY <1>10, <2>1, <2>2, ProcTypes DEF MarkOwnRow, Fault, TypeOK
<1>11. CASE Abandon(c)
  BY <1>11, SlotTypes, ProcTypes DEF Abandon, TypeOK
<1> QED BY <1>1, <1>2, <1>3, <1>4, <1>5, <1>6, <1>7, <1>8, <1>9, <1>10, <1>11 DEF Request

\* The processor and its stops, one step per action.
LEMMA ProcessorKeepsTypes ==
    ASSUME TypeOK, Processor \/ StopRun
    PROVE  TypeOK'
<1> USE RolesAssumption
<1>0. ProcIdle \in ProcStates /\ ProcIdle.pc = "idle"
  BY DEF ProcStates, ProcIdle
<1>r. rows \in Seq(OutboxRows) /\ DOMAIN rows \subseteq Nat
  BY DEF TypeOK
<1>1. CASE StartRun
  <2>1. proc' \in ProcStates /\ proc'.pc = "fetch"
    BY <1>1 DEF StartRun, ProcStates
  <2> QED BY <1>1, <2>1 DEF StartRun, ProcVarsOnly, TypeOK
<1>2. CASE FetchBatch
  <2>1. OldestWaiting \subseteq DOMAIN rows
    BY DEF OldestWaiting
  <2>2. CASE proc' = ProcIdle
    BY <1>0, <1>2, <2>2 DEF FetchBatch, ProcVarsOnly, TypeOK
  <2>3. CASE proc' = [pc |-> "take", handled |-> proc.handled,
                      todo |-> OldestWaiting \ proc.handled]
    <3>1. proc.handled \in SUBSET Nat
      BY <1>2, ProcPhases DEF FetchBatch
    <3>2. proc' \in [pc : {"take"}, handled : SUBSET Nat, todo : SUBSET Nat]
      BY <1>r, <2>1, <2>3, <3>1
    <3>3. proc' \in ProcStates /\ proc'.pc = "take" /\ proc'.todo \subseteq DOMAIN rows
      BY <2>1, <2>3, <3>2 DEF ProcStates
    <3> QED BY <1>2, <3>3 DEF FetchBatch, ProcVarsOnly, TypeOK
  <2> QED BY <1>2, <2>2, <2>3 DEF FetchBatch
<1>3. CASE TakeRow
  <2>1. PICK i \in proc.todo :
          /\ proc' = [pc |-> "call", handled |-> proc.handled \cup {i},
                      todo |-> proc.todo \ {i}, row |-> i, ok |-> TRUE,
                      calls |-> IF rows[i].kind = "sync" THEN SyncCalls(sqlRole[rows[i].m])
                                ELSE <<[del |-> FALSE, rel |-> rows[i].rel]>>]
          /\ exposed' = IF Busy(rows[i].m) THEN exposed \cup {rows[i].m} ELSE exposed
    BY <1>3 DEF TakeRow
  <2>2. i \in DOMAIN rows /\ i \in Nat /\ proc.todo \subseteq DOMAIN rows
    BY <1>3, <1>r, <2>1 DEF TakeRow, TypeOK
  <2>3. rows[i].m \in Members /\ (rows[i].kind # "sync" => rows[i].rel \in Relations)
    BY <2>2 DEF TypeOK, OutboxRows, SyncRows, WriteRows
  <2>4. SyncCalls(sqlRole[rows[i].m]) \in Seq(Calls) /\ SyncCalls(sqlRole[rows[i].m]) # <<>>
    <3>1. sqlRole[rows[i].m] \in {"ADMIN", "MEMBER", "none"}
      BY <2>3 DEF TypeOK, Roles
    <3>2. /\ [del |-> TRUE, rel |-> "member"] \in Calls /\ [del |-> FALSE, rel |-> "admin"] \in Calls
          /\ [del |-> TRUE, rel |-> "admin"] \in Calls /\ [del |-> FALSE, rel |-> "member"] \in Calls
      BY DEF Calls, Relations
    <3> QED BY <3>1, <3>2 DEF SyncCalls
  <2>5. rows[i].kind # "sync" => [del |-> FALSE, rel |-> rows[i].rel] \in Calls
    BY <2>3 DEF Calls
  <2>6. proc.handled \in SUBSET Nat /\ proc.todo \in SUBSET Nat
    BY <1>3, ProcPhases DEF TakeRow
  <2>7. proc'.calls \in Seq(Calls) /\ proc'.calls # <<>>
    BY <2>1, <2>4, <2>5
  <2>8. proc' \in ProcStates
    BY <2>1, <2>2, <2>6, <2>7 DEF ProcStates
  <2>9. proc'.pc = "call" /\ proc'.row = i /\ proc'.todo \subseteq DOMAIN rows
    BY <2>1, <2>2
  <2>10. exposed' \subseteq Members
    BY <2>1, <2>3 DEF TypeOK
  <2> QED BY <1>3, <2>2, <2>7, <2>8, <2>9, <2>10 DEF TakeRow, ProcVarsOnly, TypeOK
<1>4. CASE Call
  <2>1. proc \in [pc : {"call", "mark"}, handled : SUBSET Nat, todo : SUBSET Nat,
                  row : Nat, ok : BOOLEAN, calls : Seq(Calls)]
    BY <1>4, ProcPhases DEF Call
  <2>2. proc.calls \in Seq(Calls) /\ proc.calls # <<>> /\ Len(proc.calls) \in Nat
    BY <1>4, <2>1 DEF Call, TypeOK
  <2>3. /\ Tail(proc.calls) \in Seq(Calls)
        /\ Len(proc.calls) # 1 => Tail(proc.calls) # <<>>
    <3>1. Tail(proc.calls) \in Seq(Calls) /\ Len(Tail(proc.calls)) = Len(proc.calls) - 1
      BY <2>2
    <3>2. Len(proc.calls) # 1 => Len(Tail(proc.calls)) # 0
      BY <2>2, <3>1
    <3>3. Len(<<>>) = 0
      OBVIOUS
    <3> QED BY <3>1, <3>2, <3>3
  <2>4. /\ proc' \in ProcStates /\ proc'.todo = proc.todo /\ proc'.row = proc.row
        /\ proc'.pc \in {"call", "mark"} /\ (proc'.pc = "call" => proc'.calls # <<>>)
    BY <1>4, <2>1, <2>3, ZenonT(40) DEF Call, ProcStates
  <2>5. fga' \in [Members -> SUBSET Relations]
    <3>1. rows[proc.row].m \in Members
      BY <1>4 DEF Call, TypeOK, OutboxRows, SyncRows, WriteRows
    <3>2. Head(proc.calls) \in Calls
      BY <2>2
    <3>3. Head(proc.calls).rel \in Relations
      BY <3>2 DEF Calls
    <3> QED BY <1>4, <3>1, <3>3 DEF Call, AppliedOrNot, TypeOK
  <2> QED BY <1>4, <2>4, <2>5 DEF Call, ProcVarsOnly, Fault, TypeOK
<1>5. CASE MarkRow
  <2>1. proc \in [pc : {"call", "mark"}, handled : SUBSET Nat, todo : SUBSET Nat,
                  row : Nat, ok : BOOLEAN, calls : Seq(Calls)]
    BY <1>5, ProcPhases DEF MarkRow
  <2>2. /\ proc' \in ProcStates /\ proc'.pc \in {"idle", "fetch", "take"}
        /\ proc'.pc = "take" => proc'.todo = proc.todo
    BY <1>0, <1>5, <2>1 DEF MarkRow, ProcStates
  <2>3. rows' \in Seq(OutboxRows) /\ DOMAIN rows' = DOMAIN rows
    <3>1. rows[proc.row] \in OutboxRows
      BY <1>5 DEF MarkRow, TypeOK
    <3>2. Marked(rows[proc.row], proc.ok) \in OutboxRows
      BY <3>1, MarkedTypes
    <3>3. CASE UNCHANGED rows
      BY <1>r, <3>3
    <3>4. CASE rows' = [rows EXCEPT ![proc.row] = Marked(rows[proc.row], proc.ok)]
      BY <3>2, <3>4, MarkTypes
    <3> QED BY <1>5, <3>3, <3>4 DEF MarkRow
  <2>4. proc'.pc = "take" => proc'.todo \subseteq DOMAIN rows'
    BY <1>5, <2>2, <2>3 DEF MarkRow, TypeOK
  <2> QED BY <1>5, <2>2, <2>3, <2>4 DEF MarkRow, ProcVarsOnly, Fault, TypeOK
<1>6. CASE StopRun
  BY <1>0, <1>6 DEF StopRun, ProcVarsOnly, Fault, TypeOK
<1> QED BY <1>1, <1>2, <1>3, <1>4, <1>5, <1>6 DEF Processor

\* Every step keeps the types.
LEMMA NextKeepsTypes == TypeOK /\ [Next]_vars => TypeOK'
<1>1. ASSUME TypeOK, UNCHANGED vars PROVE TypeOK'
  BY <1>1 DEF TypeOK, vars
<1> QED BY <1>1, RequestKeepsTypes, ProcessorKeepsTypes DEF Next

\* Roles, tuples, outbox rows, requests and the processor's memory keep their
\* types, whoever calls what and whatever fails.
THEOREM MemberTypeCorrect == Spec => []TypeOK
BY InitTyped, NextKeepsTypes, PTL DEF Spec

-----------------------------------------------------------------------------
(* The management path *)

\* A request inside its transaction
InTransaction(c) == req[c].pc \in {"guard", "revoke", "commit"}

\* Whoever is inside a transaction holds the lock, so nobody else is; the
\* role it has read is the role in SQL; and past the guard another
\* administrator remains if this one goes.
Locked(c) ==
    /\ lock = c
    /\ req[c].op \in {"patch", "remove", "recover"}
    /\ req[c].op = "recover" => req[c].new = "ADMIN"
    /\ req[c].op # "recover" => req[c].old # "none" /\ sqlRole[req[c].m] = req[c].old
    /\ (req[c].pc # "guard" /\ req[c].new # "ADMIN") =>
          \/ OwnerPath
          \/ sqlRole[req[c].m] # "ADMIN"
          \/ \E a \in Members : a # req[c].m /\ sqlRole[a] = "ADMIN"

LockInv == \A c \in Clients : InTransaction(c) => Locked(c)

PathInv == LockInv /\ ManagementPathKept

\* While no role changes and no request enters a transaction, only the places
\* of the requests matter.
LEMMA LockInvKept ==
    ASSUME TypeOK, LockInv, UNCHANGED sqlRole, NEW c \in Clients,
           \A d \in Clients \ {c} : req'[d] = req[d],
           \/ UNCHANGED lock /\ req'[c] = req[c]
           \/ ~(InTransaction(c))' /\ (UNCHANGED lock \/ InTransaction(c) \/ lock = c)
    PROVE  LockInv'
BY RolesAssumption DEF LockInv, Locked, InTransaction

\* A request that takes the free lock is the only one in a transaction.
LEMMA OthersOutside ==
    ASSUME LockInv, NEW c \in Clients, lock = Nobody \/ lock = c,
           NEW d \in Clients \ {c}
    PROVE  ~InTransaction(d)
BY RolesAssumption DEF LockInv, Locked

\* A request that has left its transaction, or was never in one, whose step
\* writes no role.
LEMMA OutsideStep ==
    ASSUME TypeOK, PathInv, UNCHANGED sqlRole, NEW c \in Clients,
           Return(c) \/ Goto(c, "grant") \/ Goto(c, "enqueue") \/ Goto(c, "mark"),
           \/ UNCHANGED lock
           \/ InTransaction(c) /\ lock' = Nobody
           \/ lock' = IF lock = c THEN Nobody ELSE lock
    PROVE  PathInv'
<1>1. ~(InTransaction(c))'
  <2>1. CASE Return(c)
    BY <2>1 DEF Return, Idle, InTransaction, TypeOK
  <2>2. ASSUME NEW pc \in {"grant", "enqueue", "mark"}, Goto(c, pc)
        PROVE  ~(InTransaction(c))'
    <3>1. req'[c] = [req[c] EXCEPT !.pc = pc]
      BY <2>2 DEF Goto, TypeOK
    <3>2. CASE req[c] = Idle
      BY <3>1, <3>2 DEF Idle, InTransaction
    <3>3. CASE req[c] \in Requests
      BY <3>1, <3>3 DEF Requests, InTransaction
    <3> QED BY <3>2, <3>3 DEF TypeOK
  <2> QED BY <2>1, <2>2
<1>2. \A d \in Clients \ {c} : req'[d] = req[d]
  BY DEF Return, Goto, TypeOK
<1>3. UNCHANGED lock \/ InTransaction(c) \/ lock = c
  OBVIOUS
<1> QED BY <1>1, <1>2, <1>3, LockInvKept DEF PathInv, ManagementPathKept

\* What Begin puts into a free slot.
LEMMA BeginSlot ==
    ASSUME TypeOK, NEW c \in Clients, NEW pc, NEW op, NEW m, NEW old, NEW new,
           Begin(c, pc, op, m, old, new)
    PROVE  /\ req'[c] = [pc |-> pc, op |-> op, m |-> m, old |-> old, new |-> new, row |-> 0]
           /\ \A d \in Clients \ {c} : req'[d] = req[d]
BY DEF Begin, TypeOK

\* A step inside a transaction that changes nothing but its place.
LEMMA InsideStep ==
    ASSUME TypeOK, NEW c \in Clients, InTransaction(c),
           NEW pc \in {"revoke", "commit"}, Goto(c, pc)
    PROVE  /\ req'[c] = [req[c] EXCEPT !.pc = pc]
           /\ req'[c].pc = pc /\ req'[c].op = req[c].op /\ req'[c].m = req[c].m
           /\ req'[c].old = req[c].old /\ req'[c].new = req[c].new
           /\ \A d \in Clients \ {c} : req'[d] = req[d]
<1>1. req[c] \in Requests
  BY NotIdle DEF InTransaction
<1>2. req'[c] = [req[c] EXCEPT !.pc = pc]
  BY DEF Goto, TypeOK
<1> QED BY <1>1, <1>2 DEF Goto, TypeOK, Requests

\* The requests, one step per action.
LEMMA RequestKeepsPath ==
    ASSUME TypeOK, PathInv, NEW c \in Clients, Request(c)
    PROVE  PathInv'
<1> USE RolesAssumption
<1>1. ASSUME NEW m \in Members, NEW role \in Roles, AddMember(c, m, role)
      PROVE  PathInv'
  <2>1. /\ sqlRole[m] = "none" /\ sqlRole' = [sqlRole EXCEPT ![m] = role]
        /\ UNCHANGED lock /\ req'[c].pc = "grant"
        /\ \A d \in Clients \ {c} : req'[d] = req[d]
    <3>1. Begin(c, "grant", "add", m, "none", role)
      BY <1>1 DEF AddMember
    <3>2. req'[c] = [pc |-> "grant", op |-> "add", m |-> m, old |-> "none",
                    new |-> role, row |-> 0]
      BY <3>1, BeginSlot
    <3> QED BY <1>1, <3>1, <3>2, BeginSlot DEF AddMember
  <2>2. \A a \in Members : sqlRole[a] # "none" => sqlRole'[a] = sqlRole[a]
    BY <2>1 DEF TypeOK
  <2>3. LockInv'
    <3> SUFFICES ASSUME NEW d \in Clients \ {c}, InTransaction(d)
                 PROVE  Locked(d)'
      BY <2>1 DEF LockInv, InTransaction
    <3>1. req'[d] = req[d] /\ req[d].m \in Members
      BY <2>1, NotIdle, RequestTypes DEF InTransaction
    <3> QED BY <2>1, <2>2, <3>1 DEF PathInv, LockInv, Locked
  <2>4. ManagementPathKept'
    BY <2>2 DEF PathInv, ManagementPathKept
  <2> QED BY <2>3, <2>4 DEF PathInv
<1>2. ASSUME NEW m \in Members, NEW role \in Roles, ChangeRole(c, m, role)
      PROVE  PathInv'
  <2>1. /\ lock = Nobody /\ lock' = c /\ UNCHANGED sqlRole
        /\ sqlRole[m] # "none" /\ sqlRole[m] # role
        /\ req'[c] = [pc |-> IF role = "MEMBER" THEN "guard" ELSE "revoke", op |-> "patch",
                      m |-> m, old |-> sqlRole[m], new |-> role, row |-> 0]
        /\ \A d \in Clients \ {c} : req'[d] = req[d]
    BY <1>2, BeginSlot DEF ChangeRole, lock_workspace_tenant
  <2>2. \A d \in Clients \ {c} : ~(InTransaction(d))'
    BY <2>1, OthersOutside DEF PathInv, InTransaction
  <2>3. Locked(c)'
    BY <2>1 DEF Locked, Roles
  <2> QED BY <2>1, <2>2, <2>3 DEF PathInv, LockInv, ManagementPathKept
<1>3. ASSUME NEW m \in Members, RemoveMember(c, m)
      PROVE  PathInv'
  <2>1. /\ lock = Nobody /\ lock' = c /\ UNCHANGED sqlRole /\ sqlRole[m] # "none"
        /\ req'[c] = [pc |-> IF sqlRole[m] = "ADMIN" THEN "guard" ELSE "revoke", op |-> "remove",
                      m |-> m, old |-> sqlRole[m], new |-> "none", row |-> 0]
        /\ \A d \in Clients \ {c} : req'[d] = req[d]
    BY <1>3, BeginSlot DEF RemoveMember, lock_workspace_tenant
  <2>2. \A d \in Clients \ {c} : ~(InTransaction(d))'
    BY <2>1, OthersOutside DEF PathInv, InTransaction
  <2>3. Locked(c)'
    BY <2>1 DEF Locked
  <2> QED BY <2>1, <2>2, <2>3 DEF PathInv, LockInv, ManagementPathKept
<1>4. ASSUME NEW m \in Members, RecoverAdmin(c, m)
      PROVE  PathInv'
  <2>1. /\ lock = Nobody /\ lock' = c /\ UNCHANGED sqlRole
        /\ req'[c] = [pc |-> "guard", op |-> "recover", m |-> m, old |-> "none",
                      new |-> "ADMIN", row |-> 0]
        /\ \A d \in Clients \ {c} : req'[d] = req[d]
    BY <1>4, BeginSlot DEF RecoverAdmin, lock_workspace_tenant
  <2>2. \A d \in Clients \ {c} : ~(InTransaction(d))'
    BY <2>1, OthersOutside DEF PathInv, InTransaction
  <2>3. Locked(c)'
    BY <2>1 DEF Locked
  <2> QED BY <2>1, <2>2, <2>3 DEF PathInv, LockInv, ManagementPathKept
<1>5. CASE Guard(c)
  <2>0. InTransaction(c) /\ Locked(c) /\ UNCHANGED sqlRole
    BY <1>5 DEF Guard, InTransaction, PathInv, LockInv
  <2>1. CASE Return(c) /\ lock' = Nobody
    BY <2>0, <2>1, OutsideStep
  <2>2. CASE Goto(c, "revoke") /\ ManagementPath({req[c].m}) /\ UNCHANGED lock
    <3>1. Locked(c)'
      BY <2>0, <2>2, InsideStep, ZenonT(40) DEF Locked, ManagementPath
    <3>2. \A d \in Clients \ {c} : ~(InTransaction(d))'
      <4>1. (\A d \in Clients \ {c} : ~InTransaction(d)) /\ (\A d \in Clients \ {c} : req'[d] = req[d])
        BY <2>0, <2>2, OthersOutside, InsideStep, ZenonT(40) DEF PathInv, Locked
      <4> QED BY <4>1 DEF InTransaction
    <3> QED BY <2>0, <3>1, <3>2 DEF PathInv, LockInv, ManagementPathKept
  <2>3. CASE Goto(c, "commit") /\ req[c].op = "recover" /\ UNCHANGED lock
    <3>1. Locked(c)'
      BY <2>0, <2>3, InsideStep DEF Locked
    <3>2. \A d \in Clients \ {c} : ~(InTransaction(d))'
      <4>1. (\A d \in Clients \ {c} : ~InTransaction(d)) /\ (\A d \in Clients \ {c} : req'[d] = req[d])
        BY <2>0, <2>3, OthersOutside, InsideStep, ZenonT(40) DEF PathInv, Locked
      <4> QED BY <4>1 DEF InTransaction
    <3> QED BY <2>0, <3>1, <3>2 DEF PathInv, LockInv, ManagementPathKept
  <2> QED BY <1>5, <2>1, <2>2, <2>3 DEF Guard
<1>6. CASE Revoke(c)
  <2>0. InTransaction(c) /\ Locked(c) /\ UNCHANGED sqlRole /\ req[c].pc = "revoke"
    BY <1>6 DEF Revoke, InTransaction, PathInv, LockInv
  <2>1. CASE (Return(c) \/ Goto(c, "enqueue")) /\ lock' = Nobody
    BY <2>0, <2>1, OutsideStep
  <2>2. CASE Goto(c, "commit") /\ UNCHANGED lock
    <3>1. Locked(c)'
      BY <2>0, <2>2, InsideStep, ZenonT(40) DEF Locked
    <3>2. \A d \in Clients \ {c} : ~(InTransaction(d))'
      <4>1. (\A d \in Clients \ {c} : ~InTransaction(d)) /\ (\A d \in Clients \ {c} : req'[d] = req[d])
        BY <2>0, <2>2, OthersOutside, InsideStep, ZenonT(40) DEF PathInv, Locked
      <4> QED BY <4>1 DEF InTransaction
    <3> QED BY <2>0, <3>1, <3>2 DEF PathInv, LockInv, ManagementPathKept
  <2> QED BY <1>6, <2>1, <2>2 DEF Revoke
<1>7. CASE Commit(c)
  <2>0. InTransaction(c) /\ Locked(c) /\ req[c].pc = "commit" /\ lock' = Nobody
        /\ req[c] \in Requests
    BY <1>7, NotIdle DEF Commit, InTransaction, PathInv, LockInv
  <2>1. \A d \in Clients \ {c} : req'[d] = req[d]
    BY <1>7 DEF Commit, Return, Goto, TypeOK
  <2>2. ~(InTransaction(c))'
    <3>1. CASE Return(c)
      BY <3>1 DEF Return, Idle, InTransaction, TypeOK
    <3>2. CASE req' = [req EXCEPT ![c].pc = "grant", ![c].row = Len(rows')]
      BY <2>0, <3>2 DEF InTransaction, TypeOK, Requests
    <3>3. CASE Goto(c, "enqueue")
      BY <2>0, <3>3 DEF Goto, InTransaction, TypeOK, Requests
    <3> QED BY <1>7, <3>1, <3>2, <3>3 DEF Commit
  <2>3. \A d \in Clients \ {c} : ~(InTransaction(d))'
    BY <2>0, <2>1, OthersOutside DEF PathInv, InTransaction, Locked
  <2>4. ManagementPathKept'
    <3>1. CASE UNCHANGED sqlRole
      BY <3>1 DEF PathInv, ManagementPathKept
    <3>2. CASE sqlRole' = [sqlRole EXCEPT ![req[c].m] = req[c].new]
      <4>1. req[c].m \in Members
        BY <2>0 DEF Requests
      <4>2. CASE req[c].new = "ADMIN"
        BY <3>2, <4>1, <4>2 DEF ManagementPathKept, TypeOK
      <4>3. CASE req[c].new # "ADMIN"
        <5>1. \/ OwnerPath
              \/ sqlRole[req[c].m] # "ADMIN"
              \/ \E a \in Members : a # req[c].m /\ sqlRole[a] = "ADMIN"
          BY <2>0, <4>3 DEF Locked
        <5> QED BY <3>2, <4>1, <5>1 DEF PathInv, ManagementPathKept, TypeOK
      <4> QED BY <4>2, <4>3
    <3> QED BY <1>7, <3>1, <3>2 DEF Commit, Write
  <2> QED BY <2>2, <2>3, <2>4 DEF PathInv, LockInv
<1>8. CASE Grant(c)
  BY <1>8, OutsideStep DEF Grant, InTransaction
<1>9. CASE Enqueue(c)
  BY <1>9, OutsideStep DEF Enqueue, InTransaction
<1>10. CASE MarkOwnRow(c)
  BY <1>10, OutsideStep DEF MarkOwnRow, InTransaction
<1>11. CASE Abandon(c)
  BY <1>11, OutsideStep DEF Abandon
<1> QED BY <1>1, <1>2, <1>3, <1>4, <1>5, <1>6, <1>7, <1>8, <1>9, <1>10, <1>11 DEF Request

\* Every step keeps the invariant; the processor writes no role and no lock.
LEMMA NextKeepsPath == TypeOK /\ PathInv /\ [Next]_vars => PathInv'
<1> SUFFICES ASSUME TypeOK, PathInv, [Next]_vars PROVE PathInv'
  OBVIOUS
<1>1. CASE Processor \/ StopRun
  <2>1. UNCHANGED <<sqlRole, lock, req>>
    BY <1>1 DEF Processor, StartRun, FetchBatch, TakeRow, Call, MarkRow, StopRun, ProcVarsOnly
  <2> QED BY <2>1 DEF PathInv, LockInv, Locked, InTransaction, ManagementPathKept
<1>2. CASE UNCHANGED vars
  BY <1>2 DEF vars, PathInv, LockInv, Locked, InTransaction, ManagementPathKept
<1>3. CASE \E c \in Clients : Request(c)
  BY <1>3, RequestKeepsPath
<1> QED BY <1>1, <1>2, <1>3 DEF Next

\* However demotions, removals, additions and recoveries interleave, a
\* workspace that has an ADMIN row, or a tenant owner, keeps one: the guard of
\* members.rs runs under the lock of the workspace's row.
THEOREM ManagementPathKeptHolds == Spec => []ManagementPathKept
<1>1. Init => PathInv
  BY DEF Init, Idle, PathInv, LockInv, InTransaction, ManagementPathKept
<1>2. PathInv => ManagementPathKept
  BY DEF PathInv
<1> QED BY <1>1, <1>2, NextKeepsPath, MemberTypeCorrect, PTL DEF Spec

-----------------------------------------------------------------------------
(* Fail-closed: what OpenFGA holds of a member                              *)

\* A request, or the processor with a row in hand, works on member m.
WorksOn(c, m) == req[c].pc # "idle" /\ req[c].m = m
ProcOn(m) == proc.pc \in {"call", "mark"} /\ rows[proc.row].m = m

\* What a request knows of its member m by its place.
RequestFits(c, m) ==
    /\ req[c].op # "recover" /\ req[c].pc = "commit" => fga[m] = {}
    /\ req[c].pc = "grant" => sqlRole[m] = req[c].new
    /\ req[c].pc = "mark" => fga[m] = Tuples(sqlRole[m])

\* What the processor knows of the member of the row it has in hand.
RunFits(m) ==
    /\ rows[proc.row].kind = "sync"
    /\ proc.pc = "call" =>
         /\ proc.ok
         /\ proc.calls \in {SyncCalls(sqlRole[m]), <<SyncCalls(sqlRole[m])[2]>>}
    /\ proc.pc = "mark" /\ proc.ok => fga[m] = Tuples(sqlRole[m])

\* A member no known gap has touched: OpenFGA holds no relation its role does
\* not give, not even while somebody works on it, and only one works on it.
Closed(m) == m \notin exposed =>
    /\ fga[m] \subseteq Tuples(sqlRole[m])
    /\ \A c \in Clients : WorksOn(c, m) =>
         /\ RequestFits(c, m)
         /\ ~ProcOn(m)
         /\ \A d \in Clients : WorksOn(d, m) => d = c
    /\ ProcOn(m) => RunFits(m)

\* The fields of a request that do not depend on what others do.
Shape(c) == req[c].pc # "idle" =>
    /\ req[c].op = "remove" <=> req[c].new = "none"
    /\ req[c].pc = "revoke" => req[c].op # "recover"
    /\ req[c].pc = "grant" => req[c].op # "remove"
    /\ req[c].pc = "mark" => req[c].op = "patch"
    /\ req[c].op = "patch" /\ req[c].pc \in {"grant", "mark"} =>
         req[c].row \in DOMAIN rows /\ rows[req[c].row].m = req[c].m

\* A queued tuple names a role that may be out of date by now.
WritesExposed == \A i \in DOMAIN rows : rows[i].kind = "write" => rows[i].m \in exposed

ClosedInv ==
    /\ WritesExposed
    /\ \A c \in Clients : Shape(c)
    /\ \A m \in Members : Closed(m)

\* A role has at most one relation, and a member has one.
LEMMA TuplesOfRole ==
    /\ Tuples("none") = {} /\ Tuples("ADMIN") = {"admin"} /\ Tuples("MEMBER") = {"member"}
    /\ \A role \in Roles \cup {"none"} : Tuples(role) \ {as_fga_relation(role)} = {}
    /\ \A role \in Roles : Tuples(role) = {as_fga_relation(role)}
BY DEF Tuples, as_fga_relation, Roles

\* A step that changes one request's place only.
LEMMA GotoSlot ==
    ASSUME TypeOK, NEW c \in Clients, req[c].pc # "idle",
           NEW pc \in {"guard", "revoke", "commit", "grant", "enqueue", "mark"}, Goto(c, pc)
    PROVE  /\ req'[c].pc = pc /\ req'[c].op = req[c].op /\ req'[c].m = req[c].m
           /\ req'[c].old = req[c].old /\ req'[c].new = req[c].new /\ req'[c].row = req[c].row
           /\ \A d \in Clients \ {c} : req'[d] = req[d]
<1>1. req[c] \in Requests
  BY NotIdle
<1>2. req'[c] = [req[c] EXCEPT !.pc = pc]
  BY DEF Goto, TypeOK
<1> QED BY <1>1, <1>2 DEF Goto, TypeOK, Requests

\* The slot of a request that has ended.
LEMMA ReturnSlot ==
    ASSUME TypeOK, NEW c \in Clients, Return(c)
    PROVE  /\ req'[c].pc = "idle"
           /\ \A d \in Clients \ {c} : req'[d] = req[d]
BY DEF Return, TypeOK, Idle

\* Rows keep their kind and member: they are appended and marked.
RowsKept == \A i \in DOMAIN rows :
    /\ i \in DOMAIN rows' /\ rows'[i].m = rows[i].m /\ rows'[i].kind = rows[i].kind

\* A member on whom a step does no work.
LEMMA ClosedFrame ==
    ASSUME TypeOK, RowsKept, NEW m \in Members, Closed(m), exposed \subseteq exposed',
           fga'[m] = fga[m], sqlRole'[m] = sqlRole[m],
           \A c \in Clients : WorksOn(c, m)' => req'[c] = req[c],
           ProcOn(m)' => proc' = proc
    PROVE  Closed(m)'
<1> SUFFICES ASSUME m \notin exposed PROVE Closed(m)'
  BY DEF Closed
<1>1. ASSUME NEW c \in Clients, WorksOn(c, m)'
      PROVE  WorksOn(c, m) /\ (RequestFits(c, m) => RequestFits(c, m)')
  BY <1>1 DEF WorksOn, RequestFits
<1>2. ASSUME ProcOn(m)' PROVE ProcOn(m) /\ (RunFits(m) => RunFits(m)')
  <2>1. proc.row \in DOMAIN rows /\ proc' = proc
    BY <1>2 DEF ProcOn, TypeOK
  <2> QED BY <1>2, <2>1 DEF ProcOn, RunFits, RowsKept
<1> QED BY <1>1, <1>2 DEF Closed

\* A step of the one request that works on member m.
LEMMA ClosedStep ==
    ASSUME TypeOK, RowsKept, NEW m \in Members, Closed(m), exposed \subseteq exposed',
           NEW c \in Clients, WorksOn(c, m), \A d \in Clients \ {c} : req'[d] = req[d],
           UNCHANGED proc,
           m \notin exposed' =>
               /\ fga'[m] \subseteq Tuples(sqlRole'[m])
               /\ WorksOn(c, m)' => RequestFits(c, m)'
    PROVE  Closed(m)'
<1> SUFFICES ASSUME m \notin exposed' PROVE Closed(m)'
  BY DEF Closed
<1>0. m \notin exposed
  OBVIOUS
<1>1. \A d \in Clients : WorksOn(d, m)' => d = c
  BY <1>0 DEF Closed, WorksOn
<1>2. ~ProcOn(m)'
  <2>1. ~ProcOn(m)
    BY <1>0 DEF Closed
  <2>2. proc.pc \in {"call", "mark"} => proc.row \in DOMAIN rows
    BY DEF TypeOK
  <2> QED BY <2>1, <2>2 DEF ProcOn, RowsKept
<1> QED BY <1>1, <1>2 DEF Closed

\* A step of one request leaves the others' members as they are.
LEMMA OthersClosed ==
    ASSUME TypeOK, ClosedInv, RowsKept, exposed \subseteq exposed', NEW c \in Clients,
           NEW m \in Members, \A d \in Clients \ {c} : req'[d] = req[d],
           req'[c].pc = "idle" \/ req'[c].m = m, UNCHANGED proc,
           \A n \in Members \ {m} : fga'[n] = fga[n] /\ sqlRole'[n] = sqlRole[n]
    PROVE  \A n \in Members \ {m} : Closed(n)'
<1> SUFFICES ASSUME NEW n \in Members \ {m} PROVE Closed(n)'
  OBVIOUS
<1>1. \A d \in Clients : WorksOn(d, n)' => req'[d] = req[d]
  BY DEF WorksOn
<1> QED BY <1>1, ClosedFrame DEF ClosedInv

\* The table of a step that queues nothing, appends a row or marks one.
LEMMA RowsKeptBy ==
    ASSUME TypeOK
    PROVE  /\ UNCHANGED rows => RowsKept
           /\ \A r \in OutboxRows : rows' = Append(rows, r) =>
                /\ RowsKept /\ DOMAIN rows' = DOMAIN rows \cup {Len(rows')}
                /\ rows'[Len(rows')] = r /\ Len(rows') \in DOMAIN rows'
<1>1. rows \in Seq(OutboxRows) /\ Len(rows) \in Nat /\ DOMAIN rows = 1..Len(rows)
  BY DEF TypeOK
<1>2. ASSUME NEW r \in OutboxRows, rows' = Append(rows, r)
      PROVE  /\ RowsKept /\ DOMAIN rows' = DOMAIN rows \cup {Len(rows')}
             /\ rows'[Len(rows')] = r /\ Len(rows') \in DOMAIN rows'
  <2>1. /\ Len(rows') = Len(rows) + 1 /\ DOMAIN rows' = 1..(Len(rows) + 1)
        /\ rows'[Len(rows) + 1] = r /\ \A i \in 1..Len(rows) : rows'[i] = rows[i]
    BY <1>1, <1>2
  <2> QED BY <1>1, <2>1 DEF RowsKept
<1> QED BY <1>2 DEF RowsKept

\* Marking a row changes neither its member nor its kind.
LEMMA RowMarked ==
    ASSUME TypeOK, NEW k, NEW r, rows' = [rows EXCEPT ![k] = r],
           k \in DOMAIN rows => r.m = rows[k].m /\ r.kind = rows[k].kind
    PROVE  RowsKept /\ DOMAIN rows' = DOMAIN rows
<1>1. rows \in Seq(OutboxRows) /\ DOMAIN rows = 1..Len(rows) /\ rows = [i \in 1..Len(rows) |-> rows[i]]
  BY DEF TypeOK
<1>2. DOMAIN rows' = DOMAIN rows
  BY <1>1
<1>3. \A i \in DOMAIN rows : rows'[i] = IF i = k THEN r ELSE rows[i]
  BY <1>1
<1> QED BY <1>2, <1>3 DEF RowsKept

\* A queued tuple exposes its member, and nothing else queues one.
LEMMA WritesStayExposed ==
    ASSUME WritesExposed, RowsKept, exposed \subseteq exposed',
           \A i \in DOMAIN rows' \ DOMAIN rows : rows'[i].kind = "write" => rows'[i].m \in exposed'
    PROVE  WritesExposed'
BY DEF WritesExposed, RowsKept

\* A request in progress makes a step: it is enough to look at its own member.
LEMMA RequestClosed ==
    ASSUME TypeOK, ClosedInv, RowsKept, exposed \subseteq exposed', NEW c \in Clients,
           NEW m \in Members, req[c].m = m,
           req[c].pc # "idle", \A d \in Clients \ {c} : req'[d] = req[d],
           req'[c].pc = "idle" \/ req'[c].m = m, UNCHANGED proc,
           \A n \in Members \ {m} : fga'[n] = fga[n] /\ sqlRole'[n] = sqlRole[n],
           WritesExposed', Shape(c)',
           m \notin exposed' =>
               /\ fga'[m] \subseteq Tuples(sqlRole'[m])
               /\ req'[c].pc # "idle" => RequestFits(c, m)'
    PROVE  ClosedInv'
<1>1. \A n \in Members \ {m} : Closed(n)'
  BY OthersClosed
<1>2. Closed(m)'
  BY ClosedStep DEF ClosedInv, WorksOn
<1>3. \A d \in Clients : Shape(d)'
  BY DEF ClosedInv, Shape, RowsKept
<1> QED BY <1>1, <1>2, <1>3 DEF ClosedInv

\* A request begins; where somebody works on the member already, the member is
\* exposed.
LEMMA BeginClosed ==
    ASSUME TypeOK, ClosedInv, NEW c \in Clients, NEW m \in Members,
           NEW pc, NEW op, NEW old, NEW new, Begin(c, pc, op, m, old, new),
           UNCHANGED <<fga, rows, proc>>, op = "remove" <=> new = "none",
           \A n \in Members \ {m} : sqlRole'[n] = sqlRole[n],
           \/ pc = "guard" /\ UNCHANGED sqlRole
           \/ pc = "revoke" /\ op # "recover" /\ UNCHANGED sqlRole
           \/ pc = "grant" /\ op = "add" /\ sqlRole[m] = "none" /\ sqlRole'[m] = new
    PROVE  ClosedInv'
<1>1. /\ req'[c] = [pc |-> pc, op |-> op, m |-> m, old |-> old, new |-> new, row |-> 0]
      /\ \A d \in Clients \ {c} : req'[d] = req[d]
  BY BeginSlot
<1>2. RowsKept
  BY RowsKeptBy
<1>3. exposed \subseteq exposed' /\ (m \notin exposed' => ~Busy(m) /\ m \notin exposed)
  BY DEF Begin
<1>4. \A n \in Members \ {m} : Closed(n)'
  BY <1>1, <1>2, <1>3, OthersClosed
<1>5. Closed(m)'
  <2> SUFFICES ASSUME m \notin exposed' PROVE Closed(m)'
    BY DEF Closed
  <2>1. fga'[m] \subseteq Tuples(sqlRole'[m])
    BY <1>3, TuplesOfRole DEF ClosedInv, Closed
  <2>2. \A d \in Clients : WorksOn(d, m)' => d = c
    BY <1>1, <1>3 DEF Busy, WorksOn
  <2>3. ~ProcOn(m)'
    BY <1>3 DEF Busy, ProcOn
  <2>4. RequestFits(c, m)'
    BY <1>1 DEF RequestFits
  <2> QED BY <2>1, <2>2, <2>3, <2>4 DEF Closed
<1>6. \A d \in Clients : Shape(d)'
  <2>1. Shape(c)'
    BY <1>1 DEF Shape
  <2> QED BY <1>1, <1>2, <2>1 DEF ClosedInv, Shape, RowsKept
<1>7. WritesExposed'
  BY <1>3 DEF ClosedInv, WritesExposed
<1> QED BY <1>4, <1>5, <1>6, <1>7 DEF ClosedInv

\* The requests, one step per action.
LEMMA RequestKeepsClosed ==
    ASSUME TypeOK, PathInv, ClosedInv, NEW c \in Clients, Request(c)
    PROVE  ClosedInv'
<1>1. ASSUME NEW m \in Members, NEW role \in Roles, AddMember(c, m, role)
      PROVE  ClosedInv'
  <2>1. /\ Begin(c, "grant", "add", m, "none", role) /\ UNCHANGED <<fga, rows, proc>>
        /\ sqlRole[m] = "none" /\ sqlRole' = [sqlRole EXCEPT ![m] = role] /\ role # "none"
    BY <1>1 DEF AddMember, Roles
  <2>2. sqlRole'[m] = role /\ \A n \in Members \ {m} : sqlRole'[n] = sqlRole[n]
    BY <2>1 DEF TypeOK
  <2> QED BY <2>1, <2>2, BeginClosed
<1>2. ASSUME NEW m \in Members, NEW role \in Roles, ChangeRole(c, m, role)
      PROVE  ClosedInv'
  <2>1. /\ UNCHANGED <<sqlRole, fga, rows, proc>> /\ role # "none"
        /\ \/ Begin(c, "guard", "patch", m, sqlRole[m], role)
           \/ Begin(c, "revoke", "patch", m, sqlRole[m], role)
    BY <1>2 DEF ChangeRole, Roles
  <2> QED BY <2>1, BeginClosed
<1>3. ASSUME NEW m \in Members, RemoveMember(c, m)
      PROVE  ClosedInv'
  <2>1. /\ UNCHANGED <<sqlRole, fga, rows, proc>>
        /\ \/ Begin(c, "guard", "remove", m, sqlRole[m], "none")
           \/ Begin(c, "revoke", "remove", m, sqlRole[m], "none")
    BY <1>3 DEF RemoveMember
  <2> QED BY <2>1, BeginClosed
<1>4. ASSUME NEW m \in Members, RecoverAdmin(c, m)
      PROVE  ClosedInv'
  <2>1. /\ UNCHANGED <<sqlRole, fga, rows, proc>>
        /\ Begin(c, "guard", "recover", m, "none", "ADMIN")
    BY <1>4 DEF RecoverAdmin
  <2> QED BY <2>1, BeginClosed
<1>s. ASSUME req[c].pc # "idle"
      PROVE  /\ req[c] \in Requests /\ req[c].m \in Members /\ Shape(c)
             /\ \A m : m = req[c].m /\ m \notin exposed =>
                   fga[m] \subseteq Tuples(sqlRole[m]) /\ RequestFits(c, m)
  BY <1>s, NotIdle, RequestTypes DEF ClosedInv, Closed, WorksOn
<1>w. ASSUME UNCHANGED rows, exposed \subseteq exposed' PROVE RowsKept /\ WritesExposed'
  BY <1>w, RowsKeptBy DEF ClosedInv, WritesExposed
<1>5. CASE Guard(c)
  <2>0. /\ req[c].pc = "guard" /\ UNCHANGED <<fga, sqlRole, rows, exposed, proc>>
        /\ \/ Return(c)
           \/ Goto(c, "revoke") /\ req[c].op # "recover"
           \/ Goto(c, "commit") /\ req[c].op = "recover"
    BY <1>5 DEF Guard
  <2>1. PICK m \in Members : m = req[c].m
    BY <1>s, <2>0
  <2>2. /\ req'[c].pc = "idle" \/ req'[c].m = m
        /\ \A d \in Clients \ {c} : req'[d] = req[d]
        /\ Shape(c)' /\ (req'[c].pc # "idle" => RequestFits(c, m)')
    <3>1. CASE Return(c)
      BY <3>1, ReturnSlot DEF Shape
    <3>2. CASE Goto(c, "revoke") /\ req[c].op # "recover"
      BY <1>s, <2>0, <2>1, <3>2, GotoSlot DEF Shape, RequestFits
    <3>3. CASE Goto(c, "commit") /\ req[c].op = "recover"
      BY <1>s, <2>0, <2>1, <3>3, GotoSlot DEF Shape, RequestFits
    <3> QED BY <2>0, <3>1, <3>2, <3>3
  <2> QED BY <1>s, <1>w, <2>0, <2>1, <2>2, RequestClosed
<1>6. CASE Revoke(c)
  <2>0. /\ req[c].pc = "revoke" /\ UNCHANGED <<sqlRole, rows, exposed, proc>>
        /\ Return(c) \/ Goto(c, "enqueue") \/ Goto(c, "commit")
    BY <1>6 DEF Revoke
  <2>1. PICK m \in Members : m = req[c].m
    BY <1>s, <2>0
  <2>2. /\ fga' = fga /\ (Return(c) \/ Goto(c, "enqueue"))
        \/ fga' = [fga EXCEPT ![m] = fga[m] \ {RevokedRelation(c)}]
    BY <1>6, <2>1 DEF Revoke, AppliedOrNot
  <2>3. sqlRole[m] = req[c].old /\ req[c].op # "recover"
    BY <1>s, <2>0, <2>1 DEF PathInv, LockInv, Locked, InTransaction, Shape
  <2>4. \A n \in Members \ {m} : fga'[n] = fga[n]
    BY <2>2 DEF TypeOK
  <2>5. ASSUME m \notin exposed
        PROVE  /\ fga'[m] \subseteq Tuples(sqlRole[m])
               /\ Return(c) \/ Goto(c, "enqueue") \/ fga'[m] = {}
    <3>1. fga[m] \subseteq Tuples(sqlRole[m]) /\ sqlRole[m] \in Roles \cup {"none"}
      BY <1>s, <2>0, <2>1, <2>5 DEF TypeOK
    <3>2. fga[m] \ {RevokedRelation(c)} = {}
      BY <2>3, <3>1, TuplesOfRole DEF RevokedRelation
    <3> QED BY <2>2, <3>1, <3>2 DEF TypeOK
  <2>6. /\ req'[c].pc = "idle" \/ req'[c].m = m
        /\ \A d \in Clients \ {c} : req'[d] = req[d]
        /\ Shape(c)' /\ (m \notin exposed /\ req'[c].pc # "idle" => RequestFits(c, m)')
    <3>1. CASE Return(c)
      BY <3>1, ReturnSlot DEF Shape
    <3>2. CASE Goto(c, "enqueue")
      BY <1>s, <2>0, <2>1, <3>2, GotoSlot DEF Shape, RequestFits
    <3>3. CASE Goto(c, "commit")
      <4>1. /\ req'[c].pc = "commit" /\ req'[c].op = req[c].op /\ req'[c].m = m
            /\ req'[c].new = req[c].new
            /\ \A d \in Clients \ {c} : req'[d] = req[d]
        BY <2>0, <2>1, <3>3, GotoSlot
      <4>2. ~Return(c) /\ ~Goto(c, "enqueue")
        <5>1. Return(c) => req'[c].pc = "idle"
          BY ReturnSlot
        <5>2. Goto(c, "enqueue") => req'[c].pc = "enqueue"
          BY <2>0, GotoSlot
        <5> QED BY <4>1, <5>1, <5>2
      <4> QED BY <1>s, <2>0, <2>5, <4>1, <4>2 DEF Shape, RequestFits
    <3> QED BY <2>0, <3>1, <3>2, <3>3
  <2> QED BY <1>s, <1>w, <2>0, <2>1, <2>4, <2>5, <2>6, RequestClosed
<1>7. CASE Abandon(c)
  <2>0. /\ req[c].pc # "idle" /\ UNCHANGED <<fga, sqlRole, rows, exposed, proc>> /\ Return(c)
    BY <1>7 DEF Abandon
  <2>1. PICK m \in Members : m = req[c].m
    BY <1>s, <2>0
  <2>2. /\ req'[c].pc = "idle" /\ Shape(c)'
        /\ \A d \in Clients \ {c} : req'[d] = req[d]
    BY <2>0, ReturnSlot DEF Shape
  <2> QED BY <1>s, <1>w, <2>0, <2>1, <2>2, RequestClosed
<1>8. CASE Commit(c)
  <2>0. req[c].pc = "commit" /\ UNCHANGED <<fga, proc>> /\ Locked(c)
    BY <1>8 DEF Commit, PathInv, LockInv, InTransaction
  <2>1. PICK m \in Members : m = req[c].m
    BY <1>s, <2>0
  <2>2. /\ Write(c) \/ UNCHANGED <<sqlRole, rows, exposed>>
        /\ \/ Return(c) \/ Goto(c, "enqueue")
           \/ /\ Write(c) /\ req[c].op # "remove"
              /\ req' = [req EXCEPT ![c].pc = "grant", ![c].row = Len(rows')]
    BY <1>8 DEF Commit
  <2>r. Row("sync", m, "none") \in OutboxRows /\ Row("sync", m, "none").m = m
        /\ Row("sync", m, "none").kind = "sync"
    BY DEF Row, OutboxRows, SyncRows, Statuses
  <2>3. /\ RowsKept
        /\ \A i \in DOMAIN rows' \ DOMAIN rows : rows'[i].kind # "write"
        /\ Write(c) /\ req[c].op = "patch" =>
             Len(rows') \in DOMAIN rows' /\ rows'[Len(rows')].m = m
    <3>1. CASE rows' = Append(rows, Row("sync", m, "none"))
      BY <2>r, <3>1, RowsKeptBy
    <3>2. CASE UNCHANGED rows /\ ~(Write(c) /\ req[c].op = "patch")
      BY <3>2, RowsKeptBy
    <3>3. \/ rows' = Append(rows, Row("sync", m, "none"))
          \/ UNCHANGED rows /\ ~(Write(c) /\ req[c].op = "patch")
      BY <2>1, <2>2 DEF Write
    <3> QED BY <3>1, <3>2, <3>3
  <2>4. exposed \subseteq exposed' /\ \A n \in Members \ {m} : sqlRole'[n] = sqlRole[n]
    BY <2>1, <2>2 DEF Write, TypeOK
  <2>5. WritesExposed'
    BY <2>3, <2>4, WritesStayExposed DEF ClosedInv
  <2>6. ASSUME m \notin exposed' PROVE fga'[m] \subseteq Tuples(sqlRole'[m])
    <3>1. m \notin exposed /\ fga[m] \subseteq Tuples(sqlRole[m]) /\ fga' = fga
      BY <1>s, <2>0, <2>1, <2>4, <2>6
    <3>2. CASE UNCHANGED sqlRole
      BY <3>1, <3>2
    <3>3. CASE Write(c) /\ req[c].op # "recover"
      <4>1. fga[m] = {}
        BY <1>s, <2>0, <2>1, <3>1, <3>3 DEF RequestFits
      <4> QED BY <3>1, <4>1
    <3>4. CASE Write(c) /\ req[c].op = "recover"
      <4>1. sqlRole'[m] = "ADMIN"
        BY <2>0, <2>1, <3>4 DEF Write, Locked, TypeOK
      <4>2. sqlRole[m] # "MEMBER" /\ sqlRole[m] \in Roles \cup {"none"}
        BY <2>1, <2>6, <3>4 DEF Write, TypeOK
      <4>3. sqlRole[m] \in {"ADMIN", "none"}
        BY <4>2 DEF Roles
      <4> QED BY <3>1, <4>1, <4>3, TuplesOfRole
    <3> QED BY <2>2, <3>2, <3>3, <3>4
  <2>7. /\ req'[c].pc = "idle" \/ req'[c].m = m
        /\ \A d \in Clients \ {c} : req'[d] = req[d]
        /\ Shape(c)' /\ (req'[c].pc # "idle" => RequestFits(c, m)')
    <3>1. CASE Return(c)
      BY <3>1, ReturnSlot DEF Shape
    <3>2. CASE Goto(c, "enqueue")
      BY <1>s, <2>0, <2>1, <3>2, GotoSlot DEF Shape, RequestFits
    <3>3. CASE /\ Write(c) /\ req[c].op # "remove"
               /\ req' = [req EXCEPT ![c].pc = "grant", ![c].row = Len(rows')]
      <4>1. /\ req'[c] = [req[c] EXCEPT !.pc = "grant", !.row = Len(rows')]
            /\ \A d \in Clients \ {c} : req'[d] = req[d]
        BY <3>3 DEF TypeOK
      <4>2. /\ req'[c].pc = "grant" /\ req'[c].row = Len(rows') /\ req'[c].op = req[c].op
            /\ req'[c].m = m /\ req'[c].new = req[c].new
        BY <1>s, <2>0, <2>1, <4>1 DEF Requests
      <4>3. sqlRole'[m] = req[c].new
        BY <2>1, <3>3 DEF Write, TypeOK
      <4>4. req[c].op # "remove" /\ req[c].new # "none"
        BY <1>s, <2>0, <3>3 DEF Shape
      <4> QED BY <2>3, <3>3, <4>1, <4>2, <4>3, <4>4 DEF Shape, RequestFits
    <3> QED BY <2>2, <3>1, <3>2, <3>3
  <2>8. \A n \in Members \ {m} : fga'[n] = fga[n]
    BY <2>0
  <2> HIDE DEF Shape
  <2> QED BY <2>0, <2>1, <2>3, <2>4, <2>5, <2>6, <2>7, <2>8, RequestClosed
<1>9. CASE Grant(c)
  <2>0. /\ req[c].pc = "grant" /\ UNCHANGED <<sqlRole, rows, exposed, proc>>
        /\ \/ Return(c) \/ Goto(c, "enqueue")
           \/ Goto(c, "mark") /\ req[c].op = "patch"
    BY <1>9 DEF Grant
  <2>1. PICK m \in Members : m = req[c].m
    BY <1>s, <2>0
  <2>2. \/ fga' = fga /\ (Return(c) \/ Goto(c, "enqueue"))
        \/ fga' = [fga EXCEPT ![m] = fga[m] \cup {GrantedRelation(c)}]
    BY <1>9, <2>1 DEF Grant, AppliedOrNot
  <2>4. \A n \in Members \ {m} : fga'[n] = fga[n]
    BY <2>2 DEF TypeOK
  <2>5. ASSUME m \notin exposed
        PROVE  /\ fga'[m] \subseteq Tuples(sqlRole[m])
               /\ Return(c) \/ Goto(c, "enqueue") \/ fga'[m] = Tuples(sqlRole[m])
    <3>1. fga[m] \subseteq Tuples(sqlRole[m]) /\ sqlRole[m] = req[c].new
      BY <1>s, <2>0, <2>1, <2>5 DEF RequestFits
    <3>2. req[c].new \in Roles
      BY <1>s, <2>0 DEF Shape, Requests
    <3>3. Tuples(sqlRole[m]) = {GrantedRelation(c)}
      BY <3>1, <3>2, TuplesOfRole DEF GrantedRelation
    <3> QED BY <2>2, <3>1, <3>3 DEF TypeOK
  <2>6. /\ req'[c].pc = "idle" \/ req'[c].m = m
        /\ \A d \in Clients \ {c} : req'[d] = req[d]
        /\ Shape(c)' /\ (m \notin exposed /\ req'[c].pc # "idle" => RequestFits(c, m)')
    <3>1. CASE Return(c)
      BY <3>1, ReturnSlot DEF Shape
    <3>2. CASE Goto(c, "enqueue")
      BY <1>s, <2>0, <2>1, <3>2, GotoSlot DEF Shape, RequestFits
    <3>3. CASE Goto(c, "mark") /\ req[c].op = "patch"
      <4>1. /\ req'[c].pc = "mark" /\ req'[c].op = "patch" /\ req'[c].m = m
            /\ req'[c].new = req[c].new /\ req'[c].row = req[c].row
            /\ \A d \in Clients \ {c} : req'[d] = req[d]
        BY <2>0, <2>1, <3>3, GotoSlot
      <4>2. ~Return(c) /\ ~Goto(c, "enqueue")
        <5>1. Return(c) => req'[c].pc = "idle"
          BY ReturnSlot
        <5>2. Goto(c, "enqueue") => req'[c].pc = "enqueue"
          BY <2>0, GotoSlot
        <5> QED BY <4>1, <5>1, <5>2
      <4>3. Shape(c)'
        BY <1>s, <2>0, <2>1, <3>3, <4>1 DEF Shape
      <4> QED BY <2>0, <2>5, <4>1, <4>2, <4>3 DEF RequestFits
    <3> QED BY <2>0, <3>1, <3>2, <3>3
  <2> QED BY <1>s, <1>w, <2>0, <2>1, <2>4, <2>5, <2>6, RequestClosed
<1>10. CASE Enqueue(c)
  <2>0. req[c].pc = "enqueue" /\ UNCHANGED <<sqlRole, fga, proc>> /\ Return(c)
    BY <1>10 DEF Enqueue
  <2>1. PICK m \in Members : m = req[c].m
    BY <1>s, <2>0
  <2>2. \/ UNCHANGED <<rows, exposed>>
        \/ rows' = Append(rows, Row("sync", m, "none")) /\ UNCHANGED exposed
        \/ /\ \E rel \in Relations : rows' = Append(rows, Row("write", m, rel))
           /\ exposed' = exposed \cup {m}
    BY <1>10, <2>1 DEF Enqueue, GrantedRelation, RevokedRelation, as_fga_relation, Relations
  <2>3. /\ RowsKept /\ exposed \subseteq exposed'
        /\ \A i \in DOMAIN rows' \ DOMAIN rows : rows'[i].kind = "write" => rows'[i].m \in exposed'
    <3>1. CASE UNCHANGED <<rows, exposed>>
      BY <3>1, RowsKeptBy
    <3>2. CASE rows' = Append(rows, Row("sync", m, "none")) /\ UNCHANGED exposed
      <4>1. Row("sync", m, "none") \in OutboxRows /\ Row("sync", m, "none").kind = "sync"
        BY DEF Row, OutboxRows, SyncRows, Statuses
      <4> QED BY <3>2, <4>1, RowsKeptBy
    <3>3. ASSUME NEW rel \in Relations, rows' = Append(rows, Row("write", m, rel)),
                 exposed' = exposed \cup {m}
          PROVE  /\ RowsKept /\ exposed \subseteq exposed'
                 /\ \A i \in DOMAIN rows' \ DOMAIN rows : rows'[i].kind = "write" => rows'[i].m \in exposed'
      <4>1. Row("write", m, rel) \in OutboxRows /\ Row("write", m, rel).m = m
        BY DEF Row, OutboxRows, WriteRows, Statuses
      <4> QED BY <3>3, <4>1, RowsKeptBy
    <3> QED BY <2>2, <3>1, <3>2, <3>3
  <2>4. WritesExposed'
    BY <2>3, WritesStayExposed DEF ClosedInv
  <2>5. /\ req'[c].pc = "idle" /\ Shape(c)'
        /\ \A d \in Clients \ {c} : req'[d] = req[d]
    BY <2>0, ReturnSlot DEF Shape
  <2> QED BY <1>s, <2>0, <2>1, <2>3, <2>4, <2>5, RequestClosed
<1>11. CASE MarkOwnRow(c)
  <2>0. /\ req[c].pc = "mark" /\ UNCHANGED <<sqlRole, fga, exposed, proc>> /\ Return(c)
        /\ UNCHANGED rows \/ rows' = [rows EXCEPT ![req[c].row].status = "PROCESSED"]
    BY <1>11 DEF MarkOwnRow
  <2>1. PICK m \in Members : m = req[c].m
    BY <1>s, <2>0
  <2>2. RowsKept /\ DOMAIN rows' = DOMAIN rows
    <3>1. CASE UNCHANGED rows
      BY <3>1, RowsKeptBy
    <3>2. CASE rows' = [rows EXCEPT ![req[c].row].status = "PROCESSED"]
      <4>1. PICK r : r = [rows[req[c].row] EXCEPT !.status = "PROCESSED"]
        OBVIOUS
      <4>2. ASSUME req[c].row \in DOMAIN rows
            PROVE  r.m = rows[req[c].row].m /\ r.kind = rows[req[c].row].kind
        <5>1. rows[req[c].row] \in OutboxRows
          BY <4>2 DEF TypeOK
        <5> QED BY <4>1, <5>1 DEF OutboxRows, SyncRows, WriteRows
      <4> QED BY <3>2, <4>1, <4>2, RowMarked
    <3> QED BY <2>0, <3>1, <3>2
  <2>3. WritesExposed'
    BY <2>0, <2>2, WritesStayExposed DEF ClosedInv
  <2>4. /\ req'[c].pc = "idle" /\ Shape(c)'
        /\ \A d \in Clients \ {c} : req'[d] = req[d]
    BY <2>0, ReturnSlot DEF Shape
  <2> QED BY <1>s, <2>0, <2>1, <2>2, <2>3, <2>4, RequestClosed
<1> QED BY <1>1, <1>2, <1>3, <1>4, <1>5, <1>6, <1>7, <1>8, <1>9, <1>10, <1>11 DEF Request

\* What one call makes of the relations of a member.
Done(held, call) == IF call.del THEN held \ {call.rel} ELSE held \cup {call.rel}

\* A role sync takes the other relation away before it gives the right one.
LEMMA SyncCallsDo ==
    ASSUME NEW role \in Roles \cup {"none"}, NEW held \in SUBSET Tuples(role),
           NEW calls \in {SyncCalls(role), <<SyncCalls(role)[2]>>}
    PROVE  /\ Done(held, Head(calls)) \subseteq Tuples(role)
           /\ Len(calls) = 1 => Done(held, Head(calls)) = Tuples(role)
           /\ Len(calls) # 1 => Tail(calls) = <<SyncCalls(role)[2]>>
<1>1. CASE role = "ADMIN"
  <2>1. PICK x, y : x = [del |-> TRUE, rel |-> "member"] /\ y = [del |-> FALSE, rel |-> "admin"]
    OBVIOUS
  <2>2. SyncCalls(role) = <<x, y>> /\ Tuples(role) = {"admin"}
    BY <1>1, <2>1, TuplesOfRole DEF SyncCalls
  <2>3. Done(held, x) \subseteq {"admin"} /\ Done(held, y) = {"admin"}
    BY <2>1, <2>2 DEF Done
  <2>4. CASE calls = <<x, y>>
    <3>1. Head(calls) = x /\ Len(calls) = 2 /\ Tail(calls) = <<y>>
      BY <2>4
    <3> QED BY <2>2, <2>3, <3>1
  <2>5. CASE calls = <<y>>
    <3>1. Head(calls) = y /\ Len(calls) = 1
      BY <2>5
    <3> QED BY <2>2, <2>3, <3>1
  <2> QED BY <2>2, <2>4, <2>5
<1>2. CASE role = "MEMBER"
  <2>1. PICK x, y : x = [del |-> TRUE, rel |-> "admin"] /\ y = [del |-> FALSE, rel |-> "member"]
    OBVIOUS
  <2>2. SyncCalls(role) = <<x, y>> /\ Tuples(role) = {"member"}
    BY <1>2, <2>1, TuplesOfRole DEF SyncCalls
  <2>3. Done(held, x) \subseteq {"member"} /\ Done(held, y) = {"member"}
    BY <2>1, <2>2 DEF Done
  <2>4. CASE calls = <<x, y>>
    <3>1. Head(calls) = x /\ Len(calls) = 2 /\ Tail(calls) = <<y>>
      BY <2>4
    <3> QED BY <2>2, <2>3, <3>1
  <2>5. CASE calls = <<y>>
    <3>1. Head(calls) = y /\ Len(calls) = 1
      BY <2>5
    <3> QED BY <2>2, <2>3, <3>1
  <2> QED BY <2>2, <2>4, <2>5
<1>3. CASE role = "none"
  <2>1. PICK x, y : x = [del |-> TRUE, rel |-> "admin"] /\ y = [del |-> TRUE, rel |-> "member"]
    OBVIOUS
  <2>2. SyncCalls(role) = <<x, y>> /\ Tuples(role) = {}
    BY <1>3, <2>1, TuplesOfRole DEF SyncCalls
  <2>3. Done(held, x) \subseteq {} /\ Done(held, y) = {}
    BY <2>1, <2>2 DEF Done
  <2>4. CASE calls = <<x, y>>
    <3>1. Head(calls) = x /\ Len(calls) = 2 /\ Tail(calls) = <<y>>
      BY <2>4
    <3> QED BY <2>2, <2>3, <3>1
  <2>5. CASE calls = <<y>>
    <3>1. Head(calls) = y /\ Len(calls) = 1
      BY <2>5
    <3> QED BY <2>2, <2>3, <3>1
  <2> QED BY <2>2, <2>4, <2>5
<1> QED BY <1>1, <1>2, <1>3 DEF Roles

\* A step of the processor: it is enough to look at the member of its row.
LEMMA RunClosed ==
    ASSUME TypeOK, ClosedInv, RowsKept, exposed \subseteq exposed', WritesExposed',
           UNCHANGED <<req, sqlRole>>,
           \A n \in Members : ~ProcOn(n)' => fga'[n] = fga[n],
           \A n \in Members : ProcOn(n)' /\ n \notin exposed' =>
               /\ fga'[n] \subseteq Tuples(sqlRole[n]) /\ RunFits(n)'
               /\ \A c \in Clients : ~WorksOn(c, n)
    PROVE  ClosedInv'
<1>1. ASSUME NEW n \in Members PROVE Closed(n)'
  <2>1. CASE ProcOn(n)'
    BY <2>1 DEF Closed, WorksOn
  <2>2. CASE ~ProcOn(n)'
    BY <2>2, ClosedFrame DEF ClosedInv
  <2> QED BY <2>1, <2>2
<1>2. \A d \in Clients : Shape(d)'
  BY DEF ClosedInv, Shape, RowsKept
<1> QED BY <1>1, <1>2 DEF ClosedInv

\* The processor and its stops, one step per action.
LEMMA ProcessorKeepsClosed ==
    ASSUME TypeOK, ClosedInv, Processor \/ StopRun
    PROVE  ClosedInv'
<1>0. UNCHANGED <<req, sqlRole>>
  BY DEF Processor, StartRun, FetchBatch, TakeRow, Call, MarkRow, StopRun, ProcVarsOnly
<1>1. ASSUME UNCHANGED <<fga, rows, exposed>>, proc'.pc \notin {"call", "mark"}
      PROVE  ClosedInv'
  <2>1. RowsKept /\ WritesExposed'
    BY <1>1, RowsKeptBy DEF ClosedInv, WritesExposed
  <2>2. \A n \in Members : ~ProcOn(n)'
    BY <1>1 DEF ProcOn
  <2> QED BY <1>0, <1>1, <2>1, <2>2, RunClosed
<1>2. CASE StartRun
  BY <1>1, <1>2 DEF StartRun
<1>3. CASE FetchBatch
  BY <1>1, <1>3 DEF FetchBatch, ProcIdle
<1>4. CASE StopRun
  BY <1>1, <1>4 DEF StopRun, ProcIdle
<1>5. CASE TakeRow
  <2>0. UNCHANGED <<fga, rows>> /\ proc.pc = "take"
    BY <1>5 DEF TakeRow
  <2>1. PICK i \in proc.todo :
          /\ proc' = [pc |-> "call", handled |-> proc.handled \cup {i},
                      todo |-> proc.todo \ {i}, row |-> i, ok |-> TRUE,
                      calls |-> IF rows[i].kind = "sync" THEN SyncCalls(sqlRole[rows[i].m])
                                ELSE <<[del |-> FALSE, rel |-> rows[i].rel]>>]
          /\ exposed' = IF Busy(rows[i].m) THEN exposed \cup {rows[i].m} ELSE exposed
    BY <1>5 DEF TakeRow
  <2>2. i \in DOMAIN rows
    BY <2>0 DEF TypeOK
  <2>3. rows[i].kind \in {"sync", "write"}
    BY <2>2 DEF TypeOK, OutboxRows, SyncRows, WriteRows
  <2>4. exposed \subseteq exposed' /\ RowsKept /\ WritesExposed'
    BY <2>0, <2>1, RowsKeptBy DEF ClosedInv, WritesExposed
  <2>5. ASSUME NEW n \in Members, ProcOn(n)', n \notin exposed'
        PROVE  /\ fga'[n] \subseteq Tuples(sqlRole[n]) /\ RunFits(n)'
               /\ \A c \in Clients : ~WorksOn(c, n)
    <3>1. n = rows[i].m /\ n \notin exposed /\ ~Busy(n)
      BY <2>0, <2>1, <2>5 DEF ProcOn
    <3>2. rows[i].kind = "sync"
      BY <2>2, <2>3, <3>1 DEF ClosedInv, WritesExposed
    <3>3. fga[n] \subseteq Tuples(sqlRole[n])
      BY <3>1 DEF ClosedInv, Closed
    <3>4. /\ proc'.pc = "call" /\ proc'.row = i /\ proc'.ok
          /\ proc'.calls = SyncCalls(sqlRole[n])
      BY <2>1, <3>1, <3>2
    <3>5. RunFits(n)'
      BY <1>0, <2>0, <3>2, <3>4 DEF RunFits
    <3> QED BY <2>0, <3>1, <3>3, <3>5 DEF Busy, WorksOn
  <2> QED BY <1>0, <2>0, <2>4, <2>5, RunClosed
<1>6. CASE Call
  <2>0. UNCHANGED <<rows, exposed>> /\ proc.pc = "call"
    BY <1>6 DEF Call
  <2>1. proc \in [pc : {"call", "mark"}, handled : SUBSET Nat, todo : SUBSET Nat,
                  row : Nat, ok : BOOLEAN, calls : Seq(Calls)]
    BY <2>0, ProcPhases
  <2>2. proc.row \in DOMAIN rows
    BY <2>0 DEF TypeOK
  <2>3. PICK m \in Members : m = rows[proc.row].m
    BY <2>2 DEF TypeOK, OutboxRows, SyncRows, WriteRows
  <2>4. PICK d : d = Done(fga[m], Head(proc.calls))
    OBVIOUS
  <2>5. \/ /\ fga' = [fga EXCEPT ![m] = d]
           /\ proc' = [proc EXCEPT !.calls = Tail(proc.calls),
                                   !.pc = IF Len(proc.calls) = 1 THEN "mark" ELSE "call"]
        \/ /\ fga' = fga \/ fga' = [fga EXCEPT ![m] = d]
           /\ proc' = [proc EXCEPT !.pc = "mark", !.ok = FALSE]
    BY <1>6, <2>3, <2>4 DEF Call, AppliedOrNot, Done
  <2>6. /\ fga'[m] \in {fga[m], d} /\ \A n \in Members \ {m} : fga'[n] = fga[n]
        /\ proc'.row = proc.row /\ proc'.pc \in {"call", "mark"}
        /\ \/ /\ fga'[m] = d /\ proc'.ok = proc.ok /\ proc'.calls = Tail(proc.calls)
              /\ proc'.pc = IF Len(proc.calls) = 1 THEN "mark" ELSE "call"
           \/ proc'.pc = "mark" /\ ~proc'.ok
    <3>1. /\ fga'[m] \in {fga[m], d} /\ \A n \in Members \ {m} : fga'[n] = fga[n]
          /\ fga' = [fga EXCEPT ![m] = d] => fga'[m] = d
      BY <2>5 DEF TypeOK
    <3>2. CASE /\ fga' = [fga EXCEPT ![m] = d]
               /\ proc' = [proc EXCEPT !.calls = Tail(proc.calls),
                                       !.pc = IF Len(proc.calls) = 1 THEN "mark" ELSE "call"]
      BY <2>1, <3>1, <3>2
    <3>3. CASE proc' = [proc EXCEPT !.pc = "mark", !.ok = FALSE]
      BY <2>1, <3>1, <3>3
    <3> QED BY <2>5, <3>2, <3>3
  <2>7. RowsKept /\ WritesExposed'
    BY <2>0, RowsKeptBy DEF ClosedInv, WritesExposed
  <2>8. \A n \in Members : ProcOn(n)' <=> n = m
    BY <2>0, <2>3, <2>6 DEF ProcOn
  <2>9. ASSUME m \notin exposed
        PROVE  /\ fga'[m] \subseteq Tuples(sqlRole[m]) /\ RunFits(m)'
               /\ \A c \in Clients : ~WorksOn(c, m)
    <3>1. /\ fga[m] \subseteq Tuples(sqlRole[m]) /\ RunFits(m)
          /\ \A c \in Clients : ~WorksOn(c, m)
      BY <2>0, <2>3, <2>9 DEF ClosedInv, Closed, ProcOn
    <3>2. /\ sqlRole[m] \in Roles \cup {"none"}
          /\ proc.ok /\ rows[proc.row].kind = "sync"
          /\ proc.calls \in {SyncCalls(sqlRole[m]), <<SyncCalls(sqlRole[m])[2]>>}
      BY <2>0, <3>1 DEF RunFits, TypeOK
    <3>3. /\ d \subseteq Tuples(sqlRole[m])
          /\ Len(proc.calls) = 1 => d = Tuples(sqlRole[m])
          /\ Len(proc.calls) # 1 => Tail(proc.calls) = <<SyncCalls(sqlRole[m])[2]>>
      BY <2>4, <3>1, <3>2, SyncCallsDo
    <3>4. RunFits(m)'
      BY <1>0, <2>0, <2>6, <3>2, <3>3 DEF RunFits
    <3> QED BY <2>6, <3>1, <3>3, <3>4
  <2> QED BY <1>0, <2>0, <2>6, <2>7, <2>8, <2>9, RunClosed
<1>7. CASE MarkRow
  <2>0. UNCHANGED <<fga, exposed>> /\ proc.pc = "mark" /\ proc'.pc \notin {"call", "mark"}
    BY <1>7 DEF MarkRow, ProcIdle
  <2>1. CASE UNCHANGED rows
    BY <1>1, <2>0, <2>1
  <2>2. CASE rows' = [rows EXCEPT ![proc.row] = Marked(rows[proc.row], proc.ok)]
    <3>1. proc.row \in DOMAIN rows /\ rows[proc.row] \in OutboxRows
      BY <2>0 DEF TypeOK
    <3>2. /\ Marked(rows[proc.row], proc.ok).m = rows[proc.row].m
          /\ Marked(rows[proc.row], proc.ok).kind = rows[proc.row].kind
      BY <3>1 DEF Marked, OutboxRows, SyncRows, WriteRows
    <3>3. RowsKept /\ DOMAIN rows' = DOMAIN rows
      BY <2>2, <3>2, RowMarked
    <3>4. WritesExposed'
      BY <2>0, <3>3, WritesStayExposed DEF ClosedInv
    <3>5. \A n \in Members : ~ProcOn(n)'
      BY <2>0 DEF ProcOn
    <3> QED BY <1>0, <2>0, <3>3, <3>4, <3>5, RunClosed
  <2> QED BY <1>7, <2>1, <2>2 DEF MarkRow
<1> QED BY <1>2, <1>3, <1>4, <1>5, <1>6, <1>7 DEF Processor

\* Every step keeps the invariant.
LEMMA NextKeepsClosed == TypeOK /\ PathInv /\ ClosedInv /\ [Next]_vars => ClosedInv'
<1>1. ASSUME TypeOK, ClosedInv, UNCHANGED vars PROVE ClosedInv'
  BY <1>1 DEF vars, ClosedInv, WritesExposed, Shape, Closed, WorksOn, ProcOn, RequestFits, RunFits
<1> QED BY <1>1, RequestKeepsClosed, ProcessorKeepsClosed DEF Next

\* The invariant of the module: types, lock and relations.
RolesInv == TypeOK /\ PathInv /\ ClosedInv

LEMMA RolesInvHolds == Spec => []RolesInv
<1>1. Init => RolesInv
  <2> SUFFICES ASSUME Init PROVE ClosedInv
    BY InitTyped DEF RolesInv, Init, Idle, PathInv, LockInv, InTransaction, ManagementPathKept
  <2>1. ASSUME NEW m \in Members PROVE Closed(m)
    <3>1. fga[m] = Tuples(sqlRole[m])
      BY DEF Init
    <3>2. ~ProcOn(m) /\ \A c \in Clients : ~WorksOn(c, m)
      BY DEF Init, ProcOn, WorksOn, Idle, ProcIdle
    <3> QED BY <3>1, <3>2 DEF Closed
  <2>2. WritesExposed /\ \A c \in Clients : Shape(c)
    BY DEF Init, WritesExposed, Shape, Idle
  <2> QED BY <2>1, <2>2 DEF ClosedInv
<1>2. RolesInv /\ [Next]_vars => RolesInv'
  BY NextKeepsTypes, NextKeepsPath, NextKeepsClosed DEF RolesInv
<1> QED BY <1>1, <1>2, PTL DEF Spec

\* "Revoke before commit so that every error is fail-closed" (members.rs):
\* whichever call fails, whichever request is dropped between two of its steps
\* and however the processor runs, a member outside the known gaps never holds
\* in OpenFGA a relation its SQL role does not give.
THEOREM FailClosedHolds == Spec => []FailClosed
<1>1. RolesInv => FailClosed
  BY DEF RolesInv, ClosedInv, Closed, FailClosed
<1> QED BY <1>1, RolesInvHolds, PTL

\* The body of SyncSettledInAgreement
Settled == \A i \in DOMAIN rows :
    /\ rows[i].kind = "sync"
    /\ rows[i].status # "PROCESSED" /\ rows'[i].status = "PROCESSED"
    /\ rows[i].m \notin exposed'
    => fga'[rows[i].m] = Tuples(sqlRole'[rows[i].m])

\* A step that marks no row settles none.
LEMMA NothingSettled ==
    ASSUME TypeOK, UNCHANGED rows \/ \E row : rows' = Append(rows, row)
    PROVE  Settled
<1>1. ASSUME NEW row, rows' = Append(rows, row), NEW i \in DOMAIN rows
      PROVE  rows'[i] = rows[i]
  <2>1. rows \in Seq(OutboxRows) /\ DOMAIN rows = 1..Len(rows) /\ Len(rows) \in Nat
    BY DEF TypeOK
  <2>2. PICK S : S = OutboxRows \cup {row}
    OBVIOUS
  <2>3. rows \in Seq(S)
    <3>1. rows \in [1..Len(rows) -> S]
      BY <2>1, <2>2
    <3> QED BY <2>1, <3>1
  <2>4. row \in S
    BY <2>2
  <2>5. \A k \in 1..Len(rows) : Append(rows, row)[k] = rows[k]
    BY <2>3, <2>4
  <2> QED BY <1>1, <2>1, <2>5
<1> QED BY <1>1 DEF Settled

\* Every step: only the processor and the PATCH itself mark a row.
LEMMA NextSettles == RolesInv /\ [Next]_vars => Settled
<1> SUFFICES ASSUME RolesInv, [Next]_vars PROVE Settled
  OBVIOUS
<1> USE DEF RolesInv
<1>r. rows \in Seq(OutboxRows) /\ DOMAIN rows = 1..Len(rows) /\ rows = [i \in 1..Len(rows) |-> rows[i]]
  BY DEF TypeOK
<1>1. CASE MarkRow
  <2>1. /\ proc.pc = "mark" /\ UNCHANGED <<fga, sqlRole, exposed>> /\ proc.row \in DOMAIN rows
        /\ UNCHANGED rows \/ rows' = [rows EXCEPT ![proc.row] = Marked(rows[proc.row], proc.ok)]
    BY <1>1 DEF MarkRow, ProcVarsOnly, TypeOK
  <2>2. CASE UNCHANGED rows
    BY <2>2, NothingSettled
  <2>3. CASE rows' = [rows EXCEPT ![proc.row] = Marked(rows[proc.row], proc.ok)]
    <3>1. \A i \in DOMAIN rows : i # proc.row => rows'[i] = rows[i]
      BY <1>r, <2>1, <2>3
    <3>2. rows'[proc.row] = Marked(rows[proc.row], proc.ok) /\ rows[proc.row] \in OutboxRows
      BY <1>r, <2>1, <2>3
    <3>3. rows'[proc.row].status = "PROCESSED" => proc.ok
      BY <3>2 DEF Marked, OutboxRows, SyncRows, WriteRows
    <3>4. PICK m \in Members : m = rows[proc.row].m
      BY <3>2 DEF OutboxRows, SyncRows, WriteRows
    <3>5. ASSUME m \notin exposed, proc.ok PROVE fga[m] = Tuples(sqlRole[m])
      BY <2>1, <3>4, <3>5 DEF ClosedInv, Closed, ProcOn, RunFits
    <3> QED BY <2>1, <3>1, <3>3, <3>4, <3>5 DEF Settled
  <2> QED BY <2>1, <2>2, <2>3
<1>2. ASSUME NEW c \in Clients, MarkOwnRow(c)
      PROVE  Settled
  <2>1. /\ req[c].pc = "mark" /\ UNCHANGED <<fga, sqlRole, exposed>>
        /\ UNCHANGED rows \/ rows' = [rows EXCEPT ![req[c].row].status = "PROCESSED"]
    BY <1>2 DEF MarkOwnRow
  <2>2. CASE UNCHANGED rows
    BY <2>2, NothingSettled
  <2>3. CASE rows' = [rows EXCEPT ![req[c].row].status = "PROCESSED"]
    <3>1. \A i \in DOMAIN rows : i # req[c].row => rows'[i] = rows[i]
      BY <1>r, <2>3
    <3>2. req[c].row \in DOMAIN rows /\ rows[req[c].row].m = req[c].m
      BY <2>1 DEF ClosedInv, Shape
    <3>3. PICK m \in Members : m = req[c].m
      BY <2>1, NotIdle, RequestTypes
    <3>4. ASSUME m \notin exposed PROVE fga[m] = Tuples(sqlRole[m])
      BY <2>1, <3>3, <3>4 DEF ClosedInv, Closed, WorksOn, RequestFits
    <3> QED BY <2>1, <3>1, <3>2, <3>3, <3>4 DEF Settled
  <2> QED BY <2>1, <2>2, <2>3
<1>3. ASSUME NEW c \in Clients, Request(c), ~MarkOwnRow(c)
      PROVE  Settled
  <2>1. UNCHANGED rows \/ \E row : rows' = Append(rows, row)
    BY <1>3 DEF Request, AddMember, ChangeRole, RemoveMember, RecoverAdmin, Guard, Revoke,
                Commit, Write, Grant, Enqueue, Abandon
  <2> QED BY <2>1, NothingSettled
<1>4. CASE StartRun \/ FetchBatch \/ TakeRow \/ Call \/ StopRun
  BY <1>4, NothingSettled DEF StartRun, FetchBatch, TakeRow, Call, StopRun
<1>5. CASE UNCHANGED vars
  BY <1>5, NothingSettled DEF vars
<1> QED BY <1>1, <1>2, <1>3, <1>4, <1>5 DEF Next, Processor

\* A role sync is marked PROCESSED, by the processor (auth/outbox.rs) or by the
\* PATCH that wrote the tuple itself (routes/members.rs), only when OpenFGA says
\* of the member what SQL says.
THEOREM SyncSettledInAgreementHolds == Spec => SyncSettledInAgreement
<1>1. RolesInv /\ [Next]_vars => [Settled]_vars
  BY NextSettles
<1>2. [][Settled]_vars => SyncSettledInAgreement
  BY PTL DEF SyncSettledInAgreement, Settled
<1> QED BY <1>1, <1>2, RolesInvHolds, PTL DEF Spec
=============================================================================
