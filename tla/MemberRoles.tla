---------------------------- MODULE MemberRoles ----------------------------
(***************************************************************************)
(* The members of one workspace: their roles in PostgreSQL, their tuples    *)
(* in OpenFGA, and the table authz_outbox that is to bring the two back     *)
(* together (routes/members.rs, workspace_admin_recovery.rs,                *)
(* auth/outbox.rs).                                                         *)
(*                                                                          *)
(* A request is a sequence of steps, one per transaction or OpenFGA call.   *)
(* The row of the workspace is locked (FOR UPDATE) from the first statement *)
(* of a PATCH, DELETE or recovery to its commit; POST takes no lock.  Any   *)
(* step may be the last: the process stops or the client goes away and the  *)
(* handler is dropped, which rolls an open transaction back.                *)
(***************************************************************************)
EXTENDS Integers, Sequences, FiniteSets

CONSTANTS
    Members,      \* users who are or may become members
    Clients,      \* requests in progress at one time
    Nobody,       \* holder of a free lock
    OwnerPath,    \* TRUE iff a tenant owner passes the last-admin guard
    BatchSize,    \* AUTHZ_OUTBOX_BATCH_SIZE
    MaxRetries,   \* AUTHZ_OUTBOX_MAX_RETRIES
    MaxRequests,  \* bound: requests in a behaviour
    MaxFaults     \* bound: failing calls in a behaviour

ASSUME RolesAssumption ==
    /\ Nobody \notin Clients
    /\ OwnerPath \in BOOLEAN
    /\ BatchSize \in Nat \ {0}
    /\ MaxRetries \in Nat \ {0}
    /\ MaxRequests \in Nat
    /\ MaxFaults \in Nat

VARIABLES
    sqlRole,   \* workspace_members: the role of each member, "none" without a row
    fga,       \* OpenFGA: the relations each member has on the workspace
    rows,      \* authz_outbox in the order of created_at
    lock,      \* who holds the row of the workspace
    req,       \* the requests in progress
    proc,      \* the one process-authz-outbox
    started,   \* requests so far
    faults,    \* failed calls so far
    exposed    \* history: members a known gap of the protocol has touched

vars == <<sqlRole, fga, rows, lock, req, proc, started, faults, exposed>>

Roles == {"MEMBER", "ADMIN"}
Relations == {"member", "admin"}

\* WorkspaceMemberRole::as_fga_relation
as_fga_relation(role) == IF role = "ADMIN" THEN "admin" ELSE "member"

\* The tuples that say in OpenFGA what the role says in SQL
Tuples(role) == IF role = "none" THEN {} ELSE {as_fga_relation(role)}

Idle == [pc |-> "idle"]
ProcIdle == [pc |-> "idle"]

Row(kind, m, rel) ==
    [kind |-> kind, m |-> m, rel |-> rel, status |-> "PENDING", retries |-> 0]

WaitingRow(row) ==
    \/ row.status = "PENDING"
    \/ row.status = "FAILED" /\ row.retries < MaxRetries

\* Somebody works on member m: a request, or the processor from its read of
\* the role until the row is marked.
Busy(m) ==
    \/ \E c \in Clients : req[c].pc # "idle" /\ req[c].m = m
    \/ proc.pc \in {"call", "mark"} /\ rows[proc.row].m = m

Requests ==
    [pc : {"guard", "revoke", "commit", "grant", "enqueue", "mark"},
     op : {"add", "patch", "remove", "recover"}, m : Members,
     old : Roles \cup {"none"}, new : Roles \cup {"none"}, row : Nat]

Statuses == {"PENDING", "PROCESSED", "FAILED"}

\* A role sync names no relation: its payload is role-agnostic
SyncRows == [kind : {"sync"}, m : Members, rel : {"none"}, status : Statuses, retries : Nat]
WriteRows == [kind : {"write"}, m : Members, rel : Relations, status : Statuses, retries : Nat]
OutboxRows == SyncRows \cup WriteRows

Calls == [del : BOOLEAN, rel : Relations]

\* A run between two batches, between two rows, and with a row in hand
ProcStates ==
    {ProcIdle}
    \cup [pc : {"fetch"}, handled : SUBSET Nat]
    \cup [pc : {"take"}, handled : SUBSET Nat, todo : SUBSET Nat]
    \cup [pc : {"call", "mark"}, handled : SUBSET Nat, todo : SUBSET Nat,
           row : Nat, ok : BOOLEAN, calls : Seq(Calls)]

TypeOK ==
    /\ sqlRole \in [Members -> Roles \cup {"none"}]
    /\ fga \in [Members -> SUBSET Relations]
    /\ rows \in Seq(OutboxRows)
    /\ lock \in Clients \cup {Nobody}
    /\ req \in [Clients -> Requests \cup {Idle}]
    /\ proc \in ProcStates
    /\ proc.pc \in {"take", "call", "mark"} => proc.todo \subseteq DOMAIN rows
    /\ proc.pc \in {"call", "mark"} => proc.row \in DOMAIN rows
    /\ proc.pc = "call" => proc.calls # <<>>
    /\ started \in 0..MaxRequests
    /\ faults \in 0..MaxFaults
    /\ exposed \subseteq Members

Init ==
    /\ sqlRole \in [Members -> Roles \cup {"none"}]
    /\ \E m \in Members : sqlRole[m] = "ADMIN"
    /\ fga = [m \in Members |-> Tuples(sqlRole[m])]
    /\ rows = <<>>
    /\ lock = Nobody
    /\ req = [c \in Clients |-> Idle]
    /\ proc = ProcIdle
    /\ started = 0
    /\ faults = 0
    /\ exposed = {}

-----------------------------------------------------------------------------
(* Helpers of the requests *)

\* A call to OpenFGA or PostgreSQL that is answered by an error
Fault == faults < MaxFaults /\ faults' = faults + 1

Goto(c, pc) == req' = [req EXCEPT ![c].pc = pc]
Return(c) == req' = [req EXCEPT ![c] = Idle]

Begin(c, pc, op, m, old, new) ==
    /\ req[c] = Idle
    /\ started < MaxRequests
    /\ started' = started + 1
    /\ req' = [req EXCEPT ![c] =
                [pc |-> pc, op |-> op, m |-> m, old |-> old, new |-> new, row |-> 0]]
    /\ exposed' = IF Busy(m) THEN exposed \cup {m} ELSE exposed

\* Mutant: the row is read without FOR UPDATE
ReadTenantUnlocked(c) == UNCHANGED lock

\* lock_workspace_tenant: SELECT ... FOR UPDATE
lock_workspace_tenant(c) == lock = Nobody /\ lock' = c

\* The relations of m as OpenFGA may hold them after a call that failed:
\* an error (a timeout) does not say that nothing was done.
AppliedOrNot(m, done) == fga' \in {fga, [fga EXCEPT ![m] = done]}

\* The relation a request adds, or takes away and may have to restore
GrantedRelation(c) == as_fga_relation(req[c].new)
RevokedRelation(c) == as_fga_relation(req[c].old)

-----------------------------------------------------------------------------
(* POST /members, PATCH, DELETE and the operator's recovery command *)

\* insert_workspace_member: a transaction of its own; a member already there
\* is answered 409.
AddMember(c, m, role) ==
    /\ sqlRole[m] = "none"
    /\ Begin(c, "grant", "add", m, "none", role)
    /\ sqlRole' = [sqlRole EXCEPT ![m] = role]
    /\ UNCHANGED <<fga, rows, lock, proc, faults>>

\* update_workspace_member_role up to its guard; an unknown member (404) and
\* an unchanged role (204) end it here.  Only a demotion is guarded.
ChangeRole(c, m, role) ==
    /\ sqlRole[m] \notin {"none", role}
    /\ lock_workspace_tenant(c)
    /\ Begin(c, IF role = "MEMBER" THEN "guard" ELSE "revoke", "patch", m, sqlRole[m], role)
    /\ UNCHANGED <<sqlRole, fga, rows, proc, faults>>

\* remove_workspace_member up to its guard
RemoveMember(c, m) ==
    /\ sqlRole[m] # "none"
    /\ lock_workspace_tenant(c)
    /\ Begin(c, IF sqlRole[m] = "ADMIN" THEN "guard" ELSE "revoke", "remove", m, sqlRole[m], "none")
    /\ UNCHANGED <<sqlRole, fga, rows, proc, faults>>

\* recover_workspace_admin up to workspace_has_management_path
RecoverAdmin(c, m) ==
    /\ lock_workspace_tenant(c)
    /\ Begin(c, "guard", "recover", m, "none", "ADMIN")
    /\ UNCHANGED <<sqlRole, fga, rows, proc, faults>>

\* Another ADMIN whom OpenFGA confirms, or a tenant owner
ManagementPath(excluded) ==
    \/ OwnerPath
    \/ \E a \in Members \ excluded : sqlRole[a] = "ADMIN" /\ "admin" \in fga[a]

\* ensure_management_path_after_losing_admin and workspace_has_management_path:
\* the first must find a path, the recovery goes on only if there is none.
Guard(c) ==
    /\ req[c].pc = "guard"
    /\ \/ /\ req[c].op # "recover" /\ ManagementPath({req[c].m})
          /\ Goto(c, "revoke")
          /\ UNCHANGED <<lock, faults>>
       \/ /\ req[c].op = "recover" /\ ~ManagementPath({})
          /\ Goto(c, "commit")
          /\ UNCHANGED <<lock, faults>>
       \/ /\ ManagementPath(IF req[c].op = "recover" THEN {} ELSE {req[c].m})
                <=> req[c].op = "recover"
          /\ Return(c)
          /\ lock' = Nobody
          /\ UNCHANGED faults
       \/ /\ Fault
          /\ Return(c)
          /\ lock' = Nobody
    /\ UNCHANGED <<sqlRole, fga, rows, proc, started, exposed>>

\* Mutant: an error of the revocation is logged and the request goes on
RevokeErrorIgnored(c) ==
    /\ req[c].pc = "revoke"
    /\ \/ fga' = [fga EXCEPT ![req[c].m] = @ \ {RevokedRelation(c)}] /\ UNCHANGED faults
       \/ Fault /\ UNCHANGED fga
    /\ Goto(c, "commit")
    /\ UNCHANGED <<sqlRole, rows, lock, proc, started, exposed>>

\* The old tuple is deleted before the commit.  DELETE takes a missing tuple
\* for success; PATCH does not: it rolls back and queues a role sync.
Revoke(c) ==
    LET m == req[c].m
        rest == fga[m] \ {RevokedRelation(c)}
        Fail == /\ lock' = Nobody
                /\ IF req[c].op = "patch" THEN Goto(c, "enqueue") ELSE Return(c)
    IN
    /\ req[c].pc = "revoke"
    /\ \/ /\ RevokedRelation(c) \in fga[m] \/ req[c].op = "remove"
          /\ fga' = [fga EXCEPT ![m] = rest]
          /\ Goto(c, "commit")
          /\ UNCHANGED <<lock, faults>>
       \/ /\ RevokedRelation(c) \notin fga[m] /\ req[c].op = "patch"
          /\ Fail
          /\ UNCHANGED <<fga, faults>>
       \/ /\ Fault
          /\ AppliedOrNot(m, rest)
          /\ Fail
    /\ UNCHANGED <<sqlRole, rows, proc, started, exposed>>

\* What the transaction of a request writes
Write(c) ==
    /\ sqlRole' = [sqlRole EXCEPT ![req[c].m] = req[c].new]
    /\ rows' = IF req[c].op = "patch" THEN Append(rows, Row("sync", req[c].m, "none")) ELSE rows
    \* the recovery promotes a MEMBER and leaves its tuple as it is
    /\ exposed' = IF req[c].op = "recover" /\ sqlRole[req[c].m] = "MEMBER"
                  THEN exposed \cup {req[c].m} ELSE exposed

\* A failed commit may have been applied.  PATCH then queues a role sync,
\* DELETE a write of the tuple it has revoked; the recovery reports the error.
Commit(c) ==
    /\ req[c].pc = "commit"
    /\ lock' = Nobody
    /\ \/ /\ Write(c)
          /\ IF req[c].op = "remove"
             THEN Return(c)
             ELSE req' = [req EXCEPT ![c].pc = "grant", ![c].row = Len(rows')]
          /\ UNCHANGED faults
       \/ /\ Fault
          /\ Write(c) \/ UNCHANGED <<sqlRole, rows, exposed>>
          /\ IF req[c].op = "recover" THEN Return(c) ELSE Goto(c, "enqueue")
    /\ UNCHANGED <<fga, proc, started>>

\* Mutant: PATCH marks its role sync processed whatever the grant answered
GrantMarksAnyAnswer(c) ==
    LET more == fga[req[c].m] \cup {GrantedRelation(c)} IN
    /\ req[c].pc = "grant"
    /\ \/ fga' = [fga EXCEPT ![req[c].m] = more] /\ UNCHANGED faults
       \/ Fault /\ AppliedOrNot(req[c].m, more)
    /\ IF req[c].op = "patch" THEN Goto(c, "mark") ELSE Return(c)
    /\ UNCHANGED <<sqlRole, rows, lock, proc, started, exposed>>

\* The new tuple is written after the commit.  Only the recovery takes a tuple
\* that is already there for success.  PATCH leaves its role sync PENDING on
\* an error, the others queue the tuple.
Grant(c) ==
    LET m == req[c].m
        more == fga[m] \cup {GrantedRelation(c)}
        Fail == IF req[c].op = "patch" THEN Return(c) ELSE Goto(c, "enqueue")
    IN
    /\ req[c].pc = "grant"
    /\ \/ /\ GrantedRelation(c) \notin fga[m] \/ req[c].op = "recover"
          /\ fga' = [fga EXCEPT ![m] = more]
          /\ IF req[c].op = "patch" THEN Goto(c, "mark") ELSE Return(c)
          /\ UNCHANGED faults
       \/ /\ GrantedRelation(c) \in fga[m] /\ req[c].op # "recover"
          /\ Fail
          /\ UNCHANGED <<fga, faults>>
       \/ /\ Fault
          /\ AppliedOrNot(m, more)
          /\ Fail
    /\ UNCHANGED <<sqlRole, rows, lock, proc, started, exposed>>

\* enqueue_workspace_role_sync or enqueue_tuple_write, outside a transaction
\* and at most once
Enqueue(c) ==
    LET m == req[c].m
        rel == IF req[c].op = "remove" THEN RevokedRelation(c) ELSE GrantedRelation(c)
    IN
    /\ req[c].pc = "enqueue"
    /\ Return(c)
    /\ \/ /\ req[c].op = "patch"
          /\ rows' = Append(rows, Row("sync", m, "none"))
          /\ UNCHANGED <<faults, exposed>>
       \/ /\ req[c].op # "patch"
          /\ rows' = Append(rows, Row("write", m, rel))
          /\ exposed' = exposed \cup {m}
          /\ UNCHANGED faults
       \/ /\ Fault
          /\ UNCHANGED <<rows, exposed>>
    /\ UNCHANGED <<sqlRole, fga, lock, proc, started>>

\* mark_authz_outbox_processed by the PATCH that wrote the tuple itself
MarkOwnRow(c) ==
    /\ req[c].pc = "mark"
    /\ Return(c)
    /\ \/ rows' = [rows EXCEPT ![req[c].row].status = "PROCESSED"] /\ UNCHANGED faults
       \/ Fault /\ UNCHANGED rows
    /\ UNCHANGED <<sqlRole, fga, lock, proc, started, exposed>>

\* The process stops, or the client disconnects and the handler is dropped
Abandon(c) ==
    /\ req[c].pc # "idle"
    /\ Return(c)
    /\ lock' = IF lock = c THEN Nobody ELSE lock
    /\ UNCHANGED <<sqlRole, fga, rows, proc, started, faults, exposed>>

-----------------------------------------------------------------------------
(* process-authz-outbox: one process, no lease on a row *)

ProcVarsOnly == UNCHANGED <<sqlRole, lock, req, started>>

\* A run of process_authz_outbox starts with no row handled
StartRun ==
    /\ proc.pc = "idle"
    /\ proc' = [pc |-> "fetch", handled |-> {}]
    /\ UNCHANGED <<fga, rows, faults, exposed>> /\ ProcVarsOnly

\* Mutant: only rows never tried are selected
OldestPending ==
    LET waiting == {i \in DOMAIN rows : rows[i].status = "PENDING"}
    IN  {i \in waiting : Cardinality({j \in waiting : j < i}) < BatchSize}

\* The ids of the oldest waiting rows, at most BatchSize of them
OldestWaiting ==
    LET waiting == {i \in DOMAIN rows : WaitingRow(rows[i])}
    IN  {i \in waiting : Cardinality({j \in waiting : j < i}) < BatchSize}

\* A run ends as soon as the oldest waiting rows were all handled by it,
\* whatever waits behind them.
FetchBatch ==
    /\ proc.pc = "fetch"
    /\ LET batch == OldestWaiting \ proc.handled
       IN  proc' = IF batch = {} THEN ProcIdle
                   ELSE [pc |-> "take", handled |-> proc.handled, todo |-> batch]
    /\ UNCHANGED <<fga, rows, faults, exposed>> /\ ProcVarsOnly

\* sync_existing_workspace_role and delete_workspace_role_tuples: the calls a
\* role sync makes for the role it has read
SyncCalls(role) ==
    CASE role = "ADMIN"  -> <<[del |-> TRUE, rel |-> "member"], [del |-> FALSE, rel |-> "admin"]>>
      [] role = "MEMBER" -> <<[del |-> TRUE, rel |-> "admin"], [del |-> FALSE, rel |-> "member"]>>
      [] role = "none"   -> <<[del |-> TRUE, rel |-> "admin"], [del |-> TRUE, rel |-> "member"]>>

\* process_single_row takes the oldest row of its batch; a role sync reads the
\* role now, a tuple_write replays the tuple of its payload.
TakeRow ==
    /\ proc.pc = "take"
    /\ \E i \in proc.todo :
        LET m == rows[i].m IN
        /\ \A j \in proc.todo : i <= j
        /\ proc' = [pc |-> "call", handled |-> proc.handled \cup {i},
                    todo |-> proc.todo \ {i}, row |-> i, ok |-> TRUE,
                    calls |-> IF rows[i].kind = "sync" THEN SyncCalls(sqlRole[m])
                              ELSE <<[del |-> FALSE, rel |-> rows[i].rel]>>]
        /\ exposed' = IF Busy(m) THEN exposed \cup {m} ELSE exposed
    /\ UNCHANGED <<fga, rows, faults>> /\ ProcVarsOnly

\* write_tuple_idempotently, delete_tuple_idempotently: a tuple already there
\* or already gone is a success, any other error fails the row.
Call ==
    LET m == rows[proc.row].m
        call == Head(proc.calls)
        done == IF call.del THEN fga[m] \ {call.rel} ELSE fga[m] \cup {call.rel}
    IN
    /\ proc.pc = "call"
    /\ \/ /\ fga' = [fga EXCEPT ![m] = done]
          /\ proc' = [proc EXCEPT !.calls = Tail(@),
                                  !.pc = IF Len(proc.calls) = 1 THEN "mark" ELSE "call"]
          /\ UNCHANGED faults
       \/ /\ Fault
          /\ AppliedOrNot(m, done)
          /\ proc' = [proc EXCEPT !.pc = "mark", !.ok = FALSE]
    /\ UNCHANGED <<rows, exposed>> /\ ProcVarsOnly

Marked(row, ok) ==
    IF ok THEN [row EXCEPT !.status = "PROCESSED"]
    ELSE [row EXCEPT !.status = "FAILED", !.retries = row.retries + 1]

\* mark_authz_outbox_processed, mark_outbox_row_failed: by id, whatever the
\* row holds meanwhile; when the update fails the run ends with an error.
MarkRow ==
    /\ proc.pc = "mark"
    /\ \/ /\ rows' = [rows EXCEPT ![proc.row] = Marked(@, proc.ok)]
          /\ proc' = IF proc.todo = {} THEN [pc |-> "fetch", handled |-> proc.handled]
                     ELSE [pc |-> "take", handled |-> proc.handled, todo |-> proc.todo]
          /\ UNCHANGED faults
       \/ /\ Fault
          /\ proc' = ProcIdle
          /\ UNCHANGED rows
    /\ UNCHANGED <<fga, exposed>> /\ ProcVarsOnly

\* The processor stops (a kill, or a query that fails); Compose restarts it
StopRun ==
    /\ proc.pc # "idle"
    /\ Fault
    /\ proc' = ProcIdle
    /\ UNCHANGED <<fga, rows, exposed>> /\ ProcVarsOnly

-----------------------------------------------------------------------------
Processor == StartRun \/ FetchBatch \/ TakeRow \/ Call \/ MarkRow

Request(c) ==
    \/ \E m \in Members :
        \/ \E role \in Roles : AddMember(c, m, role) \/ ChangeRole(c, m, role)
        \/ RemoveMember(c, m)
        \/ RecoverAdmin(c, m)
    \/ Guard(c) \/ Revoke(c) \/ Commit(c) \/ Grant(c) \/ Enqueue(c) \/ MarkOwnRow(c)
    \/ Abandon(c)

Next == Processor \/ StopRun \/ \E c \in Clients : Request(c)

Spec == Init /\ [][Next]_vars

\* The processor runs in a loop under a supervisor (--loop, restart:
\* unless-stopped); requests need not make progress.
FairSpec == Spec /\ WF_vars(Processor)

-----------------------------------------------------------------------------
(* Properties *)

\* Nobody works on member m
Quiet(m) == ~Busy(m)

\* Requests that take an administrator away, however they interleave, never
\* leave a workspace without a tenant owner's path and without an ADMIN row:
\* the guard and the write are under one lock of the workspace's row.
ManagementPathKept ==
    OwnerPath \/ \E m \in Members : sqlRole[m] = "ADMIN"

\* "Revoke before commit so that every error is fail-closed": whatever call
\* failed and wherever a request was dropped, a member on whom nobody works
\* holds no relation its SQL role does not give, unless one of the known gaps
\* (overlapping work, a queued tuple_write, a recovery in place) touched it.
FailClosed ==
    \A m \in Members \ exposed :
        Quiet(m) => fga[m] \subseteq Tuples(sqlRole[m])

\* A role sync is marked PROCESSED, by the processor or by the PATCH itself,
\* only when OpenFGA says what SQL says of that member.
SyncSettledInAgreement ==
    [][\A i \in DOMAIN rows :
        /\ rows[i].kind = "sync"
        /\ rows[i].status # "PROCESSED" /\ rows'[i].status = "PROCESSED"
        /\ rows[i].m \notin exposed'
        => fga'[rows[i].m] = Tuples(sqlRole'[rows[i].m])]_vars

\* Every queued row is processed or runs out of retries, though a run stops at
\* a batch whose rows it has all handled and the processor may be killed.
RowsSettle ==
    \A i \in 1..(MaxRequests * 2) :
        LET Waiting == i \in DOMAIN rows /\ WaitingRow(rows[i])
        IN  Waiting ~> ~Waiting
=============================================================================
