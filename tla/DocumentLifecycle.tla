------------------------- MODULE DocumentLifecycle -------------------------
(***************************************************************************)
(* One document across its stores: the original in S3, the rows documents  *)
(* and document_shares in PostgreSQL, its tuples in OpenFGA, and the       *)
(* handlers that write them one after the other: upload, access mode,      *)
(* shares, permissions, delete (routes/documents.rs, auth/document_acl.rs),*)
(* with the outboxes and the storage clean-up beside them.  A handler can  *)
(* be dropped after any step; an error does not say that nothing was done. *)
(* Queue, chunks and points of the document are in IngestionWorker.        *)
(***************************************************************************)
EXTENDS Integers, FiniteSets

CONSTANTS
    Users,          \* members of the workspace, in SQL and in OpenFGA
    Workspace,      \* subject of the tuple that ties the document to its workspace
    Clients,        \* requests in progress at one time
    Nobody,         \* holder of a free lock
    MaxRequests,    \* bound: requests of a behaviour
    MaxFaults       \* bound: failing calls of a behaviour

ASSUME DocumentAssumption ==
    /\ Workspace \notin Users
    /\ Nobody \notin Clients
    /\ MaxRequests \in Nat /\ MaxFaults \in Nat

VARIABLES
    row,        \* documents: "unborn" (no id yet), "none", "present", "gone"
    mode,       \* documents.access_mode
    shares,     \* document_shares
    tuples,     \* OpenFGA: explicit_viewer of users, and the workspace relation
    object,     \* S3: the original is there
    erasure,    \* storage_outbox row: "none", "pending", "processed", "dead"
    queued,     \* users with a waiting tuple_write in authz_outbox
    lock,       \* who holds the row FOR UPDATE
    req,        \* the requests in progress
    scan,       \* cleanup-storage-objects --delete --delete-orphans
    started,    \* requests so far
    faults,     \* failed calls so far
    accepted,   \* history: the upload was answered 202, no delete had begun before
    swept,      \* history: the scan deleted an object it saw no row of
    exposed     \* history: users a known gap of the protocol has touched

docVars == <<row, mode, shares, tuples, object, erasure>>
histVars == <<accepted, swept, exposed>>
vars == <<docVars, queued, lock, req, scan, started, faults, histVars>>

Modes == {"workspace_default", "restricted"}
Erasure == {"none", "pending", "processed", "dead"}
Idle == [pc |-> "idle"]
Steps == {"insert", "relate", "drop_row", "drop_object", "revoke", "list", "grant",
          "unlist", "undo", "take_back", "check", "commit", "swap", "enqueue"}
Ops == {"upload", "mode", "delete", "share", "unshare", "replace"}

\* todo: tuples to delete.  fresh, again: users to grant with and without a new
\* share row.  user: the one in hand.
Requests ==
    [pc : Steps, op : Ops, mode : Modes, target : SUBSET Users,
     todo : SUBSET (Users \cup {Workspace}), fresh : SUBSET Users,
     again : SUBSET Users, user : Users \cup {Workspace}]

TypeOK ==
    /\ row \in {"unborn", "none", "present", "gone"}
    /\ mode \in Modes
    /\ shares \subseteq Users
    /\ tuples \subseteq Users \cup {Workspace}
    /\ object \in BOOLEAN
    /\ erasure \in Erasure
    /\ queued \subseteq Users
    /\ lock \in Clients \cup {Nobody}
    /\ req \in [Clients -> Requests \cup {Idle}]
    /\ scan \in {"idle", "row_known", "row_unknown"}
    /\ started \in 0..MaxRequests
    /\ faults \in 0..MaxFaults
    /\ accepted \in BOOLEAN /\ swept \in BOOLEAN
    /\ exposed \subseteq Users

\* Before the upload, or after it with any users shared to
Init ==
    /\ \/ row = "unborn" /\ shares = {} /\ tuples = {} /\ object = FALSE /\ accepted = FALSE
       \/ /\ row = "present" /\ object = TRUE /\ accepted = TRUE
          /\ shares \in SUBSET Users
          /\ tuples = shares \cup {Workspace}
    /\ mode \in Modes
    /\ erasure = "none"
    /\ queued = {}
    /\ lock = Nobody
    /\ req = [c \in Clients |-> Idle]
    /\ scan = "idle"
    /\ started = 0
    /\ faults = 0
    /\ swept = FALSE
    /\ exposed = {}

-----------------------------------------------------------------------------
(* Helpers *)

Fault == faults < MaxFaults /\ faults' = faults + 1
NoFault == UNCHANGED faults

At(c, pc) == req[c].pc = pc
Goto(c, pc) == req' = [req EXCEPT ![c].pc = pc]
Return(c) == req' = [req EXCEPT ![c] = Idle]
Others == UNCHANGED <<queued, scan, started, accepted, swept>>

\* SELECT ... FOR UPDATE of the document's row; no row is answered 404
LockRow(c) == row = "present" /\ lock = Nobody /\ lock' = c
Unlock == lock' = Nobody

Granting == {"share", "replace"}

\* A grant that overlaps with another request leaves row and tuple to their race.
Begin(c, pc, op, m, target, todo) ==
    /\ req[c] = Idle
    /\ started < MaxRequests /\ started' = started + 1
    /\ req' = [req EXCEPT ![c] =
                [pc |-> pc, op |-> op, mode |-> m, target |-> target, todo |-> todo,
                 fresh |-> {}, again |-> {}, user |-> Workspace]]
    /\ exposed' = IF \E d \in Clients : req[d] # Idle /\ {op, req[d].op} \cap Granting # {}
                  THEN Users ELSE exposed

\* A call is answered (ok), or by an error that may hide that it was applied.
Deleted(t) == tuples' = tuples \ {t}
Written(t) == tuples' = tuples \cup {t}

-----------------------------------------------------------------------------
(* upload_document: object, then row and job, then the workspace relation *)

PutObject(c) ==
    /\ row = "unborn" /\ row' = "none"
    /\ \/ object' = TRUE /\ Begin(c, "insert", "upload", mode, {}, {}) /\ NoFault
       \/ /\ Fault /\ object' \in BOOLEAN
          /\ started < MaxRequests /\ started' = started + 1
          /\ req[c] = Idle /\ UNCHANGED <<req, exposed>>
    /\ UNCHANGED <<mode, shares, tuples, erasure, queued, lock, scan, accepted, swept>>

\* Every error up to the commit is taken for a rollback.
InsertDocument(c) ==
    /\ At(c, "insert")
    /\ \/ row' = "present" /\ Goto(c, "relate") /\ NoFault
       \/ row' \in {"none", "present"} /\ Goto(c, "drop_object") /\ Fault
    /\ UNCHANGED <<mode, shares, tuples, object, erasure, lock, exposed>> /\ Others

\* A delete that started already may have revoked a relation not yet written.
Deleting == \E d \in Clients : req[d] # Idle /\ req[d].op = "delete"

ensure_document_workspace_relation(c) ==
    /\ At(c, "relate")
    /\ \/ /\ Written(Workspace) /\ Return(c)
          /\ accepted' = (row = "present" /\ ~Deleting) /\ NoFault
       \/ /\ Fault /\ (Written(Workspace) \/ UNCHANGED tuples)
          /\ Goto(c, "drop_row") /\ UNCHANGED accepted
    /\ UNCHANGED <<row, mode, shares, object, erasure, queued, lock, scan, started, swept, exposed>>

\* The row is deleted again; a row lock held by another request is waited for.
DropRow(c) ==
    /\ At(c, "drop_row") /\ lock = Nobody
    /\ \/ row' = "gone" /\ shares' = {} /\ NoFault
       \/ row' = "gone" /\ shares' = {} /\ Fault
       \/ UNCHANGED <<row, shares>> /\ Fault
    /\ Goto(c, "drop_object")
    /\ UNCHANGED <<mode, tuples, object, erasure, lock, exposed>> /\ Others

\* Best effort, of a rejected upload and of a committed delete
DropObject(c) ==
    /\ At(c, "drop_object")
    /\ \/ object' = FALSE /\ NoFault
       \/ Fault /\ object' \in {object, FALSE}
    /\ Return(c)
    /\ UNCHANGED <<row, mode, shares, tuples, erasure, lock, exposed>> /\ Others

-----------------------------------------------------------------------------
(* set_document_access_mode and delete_document: under the row's lock, tuples
   first, then one transaction *)

SetAccessMode(c, m) ==
    /\ LockRow(c)
    /\ Begin(c, "revoke", "mode", m, {}, IF m = "restricted" THEN {} ELSE shares)
    /\ UNCHANGED <<docVars, queued, scan, faults, accepted, swept>>

\* capture_document_delete_plan
DeleteDocument(c) ==
    /\ LockRow(c)
    /\ Begin(c, "revoke", "delete", mode, {}, shares \cup {Workspace})
    /\ UNCHANGED <<docVars, queued, scan, faults, accepted, swept>>

\* delete_tuples_fga_first: a missing tuple is a success, another error ends the
\* request and rolls it back.
RevokeTuple(c) ==
    /\ At(c, "revoke")
    /\ \E t \in req[c].todo :
        /\ Workspace \in req[c].todo => t = Workspace
        /\ \/ Deleted(t) /\ req' = [req EXCEPT ![c].todo = @ \ {t}] /\ NoFault /\ UNCHANGED lock
           \/ Fault /\ (Deleted(t) \/ UNCHANGED tuples) /\ Return(c) /\ Unlock
    /\ UNCHANGED <<row, mode, shares, object, erasure, exposed>> /\ Others

\* Mutant: the storage_outbox row is not part of the transaction
ChangeWithoutOutbox(c) ==
    IF req[c].op = "delete"
    THEN row' = "gone" /\ shares' = {} /\ UNCHANGED <<mode, erasure>>
    ELSE /\ mode' = req[c].mode
         /\ shares' = IF req[c].mode = "restricted" THEN shares ELSE {}
         /\ UNCHANGED <<row, erasure>>

\* What the transaction of either handler writes
Change(c) ==
    IF req[c].op = "delete"
    THEN row' = "gone" /\ shares' = {} /\ erasure' = "pending" /\ UNCHANGED mode
    ELSE /\ mode' = req[c].mode
         /\ shares' = IF req[c].mode = "restricted" THEN shares ELSE {}
         /\ UNCHANGED <<row, erasure>>

\* Mutant: the object of a delete is dropped also after a failed commit
CommitThenDrop(c) ==
    /\ At(c, "revoke") /\ req[c].todo = {}
    /\ \/ Change(c) /\ NoFault
       \/ Fault /\ (Change(c) \/ UNCHANGED <<row, mode, shares, erasure>>)
    /\ IF req[c].op = "delete" THEN Goto(c, "drop_object") ELSE Return(c)
    /\ Unlock
    /\ UNCHANGED <<tuples, object, exposed>> /\ Others

CommitChange(c) ==
    /\ At(c, "revoke") /\ req[c].todo = {}
    /\ \/ /\ Change(c) /\ NoFault
          /\ IF req[c].op = "delete" THEN Goto(c, "drop_object") ELSE Return(c)
       \/ Fault /\ (Change(c) \/ UNCHANGED <<row, mode, shares, erasure>>) /\ Return(c)
    /\ Unlock
    /\ UNCHANGED <<tuples, object, exposed>> /\ Others

-----------------------------------------------------------------------------
(* share_document and revoke_document_share: no lock over their two writes *)

ShareDocument(c, u) ==
    /\ row = "present"
    /\ Begin(c, "list", "share", mode, {u}, {})
    /\ UNCHANGED <<docVars, queued, lock, scan, faults, accepted, swept>>

RevokeShare(c, u) ==
    /\ row = "present"
    /\ Begin(c, "take_back", "unshare", mode, {u}, {})
    /\ UNCHANGED <<docVars, queued, lock, scan, faults, accepted, swept>>

\* INSERT of a share, ON CONFLICT DO NOTHING.  Its foreign key needs the row and
\* waits for a FOR UPDATE; without the row the request ends.  again needs none.
ListShare(c, u) ==
    LET next == [req[c] EXCEPT !.pc = "grant", !.user = u, !.fresh = @ \ {u}, !.again = @ \ {u}] IN
    \/ u \in req[c].again /\ req' = [req EXCEPT ![c] = next] /\ NoFault /\ UNCHANGED shares
    \/ /\ u \notin req[c].again /\ lock = Nobody
       /\ \/ /\ row = "present" /\ shares' = shares \cup {u}
             /\ req' = [req EXCEPT ![c] = next] /\ NoFault
          \/ row # "present" /\ UNCHANGED shares /\ Return(c) /\ NoFault
          \/ /\ Fault /\ Return(c)
             /\ shares' \in {shares, IF row = "present" THEN shares \cup {u} ELSE shares}

InsertShare(c) ==
    /\ At(c, "list") /\ \E u \in req[c].target : ListShare(c, u)
    /\ UNCHANGED <<row, mode, tuples, object, erasure, lock, exposed>> /\ Others

\* Mutant: the tuple is taken for written, whatever the answer
GrantAnyAnswer(c) ==
    LET u == req[c].user IN
    /\ At(c, "grant")
    /\ \/ Written(u) /\ NoFault
       \/ Fault /\ UNCHANGED tuples
    /\ IF req[c].op = "share" THEN Return(c) ELSE Goto(c, "swap")
    /\ UNCHANGED <<row, mode, shares, object, erasure, lock, exposed>> /\ Others

\* write_tuple: a tuple that is there already is an error too.
GrantTuple(c) ==
    LET u == req[c].user IN
    /\ At(c, "grant")
    /\ \/ /\ u \notin tuples /\ Written(u) /\ NoFault
          /\ IF req[c].op = "share" THEN Return(c) ELSE Goto(c, "swap")
       \/ /\ \/ u \in tuples /\ UNCHANGED tuples /\ NoFault
             \/ Fault /\ (Written(u) \/ UNCHANGED tuples)
          /\ Goto(c, IF req[c].op = "share" THEN "undo" ELSE "enqueue")
    /\ UNCHANGED <<row, mode, shares, object, erasure, lock, exposed>> /\ Others

\* The share row is deleted again, although the tuple may be there.
UndoShare(c) ==
    /\ At(c, "undo")
    /\ \/ shares' = shares \ {req[c].user} /\ NoFault
       \/ Fault /\ shares' \in {shares, shares \ {req[c].user}}
    /\ exposed' = exposed \cup {req[c].user}
    /\ Return(c)
    /\ UNCHANGED <<row, mode, tuples, object, erasure, lock>> /\ Others

\* revoke_document_explicit_viewer: a missing tuple is an error here.
TakeBackTuple(c) ==
    /\ At(c, "take_back")
    /\ \E u \in req[c].target :
        \/ /\ u \in tuples /\ Deleted(u) /\ NoFault
           /\ req' = [req EXCEPT ![c].pc = "unlist", ![c].user = u]
        \/ u \notin tuples /\ UNCHANGED tuples /\ Return(c) /\ NoFault
        \/ Fault /\ (Deleted(u) \/ UNCHANGED tuples) /\ Return(c)
    /\ UNCHANGED <<row, mode, shares, object, erasure, lock, exposed>> /\ Others

\* DELETE of one share, of revoke_document_share and of the replacement
UnlistShare(c) ==
    LET u == req[c].user IN
    /\ At(c, "unlist")
    /\ \/ /\ shares' = shares \ {u} /\ NoFault
          /\ IF req[c].op = "unshare" THEN Return(c)
             ELSE req' = [req EXCEPT ![c].pc = "swap", ![c].todo = @ \ {u}]
       \/ Fault /\ shares' \in {shares, shares \ {u}} /\ Return(c)
    /\ UNCHANGED <<row, mode, tuples, object, erasure, lock, exposed>> /\ Others

-----------------------------------------------------------------------------
(* replace_document_permissions: plan and mode under the lock, the rest after *)

ReplacePermissions(c, m, target) ==
    /\ m = "workspace_default" => target = {}
    /\ LockRow(c)
    /\ Begin(c, "check", "replace", m, target, shares \ target)
    /\ UNCHANGED <<docVars, queued, scan, faults, accepted, swept>>

NewGrants(c) == req[c].target \ shares
MissingTuples(c) == {u \in req[c].target \cap shares : u \notin tuples}
NothingToDo(c) ==
    mode = req[c].mode /\ req[c].todo \cup NewGrants(c) \cup MissingTuples(c) = {}
AllDone(c) == req[c].todo \cup req[c].fresh \cup req[c].again = {}

\* The shares are those read under the lock; a share row whose tuple is missing is
\* granted again.  Nothing to do ends the request.
PlanGrants(c) ==
    /\ At(c, "check")
    /\ \/ /\ NoFault
          /\ IF NothingToDo(c)
             THEN Return(c) /\ Unlock
             ELSE /\ req' = [req EXCEPT ![c].pc = "commit", ![c].fresh = NewGrants(c),
                                        ![c].again = MissingTuples(c)]
                  /\ UNCHANGED lock
       \/ Fault /\ Return(c) /\ Unlock
    /\ UNCHANGED <<docVars, exposed>> /\ Others

CommitMode(c) ==
    /\ At(c, "commit")
    /\ \/ mode' = req[c].mode /\ Goto(c, "swap") /\ NoFault
       \/ Fault /\ mode' \in {mode, req[c].mode} /\ Return(c)
    /\ Unlock
    /\ UNCHANGED <<row, shares, tuples, object, erasure, exposed>> /\ Others

\* Mutant: the share row goes first, its tuple is revoked after it
SwapRowFirst(c) ==
    /\ At(c, "swap")
    /\ \E u \in req[c].todo :
        \/ /\ u \in shares /\ shares' = shares \ {u} /\ NoFault
           /\ UNCHANGED <<tuples, req>>
        \/ /\ u \notin shares /\ Deleted(u) /\ NoFault
           /\ req' = [req EXCEPT ![c].todo = @ \ {u}] /\ UNCHANGED shares
    /\ UNCHANGED <<row, mode, object, erasure, lock, exposed>> /\ Others

\* Revocations first: tuple, then row
SwapRevoke(c) ==
    /\ At(c, "swap")
    /\ \E u \in req[c].todo :
        \/ Deleted(u) /\ NoFault /\ req' = [req EXCEPT ![c].pc = "unlist", ![c].user = u]
        \/ Fault /\ (Deleted(u) \/ UNCHANGED tuples) /\ Return(c)
    /\ UNCHANGED <<row, mode, shares, object, erasure, lock, exposed>> /\ Others

\* Then the grants: row, then tuple
SwapGrant(c) ==
    /\ At(c, "swap") /\ req[c].todo = {}
    /\ \E u \in req[c].fresh \cup req[c].again : ListShare(c, u)
    /\ UNCHANGED <<row, mode, tuples, object, erasure, lock, exposed>> /\ Others

\* enqueue_tuple_write, best effort; the request ends with an error
EnqueueGrant(c) ==
    /\ At(c, "enqueue")
    /\ \/ /\ queued' = queued \cup {req[c].user} /\ NoFault
          /\ exposed' = exposed \cup {req[c].user}
       \/ Fault /\ UNCHANGED <<queued, exposed>>
    /\ Return(c)
    /\ UNCHANGED <<docVars, lock, scan, started, accepted, swept>>

Replaced(c) ==
    /\ At(c, "swap") /\ AllDone(c)
    /\ Return(c)
    /\ UNCHANGED <<docVars, lock, faults, exposed>> /\ Others

-----------------------------------------------------------------------------
(* Beside the requests *)

\* Dropped with its connection or its process; an open transaction rolls back.
Abandon(c) ==
    /\ req[c] # Idle /\ Return(c)
    /\ lock' = IF lock = c THEN Nobody ELSE lock
    /\ UNCHANGED <<docVars, faults, exposed>> /\ Others

\* process-authz-outbox replays the tuple without looking at SQL, perhaps more
\* than once, and gives up after its retries.
ReplayGrant(u) ==
    /\ u \in queued
    /\ tuples' \in {tuples, tuples \cup {u}}
    /\ queued' \in {queued, queued \ {u}}
    /\ UNCHANGED <<row, mode, shares, object, erasure, lock, req, scan, started, faults, histVars>>

\* process-storage-outbox
EraseObject ==
    /\ erasure = "pending"
    /\ \/ object' = FALSE /\ erasure' = "processed"
       \/ object' \in {object, FALSE} /\ erasure' \in {"pending", "dead"}
    /\ UNCHANGED <<row, mode, shares, tuples, queued, lock, req, scan, started, faults, histVars>>

\* scan_documents_and_orphans: rows first, objects later
ScanRows ==
    /\ scan = "idle"
    /\ scan' = IF row = "present" THEN "row_known" ELSE "row_unknown"
    /\ UNCHANGED <<docVars, queued, lock, req, started, faults, histVars>>

ScanObjects ==
    /\ scan # "idle" /\ scan' = "idle"
    /\ IF scan = "row_unknown" /\ object
       THEN object' = FALSE /\ swept' = TRUE
       ELSE UNCHANGED <<object, swept>>
    /\ UNCHANGED <<row, mode, shares, tuples, erasure, queued, lock, req, started, faults, accepted, exposed>>

-----------------------------------------------------------------------------
Start(c) ==
    \/ PutObject(c) \/ DeleteDocument(c)
    \/ \E m \in Modes : SetAccessMode(c, m)
    \/ \E u \in Users : ShareDocument(c, u) \/ RevokeShare(c, u)
    \/ \E m \in Modes, target \in SUBSET Users : ReplacePermissions(c, m, target)

Continue(c) ==
    \/ InsertDocument(c) \/ ensure_document_workspace_relation(c) \/ DropRow(c) \/ DropObject(c)
    \/ RevokeTuple(c) \/ CommitChange(c)
    \/ InsertShare(c) \/ GrantTuple(c) \/ UndoShare(c) \/ TakeBackTuple(c) \/ UnlistShare(c)
    \/ PlanGrants(c) \/ CommitMode(c) \/ SwapRevoke(c) \/ SwapGrant(c) \/ EnqueueGrant(c)
    \/ Replaced(c)

Next ==
    \/ \E c \in Clients : Start(c) \/ Continue(c) \/ Abandon(c)
    \/ \E u \in Users : ReplayGrant(u)
    \/ EraseObject \/ ScanRows \/ ScanObjects

Spec == Init /\ [][Next]_vars

-----------------------------------------------------------------------------
(* Properties *)

\* "OpenFGA first, then SQL" on every revocation and SQL first on every grant: at
\* no moment, whatever fails and wherever a handler is dropped, has a user a viewer
\* tuple without a share row, except a user touched by a known gap (a grant that
\* overlaps with another request, the undo of a share, a queued tuple_write).
NoTupleWithoutRow == (tuples \cap Users) \ exposed \subseteq shares

\* A document that was accepted and then deleted has lost its workspace relation:
\* delete_document revokes before its transaction, and nothing writes it again.
DeletedHasNoRelation == accepted /\ row = "gone" => Workspace \notin tuples

\* A document answered 202 keeps its original as long as its row exists, unless a
\* storage scan that read the rows before the upload deletes it: every deletion of
\* the object comes after a commit that removes the row, or belongs to a rejection.
AcceptedHasObject == accepted /\ row = "present" /\ ~swept => object

\* The original of a deleted document is never forgotten: while it is there, a row
\* of storage_outbox says so (committed with the delete), though the request's own
\* attempt fails or never comes.
DeletedObjectIsKnown ==
    accepted /\ row = "gone" /\ object => erasure \in {"pending", "dead"}

\* A step in which PUT permissions answers 204: all was done, or nothing was to do.
Answered(c) ==
    /\ req[c] # Idle /\ req[c].op = "replace" /\ req'[c] = Idle /\ faults' = faults
    /\ (At(c, "swap") /\ AllDone(c)) \/ (At(c, "check") /\ NothingToDo(c))

PermissionsAre(target, S) ==
    \A u \in S : /\ u \in shares' <=> u \in target
                 /\ u \in tuples' <=> u \in target

\* PUT permissions that answers success has left exactly its target, in SQL and in
\* OpenFGA, of every user no known gap has touched: also after a failed or dropped
\* PUT, share or revocation before it.
SuccessMeansTarget ==
    [][\A c \in Clients : Answered(c) => PermissionsAre(req[c].target, Users \ exposed)]_vars
=============================================================================
