------------------------------ MODULE Tenants ------------------------------
(***************************************************************************)
(* Tenants, workspaces and the end of them: the requests of               *)
(* routes/workspaces.rs (create_tenant, add_tenant_owner,                 *)
(* create_workspace, delete_workspace with auth/resource_cleanup.rs), the *)
(* operator's delete-tenant (tenant_cleanup.rs) and                       *)
(* cleanup-authz-orphans (authz_orphan_report.rs), over three stores:     *)
(* the SQL rows, the relations of OpenFGA (auth/authz.rs, model.fga) and  *)
(* the derived data of a document (its points and its object).            *)
(*                                                                         *)
(* An identifier is a UUID: it names one resource for ever, so the parent  *)
(* of each is fixed in advance.  One user owns every tenant and creates    *)
(* every workspace; roles of other members are MemberRoles.  An upload is  *)
(* here the insertion of its row and the writing of its relation, its      *)
(* object and its points come with the row: the steps between are          *)
(* DocumentLifecycle, the worker that indexes later is IngestionWorker.    *)
(***************************************************************************)
EXTENDS Naturals, FiniteSets

CONSTANTS
    Tenant, Workspace, Document,  \* the identifiers
    TenantOf,                     \* the tenant of each workspace
    WorkspaceOf,                  \* the workspace of each document
    BatchSize,                    \* OPENFGA_DELETE_BATCH_SIZE
    MaxFaults                     \* bound: failing calls and crashes

Resource == Tenant \cup Workspace \cup Document

ASSUME ParentsAssumption ==
    /\ TenantOf \in [Workspace -> Tenant]
    /\ WorkspaceOf \in [Document -> Workspace]
    /\ Tenant \cap Workspace = {} /\ Tenant \cap Document = {}
    /\ Workspace \cap Document = {}

ASSUME BoundsAssumption ==
    BatchSize \in Nat \ {0} /\ MaxFaults \in Nat

VARIABLES
    rows,       \* the resources with a row in tenants, workspaces or documents
    born,       \* the resources that ever had one
    owners,     \* tenant_members: the tenants with an owner row
    tuples,     \* the relations in OpenFGA
    queued,     \* authz_outbox: tuple_write rows still to be delivered
    grants,     \* relations a running request has still to write
    admitted,   \* workspaces whose POST passed the owner check
    del,        \* DELETE /workspaces, per workspace
    op,         \* the run of delete-tenant
    wanted,     \* tenants the operator set out to delete
    sweep,      \* the run of cleanup-authz-orphans
    points,     \* documents with points in Qdrant
    objects,    \* documents with an object in the bucket
    owedPoints, \* qdrant_outbox: sets of workspaces whose points are to go
    owedObjects,\* storage_outbox: resources whose prefix is to go
    touched,    \* live resources whose relations a recovery file names, a
                \* DELETE took, or a request that answered 500 was to write
    spared,     \* relations a deletion under way may leave: written after its
                \* plan, or of a batch OpenFGA refused
    faults

sqlVars == <<rows, born, owners>>
authzVars == <<tuples, queued, grants>>
dataVars == <<points, objects, owedPoints, owedObjects>>
operatorVars == <<op, wanted>>
requestVars == <<admitted, del>>
vars == <<sqlVars, authzVars, dataVars, operatorVars, sweep, requestVars, touched, spared, faults>>

-----------------------------------------------------------------------------
(* Relations *)

Relations(r) ==
    IF r \in Tenant THEN {<<r, "platform">>, <<r, "owner">>}
    ELSE IF r \in Workspace THEN {<<r, "tenant">>, <<r, "admin">>}
    ELSE {<<r, "workspace">>}

Tuple == UNION {Relations(r) : r \in Resource}

DocumentsOf(ws) == {d \in Document : WorkspaceOf[d] \in ws}
WorkspacesOf(t) == {w \in Workspace : TenantOf[w] = t}

\* What ON DELETE CASCADE removes with a resource
Subtree(r) ==
    LET ws == IF r \in Tenant THEN WorkspacesOf(r) ELSE {r} \cap Workspace IN
    {r} \cup ws \cup DocumentsOf(ws)

\* can_assign_role: tenant_owner, which is owner from tenant
CanAssignRole(w) == {<<w, "tenant">>, <<TenantOf[w], "owner">>} \subseteq tuples

\* member: admin, which tenant_owner implies; by it an upload or a listing passes
IsMember(w) == <<w, "admin">> \in tuples \/ CanAssignRole(w)

-----------------------------------------------------------------------------
(* Runs and the row locks they hold *)

Idle == [pc |-> "idle"]

DelRun == {Idle} \cup [pc : {"revoke", "purge"}, left : SUBSET Tuple]
OpRun ==
    {Idle} \cup [pc : {"list", "delete", "purge"}, tenant : Tenant,
                 ws : SUBSET Workspace, docs : SUBSET Document, left : SUBSET Tuple]
SweepRun == {Idle} \cup [pc : {"list"}, seen : SUBSET Resource]

TypeOK ==
    /\ rows \subseteq born /\ born \subseteq Resource /\ owners \subseteq Tenant \cap rows
    /\ tuples \subseteq Tuple /\ queued \subseteq Tuple /\ grants \subseteq Tuple
    /\ admitted \subseteq Workspace
    /\ del \in [Workspace -> DelRun]
    /\ op \in OpRun
    /\ wanted \subseteq Tenant
    /\ sweep \in SweepRun
    /\ points \subseteq Document /\ objects \subseteq Document
    /\ owedPoints \subseteq SUBSET Workspace
    /\ owedObjects \subseteq Resource
    /\ touched \subseteq rows /\ spared \subseteq Tuple
    /\ faults \in 0..MaxFaults

Init ==
    /\ rows = {} /\ born = {} /\ owners = {}
    /\ tuples = {} /\ queued = {} /\ grants = {}
    /\ admitted = {} /\ del = [w \in Workspace |-> Idle]
    /\ op = Idle /\ wanted = {}
    /\ sweep = Idle
    /\ points = {} /\ objects = {} /\ owedPoints = {} /\ owedObjects = {}
    /\ touched = {} /\ spared = {}
    /\ faults = 0

Fault == faults < MaxFaults /\ faults' = faults + 1
NoFault == UNCHANGED faults

OpHolds(t) == op.pc \in {"list", "delete"} /\ op.tenant = t

\* Mutant: the operator reads the tenant's row without FOR UPDATE
TenantUnguarded(t) == TRUE

\* No FOR UPDATE of the row: the INSERT of a child need not wait.
TenantFree(t) == ~OpHolds(t)
WorkspaceFree(w) == del[w].pc # "revoke"

\* The deletions that have taken a plan with r in it
Planners(r) == {w \in Workspace : ~WorkspaceFree(w) /\ r \in Subtree(w)}
               \cup {t \in Tenant : OpHolds(t) /\ r \in Subtree(t)}

Written(g) ==
    /\ tuples' = tuples \cup {g}
    /\ spared' = IF g[1] \in rows /\ Planners(g[1]) # {} THEN spared \cup {g} ELSE spared
Removed(gs) == tuples' = tuples \ gs /\ spared' = spared \ gs
Untouched == UNCHANGED touched
Touched(rs) == touched' = touched \cup (rs \cap rows)

\* The request answers 500 and no outbox row has the relation.
GivenUp(g) == (Written(g) \/ UNCHANGED <<tuples, spared>>) /\ Touched({g[1]})

\* The deletion of r ends: spared is of no more use where it was the only one.
Ended(r) == spared' = {g \in spared : Planners(g[1]) \ {r} # {}}

-----------------------------------------------------------------------------
(* Creation *)

Insert(r) == r \notin born /\ rows' = rows \cup {r} /\ born' = born \cup {r}

\* INSERT INTO tenants, then its relation to the platform
create_tenant(t) ==
    /\ Insert(t) /\ grants' = grants \cup {<<t, "platform">>}
    /\ UNCHANGED <<owners, tuples, queued, dataVars, operatorVars, sweep, requestVars, touched, spared, faults>>

\* INSERT INTO tenant_members ON CONFLICT DO NOTHING; the foreign key waits for
\* a lock on the tenant.  The caller has its id from create_tenant's answer.  A
\* second call is for an owner who lost the relation.
add_tenant_owner(t) ==
    /\ t \in rows /\ TenantFree(t)
    /\ <<t, "platform">> \notin grants /\ <<t, "owner">> \notin tuples \cup grants \cup queued
    /\ owners' = owners \cup {t} /\ grants' = grants \cup {<<t, "owner">>}
    /\ UNCHANGED <<rows, born, tuples, queued, dataVars, operatorVars, sweep, requestVars, touched, spared, faults>>

\* The owner check of POST /tenants/{id}/workspaces, before the transaction
AskWorkspace(w) ==
    /\ w \notin born \cup admitted /\ <<TenantOf[w], "owner">> \in tuples
    /\ admitted' = admitted \cup {w}
    /\ UNCHANGED <<sqlVars, authzVars, dataVars, operatorVars, sweep, del, touched, spared, faults>>

\* Workspace and member row in one transaction; without the tenant it fails.
create_workspace(w) ==
    /\ w \in admitted /\ TenantFree(TenantOf[w])
    /\ admitted' = admitted \ {w}
    /\ IF TenantOf[w] \in rows
       THEN Insert(w) /\ grants' = grants \cup Relations(w)
       ELSE UNCHANGED <<rows, born, grants>>
    /\ UNCHANGED <<owners, tuples, queued, dataVars, operatorVars, sweep, del, touched, spared, faults>>

InsertDocument(d) ==
    /\ IsMember(WorkspaceOf[d]) /\ WorkspaceOf[d] \in rows /\ WorkspaceFree(WorkspaceOf[d])
    /\ Insert(d) /\ grants' = grants \cup Relations(d)
    /\ objects' = objects \cup {d} /\ points' = points \cup {d}
    /\ UNCHANGED <<owners, tuples, queued, owedPoints, owedObjects, operatorVars, sweep, requestVars, touched, spared, faults>>

\* write_tuples for one relation of a tenant or a workspace.  An error queues it;
\* that failing too, the caller has a 500 and nobody the relation.
WriteGrant(g) ==
    /\ g \in grants /\ grants' = grants \ {g} /\ g[1] \notin Document
    /\ g[2] = "admin" => <<g[1], "tenant">> \notin grants
    /\ \/ Written(g) /\ NoFault /\ UNCHANGED <<queued, touched>>
       \/ /\ Fault /\ queued' = queued \cup {g} /\ UNCHANGED touched
          /\ Written(g) \/ UNCHANGED <<tuples, spared>>
       \/ Fault /\ GivenUp(g) /\ UNCHANGED queued
    /\ UNCHANGED <<sqlVars, dataVars, operatorVars, sweep, requestVars>>

\* The relation of a new document; on an error the upload takes its row back.
RelateDocument(d) ==
    LET g == <<d, "workspace">> IN
    /\ g \in grants /\ grants' = grants \ {g}
    /\ \/ Written(g) /\ NoFault /\ UNCHANGED <<rows, objects, points, touched>>
       \/ /\ WorkspaceFree(WorkspaceOf[d]) /\ Fault
          /\ tuples' \in {tuples, tuples \cup {g}} /\ spared' = spared \ {g} /\ touched' = touched \ {d}
          /\ rows' = rows \ {d} /\ objects' = objects \ {d} /\ points' = points \ {d}
    /\ UNCHANGED <<born, owners, queued, owedPoints, owedObjects, operatorVars, sweep, requestVars>>

\* The API goes down before the relations of r are written.
CreatorCrash(r) ==
    LET gs == Relations(r) \cap grants IN
    /\ gs # {} /\ Fault
    /\ grants' = grants \ gs /\ Touched({r})
    /\ UNCHANGED <<sqlVars, tuples, spared, queued, dataVars, operatorVars, sweep, requestVars>>

\* process-authz-outbox replays the tuple, whatever became of its object, or
\* runs out of retries.
DeliverGrant(g) ==
    /\ g \in queued /\ queued' = queued \ {g}
    /\ \/ Written(g) /\ NoFault /\ UNCHANGED touched
       \/ GivenUp(g) /\ Fault
    /\ UNCHANGED <<sqlVars, grants, dataVars, operatorVars, sweep, requestVars>>

-----------------------------------------------------------------------------
(* DELETE /workspaces/{id} *)

\* Mutant: the plan leaves the documents' relations to the cascade
PlanWithoutDocuments(w) == Relations(w)

\* The relations the rows of the workspace imply
WorkspacePlan(w) == UNION {Relations(r) : r \in Subtree(w) \cap rows}

\* CanAssignRole, then SELECT ... FOR UPDATE and the plan; an answer of 403 or
\* 404 changes nothing.
capture_workspace_delete_plan(w) ==
    /\ del[w] = Idle /\ w \in rows /\ CanAssignRole(w)
    /\ del' = [del EXCEPT ![w] = [pc |-> "revoke", left |-> WorkspacePlan(w)]]
    /\ UNCHANGED <<sqlVars, authzVars, dataVars, operatorVars, sweep, admitted, touched, spared, faults>>

Stop(w) == del' = [del EXCEPT ![w] = Idle]

\* delete_tuples_fga_first: one by one, the tenant's first, the documents'
\* last; a missing one is a success, another error rolls back and is answered 500.
RevokeRelation(w) ==
    /\ del[w].pc = "revoke"
    /\ \E g \in del[w].left :
        /\ <<w, "tenant">> \in del[w].left => g = <<w, "tenant">>
        /\ g[1] \in Document => del[w].left \cap Relations(w) = {}
        /\ Touched({g[1]})
        /\ \/ Removed({g}) /\ NoFault /\ del' = [del EXCEPT ![w].left = @ \ {g}]
           \/ Fault /\ Stop(w) /\ Ended(w) /\ tuples' \in {tuples, tuples \ {g}}
    /\ UNCHANGED <<sqlVars, queued, grants, dataVars, operatorVars, sweep, admitted>>

Cascade(r) ==
    /\ rows' = rows \ Subtree(r) /\ owners' = owners \ {r} /\ UNCHANGED born
    /\ touched' = touched \ Subtree(r)
    /\ spared' = {g \in spared : g[1] \notin Subtree(r)}

\* Outbox rows, audit and DELETE in one transaction; an error may hide a commit.
delete_workspace(w) ==
    /\ del[w].pc = "revoke" /\ del[w].left = {}
    /\ \/ /\ Cascade(w) /\ owedPoints' = owedPoints \cup {{w}}
          /\ owedObjects' = owedObjects \cup {w}
          /\ \/ NoFault /\ del' = [del EXCEPT ![w].pc = "purge"]
             \/ Fault /\ Stop(w)
       \/ Fault /\ Stop(w) /\ Ended(w) /\ UNCHANGED <<sqlVars, touched, owedPoints, owedObjects>>
    /\ UNCHANGED <<authzVars, points, objects, operatorVars, sweep, admitted>>

\* delete_points_by_workspace_for_request, best effort
PurgeWorkspace(w) ==
    /\ del[w].pc = "purge" /\ Stop(w)
    /\ \/ points' = points \ DocumentsOf({w}) /\ NoFault
       \/ UNCHANGED points /\ Fault
    /\ UNCHANGED <<sqlVars, authzVars, objects, owedPoints, owedObjects, operatorVars, sweep, admitted, touched, spared>>

-----------------------------------------------------------------------------
(* delete-tenant --delete --yes *)

OpStop == op' = Idle /\ UNCHANGED wanted
OpNext(run) == op' = run /\ UNCHANGED wanted

\* capture_operator_impact_tx: FOR UPDATE of the tenant, then its subtree
LockTenant(t) ==
    /\ op = Idle /\ t \in rows /\ wanted' = wanted \cup {t}
    /\ op' = [pc |-> "list", tenant |-> t, ws |-> WorkspacesOf(t) \cap rows,
              docs |-> Subtree(t) \cap Document \cap rows, left |-> {}]
    /\ UNCHANGED <<sqlVars, authzVars, dataVars, sweep, requestVars, touched, spared, faults>>

\* Mutant: the recovery file is left to the end of the run
FileLater(found) == UNCHANGED touched

RecoveryFile(found) == Touched({g[1] : g \in found})

\* Of list_all_tuples, those of the subtree
filter_tenant_subtree_tuples == {g \in tuples : g[1] \in {op.tenant} \cup op.ws \cup op.docs}

\* list_all_tuples and write_recovery_file; an error of either rolls back.
ListTuples ==
    /\ op.pc = "list"
    /\ LET found == filter_tenant_subtree_tuples IN
       \/ /\ OpNext([op EXCEPT !.pc = "delete", !.docs = {}, !.left = found])
          /\ RecoveryFile(found) /\ NoFault /\ UNCHANGED spared
       \/ OpStop /\ Fault /\ Untouched /\ Ended(op.tenant)
    /\ UNCHANGED <<sqlVars, authzVars, dataVars, sweep, requestVars>>

\* One batch: OpenFGA refuses it whole when one of its tuples is missing, and
\* the command goes on all the same.
delete_openfga_tuples ==
    /\ op.pc = "delete"
    /\ \E batch \in SUBSET op.left :
        /\ batch # {} /\ Cardinality(batch) <= BatchSize
        /\ Cardinality(batch) = BatchSize \/ batch = op.left
        /\ \/ /\ OpNext([op EXCEPT !.left = @ \ batch]) /\ NoFault
              /\ IF batch \subseteq tuples THEN Removed(batch)
                 ELSE spared' = spared \cup (batch \cap tuples) /\ UNCHANGED tuples
           \/ OpStop /\ Fault /\ tuples' \in {tuples, tuples \ batch} /\ Ended(op.tenant)
    /\ UNCHANGED <<sqlVars, queued, grants, dataVars, sweep, requestVars, touched>>

OwedByTenant ==
    owedPoints' = owedPoints \cup {op.ws} /\ owedObjects' = owedObjects \cup {op.tenant}

\* The cascade waits for locked workspaces.  An error after OpenFGA (exit code 3)
\* may hide a commit.
commit_operator_delete_tx ==
    /\ op.pc = "delete" /\ op.left = {} /\ \A w \in WorkspacesOf(op.tenant) : WorkspaceFree(w)
    /\ \/ /\ Cascade(op.tenant) /\ OwedByTenant
          /\ \/ NoFault /\ OpNext([op EXCEPT !.pc = "purge"])
             \/ Fault /\ OpStop
       \/ /\ Fault /\ OpStop /\ Ended(op.tenant)
          /\ UNCHANGED <<sqlVars, touched, owedPoints, owedObjects>>
    /\ UNCHANGED <<authzVars, points, objects, sweep, requestVars>>

\* Both stores once, best effort; the outbox rows stay.
run_post_commit_cleanup ==
    /\ op.pc = "purge" /\ OpStop
    /\ \/ /\ objects' = objects \ Subtree(op.tenant) /\ points' = points \ DocumentsOf(op.ws)
          /\ NoFault
       \/ Fault /\ points' = points \ DocumentsOf(op.ws) /\ UNCHANGED objects
       \/ Fault /\ UNCHANGED points /\ objects' \in {objects, objects \ Subtree(op.tenant)}
    /\ UNCHANGED <<sqlVars, authzVars, owedPoints, owedObjects, sweep, requestVars, touched, spared>>

-----------------------------------------------------------------------------
(* cleanup-authz-orphans --delete --yes *)

\* load_resource_inventory
ReadInventory ==
    /\ sweep = Idle /\ sweep' = [pc |-> "list", seen |-> rows]
    /\ UNCHANGED <<sqlVars, authzVars, dataVars, operatorVars, requestVars, touched, spared, faults>>

\* The relations of resources the inventory lacks
build_report(seen) == {g \in tuples : g[1] \notin seen}

\* list_all_tuples, later than the inventory; build_report; the recovery file;
\* delete_tuples_fga_first, which an error ends part of the way.
SweepOrphans ==
    /\ sweep.pc = "list" /\ sweep' = Idle
    /\ LET found == build_report(sweep.seen) IN
       \/ RecoveryFile(found) /\ Removed(found) /\ NoFault
       \/ Fault /\ RecoveryFile(found) /\ \E part \in SUBSET found : Removed(part)
       \/ Fault /\ UNCHANGED <<tuples, spared, touched>>
    /\ UNCHANGED <<sqlVars, queued, grants, dataVars, operatorVars, requestVars>>

-----------------------------------------------------------------------------
(* The two outboxes of the derived data *)

\* delete_by_workspace(s)
DrainPoints(ws) ==
    /\ ws \in owedPoints /\ owedPoints' = owedPoints \ {ws}
    /\ points' = points \ DocumentsOf(ws)
    /\ UNCHANGED <<sqlVars, authzVars, objects, owedObjects, operatorVars, sweep, requestVars, touched, spared, faults>>

\* Mutant: the processor resolves the prefix by the resource's row
DrainObjectsOfRow(r) ==
    /\ r \in owedObjects \cap rows /\ owedObjects' = owedObjects \ {r}
    /\ objects' = objects \ Subtree(r)
    /\ UNCHANGED <<sqlVars, authzVars, points, owedPoints, operatorVars, sweep, requestVars, touched, spared, faults>>

\* delete_prefix
DrainObjects(r) ==
    /\ r \in owedObjects /\ owedObjects' = owedObjects \ {r}
    /\ objects' = objects \ Subtree(r)
    /\ UNCHANGED <<sqlVars, authzVars, points, owedPoints, operatorVars, sweep, requestVars, touched, spared, faults>>

-----------------------------------------------------------------------------

DeleteStep(w) == RevokeRelation(w) \/ delete_workspace(w) \/ PurgeWorkspace(w)

\* From the first run on the operator has t in wanted.
OperatorStep ==
    \/ \E t \in wanted : LockTenant(t)
    \/ ListTuples \/ delete_openfga_tuples
    \/ commit_operator_delete_tx \/ run_post_commit_cleanup

Drain ==
    (\E ws \in SUBSET Workspace : DrainPoints(ws)) \/ (\E r \in Resource : DrainObjects(r))

Next ==
    \/ \E t \in Tenant : create_tenant(t) \/ add_tenant_owner(t) \/ LockTenant(t)
    \/ \E w \in Workspace :
        AskWorkspace(w) \/ create_workspace(w) \/ capture_workspace_delete_plan(w) \/ DeleteStep(w)
    \/ \E d \in Document : InsertDocument(d) \/ RelateDocument(d)
    \/ \E r \in Resource : CreatorCrash(r)
    \/ \E g \in Tuple : WriteGrant(g) \/ DeliverGrant(g)
    \/ OperatorStep
    \/ ReadInventory \/ SweepOrphans
    \/ Drain

Spec == Init /\ [][Next]_vars

\* A request runs to its end, the operator repeats the command as it asks for
\* (exit code 3), the outbox timers fire.
Fairness ==
    /\ \A w \in Workspace : WF_vars(DeleteStep(w))
    /\ WF_vars(OperatorStep)
    /\ WF_vars(Drain)

FairSpec == Spec /\ Fairness

-----------------------------------------------------------------------------
(* Properties *)

\* A live resource lacks one of its relations only when that left a trace: the
\* relation is on its way, a recovery file names it, a DELETE /workspaces took it,
\* or the request that should have written it answered 500 (workspaces.rs,
\* tenant_cleanup.rs write_recovery_file, cleanup-authz-orphans.rs).
MissingRelationIsKnown ==
    \A r \in rows \ touched : \A g \in Relations(r) :
        (g[2] = "owner" => r \in owners) => g \in tuples \cup queued \cup grants

\* A deletion leaves no relation behind but those written after it took its plan
\* and, delete-tenant, those of a batch that OpenFGA refused and its recovery
\* file names (resource_cleanup.rs, tenant_cleanup.rs delete_openfga_tuples).
DeletionTakesRelations ==
    [][\A g \in tuples :
        g[1] \in rows \ rows' /\ g[1] \notin {d \in Document : RelateDocument(d)}
            => g \in spared]_vars

\* The points and the object of a document whose workspace is gone are still
\* owed by an outbox row that reaches them (workspaces.rs delete_workspace,
\* tenant_cleanup.rs commit_operator_delete_tx).
ResidueOwed ==
    \A d \in Document : WorkspaceOf[d] \in born \ rows =>
        /\ d \in points => \E ws \in owedPoints : WorkspaceOf[d] \in ws
        /\ d \in objects => \E r \in owedObjects : d \in Subtree(r)

\* A tenant the operator set out to delete goes in the end, and with it every
\* point and object under it, whatever failed on the way.
TenantDeletionFinishes ==
    \A t \in Tenant :
        t \in wanted ~> t \notin rows /\ (points \cup objects) \cap Subtree(t) = {}
=============================================================================
