---------------------------- MODULE TenantsProofs ----------------------------
(***************************************************************************)
(* Proofs about Tenants, for any number of tenants, workspaces, documents   *)
(* and failing calls.  TenantsInv is inductive: what the row locks and the  *)
(* recovery file protect (Known, LockInv, FileInv), what the plans of the   *)
(* deletions know (PlanInv), and the two invariants of the runs.  That a    *)
(* deletion leaves nothing behind is the plan of its last step.             *)
(***************************************************************************)
EXTENDS Tenants, TLAPS

-----------------------------------------------------------------------------
(* Relations and subtrees *)

\* A resource is a tenant, a workspace or a document and only one of them; the
\* relations of the model are those of its resources.
LEMMA RelationsOf ==
    ASSUME NEW r \in Resource
    PROVE  /\ Relations(r) \subseteq Tuple
           /\ \A g \in Relations(r) : g[1] = r
BY DEF Relations, Tuple

LEMMA TupleOf ==
    ASSUME NEW g \in Tuple
    PROVE  g[1] \in Resource /\ g \in Relations(g[1])
BY DEF Relations, Tuple

LEMMA SubtreeType ==
    ASSUME NEW r \in Resource
    PROVE  Subtree(r) \subseteq Resource /\ r \in Subtree(r)
BY DEF Subtree, WorkspacesOf, DocumentsOf, Resource

\* A document is in the subtree of its workspace and of the tenant above.
LEMMA Above ==
    ASSUME NEW d \in Document
    PROVE  /\ WorkspaceOf[d] \in Workspace
           /\ d \in Subtree(WorkspaceOf[d])
           /\ \A t \in Tenant : d \in Subtree(t) <=> WorkspaceOf[d] \in WorkspacesOf(t)
BY ParentsAssumption DEF Subtree, WorkspacesOf, DocumentsOf

LEMMA PlanType ==
    ASSUME NEW w \in Workspace
    PROVE  WorkspacePlan(w) \subseteq Tuple
BY SubtreeType, RelationsOf DEF WorkspacePlan, Resource

-----------------------------------------------------------------------------
(* Type correctness *)

\* A run that is not idle has all its fields.
LEMMA Runs ==
    ASSUME TypeOK
    PROVE  /\ \A w \in Workspace : del[w].pc # "idle" =>
                del[w] \in [pc : {"revoke", "purge"}, left : SUBSET Tuple]
           /\ op.pc # "idle" =>
                op \in [pc : {"list", "delete", "purge"}, tenant : Tenant,
                        ws : SUBSET Workspace, docs : SUBSET Document, left : SUBSET Tuple]
           /\ sweep.pc # "idle" => sweep \in [pc : {"list"}, seen : SUBSET Resource]
BY DEF TypeOK, DelRun, OpRun, SweepRun, Idle

LEMMA InitType == Init => TypeOK
BY BoundsAssumption DEF Init, TypeOK, DelRun, OpRun, SweepRun

LEMMA NextType == TypeOK /\ [Next]_vars => TypeOK'
<1> SUFFICES ASSUME TypeOK, [Next]_vars PROVE TypeOK'
    OBVIOUS
<1> USE DEF TypeOK, sqlVars, authzVars, dataVars, operatorVars, requestVars
<1>0. /\ \A r \in Tenant \cup Workspace \cup Document : r \in Resource
      /\ Tenant \cap Workspace = {} /\ Tenant \cap Document = {} /\ Workspace \cap Document = {}
    BY ParentsAssumption DEF Resource
<1>f. Fault \/ NoFault => faults' \in 0..MaxFaults
    BY BoundsAssumption DEF Fault, NoFault
<1>w. ASSUME NEW g \in Tuple, Written(g)
      PROVE  tuples' \subseteq Tuple /\ spared' \subseteq Tuple
    BY <1>w DEF Written
<1>u. ASSUME NEW rs, Touched(rs) PROVE touched' \subseteq rows
    BY <1>u DEF Touched
<1>c. ASSUME NEW r \in Resource, Cascade(r)
      PROVE  /\ rows' \subseteq born' /\ born' = born
             /\ touched' \subseteq rows' /\ spared' \subseteq Tuple
             /\ owners' \subseteq Tenant
    BY <1>c DEF Cascade
<1>1. ASSUME NEW t \in Tenant, create_tenant(t) \/ add_tenant_owner(t) PROVE TypeOK'
    <2>1. {<<t, "platform">>, <<t, "owner">>} \subseteq Tuple
        BY <1>0, RelationsOf DEF Relations
    <2> QED BY <1>0, <1>1, <2>1 DEF create_tenant, add_tenant_owner, Insert
<1>2. ASSUME NEW w \in Workspace, AskWorkspace(w) \/ create_workspace(w) PROVE TypeOK'
    BY <1>0, <1>2, RelationsOf DEF AskWorkspace, create_workspace, Insert
<1>3. ASSUME NEW d \in Document, InsertDocument(d) PROVE TypeOK'
    BY <1>0, <1>3, RelationsOf DEF InsertDocument, Insert
<1>4. ASSUME NEW g \in Tuple, WriteGrant(g) \/ DeliverGrant(g) PROVE TypeOK'
    BY <1>4, <1>f, <1>w, <1>u DEF WriteGrant, DeliverGrant, GivenUp, Fault, NoFault
<1>5. ASSUME NEW d \in Document, RelateDocument(d) PROVE TypeOK'
    <2>1. <<d, "workspace">> \in Tuple
        BY <1>5 DEF RelateDocument
    <2> QED BY <1>0, <1>5, <1>f, <1>w, <2>1 DEF RelateDocument
<1>6. ASSUME NEW r \in Resource, CreatorCrash(r) PROVE TypeOK'
    BY <1>6, <1>f, <1>u DEF CreatorCrash
<1>7. ASSUME NEW w \in Workspace, capture_workspace_delete_plan(w) PROVE TypeOK'
    BY <1>7, PlanType DEF capture_workspace_delete_plan, DelRun
<1>8. ASSUME NEW w \in Workspace, RevokeRelation(w) PROVE TypeOK'
    <2>1. del[w] \in [pc : {"revoke", "purge"}, left : SUBSET Tuple]
        BY <1>8, Runs DEF RevokeRelation
    <2>2. PICK g \in del[w].left :
            /\ Touched({g[1]})
            /\ \/ Removed({g}) /\ NoFault /\ del' = [del EXCEPT ![w].left = @ \ {g}]
               \/ Fault /\ Stop(w) /\ Ended(w) /\ tuples' \in {tuples, tuples \ {g}}
        BY <1>8 DEF RevokeRelation
    <2>3. del' \in [Workspace -> DelRun]
        BY <2>1, <2>2 DEF Stop, DelRun
    <2>4. tuples' \subseteq Tuple /\ spared' \subseteq Tuple
        BY <2>2 DEF Removed, Ended
    <2> QED BY <1>8, <1>f, <1>u, <2>2, <2>3, <2>4 DEF RevokeRelation
<1>9. ASSUME NEW w \in Workspace, delete_workspace(w) PROVE TypeOK'
    <2>1. del[w] \in [pc : {"revoke", "purge"}, left : SUBSET Tuple]
        BY <1>9, Runs DEF delete_workspace
    <2>2. del' \in [Workspace -> DelRun]
        BY <1>9, <2>1 DEF delete_workspace, Stop, DelRun
    <2>3. faults' \in 0..MaxFaults
        BY <1>9, <1>f DEF delete_workspace
    <2>4. CASE Cascade(w)
        <3>1. owners' \subseteq Tenant \cap rows'
            BY <1>0, <2>4 DEF Cascade, Subtree, DocumentsOf
        <3> QED BY <1>0, <1>9, <1>c, <2>2, <2>3, <2>4, <3>1 DEF delete_workspace
    <2>5. CASE ~Cascade(w)
        BY <1>9, <2>2, <2>3, <2>5 DEF delete_workspace, Ended
    <2> QED BY <2>4, <2>5
<1>10. ASSUME NEW w \in Workspace, PurgeWorkspace(w) PROVE TypeOK'
    BY <1>10, <1>f DEF PurgeWorkspace, Stop, DelRun
<1>11. ASSUME NEW t \in Tenant, LockTenant(t) PROVE TypeOK'
    BY <1>11 DEF LockTenant, OpRun, WorkspacesOf
<1>12. CASE ListTuples
    <2>1. op \in [pc : {"list", "delete", "purge"}, tenant : Tenant,
                  ws : SUBSET Workspace, docs : SUBSET Document, left : SUBSET Tuple]
        BY <1>12, Runs DEF ListTuples
    <2>2. op' \in OpRun /\ wanted' \subseteq Tenant
        <3>1. filter_tenant_subtree_tuples \subseteq Tuple
            BY DEF filter_tenant_subtree_tuples
        <3>2. /\ wanted' = wanted
              /\ op' = Idle \/ op' = [op EXCEPT !.pc = "delete", !.docs = {},
                                               !.left = filter_tenant_subtree_tuples]
            BY <1>12 DEF ListTuples, OpNext, OpStop
        <3> QED BY <2>1, <3>1, <3>2 DEF OpRun
    <2>3. touched' \subseteq rows /\ spared' \subseteq Tuple /\ faults' \in 0..MaxFaults
        BY <1>12, <1>f, <1>u DEF ListTuples, RecoveryFile, Untouched, Ended
    <2> QED BY <1>12, <2>2, <2>3 DEF ListTuples
<1>13. CASE delete_openfga_tuples
    <2>1. op \in [pc : {"list", "delete", "purge"}, tenant : Tenant,
                  ws : SUBSET Workspace, docs : SUBSET Document, left : SUBSET Tuple]
        BY <1>13, Runs DEF delete_openfga_tuples
    <2>2. op' \in OpRun /\ wanted' \subseteq Tenant
        BY <1>13, <2>1 DEF delete_openfga_tuples, OpNext, OpStop, OpRun
    <2>3. tuples' \subseteq Tuple /\ spared' \subseteq Tuple /\ faults' \in 0..MaxFaults
        BY <1>13, <1>f DEF delete_openfga_tuples, Removed, Ended
    <2> QED BY <1>13, <2>2, <2>3 DEF delete_openfga_tuples
<1>14. CASE commit_operator_delete_tx
    <2>1. op \in [pc : {"list", "delete", "purge"}, tenant : Tenant,
                  ws : SUBSET Workspace, docs : SUBSET Document, left : SUBSET Tuple]
        BY <1>14, Runs DEF commit_operator_delete_tx
    <2>2. op' \in OpRun /\ wanted' \subseteq Tenant
        BY <1>14, <2>1 DEF commit_operator_delete_tx, OpNext, OpStop, OpRun
    <2>3. faults' \in 0..MaxFaults
        BY <1>14, <1>f DEF commit_operator_delete_tx
    <2>4. CASE Cascade(op.tenant) /\ OwedByTenant
        <3>1. owners' \subseteq Tenant \cap rows'
            BY <1>0, <2>1, <2>4 DEF Cascade, Subtree, DocumentsOf, WorkspacesOf
        <3>2. owedPoints' \subseteq SUBSET Workspace /\ owedObjects' \subseteq Resource
            BY <1>0, <2>1, <2>4 DEF OwedByTenant
        <3>3. op.tenant \in Resource
            BY <1>0, <2>1
        <3> QED BY <1>14, <1>c, <2>2, <2>3, <2>4, <3>1, <3>2, <3>3 DEF commit_operator_delete_tx
    <2>5. CASE ~(Cascade(op.tenant) /\ OwedByTenant)
        BY <1>14, <2>2, <2>3, <2>5 DEF commit_operator_delete_tx, Ended
    <2> QED BY <2>4, <2>5
<1>15. CASE run_post_commit_cleanup
    BY <1>15, <1>f DEF run_post_commit_cleanup, OpStop, OpRun
<1>16. CASE ReadInventory
    BY <1>16 DEF ReadInventory, SweepRun
<1>17. CASE SweepOrphans
    BY <1>17, <1>f, <1>u DEF SweepOrphans, RecoveryFile, Removed, SweepRun
<1>18. CASE Drain
    BY <1>18 DEF Drain, DrainPoints, DrainObjects
<1>19. CASE UNCHANGED vars
    BY <1>19 DEF vars
<1> QED
    BY <1>1, <1>2, <1>3, <1>4, <1>5, <1>6, <1>7, <1>8, <1>9, <1>10, <1>11, <1>12, <1>13,
       <1>14, <1>15, <1>16, <1>17, <1>18, <1>19
    DEF Next, DeleteStep, OperatorStep

\* Every variable keeps its type: rows were born, a recovery file or a refused
\* request concerns live rows, every relation is one of a resource.
THEOREM TypeCorrect == Spec => []TypeOK
BY InitType, NextType, PTL DEF Spec

-----------------------------------------------------------------------------
(* What the deletions know *)

\* A relation that exists or is on its way is one of a resource that was born.
\* So a resource that is inserted has none yet.
Known == \A g \in tuples \cup queued \cup grants : g[1] \in born

\* Behind the lock of its row no workspace joins the tenant.
LockInv ==
    op.pc \in {"list", "delete"} => WorkspacesOf(op.tenant) \cap rows \subseteq op.ws

\* The recovery file names every relation the operator is about to remove.
FileInv ==
    op.pc = "delete" =>
        \A g \in op.left : g[1] \in born /\ (g[1] \in rows => g[1] \in touched)

\* The relations of what a DELETE is going to remove: in its plan, or spared.
RevokeInv ==
    \A w \in Workspace : del[w].pc = "revoke" =>
        \A g \in tuples : g[1] \in Subtree(w) \cap rows => g \in del[w].left \cup spared

\* Before it has listed the relations the operator knows its resources; those
\* of a document that was uploaded since are spared.
ListInv ==
    op.pc = "list" =>
        \A g \in tuples : g[1] \in Subtree(op.tenant) \cap rows =>
            g[1] \in {op.tenant} \cup op.ws \cup op.docs \/ g \in spared

\* Afterwards every relation is still to go, or spared.
BatchInv ==
    op.pc = "delete" =>
        \A g \in tuples : g[1] \in Subtree(op.tenant) \cap rows => g \in op.left \cup spared

\* An inserted resource was not born before, and nothing else is.
LEMMA Inserted ==
    ASSUME NEW r, Insert(r)
    PROVE  r \notin born /\ rows' = rows \cup {r} /\ born' = born \cup {r}
BY DEF Insert

LEMMA NextKnown == TypeOK /\ Known /\ [Next]_vars => Known'
<1> SUFFICES ASSUME TypeOK, Known, [Next]_vars,
                    NEW g \in tuples' \cup queued' \cup grants'
             PROVE  g[1] \in born'
    BY DEF Known
<1> USE DEF sqlVars, authzVars, dataVars, operatorVars, requestVars
<1>1. ASSUME born \subseteq born', g \in tuples \cup queued \cup grants PROVE g[1] \in born'
    BY <1>1 DEF Known
<1>2. ASSUME NEW t \in Tenant, create_tenant(t) \/ add_tenant_owner(t) \/ LockTenant(t)
      PROVE  g[1] \in born'
    BY <1>1, <1>2 DEF create_tenant, add_tenant_owner, LockTenant, Insert, TypeOK
<1>3. ASSUME NEW w \in Workspace,
             AskWorkspace(w) \/ create_workspace(w) \/ capture_workspace_delete_plan(w)
      PROVE  g[1] \in born'
    <2>1. \A h \in Relations(w) : h[1] = w
        BY RelationsOf DEF Resource
    <2> QED BY <1>1, <1>3, <2>1
            DEF AskWorkspace, create_workspace, capture_workspace_delete_plan, Insert
<1>4. ASSUME NEW w \in Workspace, DeleteStep(w) PROVE g[1] \in born'
    BY <1>1, <1>4 DEF DeleteStep, RevokeRelation, delete_workspace, PurgeWorkspace, Cascade, Removed
<1>5. ASSUME NEW d \in Document, InsertDocument(d) \/ RelateDocument(d) PROVE g[1] \in born'
    <2>1. \A h \in Relations(d) : h[1] = d
        BY RelationsOf DEF Resource
    <2> QED BY <1>1, <1>5, <2>1 DEF InsertDocument, RelateDocument, Insert, Written
<1>6. ASSUME NEW r \in Resource, CreatorCrash(r) PROVE g[1] \in born'
    BY <1>1, <1>6 DEF CreatorCrash
<1>7. ASSUME NEW h \in Tuple, WriteGrant(h) \/ DeliverGrant(h) PROVE g[1] \in born'
    BY <1>1, <1>7 DEF WriteGrant, DeliverGrant, Written, GivenUp
<1>8. ASSUME ListTuples \/ delete_openfga_tuples \/ commit_operator_delete_tx
             \/ run_post_commit_cleanup
      PROVE  g[1] \in born'
    BY <1>1, <1>8 DEF ListTuples, delete_openfga_tuples, commit_operator_delete_tx,
                      run_post_commit_cleanup, Cascade, Removed
<1>9. ASSUME ReadInventory \/ SweepOrphans \/ Drain PROVE g[1] \in born'
    BY <1>1, <1>9 DEF ReadInventory, SweepOrphans, Removed, Drain, DrainPoints, DrainObjects
<1>10. CASE UNCHANGED vars
    BY <1>1, <1>10 DEF vars
<1> QED
    BY <1>2, <1>3, <1>4, <1>5, <1>6, <1>7, <1>8, <1>9, <1>10 DEF Next, OperatorStep, TypeOK

\* A workspace joins its tenant only while nobody holds the tenant's row.
LEMMA NextLock == TypeOK /\ LockInv /\ [Next]_vars => LockInv'
<1> SUFFICES ASSUME TypeOK, LockInv, [Next]_vars PROVE LockInv'
    OBVIOUS
<1> USE DEF sqlVars, authzVars, dataVars, operatorVars, requestVars
<1>1. ASSUME UNCHANGED op, \A w \in rows' \cap Workspace : w \in rows PROVE LockInv'
    BY <1>1 DEF LockInv, WorkspacesOf
<1>2. ASSUME op' = Idle \/ op'.pc = "purge" PROVE LockInv'
    BY <1>2 DEF LockInv, Idle
<1>3. ASSUME NEW t \in Tenant, create_tenant(t) \/ add_tenant_owner(t) PROVE LockInv'
    BY <1>1, <1>3, ParentsAssumption DEF create_tenant, add_tenant_owner, Insert
<1>4. ASSUME NEW t \in Tenant, LockTenant(t) PROVE LockInv'
    BY <1>4 DEF LockTenant, LockInv
<1>5. ASSUME NEW w \in Workspace, create_workspace(w) PROVE LockInv'
    BY <1>5 DEF create_workspace, LockInv, Insert, TenantFree, OpHolds, WorkspacesOf
<1>6. ASSUME NEW w \in Workspace, AskWorkspace(w) \/ capture_workspace_delete_plan(w) \/ DeleteStep(w)
      PROVE  LockInv'
    BY <1>1, <1>6 DEF AskWorkspace, capture_workspace_delete_plan, DeleteStep, RevokeRelation,
                      delete_workspace, PurgeWorkspace, Cascade
<1>7. ASSUME NEW d \in Document, InsertDocument(d) \/ RelateDocument(d) PROVE LockInv'
    BY <1>1, <1>7, ParentsAssumption DEF InsertDocument, RelateDocument, Insert
<1>8. ASSUME NEW r \in Resource, CreatorCrash(r) PROVE LockInv'
    BY <1>1, <1>8 DEF CreatorCrash
<1>9. ASSUME NEW g \in Tuple, WriteGrant(g) \/ DeliverGrant(g) PROVE LockInv'
    BY <1>1, <1>9 DEF WriteGrant, DeliverGrant
<1>10. ASSUME ListTuples \/ delete_openfga_tuples PROVE LockInv'
    <2>1. op.pc \in {"list", "delete"} /\ UNCHANGED rows
        BY <1>10 DEF ListTuples, delete_openfga_tuples
    <2>2. op \in [pc : {"list", "delete", "purge"}, tenant : Tenant,
                  ws : SUBSET Workspace, docs : SUBSET Document, left : SUBSET Tuple]
        BY <2>1, Runs
    <2>3. op' = Idle \/ (op'.tenant = op.tenant /\ op'.ws = op.ws)
        BY <1>10, <2>2 DEF ListTuples, delete_openfga_tuples, OpNext, OpStop
    <2> QED BY <1>2, <2>1, <2>3 DEF LockInv
<1>11. ASSUME commit_operator_delete_tx \/ run_post_commit_cleanup PROVE LockInv'
    <2>1. op \in [pc : {"list", "delete", "purge"}, tenant : Tenant,
                  ws : SUBSET Workspace, docs : SUBSET Document, left : SUBSET Tuple]
        BY <1>11, Runs DEF commit_operator_delete_tx, run_post_commit_cleanup
    <2> QED BY <1>2, <1>11, <2>1 DEF commit_operator_delete_tx, run_post_commit_cleanup, OpNext, OpStop
<1>12. ASSUME ReadInventory \/ SweepOrphans \/ Drain PROVE LockInv'
    BY <1>1, <1>12 DEF ReadInventory, SweepOrphans, Drain, DrainPoints, DrainObjects
<1>13. CASE UNCHANGED vars
    BY <1>1, <1>13 DEF vars
<1> QED
    BY <1>3, <1>4, <1>5, <1>6, <1>7, <1>8, <1>9, <1>10, <1>11, <1>12, <1>13
    DEF Next, OperatorStep, TypeOK

\* Whatever is removed stays named: only what leaves the database leaves the
\* recovery file, and an identifier is used once.
LEMMA NextFile == TypeOK /\ Known /\ FileInv /\ [Next]_vars => FileInv'
<1> SUFFICES ASSUME TypeOK, Known, FileInv, [Next]_vars PROVE FileInv'
    OBVIOUS
<1> USE DEF sqlVars, authzVars, dataVars, operatorVars, requestVars
<1>1. ASSUME UNCHANGED op, born \subseteq born',
             \A r \in born \cap rows' : r \in rows /\ (r \in touched => r \in touched')
      PROVE  FileInv'
    BY <1>1 DEF FileInv
<1>2. ASSUME op' = Idle \/ op'.pc \in {"list", "purge"} PROVE FileInv'
    BY <1>2 DEF FileInv, Idle
<1>3. ASSUME NEW t \in Tenant, create_tenant(t) \/ add_tenant_owner(t) PROVE FileInv'
    BY <1>1, <1>3 DEF create_tenant, add_tenant_owner, Insert
<1>4. ASSUME NEW t \in Tenant, LockTenant(t) PROVE FileInv'
    BY <1>2, <1>4 DEF LockTenant
<1>5. ASSUME NEW w \in Workspace,
             AskWorkspace(w) \/ create_workspace(w) \/ capture_workspace_delete_plan(w)
      PROVE  FileInv'
    BY <1>1, <1>5 DEF AskWorkspace, create_workspace, capture_workspace_delete_plan, Insert
<1>6. ASSUME NEW w \in Workspace, DeleteStep(w) PROVE FileInv'
    BY <1>1, <1>6 DEF DeleteStep, RevokeRelation, delete_workspace, PurgeWorkspace, Cascade, Touched
<1>7. ASSUME NEW d \in Document, InsertDocument(d) \/ RelateDocument(d) PROVE FileInv'
    BY <1>1, <1>7 DEF InsertDocument, RelateDocument, Insert
<1>8. ASSUME NEW r \in Resource, CreatorCrash(r) PROVE FileInv'
    BY <1>1, <1>8 DEF CreatorCrash, Touched
<1>9. ASSUME NEW g \in Tuple, WriteGrant(g) \/ DeliverGrant(g) PROVE FileInv'
    BY <1>1, <1>9 DEF WriteGrant, DeliverGrant, GivenUp, Touched
<1>10. CASE ListTuples
    <2>1. op \in [pc : {"list", "delete", "purge"}, tenant : Tenant,
                  ws : SUBSET Workspace, docs : SUBSET Document, left : SUBSET Tuple]
        BY <1>10, Runs DEF ListTuples
    <2>2. CASE op' = Idle
        BY <1>2, <2>2
    <2>3. CASE op' # Idle
        <3>1. /\ op'.left = filter_tenant_subtree_tuples
              /\ RecoveryFile(filter_tenant_subtree_tuples) /\ UNCHANGED <<rows, born>>
            BY <1>10, <2>1, <2>3 DEF ListTuples, OpNext, OpStop
        <3>2. filter_tenant_subtree_tuples \subseteq tuples
            BY DEF filter_tenant_subtree_tuples
        <3> QED BY <3>1, <3>2 DEF FileInv, Known, RecoveryFile, Touched
    <2> QED BY <2>2, <2>3
<1>11. CASE delete_openfga_tuples
    <2>1. op \in [pc : {"list", "delete", "purge"}, tenant : Tenant,
                  ws : SUBSET Workspace, docs : SUBSET Document, left : SUBSET Tuple]
        BY <1>11, Runs DEF delete_openfga_tuples
    <2>2. op' = Idle \/ op'.left \subseteq op.left
        BY <1>11, <2>1 DEF delete_openfga_tuples, OpNext, OpStop
    <2>3. op.pc = "delete" /\ UNCHANGED <<rows, born, touched>>
        BY <1>11 DEF delete_openfga_tuples
    <2> QED BY <1>2, <2>2, <2>3 DEF FileInv
<1>12. ASSUME commit_operator_delete_tx \/ run_post_commit_cleanup PROVE FileInv'
    <2>1. op \in [pc : {"list", "delete", "purge"}, tenant : Tenant,
                  ws : SUBSET Workspace, docs : SUBSET Document, left : SUBSET Tuple]
        BY <1>12, Runs DEF commit_operator_delete_tx, run_post_commit_cleanup
    <2> QED BY <1>2, <1>12, <2>1 DEF commit_operator_delete_tx, run_post_commit_cleanup, OpNext, OpStop
<1>13. ASSUME ReadInventory \/ SweepOrphans \/ Drain PROVE FileInv'
    BY <1>1, <1>13 DEF ReadInventory, SweepOrphans, RecoveryFile, Touched, Drain, DrainPoints, DrainObjects
<1>14. CASE UNCHANGED vars
    BY <1>1, <1>14 DEF vars
<1> QED
    BY <1>3, <1>4, <1>5, <1>6, <1>7, <1>8, <1>9, <1>10, <1>11, <1>12, <1>13, <1>14
    DEF Next, OperatorStep, TypeOK

\* Every step that takes a relation of a live resource, or gives up writing it,
\* leaves a trace.
LEMMA NextMissing ==
    TypeOK /\ FileInv /\ MissingRelationIsKnown /\ [Next]_vars => MissingRelationIsKnown'
<1> SUFFICES ASSUME TypeOK, FileInv, MissingRelationIsKnown, [Next]_vars,
                    NEW r \in rows' \ touched', NEW g \in Relations(r),
                    g[2] = "owner" => r \in owners'
             PROVE  g \in tuples' \cup queued' \cup grants'
    BY DEF MissingRelationIsKnown
<1> USE DEF sqlVars, authzVars, dataVars, operatorVars, requestVars
<1>1. ASSUME r \in rows \ touched, g[2] = "owner" => r \in owners
      PROVE  g \in tuples \cup queued \cup grants
    BY <1>1 DEF MissingRelationIsKnown
<1>2. rows' \subseteq Resource => /\ g[1] = r /\ r \in Resource
                                  /\ (r \in Tenant => g \in {<<r, "platform">>, <<r, "owner">>})
    BY RelationsOf DEF Relations
<1>3. rows \subseteq Resource /\ owners \subseteq rows /\ touched \subseteq rows
    BY DEF TypeOK
<1>4. TypeOK'
    BY NextType
<1>5. rows' \subseteq Resource
    BY <1>4 DEF TypeOK
<1>6. ASSUME NEW t \in Tenant, create_tenant(t) \/ add_tenant_owner(t)
      PROVE  g \in tuples' \cup queued' \cup grants'
    BY <1>1, <1>2, <1>3, <1>5, <1>6 DEF create_tenant, add_tenant_owner, Insert, TypeOK
<1>7. ASSUME NEW w \in Workspace, create_workspace(w)
      PROVE  g \in tuples' \cup queued' \cup grants'
    BY <1>1, <1>2, <1>3, <1>5, <1>7 DEF create_workspace, Insert
<1>8. ASSUME NEW d \in Document, InsertDocument(d)
      PROVE  g \in tuples' \cup queued' \cup grants'
    BY <1>1, <1>2, <1>3, <1>5, <1>8 DEF InsertDocument, Insert
<1>9. ASSUME NEW d \in Document, RelateDocument(d)
      PROVE  g \in tuples' \cup queued' \cup grants'
    <2>1. d \in Resource /\ \A h \in Relations(d) : h = <<d, "workspace">>
        BY ParentsAssumption DEF Relations, Resource
    <2> QED BY <1>1, <1>2, <1>3, <1>5, <1>9, <2>1 DEF RelateDocument, Written
<1>10. ASSUME NEW q \in Resource, CreatorCrash(q)
       PROVE  g \in tuples' \cup queued' \cup grants'
    BY <1>1, <1>2, <1>5, <1>10, RelationsOf DEF CreatorCrash, Touched
<1>11. ASSUME NEW h \in Tuple, WriteGrant(h) \/ DeliverGrant(h)
       PROVE  g \in tuples' \cup queued' \cup grants'
    BY <1>1, <1>2, <1>5, <1>11 DEF WriteGrant, DeliverGrant, Written, GivenUp, Touched
<1>12. ASSUME NEW w \in Workspace, RevokeRelation(w)
       PROVE  g \in tuples' \cup queued' \cup grants'
    BY <1>1, <1>2, <1>5, <1>12 DEF RevokeRelation, Removed, Touched
<1>13. ASSUME NEW q \in Resource, Cascade(q), UNCHANGED <<tuples, queued, grants>>
       PROVE  g \in tuples' \cup queued' \cup grants'
    BY <1>1, <1>13 DEF Cascade
<1>14. ASSUME NEW w \in Workspace, delete_workspace(w)
       PROVE  g \in tuples' \cup queued' \cup grants'
    BY <1>1, <1>13, <1>14 DEF delete_workspace, Resource
<1>15. CASE commit_operator_delete_tx
    <2>1. op.tenant \in Resource
        BY <1>15, Runs DEF commit_operator_delete_tx, Resource
    <2> QED BY <1>1, <1>13, <1>15, <2>1 DEF commit_operator_delete_tx
<1>16. CASE ListTuples
    BY <1>1, <1>3, <1>16 DEF ListTuples, RecoveryFile, Touched, Untouched
<1>17. CASE delete_openfga_tuples
    <2>1. PICK batch \in SUBSET op.left : tuples' \in {tuples, tuples \ batch}
        BY <1>17 DEF delete_openfga_tuples, Removed
    <2>2. op.pc = "delete" /\ UNCHANGED <<rows, born, owners, queued, grants, touched>>
        BY <1>17 DEF delete_openfga_tuples
    <2>3. g \notin batch
        BY <1>2, <1>5, <2>1, <2>2 DEF FileInv
    <2> QED BY <1>1, <2>1, <2>2, <2>3
<1>18. CASE SweepOrphans
    BY <1>1, <1>2, <1>5, <1>18 DEF SweepOrphans, RecoveryFile, Touched, Removed
<1>19. ASSUME UNCHANGED <<sqlVars, authzVars, touched>>
       PROVE  g \in tuples' \cup queued' \cup grants'
    BY <1>1, <1>19
<1>20. ASSUME NEW w \in Workspace,
              AskWorkspace(w) \/ capture_workspace_delete_plan(w) \/ PurgeWorkspace(w)
       PROVE  g \in tuples' \cup queued' \cup grants'
    BY <1>19, <1>20 DEF AskWorkspace, capture_workspace_delete_plan, PurgeWorkspace
<1>21. ASSUME NEW t \in Tenant, LockTenant(t)
       PROVE  g \in tuples' \cup queued' \cup grants'
    BY <1>19, <1>21 DEF LockTenant
<1>22. ASSUME run_post_commit_cleanup \/ ReadInventory \/ Drain \/ UNCHANGED vars
       PROVE  g \in tuples' \cup queued' \cup grants'
    BY <1>19, <1>22 DEF run_post_commit_cleanup, ReadInventory, Drain, DrainPoints, DrainObjects, vars
<1> QED
    BY <1>6, <1>7, <1>8, <1>9, <1>10, <1>11, <1>12, <1>14, <1>15, <1>16, <1>17, <1>18,
       <1>20, <1>21, <1>22
    DEF Next, DeleteStep, OperatorStep, TypeOK

\* Points and objects of a workspace that is gone are owed: the outbox rows are
\* written with the deletion of the rows above them, and name every workspace
\* the lock has kept.
LEMMA NextResidue == TypeOK /\ LockInv /\ ResidueOwed /\ [Next]_vars => ResidueOwed'
<1> SUFFICES ASSUME TypeOK, LockInv, ResidueOwed, [Next]_vars,
                    NEW d \in Document, WorkspaceOf[d] \in born' \ rows'
             PROVE  /\ d \in points' => \E ws \in owedPoints' : WorkspaceOf[d] \in ws
                    /\ d \in objects' => \E r \in owedObjects' : d \in Subtree(r)
    BY DEF ResidueOwed
<1> DEFINE Owed == /\ d \in points' => \E ws \in owedPoints' : WorkspaceOf[d] \in ws
                   /\ d \in objects' => \E r \in owedObjects' : d \in Subtree(r)
<1> USE DEF sqlVars, authzVars, dataVars, operatorVars, requestVars
<1>1. /\ WorkspaceOf[d] \in Workspace /\ d \in Subtree(WorkspaceOf[d])
      /\ \A t \in Tenant : d \in Subtree(t) <=> WorkspaceOf[d] \in WorkspacesOf(t)
      /\ WorkspaceOf[d] \notin Tenant
    BY Above, ParentsAssumption
<1>2. ASSUME WorkspaceOf[d] \in born \ rows
      PROVE  /\ d \in points => \E ws \in owedPoints : WorkspaceOf[d] \in ws
             /\ d \in objects => \E r \in owedObjects : d \in Subtree(r)
    BY <1>2 DEF ResidueOwed
<1>3. ASSUME WorkspaceOf[d] \in born \ rows, points' \subseteq points, objects' \subseteq objects,
             owedPoints \subseteq owedPoints', owedObjects \subseteq owedObjects'
      PROVE  Owed
    BY <1>2, <1>3
<1>4. ASSUME UNCHANGED <<rows, born, points, objects, owedPoints, owedObjects>> PROVE Owed
    BY <1>3, <1>4
<1>5. ASSUME NEW t \in Tenant, create_tenant(t) \/ add_tenant_owner(t) \/ LockTenant(t) PROVE Owed
    BY <1>1, <1>3, <1>5 DEF create_tenant, add_tenant_owner, LockTenant, Insert
<1>6. ASSUME NEW w \in Workspace,
             AskWorkspace(w) \/ create_workspace(w) \/ capture_workspace_delete_plan(w)
      PROVE  Owed
    BY <1>3, <1>6 DEF AskWorkspace, create_workspace, capture_workspace_delete_plan, Insert
<1>7. ASSUME NEW w \in Workspace, RevokeRelation(w) \/ PurgeWorkspace(w) PROVE Owed
    BY <1>3, <1>7 DEF RevokeRelation, PurgeWorkspace
<1>8. ASSUME NEW w \in Workspace, delete_workspace(w) PROVE Owed
    <2>1. CASE WorkspaceOf[d] \in born \ rows
        BY <1>3, <1>8, <2>1 DEF delete_workspace
    <2>2. CASE WorkspaceOf[d] \notin born \ rows
        <3>1. /\ Cascade(w) /\ owedPoints' = owedPoints \cup {{w}}
              /\ owedObjects' = owedObjects \cup {w}
            BY <1>8, <2>2 DEF delete_workspace
        <3>2. WorkspaceOf[d] \in Subtree(w)
            BY <2>2, <3>1 DEF Cascade
        <3>3. WorkspaceOf[d] = w
            BY <1>1, <3>2, ParentsAssumption DEF Subtree, DocumentsOf
        <3> QED BY <1>1, <3>1, <3>3
    <2> QED BY <2>1, <2>2
<1>9. ASSUME NEW e \in Document, InsertDocument(e) PROVE Owed
    <2>1. WorkspaceOf[e] \in rows /\ e # WorkspaceOf[d]
        BY <1>1, <1>9, ParentsAssumption DEF InsertDocument
    <2>2. d # e /\ WorkspaceOf[d] \in born \ rows
        BY <1>9, <2>1 DEF InsertDocument, Insert
    <2> QED BY <1>2, <1>9, <2>2 DEF InsertDocument
<1>10. ASSUME NEW e \in Document, RelateDocument(e) PROVE Owed
    <2>1. e # WorkspaceOf[d]
        BY <1>1, ParentsAssumption
    <2> QED BY <1>3, <1>10, <2>1 DEF RelateDocument
<1>11. ASSUME NEW r \in Resource, CreatorCrash(r) PROVE Owed
    BY <1>4, <1>11 DEF CreatorCrash
<1>12. ASSUME NEW g \in Tuple, WriteGrant(g) \/ DeliverGrant(g) PROVE Owed
    BY <1>4, <1>12 DEF WriteGrant, DeliverGrant
<1>13. ASSUME ListTuples \/ delete_openfga_tuples \/ ReadInventory \/ SweepOrphans PROVE Owed
    BY <1>4, <1>13 DEF ListTuples, delete_openfga_tuples, ReadInventory, SweepOrphans
<1>14. ASSUME commit_operator_delete_tx PROVE Owed
    <2>1. CASE WorkspaceOf[d] \in born \ rows
        BY <1>3, <1>14, <2>1 DEF commit_operator_delete_tx, OwedByTenant
    <2>2. CASE WorkspaceOf[d] \notin born \ rows
        <3>1. Cascade(op.tenant) /\ OwedByTenant
            BY <1>14, <2>2 DEF commit_operator_delete_tx
        <3>2. op.pc = "delete" /\ op.tenant \in Tenant
            BY <1>14, Runs DEF commit_operator_delete_tx
        <3>3. WorkspaceOf[d] \in rows /\ WorkspaceOf[d] \in WorkspacesOf(op.tenant)
            <4>1. WorkspaceOf[d] \in rows /\ WorkspaceOf[d] \in Subtree(op.tenant)
                BY <2>2, <3>1 DEF Cascade
            <4> QED BY <1>1, <3>2, <4>1, ParentsAssumption DEF Subtree, DocumentsOf
        <3>4. WorkspaceOf[d] \in op.ws
            BY <3>2, <3>3 DEF LockInv
        <3> QED BY <1>1, <3>1, <3>2, <3>3, <3>4 DEF OwedByTenant
    <2> QED BY <2>1, <2>2
<1>15. ASSUME run_post_commit_cleanup PROVE Owed
    BY <1>3, <1>15 DEF run_post_commit_cleanup
<1>16. ASSUME NEW ws \in SUBSET Workspace, DrainPoints(ws) PROVE Owed
    BY <1>1, <1>2, <1>16 DEF DrainPoints, DocumentsOf
<1>17. ASSUME NEW r \in Resource, DrainObjects(r) PROVE Owed
    BY <1>2, <1>17 DEF DrainObjects
<1>18. ASSUME UNCHANGED vars PROVE Owed
    BY <1>4, <1>18 DEF vars
<1> HIDE DEF Owed
<1>19. ASSUME OperatorStep \/ Drain PROVE Owed
    <2>1. wanted \subseteq Tenant
        BY DEF TypeOK
    <2> QED BY <1>5, <1>13, <1>14, <1>15, <1>16, <1>17, <1>19, <2>1 DEF OperatorStep, Drain
<1>20. Owed
    BY <1>5, <1>6, <1>7, <1>8, <1>9, <1>10, <1>11, <1>12, <1>13, <1>18, <1>19 DEF Next, DeleteStep
<1> QED
    BY <1>20 DEF Owed

-----------------------------------------------------------------------------
(* The plans of the deletions *)

PlanInv == RevokeInv /\ ListInv /\ BatchInv

\* Who has a plan with a resource in it.
LEMMA PlannersOf ==
    ASSUME TypeOK, NEW r
    PROVE  /\ \A w \in Workspace :
                del[w].pc = "revoke" /\ r \in Subtree(w) => w \in Planners(r)
           /\ op.pc \in {"list", "delete"} /\ r \in Subtree(op.tenant) => op.tenant \in Planners(r)
BY Runs DEF Planners, WorkspaceFree, OpHolds

\* A step that leaves the runs alone and writes relations only as Written does.
LEMMA PlansUntouched ==
    ASSUME TypeOK, PlanInv, UNCHANGED <<del, op>>,
           \A g \in tuples' : g[1] \in rows' =>
               \/ g \in tuples /\ g[1] \in rows /\ (g \in spared => g \in spared')
               \/ Planners(g[1]) # {} => g \in spared'
    PROVE  PlanInv'
<1>1. ASSUME NEW w \in Workspace, del[w].pc = "revoke",
             NEW g \in tuples', g[1] \in Subtree(w) \cap rows'
      PROVE  g \in del[w].left \cup spared'
    <2>1. w \in Planners(g[1])
        BY <1>1, PlannersOf
    <2> QED BY <1>1, <2>1 DEF PlanInv, RevokeInv
<1>2. ASSUME op.pc \in {"list", "delete"},
             NEW g \in tuples', g[1] \in Subtree(op.tenant) \cap rows'
      PROVE  /\ op.pc = "list" => g[1] \in {op.tenant} \cup op.ws \cup op.docs \/ g \in spared'
             /\ op.pc = "delete" => g \in op.left \cup spared'
    <2>1. op.tenant \in Planners(g[1])
        BY <1>2, PlannersOf
    <2>2. CASE g \in tuples /\ g[1] \in rows /\ (g \in spared => g \in spared')
        BY <1>2, <2>2 DEF PlanInv, ListInv, BatchInv
    <2>3. CASE g \in spared'
        BY <2>3
    <2> QED BY <1>2, <2>1, <2>2, <2>3
<1>3. RevokeInv'
    BY <1>1 DEF RevokeInv
<1>4. ListInv' /\ BatchInv'
    BY <1>2 DEF ListInv, BatchInv
<1> QED BY <1>3, <1>4 DEF PlanInv

\* A step of one deletion, x, spares what another deletion has to know.
Shrinks(x) ==
    \A g \in tuples' : g[1] \in rows' =>
        /\ g \in tuples /\ g[1] \in rows
        /\ g \in spared => g \in spared' \/ Planners(g[1]) \ {x} = {}

LEMMA OthersKept ==
    ASSUME TypeOK, PlanInv, NEW x, Shrinks(x)
    PROVE  /\ \A w \in Workspace \ {x} : del'[w] = del[w] /\ del[w].pc = "revoke" =>
                \A g \in tuples' : g[1] \in Subtree(w) \cap rows' => g \in del[w].left \cup spared'
           /\ op' = op /\ (op.pc \in {"list", "delete"} => op.tenant # x) => ListInv' /\ BatchInv'
<1>1. ASSUME NEW w \in Workspace \ {x}, del[w].pc = "revoke",
             NEW g \in tuples', g[1] \in Subtree(w) \cap rows'
      PROVE  g \in del[w].left \cup spared'
    <2>1. w \in Planners(g[1])
        BY <1>1, PlannersOf
    <2> QED BY <1>1, <2>1 DEF PlanInv, RevokeInv, Shrinks
<1>2. ASSUME op' = op, op.pc \in {"list", "delete"}, op.tenant # x,
             NEW g \in tuples', g[1] \in Subtree(op.tenant) \cap rows'
      PROVE  /\ op.pc = "list" => g[1] \in {op.tenant} \cup op.ws \cup op.docs \/ g \in spared'
             /\ op.pc = "delete" => g \in op.left \cup spared'
    <2>1. op.tenant \in Planners(g[1])
        BY <1>2, PlannersOf
    <2>2. g \in tuples /\ g[1] \in rows /\ (g \in spared => g \in spared')
        BY <1>2, <2>1 DEF Shrinks
    <2> QED BY <1>2, <2>2 DEF PlanInv, ListInv, BatchInv
<1>3. ASSUME op' = op, op.pc \in {"list", "delete"} => op.tenant # x
      PROVE  ListInv' /\ BatchInv'
    BY <1>2, <1>3 DEF ListInv, BatchInv
<1> QED BY <1>1, <1>3

\* What a deletion does to spared as it ends.
LEMMA EndingShrinks ==
    ASSUME NEW x \in Resource, tuples' \subseteq tuples, UNCHANGED rows,
           Ended(x) \/ UNCHANGED spared
    PROVE  Shrinks(x)
BY DEF Ended, Shrinks

LEMMA CascadeShrinks ==
    ASSUME NEW x \in Resource, UNCHANGED tuples, Cascade(x)
    PROVE  Shrinks(x)
BY DEF Cascade, Shrinks

LEMMA RemovalShrinks ==
    ASSUME NEW x, NEW gs, Removed(gs), UNCHANGED rows
    PROVE  Shrinks(x)
BY DEF Removed, Shrinks

\* The steps of DELETE /workspaces.
LEMMA DeleteKeepsPlans ==
    ASSUME TypeOK, PlanInv, NEW w \in Workspace,
           capture_workspace_delete_plan(w) \/ DeleteStep(w)
    PROVE  PlanInv'
<1> DEFINE Mine == del'[w].pc = "revoke" =>
                     \A g \in tuples' : g[1] \in Subtree(w) \cap rows' =>
                        g \in del'[w].left \cup spared'
<1> USE DEF sqlVars, authzVars, dataVars, operatorVars, requestVars
<1>0. w \in Resource /\ w \notin Tenant
    BY ParentsAssumption DEF Resource
<1>1. ASSUME Shrinks(w), Mine, UNCHANGED op,
             \A v \in Workspace \ {w} : del'[v] = del[v]
      PROVE  PlanInv'
    <2>1. op.pc \in {"list", "delete"} => op.tenant # w
        BY <1>0, Runs
    <2>2. RevokeInv'
        <3> SUFFICES ASSUME NEW v \in Workspace, del'[v].pc = "revoke",
                            NEW g \in tuples', g[1] \in Subtree(v) \cap rows'
                     PROVE  g \in del'[v].left \cup spared'
            BY DEF RevokeInv
        <3>1. CASE v = w
            BY <1>1, <3>1
        <3>2. CASE v # w
            BY <1>1, <3>2, OthersKept
        <3> QED BY <3>1, <3>2
    <2> QED BY <1>1, <2>1, <2>2, OthersKept DEF PlanInv
<1>2. \A v \in Workspace \ {w} : del'[v] = del[v]
    BY DEF TypeOK, capture_workspace_delete_plan, DeleteStep, RevokeRelation, delete_workspace,
           PurgeWorkspace, Stop
<1>3. UNCHANGED op
    BY DEF capture_workspace_delete_plan, DeleteStep, RevokeRelation, delete_workspace,
           PurgeWorkspace
<1>4. ASSUME Stop(w) PROVE Mine
    BY <1>4 DEF TypeOK, Stop, Idle
<1>5. CASE capture_workspace_delete_plan(w)
    <2>1. /\ UNCHANGED <<tuples, rows, spared>>
          /\ del'[w] = [pc |-> "revoke", left |-> WorkspacePlan(w)]
        BY <1>5 DEF capture_workspace_delete_plan, TypeOK
    <2>2. ASSUME NEW g \in tuples, g[1] \in Subtree(w) \cap rows PROVE g \in WorkspacePlan(w)
        BY <2>2, TupleOf DEF WorkspacePlan, TypeOK
    <2>3. Mine
        BY <2>1, <2>2
    <2>4. Shrinks(w)
        BY <1>0, <2>1, EndingShrinks
    <2> QED BY <1>1, <1>2, <1>3, <2>3, <2>4
<1>6. CASE RevokeRelation(w)
    <2>1. del[w] \in [pc : {"revoke", "purge"}, left : SUBSET Tuple] /\ del[w].pc = "revoke"
        BY <1>6, Runs DEF RevokeRelation
    <2>2. PICK g \in del[w].left :
            \/ Removed({g}) /\ del' = [del EXCEPT ![w].left = @ \ {g}]
            \/ Stop(w) /\ Ended(w) /\ tuples' \in {tuples, tuples \ {g}}
        BY <1>6 DEF RevokeRelation
    <2>3. UNCHANGED rows
        BY <1>6 DEF RevokeRelation
    <2>4. CASE Removed({g}) /\ del' = [del EXCEPT ![w].left = @ \ {g}]
        <3>1. del'[w].left = del[w].left \ {g}
            BY <2>1, <2>4 DEF TypeOK
        <3>2. ASSUME NEW h \in tuples', h[1] \in Subtree(w) \cap rows'
              PROVE  h \in del'[w].left \cup spared'
            <4>1. h \in tuples /\ h # g /\ (h \in spared => h \in spared')
                BY <2>4, <3>2 DEF Removed
            <4>2. h \in del[w].left \cup spared
                BY <2>1, <2>3, <3>2, <4>1 DEF PlanInv, RevokeInv
            <4> QED BY <3>1, <4>1, <4>2
        <3>3. Shrinks(w)
            BY <2>3, <2>4, RemovalShrinks
        <3> QED BY <1>1, <1>2, <1>3, <3>2, <3>3
    <2>5. CASE Stop(w) /\ Ended(w) /\ tuples' \in {tuples, tuples \ {g}}
        <3>1. Shrinks(w)
            BY <1>0, <2>3, <2>5, EndingShrinks
        <3> QED BY <1>1, <1>2, <1>3, <1>4, <2>5, <3>1
    <2> QED BY <2>2, <2>4, <2>5
<1>7. CASE delete_workspace(w)
    <2>1. Mine
        <3>1. Stop(w) \/ del' = [del EXCEPT ![w].pc = "purge"]
            BY <1>7 DEF delete_workspace
        <3>2. del[w] \in [pc : {"revoke", "purge"}, left : SUBSET Tuple]
            BY <1>7, Runs DEF delete_workspace
        <3>3. ASSUME del' = [del EXCEPT ![w].pc = "purge"] PROVE del'[w].pc = "purge"
            BY <3>2, <3>3 DEF TypeOK
        <3> QED BY <1>4, <3>1, <3>3
    <2>2. Shrinks(w)
        <3>1. UNCHANGED tuples /\ (Cascade(w) \/ (Ended(w) /\ UNCHANGED rows))
            BY <1>7 DEF delete_workspace
        <3> QED BY <1>0, <3>1, CascadeShrinks, EndingShrinks
    <2> QED BY <1>1, <1>2, <1>3, <2>1, <2>2
<1>8. CASE PurgeWorkspace(w)
    <2>1. Stop(w) /\ UNCHANGED <<tuples, rows, spared>>
        BY <1>8 DEF PurgeWorkspace
    <2>2. Shrinks(w)
        BY <1>0, <2>1, EndingShrinks
    <2> QED BY <1>1, <1>2, <1>3, <1>4, <2>1, <2>2
<1> QED BY <1>5, <1>6, <1>7, <1>8 DEF DeleteStep

\* The steps of delete-tenant.
LEMMA OperatorKeepsPlans ==
    ASSUME TypeOK, PlanInv,
           \/ \E t \in Tenant : LockTenant(t)
           \/ ListTuples \/ delete_openfga_tuples
           \/ commit_operator_delete_tx \/ run_post_commit_cleanup
    PROVE  PlanInv'
<1> DEFINE Run == [pc : {"list", "delete", "purge"}, tenant : Tenant,
                   ws : SUBSET Workspace, docs : SUBSET Document, left : SUBSET Tuple]
           Mine == ListInv' /\ BatchInv'
<1> USE DEF sqlVars, authzVars, dataVars, operatorVars, requestVars
<1>1. ASSUME NEW t \in Tenant, Shrinks(t), Mine, UNCHANGED del PROVE PlanInv'
    <2>1. \A w \in Workspace : w # t
        BY ParentsAssumption
    <2>2. RevokeInv'
        BY <1>1, <2>1, OthersKept DEF RevokeInv
    <2> QED BY <1>1, <2>2 DEF PlanInv
<1>2. ASSUME op' = Idle \/ op'.pc = "purge" PROVE Mine
    BY <1>2 DEF ListInv, BatchInv, Idle
<1>3. \A t \in Tenant : t \in Resource
    BY DEF Resource
<1>4. ASSUME NEW t \in Tenant, LockTenant(t) PROVE PlanInv'
    <2>1. /\ UNCHANGED <<tuples, rows, spared, del>>
          /\ op' = [pc |-> "list", tenant |-> t, ws |-> WorkspacesOf(t) \cap rows,
                    docs |-> Subtree(t) \cap Document \cap rows, left |-> {}]
        BY <1>4 DEF LockTenant
    <2>2. \A r \in Subtree(t) \cap rows :
            r \in {t} \cup (WorkspacesOf(t) \cap rows) \cup (Subtree(t) \cap Document \cap rows)
        BY ParentsAssumption DEF Subtree, WorkspacesOf, DocumentsOf
    <2>3. Mine
        BY <2>1, <2>2 DEF ListInv, BatchInv
    <2> QED BY <1>1, <1>3, <2>1, <2>3, EndingShrinks
<1>5. CASE ListTuples
    <2>1. op \in Run /\ op.pc = "list" /\ op.tenant \in Tenant
        BY <1>5, Runs DEF ListTuples
    <2>2. UNCHANGED <<tuples, rows, del>>
        BY <1>5 DEF ListTuples
    <2>3. CASE OpStop /\ Ended(op.tenant)
        BY <1>1, <1>2, <1>3, <2>1, <2>2, <2>3, EndingShrinks DEF OpStop
    <2>4. CASE /\ OpNext([op EXCEPT !.pc = "delete", !.docs = {},
                                    !.left = filter_tenant_subtree_tuples])
               /\ UNCHANGED spared
        <3>1. /\ op'.pc = "delete" /\ op'.tenant = op.tenant
              /\ op'.left = filter_tenant_subtree_tuples
            BY <2>1, <2>4 DEF OpNext
        <3>2. ASSUME NEW g \in tuples, g[1] \in Subtree(op.tenant) \cap rows
              PROVE  g \in filter_tenant_subtree_tuples \cup spared
            BY <2>1, <3>2 DEF PlanInv, ListInv, filter_tenant_subtree_tuples
        <3>3. Mine
            BY <2>2, <2>4, <3>1, <3>2 DEF ListInv, BatchInv
        <3> QED BY <1>1, <1>3, <2>1, <2>2, <2>4, <3>3, EndingShrinks
    <2> QED BY <1>5, <2>3, <2>4 DEF ListTuples
<1>6. CASE delete_openfga_tuples
    <2>1. op \in Run /\ op.pc = "delete" /\ op.tenant \in Tenant
        BY <1>6, Runs DEF delete_openfga_tuples
    <2>2. UNCHANGED <<rows, del>>
        BY <1>6 DEF delete_openfga_tuples
    <2>3. PICK batch \in SUBSET op.left :
            \/ /\ OpNext([op EXCEPT !.left = @ \ batch])
               /\ IF batch \subseteq tuples THEN Removed(batch)
                  ELSE spared' = spared \cup (batch \cap tuples) /\ UNCHANGED tuples
            \/ OpStop /\ tuples' \in {tuples, tuples \ batch} /\ Ended(op.tenant)
        BY <1>6 DEF delete_openfga_tuples
    <2>4. CASE OpStop /\ tuples' \in {tuples, tuples \ batch} /\ Ended(op.tenant)
        BY <1>1, <1>2, <1>3, <2>1, <2>2, <2>4, EndingShrinks DEF OpStop
    <2>5. CASE /\ OpNext([op EXCEPT !.left = @ \ batch])
               /\ IF batch \subseteq tuples THEN Removed(batch)
                  ELSE spared' = spared \cup (batch \cap tuples) /\ UNCHANGED tuples
        <3>1. op'.pc = "delete" /\ op'.tenant = op.tenant /\ op'.left = op.left \ batch
            BY <2>1, <2>5 DEF OpNext
        <3>2. ASSUME NEW g \in tuples'
              PROVE  /\ g \in tuples /\ (g \in spared => g \in spared')
                     /\ g \in batch => g \in spared'
            BY <2>5, <3>2 DEF Removed
        <3>3. Mine
            <4>1. ASSUME NEW g \in tuples', g[1] \in Subtree(op.tenant) \cap rows
                  PROVE  g \in op'.left \cup spared'
                BY <2>1, <3>1, <3>2, <4>1 DEF PlanInv, BatchInv
            <4> QED BY <2>2, <3>1, <4>1 DEF ListInv, BatchInv
        <3>4. Shrinks(op.tenant)
            BY <2>2, <3>2 DEF Shrinks
        <3> QED BY <1>1, <2>1, <2>2, <3>3, <3>4
    <2> QED BY <2>3, <2>4, <2>5
<1>7. CASE commit_operator_delete_tx
    <2>1. op \in Run /\ op.tenant \in Tenant
        BY <1>7, Runs DEF commit_operator_delete_tx
    <2>2. /\ UNCHANGED <<tuples, del>>
          /\ Cascade(op.tenant) \/ (Ended(op.tenant) /\ UNCHANGED rows)
          /\ OpStop \/ OpNext([op EXCEPT !.pc = "purge"])
        BY <1>7 DEF commit_operator_delete_tx
    <2>3. Mine
        BY <1>2, <2>1, <2>2 DEF OpStop, OpNext
    <2>4. Shrinks(op.tenant)
        BY <1>3, <2>1, <2>2, CascadeShrinks, EndingShrinks
    <2> QED BY <1>1, <2>1, <2>2, <2>3, <2>4
<1>8. CASE run_post_commit_cleanup
    <2>1. op \in Run /\ op.tenant \in Tenant
        BY <1>8, Runs DEF run_post_commit_cleanup
    <2>2. UNCHANGED <<tuples, rows, spared, del>> /\ op' = Idle
        BY <1>8 DEF run_post_commit_cleanup, OpStop
    <2> QED BY <1>1, <1>2, <1>3, <2>1, <2>2, EndingShrinks
<1> QED BY <1>4, <1>5, <1>6, <1>7, <1>8

\* A relation written while a deletion has a plan is spared, and nothing that
\* joins a subtree has relations yet.
LEMMA NextPlans == TypeOK /\ Known /\ PlanInv /\ [Next]_vars => PlanInv'
<1> SUFFICES ASSUME TypeOK, Known, PlanInv, [Next]_vars PROVE PlanInv'
    OBVIOUS
<1> DEFINE Free == \A g \in tuples' : g[1] \in rows' =>
                     \/ g \in tuples /\ g[1] \in rows /\ (g \in spared => g \in spared')
                     \/ Planners(g[1]) # {} => g \in spared'
<1> USE DEF sqlVars, authzVars, dataVars, operatorVars, requestVars
<1>1. ASSUME UNCHANGED <<del, op>>, Free PROVE PlanInv'
    BY <1>1, PlansUntouched
<1>2. ASSUME NEW r, Insert(r), UNCHANGED <<tuples, spared>> PROVE Free
    BY <1>2 DEF Insert, Known
<1>3. ASSUME UNCHANGED <<tuples, rows, spared>> PROVE Free
    BY <1>3
<1>4. ASSUME NEW g, Written(g), UNCHANGED rows PROVE Free
    BY <1>4 DEF Written
<1>5. ASSUME NEW gs, Removed(gs), UNCHANGED rows PROVE Free
    BY <1>5 DEF Removed
<1>6. ASSUME NEW t \in Tenant, create_tenant(t) \/ add_tenant_owner(t) PROVE PlanInv'
    BY <1>1, <1>2, <1>3, <1>6 DEF create_tenant, add_tenant_owner
<1>7. ASSUME NEW w \in Workspace, AskWorkspace(w) \/ create_workspace(w) PROVE PlanInv'
    BY <1>1, <1>2, <1>3, <1>7 DEF AskWorkspace, create_workspace
<1>8. ASSUME NEW d \in Document, InsertDocument(d) PROVE PlanInv'
    BY <1>1, <1>2, <1>8 DEF InsertDocument
<1>9. ASSUME NEW d \in Document, RelateDocument(d) PROVE PlanInv'
    <2>1. UNCHANGED <<del, op>>
        BY <1>9 DEF RelateDocument
    <2>2. \/ Written(<<d, "workspace">>) /\ UNCHANGED rows
          \/ /\ tuples' \subseteq tuples \cup {<<d, "workspace">>} /\ rows' = rows \ {d}
             /\ spared' = spared \ {<<d, "workspace">>}
        BY <1>9 DEF RelateDocument
    <2> QED BY <1>1, <1>4, <2>1, <2>2
<1>10. ASSUME NEW r \in Resource, CreatorCrash(r) PROVE PlanInv'
    BY <1>1, <1>3, <1>10 DEF CreatorCrash
<1>11. ASSUME NEW g \in Tuple, WriteGrant(g) \/ DeliverGrant(g) PROVE PlanInv'
    BY <1>1, <1>3, <1>4, <1>11 DEF WriteGrant, DeliverGrant, GivenUp
<1>12. ASSUME NEW w \in Workspace, capture_workspace_delete_plan(w) \/ DeleteStep(w) PROVE PlanInv'
    BY <1>12, DeleteKeepsPlans
<1>13. ASSUME OperatorStep \/ \E t \in Tenant : LockTenant(t) PROVE PlanInv'
    <2>1. wanted \subseteq Tenant
        BY DEF TypeOK
    <2> QED BY <1>13, <2>1, OperatorKeepsPlans DEF OperatorStep
<1>14. ASSUME ReadInventory \/ Drain \/ UNCHANGED vars PROVE PlanInv'
    BY <1>1, <1>3, <1>14 DEF ReadInventory, Drain, DrainPoints, DrainObjects, vars
<1>15. CASE SweepOrphans
    BY <1>1, <1>3, <1>5, <1>15 DEF SweepOrphans
<1> QED
    BY <1>6, <1>7, <1>8, <1>9, <1>10, <1>11, <1>12, <1>13, <1>14, <1>15 DEF Next

-----------------------------------------------------------------------------
(* Theorems *)

TenantsInv ==
    /\ TypeOK /\ Known
    /\ LockInv /\ FileInv /\ PlanInv
    /\ MissingRelationIsKnown /\ ResidueOwed

LEMMA InitTenantsInv == Init => TenantsInv
<1> SUFFICES ASSUME Init PROVE TenantsInv
    OBVIOUS
<1>1. Known /\ LockInv /\ FileInv /\ PlanInv
    BY DEF Init, Idle, Known, LockInv, FileInv, PlanInv, RevokeInv, ListInv, BatchInv
<1>2. MissingRelationIsKnown /\ ResidueOwed
    BY DEF Init, MissingRelationIsKnown, ResidueOwed
<1> QED BY <1>1, <1>2, InitType DEF TenantsInv

LEMMA NextTenantsInv == TenantsInv /\ [Next]_vars => TenantsInv'
BY NextType, NextKnown, NextLock, NextFile, NextPlans, NextMissing, NextResidue DEF TenantsInv

\* A live resource without one of its relations has left a trace, for any number
\* of tenants, workspaces, documents and failing calls.
THEOREM MissingRelationIsKnownHolds == Spec => []MissingRelationIsKnown
<1>1. TenantsInv => MissingRelationIsKnown
    BY DEF TenantsInv
<1> QED BY <1>1, InitTenantsInv, NextTenantsInv, PTL DEF Spec

\* The points and objects under a workspace that is gone are owed by an outbox
\* row that reaches them (delete_workspace, commit_operator_delete_tx).
THEOREM ResidueOwedHolds == Spec => []ResidueOwed
<1>1. TenantsInv => ResidueOwed
    BY DEF TenantsInv
<1> QED BY <1>1, InitTenantsInv, NextTenantsInv, PTL DEF Spec

\* A deletion takes every relation of what it removes but those it may spare
\* (resource_cleanup.rs, tenant_cleanup.rs).
THEOREM DeletionTakesRelationsHolds == Spec => DeletionTakesRelations
<1> DEFINE Taken == \A g \in tuples :
                      g[1] \in rows \ rows' /\ g[1] \notin {d \in Document : RelateDocument(d)}
                          => g \in spared
<1>1. TenantsInv /\ [Next]_vars => [Taken]_vars
    <2> SUFFICES ASSUME TenantsInv, Next,
                        NEW g \in tuples, g[1] \in rows \ rows',
                        g[1] \notin {d \in Document : RelateDocument(d)}
                 PROVE  g \in spared
        BY DEF Taken
    <2> USE DEF sqlVars, authzVars, dataVars, operatorVars, requestVars
    <2>1. TypeOK /\ PlanInv
        BY DEF TenantsInv
    <2>2. ASSUME NEW w \in Workspace, delete_workspace(w) PROVE g \in spared
        <3>1. del[w].pc = "revoke" /\ del[w].left = {} /\ g[1] \in Subtree(w)
            BY <2>2 DEF delete_workspace, Cascade
        <3> QED BY <2>1, <3>1 DEF PlanInv, RevokeInv
    <2>3. CASE commit_operator_delete_tx
        <3>1. op.pc = "delete" /\ op.left = {} /\ g[1] \in Subtree(op.tenant)
            BY <2>3 DEF commit_operator_delete_tx, Cascade
        <3> QED BY <2>1, <3>1 DEF PlanInv, BatchInv
    <2>4. ASSUME NEW d \in Document, RelateDocument(d) PROVE FALSE
        BY <2>4 DEF RelateDocument
    <2>5. ASSUME NEW t \in Tenant, create_tenant(t) \/ add_tenant_owner(t) \/ LockTenant(t)
          PROVE  FALSE
        BY <2>5 DEF create_tenant, add_tenant_owner, LockTenant, Insert
    <2>6. ASSUME NEW w \in Workspace,
                 AskWorkspace(w) \/ create_workspace(w) \/ capture_workspace_delete_plan(w)
                 \/ RevokeRelation(w) \/ PurgeWorkspace(w)
          PROVE  FALSE
        BY <2>6 DEF AskWorkspace, create_workspace, capture_workspace_delete_plan,
                    RevokeRelation, PurgeWorkspace, Insert
    <2>7. ASSUME NEW d \in Document, InsertDocument(d) PROVE FALSE
        BY <2>7 DEF InsertDocument, Insert
    <2>8. ASSUME NEW r \in Resource, CreatorCrash(r) PROVE FALSE
        BY <2>8 DEF CreatorCrash
    <2>9. ASSUME NEW h \in Tuple, WriteGrant(h) \/ DeliverGrant(h) PROVE FALSE
        BY <2>9 DEF WriteGrant, DeliverGrant
    <2>10. ASSUME ListTuples \/ delete_openfga_tuples \/ run_post_commit_cleanup PROVE FALSE
        BY <2>10 DEF ListTuples, delete_openfga_tuples, run_post_commit_cleanup
    <2>11. ASSUME ReadInventory \/ SweepOrphans \/ Drain PROVE FALSE
        BY <2>11 DEF ReadInventory, SweepOrphans, Drain, DrainPoints, DrainObjects
    <2>12. wanted \subseteq Tenant
        BY <2>1 DEF TypeOK
    <2> QED
        BY <2>2, <2>3, <2>4, <2>5, <2>6, <2>7, <2>8, <2>9, <2>10, <2>11, <2>12
        DEF Next, DeleteStep, OperatorStep
<1> QED
    BY <1>1, InitTenantsInv, NextTenantsInv, PTL DEF Spec, DeletionTakesRelations
=============================================================================
