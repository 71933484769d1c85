------------------------------ MODULE Identity ------------------------------
(***************************************************************************)
(* Who a request is made by, and what is known of users in three places:   *)
(* the users table with the rows that refer to it, OpenFGA, and the        *)
(* identity provider.  Requests validate their token against cached keys   *)
(* (auth/jwt.rs) and, in HRM mode, provision the user and the role of the  *)
(* token before anything else (auth/extractor.rs, auth/hrm.rs); without it *)
(* POST /users/sync stores the user (routes/users.rs).  The operator       *)
(* removes the placeholders of legacy invitations (invite_cleanup.rs) and  *)
(* asks for the consistency report (identity_report.rs).                   *)
(***************************************************************************)
EXTENDS Naturals, Sequences, FiniteSets

CONSTANTS
    Person,         \* subjects of tokens
    Guest,          \* placeholder users, invite_*
    Email,
    Key,            \* signing keys of the identity provider
    Request,        \* bound: requests of a behaviour
    LegacyRelation, \* bound: relations placeholders start with
    MaxEvents       \* bound: requests, keys published or withdrawn, documents
                    \* shared and commands of the operator, together

User == Person \cup Guest
Role == {"member", "admin"}
Relation == Role \cup {"viewer"}
Tuple == User \X Relation
NoEmail == "none"           \* of a token; in users and accounts: no row
Fallback == "fallback"      \* <id>@hrm.local
Everyone == "everyone"      \* a finding about no user in particular
Nobody == "nobody"

ASSUME IdentityAssumption ==
    /\ Person \cap Guest = {} /\ {Everyone, Nobody} \cap User = {}
    /\ {NoEmail, Fallback} \cap Email = {}
    /\ LegacyRelation \subseteq Relation /\ MaxEvents \in Nat

VARIABLES
    hrm,        \* HRM_MODE of the deployment
    published,  \* keys the provider publishes
    retired,    \* keys it has withdrawn
    cache,      \* keys the process knows
    users,      \* users.email of each id
    account,    \* the email of the provider's account of each id
    rows,       \* workspace_members and document_shares
    fga,        \* tuples in OpenFGA
    granting,   \* users a document is being shared with: row, but no tuple yet
    req,        \* requests, from arrival to the handler or a refusal
    op,         \* the operator's command
    events,     \* counts up to MaxEvents
    overlooked, \* history: placeholders with a tuple the clean-up could not see
    stirred     \* history: users whose data changed since the report began

keyVars == <<published, retired, cache>>
storeVars == <<users, rows, fga, granting>>
vars == <<hrm, keyVars, storeVars, account, req, op, events, overlooked, stirred>>

Counted == events < MaxEvents /\ events' = events + 1
NoCommand == [pc |-> "idle"]
Roles(u) == {x \in Role : <<u, x>> \in fga}
TuplesOf(u) == {t \in fga : t[1] = u}
\* The model's relations: an administrator is a member.
Holds(u, rel) == <<u, rel>> \in fga \/ (rel = "member" /\ <<u, "admin">> \in fga)

TypeOK ==
    /\ hrm \in BOOLEAN
    /\ published \subseteq Key /\ retired \subseteq Key /\ cache \subseteq Key
    /\ users \in [User -> Email \cup {NoEmail, Fallback}]
    /\ account \in [User -> Email \cup {NoEmail}]
    /\ rows \subseteq Tuple /\ fga \subseteq Tuple
    /\ granting \subseteq User /\ overlooked \subseteq Guest /\ stirred \subseteq User
    /\ \A r \in Request : req[r].pc \in {"new", "lookup", "fetch", "store", "reread",
                            "check", "upsert", "read", "write", "served", "refused", "done"}
    /\ op.pc \in {"idle", "collect", "tuples", "report"}
    /\ events \in 0..MaxEvents

NewRequest == [pc |-> "new", user |-> Nobody, role |-> "none", email |-> NoEmail,
               key |-> "none", hold |-> {}, clear |-> FALSE, alone |-> TRUE,
               read |-> {}, present |-> {}]

\* Placeholders are in any state earlier versions left them in; they have the
\* email of the invited person, whose account may exist by now.
Init ==
    /\ hrm \in BOOLEAN
    /\ published \in {{k} : k \in Key} /\ retired = {} /\ cache = {}
    /\ \E e \in Email : users = [u \in User |-> IF u \in Guest THEN e ELSE NoEmail]
    /\ account \in [User -> Email \cup {NoEmail}]
    /\ \A g \in Guest : account[g] = NoEmail
    /\ rows \in SUBSET (Guest \X LegacyRelation)
    /\ fga \in SUBSET (Guest \X LegacyRelation)
    /\ granting = {}
    /\ req = [r \in Request |-> NewRequest]
    /\ op = NoCommand
    /\ events = 0
    /\ overlooked = {} /\ stirred = {}

-----------------------------------------------------------------------------
(* Authentication: JwtValidator::validate. *)

Stir(U) == stirred' = IF op.pc = "report" THEN stirred \cup U ELSE stirred
Aside == UNCHANGED <<hrm, account, op, overlooked, granting, rows>>
Set(r, change) == req' = [req EXCEPT ![r] = change]
At(r, pc) == Set(r, [req[r] EXCEPT !.pc = pc])
\* What is dropped is not read again.
End(r, pc) == Set(r, [NewRequest EXCEPT !.pc = pc])
Refuse(r) == End(r, "refused")
Known(r) == Set(r, [req[r] EXCEPT !.pc = "check", !.key = "none", !.hold = {},
                                  !.clear = FALSE])
Serve(r) == Set(r, [NewRequest EXCEPT !.pc = "served", !.user = req[r].user,
                                      !.email = req[r].email])
Stores == UNCHANGED <<users, fga, stirred>>

\* A token says of its subject what was true when it was issued, and may be used
\* beside a newer one of the same person.
UnderWay(s) == req[s].pc \notin {"new", "served", "refused", "done"}
Arrive(r) ==
    /\ req[r].pc = "new" /\ Counted
    /\ \E u \in Person, x \in (IF hrm THEN Role ELSE {}) \cup {"none"}, e \in Email \cup {NoEmail},
          k \in published \cup retired :
         LET rivals == {s \in Request \ {r} :
                          UnderWay(s) /\ req[s].user = u /\ req[s].role # x}
         IN  req' = [s \in Request |->
                IF s = r
                THEN [NewRequest EXCEPT !.pc = "lookup", !.user = u, !.role = x,
                        !.email = e, !.key = k, !.alone = rivals = {}]
                ELSE [req[s] EXCEPT !.alone = @ /\ s \notin rivals]]
    /\ UNCHANGED keyVars /\ Stores /\ Aside

\* decoding_key_for: an unknown key is looked for in a fresh set of keys.
LookUpKey(r) ==
    /\ req[r].pc = "lookup"
    /\ IF req[r].key \in cache THEN Known(r) ELSE At(r, "fetch")
    /\ UNCHANGED <<keyVars, events>> /\ Stores /\ Aside

FetchKeys(r) ==
    /\ req[r].pc = "fetch"
    /\ \/ Refuse(r)
       \/ Set(r, [req[r] EXCEPT !.pc = "store", !.hold = published,
                    !.clear = \A s \in Request : req[s].pc # "store"])
    /\ UNCHANGED <<keyVars, events>> /\ Stores /\ Aside

StoreKeysOnce(r) ==         \* mutant: the keys of the first response are kept
    /\ req[r].pc = "store"
    /\ cache' = IF cache = {} THEN req[r].hold ELSE cache
    /\ At(r, "reread")
    /\ UNCHANGED <<published, retired, events>> /\ Stores /\ Aside
StoreKeys(r) ==
    /\ req[r].pc = "store"
    /\ cache' = req[r].hold
    /\ At(r, "reread")
    /\ UNCHANGED <<published, retired, events>> /\ Stores /\ Aside

RereadKey(r) ==
    /\ req[r].pc = "reread"
    /\ IF req[r].key \in cache THEN Known(r) ELSE Refuse(r)
    /\ UNCHANGED <<keyVars, events>> /\ Stores /\ Aside

\* Signature, issuer, audience and expiry; in HRM mode also the tenant and
\* workspace of the path (ensure_scope) and then the role (role_relation).
CheckToken(r) ==
    /\ req[r].pc = "check"
    /\ \/ Refuse(r)
       \/ ~hrm /\ Serve(r)
       \/ hrm /\ req[r].role \in Role /\ At(r, "upsert")
    /\ UNCHANGED <<keyVars, events>> /\ Stores /\ Aside

\* The provider brings a new key into use, or withdraws one for good.
PublishKey(k) ==
    /\ k \notin published \cup retired /\ Counted
    /\ published' = published \cup {k}
    /\ UNCHANGED <<retired, cache, req>> /\ Stores /\ Aside
WithdrawKey(k) ==
    /\ k \in published /\ published # {k} /\ Counted
    /\ published' = published \ {k} /\ retired' = retired \cup {k}
    /\ UNCHANGED <<cache, req>> /\ Stores /\ Aside

-----------------------------------------------------------------------------
(* HRM mode: provision_identity, on every request. *)

\* users.email is unique; a token without an email changes no row there is.
Taken(u, e) == e \in Email /\ \E other \in User \ {u} : users[other] = e
Stored(u, e) ==
    IF e # NoEmail THEN e ELSE IF users[u] = NoEmail THEN Fallback ELSE users[u]

UpsertHrmUser(r) ==
    LET u == req[r].user IN
    /\ req[r].pc = "upsert"
    /\ \/ Refuse(r) /\ Stores
       \/ /\ ~Taken(u, req[r].email)
          /\ users' = [users EXCEPT ![u] = Stored(u, req[r].email)]
          /\ Stir({u})
          /\ At(r, "read")
          /\ UNCHANGED fga
    /\ UNCHANGED <<keyVars, events>> /\ Aside

\* Two filtered reads that run at the same time.
ReadRelation(r) ==
    /\ req[r].pc = "read"
    /\ \/ Refuse(r)
       \/ \E x \in Role \ req[r].read :
            LET read == req[r].read \cup {x} IN
            Set(r, [req[r] EXCEPT
                      !.pc = IF read = Role THEN "write" ELSE "read",
                      !.read = read,
                      !.present = @ \cup ({x} \cap Roles(req[r].user))])
    /\ UNCHANGED <<keyVars, events>> /\ Stores /\ Aside

\* plan_tuple_sync
WritesOnly(r) ==            \* mutant: the other role is not deleted
    [add |-> {req[r].role} \ req[r].present, remove |-> {}]
Plan(r) == [add |-> {req[r].role} \ req[r].present,
            remove |-> req[r].present \ {req[r].role}]

\* One call of OpenFGA, which refuses it as a whole when a tuple to write exists or
\* one to delete does not; the answer may be lost.
SyncTuples(r) ==
    LET u == req[r].user
        plan == Plan(r)
        fits == plan.add \cap Roles(u) = {} /\ plan.remove \subseteq Roles(u)
    IN
    /\ req[r].pc = "write"
    /\ \/ plan.add \cup plan.remove = {} /\ Serve(r) /\ UNCHANGED <<fga, stirred>>
       \/ plan.add \cup plan.remove # {} /\ Refuse(r) /\ UNCHANGED <<fga, stirred>>
       \/ /\ plan.add \cup plan.remove # {} /\ fits
          /\ fga' = (fga \ ({u} \X plan.remove)) \cup ({u} \X plan.add)
          /\ Stir({u})
          /\ Serve(r) \/ Refuse(r)
    /\ UNCHANGED <<keyVars, users, events>> /\ Aside

\* POST /users/sync: a verified email is stored, 409 if another user has it; an
\* unverified one is refused, as if the request were another.
SyncCurrentUser(r) ==
    LET u == req[r].user IN
    /\ req[r].pc = "served" /\ req[r].email # NoEmail
    /\ IF Taken(u, req[r].email)
       THEN Stores
       ELSE /\ users' = [users EXCEPT ![u] = req[r].email]
            /\ Stir({u}) /\ UNCHANGED fga
    /\ End(r, "done")
    /\ UNCHANGED <<keyVars, events>> /\ Aside

\* A document is shared with a user the workspace knows, placeholders included:
\* the row first, then the tuple; the row is taken back if that fails.
Collected(u) == op.pc \in {"collect", "tuples"} /\ u \in Guest \ op.todo
                    /\ <<u, "viewer">> \notin op.plan
ShareRow(u) ==
    /\ users[u] # NoEmail /\ <<u, "viewer">> \notin rows /\ Counted
    /\ rows' = rows \cup {<<u, "viewer">>}
    /\ granting' = granting \cup {u}
    /\ Stir({u})
    /\ UNCHANGED <<hrm, keyVars, account, users, fga, req, op, overlooked>>
ShareTuple(u) ==
    /\ u \in granting
    /\ granting' = granting \ {u}
    /\ \/ /\ fga' = fga \cup {<<u, "viewer">>}
          /\ overlooked' = overlooked \cup
               {g \in {u} \cap Guest : Collected(g) \/ users[g] = NoEmail}
          /\ UNCHANGED rows
       \/ /\ rows' \in {rows, rows \ {<<u, "viewer">>}}
          /\ UNCHANGED <<fga, overlooked>>
    /\ Stir({u})
    /\ UNCHANGED <<hrm, keyVars, account, users, req, op, events>>
-----------------------------------------------------------------------------
(* cleanup-invite-placeholders --delete *)

Free == op = NoCommand /\ Counted
Kept == UNCHANGED <<hrm, keyVars, account, granting, req>>
Placeholders == {g \in Guest : users[g] # NoEmail}

StartCleanup ==
    /\ Free
    /\ op' = [pc |-> "collect", todo |-> Placeholders, left |-> Placeholders,
              plan |-> {}, hand |-> Nobody]
    /\ UNCHANGED <<users, rows, fga, overlooked, stirred>> /\ Kept

\* collect_openfga_tuples_for_user: both roles of a membership, the shares, and
\* what list-objects says; a list that fails is left out.
RowTuples(g) ==
    {<<g, x>> : x \in {x \in Role : \E y \in Role : <<g, y>> \in rows}}
        \cup (rows \cap {<<g, "viewer">>})
Collect(g) ==
    /\ op.pc = "collect" /\ g \in op.todo
    /\ \E answered \in SUBSET Relation :
         LET listed == {<<g, x>> : x \in {x \in answered : Holds(g, x)}}
             plan == op.plan \cup RowTuples(g) \cup listed
         IN  /\ op' = [op EXCEPT !.todo = @ \ {g}, !.plan = plan,
                                 !.pc = IF op.todo = {g} THEN "tuples" ELSE "collect"]
             /\ overlooked' = overlooked \cup {h \in {g} : ~(TuplesOf(h) \subseteq plan)}
    /\ UNCHANGED <<users, rows, fga, events, stirred>> /\ Kept

InHand(g) == op.pc = "tuples" /\ g \in op.left /\ op.hand \in {g, Nobody}
Without(g) == [op EXCEPT !.left = @ \ {g}, !.hand = Nobody,
                         !.plan = {t \in @ : t[1] # g}]

\* One call for each tuple, a missing one is a success; the first error leaves the
\* user for the next run.
AfterErrorRows(g) ==        \* mutant: the rows are deleted all the same
    [op EXCEPT !.hand = g, !.plan = {t \in @ : t[1] # g}]
AfterError(g) == Without(g)
DeleteTuple(g) ==
    /\ InHand(g)
    /\ \E t \in op.plan :
         /\ t[1] = g
         /\ \/ fga' = fga \ {t} /\ op' = [op EXCEPT !.hand = g, !.plan = @ \ {t}]
            \/ op' = AfterError(g) /\ UNCHANGED fga
    /\ UNCHANGED <<users, rows, events, overlooked, stirred>> /\ Kept

\* delete_sql_for_placeholder: one transaction, done or not.
DeleteRows(g) ==
    /\ InHand(g) /\ \A t \in op.plan : t[1] # g
    /\ op' = Without(g)
    /\ \/ /\ rows' = {t \in rows : t[1] # g}
          /\ users' = [users EXCEPT ![g] = NoEmail]
       \/ UNCHANGED <<rows, users>>
    /\ UNCHANGED <<fga, events, overlooked, stirred>> /\ Kept

\* A command ends, or stops half-way: a query fails, the process is killed.
EndCommand ==
    /\ op # NoCommand
    /\ op' = NoCommand /\ stirred' = {}
    /\ UNCHANGED <<users, rows, fga, events, overlooked>> /\ Kept

-----------------------------------------------------------------------------
(* report-identity-consistency: run_identity_consistency_report *)

StartReport ==
    /\ Free
    /\ op' = [pc |-> "report", steps |-> <<"users", "expected", "checks", "inventory">>,
              ids |-> {}, expected |-> {}, found |-> {}]
    /\ UNCHANGED <<users, rows, fga, overlooked, stirred>> /\ Kept

\* Each part may fail: it yields nothing but a finding about everyone.
Part(step, change) ==
    /\ op.pc = "report" /\ op.steps # <<>> /\ Head(op.steps) = step
    /\ op' \in {[change EXCEPT !.steps = Tail(@)],
                [op EXCEPT !.steps = Tail(@), !.found = @ \cup {<<"failed", Everyone>>}]}
    /\ UNCHANGED <<users, rows, fga, events, overlooked, stirred>> /\ Kept

\* load_sql_users, inspect_sql_users
InspectUsers ==
    LET ids == {u \in User : users[u] # NoEmail} IN
    Part("users",
         [op EXCEPT !.ids = ids,
                    !.found = @ \cup {<<"legacy_invite_id", u>> : u \in ids \cap Guest}
                        \cup {<<"missing_in_keycloak", u>> : u \in
                                {u \in ids : account[u] = NoEmail}}
                        \cup {<<"email_mismatch", u>> : u \in
                                {u \in ids : account[u] \notin {NoEmail, users[u]}}}])

LoadExpected == Part("expected", [op EXCEPT !.expected = rows])

\* inspect_expected_relations
CheckExpected ==
    Part("checks",
         [op EXCEPT !.found = @ \cup {<<"missing_fga_relation", t[1]>> : t \in
                                        {t \in op.expected : ~Holds(t[1], t[2])}}])

\* inspect_fga_tuples
ExtraWithoutRoles == {t \in fga \ op.expected : t[2] = "viewer"}
                            \* mutant: workspace roles count as not SQL-backed
Extra == fga \ op.expected
InspectTuples ==
    Part("inventory",
         [op EXCEPT !.found = @
              \cup {<<"openfga_subject_missing_in_sql", t[1]>> : t \in
                        {t \in fga : t[1] \notin op.ids}}
              \cup {<<"legacy_invite_id", t[1]>> : t \in {t \in fga : t[1] \in Guest}}
              \cup {<<"extra_fga_relation", t[1]>> : t \in Extra}])

-----------------------------------------------------------------------------
Handle(r) ==
    \/ Arrive(r) \/ LookUpKey(r) \/ FetchKeys(r) \/ StoreKeys(r) \/ RereadKey(r)
    \/ CheckToken(r) \/ UpsertHrmUser(r) \/ ReadRelation(r) \/ SyncTuples(r)
    \/ SyncCurrentUser(r)

Operator ==
    \/ StartCleanup \/ StartReport \/ EndCommand
    \/ \E g \in Guest : Collect(g) \/ DeleteTuple(g) \/ DeleteRows(g)
    \/ InspectUsers \/ LoadExpected \/ CheckExpected \/ InspectTuples

Next ==
    \/ \E r \in Request : Handle(r)
    \/ \E k \in Key : PublishKey(k) \/ WithdrawKey(k)
    \/ \E u \in User : ShareRow(u) \/ ShareTuple(u)
    \/ Operator

Spec == Init /\ [][Next]_vars

-----------------------------------------------------------------------------
\* A token whose key the provider publishes is not refused for an unknown key: the
\* cache is refreshed when the key is missing, whatever other requests do with it.
\* Known gap: a response older than the request's own, stored after it.
PublishedKeyIsKnown ==
    [][\A r \in Request :
         req[r].pc = "reread" /\ req'[r].pc = "refused" =>
            req[r].key \notin req[r].hold \cap published \/ ~req[r].clear]_vars

\* A request that passes provision_identity has made the token's role the only one
\* its user holds in the workspace, although requests of the same user read and
\* write the same tuples at the same time and calls fail half-way.  Known gap:
\* tokens of two roles in use at once.
PassedWithTokensRole ==
    [][\A r \in Request :
         req[r].pc = "write" /\ req'[r].pc = "served" /\ req[r].alone =>
            {x \in Role : <<req[r].user, x>> \in fga'} = {req[r].role}]_vars

\* The clean-up deletes tuples before rows so that none outlives its placeholder:
\* no later run would find it.  Known gaps: a list-objects call that failed, a
\* document shared with the placeholder after its tuples were collected.
PlaceholderLeavesNothing ==
    \A g \in Guest \ overlooked : users[g] = NoEmail => TuplesOf(g) = {}

\* A user of whom the finished report says nothing is consistent: known to the
\* provider under the same email, and related in OpenFGA exactly as in SQL.  The
\* report reads the stores one after the other, and parts of it may fail.
CleanReportIsTrue ==
    op.pc = "report" /\ op.steps = <<>> =>
        \A u \in User \ stirred :
            (\A f \in op.found : f[2] \notin {u, Everyone}) =>
                /\ users[u] \in {NoEmail, account[u]}
                /\ TuplesOf(u) = {t \in rows : t[1] = u}
                /\ users[u] = NoEmail => TuplesOf(u) = {}
=============================================================================
