--------------------------- MODULE IdentityProofs ---------------------------
(***************************************************************************)
(* Proofs about Identity, for any number of persons, placeholders, keys,   *)
(* requests and events.                                                    *)
(*                                                                         *)
(* The invariant has a part for each property: what the responses with     *)
(* keys hold, what a request that synchronises a role has read, what a     *)
(* clean-up has collected, and what a report in progress has said.         *)
(***************************************************************************)
EXTENDS Identity, TLAPS

-----------------------------------------------------------------------------
(* Types *)

Going == {"lookup", "fetch", "store", "reread", "check", "upsert", "read", "write"}
Requests ==
    [pc : Going \cup {"new", "served", "refused", "done"}, user : Person \cup {Nobody},
     role : Role \cup {"none"}, email : Email \cup {NoEmail}, key : Key \cup {"none"},
     hold : SUBSET Key, clear : BOOLEAN, alone : BOOLEAN, read : SUBSET Role,
     present : SUBSET Role]

CleanUps == [pc : {"collect", "tuples"}, todo : SUBSET Guest, left : SUBSET Guest,
             plan : SUBSET Tuple, hand : Guest \cup {Nobody}]
Parts == {<<"users", "expected", "checks", "inventory">>, <<"expected", "checks", "inventory">>,
          <<"checks", "inventory">>, <<"inventory">>, <<>>}
Findings == {"failed", "legacy_invite_id", "missing_in_keycloak", "email_mismatch",
             "missing_fga_relation", "openfga_subject_missing_in_sql", "extra_fga_relation"}
Reports == [pc : {"report"}, steps : Parts, ids : SUBSET User, expected : SUBSET Tuple,
            found : SUBSET (Findings \X (User \cup {Everyone}))]

\* Only persons make requests; the role of the token is known before it is used.
Fits(q) == /\ q.pc \in Going \cup {"served"} => q.user \in Person
           /\ q.pc \in {"upsert", "read", "write"} => q.role \in Role
IdentityTypes ==
    /\ TypeOK
    /\ req \in [Request -> Requests] /\ \A r \in Request : Fits(req[r])
    /\ op \in {NoCommand} \cup CleanUps \cup Reports

-----------------------------------------------------------------------------
(* The parts of the invariant *)

\* A response that came when no other waited to be stored is not undone by one
\* stored after it: each response still to be stored has all its published keys.
KeyInv ==
    /\ \A r \in Request : req[r].hold \subseteq published \cup retired
    /\ \A r \in Request : req[r].clear /\ req[r].pc \in {"store", "reread"} =>
         /\ \A s \in Request : req[s].pc = "store" =>
              req[r].hold \cap published \subseteq req[s].hold
         /\ req[r].pc = "reread" => req[r].hold \cap published \subseteq cache

\* Requests of one user with tokens of two roles are not alone.
AloneInv ==
    \A r, s \in Request :
        /\ req[r].pc \in Going /\ req[s].pc \in Going
        /\ req[r].user = req[s].user /\ req[r].role # req[s].role
        => ~req[r].alone

\* The other role a request did not find stays away, and its own role stays.
Reads(q) ==
    /\ q.present \subseteq q.read
    /\ q.pc = "write" => q.read = Role
    /\ q.pc \in Going /\ q.alone =>
         \A x \in q.read :
            /\ x # q.role /\ x \notin q.present => <<q.user, x>> \notin fga
            /\ x = q.role /\ x \in q.present => <<q.user, x>> \in fga
ReadInv == \A r \in Request : Reads(req[r])

\* What a clean-up has collected of a placeholder is all there is.
GuestInv(g) ==
    /\ users[g] = NoEmail => TuplesOf(g) = {}
    /\ op.pc \in {"collect", "tuples"} /\ g \in op.left \ op.todo => TuplesOf(g) \subseteq op.plan
PlaceholderInv ==
    /\ op.pc = "tuples" => op.todo = {}
    /\ \A g \in Guest \ overlooked : GuestInv(g)

\* Rows belong to stored users, and a person's are shares.
RowInv == \A t \in rows : users[t[1]] # NoEmail /\ (t[1] \in Person => t[2] = "viewer")

\* What a report that says nothing about u has found of it.
Silent(u) == \A f \in op.found : f[2] \notin {u, Everyone}
UserInv(u) ==
    op.pc = "report" /\ u \notin stirred /\ Silent(u) =>
        /\ Len(op.steps) < 4 => /\ u \in op.ids <=> users[u] # NoEmail
                                /\ users[u] # NoEmail => users[u] = account[u] /\ u \notin Guest
        /\ Len(op.steps) < 3 => \A t \in Tuple : t[1] = u => (t \in op.expected <=> t \in rows)
        /\ Len(op.steps) < 2 => \A t \in op.expected : t[1] = u => Holds(t[1], t[2])
        /\ Len(op.steps) < 1 =>
             \A t \in fga : t[1] = u => u \in op.ids /\ u \notin Guest /\ t \in op.expected
ReportInv == \A u \in User : UserInv(u)

IdentityInv ==
    IdentityTypes /\ KeyInv /\ AloneInv /\ ReadInv /\ PlaceholderInv /\ RowInv /\ ReportInv

-----------------------------------------------------------------------------
(* What a step leaves alone *)

LEMMA People == /\ User = Person \cup Guest /\ Person \cap Guest = {}
                /\ Nobody \notin User /\ Everyone \notin User /\ NoEmail \notin Email
                /\ NoEmail # Fallback
BY IdentityAssumption DEF User, NoEmail, Fallback, Nobody, Everyone

LEMMA Tuples == \A t \in Tuple : t[1] \in User /\ t[2] \in Relation /\ t = <<t[1], t[2]>>
BY DEF Tuple

\* The stores, the command and what is remembered of both stay as they are.
LEMMA StoresKept ==
    ASSUME IdentityInv, UNCHANGED <<users, account, rows, fga, op, overlooked, stirred>>
    PROVE  PlaceholderInv' /\ RowInv' /\ ReportInv'
<1>1. PlaceholderInv /\ RowInv /\ ReportInv
  BY DEF IdentityInv
<1>2. PlaceholderInv'
  BY <1>1 DEF PlaceholderInv, GuestInv, TuplesOf
<1>3. RowInv'
  BY <1>1 DEF RowInv
<1>4. ReportInv'
  BY <1>1 DEF ReportInv, UserInv, Silent, Holds
<1> QED BY <1>2, <1>3, <1>4

\* A step that changes the data of one person only, and leaves the rows alone.
LEMMA PersonStirred ==
    ASSUME IdentityInv, UNCHANGED <<account, rows, op, overlooked>>, NEW u \in Person, Stir({u}),
           users'[u] = users[u] \/ users'[u] # NoEmail,
           \A v \in User \ {u} : users'[v] = users[v],
           \A t \in Tuple : t[1] # u => (t \in fga' <=> t \in fga),
           fga' \subseteq Tuple
    PROVE  PlaceholderInv' /\ RowInv' /\ ReportInv' /\ stirred' \subseteq User
<1>0. /\ PlaceholderInv /\ RowInv /\ ReportInv /\ u \in User
      /\ fga \subseteq Tuple /\ rows \subseteq Tuple /\ stirred \subseteq User
      /\ op \in {NoCommand} \cup CleanUps \cup Reports
  BY People DEF IdentityInv, IdentityTypes, TypeOK
<1>1. ASSUME NEW v \in User \ {u}
      PROVE  TuplesOf(v)' = TuplesOf(v) /\ \A x : Holds(v, x)' <=> Holds(v, x)
  <2>1. \A x : <<v, x>> \in fga' <=> <<v, x>> \in fga
    <3>1. ASSUME NEW x, <<v, x>> \in fga' \/ <<v, x>> \in fga PROVE <<v, x>> \in Tuple
      BY <1>0, <3>1
    <3>2. ASSUME NEW x PROVE <<v, x>>[1] = v
      OBVIOUS
    <3> QED BY <3>1, <3>2
  <2>2. TuplesOf(v)' = TuplesOf(v)
    BY <1>0 DEF TuplesOf
  <2>3. \A x : Holds(v, x)' <=> Holds(v, x)
    BY <2>1 DEF Holds
  <2> QED BY <2>2, <2>3
<1>2. PlaceholderInv'
  <2>1. ASSUME NEW g \in Guest \ overlooked PROVE GuestInv(g)'
    <3>1. g \in User \ {u}
      BY People
    <3> QED BY <1>0, <1>1, <3>1 DEF PlaceholderInv, GuestInv
  <2> QED BY <1>0, <2>1 DEF PlaceholderInv
<1>3. RowInv'
  BY <1>0, Tuples DEF RowInv
<1>4. ASSUME NEW v \in User PROVE UserInv(v)'
  <2>1. CASE v = u
    BY <2>1 DEF UserInv, Stir
  <2>2. CASE v # u
    <3>1. UserInv(v) /\ users'[v] = users[v] /\ TuplesOf(v)' = TuplesOf(v)
      BY <1>0, <1>1, <2>2 DEF ReportInv
    <3>2. op.pc = "report" /\ v \notin stirred' => v \notin stirred
      BY <2>2 DEF Stir
    <3>3. \A t : t[1] = v => (Holds(t[1], t[2])' <=> Holds(t[1], t[2]))
      BY <1>1, <2>2
    <3>4. \A t : t \in fga' /\ t[1] = v => t \in fga
      BY <3>1 DEF TuplesOf
    <3>5. Silent(v)' <=> Silent(v)
      BY DEF Silent
    <3> QED BY <3>1, <3>2, <3>3, <3>4, <3>5 DEF UserInv
  <2> QED BY <2>1, <2>2
<1>5. stirred' \subseteq User
  BY <1>0 DEF Stir
<1> QED BY <1>2, <1>3, <1>4, <1>5 DEF ReportInv

\* A request moves on: what it says of its token stays as long as it is under way.
Moves(r, t) ==
    /\ Set(r, t) /\ t \in Requests /\ Fits(t)
    /\ t.pc \in Going => /\ req[r].pc \in Going /\ t.user = req[r].user
                         /\ t.role = req[r].role /\ t.alone = req[r].alone

LEMMA RequestSlot ==
    ASSUME IdentityInv, NEW r \in Request, NEW t, Moves(r, t)
    PROVE  /\ req'[r] = t /\ \A s \in Request \ {r} : req'[s] = req[s]
           /\ req' \in [Request -> Requests] /\ \A s \in Request : Fits(req'[s])
           /\ AloneInv'
<1>0. /\ req \in [Request -> Requests] /\ AloneInv /\ \A s \in Request : Fits(req[s])
      /\ t \in Requests /\ Fits(t)
      /\ t.pc \in Going => /\ req[r].pc \in Going /\ t.user = req[r].user
                           /\ t.role = req[r].role /\ t.alone = req[r].alone
      /\ req' = [req EXCEPT ![r] = t]
  BY DEF IdentityInv, IdentityTypes, Moves, Set
<1>1. /\ req'[r] = t /\ \A s \in Request \ {r} : req'[s] = req[s]
      /\ req' \in [Request -> Requests]
  BY <1>0
<1>2. \A s \in Request : Fits(req'[s])
  BY <1>0, <1>1
<1>3. \A s \in Request : req'[s].pc \in Going =>
          /\ req[s].pc \in Going /\ req'[s].user = req[s].user
          /\ req'[s].role = req[s].role /\ req'[s].alone = req[s].alone
  BY <1>0, <1>1
<1>4. AloneInv'
  BY <1>0, <1>3 DEF AloneInv
<1> QED BY <1>1, <1>2, <1>4

\* The other responses with keys stay where they are.
LEMMA KeysKept ==
    ASSUME IdentityInv, NEW r \in Request, NEW t, Moves(r, t), UNCHANGED keyVars,
           t.hold \subseteq req[r].hold, t.pc \notin {"store", "reread"}
    PROVE  KeyInv'
<1>1. req'[r] = t /\ \A s \in Request \ {r} : req'[s] = req[s]
  BY RequestSlot
<1>2. KeyInv /\ UNCHANGED <<published, retired, cache>>
  BY DEF IdentityInv, keyVars
<1> QED BY <1>1, <1>2 DEF KeyInv

LEMMA ReadsKept ==
    ASSUME IdentityInv, NEW r \in Request, NEW t, Moves(r, t), UNCHANGED fga, Reads(t)
    PROVE  ReadInv'
<1>1. req'[r] = t /\ \A s \in Request \ {r} : req'[s] = req[s]
  BY RequestSlot
<1>2. ASSUME NEW s \in Request PROVE Reads(req[s])'
  <2>1. ReadInv
    BY DEF IdentityInv
  <2>2. CASE s = r
    BY <1>1, <2>2 DEF Reads
  <2>3. CASE s # r
    BY <1>1, <2>1, <2>3 DEF Reads, ReadInv
  <2> QED BY <2>2, <2>3
<1> QED BY <1>2 DEF ReadInv

\* A step of a request that touches neither stores nor keys.
LEMMA RequestOnly ==
    ASSUME IdentityInv, NEW r \in Request, NEW t, Moves(r, t), Reads(t),
           t.hold \subseteq req[r].hold, t.pc \notin {"store", "reread"},
           UNCHANGED <<keyVars, events>>, Stores, Aside
    PROVE  IdentityInv'
<1>1. UNCHANGED <<published, retired, cache, users, fga, stirred, hrm, account, op,
                  overlooked, granting, rows, events>>
  BY DEF keyVars, Stores, Aside
<1>2. KeyInv' /\ ReadInv'
  BY <1>1, KeysKept, ReadsKept
<1>3. PlaceholderInv' /\ RowInv' /\ ReportInv'
  BY <1>1, StoresKept
<1>4. /\ req' \in [Request -> Requests] /\ \A s \in Request : Fits(req'[s])
      /\ AloneInv'
  BY RequestSlot
<1>5. IdentityTypes'
  <2>1. \A s \in Request : req'[s].pc \in Going \cup {"new", "served", "refused", "done"}
    BY <1>4 DEF Requests
  <2>2. TypeOK'
    BY <1>1, <2>1 DEF IdentityInv, IdentityTypes, TypeOK, Going
  <2>3. \A s \in Request : Fits(req[s])'
    BY <1>4 DEF Fits
  <2> QED BY <1>1, <1>4, <2>2, <2>3 DEF IdentityInv, IdentityTypes, CleanUps, Reports
<1> QED BY <1>2, <1>3, <1>4, <1>5 DEF IdentityInv

-----------------------------------------------------------------------------
(* The moves of a request *)

LEMMA AtMoves ==
    ASSUME IdentityInv, NEW r \in Request, req[r].pc \in Going, NEW pc \in Going \ {"write"},
           pc \in {"upsert", "read"} => req[r].role \in Role, At(r, pc)
    PROVE  \E t : /\ Moves(r, t) /\ Reads(t) /\ t.pc = pc
                  /\ t.hold = req[r].hold /\ t.clear = req[r].clear
<1>1. PICK q : q = req[r]
  OBVIOUS
<1>2. q \in Requests /\ Fits(q) /\ Reads(q) /\ q.pc \in Going
  BY <1>1 DEF IdentityInv, IdentityTypes, ReadInv
<1>3. PICK t : t = [q EXCEPT !.pc = pc]
  OBVIOUS
<1>4. /\ t \in Requests /\ t.pc = pc /\ t.hold = q.hold /\ t.clear = q.clear
      /\ t.user = q.user /\ t.role = q.role /\ t.alone = q.alone
      /\ t.read = q.read /\ t.present = q.present
  BY <1>2, <1>3 DEF Requests
<1>5. Fits(t) /\ Reads(t)
  BY <1>1, <1>2, <1>4 DEF Fits, Reads
<1>6. Set(r, t)
  BY <1>1, <1>3 DEF At
<1> QED BY <1>1, <1>2, <1>4, <1>5, <1>6 DEF Moves

LEMMA KnownMoves ==
    ASSUME IdentityInv, NEW r \in Request, req[r].pc \in {"lookup", "reread"}, Known(r)
    PROVE  \E t : Moves(r, t) /\ Reads(t) /\ t.pc = "check" /\ t.hold = {}
<1>1. PICK q : q = req[r]
  OBVIOUS
<1>2. q \in Requests /\ Fits(q) /\ Reads(q) /\ q.pc \in Going
  BY <1>1 DEF IdentityInv, IdentityTypes, ReadInv, Going
<1>3. PICK t : t = [q EXCEPT !.pc = "check", !.key = "none", !.hold = {}, !.clear = FALSE]
  OBVIOUS
<1>4. /\ t \in Requests /\ t.pc = "check" /\ t.hold = {}
      /\ t.user = q.user /\ t.role = q.role /\ t.alone = q.alone
      /\ t.read = q.read /\ t.present = q.present
  BY <1>2, <1>3 DEF Requests, Going
<1>5. Fits(t) /\ Reads(t)
  BY <1>1, <1>2, <1>4 DEF Fits, Reads, Going
<1>6. Set(r, t)
  BY <1>1, <1>3 DEF Known
<1> QED BY <1>1, <1>2, <1>4, <1>5, <1>6 DEF Moves

LEMMA EndMoves ==
    ASSUME IdentityInv, NEW r \in Request, NEW pc \in {"refused", "done"}, End(r, pc)
    PROVE  \E t : Moves(r, t) /\ Reads(t) /\ t.pc = pc /\ t.hold = {}
<1>1. PICK t : t = [NewRequest EXCEPT !.pc = pc]
  OBVIOUS
<1>2. /\ t \in Requests /\ t.pc = pc /\ t.hold = {}
      /\ t.read = {} /\ t.present = {}
  BY <1>1 DEF Requests, NewRequest
<1>3. Fits(t) /\ Reads(t) /\ t.pc \notin Going
  BY <1>2 DEF Fits, Reads, Going
<1>4. Set(r, t)
  BY <1>1 DEF End
<1> QED BY <1>2, <1>3, <1>4 DEF Moves

LEMMA ServeMoves ==
    ASSUME IdentityInv, NEW r \in Request, req[r].pc \in Going, Serve(r)
    PROVE  \E t : Moves(r, t) /\ Reads(t) /\ t.pc = "served" /\ t.hold = {}
<1>1. PICK q : q = req[r]
  OBVIOUS
<1>2. q \in Requests /\ Fits(q) /\ q.pc \in Going
  BY <1>1 DEF IdentityInv, IdentityTypes
<1>3. PICK t : t = [NewRequest EXCEPT !.pc = "served", !.user = q.user, !.email = q.email]
  OBVIOUS
<1>4. /\ t \in Requests /\ t.pc = "served" /\ t.hold = {} /\ t.user = q.user
      /\ t.read = {} /\ t.present = {}
  BY <1>2, <1>3 DEF Requests, NewRequest
<1>5. Fits(t) /\ Reads(t) /\ t.pc \notin Going
  BY <1>2, <1>4 DEF Fits, Reads, Going
<1>6. Set(r, t)
  BY <1>1, <1>3 DEF Serve
<1> QED BY <1>4, <1>5, <1>6 DEF Moves

\* What is held by the request that ends is no more than before.
LEMMA MoveOnly ==
    ASSUME IdentityInv, NEW r \in Request,
           \E t : /\ Moves(r, t) /\ Reads(t) /\ t.hold \subseteq req[r].hold
                  /\ t.pc \notin {"store", "reread"},
           UNCHANGED <<keyVars, events>>, Stores, Aside
    PROVE  IdentityInv'
BY RequestOnly

\* Everything before the role is synchronised, but for the stored response.
LEMMA TokenKeeps ==
    ASSUME IdentityInv, NEW r \in Request,
           LookUpKey(r) \/ RereadKey(r) \/ CheckToken(r) \/ (FetchKeys(r) /\ Refuse(r))
    PROVE  IdentityInv'
<1>1. UNCHANGED <<keyVars, events>> /\ Stores /\ Aside
  BY DEF LookUpKey, RereadKey, CheckToken, FetchKeys
<1>2. CASE LookUpKey(r)
  <2>1. req[r].pc = "lookup" /\ (Known(r) \/ At(r, "fetch"))
    BY <1>2 DEF LookUpKey
  <2>2. CASE Known(r)
    <3>1. PICK t : Moves(r, t) /\ Reads(t) /\ t.pc = "check" /\ t.hold = {}
      BY <2>1, <2>2, KnownMoves
    <3> QED BY <1>1, <3>1, MoveOnly
  <2>3. CASE At(r, "fetch")
    <3>1. PICK t : Moves(r, t) /\ Reads(t) /\ t.pc = "fetch" /\ t.hold = req[r].hold
      BY <2>1, <2>3, AtMoves DEF Going
    <3> QED BY <1>1, <3>1, MoveOnly
  <2> QED BY <2>1, <2>2, <2>3
<1>3. ASSUME Refuse(r) PROVE IdentityInv'
  <2>1. PICK t : Moves(r, t) /\ Reads(t) /\ t.pc = "refused" /\ t.hold = {}
    BY <1>3, EndMoves DEF Refuse
  <2> QED BY <1>1, <2>1, MoveOnly
<1>4. CASE RereadKey(r)
  <2>1. req[r].pc = "reread" /\ (Known(r) \/ Refuse(r))
    BY <1>4 DEF RereadKey
  <2>2. CASE Known(r)
    <3>1. PICK t : Moves(r, t) /\ Reads(t) /\ t.pc = "check" /\ t.hold = {}
      BY <2>1, <2>2, KnownMoves
    <3> QED BY <1>1, <3>1, MoveOnly
  <2> QED BY <1>3, <2>1, <2>2
<1>5. CASE CheckToken(r)
  <2>1. req[r].pc = "check"
    BY <1>5 DEF CheckToken
  <2>2. CASE Serve(r)
    <3>1. PICK t : Moves(r, t) /\ Reads(t) /\ t.pc = "served" /\ t.hold = {}
      BY <2>1, <2>2, ServeMoves DEF Going
    <3> QED BY <1>1, <3>1, MoveOnly
  <2>3. CASE req[r].role \in Role /\ At(r, "upsert")
    <3>1. PICK t : Moves(r, t) /\ Reads(t) /\ t.pc = "upsert" /\ t.hold = req[r].hold
      BY <2>1, <2>3, AtMoves DEF Going
    <3> QED BY <1>1, <3>1, MoveOnly
  <2> QED BY <1>3, <1>5, <2>2, <2>3 DEF CheckToken
<1> QED BY <1>2, <1>3, <1>4, <1>5

\* The types of a state that a request's step leaves.
LEMMA TypesKept ==
    ASSUME IdentityInv, NEW r \in Request, NEW t, Moves(r, t), Aside,
           UNCHANGED <<published, retired, events>>, cache' \subseteq Key,
           users' \in [User -> Email \cup {NoEmail, Fallback}], fga' \subseteq Tuple,
           stirred' \subseteq User
    PROVE  IdentityTypes'
<1>1. /\ req' \in [Request -> Requests] /\ \A s \in Request : Fits(req'[s])
  BY RequestSlot
<1>2. \A s \in Request : req'[s].pc \in Going \cup {"new", "served", "refused", "done"}
  BY <1>1 DEF Requests
<1>3. TypeOK'
  BY <1>2 DEF IdentityInv, IdentityTypes, TypeOK, Going, Aside
<1>4. \A s \in Request : Fits(req[s])'
  BY <1>1 DEF Fits
<1> QED BY <1>1, <1>3, <1>4 DEF IdentityInv, IdentityTypes, CleanUps, Reports, Aside

\* A response is held back, and then replaces the cache.
LEMMA FetchKeeps ==
    ASSUME IdentityInv, NEW r \in Request, FetchKeys(r)
    PROVE  IdentityInv'
<1>1. CASE Refuse(r)
  BY <1>1, TokenKeeps
<1>2. CASE Set(r, [req[r] EXCEPT !.pc = "store", !.hold = published,
                     !.clear = \A s \in Request : req[s].pc # "store"])
  <2>1. PICK q : q = req[r]
    OBVIOUS
  <2>2. /\ q \in Requests /\ Fits(q) /\ Reads(q) /\ q.pc = "fetch" /\ KeyInv
        /\ published \subseteq Key /\ cache \subseteq Key
        /\ users \in [User -> Email \cup {NoEmail, Fallback}] /\ fga \subseteq Tuple
        /\ stirred \subseteq User
    BY <2>1 DEF IdentityInv, IdentityTypes, ReadInv, FetchKeys, TypeOK
  <2>3. PICK clear \in BOOLEAN : clear <=> \A s \in Request : req[s].pc # "store"
    <3>1. (\A s \in Request : req[s].pc # "store") \in BOOLEAN
      OBVIOUS
    <3> QED BY <3>1
  <2>4. PICK t : t = [q EXCEPT !.pc = "store", !.hold = published, !.clear = clear]
    OBVIOUS
  <2>5. /\ t \in Requests /\ t.pc = "store" /\ t.hold = published /\ t.clear = clear
        /\ t.user = q.user /\ t.role = q.role /\ t.alone = q.alone
        /\ t.read = q.read /\ t.present = q.present
    BY <2>2, <2>4 DEF Requests, Going
  <2>6. Fits(t) /\ Reads(t)
    BY <2>2, <2>5 DEF Fits, Reads, Going
  <2>7. Set(r, t)
    BY <1>2, <2>1, <2>3, <2>4
  <2>8. Moves(r, t)
    BY <2>1, <2>2, <2>5, <2>6, <2>7 DEF Moves, Going
  <2>9. UNCHANGED <<published, retired, cache, events, users, fga, stirred, account, rows, op,
                    overlooked>> /\ Aside
    BY DEF FetchKeys, keyVars, Stores, Aside
  <2>10. /\ req'[r] = t /\ \A s \in Request \ {r} : req'[s] = req[s]
         /\ AloneInv'
    BY <2>8, RequestSlot
  <2>11. KeyInv'
    BY <2>2, <2>3, <2>5, <2>9, <2>10 DEF KeyInv
  <2>12. IdentityTypes'
    BY <2>2, <2>8, <2>9, TypesKept
  <2>13. PlaceholderInv' /\ RowInv' /\ ReportInv'
    BY <2>9, StoresKept
  <2>14. ReadInv'
    BY <2>6, <2>8, <2>9, ReadsKept
  <2> QED BY <2>10, <2>11, <2>12, <2>13, <2>14 DEF IdentityInv
<1> QED BY <1>1, <1>2 DEF FetchKeys

LEMMA StoreKeeps ==
    ASSUME IdentityInv, NEW r \in Request, StoreKeys(r)
    PROVE  IdentityInv'
<1>1. PICK t : /\ Moves(r, t) /\ Reads(t) /\ t.pc = "reread"
               /\ t.hold = req[r].hold /\ t.clear = req[r].clear
  BY AtMoves DEF StoreKeys, Going
<1>2. /\ cache' = req[r].hold /\ req[r].pc = "store" /\ Aside
      /\ UNCHANGED <<published, retired, events, users, fga, stirred, account, rows, op,
                     overlooked>>
  BY DEF StoreKeys, Stores, Aside
<1>3. /\ req'[r] = t /\ \A s \in Request \ {r} : req'[s] = req[s]
      /\ AloneInv'
  BY <1>1, RequestSlot
<1>4. /\ KeyInv /\ req[r].hold \subseteq Key
      /\ users \in [User -> Email \cup {NoEmail, Fallback}] /\ fga \subseteq Tuple
      /\ stirred \subseteq User
  BY DEF IdentityInv, IdentityTypes, Requests, TypeOK
<1>5. KeyInv'
  BY <1>1, <1>2, <1>3, <1>4 DEF KeyInv
<1>6. IdentityTypes'
  BY <1>1, <1>2, <1>4, TypesKept
<1>7. PlaceholderInv' /\ RowInv' /\ ReportInv'
  BY <1>2, StoresKept
<1>8. ReadInv'
  BY <1>1, <1>2, ReadsKept
<1> QED BY <1>3, <1>5, <1>6, <1>7, <1>8 DEF IdentityInv

\* A new request and those it is a rival of stop being alone.
LEMMA ArriveKeeps ==
    ASSUME IdentityInv, NEW r \in Request, Arrive(r)
    PROVE  IdentityInv'
<1>a. PICK u \in Person, x \in (IF hrm THEN Role ELSE {}) \cup {"none"},
           e \in Email \cup {NoEmail}, k \in published \cup retired :
        LET rivals == {s \in Request \ {r} :
                         UnderWay(s) /\ req[s].user = u /\ req[s].role # x}
        IN  req' = [s \in Request |->
               IF s = r
               THEN [NewRequest EXCEPT !.pc = "lookup", !.user = u, !.role = x,
                       !.email = e, !.key = k, !.alone = rivals = {}]
               ELSE [req[s] EXCEPT !.alone = req[s].alone /\ s \notin rivals]]
  BY Zenon DEF Arrive
<1>b. PICK rivals :
        rivals = {s \in Request \ {r} : UnderWay(s) /\ req[s].user = u /\ req[s].role # x}
  OBVIOUS
<1>1. /\ x \in Role \cup {"none"}
      /\ rivals = {s \in Request \ {r} : UnderWay(s) /\ req[s].user = u /\ req[s].role # x}
      /\ req' = [s \in Request |->
            IF s = r
            THEN [NewRequest EXCEPT !.pc = "lookup", !.user = u, !.role = x,
                    !.email = e, !.key = k, !.alone = rivals = {}]
            ELSE [req[s] EXCEPT !.alone = req[s].alone /\ s \notin rivals]]
  BY <1>a, <1>b
<1>2. /\ TypeOK /\ req \in [Request -> Requests] /\ KeyInv /\ AloneInv /\ ReadInv
      /\ \A s \in Request : Fits(req[s])
      /\ UNCHANGED <<published, retired, cache, users, fga, stirred, hrm, account, op,
                     overlooked, granting, rows>>
      /\ events' \in 0..MaxEvents
  <2>1. events' \in 0..MaxEvents
    <3>1. events < MaxEvents /\ events' = events + 1
      BY DEF Arrive, Counted
    <3>2. events \in 0..MaxEvents
      BY DEF IdentityInv, IdentityTypes, TypeOK
    <3> QED BY <3>1, <3>2, IdentityAssumption
  <2> QED BY <2>1 DEF Arrive, keyVars, Stores, Aside, IdentityInv, IdentityTypes
<1>3. PICK alone \in BOOLEAN : alone <=> rivals = {}
  <2>1. (rivals = {}) \in BOOLEAN
    OBVIOUS
  <2> QED BY <2>1
<1>4. PICK t : t = [NewRequest EXCEPT !.pc = "lookup", !.user = u, !.role = x, !.email = e,
                                      !.key = k, !.alone = alone]
  OBVIOUS
<1>5. k \in Key
  BY <1>1, <1>2 DEF TypeOK
<1>6. /\ t \in Requests /\ t.pc = "lookup" /\ t.user = u /\ t.role = x /\ t.alone = alone
      /\ t.hold = {} /\ t.read = {} /\ t.present = {}
  BY <1>4, <1>5 DEF Requests, NewRequest, Going
<1>7. req'[r] = t
  BY <1>1, <1>3, <1>4
<1>8. ASSUME NEW s \in Request \ {r}
      PROVE  /\ req'[s] \in Requests /\ req'[s].pc = req[s].pc
             /\ req'[s].user = req[s].user /\ req'[s].role = req[s].role
             /\ req'[s].hold = req[s].hold /\ req'[s].clear = req[s].clear
             /\ req'[s].read = req[s].read /\ req'[s].present = req[s].present
             /\ req'[s].alone = (req[s].alone /\ s \notin rivals)
             /\ req'[s].alone => req[s].alone /\ s \notin rivals
  <2>1. PICK q : q = req[s]
    OBVIOUS
  <2>2. PICK b \in BOOLEAN : b = (q.alone /\ s \notin rivals)
    <3>1. (q.alone /\ s \notin rivals) \in BOOLEAN
      OBVIOUS
    <3> QED BY <3>1
  <2>3. q \in Requests
    BY <1>2, <2>1
  <2>4. req'[s] = [q EXCEPT !.alone = b]
    BY <1>1, <2>1, <2>2
  <2>5. PICK p : p = [q EXCEPT !.alone = b]
    OBVIOUS
  <2>6. /\ p \in Requests /\ p.pc = q.pc /\ p.user = q.user /\ p.role = q.role
        /\ p.hold = q.hold /\ p.clear = q.clear /\ p.read = q.read /\ p.present = q.present
        /\ p.alone = b
    BY <2>3, <2>5 DEF Requests
  <2> QED BY <2>1, <2>2, <2>4, <2>5, <2>6
<1>9. req' \in [Request -> Requests]
  <2>1. \A s \in Request : req'[s] \in Requests
    BY <1>6, <1>7, <1>8
  <2>2. DOMAIN req' = Request /\ req' = [s \in Request |-> req'[s]]
    BY <1>1
  <2> QED BY <2>1, <2>2
<1>10. \A s \in Request : Fits(req[s])'
  BY <1>2, <1>6, <1>7, <1>8 DEF Fits
<1>11. KeyInv'
  BY <1>2, <1>6, <1>7, <1>8 DEF KeyInv
<1>12. \A s \in Request : req[s].pc \in Going => UnderWay(s)
  BY DEF UnderWay, Going
<1>13. AloneInv'
  <2>1. ASSUME NEW a \in Request, NEW b \in Request,
               req'[a].pc \in Going, req'[b].pc \in Going,
               req'[a].user = req'[b].user, req'[a].role # req'[b].role
        PROVE  ~req'[a].alone
    <3>1. CASE a = r
      <4>1. b \in rivals
        BY <1>1, <1>6, <1>7, <1>8, <1>12, <2>1, <3>1
      <4> QED BY <1>3, <1>6, <1>7, <3>1, <4>1
    <3>2. CASE a # r /\ b = r
      <4>1. a \in rivals
        BY <1>1, <1>6, <1>7, <1>8, <1>12, <2>1, <3>2
      <4> QED BY <1>8, <3>2, <4>1
    <3>3. CASE a # r /\ b # r
      BY <1>2, <1>8, <2>1, <3>3 DEF AloneInv
    <3> QED BY <3>1, <3>2, <3>3
  <2> QED BY <2>1 DEF AloneInv
<1>14. ReadInv'
  <2>1. ASSUME NEW s \in Request PROVE Reads(req[s])'
    <3>1. CASE s = r
      BY <1>6, <1>7, <3>1 DEF Reads
    <3>2. CASE s # r
      <4>1. Reads(req[s])
        BY <1>2 DEF ReadInv
      <4> QED BY <1>2, <1>8, <3>2, <4>1 DEF Reads
    <3> QED BY <3>1, <3>2
  <2> QED BY <2>1 DEF ReadInv
<1>15. IdentityTypes'
  <2>1. \A s \in Request : req'[s].pc \in Going \cup {"new", "served", "refused", "done"}
    BY <1>9 DEF Requests
  <2>2. TypeOK'
    BY <1>2, <2>1 DEF TypeOK, Going
  <2> QED BY <1>2, <1>9, <1>10, <2>2 DEF IdentityInv, IdentityTypes, CleanUps, Reports
<1>16. PlaceholderInv' /\ RowInv' /\ ReportInv'
  BY <1>2, StoresKept
<1> QED BY <1>11, <1>13, <1>14, <1>15, <1>16 DEF IdentityInv

\* A key that was never published is in no response.
LEMMA PublishKeeps ==
    ASSUME IdentityInv, NEW k \in Key, PublishKey(k) \/ WithdrawKey(k)
    PROVE  IdentityInv'
<1>1. /\ published' \cup retired' = published \cup retired \cup {k}
      /\ published' \subseteq published \cup {k}
      /\ k \in published' => k \notin published \cup retired \/ k \in published
      /\ published' \subseteq Key /\ retired' \subseteq Key
      /\ UNCHANGED <<cache, req, users, fga, stirred, hrm, account, op, overlooked, granting, rows>>
      /\ events' \in 0..MaxEvents
  BY IdentityAssumption DEF PublishKey, WithdrawKey, Counted, Stores, Aside, IdentityInv,
     IdentityTypes, TypeOK
<1>2. KeyInv'
  <2>1. KeyInv
    BY DEF IdentityInv
  <2>2. ASSUME NEW r \in Request
        PROVE  /\ req[r].hold \subseteq published' \cup retired'
               /\ req[r].hold \cap published' \subseteq req[r].hold \cap published
    BY <1>1, <2>1 DEF KeyInv
  <2> QED BY <1>1, <2>1, <2>2 DEF KeyInv
<1>3. AloneInv' /\ ReadInv'
  BY <1>1 DEF IdentityInv, AloneInv, ReadInv, Reads
<1>4. IdentityTypes'
  <2>1. TypeOK'
    BY <1>1 DEF IdentityInv, IdentityTypes, TypeOK
  <2> QED BY <1>1, <2>1 DEF IdentityInv, IdentityTypes, Fits, CleanUps, Reports
<1>5. PlaceholderInv' /\ RowInv' /\ ReportInv'
  BY <1>1, StoresKept
<1> QED BY <1>2, <1>3, <1>4, <1>5 DEF IdentityInv

-----------------------------------------------------------------------------
(* Provisioning, and the user's own synchronisation *)

LEMMA UpsertKeeps ==
    ASSUME IdentityInv, NEW r \in Request, UpsertHrmUser(r)
    PROVE  IdentityInv'
<1>0. /\ req[r].pc = "upsert" /\ UNCHANGED <<keyVars, events>> /\ Aside
      /\ req[r] \in Requests /\ Fits(req[r])
      /\ users \in [User -> Email \cup {NoEmail, Fallback}] /\ fga \subseteq Tuple
      /\ cache \subseteq Key
  BY DEF UpsertHrmUser, IdentityInv, IdentityTypes, TypeOK
<1>1. CASE Refuse(r) /\ Stores
  <2>1. PICK t : Moves(r, t) /\ Reads(t) /\ t.pc = "refused" /\ t.hold = {}
    BY <1>1, EndMoves DEF Refuse
  <2> QED BY <1>0, <1>1, <2>1, MoveOnly
<1>2. CASE /\ users' = [users EXCEPT ![req[r].user] = Stored(req[r].user, req[r].email)]
           /\ Stir({req[r].user}) /\ At(r, "read") /\ UNCHANGED fga
  <2>1. PICK t : Moves(r, t) /\ Reads(t) /\ t.pc = "read" /\ t.hold = req[r].hold
    BY <1>0, <1>2, AtMoves DEF Going, Fits
  <2>2. PICK u \in Person : u = req[r].user
    BY <1>0 DEF Fits, Going
  <2>3. PICK e \in Email \cup {Fallback} : e = Stored(u, req[r].email)
    <3>1. u \in User /\ req[r].email \in Email \cup {NoEmail}
      BY <1>0, <2>2, People DEF Requests
    <3> QED BY <1>0, <3>1, People DEF Stored
  <2>4. /\ users' \in [User -> Email \cup {NoEmail, Fallback}]
        /\ users'[u] # NoEmail /\ \A v \in User \ {u} : users'[v] = users[v]
    BY <1>0, <1>2, <2>2, <2>3, People
  <2>5. /\ UNCHANGED <<published, retired, cache, events, account, rows, op, overlooked, fga>>
        /\ Stir({u})
    BY <1>0, <1>2, <2>2 DEF keyVars, Aside
  <2>6. PlaceholderInv' /\ RowInv' /\ ReportInv' /\ stirred' \subseteq User
    BY <1>0, <2>4, <2>5, PersonStirred
  <2>7. KeyInv' /\ ReadInv' /\ AloneInv'
    BY <1>0, <2>1, <2>5, KeysKept, ReadsKept, RequestSlot
  <2>8. IdentityTypes'
    BY <1>0, <2>1, <2>4, <2>5, <2>6, TypesKept
  <2> QED BY <2>6, <2>7, <2>8 DEF IdentityInv
<1> QED BY <1>1, <1>2 DEF UpsertHrmUser

LEMMA ReadKeeps ==
    ASSUME IdentityInv, NEW r \in Request, ReadRelation(r)
    PROVE  IdentityInv'
<1>0. /\ req[r].pc = "read" /\ UNCHANGED <<keyVars, events>> /\ Stores /\ Aside
  BY DEF ReadRelation
<1>1. CASE Refuse(r)
  <2>1. PICK t : Moves(r, t) /\ Reads(t) /\ t.pc = "refused" /\ t.hold = {}
    BY <1>1, EndMoves DEF Refuse
  <2> QED BY <1>0, <2>1, MoveOnly
<1>2. CASE ~Refuse(r)
  <2>1. PICK q : q = req[r]
    OBVIOUS
  <2>2. q \in Requests /\ Fits(q) /\ Reads(q) /\ q.pc = "read"
    BY <1>0, <2>1 DEF IdentityInv, IdentityTypes, ReadInv
  <2>3. PICK x \in Role \ q.read :
          Set(r, [q EXCEPT !.pc = IF q.read \cup {x} = Role THEN "write" ELSE "read",
                           !.read = q.read \cup {x},
                           !.present = q.present \cup ({x} \cap Roles(q.user))])
    BY <1>2, <2>1 DEF ReadRelation
  <2>4. PICK pc \in {"read", "write"} :
          pc = (IF q.read \cup {x} = Role THEN "write" ELSE "read")
    OBVIOUS
  <2>5. PICK read : read = q.read \cup {x}
    OBVIOUS
  <2>6. PICK present : present = q.present \cup ({x} \cap Roles(q.user))
    OBVIOUS
  <2>7. PICK t : t = [q EXCEPT !.pc = pc, !.read = read, !.present = present]
    OBVIOUS
  <2>8. Set(r, t)
    BY <2>3, <2>4, <2>5, <2>6, <2>7
  <2>9. read \subseteq Role /\ present \subseteq Role /\ present \subseteq read
    BY <2>2, <2>5, <2>6 DEF Requests, Reads
  <2>10. /\ t \in Requests /\ t.pc = pc /\ t.hold = q.hold
         /\ t.user = q.user /\ t.role = q.role /\ t.alone = q.alone
         /\ t.read = read /\ t.present = present
    BY <2>2, <2>7, <2>9 DEF Requests, Going
  <2>11. Fits(t)
    BY <2>2, <2>10 DEF Fits, Going
  <2>12. x \in present <=> <<q.user, x>> \in fga
    BY <2>2, <2>6 DEF Roles, Reads
  <2>13. \A y \in q.read : y \in present <=> y \in q.present
    BY <2>3, <2>6
  <2>14. Reads(t)
    BY <2>2, <2>4, <2>5, <2>9, <2>10, <2>12, <2>13 DEF Reads, Going
  <2>15. Moves(r, t)
    BY <2>1, <2>2, <2>8, <2>10, <2>11 DEF Moves, Going
  <2> QED BY <1>0, <2>1, <2>4, <2>10, <2>14, <2>15, MoveOnly
<1> QED BY <1>1, <1>2

\* The write of one request is what the others of its user that are alone expect:
\* they have the same role.
LEMMA SyncKeeps ==
    ASSUME IdentityInv, NEW r \in Request, SyncTuples(r)
    PROVE  IdentityInv'
<1>0. /\ req[r].pc = "write" /\ UNCHANGED <<keyVars, users, events>> /\ Aside
      /\ req[r] \in Requests /\ Fits(req[r]) /\ Reads(req[r])
      /\ users \in [User -> Email \cup {NoEmail, Fallback}] /\ fga \subseteq Tuple
      /\ cache \subseteq Key
  BY DEF SyncTuples, IdentityInv, IdentityTypes, TypeOK, ReadInv
<1>1. PICK t : /\ Moves(r, t) /\ Reads(t) /\ t.pc \in {"served", "refused"} /\ t.hold = {}
  <2>1. Serve(r) \/ Refuse(r)
    BY DEF SyncTuples
  <2> QED BY <1>0, <2>1, ServeMoves, EndMoves DEF Going, Refuse
<1>2. CASE UNCHANGED <<fga, stirred>>
  <2>1. Stores
    BY <1>0, <1>2 DEF Stores
  <2> QED BY <1>0, <1>1, <2>1, MoveOnly
<1>3. CASE /\ fga' = (fga \ ({req[r].user} \X Plan(r).remove)) \cup ({req[r].user} \X Plan(r).add)
           /\ Stir({req[r].user})
  <2>1. PICK u \in Person : u = req[r].user
    BY <1>0 DEF Fits, Going
  <2>2. PICK x \in Role : x = req[r].role
    BY <1>0 DEF Fits
  <2>3. PICK add : add = Plan(r).add
    OBVIOUS
  <2>4. PICK remove : remove = Plan(r).remove
    OBVIOUS
  <2>5. add \subseteq {x} /\ remove \subseteq Role \ {x}
    BY <1>0, <2>2, <2>3, <2>4 DEF Plan, Requests
  <2>6. fga' = (fga \ ({u} \X remove)) \cup ({u} \X add)
    BY <1>3, <2>1, <2>3, <2>4
  <2>7. fga' \subseteq Tuple
    BY <1>0, <2>5, <2>6, People DEF Tuple, Relation
  <2>8. \A s \in Tuple : s[1] # u => (s \in fga' <=> s \in fga)
    BY <2>6
  <2>9. /\ UNCHANGED <<published, retired, cache, events, account, rows, op, overlooked, users>>
        /\ Stir({u})
    BY <1>0, <1>3, <2>1 DEF keyVars, Aside
  <2>10. PlaceholderInv' /\ RowInv' /\ ReportInv' /\ stirred' \subseteq User
    BY <2>7, <2>8, <2>9, PersonStirred
  <2>11. KeyInv' /\ AloneInv'
    BY <1>0, <1>1, KeysKept, RequestSlot
  <2>12. IdentityTypes'
    BY <1>0, <1>1, <2>7, <2>9, <2>10, TypesKept
  <2>13. req'[r] = t /\ \A s \in Request \ {r} : req'[s] = req[s]
    BY <1>1, RequestSlot
  <2>14. ASSUME NEW s \in Request PROVE Reads(req[s])'
    <3>1. CASE s = r
      BY <1>1, <2>13, <3>1 DEF Reads, Going
    <3>2. CASE s # r
      <4>1. PICK q : q = req[s]
        OBVIOUS
      <4>2. q \in Requests /\ Fits(q) /\ Reads(q) /\ req'[s] = q
        BY <2>13, <3>2, <4>1 DEF IdentityInv, IdentityTypes, ReadInv
      <4>3. ASSUME q.pc \in Going, q.alone, NEW y \in q.read
            PROVE  /\ y # q.role /\ y \notin q.present => <<q.user, y>> \notin fga'
                   /\ y = q.role /\ y \in q.present => <<q.user, y>> \in fga'
        <5>1. /\ y # q.role /\ y \notin q.present => <<q.user, y>> \notin fga
              /\ y = q.role /\ y \in q.present => <<q.user, y>> \in fga
          BY <4>2, <4>3 DEF Reads
        <5>2. CASE q.user # u
          BY <2>6, <5>1, <5>2
        <5>3. CASE q.user = u
          <6>1. q.role = x
            BY <1>0, <2>1, <2>2, <4>1, <4>3, <5>3 DEF IdentityInv, AloneInv, Going
          <6> QED BY <2>5, <2>6, <5>1, <5>3, <6>1
        <5> QED BY <5>2, <5>3
      <4>4. /\ q.present \subseteq q.read
            /\ q.pc = "write" => q.read = Role
        BY <4>2 DEF Reads
      <4> QED BY <4>2, <4>3, <4>4 DEF Reads
    <3> QED BY <3>1, <3>2
  <2>15. ReadInv'
    BY <2>14 DEF ReadInv
  <2> QED BY <2>10, <2>11, <2>12, <2>15 DEF IdentityInv
<1> QED BY <1>2, <1>3 DEF SyncTuples

LEMMA SyncUserKeeps ==
    ASSUME IdentityInv, NEW r \in Request, SyncCurrentUser(r)
    PROVE  IdentityInv'
<1>0. /\ req[r].pc = "served" /\ req[r].email # NoEmail /\ End(r, "done")
      /\ UNCHANGED <<keyVars, events>> /\ Aside
      /\ req[r] \in Requests /\ Fits(req[r])
      /\ users \in [User -> Email \cup {NoEmail, Fallback}] /\ fga \subseteq Tuple
      /\ cache \subseteq Key
  BY DEF SyncCurrentUser, IdentityInv, IdentityTypes, TypeOK
<1>1. PICK t : Moves(r, t) /\ Reads(t) /\ t.pc = "done" /\ t.hold = {}
  BY <1>0, EndMoves
<1>2. CASE Stores
  BY <1>0, <1>1, <1>2, MoveOnly
<1>3. CASE /\ users' = [users EXCEPT ![req[r].user] = req[r].email]
           /\ Stir({req[r].user}) /\ UNCHANGED fga
  <2>1. PICK u \in Person : u = req[r].user
    BY <1>0 DEF Fits
  <2>2. PICK e \in Email : e = req[r].email
    BY <1>0 DEF Requests
  <2>3. /\ users' \in [User -> Email \cup {NoEmail, Fallback}]
        /\ users'[u] # NoEmail /\ \A v \in User \ {u} : users'[v] = users[v]
    BY <1>0, <1>3, <2>1, <2>2, People
  <2>4. /\ UNCHANGED <<published, retired, cache, events, account, rows, op, overlooked, fga>>
        /\ Stir({u})
    BY <1>0, <1>3, <2>1 DEF keyVars, Aside
  <2>5. PlaceholderInv' /\ RowInv' /\ ReportInv' /\ stirred' \subseteq User
    BY <1>0, <2>3, <2>4, PersonStirred
  <2>6. KeyInv' /\ ReadInv' /\ AloneInv'
    BY <1>0, <1>1, <2>4, KeysKept, ReadsKept, RequestSlot
  <2>7. IdentityTypes'
    BY <1>0, <1>1, <2>3, <2>4, <2>5, TypesKept
  <2> QED BY <2>5, <2>6, <2>7 DEF IdentityInv
<1> QED BY <1>2, <1>3 DEF SyncCurrentUser

-----------------------------------------------------------------------------
(* Documents shared with a user *)

\* A step that concerns no request and no key.
LEMMA RequestsKept ==
    ASSUME IdentityInv, UNCHANGED <<keyVars, req, hrm>>, TypeOK',
           op' \in {NoCommand} \cup CleanUps \cup Reports,
           \A u \in Person, x \in Role : <<u, x>> \in fga' <=> <<u, x>> \in fga,
           PlaceholderInv', RowInv', ReportInv'
    PROVE  IdentityInv'
<1>0. UNCHANGED <<published, retired, cache, req>> /\ req \in [Request -> Requests]
  BY DEF keyVars, IdentityInv, IdentityTypes
<1>1. KeyInv' /\ AloneInv'
  BY <1>0 DEF IdentityInv, KeyInv, AloneInv
<1>2. IdentityTypes'
  BY <1>0 DEF IdentityInv, IdentityTypes, Fits, CleanUps, Reports
<1>3. ASSUME NEW r \in Request PROVE Reads(req[r])'
  <2>1. PICK q : q = req[r]
    OBVIOUS
  <2>2. q \in Requests /\ Fits(q) /\ Reads(q) /\ req'[r] = q
    BY <1>0, <2>1 DEF IdentityInv, IdentityTypes, ReadInv
  <2>3. q.read \subseteq Role /\ (q.pc \in Going => q.user \in Person)
    BY <2>2 DEF Requests, Fits
  <2> QED BY <2>2, <2>3 DEF Reads
<1>4. ReadInv'
  BY <1>3 DEF ReadInv
<1> QED BY <1>1, <1>2, <1>4 DEF IdentityInv

\* The step changes the data of one user, and the report in progress knows.
LEMMA UserStirred ==
    ASSUME IdentityInv, UNCHANGED <<users, account, op>>, NEW u \in User, Stir({u}),
           \A t \in Tuple : t[1] # u => (t \in fga' <=> t \in fga) /\ (t \in rows' <=> t \in rows),
           fga' \subseteq Tuple, rows' \subseteq Tuple
    PROVE  ReportInv' /\ stirred' \subseteq User
<1>0. /\ ReportInv /\ fga \subseteq Tuple /\ rows \subseteq Tuple /\ stirred \subseteq User
      /\ op \in {NoCommand} \cup CleanUps \cup Reports
  BY DEF IdentityInv, IdentityTypes, TypeOK
<1>1. ASSUME NEW v \in User PROVE UserInv(v)'
  <2>1. CASE v = u
    BY <2>1 DEF UserInv, Stir
  <2>2. CASE v # u
    <3>1. UserInv(v)
      BY <1>0 DEF ReportInv
    <3>2. op.pc = "report" /\ v \notin stirred' => v \notin stirred
      BY <2>2 DEF Stir
    <3>3. \A t \in Tuple : t[1] = v => (Holds(t[1], t[2])' <=> Holds(t[1], t[2]))
      <4>1. ASSUME NEW x PROVE <<v, x>> \in fga' <=> <<v, x>> \in fga
        <5>1. <<v, x>>[1] = v
          OBVIOUS
        <5> QED BY <1>0, <2>2, <5>1
      <4> QED BY <4>1 DEF Holds
    <3>4. \A t : t \in fga' /\ t[1] = v => t \in fga
      BY <1>0, <2>2
    <3>5. \A t \in Tuple : t[1] = v => (t \in rows' <=> t \in rows)
      BY <2>2
    <3>6. Silent(v)' <=> Silent(v)
      BY DEF Silent
    <3>7. op.pc = "report" => op.expected \subseteq Tuple
      BY <1>0 DEF Reports, CleanUps, NoCommand
    <3> QED BY <3>1, <3>2, <3>3, <3>4, <3>5, <3>6, <3>7 DEF UserInv
  <2> QED BY <2>1, <2>2
<1>2. stirred' \subseteq User
  BY <1>0 DEF Stir
<1> QED BY <1>1, <1>2 DEF ReportInv

LEMMA ShareRowKeeps ==
    ASSUME IdentityInv, NEW u \in User, ShareRow(u)
    PROVE  IdentityInv'
<1>1. /\ users[u] # NoEmail /\ rows' = rows \cup {<<u, "viewer">>} /\ granting' = granting \cup {u}
      /\ Stir({u}) /\ UNCHANGED <<hrm, keyVars, account, users, fga, req, op, overlooked>>
  BY DEF ShareRow
<1>2. events' \in 0..MaxEvents
  <2>1. events < MaxEvents /\ events' = events + 1
    BY DEF ShareRow, Counted
  <2>2. events \in 0..MaxEvents
    BY DEF IdentityInv, IdentityTypes, TypeOK
  <2> QED BY <2>1, <2>2, IdentityAssumption
<1>3. /\ rows' \subseteq Tuple /\ fga \subseteq Tuple /\ PlaceholderInv /\ RowInv
      /\ op \in {NoCommand} \cup CleanUps \cup Reports
  BY <1>1 DEF Tuple, Relation, IdentityInv, IdentityTypes, TypeOK
<1>4. ReportInv' /\ stirred' \subseteq User
  BY <1>1, <1>3, UserStirred
<1>5. PlaceholderInv'
  BY <1>1, <1>3 DEF PlaceholderInv, GuestInv, TuplesOf
<1>6. RowInv'
  BY <1>1, <1>3 DEF RowInv
<1>7. TypeOK'
  BY <1>1, <1>2, <1>3, <1>4 DEF IdentityInv, IdentityTypes, TypeOK, keyVars
<1> QED BY <1>1, <1>3, <1>4, <1>5, <1>6, <1>7, RequestsKept DEF CleanUps, Reports

\* A tuple written for a placeholder that is gone, or whose tuples are collected,
\* makes it one the clean-up overlooked.
LEMMA ShareTupleKeeps ==
    ASSUME IdentityInv, NEW u \in User, ShareTuple(u)
    PROVE  IdentityInv'
<1>0. /\ TypeOK /\ PlaceholderInv /\ RowInv /\ op \in {NoCommand} \cup CleanUps \cup Reports
      /\ fga \subseteq Tuple /\ rows \subseteq Tuple
  BY DEF IdentityInv, IdentityTypes, TypeOK
<1>1. /\ granting' = granting \ {u} /\ Stir({u})
      /\ UNCHANGED <<hrm, keyVars, account, users, req, op, events>>
      /\ \/ /\ fga' = fga \cup {<<u, "viewer">>}
            /\ overlooked' = overlooked \cup
                 {g \in {u} \cap Guest : Collected(g) \/ users[g] = NoEmail}
            /\ UNCHANGED rows
         \/ /\ rows' \in {rows, rows \ {<<u, "viewer">>}}
            /\ UNCHANGED <<fga, overlooked>>
  BY DEF ShareTuple
<1>2. /\ rows' \subseteq rows /\ fga \subseteq fga' /\ fga' \subseteq fga \cup {<<u, "viewer">>}
      /\ fga' \subseteq Tuple /\ rows' \subseteq Tuple
      /\ \A t \in rows : t # <<u, "viewer">> => t \in rows'
      /\ overlooked \subseteq overlooked' /\ overlooked' \subseteq Guest
  BY <1>0, <1>1 DEF Tuple, Relation, TypeOK
<1>3. ReportInv' /\ stirred' \subseteq User
  <2>1. <<u, "viewer">>[1] = u
    OBVIOUS
  <2>2. \A t \in Tuple : t[1] # u => (t \in fga' <=> t \in fga) /\ (t \in rows' <=> t \in rows)
    BY <1>2, <2>1
  <2> QED BY <1>1, <1>2, <2>2, UserStirred
<1>4. ASSUME NEW g \in Guest \ overlooked' PROVE GuestInv(g)'
  <2>1. GuestInv(g)
    BY <1>0, <1>2 DEF PlaceholderInv
  <2>2. CASE fga' = fga \/ g # u
    <3>1. TuplesOf(g)' = TuplesOf(g)
      BY <1>2, <2>2 DEF TuplesOf
    <3> QED BY <1>1, <2>1, <3>1 DEF GuestInv
  <2>3. CASE fga' # fga /\ g = u
    <3>1. ~Collected(g) /\ users[g] # NoEmail
      BY <1>1, <2>3
    <3>2. TuplesOf(g)' \subseteq TuplesOf(g) \cup {<<g, "viewer">>}
      BY <1>2, <2>3 DEF TuplesOf
    <3>3. op.pc \in {"collect", "tuples"} /\ g \notin op.todo => <<g, "viewer">> \in op.plan
      BY <3>1 DEF Collected
    <3> QED BY <1>1, <2>1, <3>1, <3>2, <3>3 DEF GuestInv
  <2> QED BY <2>2, <2>3
<1>5. PlaceholderInv'
  BY <1>0, <1>1, <1>4 DEF PlaceholderInv
<1>6. RowInv'
  BY <1>0, <1>1, <1>2 DEF RowInv
<1>7. TypeOK'
  BY <1>0, <1>1, <1>2, <1>3 DEF TypeOK, keyVars
<1>8. \A v \in Person, x \in Role : <<v, x>> \in fga' <=> <<v, x>> \in fga
  BY <1>2 DEF Role
<1> QED BY <1>0, <1>1, <1>3, <1>5, <1>6, <1>7, <1>8, RequestsKept DEF CleanUps, Reports

-----------------------------------------------------------------------------
(* The clean-up of placeholders *)

\* No report is in progress while a clean-up is.
LEMMA NoReport ==
    ASSUME op'.pc # "report"
    PROVE  ReportInv'
BY DEF ReportInv, UserInv

LEMMA StartCleanupKeeps ==
    ASSUME IdentityInv, StartCleanup
    PROVE  IdentityInv'
<1>1. PICK c : c = [pc |-> "collect", todo |-> Placeholders, left |-> Placeholders,
                    plan |-> {}, hand |-> Nobody]
  OBVIOUS
<1>2. /\ op' = c /\ UNCHANGED <<users, rows, fga, overlooked, stirred>> /\ Kept
      /\ UNCHANGED <<keyVars, req, hrm>>
  BY <1>1 DEF StartCleanup, Kept
<1>3. c \in CleanUps /\ c.pc = "collect" /\ c.left = Placeholders /\ c.todo = Placeholders
  BY <1>1 DEF CleanUps, Placeholders
<1>4. events' \in 0..MaxEvents
  <2>1. events < MaxEvents /\ events' = events + 1
    BY DEF StartCleanup, Free, Counted
  <2>2. events \in 0..MaxEvents
    BY DEF IdentityInv, IdentityTypes, TypeOK
  <2> QED BY <2>1, <2>2, IdentityAssumption
<1>5. PlaceholderInv'
  BY <1>2, <1>3 DEF IdentityInv, PlaceholderInv, GuestInv, TuplesOf
<1>6. RowInv'
  BY <1>2 DEF IdentityInv, RowInv
<1>7. ReportInv'
  BY <1>2, <1>3, NoReport
<1>8. TypeOK'
  BY <1>2, <1>3, <1>4 DEF IdentityInv, IdentityTypes, TypeOK, keyVars, Kept
<1> QED BY <1>2, <1>3, <1>5, <1>6, <1>7, <1>8, RequestsKept

\* All of a placeholder's tuples are collected, or it is overlooked.
LEMMA CollectKeeps ==
    ASSUME IdentityInv, NEW g \in Guest, Collect(g)
    PROVE  IdentityInv'
<1>0. /\ TypeOK /\ PlaceholderInv /\ RowInv /\ op.pc = "collect" /\ g \in op.todo
      /\ op \in {NoCommand} \cup CleanUps \cup Reports /\ fga \subseteq Tuple /\ rows \subseteq Tuple
      /\ UNCHANGED <<users, rows, fga, events, stirred, keyVars, req, hrm, account, granting>>
  BY DEF Collect, Kept, IdentityInv, IdentityTypes, TypeOK
<1>1. op \in CleanUps
  BY <1>0 DEF CleanUps, Reports, NoCommand
<1>a. PICK answered \in SUBSET Relation :
        LET listed == {<<g, x>> : x \in {x \in answered : Holds(g, x)}}
            plan == op.plan \cup RowTuples(g) \cup listed
        IN  /\ op' = [op EXCEPT !.todo = op.todo \ {g}, !.plan = plan,
                                !.pc = IF op.todo = {g} THEN "tuples" ELSE "collect"]
            /\ overlooked' = overlooked \cup {h \in {g} : ~(TuplesOf(h) \subseteq plan)}
  BY Zenon DEF Collect
<1>b. PICK listed : listed = {<<g, x>> : x \in {x \in answered : Holds(g, x)}}
  OBVIOUS
<1>c. PICK plan : plan = op.plan \cup RowTuples(g) \cup listed
  OBVIOUS
<1>2. /\ listed = {<<g, x>> : x \in {x \in answered : Holds(g, x)}}
      /\ plan = op.plan \cup RowTuples(g) \cup listed
      /\ op' = [op EXCEPT !.todo = op.todo \ {g}, !.plan = plan,
                          !.pc = IF op.todo = {g} THEN "tuples" ELSE "collect"]
      /\ overlooked' = overlooked \cup {h \in {g} : ~(TuplesOf(h) \subseteq plan)}
  BY <1>a, <1>b, <1>c
<1>3. PICK pc \in {"tuples", "collect"} : pc = IF op.todo = {g} THEN "tuples" ELSE "collect"
  OBVIOUS
<1>4. PICK c : c = [op EXCEPT !.todo = op.todo \ {g}, !.plan = plan, !.pc = pc]
  OBVIOUS
<1>5. op' = c
  BY <1>2, <1>3, <1>4
<1>6. plan \subseteq Tuple
  <2>1. RowTuples(g) \subseteq Tuple
    BY <1>0, People DEF RowTuples, Tuple, Relation
  <2>2. listed \subseteq Tuple
    BY <1>2, People DEF Tuple
  <2> QED BY <1>1, <1>2, <2>1, <2>2 DEF CleanUps
<1>7. /\ c \in CleanUps /\ c.pc = pc /\ c.todo = op.todo \ {g} /\ c.left = op.left /\ c.plan = plan
  BY <1>1, <1>4, <1>6 DEF CleanUps
<1>8. ASSUME NEW h \in Guest \ overlooked' PROVE GuestInv(h)'
  <2>1. GuestInv(h) /\ TuplesOf(h)' = TuplesOf(h)
    BY <1>0, <1>2 DEF PlaceholderInv, TuplesOf
  <2>2. h = g => TuplesOf(h) \subseteq plan
    BY <1>2
  <2>3. op.plan \subseteq plan
    BY <1>2
  <2> QED BY <1>0, <1>5, <1>7, <2>1, <2>2, <2>3 DEF GuestInv
<1>9. PlaceholderInv'
  <2>1. pc = "tuples" => op.todo \ {g} = {}
    BY <1>3
  <2> QED BY <1>5, <1>7, <1>8, <2>1 DEF PlaceholderInv
<1>10. RowInv'
  BY <1>0 DEF RowInv
<1>11. ReportInv'
  BY <1>5, <1>7, NoReport
<1>12. TypeOK'
  BY <1>0, <1>2, <1>5, <1>7 DEF TypeOK, keyVars
<1> QED BY <1>0, <1>5, <1>7, <1>9, <1>10, <1>11, <1>12, RequestsKept

\* What is left of the command once it is done with a placeholder.
LEMMA WithoutType ==
    ASSUME op \in CleanUps, NEW g \in Guest, NEW c, c = Without(g)
    PROVE  /\ c \in CleanUps /\ c.pc = op.pc /\ c.todo = op.todo /\ c.left = op.left \ {g}
           /\ c.plan = {t \in op.plan : t[1] # g}
<1>1. PICK left : left = op.left \ {g}
  OBVIOUS
<1>2. PICK plan : plan = {t \in op.plan : t[1] # g}
  OBVIOUS
<1>3. left \subseteq Guest /\ plan \subseteq Tuple
  BY <1>1, <1>2 DEF CleanUps
<1>4. c = [op EXCEPT !.left = left, !.hand = Nobody, !.plan = plan]
  BY <1>1, <1>2 DEF Without
<1>5. c \in CleanUps /\ c.pc = op.pc /\ c.todo = op.todo /\ c.left = left /\ c.plan = plan
  BY <1>3, <1>4 DEF CleanUps
<1> QED BY <1>1, <1>2, <1>5

\* A tuple is taken from OpenFGA and from the plan together.
LEMMA DeleteTupleKeeps ==
    ASSUME IdentityInv, NEW g \in Guest, DeleteTuple(g)
    PROVE  IdentityInv'
<1>0. /\ TypeOK /\ PlaceholderInv /\ RowInv /\ op.pc = "tuples" /\ op \in CleanUps
      /\ fga \subseteq Tuple
      /\ UNCHANGED <<users, rows, events, overlooked, stirred, keyVars, req, hrm, account, granting>>
  BY DEF DeleteTuple, InHand, Kept, IdentityInv, IdentityTypes, TypeOK, CleanUps, Reports, NoCommand
<1>1. PICK t \in op.plan :
        /\ t[1] = g
        /\ \/ fga' = fga \ {t} /\ op' = [op EXCEPT !.hand = g, !.plan = op.plan \ {t}]
           \/ op' = Without(g) /\ UNCHANGED fga
  BY DEF DeleteTuple, AfterError
<1>2. /\ op' \in CleanUps /\ op'.pc = "tuples" /\ op'.todo = op.todo /\ op'.left \subseteq op.left
      /\ fga' \subseteq fga
      /\ \A h \in Guest : h \in op'.left =>
            (TuplesOf(h) \subseteq op.plan => TuplesOf(h)' \subseteq op'.plan)
  <2>1. CASE fga' = fga \ {t} /\ op' = [op EXCEPT !.hand = g, !.plan = op.plan \ {t}]
    <3>1. PICK c : c = [op EXCEPT !.hand = g, !.plan = op.plan \ {t}]
      OBVIOUS
    <3>2. /\ c \in CleanUps /\ c.pc = op.pc /\ c.todo = op.todo /\ c.left = op.left
          /\ c.plan = op.plan \ {t}
      BY <1>0, <3>1 DEF CleanUps
    <3> QED BY <1>0, <2>1, <3>1, <3>2 DEF TuplesOf
  <2>2. CASE op' = Without(g) /\ UNCHANGED fga
    <3>1. PICK c : c = Without(g)
      OBVIOUS
    <3>2. /\ c \in CleanUps /\ c.pc = op.pc /\ c.todo = op.todo /\ c.left = op.left \ {g}
          /\ c.plan = {s \in op.plan : s[1] # g}
      BY <1>0, <3>1, WithoutType
    <3> QED BY <1>0, <2>2, <3>1, <3>2 DEF TuplesOf
  <2> QED BY <1>1, <2>1, <2>2
<1>3. PlaceholderInv'
  <2>1. ASSUME NEW h \in Guest \ overlooked PROVE GuestInv(h)'
    <3>1. GuestInv(h) /\ TuplesOf(h)' \subseteq TuplesOf(h)
      BY <1>0, <1>2 DEF PlaceholderInv, TuplesOf
    <3> QED BY <1>0, <1>2, <3>1 DEF GuestInv
  <2> QED BY <1>0, <1>2, <2>1 DEF PlaceholderInv
<1>4. RowInv' /\ ReportInv'
  BY <1>0, <1>2, NoReport DEF RowInv
<1>5. TypeOK'
  BY <1>0, <1>2 DEF TypeOK, keyVars
<1>6. \A u \in Person, x \in Role : <<u, x>> \in fga' <=> <<u, x>> \in fga
  <2>1. ASSUME NEW u \in Person, NEW x \in Role PROVE <<u, x>> # t
    BY <1>1, People
  <2> QED BY <1>1, <2>1
<1> QED BY <1>0, <1>2, <1>3, <1>4, <1>5, <1>6, RequestsKept

\* The rows go when nothing is left to delete of what was collected.
LEMMA DeleteRowsKeeps ==
    ASSUME IdentityInv, NEW g \in Guest, DeleteRows(g)
    PROVE  IdentityInv'
<1>0. /\ TypeOK /\ PlaceholderInv /\ RowInv /\ op.pc = "tuples" /\ op \in CleanUps
      /\ rows \subseteq Tuple /\ users \in [User -> Email \cup {NoEmail, Fallback}]
      /\ UNCHANGED <<fga, events, overlooked, stirred, keyVars, req, hrm, account, granting>>
      /\ g \in op.left /\ \A t \in op.plan : t[1] # g
  BY DEF DeleteRows, InHand, Kept, IdentityInv, IdentityTypes, TypeOK, CleanUps, Reports, NoCommand
<1>1. PICK c : c = Without(g)
  OBVIOUS
<1>2. /\ c \in CleanUps /\ c.pc = op.pc /\ c.todo = op.todo /\ c.left = op.left \ {g}
      /\ c.plan = {t \in op.plan : t[1] # g} /\ op' = c
  BY <1>0, <1>1, WithoutType DEF DeleteRows
<1>3. \/ /\ rows' = {t \in rows : t[1] # g}
         /\ users' = [users EXCEPT ![g] = NoEmail]
      \/ UNCHANGED <<rows, users>>
  BY DEF DeleteRows
<1>4. ASSUME NEW h \in Guest \ overlooked PROVE GuestInv(h)'
  <2>1. GuestInv(h) /\ TuplesOf(h)' = TuplesOf(h)
    BY <1>0 DEF PlaceholderInv, TuplesOf
  <2>2. h # g => users'[h] = users[h]
    BY <1>0, <1>3, People
  <2>3. h = g => TuplesOf(h) = {}
    BY <1>0, <2>1 DEF GuestInv, PlaceholderInv, TuplesOf
  <2>4. TuplesOf(h) \subseteq op.plan => h = g \/ TuplesOf(h) \subseteq c.plan
    BY <1>2 DEF TuplesOf
  <2> QED BY <1>0, <1>2, <2>1, <2>2, <2>3, <2>4 DEF GuestInv
<1>5. PlaceholderInv'
  BY <1>0, <1>2, <1>4 DEF PlaceholderInv
<1>6. RowInv'
  BY <1>0, <1>3, Tuples, People DEF RowInv
<1>7. ReportInv'
  BY <1>0, <1>2, NoReport
<1>8. TypeOK'
  <2>1. users' \in [User -> Email \cup {NoEmail, Fallback}] /\ rows' \subseteq Tuple
    BY <1>0, <1>3
  <2> QED BY <1>0, <1>2, <2>1 DEF TypeOK, keyVars
<1> QED BY <1>0, <1>2, <1>5, <1>6, <1>7, <1>8, RequestsKept

-----------------------------------------------------------------------------
(* The report *)

LEMMA EndKeeps ==
    ASSUME IdentityInv, EndCommand
    PROVE  IdentityInv'
<1>1. /\ op' = NoCommand /\ op'.pc = "idle" /\ stirred' = {}
      /\ UNCHANGED <<users, rows, fga, events, overlooked, keyVars, req, hrm, account, granting>>
  BY DEF EndCommand, Kept, NoCommand
<1>2. PlaceholderInv' /\ RowInv'
  BY <1>1 DEF IdentityInv, PlaceholderInv, GuestInv, TuplesOf, RowInv
<1>3. ReportInv'
  BY <1>1, NoReport
<1>4. TypeOK'
  BY <1>1 DEF IdentityInv, IdentityTypes, TypeOK, keyVars
<1> QED BY <1>1, <1>2, <1>3, <1>4, RequestsKept

LEMMA StartReportKeeps ==
    ASSUME IdentityInv, StartReport
    PROVE  IdentityInv'
<1>1. PICK c : c = [pc |-> "report", steps |-> <<"users", "expected", "checks", "inventory">>,
                    ids |-> {}, expected |-> {}, found |-> {}]
  OBVIOUS
<1>2. /\ op' = c /\ UNCHANGED <<users, rows, fga, overlooked, stirred, keyVars, req, hrm,
                                account, granting>>
  BY <1>1 DEF StartReport, Kept
<1>3. c \in Reports /\ c.pc = "report" /\ c.steps = <<"users", "expected", "checks", "inventory">>
  BY <1>1 DEF Reports, Parts
<1>4. events' \in 0..MaxEvents
  <2>1. events < MaxEvents /\ events' = events + 1
    BY DEF StartReport, Free, Counted
  <2>2. events \in 0..MaxEvents
    BY DEF IdentityInv, IdentityTypes, TypeOK
  <2> QED BY <2>1, <2>2, IdentityAssumption
<1>5. PlaceholderInv' /\ RowInv'
  BY <1>2, <1>3 DEF IdentityInv, PlaceholderInv, GuestInv, TuplesOf, RowInv
<1>6. ReportInv'
  <2>1. Len(c.steps) = 4
    BY <1>3
  <2> QED BY <1>2, <2>1 DEF ReportInv, UserInv
<1>7. TypeOK'
  BY <1>2, <1>3, <1>4 DEF IdentityInv, IdentityTypes, TypeOK, keyVars
<1> QED BY <1>2, <1>3, <1>5, <1>6, <1>7, RequestsKept

\* The parts come in their order.
LEMMA PartsInOrder ==
    ASSUME NEW p \in Parts, p # <<>>
    PROVE  /\ Tail(p) \in Parts /\ Len(p) \in 1..4 /\ Len(Tail(p)) = Len(p) - 1
           /\ Head(p) = "users" => Len(p) = 4
           /\ Head(p) = "expected" => Len(p) = 3
           /\ Head(p) = "checks" => Len(p) = 2
           /\ Head(p) = "inventory" => Len(p) = 1
<1>1. CASE p = <<"users", "expected", "checks", "inventory">>
  <2>1. Head(p) = "users" /\ Len(p) = 4 /\ Tail(p) = <<"expected", "checks", "inventory">>
    BY <1>1
  <2>2. Len(Tail(p)) = 3 /\ Tail(p) \in Parts
    BY <2>1 DEF Parts
  <2> QED BY <2>1, <2>2
<1>2. CASE p = <<"expected", "checks", "inventory">>
  <2>1. Head(p) = "expected" /\ Len(p) = 3 /\ Tail(p) = <<"checks", "inventory">>
    BY <1>2
  <2>2. Len(Tail(p)) = 2 /\ Tail(p) \in Parts
    BY <2>1 DEF Parts
  <2> QED BY <2>1, <2>2
<1>3. CASE p = <<"checks", "inventory">>
  <2>1. Head(p) = "checks" /\ Len(p) = 2 /\ Tail(p) = <<"inventory">>
    BY <1>3
  <2>2. Len(Tail(p)) = 1 /\ Tail(p) \in Parts
    BY <2>1 DEF Parts
  <2> QED BY <2>1, <2>2
<1>4. CASE p = <<"inventory">>
  <2>1. Head(p) = "inventory" /\ Len(p) = 1 /\ Tail(p) = <<>>
    BY <1>4
  <2>2. Len(Tail(p)) = 0 /\ Tail(p) \in Parts
    BY <2>1 DEF Parts
  <2> QED BY <2>1, <2>2
<1> QED BY <1>1, <1>2, <1>3, <1>4 DEF Parts

\* A part that fails says so of everyone; one that does not has found what there is.
LEMMA PartKeeps ==
    ASSUME IdentityInv, NEW step, NEW change, Part(step, change),
           change \in Reports, change.steps = op.steps, op.found \subseteq change.found,
           \A c \in Reports :
              c.steps = Tail(op.steps) /\ op' = c /\ c.ids = change.ids
              /\ c.expected = change.expected /\ c.found = change.found
              => \A u \in User : UserInv(u)'
    PROVE  IdentityInv'
<1>0. /\ op.pc = "report" /\ op.steps # <<>> /\ op \in Reports /\ op.steps \in Parts
      /\ UNCHANGED <<users, rows, fga, events, overlooked, stirred, keyVars, req, hrm,
                     account, granting>>
  BY DEF Part, Kept, IdentityInv, IdentityTypes, CleanUps, Reports, NoCommand
<1>1. PICK rest \in Parts : rest = Tail(op.steps)
  BY <1>0, PartsInOrder
<1>2. op' \in Reports /\ op'.pc = "report" /\ ReportInv'
  <2>1. CASE op' = [change EXCEPT !.steps = Tail(change.steps)]
    <3>1. PICK c : c = [change EXCEPT !.steps = rest]
      OBVIOUS
    <3>2. /\ c \in Reports /\ c.steps = rest /\ c.ids = change.ids /\ c.pc = "report"
          /\ c.expected = change.expected /\ c.found = change.found
      BY <3>1 DEF Reports
    <3>3. op' = c
      BY <1>1, <2>1, <3>1
    <3> QED BY <1>1, <3>2, <3>3 DEF ReportInv
  <2>2. CASE op' = [op EXCEPT !.steps = Tail(op.steps),
                              !.found = op.found \cup {<<"failed", Everyone>>}]
    <3>1. PICK found : found = op.found \cup {<<"failed", Everyone>>}
      OBVIOUS
    <3>2. PICK c : c = [op EXCEPT !.steps = rest, !.found = found]
      OBVIOUS
    <3>3. found \subseteq Findings \X (User \cup {Everyone})
      BY <1>0, <3>1 DEF Reports, Findings
    <3>4. c \in Reports /\ c.found = found /\ c.pc = "report"
      BY <1>0, <3>2, <3>3 DEF Reports
    <3>5. op' = c
      BY <1>1, <2>2, <3>1, <3>2
    <3>6. <<"failed", Everyone>> \in c.found /\ <<"failed", Everyone>>[2] = Everyone
      BY <3>1, <3>4
    <3>7. \A u \in User : ~Silent(u)'
      BY <3>5, <3>6 DEF Silent
    <3> QED BY <3>4, <3>5, <3>7 DEF ReportInv, UserInv
  <2> QED BY <2>1, <2>2 DEF Part
<1>3. PlaceholderInv' /\ RowInv'
  BY <1>0, <1>2 DEF IdentityInv, PlaceholderInv, GuestInv, TuplesOf, RowInv
<1>4. TypeOK'
  BY <1>0, <1>2 DEF IdentityInv, IdentityTypes, TypeOK, keyVars
<1> QED BY <1>0, <1>2, <1>3, <1>4, RequestsKept

\* In a report: its types, and what it has said of a user so far.
LEMMA InReport ==
    ASSUME IdentityInv, op.pc = "report"
    PROVE  /\ op \in Reports /\ op.steps \in Parts /\ \A u \in User : UserInv(u)
           /\ fga \subseteq Tuple /\ rows \subseteq Tuple
           /\ op.expected \subseteq Tuple /\ op.ids \subseteq User
           /\ op.found \subseteq Findings \X (User \cup {Everyone})
<1>1. op \in Reports
  BY DEF IdentityInv, IdentityTypes, CleanUps, Reports, NoCommand
<1> QED BY <1>1 DEF IdentityInv, IdentityTypes, TypeOK, ReportInv, Reports

LEMMA InspectUsersKeeps ==
    ASSUME IdentityInv, InspectUsers
    PROVE  IdentityInv'
<1>1. PICK ids : ids = {u \in User : users[u] # NoEmail}
  OBVIOUS
<1>2. PICK found :
        found = op.found \cup {<<"legacy_invite_id", u>> : u \in ids \cap Guest}
                  \cup {<<"missing_in_keycloak", u>> : u \in {u \in ids : account[u] = NoEmail}}
                  \cup {<<"email_mismatch", u>> : u \in
                           {u \in ids : account[u] \notin {NoEmail, users[u]}}}
  OBVIOUS
<1>3. PICK c : c = [op EXCEPT !.ids = ids, !.found = found]
  OBVIOUS
<1>4. Part("users", c)
  BY <1>1, <1>2, <1>3 DEF InspectUsers
<1>5. /\ op.pc = "report" /\ op.steps # <<>> /\ Head(op.steps) = "users"
      /\ UNCHANGED <<users, rows, fga, stirred, account>>
  BY <1>4 DEF Part, Kept
<1>6. /\ op \in Reports /\ op.steps \in Parts
      /\ op.found \subseteq Findings \X (User \cup {Everyone})
  BY <1>5, InReport
<1>7. Len(Tail(op.steps)) = 3
  BY <1>5, <1>6, PartsInOrder
<1>8. found \subseteq Findings \X (User \cup {Everyone})
  BY <1>1, <1>2, <1>6, People DEF Findings
<1>9. c \in Reports /\ c.ids = ids /\ c.found = found /\ c.steps = op.steps
  BY <1>1, <1>3, <1>6, <1>8 DEF Reports
<1>10. ASSUME NEW d \in Reports, d.steps = Tail(op.steps), op' = d, d.ids = c.ids,
              d.found = c.found, NEW u \in User
       PROVE  UserInv(u)'
  <2>1. ASSUME \A f \in found : f[2] # u
        PROVE  /\ u \in ids <=> users[u] # NoEmail
               /\ users[u] # NoEmail => users[u] = account[u] /\ u \notin Guest
    <3>1. \A x : <<x, u>> \notin found
      <4>1. \A x : <<x, u>>[2] = u
        OBVIOUS
      <4> QED BY <2>1, <4>1
    <3> QED BY <1>1, <1>2, <3>1
  <2>2. Silent(u)' => \A f \in found : f[2] # u
    BY <1>9, <1>10 DEF Silent
  <2>3. Len(op'.steps) = 3 /\ op'.ids = ids
    BY <1>7, <1>9, <1>10
  <2> QED BY <1>5, <2>1, <2>2, <2>3 DEF UserInv
<1> QED BY <1>2, <1>4, <1>9, <1>10, PartKeeps

LEMMA LoadExpectedKeeps ==
    ASSUME IdentityInv, LoadExpected
    PROVE  IdentityInv'
<1>1. PICK c : c = [op EXCEPT !.expected = rows]
  OBVIOUS
<1>2. Part("expected", c)
  BY <1>1 DEF LoadExpected
<1>3. /\ op.pc = "report" /\ op.steps # <<>> /\ Head(op.steps) = "expected"
      /\ UNCHANGED <<users, rows, fga, stirred, account>>
  BY <1>2 DEF Part, Kept
<1>4. /\ op \in Reports /\ op.steps \in Parts /\ rows \subseteq Tuple
      /\ \A u \in User : UserInv(u)
  BY <1>3, InReport
<1>5. Len(Tail(op.steps)) = 2 /\ Len(op.steps) = 3
  BY <1>3, <1>4, PartsInOrder
<1>6. /\ c \in Reports /\ c.ids = op.ids /\ c.found = op.found /\ c.steps = op.steps
      /\ c.expected = rows
  BY <1>1, <1>4 DEF Reports
<1>7. ASSUME NEW d \in Reports, d.steps = Tail(op.steps), op' = d, d.ids = c.ids,
             d.expected = c.expected, d.found = c.found, NEW u \in User
      PROVE  UserInv(u)'
  <2>1. Silent(u)' => Silent(u)
    BY <1>6, <1>7 DEF Silent
  <2>2. Len(op'.steps) = 2 /\ op'.ids = op.ids /\ op'.expected = rows
    BY <1>5, <1>6, <1>7
  <2>3. UserInv(u)
    BY <1>4
  <2> QED BY <1>3, <1>5, <2>1, <2>2, <2>3 DEF UserInv
<1> QED BY <1>2, <1>6, <1>7, PartKeeps

LEMMA CheckExpectedKeeps ==
    ASSUME IdentityInv, CheckExpected
    PROVE  IdentityInv'
<1>1. PICK found :
        found = op.found \cup {<<"missing_fga_relation", t[1]>> : t \in
                                 {t \in op.expected : ~Holds(t[1], t[2])}}
  OBVIOUS
<1>2. PICK c : c = [op EXCEPT !.found = found]
  OBVIOUS
<1>3. Part("checks", c)
  BY <1>1, <1>2 DEF CheckExpected
<1>4. /\ op.pc = "report" /\ op.steps # <<>> /\ Head(op.steps) = "checks"
      /\ UNCHANGED <<users, rows, fga, stirred, account>>
  BY <1>3 DEF Part, Kept
<1>5. /\ op \in Reports /\ op.steps \in Parts /\ op.expected \subseteq Tuple
      /\ op.found \subseteq Findings \X (User \cup {Everyone})
      /\ \A u \in User : UserInv(u)
  BY <1>4, InReport
<1>6. Len(Tail(op.steps)) = 1 /\ Len(op.steps) = 2
  BY <1>4, <1>5, PartsInOrder
<1>7. found \subseteq Findings \X (User \cup {Everyone})
  BY <1>1, <1>5, Tuples DEF Findings
<1>8. /\ c \in Reports /\ c.ids = op.ids /\ c.found = found /\ c.steps = op.steps
      /\ c.expected = op.expected
  BY <1>2, <1>5, <1>7 DEF Reports
<1>9. ASSUME NEW d \in Reports, d.steps = Tail(op.steps), op' = d, d.ids = c.ids,
             d.expected = c.expected, d.found = c.found, NEW u \in User
      PROVE  UserInv(u)'
  <2>1. Silent(u)' => Silent(u) /\ \A f \in found : f[2] # u
    BY <1>1, <1>8, <1>9 DEF Silent
  <2>2. ASSUME \A f \in found : f[2] # u, NEW t \in op.expected, t[1] = u
        PROVE  Holds(t[1], t[2])'
    <3>1. <<"missing_fga_relation", t[1]>>[2] = u
      BY <2>2
    <3>2. Holds(t[1], t[2])
      BY <1>1, <2>2, <3>1
    <3> QED BY <1>4, <3>2 DEF Holds
  <2>3. Len(op'.steps) = 1 /\ op'.ids = op.ids /\ op'.expected = op.expected
    BY <1>6, <1>8, <1>9
  <2>4. UserInv(u)
    BY <1>5
  <2> QED BY <1>4, <1>6, <2>1, <2>2, <2>3, <2>4 DEF UserInv
<1> QED BY <1>1, <1>3, <1>8, <1>9, PartKeeps

LEMMA InspectTuplesKeeps ==
    ASSUME IdentityInv, InspectTuples
    PROVE  IdentityInv'
<1>1. PICK found :
        found = op.found
              \cup {<<"openfga_subject_missing_in_sql", t[1]>> : t \in
                        {t \in fga : t[1] \notin op.ids}}
              \cup {<<"legacy_invite_id", t[1]>> : t \in {t \in fga : t[1] \in Guest}}
              \cup {<<"extra_fga_relation", t[1]>> : t \in Extra}
  OBVIOUS
<1>2. PICK c : c = [op EXCEPT !.found = found]
  OBVIOUS
<1>3. Part("inventory", c)
  BY <1>1, <1>2 DEF InspectTuples
<1>4. /\ op.pc = "report" /\ op.steps # <<>> /\ Head(op.steps) = "inventory"
      /\ UNCHANGED <<users, rows, fga, stirred, account>>
  BY <1>3 DEF Part, Kept
<1>5. /\ op \in Reports /\ op.steps \in Parts /\ fga \subseteq Tuple
      /\ op.found \subseteq Findings \X (User \cup {Everyone})
      /\ \A u \in User : UserInv(u)
  BY <1>4, InReport
<1>6. Len(Tail(op.steps)) = 0 /\ Len(op.steps) = 1
  BY <1>4, <1>5, PartsInOrder
<1>7. found \subseteq Findings \X (User \cup {Everyone})
  <2>1. Extra \subseteq Tuple
    BY <1>5 DEF Extra
  <2> QED BY <1>1, <1>5, <2>1, Tuples DEF Findings
<1>8. /\ c \in Reports /\ c.ids = op.ids /\ c.found = found /\ c.steps = op.steps
      /\ c.expected = op.expected
  BY <1>2, <1>5, <1>7 DEF Reports
<1>9. ASSUME NEW d \in Reports, d.steps = Tail(op.steps), op' = d, d.ids = c.ids,
             d.expected = c.expected, d.found = c.found, NEW u \in User
      PROVE  UserInv(u)'
  <2>1. Silent(u)' => Silent(u) /\ \A f \in found : f[2] # u
    BY <1>1, <1>8, <1>9 DEF Silent
  <2>2. ASSUME \A f \in found : f[2] # u, NEW t \in fga, t[1] = u
        PROVE  u \in op.ids /\ u \notin Guest /\ t \in op.expected
    <3>1. \A x : <<x, t[1]>>[2] = u
      BY <2>2
    <3>2. \A x : <<x, t[1]>> \notin found
      BY <2>2, <3>1
    <3> QED BY <1>1, <2>2, <3>2 DEF Extra
  <2>3. \A t : Holds(t[1], t[2])' <=> Holds(t[1], t[2])
    BY <1>4 DEF Holds
  <2> QED BY <1>4, <1>5, <1>6, <1>8, <1>9, <2>1, <2>2, <2>3 DEF UserInv
<1> QED BY <1>1, <1>3, <1>8, <1>9, PartKeeps

-----------------------------------------------------------------------------
(* The invariant holds *)

LEMMA IdentityInit == Init => IdentityInv
<1> SUFFICES ASSUME Init PROVE IdentityInv
  OBVIOUS
<1>1. /\ hrm \in BOOLEAN /\ published \subseteq Key /\ retired = {} /\ cache = {}
      /\ \E e \in Email : users = [u \in User |-> IF u \in Guest THEN e ELSE NoEmail]
      /\ account \in [User -> Email \cup {NoEmail}]
      /\ rows \subseteq Guest \X LegacyRelation /\ fga \subseteq Guest \X LegacyRelation
      /\ granting = {} /\ req = [r \in Request |-> NewRequest] /\ op = NoCommand
      /\ events = 0 /\ overlooked = {} /\ stirred = {}
  BY DEF Init
<1>2. NewRequest \in Requests /\ NewRequest.pc = "new" /\ NewRequest.hold = {}
      /\ NewRequest.read = {} /\ NewRequest.present = {} /\ op.pc = "idle"
  BY <1>1 DEF NewRequest, Requests, NoCommand
<1>3. rows \subseteq Tuple /\ fga \subseteq Tuple
  BY <1>1, IdentityAssumption DEF Tuple, User
<1>4. users \in [User -> Email \cup {NoEmail, Fallback}] /\ \A g \in Guest : users[g] # NoEmail
  BY <1>1, People
<1>5. TypeOK
  BY <1>1, <1>2, <1>3, <1>4, IdentityAssumption DEF TypeOK
<1>6. IdentityTypes
  BY <1>1, <1>2, <1>5 DEF IdentityTypes, Fits, Going
<1>7. KeyInv /\ AloneInv /\ ReadInv
  BY <1>1, <1>2 DEF KeyInv, AloneInv, ReadInv, Reads, Going
<1>8. PlaceholderInv /\ ReportInv
  BY <1>1, <1>2, <1>4 DEF PlaceholderInv, GuestInv, ReportInv, UserInv
<1>9. RowInv
  BY <1>1, <1>4, People DEF RowInv
<1> QED BY <1>6, <1>7, <1>8, <1>9 DEF IdentityInv

LEMMA IdentityStep ==
    ASSUME IdentityInv, [Next]_vars
    PROVE  IdentityInv'
<1>1. ASSUME NEW r \in Request, Handle(r) PROVE IdentityInv'
  BY <1>1, ArriveKeeps, TokenKeeps, FetchKeeps, StoreKeeps, UpsertKeeps, ReadKeeps,
     SyncKeeps, SyncUserKeeps DEF Handle
<1>2. ASSUME NEW k \in Key, PublishKey(k) \/ WithdrawKey(k) PROVE IdentityInv'
  BY <1>2, PublishKeeps
<1>3. ASSUME NEW u \in User, ShareRow(u) \/ ShareTuple(u) PROVE IdentityInv'
  BY <1>3, ShareRowKeeps, ShareTupleKeeps
<1>4. CASE Operator
  BY <1>4, StartCleanupKeeps, StartReportKeeps, EndKeeps, CollectKeeps, DeleteTupleKeeps,
     DeleteRowsKeeps, InspectUsersKeeps, LoadExpectedKeeps, CheckExpectedKeeps,
     InspectTuplesKeeps DEF Operator
<1>5. CASE UNCHANGED vars
  <2>1. UNCHANGED <<hrm, published, retired, cache, users, rows, fga, granting, account, req,
                    op, events, overlooked, stirred>>
    BY <1>5 DEF vars, keyVars, storeVars
  <2>2. PlaceholderInv' /\ RowInv' /\ ReportInv'
    BY <2>1, StoresKept
  <2>3. TypeOK'
    BY <2>1 DEF IdentityInv, IdentityTypes, TypeOK
  <2> QED BY <2>1, <2>2, <2>3, RequestsKept DEF IdentityInv, IdentityTypes, CleanUps, Reports, keyVars
<1> QED BY <1>1, <1>2, <1>3, <1>4, <1>5 DEF Next

LEMMA IdentityInvariant == Spec => []IdentityInv
BY IdentityInit, IdentityStep, PTL DEF Spec

-----------------------------------------------------------------------------
(* The theorems *)

\* Keys, users, accounts, rows, tuples and requests stay of their types.
THEOREM TypeCorrect == Spec => []TypeOK
<1>1. IdentityInv => TypeOK
  BY DEF IdentityInv, IdentityTypes
<1> QED BY <1>1, IdentityInvariant, PTL

\* The clean-up leaves no tuple of a placeholder it removes from SQL: each is
\* collected or makes the placeholder one that was overlooked.
THEOREM PlaceholderLeavesNothingHolds == Spec => []PlaceholderLeavesNothing
<1>1. IdentityInv => PlaceholderLeavesNothing
  BY DEF IdentityInv, PlaceholderInv, GuestInv, PlaceholderLeavesNothing
<1> QED BY <1>1, IdentityInvariant, PTL

\* A user of whom a finished report says nothing is consistent, although the
\* report reads the stores one after the other and parts of it fail.
THEOREM CleanReportIsTrueHolds == Spec => []CleanReportIsTrue
<1>1. ASSUME IdentityInv, op.pc = "report", op.steps = <<>>, NEW u \in User \ stirred,
             \A f \in op.found : f[2] \notin {u, Everyone}
      PROVE  /\ users[u] \in {NoEmail, account[u]}
             /\ TuplesOf(u) = {t \in rows : t[1] = u}
             /\ users[u] = NoEmail => TuplesOf(u) = {}
  <2>1. /\ UserInv(u) /\ fga \subseteq Tuple /\ rows \subseteq Tuple /\ RowInv
        /\ Len(op.steps) = 0
    BY <1>1, InReport DEF IdentityInv
  <2>2. Silent(u)
    BY <1>1 DEF Silent
  <2>3. /\ u \in op.ids <=> users[u] # NoEmail
        /\ users[u] # NoEmail => users[u] = account[u] /\ u \notin Guest
        /\ \A t \in Tuple : t[1] = u => (t \in op.expected <=> t \in rows)
        /\ \A t \in op.expected : t[1] = u => Holds(t[1], t[2])
        /\ \A t \in fga : t[1] = u => u \in op.ids /\ u \notin Guest /\ t \in op.expected
    BY <1>1, <2>1, <2>2 DEF UserInv
  <2>4. \A t \in rows : t[1] = u => t \in fga
    <3>1. SUFFICES ASSUME NEW t \in rows, t[1] = u PROVE t \in fga
      OBVIOUS
    <3>2. t[2] = "viewer" /\ t = <<t[1], t[2]>>
      BY <2>1, <2>3, <3>1, People, Tuples DEF RowInv
    <3> QED BY <2>1, <2>3, <3>1, <3>2 DEF Holds
  <2> QED BY <2>1, <2>3, <2>4 DEF TuplesOf
<1>2. IdentityInv => CleanReportIsTrue
  BY <1>1 DEF CleanReportIsTrue
<1> QED BY <1>2, IdentityInvariant, PTL

\* The step by which a request takes up again a key it has fetched.
LEMMA RefusedInReread ==
    ASSUME IdentityInv, [Next]_vars, NEW r \in Request, req[r].pc = "reread",
           req'[r].pc = "refused"
    PROVE  RereadKey(r)
<1>0. req \in [Request -> Requests]
  BY DEF IdentityInv, IdentityTypes
<1>1. CASE \E s \in Request : Handle(s)
  <2>1. PICK s \in Request : Handle(s)
    BY <1>1
  <2>2. CASE Arrive(s)
    <3>1. s # r
      BY <2>2 DEF Arrive
    <3>2. \E alone : req'[r] = [req[r] EXCEPT !.alone = alone]
      BY <2>2, <3>1 DEF Arrive
    <3> QED BY <1>0, <3>2 DEF Requests
  <2>3. CASE ~Arrive(s)
    <3>1. \E t : req' = [req EXCEPT ![s] = t]
      BY <2>1, <2>3 DEF Handle, LookUpKey, FetchKeys, StoreKeys, RereadKey, CheckToken,
           UpsertHrmUser, ReadRelation, SyncTuples, SyncCurrentUser, Known, At, Set, Refuse,
           Serve, End
    <3>2. s = r
      BY <1>0, <3>1
    <3> QED BY <2>1, <2>3, <3>2 DEF Handle, LookUpKey, FetchKeys, StoreKeys, CheckToken,
           UpsertHrmUser, ReadRelation, SyncTuples, SyncCurrentUser
  <2> QED BY <2>2, <2>3
<1>2. CASE \E k \in Key : PublishKey(k) \/ WithdrawKey(k)
  BY <1>2 DEF PublishKey, WithdrawKey
<1>3. CASE \E u \in User : ShareRow(u) \/ ShareTuple(u)
  BY <1>3 DEF ShareRow, ShareTuple
<1>4. CASE Operator
  <2>1. UNCHANGED req
    BY <1>4 DEF Operator, StartCleanup, StartReport, EndCommand, Collect, DeleteTuple, DeleteRows,
       InspectUsers, LoadExpected, CheckExpected, InspectTuples, Part, Kept
  <2> QED BY <2>1
<1>5. CASE UNCHANGED vars
  BY <1>5 DEF vars
<1> QED BY <1>1, <1>2, <1>3, <1>4, <1>5 DEF Next

\* A key the provider publishes is not refused: the response that brought it is
\* in the cache, or one that also has it, whatever other requests stored since.
THEOREM PublishedKeyIsKnownHolds == Spec => PublishedKeyIsKnown
<1>1. ASSUME IdentityInv, [Next]_vars, NEW r \in Request,
             req[r].pc = "reread", req'[r].pc = "refused"
      PROVE  req[r].key \notin req[r].hold \cap published \/ ~req[r].clear
  <2>1. RereadKey(r)
    BY <1>1, RefusedInReread
  <2>2. req[r].key \notin cache
    <3>1. CASE req[r].key \in cache
      <4>1. PICK t : Moves(r, t) /\ t.pc = "check"
        BY <1>1, <2>1, <3>1, KnownMoves DEF RereadKey
      <4> QED BY <1>1, <4>1, RequestSlot
    <3> QED BY <3>1
  <2> QED BY <1>1, <2>2 DEF IdentityInv, KeyInv
<1>2. ASSUME IdentityInv, [Next]_vars
      PROVE  [\A r \in Request :
                req[r].pc = "reread" /\ req'[r].pc = "refused" =>
                   req[r].key \notin req[r].hold \cap published \/ ~req[r].clear]_vars
  BY <1>1, <1>2
<1> QED BY <1>2, IdentityInvariant, PTL DEF Spec, PublishedKeyIsKnown

\* The step by which a request passes provisioning.
LEMMA ServedInWrite ==
    ASSUME IdentityInv, [Next]_vars, NEW r \in Request, req[r].pc = "write",
           req'[r].pc = "served"
    PROVE  SyncTuples(r) /\ Serve(r)
<1>0. req \in [Request -> Requests]
  BY DEF IdentityInv, IdentityTypes
<1>1. CASE \E s \in Request : Handle(s)
  <2>1. PICK s \in Request : Handle(s)
    BY <1>1
  <2>2. CASE Arrive(s)
    <3>1. s # r
      BY <2>2 DEF Arrive
    <3>2. \E alone : req'[r] = [req[r] EXCEPT !.alone = alone]
      BY <2>2, <3>1 DEF Arrive
    <3> QED BY <1>0, <3>2 DEF Requests
  <2>3. CASE ~Arrive(s)
    <3>1. \E t : req' = [req EXCEPT ![s] = t]
      BY <2>1, <2>3 DEF Handle, LookUpKey, FetchKeys, StoreKeys, RereadKey, CheckToken,
           UpsertHrmUser, ReadRelation, SyncTuples, SyncCurrentUser, Known, At, Set, Refuse,
           Serve, End
    <3>2. s = r
      BY <1>0, <3>1
    <3>3. SyncTuples(r)
      BY <2>1, <2>3, <3>2 DEF Handle, LookUpKey, FetchKeys, StoreKeys, RereadKey, CheckToken,
           UpsertHrmUser, ReadRelation, SyncCurrentUser
    <3>4. CASE Refuse(r)
      <4>1. PICK t : Moves(r, t) /\ t.pc = "refused"
        BY <3>4, EndMoves DEF Refuse
      <4> QED BY <4>1, RequestSlot
    <3>5. Serve(r) \/ Refuse(r)
      BY <3>3 DEF SyncTuples
    <3> QED BY <3>3, <3>4, <3>5
  <2> QED BY <2>2, <2>3
<1>2. CASE \E k \in Key : PublishKey(k) \/ WithdrawKey(k)
  BY <1>2 DEF PublishKey, WithdrawKey
<1>3. CASE \E u \in User : ShareRow(u) \/ ShareTuple(u)
  BY <1>3 DEF ShareRow, ShareTuple
<1>4. CASE Operator
  <2>1. UNCHANGED req
    BY <1>4 DEF Operator, StartCleanup, StartReport, EndCommand, Collect, DeleteTuple, DeleteRows,
       InspectUsers, LoadExpected, CheckExpected, InspectTuples, Part, Kept
  <2> QED BY <2>1
<1>5. CASE UNCHANGED vars
  BY <1>5 DEF vars
<1> QED BY <1>1, <1>2, <1>3, <1>4, <1>5 DEF Next

\* A request that passes provisioning leaves its user the role of the token and no
\* other, unless requests with tokens of two roles overlapped.
THEOREM PassedWithTokensRoleHolds == Spec => PassedWithTokensRole
<1>1. ASSUME IdentityInv, [Next]_vars, NEW r \in Request,
             req[r].pc = "write", req'[r].pc = "served", req[r].alone
      PROVE  {x \in Role : <<req[r].user, x>> \in fga'} = {req[r].role}
  <2>1. SyncTuples(r) /\ Serve(r)
    BY <1>1, ServedInWrite
  <2>2. PICK q : q = req[r]
    OBVIOUS
  <2>3. q \in Requests /\ Fits(q) /\ Reads(q) /\ q.pc = "write" /\ q.alone
    BY <1>1, <2>2 DEF IdentityInv, IdentityTypes, ReadInv
  <2>4. q.role \in Role /\ q.read = Role /\ q.present \subseteq Role
    BY <2>3 DEF Fits, Reads, Requests
  <2>5. \A x \in Role : /\ x # q.role /\ x \notin q.present => <<q.user, x>> \notin fga
                        /\ x = q.role /\ x \in q.present => <<q.user, x>> \in fga
    BY <2>3, <2>4 DEF Reads, Going
  <2>6. PICK add : add = {q.role} \ q.present
    OBVIOUS
  <2>7. PICK remove : remove = q.present \ {q.role}
    OBVIOUS
  <2>8. add = Plan(r).add /\ remove = Plan(r).remove
    BY <2>2, <2>6, <2>7 DEF Plan
  <2>9. CASE add \cup remove = {}
    <3>1. UNCHANGED fga
      BY <2>1, <2>8, <2>9 DEF SyncTuples
    <3>2. q.present = {q.role}
      BY <2>6, <2>7, <2>9
    <3> QED BY <2>2, <2>4, <2>5, <3>1, <3>2
  <2>10. CASE fga' = (fga \ ({q.user} \X remove)) \cup ({q.user} \X add)
    BY <2>2, <2>4, <2>5, <2>6, <2>7, <2>10
  <2>11. add \cup remove # {} => ~Refuse(r)
    <3>1. ASSUME Refuse(r) PROVE FALSE
      <4>1. PICK t : Moves(r, t) /\ t.pc = "refused"
        BY <1>1, <3>1, EndMoves DEF Refuse
      <4> QED BY <1>1, <4>1, RequestSlot
    <3> QED BY <3>1
  <2> QED BY <2>1, <2>2, <2>8, <2>9, <2>10, <2>11 DEF SyncTuples
<1>2. ASSUME IdentityInv, [Next]_vars
      PROVE  [\A r \in Request :
                req[r].pc = "write" /\ req'[r].pc = "served" /\ req[r].alone =>
                   {x \in Role : <<req[r].user, x>> \in fga'} = {req[r].role}]_vars
  BY <1>1, <1>2
<1> QED BY <1>2, IdentityInvariant, PTL DEF Spec, PassedWithTokensRole
=============================================================================
