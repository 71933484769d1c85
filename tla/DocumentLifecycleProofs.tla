---------------------- MODULE DocumentLifecycleProofs ----------------------
(***************************************************************************)
(* Proofs about DocumentLifecycle, for any number of users and requests.   *)
(* The invariant grows in four parts, each using the ones before it:       *)
(*   TypeInv     types, and the steps each kind of request goes through;   *)
(*   LifeInv     the one upload, its original and its workspace relation;  *)
(*   GrantInv    a grant is alone, and what each request still has to do   *)
(*               to the tuples of users;                                   *)
(*   ReplaceInv  what a replacement of permissions has planned and done.   *)
(***************************************************************************)
EXTENDS DocumentLifecycle, TLAPS

-----------------------------------------------------------------------------
(* Type correctness *)

\* The steps at which a request has one user in hand
WithUser == {"grant", "unlist", "undo", "enqueue"}

\* The steps each request goes through
StepOf(op, pc) ==
    \/ op = "upload"  /\ pc \in {"insert", "relate", "drop_row", "drop_object"}
    \/ op = "delete"  /\ pc \in {"revoke", "drop_object"}
    \/ op = "mode"    /\ pc = "revoke"
    \/ op = "share"   /\ pc \in {"list", "grant", "undo"}
    \/ op = "unshare" /\ pc \in {"take_back", "unlist"}
    \/ op = "replace" /\ pc \in {"check", "commit", "swap", "unlist", "grant", "enqueue"}

\* A request is at a step of its own; what it has in hand is a user.
SlotOK(r) ==
    r # Idle => /\ StepOf(r.op, r.pc)
                /\ r.pc \in WithUser => r.user \in Users
                /\ r.op = "replace" => r.todo \subseteq Users

InHand == \A c \in Clients : SlotOK(req[c])

TypeInv == TypeOK /\ InHand

\* A slot that is at a step holds a request.
LEMMA SlotHasRequest ==
    ASSUME TypeOK, NEW c \in Clients
    PROVE  /\ req[c] # Idle => req[c] \in Requests
           /\ req[c].pc \in Steps => req[c] \in Requests /\ req[c] # Idle
BY DEF TypeOK, Idle, Steps

\* The fields a handler assigns keep a request in its set.
LEMMA RequestFields ==
    ASSUME NEW r \in Requests
    PROVE  /\ \A pc \in Steps : [r EXCEPT !.pc = pc] \in Requests
           /\ \A t : [r EXCEPT !.todo = @ \ {t}] \in Requests
           /\ \A u \in Users :
                /\ [r EXCEPT !.pc = "grant", !.user = u,
                             !.fresh = @ \ {u}, !.again = @ \ {u}] \in Requests
                /\ [r EXCEPT !.pc = "unlist", !.user = u] \in Requests
                /\ [r EXCEPT !.pc = "swap", !.todo = @ \ {u}] \in Requests
           /\ \A F, A \in SUBSET Users :
                [r EXCEPT !.pc = "commit", !.fresh = F, !.again = A] \in Requests
BY DEF Requests, Steps

\* A request assigned to one slot leaves the other slots alone.
LEMMA SlotAssigned ==
    ASSUME TypeInv, NEW c \in Clients, NEW r \in Requests \cup {Idle}, SlotOK(r),
           req' = [req EXCEPT ![c] = r]
    PROVE  /\ req' \in [Clients -> Requests \cup {Idle}]
           /\ InHand'
           /\ req'[c] = r
           /\ \A d \in Clients \ {c} : req'[d] = req[d]
<1>1. req \in [Clients -> Requests \cup {Idle}]
  BY DEF TypeInv, TypeOK
<1>2. req'[c] = r /\ \A d \in Clients \ {c} : req'[d] = req[d]
  BY <1>1
<1>3. InHand'
  BY <1>2 DEF InHand, TypeInv
<1> QED BY <1>1, <1>2, <1>3

\* What Goto, Return and Begin do to the slots.
LEMMA GotoSlot ==
    ASSUME TypeInv, NEW c \in Clients, NEW pc \in Steps, req[c].pc \in Steps,
           StepOf(req[c].op, pc), pc \in WithUser => req[c].user \in Users,
           Goto(c, pc)
    PROVE  /\ req' \in [Clients -> Requests \cup {Idle}]
           /\ InHand'
           /\ req'[c] = [req[c] EXCEPT !.pc = pc]
           /\ \A d \in Clients \ {c} : req'[d] = req[d]
<1> DEFINE r == [req[c] EXCEPT !.pc = pc]
<1>1. req[c] \in Requests
  BY SlotHasRequest DEF TypeInv
<1>2. /\ r \in Requests /\ r.pc = pc
      /\ r.user = req[c].user /\ r.op = req[c].op /\ r.todo = req[c].todo
  BY <1>1, RequestFields DEF Requests
<1>3. req' = [req EXCEPT ![c] = r]
  BY DEF Goto
<1>4. SlotOK(r)
  BY <1>1, <1>2, SlotHasRequest DEF SlotOK, TypeInv, InHand
<1> QED BY <1>2, <1>3, <1>4, SlotAssigned

LEMMA ReturnSlot ==
    ASSUME TypeInv, NEW c \in Clients, Return(c)
    PROVE  /\ req' \in [Clients -> Requests \cup {Idle}]
           /\ InHand'
           /\ req'[c] = Idle
           /\ \A d \in Clients \ {c} : req'[d] = req[d]
<1>1. SlotOK(Idle)
  BY DEF SlotOK
<1>2. req' = [req EXCEPT ![c] = Idle]
  BY DEF Return
<1> QED BY <1>1, <1>2, SlotAssigned

LEMMA BeginSlot ==
    ASSUME TypeInv, NEW c \in Clients, NEW pc \in Steps \ WithUser, NEW op \in Ops,
           NEW m \in Modes, NEW target \in SUBSET Users,
           NEW todo \in SUBSET (Users \cup {Workspace}),
           StepOf(op, pc), op = "replace" => todo \subseteq Users, Begin(c, pc, op, m, target, todo)
    PROVE  /\ req' \in [Clients -> Requests \cup {Idle}]
           /\ InHand'
           /\ req'[c] = [pc |-> pc, op |-> op, mode |-> m, target |-> target, todo |-> todo,
                         fresh |-> {}, again |-> {}, user |-> Workspace]
           /\ \A d \in Clients \ {c} : req'[d] = req[d]
           /\ started' \in 0..MaxRequests
           /\ exposed' \subseteq Users
<1> DEFINE r == [pc |-> pc, op |-> op, mode |-> m, target |-> target, todo |-> todo,
                 fresh |-> {}, again |-> {}, user |-> Workspace]
<1>1. r \in Requests /\ SlotOK(r)
  BY DEF Requests, SlotOK
<1>2. req' = [req EXCEPT ![c] = r]
  BY DEF Begin
<1>3. started' \in 0..MaxRequests
  BY DocumentAssumption DEF Begin, TypeInv, TypeOK
<1>4. exposed' \subseteq Users
  BY DEF Begin, TypeInv, TypeOK
<1> QED BY <1>1, <1>2, <1>3, <1>4, SlotAssigned

\* A failing call is counted within its bound.
LEMMA FaultTypes ==
    ASSUME TypeOK, Fault \/ NoFault
    PROVE  faults' \in 0..MaxFaults
BY DocumentAssumption DEF TypeOK, Fault, NoFault

LEMMA TypeInit == Init => TypeInv
<1> SUFFICES ASSUME Init PROVE TypeInv
  OBVIOUS
<1>1. TypeOK
  <2>1. req \in [Clients -> Requests \cup {Idle}] /\ lock \in Clients \cup {Nobody}
    BY DEF Init
  <2>2. started \in 0..MaxRequests /\ faults \in 0..MaxFaults
    BY DocumentAssumption DEF Init
  <2>3. /\ row \in {"unborn", "none", "present", "gone"} /\ mode \in Modes
        /\ erasure \in Erasure /\ scan \in {"idle", "row_known", "row_unknown"}
        /\ object \in BOOLEAN /\ accepted \in BOOLEAN /\ swept \in BOOLEAN
    BY DEF Init, Erasure
  <2>4. /\ shares \subseteq Users /\ queued \subseteq Users /\ exposed \subseteq Users
        /\ tuples \subseteq Users \cup {Workspace}
    BY DEF Init
  <2> QED BY <2>1, <2>2, <2>3, <2>4 DEF TypeOK
<1>2. InHand
  BY DEF Init, InHand, SlotOK
<1> QED BY <1>1, <1>2 DEF TypeInv

\* The first steps of the requests, and their names
LEMMA FirstSteps ==
    /\ {"insert", "revoke", "list", "take_back", "check"} \subseteq Steps \ WithUser
    /\ {"upload", "mode", "delete", "share", "unshare", "replace"} = Ops
    /\ StepOf("upload", "insert") /\ StepOf("mode", "revoke") /\ StepOf("delete", "revoke")
    /\ StepOf("share", "list") /\ StepOf("unshare", "take_back") /\ StepOf("replace", "check")
BY DEF Steps, WithUser, Ops, StepOf

\* The slots after a step of a request
SlotsTyped == req' \in [Clients -> Requests \cup {Idle}] /\ InHand'

LEMMA StartTypes ==
    ASSUME TypeInv, NEW c \in Clients, Start(c)
    PROVE  TypeInv'
<1>1. ASSUME PutObject(c) PROVE TypeInv'
  <2>1. SlotsTyped /\ started' \in 0..MaxRequests /\ exposed' \subseteq Users
    <3>1. CASE Begin(c, "insert", "upload", mode, {}, {})
      <4>1. /\ "insert" \in Steps \ WithUser /\ "upload" \in Ops /\ mode \in Modes
            /\ StepOf("upload", "insert")
            /\ {} \in SUBSET Users /\ {} \in SUBSET (Users \cup {Workspace})
        BY FirstSteps DEF TypeInv, TypeOK
      <4> QED BY <3>1, <4>1, BeginSlot DEF SlotsTyped
    <3>2. CASE started < MaxRequests /\ started' = started + 1 /\ UNCHANGED <<req, exposed>>
      BY <3>2, DocumentAssumption DEF SlotsTyped, TypeInv, TypeOK, InHand
    <3> QED BY <1>1, <3>1, <3>2 DEF PutObject
  <2>2. faults' \in 0..MaxFaults
    BY <1>1, FaultTypes DEF PutObject, TypeInv
  <2> QED BY <1>1, <2>1, <2>2 DEF PutObject, SlotsTyped, TypeInv, TypeOK
<1>2. ASSUME NEW m \in Modes, SetAccessMode(c, m) PROVE TypeInv'
  <2> DEFINE todo == IF m = "restricted" THEN {} ELSE shares
  <2>1. "revoke" \in Steps \ WithUser /\ "mode" \in Ops /\ StepOf("mode", "revoke")
    BY FirstSteps
  <2>2. m \in Modes /\ {} \in SUBSET Users /\ todo \in SUBSET (Users \cup {Workspace})
    BY DEF TypeInv, TypeOK
  <2>3. Begin(c, "revoke", "mode", m, {}, todo)
    BY <1>2 DEF SetAccessMode
  <2> HIDE DEF todo
  <2>4. SlotsTyped /\ started' \in 0..MaxRequests /\ exposed' \subseteq Users
    BY <2>1, <2>2, <2>3, BeginSlot DEF SlotsTyped
  <2> QED BY <1>2, <2>4 DEF SetAccessMode, LockRow, SlotsTyped, TypeInv, TypeOK, docVars
<1>3. ASSUME DeleteDocument(c) PROVE TypeInv'
  <2> DEFINE todo == shares \cup {Workspace}
  <2>1. "revoke" \in Steps \ WithUser /\ "delete" \in Ops /\ StepOf("delete", "revoke")
    BY FirstSteps
  <2>2. mode \in Modes /\ {} \in SUBSET Users /\ todo \in SUBSET (Users \cup {Workspace})
    BY DEF TypeInv, TypeOK
  <2>3. Begin(c, "revoke", "delete", mode, {}, todo)
    BY <1>3 DEF DeleteDocument
  <2> HIDE DEF todo
  <2>4. SlotsTyped /\ started' \in 0..MaxRequests /\ exposed' \subseteq Users
    BY <2>1, <2>2, <2>3, BeginSlot DEF SlotsTyped
  <2> QED BY <1>3, <2>4 DEF DeleteDocument, LockRow, SlotsTyped, TypeInv, TypeOK, docVars
<1>4. ASSUME NEW u \in Users, ShareDocument(c, u) PROVE TypeInv'
  <2> DEFINE todo == {}
  <2>1. "list" \in Steps \ WithUser /\ "share" \in Ops /\ StepOf("share", "list")
    BY FirstSteps
  <2>2. mode \in Modes /\ {u} \in SUBSET Users /\ todo \in SUBSET (Users \cup {Workspace})
    BY DEF TypeInv, TypeOK
  <2>3. Begin(c, "list", "share", mode, {u}, todo)
    BY <1>4 DEF ShareDocument
  <2> HIDE DEF todo
  <2>4. SlotsTyped /\ started' \in 0..MaxRequests /\ exposed' \subseteq Users
    BY <2>1, <2>2, <2>3, BeginSlot DEF SlotsTyped
  <2> QED BY <1>4, <2>4 DEF ShareDocument, SlotsTyped, TypeInv, TypeOK, docVars
<1>5. ASSUME NEW u \in Users, RevokeShare(c, u) PROVE TypeInv'
  <2> DEFINE todo == {}
  <2>1. "take_back" \in Steps \ WithUser /\ "unshare" \in Ops /\ StepOf("unshare", "take_back")
    BY FirstSteps
  <2>2. mode \in Modes /\ {u} \in SUBSET Users /\ todo \in SUBSET (Users \cup {Workspace})
    BY DEF TypeInv, TypeOK
  <2>3. Begin(c, "take_back", "unshare", mode, {u}, todo)
    BY <1>5 DEF RevokeShare
  <2> HIDE DEF todo
  <2>4. SlotsTyped /\ started' \in 0..MaxRequests /\ exposed' \subseteq Users
    BY <2>1, <2>2, <2>3, BeginSlot DEF SlotsTyped
  <2> QED BY <1>5, <2>4 DEF RevokeShare, SlotsTyped, TypeInv, TypeOK, docVars
<1>6. ASSUME NEW m \in Modes, NEW target \in SUBSET Users, ReplacePermissions(c, m, target) PROVE TypeInv'
  <2> DEFINE todo == shares \ target
  <2>1. "check" \in Steps \ WithUser /\ "replace" \in Ops /\ StepOf("replace", "check")
    BY FirstSteps
  <2>2. /\ m \in Modes /\ target \in SUBSET Users /\ todo \in SUBSET (Users \cup {Workspace})
      /\ todo \subseteq Users
    BY DEF TypeInv, TypeOK
  <2>3. Begin(c, "check", "replace", m, target, todo)
    BY <1>6 DEF ReplacePermissions
  <2> HIDE DEF todo
  <2>4. SlotsTyped /\ started' \in 0..MaxRequests /\ exposed' \subseteq Users
    BY <2>1, <2>2, <2>3, BeginSlot DEF SlotsTyped
  <2> QED BY <1>6, <2>4 DEF ReplacePermissions, LockRow, SlotsTyped, TypeInv, TypeOK, docVars
<1> QED BY <1>1, <1>2, <1>3, <1>4, <1>5, <1>6 DEF Start

\* What the step of a request says of its name, and where it may go from there
LEMMA OpOfStep ==
    ASSUME TypeInv, NEW c \in Clients, req[c].pc \in Steps
    PROVE  /\ StepOf(req[c].op, req[c].pc)
           /\ req[c].pc \in {"insert", "relate", "drop_row"} => req[c].op = "upload"
           /\ req[c].pc = "revoke" => req[c].op \in {"mode", "delete"}
           /\ req[c].pc = "grant" => req[c].op \in {"share", "replace"}
           /\ req[c].pc = "unlist" => req[c].op \in {"unshare", "replace"}
           /\ req[c].pc \in {"list", "undo"} => req[c].op = "share"
           /\ req[c].pc = "take_back" => req[c].op = "unshare"
           /\ req[c].pc \in {"check", "commit", "swap", "enqueue"} => req[c].op = "replace"
<1>1. StepOf(req[c].op, req[c].pc)
  BY SlotHasRequest DEF TypeInv, InHand, SlotOK
<1> QED BY <1>1 DEF StepOf

\* Goto a step that needs no user in hand, or Return
LEMMA MoveTypes ==
    ASSUME TypeInv, NEW c \in Clients, req[c].pc \in Steps,
           \/ \E pc \in Steps : /\ StepOf(req[c].op, pc)
                                /\ pc \in WithUser => req[c].pc \in WithUser
                                /\ Goto(c, pc)
           \/ Return(c)
    PROVE  SlotsTyped
<1>1. CASE Return(c)
  BY <1>1, ReturnSlot DEF SlotsTyped
<1>2. CASE ~Return(c)
  <2>1. PICK pc \in Steps : /\ StepOf(req[c].op, pc)
                            /\ pc \in WithUser => req[c].pc \in WithUser
                            /\ Goto(c, pc)
    BY <1>2
  <2>2. pc \in WithUser => req[c].user \in Users
    BY <2>1, SlotHasRequest DEF TypeInv, InHand, SlotOK
  <2> QED BY <2>1, <2>2, GotoSlot DEF SlotsTyped
<1> QED BY <1>1, <1>2

\* The uploads, the deletion and the change of mode
LEMMA UploadTypes ==
    ASSUME TypeInv, NEW c \in Clients,
           \/ InsertDocument(c) \/ ensure_document_workspace_relation(c)
           \/ DropRow(c) \/ DropObject(c) \/ RevokeTuple(c) \/ CommitChange(c)
    PROVE  TypeInv'
<1>0. /\ {"insert", "relate", "drop_row", "drop_object", "revoke"} \subseteq Steps
      /\ {"relate", "drop_row", "drop_object"} \cap WithUser = {}
  BY DEF Steps, WithUser
<1>1. CASE InsertDocument(c)
  <2>1. SlotsTyped
    BY <1>0, <1>1, MoveTypes, OpOfStep DEF StepOf, InsertDocument, At
  <2>2. faults' \in 0..MaxFaults
    BY <1>1, FaultTypes DEF InsertDocument, TypeInv
  <2> QED BY <1>1, <2>1, <2>2 DEF InsertDocument, Others, SlotsTyped, TypeInv, TypeOK
<1>2. CASE ensure_document_workspace_relation(c)
  <2>1. SlotsTyped
    BY <1>0, <1>2, MoveTypes, OpOfStep DEF StepOf, ensure_document_workspace_relation, At
  <2>2. faults' \in 0..MaxFaults
    BY <1>2, FaultTypes DEF ensure_document_workspace_relation, TypeInv
  <2> QED BY <1>2, <2>1, <2>2
          DEF ensure_document_workspace_relation, Written, SlotsTyped, TypeInv, TypeOK
<1>3. CASE DropRow(c)
  <2>1. SlotsTyped
    BY <1>0, <1>3, MoveTypes, OpOfStep DEF StepOf, DropRow, At
  <2>2. faults' \in 0..MaxFaults
    BY <1>3, FaultTypes DEF DropRow, TypeInv
  <2> QED BY <1>3, <2>1, <2>2 DEF DropRow, Others, SlotsTyped, TypeInv, TypeOK
<1>4. CASE DropObject(c)
  <2>1. SlotsTyped
    BY <1>0, <1>4, MoveTypes, OpOfStep DEF StepOf, DropObject, At
  <2>2. faults' \in 0..MaxFaults
    BY <1>4, FaultTypes DEF DropObject, TypeInv
  <2> QED BY <1>4, <2>1, <2>2 DEF DropObject, Others, SlotsTyped, TypeInv, TypeOK
<1>5. CASE RevokeTuple(c)
  <2>1. SlotsTyped
    <3>1. ASSUME NEW t, req' = [req EXCEPT ![c].todo = @ \ {t}] PROVE SlotsTyped
      <4> DEFINE r == [req[c] EXCEPT !.todo = @ \ {t}]
      <4>1. req[c] \in Requests
        BY <1>0, <1>5, SlotHasRequest DEF RevokeTuple, At, TypeInv
      <4>2. /\ r \in Requests /\ r.pc = req[c].pc /\ r.user = req[c].user
            /\ r.op = req[c].op /\ r.todo \subseteq req[c].todo
        BY <4>1, RequestFields DEF Requests
      <4>3. SlotOK(r)
        BY <1>0, <1>5, <4>2, SlotHasRequest DEF SlotOK, RevokeTuple, At, TypeInv, InHand
      <4>4. req' = [req EXCEPT ![c] = r]
        BY <3>1
      <4> QED BY <4>2, <4>3, <4>4, SlotAssigned DEF SlotsTyped
    <3> QED BY <1>0, <1>5, <3>1, MoveTypes, OpOfStep DEF StepOf, RevokeTuple, At
  <2>2. faults' \in 0..MaxFaults
    BY <1>5, FaultTypes DEF RevokeTuple, TypeInv
  <2> QED BY <1>5, <2>1, <2>2
          DEF RevokeTuple, Others, Deleted, Unlock, SlotsTyped, TypeInv, TypeOK
<1>6. CASE CommitChange(c)
  <2>1. SlotsTyped
    BY <1>0, <1>6, MoveTypes, OpOfStep DEF StepOf, CommitChange, At
  <2>2. faults' \in 0..MaxFaults
    BY <1>6, FaultTypes DEF CommitChange, TypeInv
  <2>3. req[c] \in Requests
    BY <1>0, <1>6, SlotHasRequest DEF CommitChange, At, TypeInv
  <2>4. /\ row' \in {"unborn", "none", "present", "gone"} /\ mode' \in Modes
        /\ shares' \subseteq Users /\ erasure' \in Erasure
    BY <1>6, <2>3 DEF CommitChange, Change, Requests, Erasure, TypeInv, TypeOK
  <2> QED BY <1>6, <2>1, <2>2, <2>4
          DEF CommitChange, Others, Unlock, SlotsTyped, TypeInv, TypeOK
<1> QED BY <1>1, <1>2, <1>3, <1>4, <1>5, <1>6

\* One user is taken in hand: what ListShare, TakeBackTuple and SwapRevoke assign
LEMMA ListTypes ==
    ASSUME TypeInv, NEW c \in Clients, req[c].pc \in Steps, StepOf(req[c].op, "grant"),
           NEW u \in Users, ListShare(c, u)
    PROVE  SlotsTyped /\ shares' \subseteq Users /\ (Fault \/ NoFault)
<1> DEFINE r == [req[c] EXCEPT !.pc = "grant", !.user = u, !.fresh = @ \ {u}, !.again = @ \ {u}]
<1>1. req[c] \in Requests
  BY SlotHasRequest DEF TypeInv
<1>2. /\ r \in Requests /\ r.user = u /\ r.pc = "grant"
      /\ r.op = req[c].op /\ r.todo = req[c].todo
  BY <1>1, RequestFields DEF Requests
<1>0. SlotOK(r)
  BY <1>2, SlotHasRequest DEF SlotOK, TypeInv, InHand
<1>3. ASSUME req' = [req EXCEPT ![c] = r] PROVE SlotsTyped
  BY <1>0, <1>2, <1>3, SlotAssigned DEF SlotsTyped
<1>4. SlotsTyped
  BY <1>3, ReturnSlot DEF ListShare, SlotsTyped
<1>5. shares' \subseteq Users
  BY DEF ListShare, TypeInv, TypeOK
<1>6. Fault \/ NoFault
  BY DEF ListShare
<1> QED BY <1>4, <1>5, <1>6

LEMMA UnlistTypes ==
    ASSUME TypeInv, NEW c \in Clients, req[c].pc \in Steps, StepOf(req[c].op, "unlist"),
           NEW u \in Users,
           req' = [req EXCEPT ![c].pc = "unlist", ![c].user = u]
    PROVE  SlotsTyped
<1> DEFINE r == [req[c] EXCEPT !.pc = "unlist", !.user = u]
<1>1. req[c] \in Requests
  BY SlotHasRequest DEF TypeInv
<1>2. /\ r \in Requests /\ r.user = u /\ r.pc = "unlist"
      /\ r.op = req[c].op /\ r.todo = req[c].todo
  BY <1>1, RequestFields DEF Requests
<1>3. SlotOK(r)
  BY <1>2, SlotHasRequest DEF SlotOK, TypeInv, InHand
<1>4. req' = [req EXCEPT ![c] = r]
  BY DEF TypeInv, TypeOK
<1> QED BY <1>2, <1>3, <1>4, SlotAssigned DEF SlotsTyped

\* Shares and permissions
LEMMA ShareTypes ==
    ASSUME TypeInv, NEW c \in Clients,
           \/ InsertShare(c) \/ GrantTuple(c) \/ UndoShare(c)
           \/ TakeBackTuple(c) \/ UnlistShare(c)
    PROVE  TypeInv'
<1>0. /\ {"list", "grant", "undo", "take_back", "unlist", "swap", "enqueue"} \subseteq Steps
      /\ {"grant", "undo", "unlist", "enqueue"} \subseteq WithUser /\ "swap" \notin WithUser
  BY DEF Steps, WithUser
<1>1. CASE InsertShare(c)
  <2>1. PICK u \in req[c].target : ListShare(c, u)
    BY <1>1 DEF InsertShare
  <2>2. req[c].pc \in Steps /\ u \in Users /\ StepOf(req[c].op, "grant")
    BY <1>0, <1>1, <2>1, SlotHasRequest, OpOfStep
    DEF InsertShare, At, Requests, StepOf, TypeInv
  <2>3. SlotsTyped /\ shares' \subseteq Users /\ faults' \in 0..MaxFaults
    BY <2>1, <2>2, ListTypes, FaultTypes DEF TypeInv
  <2> QED BY <1>1, <2>3 DEF InsertShare, Others, SlotsTyped, TypeInv, TypeOK
<1>2. CASE GrantTuple(c)
  <2>1. SlotsTyped
    BY <1>0, <1>2, MoveTypes, OpOfStep DEF StepOf, GrantTuple, At
  <2>2. faults' \in 0..MaxFaults
    BY <1>2, FaultTypes DEF GrantTuple, TypeInv
  <2>3. req[c].user \in Users
    BY SlotHasRequest, <1>0, <1>2 DEF GrantTuple, At, TypeInv, InHand, SlotOK
  <2> QED BY <1>2, <2>1, <2>2, <2>3
          DEF GrantTuple, Others, Written, SlotsTyped, TypeInv, TypeOK
<1>3. CASE UndoShare(c)
  <2>1. SlotsTyped
    BY <1>0, <1>3, MoveTypes, OpOfStep DEF StepOf, UndoShare, At
  <2>2. faults' \in 0..MaxFaults
    BY <1>3, FaultTypes DEF UndoShare, TypeInv
  <2>3. req[c].user \in Users
    BY SlotHasRequest, <1>0, <1>3 DEF UndoShare, At, TypeInv, InHand, SlotOK
  <2> QED BY <1>3, <2>1, <2>2, <2>3 DEF UndoShare, Others, SlotsTyped, TypeInv, TypeOK
<1>4. CASE TakeBackTuple(c)
  <2>1. /\ req[c].pc \in Steps /\ req[c].target \subseteq Users
        /\ StepOf(req[c].op, "unlist")
    BY <1>0, <1>4, SlotHasRequest, OpOfStep DEF TakeBackTuple, At, Requests, StepOf, TypeInv
  <2>2. SlotsTyped
    BY <1>4, <2>1, UnlistTypes, ReturnSlot DEF TakeBackTuple, SlotsTyped
  <2>3. faults' \in 0..MaxFaults
    BY <1>4, FaultTypes DEF TakeBackTuple, TypeInv
  <2> QED BY <1>4, <2>2, <2>3 DEF TakeBackTuple, Others, Deleted, SlotsTyped, TypeInv, TypeOK
<1>5. CASE UnlistShare(c)
  <2> DEFINE u == req[c].user
             r == [req[c] EXCEPT !.pc = "swap", !.todo = @ \ {u}]
  <2>1. req[c] \in Requests /\ req[c].pc \in Steps /\ u \in Users
    BY <1>0, <1>5, SlotHasRequest DEF UnlistShare, At, TypeInv, InHand, SlotOK
  <2>2. /\ r \in Requests /\ r.pc = "swap" /\ r.op = req[c].op
        /\ r.todo \subseteq req[c].todo /\ r.pc \notin WithUser
    BY <1>0, <2>1, RequestFields DEF Requests
  <2>3. ASSUME req[c].op # "unshare",
             req' = [req EXCEPT ![c].pc = "swap", ![c].todo = @ \ {u}] PROVE SlotsTyped
    <3>1. req' = [req EXCEPT ![c] = r]
      BY <2>1, <2>3 DEF TypeInv, TypeOK
    <3>2. SlotOK(r)
      BY <1>5, <2>1, <2>2, <2>3, OpOfStep, SlotHasRequest
      DEF SlotOK, StepOf, UnlistShare, At, TypeInv, InHand
    <3> QED BY <2>2, <3>1, <3>2, SlotAssigned DEF SlotsTyped
  <2>4. SlotsTyped
    BY <1>5, <2>3, ReturnSlot DEF UnlistShare, SlotsTyped
  <2>5. faults' \in 0..MaxFaults
    BY <1>5, FaultTypes DEF UnlistShare, TypeInv
  <2> QED BY <1>5, <2>4, <2>5 DEF UnlistShare, Others, SlotsTyped, TypeInv, TypeOK
<1> QED BY <1>1, <1>2, <1>3, <1>4, <1>5

LEMMA PermissionTypes ==
    ASSUME TypeInv, NEW c \in Clients,
           \/ PlanGrants(c) \/ CommitMode(c) \/ SwapRevoke(c) \/ SwapGrant(c)
           \/ EnqueueGrant(c) \/ Replaced(c)
    PROVE  TypeInv'
<1>0. /\ {"check", "commit", "swap", "enqueue"} \subseteq Steps
      /\ "enqueue" \in WithUser /\ {"commit", "swap"} \cap WithUser = {}
  BY DEF Steps, WithUser
<1>1. CASE PlanGrants(c)
  <2> DEFINE r == [req[c] EXCEPT !.pc = "commit", !.fresh = NewGrants(c), !.again = MissingTuples(c)]
  <2>1. req[c] \in Requests
    BY <1>0, <1>1, SlotHasRequest DEF PlanGrants, At, TypeInv
  <2>2. NewGrants(c) \in SUBSET Users /\ MissingTuples(c) \in SUBSET Users
    BY <2>1 DEF NewGrants, MissingTuples, Requests
  <2>3. /\ r \in Requests /\ r.pc = "commit" /\ r.op = req[c].op
        /\ r.todo = req[c].todo /\ r.pc \notin WithUser
    BY <1>0, <2>1, <2>2, RequestFields DEF Requests
  <2>4. ASSUME req' = [req EXCEPT ![c].pc = "commit", ![c].fresh = NewGrants(c),
                                  ![c].again = MissingTuples(c)]
        PROVE  SlotsTyped
    <3>1. req' = [req EXCEPT ![c] = r]
      BY <2>1, <2>4 DEF TypeInv, TypeOK
    <3>2. SlotOK(r)
      BY <1>0, <1>1, <2>1, <2>3, OpOfStep, SlotHasRequest
      DEF SlotOK, StepOf, PlanGrants, At, TypeInv, InHand
    <3> QED BY <2>3, <3>1, <3>2, SlotAssigned DEF SlotsTyped
  <2>5. SlotsTyped
    BY <1>1, <2>4, ReturnSlot DEF PlanGrants, SlotsTyped
  <2>6. faults' \in 0..MaxFaults
    BY <1>1, FaultTypes DEF PlanGrants, TypeInv
  <2> QED BY <1>1, <2>5, <2>6 DEF PlanGrants, Others, Unlock, docVars, SlotsTyped, TypeInv, TypeOK
<1>2. CASE CommitMode(c)
  <2>1. SlotsTyped
    BY <1>0, <1>2, MoveTypes, OpOfStep DEF StepOf, CommitMode, At
  <2>2. faults' \in 0..MaxFaults
    BY <1>2, FaultTypes DEF CommitMode, TypeInv
  <2>3. req[c].mode \in Modes
    BY <1>0, <1>2, SlotHasRequest DEF CommitMode, At, Requests, TypeInv
  <2> QED BY <1>2, <2>1, <2>2, <2>3 DEF CommitMode, Others, Unlock, SlotsTyped, TypeInv, TypeOK
<1>3. CASE SwapRevoke(c)
  <2>0. req[c].pc \in Steps /\ req[c].todo \subseteq Users /\ StepOf(req[c].op, "unlist")
    BY <1>0, <1>3, SlotHasRequest, OpOfStep
    DEF SwapRevoke, At, StepOf, TypeInv, InHand, SlotOK
  <2>1. SlotsTyped
    BY <1>3, <2>0, UnlistTypes, ReturnSlot DEF SwapRevoke, SlotsTyped
  <2>2. faults' \in 0..MaxFaults
    BY <1>3, FaultTypes DEF SwapRevoke, TypeInv
  <2> QED BY <1>3, <2>1, <2>2 DEF SwapRevoke, Others, Deleted, SlotsTyped, TypeInv, TypeOK
<1>4. CASE SwapGrant(c)
  <2>1. PICK u \in req[c].fresh \cup req[c].again : ListShare(c, u)
    BY <1>4 DEF SwapGrant
  <2>2. req[c].pc \in Steps /\ u \in Users /\ StepOf(req[c].op, "grant")
    BY <1>0, <1>4, <2>1, SlotHasRequest, OpOfStep
    DEF SwapGrant, At, Requests, StepOf, TypeInv
  <2>3. SlotsTyped /\ shares' \subseteq Users /\ faults' \in 0..MaxFaults
    BY <2>1, <2>2, ListTypes, FaultTypes DEF TypeInv
  <2> QED BY <1>4, <2>3 DEF SwapGrant, Others, SlotsTyped, TypeInv, TypeOK
<1>5. CASE EnqueueGrant(c)
  <2>1. SlotsTyped
    BY <1>0, <1>5, MoveTypes, OpOfStep DEF StepOf, EnqueueGrant, At
  <2>2. faults' \in 0..MaxFaults
    BY <1>5, FaultTypes DEF EnqueueGrant, TypeInv
  <2>3. req[c].user \in Users
    BY SlotHasRequest, <1>0, <1>5 DEF EnqueueGrant, At, TypeInv, InHand, SlotOK
  <2> QED BY <1>5, <2>1, <2>2, <2>3 DEF EnqueueGrant, docVars, SlotsTyped, TypeInv, TypeOK
<1>6. CASE Replaced(c)
  <2>1. SlotsTyped
    BY <1>0, <1>6, MoveTypes, OpOfStep DEF StepOf, Replaced, At
  <2> QED BY <1>6, <2>1 DEF Replaced, Others, docVars, SlotsTyped, TypeInv, TypeOK
<1> QED BY <1>1, <1>2, <1>3, <1>4, <1>5, <1>6

\* Every step of the system
LEMMA TypeStep == TypeInv /\ [Next]_vars => TypeInv'
<1> SUFFICES ASSUME TypeInv, [Next]_vars PROVE TypeInv'
  OBVIOUS
<1>1. ASSUME NEW c \in Clients, Start(c) PROVE TypeInv'
  BY <1>1, StartTypes
<1>2. ASSUME NEW c \in Clients, Continue(c) PROVE TypeInv'
  BY <1>2, UploadTypes, ShareTypes, PermissionTypes DEF Continue
<1>3. ASSUME NEW c \in Clients, Abandon(c) PROVE TypeInv'
  <2>1. SlotsTyped
    BY <1>3, ReturnSlot DEF Abandon, SlotsTyped
  <2> QED BY <1>3, <2>1 DEF Abandon, Others, docVars, SlotsTyped, TypeInv, TypeOK
<1>4. ASSUME NEW u \in Users, ReplayGrant(u) PROVE TypeInv'
  BY <1>4 DEF ReplayGrant, histVars, InHand, TypeInv, TypeOK
<1>5. CASE EraseObject
  BY <1>5 DEF EraseObject, Erasure, histVars, InHand, TypeInv, TypeOK
<1>6. CASE ScanRows
  BY <1>6 DEF ScanRows, docVars, histVars, InHand, TypeInv, TypeOK
<1>7. CASE ScanObjects
  BY <1>7 DEF ScanObjects, InHand, TypeInv, TypeOK
<1>8. CASE UNCHANGED vars
  BY <1>8 DEF vars, docVars, histVars, InHand, TypeInv, TypeOK
<1> QED BY <1>1, <1>2, <1>3, <1>4, <1>5, <1>6, <1>7, <1>8 DEF Next

\* The rows, the tuples and the slots of the requests keep their types.
THEOREM DocumentTypeCorrect == Spec => []TypeOK
<1>1. Spec => []TypeInv
  BY TypeInit, TypeStep, PTL DEF Spec
<1>2. TypeInv => TypeOK
  BY DEF TypeInv
<1> QED BY <1>1, <1>2, PTL

-----------------------------------------------------------------------------
(* The document, its original and its relation *)

Live(c) == req[c] # Idle
Uploading(c) == Live(c) /\ req[c].op = "upload"

\* Before the upload there is nothing.
BeforeUpload ==
    row = "unborn" => /\ \A c \in Clients : req[c] = Idle
                      /\ ~accepted /\ erasure = "none"
                      /\ tuples = {} /\ shares = {} /\ queued = {}

\* There is one upload; what it was answered, and its object, while it goes on
UploadInv ==
    /\ \A c, d \in Clients : Uploading(c) /\ Uploading(d) => c = d
    /\ \A c \in Clients : Uploading(c) =>
        /\ ~accepted
        /\ req[c].pc = "insert" => row = "none"
        /\ req[c].pc # "drop_object" => object \/ swept \/ row = "gone"

\* Without a row there is no other request.
NeedsRow == row = "none" => \A c \in Clients : Live(c) => Uploading(c)

\* A delete drops the object, now or later, only after its commit.
DeletedFirst ==
    /\ erasure # "none" => row = "gone"
    /\ \A c \in Clients : At(c, "drop_object") /\ req[c].op = "delete" => row = "gone"

\* A delete of an accepted document still has the relation to revoke, or has done it.
RevokesRelation ==
    \A c \in Clients : At(c, "revoke") /\ req[c].op = "delete" /\ accepted =>
        Workspace \in req[c].todo \/ Workspace \notin tuples

LifeInv ==
    /\ BeforeUpload /\ UploadInv /\ NeedsRow /\ DeletedFirst /\ RevokesRelation
    /\ AcceptedHasObject /\ DeletedHasNoRelation /\ DeletedObjectIsKnown

LEMMA LifeInit == Init => LifeInv
BY DEF Init, LifeInv, BeforeUpload, UploadInv, NeedsRow, DeletedFirst, RevokesRelation,
       AcceptedHasObject, DeletedHasNoRelation, DeletedObjectIsKnown, Live, Uploading, At, Idle

\* A request that is not an upload or a delete touches none of this.
Quiet == {"share", "unshare", "replace", "mode"}

LEMMA LifeFrame ==
    ASSUME TypeInv, LifeInv, NEW c \in Clients, row # "unborn",
           UNCHANGED <<row, object, erasure, accepted, swept>>,
           Workspace \in tuples' => Workspace \in tuples,
           \A d \in Clients \ {c} : req'[d] = req[d],
           \/ req'[c] = Idle
           \/ req'[c].op \in Quiet /\ (row = "present" \/ (Live(c) /\ req[c].op \in Quiet))
    PROVE  LifeInv'
<1>1. BeforeUpload'
  BY DEF BeforeUpload
<1>2. UploadInv' /\ NeedsRow'
  BY DEF UploadInv, NeedsRow, LifeInv, Live, Uploading, Quiet
<1>3. DeletedFirst' /\ RevokesRelation'
  BY DEF DeletedFirst, RevokesRelation, LifeInv, At, Quiet, Idle
<1>4. AcceptedHasObject' /\ DeletedHasNoRelation' /\ DeletedObjectIsKnown'
  BY DEF AcceptedHasObject, DeletedHasNoRelation, DeletedObjectIsKnown, LifeInv
<1> QED BY <1>1, <1>2, <1>3, <1>4 DEF LifeInv

\* A request in progress has found a row, or is the upload that is to write it.
LEMMA LiveHasRow ==
    ASSUME TypeInv, LifeInv, NEW c \in Clients, Live(c)
    PROVE  row # "unborn" /\ (req[c].op # "upload" => row \in {"present", "gone"})
BY DEF TypeInv, TypeOK, LifeInv, BeforeUpload, NeedsRow, Live, Uploading

LEMMA LifeStart ==
    ASSUME TypeInv, LifeInv, NEW c \in Clients, Start(c)
    PROVE  LifeInv'
<1>1. CASE PutObject(c)
  <2>0. row = "unborn" /\ row' = "none" /\ UNCHANGED <<tuples, erasure, accepted, swept>>
    BY <1>1 DEF PutObject
  <2>1. /\ \A d \in Clients \ {c} : req'[d] = Idle
        /\ req'[c] = Idle \/ (req'[c].op = "upload" /\ req'[c].pc = "insert" /\ object')
    BY <1>1, <2>0 DEF PutObject, Begin, LifeInv, BeforeUpload, TypeInv, TypeOK
  <2> QED BY <2>0, <2>1 DEF LifeInv, BeforeUpload, UploadInv, NeedsRow, DeletedFirst,
             RevokesRelation, AcceptedHasObject, DeletedHasNoRelation, DeletedObjectIsKnown,
             Live, Uploading, At, Idle
<1>2. CASE DeleteDocument(c)
  <2>0. row = "present" /\ UNCHANGED <<row, tuples, object, erasure, accepted, swept>>
    BY <1>2 DEF DeleteDocument, LockRow, docVars
  <2>1. /\ \A d \in Clients \ {c} : req'[d] = req[d]
        /\ req'[c].op = "delete" /\ req'[c].pc = "revoke" /\ Workspace \in req'[c].todo
    BY <1>2 DEF DeleteDocument, Begin, TypeInv, TypeOK
  <2>2. BeforeUpload' /\ UploadInv' /\ NeedsRow'
    BY <2>0, <2>1 DEF LifeInv, BeforeUpload, UploadInv, NeedsRow, Live, Uploading
  <2>3. DeletedFirst' /\ RevokesRelation'
    BY <2>0, <2>1 DEF LifeInv, DeletedFirst, RevokesRelation, At
  <2> QED BY <2>0, <2>2, <2>3
          DEF LifeInv, AcceptedHasObject, DeletedHasNoRelation, DeletedObjectIsKnown
<1>3. ASSUME NEW pc, NEW op \in Quiet, NEW m, NEW target, NEW todo,
             Begin(c, pc, op, m, target, todo), row = "present",
             UNCHANGED <<docVars, accepted, swept>>
      PROVE  LifeInv'
  <2>1. (\A d \in Clients \ {c} : req'[d] = req[d]) /\ req'[c].op \in Quiet
    BY <1>3 DEF Begin, TypeInv, TypeOK
  <2> QED BY <1>3, <2>1, LifeFrame DEF docVars
<1>4. ASSUME NEW m \in Modes, SetAccessMode(c, m) PROVE LifeInv'
  BY <1>3, <1>4 DEF SetAccessMode, LockRow, Quiet
<1>5. ASSUME NEW u \in Users, ShareDocument(c, u) \/ RevokeShare(c, u) PROVE LifeInv'
  BY <1>3, <1>5 DEF ShareDocument, RevokeShare, Quiet
<1>6. ASSUME NEW m \in Modes, NEW target \in SUBSET Users, ReplacePermissions(c, m, target)
      PROVE  LifeInv'
  BY <1>3, <1>6 DEF ReplacePermissions, LockRow, Quiet
<1> QED BY <1>1, <1>2, <1>4, <1>5, <1>6 DEF Start

\* A step of a request keeps its name and leaves the other requests alone.
LEMMA ContinueKeepsOp ==
    ASSUME TypeInv, NEW c \in Clients, Continue(c)
    PROVE  /\ Live(c) /\ req[c] \in Requests
           /\ req'[c] = Idle \/ req'[c].op = req[c].op
           /\ \A d \in Clients \ {c} : req'[d] = req[d]
<1>1. req[c].pc \in Steps
  BY DEF Continue, InsertDocument, ensure_document_workspace_relation, DropRow, DropObject,
         RevokeTuple, CommitChange, InsertShare, GrantTuple, UndoShare, TakeBackTuple,
         UnlistShare, PlanGrants, CommitMode, SwapRevoke, SwapGrant, EnqueueGrant, Replaced,
         At, Steps
<1>2. Live(c) /\ req[c] \in Requests
  BY <1>1, SlotHasRequest DEF Live, TypeInv
<1>3. ASSUME NEW r, r.op = req[c].op, req' = [req EXCEPT ![c] = r]
      PROVE  req'[c].op = req[c].op /\ \A d \in Clients \ {c} : req'[d] = req[d]
  BY <1>3 DEF TypeInv, TypeOK
<1>4. ASSUME NEW u, ListShare(c, u)
      PROVE  /\ req'[c] = Idle \/ req'[c].op = req[c].op
             /\ \A d \in Clients \ {c} : req'[d] = req[d]
  <2> DEFINE r == [req[c] EXCEPT !.pc = "grant", !.user = u,
                                 !.fresh = @ \ {u}, !.again = @ \ {u}]
  <2>1. r.op = req[c].op
    BY <1>2 DEF Requests
  <2>2. req' = [req EXCEPT ![c] = r] \/ Return(c)
    BY <1>4 DEF ListShare
  <2> HIDE DEF r
  <2> QED BY <1>3, <2>1, <2>2, ReturnSlot
<1>5. ASSUME NEW pc, Goto(c, pc) \/ Return(c)
      PROVE  /\ req'[c] = Idle \/ req'[c].op = req[c].op
             /\ \A d \in Clients \ {c} : req'[d] = req[d]
  BY <1>2, <1>5, ReturnSlot DEF Goto, Requests, TypeInv, TypeOK
<1>6. CASE InsertShare(c) \/ SwapGrant(c)
  BY <1>2, <1>4, <1>6 DEF InsertShare, SwapGrant
<1>7. CASE \/ InsertDocument(c) \/ ensure_document_workspace_relation(c) \/ DropRow(c)
           \/ DropObject(c) \/ CommitChange(c) \/ GrantTuple(c) \/ UndoShare(c)
           \/ CommitMode(c) \/ EnqueueGrant(c) \/ Replaced(c)
  BY <1>2, <1>5, <1>7
  DEF InsertDocument, ensure_document_workspace_relation, DropRow, DropObject, CommitChange,
      GrantTuple, UndoShare, CommitMode, EnqueueGrant, Replaced
<1>8. CASE RevokeTuple(c) \/ TakeBackTuple(c) \/ UnlistShare(c) \/ PlanGrants(c) \/ SwapRevoke(c)
  BY <1>2, <1>8 DEF RevokeTuple, TakeBackTuple, UnlistShare, PlanGrants, SwapRevoke, Return,
                    Requests, TypeInv, TypeOK
<1> QED BY <1>2, <1>6, <1>7, <1>8 DEF Continue

\* The steps of shares and permissions
LEMMA LifeShares ==
    ASSUME TypeInv, LifeInv, NEW c \in Clients,
           \/ InsertShare(c) \/ GrantTuple(c) \/ UndoShare(c) \/ TakeBackTuple(c)
           \/ UnlistShare(c) \/ PlanGrants(c) \/ CommitMode(c) \/ SwapRevoke(c)
           \/ SwapGrant(c) \/ EnqueueGrant(c) \/ Replaced(c)
    PROVE  LifeInv'
<1>1. req[c].pc \in {"list", "grant", "undo", "take_back", "unlist", "check", "commit", "swap", "enqueue"}
  BY DEF InsertShare, GrantTuple, UndoShare, TakeBackTuple, UnlistShare, PlanGrants,
         CommitMode, SwapRevoke, SwapGrant, EnqueueGrant, Replaced, At
<1>2. Live(c) /\ req[c] \in Requests /\ req[c].op \in Quiet
  BY <1>1, SlotHasRequest, OpOfStep DEF Live, Steps, Quiet, TypeInv
<1>3. row # "unborn"
  BY <1>2, LiveHasRow
<1>4. UNCHANGED <<row, object, erasure, accepted, swept>>
  BY DEF InsertShare, GrantTuple, UndoShare, TakeBackTuple, UnlistShare, PlanGrants,
         CommitMode, SwapRevoke, SwapGrant, EnqueueGrant, Replaced, Others, docVars
<1>5. Workspace \in tuples' => Workspace \in tuples
  <2>1. req[c].pc = "grant" => req[c].user \in Users
    BY <1>2 DEF TypeInv, InHand, SlotOK, Live, WithUser
  <2> QED BY <2>1, DocumentAssumption
      DEF InsertShare, GrantTuple, UndoShare, TakeBackTuple, UnlistShare, PlanGrants, At,
          CommitMode, SwapRevoke, SwapGrant, EnqueueGrant, Replaced, Written, Deleted, docVars
<1>6. /\ req'[c] = Idle \/ req'[c].op = req[c].op
      /\ \A d \in Clients \ {c} : req'[d] = req[d]
  BY ContinueKeepsOp DEF Continue
<1>7. Live(c) /\ req'[c] # Idle => req'[c].op \in Quiet
  BY <1>2, <1>6
<1> QED BY <1>2, <1>3, <1>4, <1>5, <1>6, <1>7, LifeFrame

\* A request that ends, whatever it was
LEMMA LifeReturn ==
    ASSUME TypeInv, LifeInv, NEW c \in Clients, Live(c), Return(c),
           UNCHANGED <<row, object, erasure, accepted, swept>>,
           Workspace \in tuples' => Workspace \in tuples
    PROVE  LifeInv'
<1>1. row # "unborn"
  BY LiveHasRow
<1>2. req'[c] = Idle /\ \A d \in Clients \ {c} : req'[d] = req[d]
  BY ReturnSlot
<1> QED BY <1>1, <1>2, LifeFrame

\* The steps of the upload
LEMMA LifeUpload ==
    ASSUME TypeInv, LifeInv, NEW c \in Clients,
           InsertDocument(c) \/ ensure_document_workspace_relation(c) \/ DropRow(c)
    PROVE  LifeInv'
<1>1. req[c].pc \in {"insert", "relate", "drop_row"}
  BY DEF InsertDocument, ensure_document_workspace_relation, DropRow, At
<1>2. Uploading(c) /\ req[c] \in Requests /\ row # "unborn" /\ ~accepted
  BY <1>1, SlotHasRequest, OpOfStep, LiveHasRow
  DEF Uploading, Live, Steps, TypeInv, LifeInv, UploadInv
<1>3. \A d \in Clients \ {c} : req'[d] = req[d] /\ ~Uploading(d)
  BY <1>2 DEF InsertDocument, ensure_document_workspace_relation, DropRow, Goto, Return,
              TypeInv, TypeOK, LifeInv, UploadInv
<1>4. /\ \A pc : Goto(c, pc) => req'[c].pc = pc /\ req'[c].op = "upload"
      /\ Return(c) => req'[c] = Idle
  BY <1>2 DEF Goto, Return, Uploading, Requests, TypeInv, TypeOK
<1>5. CASE InsertDocument(c)
  <2>1. /\ row = "none" /\ row' \in {"none", "present"} /\ (object \/ swept)
        /\ UNCHANGED <<tuples, object, erasure, accepted, swept>>
        /\ req'[c].op = "upload" /\ req'[c].pc \in {"relate", "drop_object"}
    BY <1>2, <1>4, <1>5 DEF InsertDocument, Others, At, LifeInv, UploadInv
  <2>2. BeforeUpload' /\ UploadInv' /\ NeedsRow'
    BY <1>2, <1>3, <2>1 DEF LifeInv, BeforeUpload, UploadInv, NeedsRow, Live, Uploading
  <2>3. DeletedFirst' /\ RevokesRelation'
    BY <1>3, <2>1 DEF LifeInv, DeletedFirst, RevokesRelation, At
  <2> QED BY <1>2, <2>1, <2>2, <2>3
          DEF LifeInv, AcceptedHasObject, DeletedHasNoRelation, DeletedObjectIsKnown
<1>6. CASE ensure_document_workspace_relation(c)
  <2>1. accepted' = (row = "present" /\ ~Deleting) \/ accepted' = accepted
    BY <1>6 DEF ensure_document_workspace_relation
  <2>2. accepted' => row = "present" /\ ~Deleting
    BY <1>2, <2>1
  <2>3. Goto(c, "drop_row") => accepted' = accepted
    BY <1>4, <1>6 DEF ensure_document_workspace_relation, Idle
  <2>4. UNCHANGED <<row, object, erasure, swept>> /\ (Return(c) \/ Goto(c, "drop_row"))
    BY <1>6 DEF ensure_document_workspace_relation
  <2>5. object \/ swept \/ row = "gone"
    BY <1>2, <1>6 DEF ensure_document_workspace_relation, At, LifeInv, UploadInv
  <2>6. /\ UNCHANGED <<row, object, erasure, swept>>
        /\ req'[c] = Idle \/ (req'[c].op = "upload" /\ req'[c].pc = "drop_row" /\ ~accepted')
        /\ object \/ swept \/ row = "gone"
        /\ accepted' => row = "present" /\ ~Deleting
    BY <1>2, <1>4, <2>2, <2>3, <2>4, <2>5
  <2>7. BeforeUpload' /\ UploadInv' /\ NeedsRow'
    BY <1>2, <1>3, <2>6 DEF LifeInv, BeforeUpload, UploadInv, NeedsRow, Live, Uploading
  <2>8. DeletedFirst' /\ RevokesRelation'
    BY <1>3, <2>6 DEF LifeInv, DeletedFirst, RevokesRelation, At, Deleting, Idle
  <2> QED BY <1>2, <2>6, <2>7, <2>8
          DEF LifeInv, AcceptedHasObject, DeletedHasNoRelation, DeletedObjectIsKnown
<1>7. CASE DropRow(c)
  <2>1. /\ row' \in {"gone", row} /\ UNCHANGED <<tuples, object, erasure, accepted, swept>>
        /\ req'[c].op = "upload" /\ req'[c].pc = "drop_object"
    BY <1>2, <1>4, <1>7 DEF DropRow, Others
  <2>2. BeforeUpload' /\ UploadInv' /\ NeedsRow'
    BY <1>2, <1>3, <2>1 DEF LifeInv, BeforeUpload, UploadInv, NeedsRow, Live, Uploading
  <2>3. DeletedFirst' /\ RevokesRelation'
    BY <1>3, <2>1 DEF LifeInv, DeletedFirst, RevokesRelation, At
  <2> QED BY <1>2, <2>1, <2>2, <2>3
          DEF LifeInv, AcceptedHasObject, DeletedHasNoRelation, DeletedObjectIsKnown
<1> QED BY <1>5, <1>6, <1>7

\* The end of an upload or a delete, and the steps under the row's lock
LEMMA LifeDelete ==
    ASSUME TypeInv, LifeInv, NEW c \in Clients,
           DropObject(c) \/ RevokeTuple(c) \/ CommitChange(c)
    PROVE  LifeInv'
<1>1. req[c].pc \in {"drop_object", "revoke"}
  BY DEF DropObject, RevokeTuple, CommitChange, At
<1>2. Live(c) /\ req[c] \in Requests /\ row # "unborn" /\ StepOf(req[c].op, req[c].pc)
  BY <1>1, SlotHasRequest, OpOfStep, LiveHasRow DEF Live, Steps, TypeInv
<1>3. CASE DropObject(c)
  <2>1. /\ req'[c] = Idle /\ \A d \in Clients \ {c} : req'[d] = req[d]
        /\ UNCHANGED <<row, tuples, erasure, accepted, swept>>
    BY <1>3, ReturnSlot DEF DropObject, Others
  <2>2. object' = FALSE \/ object' = object
    BY <1>3 DEF DropObject
  <2>3. (Uploading(c) /\ ~accepted) \/ row = "gone"
    BY <1>2, <1>3 DEF StepOf, DropObject, At, Uploading, LifeInv, UploadInv, DeletedFirst
  <2>4. BeforeUpload' /\ UploadInv' /\ NeedsRow'
    BY <1>2, <2>1, <2>3, <2>2 DEF LifeInv, BeforeUpload, UploadInv, NeedsRow, Live, Uploading
  <2>5. DeletedFirst' /\ RevokesRelation'
    BY <2>1 DEF LifeInv, DeletedFirst, RevokesRelation, At, Idle
  <2> QED BY <2>1, <2>3, <2>4, <2>5, <2>2
          DEF LifeInv, AcceptedHasObject, DeletedHasNoRelation, DeletedObjectIsKnown
<1>4. CASE RevokeTuple(c)
  <2>0. UNCHANGED <<row, object, erasure, accepted, swept>> /\ tuples' \subseteq tuples
    BY <1>4 DEF RevokeTuple, Others, Deleted
  <2>1. CASE Return(c)
    BY <1>2, <2>0, <2>1, LifeReturn
  <2>2. CASE ~Return(c)
    <3>1. PICK t \in req[c].todo : /\ tuples' = tuples \ {t}
                                   /\ req' = [req EXCEPT ![c].todo = @ \ {t}]
      BY <1>4, <2>2 DEF RevokeTuple, Deleted
    <3> DEFINE r == [req[c] EXCEPT !.todo = @ \ {t}]
    <3>2. r.op = req[c].op /\ r.pc = req[c].pc /\ r.todo = req[c].todo \ {t}
      BY <1>2 DEF Requests
    <3>6. r # Idle
      BY <1>1, <3>2 DEF Idle
    <3>3. req'[c] = r /\ \A d \in Clients \ {c} : req'[d] = req[d]
      BY <3>1 DEF TypeInv, TypeOK
    <3> HIDE DEF r
    <3>4. BeforeUpload' /\ UploadInv' /\ NeedsRow'
      BY <1>2, <2>0, <3>2, <3>3, <3>6
      DEF LifeInv, BeforeUpload, UploadInv, NeedsRow, Live, Uploading
    <3>5. DeletedFirst' /\ RevokesRelation'
      BY <2>0, <3>1, <3>2, <3>3 DEF LifeInv, DeletedFirst, RevokesRelation, At
    <3> QED BY <2>0, <3>4, <3>5
            DEF LifeInv, AcceptedHasObject, DeletedHasNoRelation, DeletedObjectIsKnown
  <2> QED BY <2>1, <2>2
<1>5. CASE CommitChange(c)
  <2>0. /\ req[c].pc = "revoke" /\ req[c].todo = {} /\ req[c].op \in {"mode", "delete"}
        /\ UNCHANGED <<tuples, object, accepted, swept>>
    BY <1>2, <1>5 DEF CommitChange, Others, At, StepOf
  <2>1. CASE UNCHANGED <<row, erasure>> /\ Return(c)
    BY <1>2, <2>0, <2>1, LifeReturn
  <2>2. CASE ~(UNCHANGED <<row, erasure>> /\ Return(c))
    <3>1. /\ req[c].op = "delete" /\ row' = "gone" /\ erasure' = "pending"
          /\ Return(c) \/ Goto(c, "drop_object")
      BY <1>5, <2>0, <2>2 DEF CommitChange, Change
    <3>2. /\ \A d \in Clients \ {c} : req'[d] = req[d]
          /\ req'[c] = Idle \/ (req'[c].pc = "drop_object" /\ req'[c].op = "delete")
      BY <1>2, <3>1 DEF Goto, Return, Requests, TypeInv, TypeOK
    <3>3. ~Uploading(c) /\ row \notin {"unborn", "none"}
      BY <1>2, <2>0, <3>1, LiveHasRow DEF Uploading
    <3>4. BeforeUpload' /\ UploadInv' /\ NeedsRow'
      BY <2>0, <3>1, <3>2, <3>3 DEF LifeInv, BeforeUpload, UploadInv, NeedsRow, Live, Uploading
    <3>5. DeletedFirst' /\ RevokesRelation'
      BY <2>0, <3>1, <3>2 DEF LifeInv, DeletedFirst, RevokesRelation, At, Idle
    <3>6. accepted => Workspace \notin tuples
      BY <2>0, <3>1 DEF LifeInv, RevokesRelation, At
    <3> QED BY <2>0, <3>1, <3>4, <3>5, <3>6
            DEF LifeInv, AcceptedHasObject, DeletedHasNoRelation, DeletedObjectIsKnown
  <2> QED BY <2>1, <2>2
<1> QED BY <1>3, <1>4, <1>5

LEMMA LifeStep == TypeInv /\ LifeInv /\ [Next]_vars => LifeInv'
<1> SUFFICES ASSUME TypeInv, LifeInv, [Next]_vars PROVE LifeInv'
  OBVIOUS
<1>1. ASSUME NEW c \in Clients, Start(c) PROVE LifeInv'
  BY <1>1, LifeStart
<1>2. ASSUME NEW c \in Clients, Continue(c) PROVE LifeInv'
  BY <1>2, LifeUpload, LifeDelete, LifeShares DEF Continue
<1>3. ASSUME NEW c \in Clients, Abandon(c) PROVE LifeInv'
  BY <1>3, LifeReturn DEF Abandon, Live, Others, docVars
<1> DEFINE Frame == /\ UNCHANGED <<row, req, accepted, shares>>
                    /\ Workspace \in tuples' => Workspace \in tuples
                    /\ row = "unborn" => UNCHANGED <<tuples, queued, erasure>>
                    /\ UNCHANGED <<object, swept>> \/ swept' \/ row = "gone"
                    /\ ~object => ~object'
                    /\ swept => swept'
                    /\ erasure' # "none" => erasure # "none"
                    /\ object' /\ erasure \in {"pending", "dead"} => erasure' \in {"pending", "dead"}
<1>4. ASSUME Frame PROVE LifeInv'
  <2>1. BeforeUpload' /\ NeedsRow'
    BY <1>4 DEF LifeInv, BeforeUpload, NeedsRow, Live, Uploading
  <2>2. UploadInv'
    BY <1>4 DEF LifeInv, UploadInv, Live, Uploading
  <2>3. DeletedFirst' /\ RevokesRelation'
    BY <1>4 DEF LifeInv, DeletedFirst, RevokesRelation, At
  <2>4. AcceptedHasObject' /\ DeletedHasNoRelation' /\ DeletedObjectIsKnown'
    BY <1>4 DEF LifeInv, AcceptedHasObject, DeletedHasNoRelation, DeletedObjectIsKnown
  <2> QED BY <2>1, <2>2, <2>3, <2>4 DEF LifeInv
<1>5. ASSUME NEW u \in Users, ReplayGrant(u) PROVE Frame
  BY <1>5, DocumentAssumption DEF ReplayGrant, histVars, LifeInv, BeforeUpload
<1>6. ASSUME EraseObject PROVE Frame
  <2>1. /\ erasure = "pending" /\ UNCHANGED <<row, req, accepted, shares, tuples, queued, swept>>
        /\ object' = FALSE \/ (object' = object /\ erasure' \in {"pending", "dead"})
        /\ object' = FALSE \/ object' = object
    BY <1>6 DEF EraseObject, histVars
  <2>2. row = "gone"
    BY <2>1 DEF LifeInv, DeletedFirst
  <2> QED BY <2>1, <2>2
<1>7. ASSUME ScanRows \/ ScanObjects \/ UNCHANGED vars PROVE Frame
  BY <1>7 DEF ScanRows, ScanObjects, vars, docVars, histVars
<1> QED BY <1>1, <1>2, <1>3, <1>4, <1>5, <1>6, <1>7 DEF Next

\* Types and the life of the document hold together in every reachable state.
LEMMA LifeInvariant == Spec => [](TypeInv /\ LifeInv)
<1>1. TypeInv /\ LifeInv /\ [Next]_vars => (TypeInv /\ LifeInv)'
  BY TypeStep, LifeStep
<1>2. Init => TypeInv /\ LifeInv
  BY TypeInit, LifeInit
<1> QED BY <1>1, <1>2, PTL DEF Spec

\* An accepted document keeps its original as long as its row exists and no early
\* storage scan deletes it: documents.rs never drops the object before a commit
\* that removes the row.
THEOREM AcceptedHasObjectHolds == Spec => []AcceptedHasObject
<1>1. LifeInv => AcceptedHasObject
  BY DEF LifeInv
<1> QED BY <1>1, LifeInvariant, PTL

\* A document accepted and then deleted has lost its workspace relation:
\* delete_document revokes it before its transaction and nothing writes it again.
THEOREM DeletedHasNoRelationHolds == Spec => []DeletedHasNoRelation
<1>1. LifeInv => DeletedHasNoRelation
  BY DEF LifeInv
<1> QED BY <1>1, LifeInvariant, PTL

\* The original of a deleted document is there only while a row of storage_outbox,
\* committed with the delete, says so (delete_document, storage/outbox.rs).
THEOREM DeletedObjectIsKnownHolds == Spec => []DeletedObjectIsKnown
<1>1. LifeInv => DeletedObjectIsKnown
  BY DEF LifeInv
<1> QED BY <1>1, LifeInvariant, PTL

-----------------------------------------------------------------------------
(* The tuples of users and their share rows *)

\* A request that grants is alone: an overlap would have exposed everybody.
GrantAlone ==
    \A c, d \in Clients : c # d /\ Live(c) /\ Live(d) => req[c].op \notin Granting

\* The tuples of users that a request will leave behind with their row, or without
ShareInv(c) ==
    LET r == req[c] IN
    Live(c) =>
        /\ r.pc = "grant" => r.user \in shares
        /\ r.pc = "unlist" => r.user \notin tuples \/ r.user \in exposed
        /\ r.op # "replace" => r.again = {}
        /\ r.op = "replace" => /\ r.todo \cap r.target = {}
                               /\ r.again \subseteq shares \cap r.target
                               /\ r.pc = "unlist" => r.user \in r.todo
        /\ r.pc = "revoke" /\ (r.op = "delete" \/ r.mode = "workspace_default") =>
             tuples \cap Users \subseteq r.todo \cup exposed
        /\ r.op = "upload" => tuples \cap Users \subseteq exposed

GrantInv ==
    /\ queued \subseteq exposed
    /\ exposed # Users =>
        /\ GrantAlone
        /\ \A c \in Clients : ShareInv(c)
        /\ NoTupleWithoutRow

LEMMA GrantInit == Init => GrantInv
<1> SUFFICES ASSUME Init PROVE GrantInv
  OBVIOUS
<1>1. (\A c \in Clients : ~Live(c)) /\ queued = {}
  BY DEF Init, Live
<1>2. NoTupleWithoutRow
  BY DocumentAssumption DEF Init, NoTupleWithoutRow
<1> QED BY <1>1, <1>2 DEF GrantInv, GrantAlone, ShareInv

\* A step of one request keeps GrantAlone.
LEMMA AloneKept ==
    ASSUME GrantAlone, NEW c \in Clients,
           \A d \in Clients \ {c} : req'[d] = req[d],
           req'[c] = Idle \/ (Live(c) /\ req'[c].op = req[c].op)
    PROVE  GrantAlone'
BY DEF GrantAlone, Live

\* With a request that grants nobody else is in progress.
LEMMA GrantingIsAlone ==
    ASSUME GrantAlone, NEW c \in Clients, Live(c), req[c].op \in Granting
    PROVE  \A d \in Clients \ {c} : req[d] = Idle
BY DEF GrantAlone, Live

\* A step that lists no share and writes no tuple of a user disturbs no other request.
LEMMA GrantFrame ==
    ASSUME TypeInv, GrantInv, NEW c \in Clients,
           UNCHANGED shares, tuples' \cap Users \subseteq tuples,
           exposed \subseteq exposed', exposed' \subseteq Users,
           queued' \subseteq queued \cup exposed',
           \A d \in Clients \ {c} : req'[d] = req[d],
           exposed' # Users => GrantAlone' /\ ShareInv(c)'
    PROVE  GrantInv'
<1>1. queued' \subseteq exposed'
  BY DEF GrantInv
<1> SUFFICES ASSUME exposed' # Users
             PROVE  /\ \A d \in Clients \ {c} : ShareInv(d)'
                    /\ NoTupleWithoutRow'
  BY <1>1 DEF GrantInv
<1>2. exposed # Users
  OBVIOUS
<1>3. NoTupleWithoutRow'
  BY <1>2 DEF GrantInv, NoTupleWithoutRow
<1>4. ASSUME NEW d \in Clients \ {c} PROVE ShareInv(d)'
  <2>1. ShareInv(d) /\ SlotOK(req[d]) /\ req'[d] = req[d]
    BY <1>2 DEF GrantInv, TypeInv, InHand
  <2> QED BY <2>1 DEF ShareInv, SlotOK, Live, WithUser
<1> QED BY <1>3, <1>4

\* A request that begins: without an overlap, or everybody is exposed
LEMMA BeginAlone ==
    ASSUME TypeInv, GrantInv, NEW c \in Clients, NEW pc, NEW op, NEW m, NEW target, NEW todo,
           Begin(c, pc, op, m, target, todo)
    PROVE  /\ exposed \subseteq exposed' /\ exposed' \subseteq Users
           /\ req'[c] = [pc |-> pc, op |-> op, mode |-> m, target |-> target, todo |-> todo,
                         fresh |-> {}, again |-> {}, user |-> Workspace]
           /\ \A d \in Clients \ {c} : req'[d] = req[d]
           /\ exposed' # Users => exposed' = exposed /\ GrantAlone'
<1>1. exposed \subseteq exposed' /\ exposed' \subseteq Users
  BY DEF Begin, TypeInv, TypeOK
<1>2. /\ req'[c] = [pc |-> pc, op |-> op, mode |-> m, target |-> target, todo |-> todo,
                    fresh |-> {}, again |-> {}, user |-> Workspace]
      /\ \A d \in Clients \ {c} : req'[d] = req[d]
  BY DEF Begin, TypeInv, TypeOK
<1>3. ASSUME exposed' # Users PROVE exposed' = exposed /\ GrantAlone'
  <2>1. /\ exposed' = exposed
        /\ \A d \in Clients : req[d] # Idle => {op, req[d].op} \cap Granting = {}
    BY <1>3 DEF Begin
  <2>2. GrantAlone
    BY <1>3, <2>1 DEF GrantInv
  <2>3. \A d \in Clients \ {c} : req[d] # Idle => op \notin Granting /\ req[d].op \notin Granting
    BY <2>1
  <2> QED BY <1>2, <2>1, <2>2, <2>3 DEF GrantAlone, Live
<1> QED BY <1>1, <1>2, <1>3

LEMMA GrantStart ==
    ASSUME TypeInv, LifeInv, GrantInv, NEW c \in Clients, Start(c)
    PROVE  GrantInv'
<1> DEFINE New(pc, op, m, target, todo) ==
             [pc |-> pc, op |-> op, mode |-> m, target |-> target, todo |-> todo,
              fresh |-> {}, again |-> {}, user |-> Workspace]
\* What a request has to say of itself when it begins, in the terms of ShareInv
<1>0. ASSUME NEW pc, pc \notin WithUser, NEW op, NEW m, NEW target, NEW todo,
             Begin(c, pc, op, m, target, todo), UNCHANGED <<shares, tuples, queued>>,
             op = "replace" => todo \cap target = {},
             op = "upload" => tuples = {},
             pc = "revoke" /\ (op = "delete" \/ m = "workspace_default") =>
               shares \subseteq todo
      PROVE  GrantInv'
  <2>1. /\ exposed \subseteq exposed' /\ exposed' \subseteq Users
        /\ req'[c] = New(pc, op, m, target, todo)
        /\ \A d \in Clients \ {c} : req'[d] = req[d]
        /\ exposed' # Users => exposed' = exposed /\ GrantAlone'
    BY <1>0, BeginAlone
  <2>2. ASSUME exposed' # Users PROVE ShareInv(c)'
    <3>1. tuples \cap Users \subseteq shares \cup exposed
      BY <2>1, <2>2 DEF GrantInv, NoTupleWithoutRow
    <3> QED BY <1>0, <2>1, <2>2, <3>1 DEF ShareInv, WithUser
  <2> QED BY <1>0, <2>1, <2>2, GrantFrame
<1>1. CASE PutObject(c)
  <2>1. row = "unborn" /\ UNCHANGED <<shares, tuples, queued>> /\ tuples = {}
    BY <1>1 DEF PutObject, LifeInv, BeforeUpload
  <2>2. CASE Begin(c, "insert", "upload", mode, {}, {})
    BY <1>0, <2>1, <2>2 DEF WithUser
  <2>3. CASE UNCHANGED <<req, exposed>>
    <3>1. UNCHANGED <<GrantAlone, NoTupleWithoutRow>> /\ \A d \in Clients : ShareInv(d)' = ShareInv(d)
      BY <2>1, <2>3 DEF GrantAlone, NoTupleWithoutRow, ShareInv, Live
    <3> QED BY <2>1, <2>3, <3>1 DEF GrantInv
  <2> QED BY <1>1, <2>2, <2>3 DEF PutObject
<1>2. ASSUME NEW m \in Modes, SetAccessMode(c, m) PROVE GrantInv'
  BY <1>0, <1>2 DEF SetAccessMode, docVars, WithUser
<1>3. CASE DeleteDocument(c)
  BY <1>0, <1>3 DEF DeleteDocument, docVars, WithUser
<1>4. ASSUME NEW u \in Users, ShareDocument(c, u) \/ RevokeShare(c, u) PROVE GrantInv'
  BY <1>0, <1>4 DEF ShareDocument, RevokeShare, docVars, WithUser
<1>5. ASSUME NEW m \in Modes, NEW target \in SUBSET Users, ReplacePermissions(c, m, target)
      PROVE  GrantInv'
  BY <1>0, <1>5 DEF ReplacePermissions, docVars, WithUser
<1> QED BY <1>1, <1>2, <1>3, <1>4, <1>5 DEF Start

\* A request that ends, or moves to a step ShareInv says nothing of
LEMMA GrantMove ==
    ASSUME TypeInv, GrantInv, NEW c \in Clients, Live(c),
           \/ Return(c)
           \/ \E pc \in Steps \ {"grant", "unlist", "revoke"} : Goto(c, pc),
           UNCHANGED shares, tuples' \cap Users \subseteq tuples,
           exposed \subseteq exposed', exposed' \subseteq Users,
           queued' \subseteq queued \cup exposed'
    PROVE  GrantInv'
<1>1. req[c] \in Requests
  BY SlotHasRequest DEF Live, TypeInv
<1>2. CASE Return(c)
  <2>1. req'[c] = Idle /\ \A d \in Clients \ {c} : req'[d] = req[d]
    BY <1>2, ReturnSlot
  <2>2. ASSUME exposed' # Users PROVE GrantAlone' /\ ShareInv(c)'
    <3>1. GrantAlone
      BY <2>2 DEF GrantInv
    <3> QED BY <2>1, <3>1, AloneKept DEF ShareInv, Live
  <2> QED BY <2>1, <2>2, GrantFrame
<1>3. CASE ~Return(c)
  <2>1. PICK pc \in Steps \ {"grant", "unlist", "revoke"} : Goto(c, pc)
    BY <1>3
  <2>2. \A d \in Clients \ {c} : req'[d] = req[d]
    BY <2>1 DEF Goto, TypeInv, TypeOK
  <2>3. /\ req'[c].pc = pc /\ req'[c].op = req[c].op /\ req'[c].todo = req[c].todo
        /\ req'[c].target = req[c].target /\ req'[c].again = req[c].again
    BY <1>1, <2>1 DEF Goto, Requests, TypeInv, TypeOK
  <2>4. ASSUME exposed' # Users PROVE GrantAlone' /\ ShareInv(c)'
    <3>1. GrantAlone /\ ShareInv(c)
      BY <2>4 DEF GrantInv
    <3>2. GrantAlone'
      BY <2>2, <2>3, <3>1, AloneKept
    <3> QED BY <2>3, <3>1, <3>2 DEF ShareInv, Live
  <2> QED BY <2>2, <2>4, GrantFrame
<1> QED BY <1>2, <1>3

\* The steps that write no share row and no tuple of a user
LEMMA GrantQuiet ==
    ASSUME TypeInv, GrantInv, NEW c \in Clients,
           \/ InsertDocument(c) \/ ensure_document_workspace_relation(c) \/ DropObject(c)
           \/ CommitMode(c) \/ EnqueueGrant(c) \/ Replaced(c)
    PROVE  GrantInv'
<1>1. req[c].pc \in {"insert", "relate", "drop_object", "commit", "enqueue", "swap"}
  BY DEF InsertDocument, ensure_document_workspace_relation, DropObject, CommitMode,
         EnqueueGrant, Replaced, At
<1>2. Live(c) /\ (req[c].pc = "enqueue" => req[c].user \in Users)
  BY <1>1, SlotHasRequest DEF Live, Steps, TypeInv, InHand, SlotOK, WithUser
<1>3. Return(c) \/ \E pc \in Steps \ {"grant", "unlist", "revoke"} : Goto(c, pc)
  BY DEF InsertDocument, ensure_document_workspace_relation, DropObject, CommitMode,
         EnqueueGrant, Replaced, Steps
<1>4. UNCHANGED shares /\ tuples' \cap Users \subseteq tuples
  BY DocumentAssumption
  DEF InsertDocument, ensure_document_workspace_relation, DropObject, CommitMode,
      EnqueueGrant, Replaced, Written, docVars
<1>5. /\ exposed \subseteq exposed' /\ exposed' \subseteq Users
      /\ queued' \subseteq queued \cup exposed'
  BY <1>2 DEF InsertDocument, ensure_document_workspace_relation, DropObject, CommitMode,
     EnqueueGrant, Replaced, Others, At, TypeInv, TypeOK
<1> QED BY <1>2, <1>3, <1>4, <1>5, GrantMove

\* Revocations, and the plan of a replacement
LEMMA GrantRevoke ==
    ASSUME TypeInv, GrantInv, NEW c \in Clients,
           RevokeTuple(c) \/ TakeBackTuple(c) \/ SwapRevoke(c) \/ PlanGrants(c)
    PROVE  GrantInv'
<1>1. req[c].pc \in {"revoke", "take_back", "swap", "check"}
  BY DEF RevokeTuple, TakeBackTuple, SwapRevoke, PlanGrants, At
<1>2. Live(c) /\ req[c] \in Requests /\ StepOf(req[c].op, req[c].pc)
  BY <1>1, SlotHasRequest, OpOfStep DEF Live, Steps, TypeInv
<1>3. /\ UNCHANGED <<shares, exposed, queued>> /\ tuples' \subseteq tuples
      /\ exposed \subseteq Users
  BY DEF RevokeTuple, TakeBackTuple, SwapRevoke, PlanGrants, Others, Deleted, docVars,
         TypeInv, TypeOK
<1>4. CASE Return(c)
  BY <1>2, <1>3, <1>4, GrantMove
<1>5. ASSUME NEW r \in Requests, req' = [req EXCEPT ![c] = r], r.op = req[c].op,
             exposed # Users /\ ShareInv(c) => ShareInv(c)'
      PROVE  GrantInv'
  <2>1. req'[c] = r /\ \A d \in Clients \ {c} : req'[d] = req[d]
    BY <1>5 DEF TypeInv, TypeOK
  <2>2. ASSUME exposed' # Users PROVE GrantAlone' /\ ShareInv(c)'
    <3>1. GrantAlone /\ ShareInv(c)
      BY <1>3, <2>2 DEF GrantInv
    <3> QED BY <1>2, <1>3, <1>5, <2>1, <2>2, <3>1, AloneKept
  <2> QED BY <1>3, <2>1, <2>2, GrantFrame
<1>6. CASE RevokeTuple(c) /\ ~Return(c)
  <2>1. PICK t \in req[c].todo : /\ tuples' = tuples \ {t}
                                 /\ req' = [req EXCEPT ![c].todo = @ \ {t}]
    BY <1>6 DEF RevokeTuple, Deleted
  <2> DEFINE r == [req[c] EXCEPT !.todo = @ \ {t}]
  <2>2. /\ r \in Requests /\ r.pc = "revoke" /\ r.op = req[c].op /\ r.mode = req[c].mode
        /\ r.todo = req[c].todo \ {t} /\ req[c].pc = "revoke" /\ r.op \in {"mode", "delete"}
    BY <1>2, <1>6, RequestFields DEF Requests, RevokeTuple, At, StepOf
  <2>3. req' = [req EXCEPT ![c] = r] /\ req'[c] = r
    BY <2>1 DEF TypeInv, TypeOK
  <2> HIDE DEF r
  <2>4. ShareInv(c) => ShareInv(c)'
    BY <1>2, <1>3, <2>1, <2>2, <2>3 DEF ShareInv, Live
  <2> QED BY <1>5, <2>2, <2>3, <2>4
<1>7. CASE (TakeBackTuple(c) \/ SwapRevoke(c)) /\ ~Return(c)
  <2>1. PICK u : /\ u \in req[c].target \/ u \in req[c].todo
                 /\ req[c].op = "replace" => u \in req[c].todo
                 /\ tuples' = tuples \ {u} /\ u \in Users
                 /\ req' = [req EXCEPT ![c].pc = "unlist", ![c].user = u]
    <3>1. CASE TakeBackTuple(c)
      <4>1. req[c].op = "unshare" /\ req[c].target \subseteq Users
        BY <1>2, <3>1, OpOfStep DEF TakeBackTuple, At, StepOf, Requests
      <4> QED BY <1>7, <3>1, <4>1 DEF TakeBackTuple, Deleted
    <3>2. CASE SwapRevoke(c)
      <4>1. req[c].op = "replace" /\ req[c].todo \subseteq Users
        BY <1>2, <3>2 DEF SwapRevoke, At, StepOf, TypeInv, InHand, SlotOK, Live
      <4> QED BY <1>7, <3>2, <4>1 DEF SwapRevoke, Deleted
    <3> QED BY <1>7, <3>1, <3>2
  <2> DEFINE r == [req[c] EXCEPT !.pc = "unlist", !.user = u]
  <2>2. /\ r \in Requests /\ r.pc = "unlist" /\ r.op = req[c].op /\ r.user = u
        /\ r.todo = req[c].todo /\ r.target = req[c].target /\ r.again = req[c].again
        /\ req[c].op # "upload"
    BY <1>2, <1>7, <2>1, RequestFields DEF Requests, TakeBackTuple, SwapRevoke, At, StepOf
  <2>3. req' = [req EXCEPT ![c] = r] /\ req'[c] = r
    BY <1>2, <2>1 DEF TypeInv, TypeOK
  <2> HIDE DEF r
  <2>4. ShareInv(c) => ShareInv(c)'
    BY <1>2, <1>3, <2>1, <2>2, <2>3 DEF ShareInv, Live
  <2> QED BY <1>5, <2>2, <2>3, <2>4
<1>8. CASE PlanGrants(c) /\ ~Return(c)
  <2> DEFINE r == [req[c] EXCEPT !.pc = "commit", !.fresh = NewGrants(c), !.again = MissingTuples(c)]
  <2>1. req' = [req EXCEPT ![c].pc = "commit", ![c].fresh = NewGrants(c), ![c].again = MissingTuples(c)]
    BY <1>8 DEF PlanGrants
  <2>2. NewGrants(c) \in SUBSET Users /\ MissingTuples(c) \in SUBSET Users
    BY <1>2 DEF NewGrants, MissingTuples, Requests
  <2>3. /\ r \in Requests /\ r.pc = "commit" /\ r.op = req[c].op /\ r.todo = req[c].todo
        /\ r.target = req[c].target /\ r.again = MissingTuples(c) /\ r.op = "replace"
    BY <1>2, <1>8, <2>2, RequestFields DEF Requests, PlanGrants, At, StepOf
  <2>4. req' = [req EXCEPT ![c] = r] /\ req'[c] = r
    BY <1>2, <2>1 DEF TypeInv, TypeOK
  <2>5. MissingTuples(c) \subseteq shares \cap req[c].target
    BY DEF MissingTuples
  <2> HIDE DEF r
  <2>6. ShareInv(c) => ShareInv(c)'
    BY <1>2, <1>3, <2>3, <2>4, <2>5 DEF ShareInv, Live
  <2> QED BY <1>5, <2>3, <2>4, <2>6
<1> QED BY <1>4, <1>6, <1>7, <1>8

\* A request that grants is alone: what it says of itself is all there is to say.
LEMMA GrantingStep ==
    ASSUME TypeInv, GrantInv, NEW c \in Clients, Live(c), req[c].op \in Granting,
           \A d \in Clients \ {c} : req'[d] = req[d],
           req'[c] = Idle \/ req'[c].op = req[c].op,
           exposed \subseteq exposed', exposed' \subseteq Users, UNCHANGED queued,
           exposed' # Users => NoTupleWithoutRow' /\ ShareInv(c)'
    PROVE  GrantInv'
<1>1. queued' \subseteq exposed'
  BY DEF GrantInv
<1>2. ASSUME exposed' # Users
      PROVE  GrantAlone' /\ NoTupleWithoutRow' /\ \A d \in Clients : ShareInv(d)'
  <2>1. GrantAlone
    BY <1>2 DEF GrantInv
  <2>2. \A d \in Clients \ {c} : req'[d] = Idle
    BY <2>1, GrantingIsAlone
  <2>3. \A d \in Clients \ {c} : ShareInv(d)'
    BY <2>2 DEF ShareInv, Live
  <2> QED BY <1>2, <2>1, <2>3, AloneKept
<1> QED BY <1>1, <1>2 DEF GrantInv

\* Rows of document_shares that go: nobody else is granting.
LEMMA SharesShrink ==
    ASSUME TypeInv, GrantInv, NEW c \in Clients, Live(c),
           \A d \in Clients \ {c} : req'[d] = req[d],
           req'[c] = Idle \/ req'[c].op = req[c].op,
           UNCHANGED <<tuples, queued, exposed>>, shares' \subseteq shares,
           exposed # Users => NoTupleWithoutRow' /\ ShareInv(c)'
    PROVE  GrantInv'
<1>1. queued' \subseteq exposed'
  BY DEF GrantInv
<1>2. ASSUME exposed # Users
      PROVE  GrantAlone' /\ NoTupleWithoutRow' /\ \A d \in Clients : ShareInv(d)'
  <2>1. GrantAlone
    BY <1>2 DEF GrantInv
  <2>2. ASSUME NEW d \in Clients \ {c} PROVE ShareInv(d)'
    <3>1. Live(d) => req[d].op \notin Granting
      BY <2>1 DEF GrantAlone
    <3>2. Live(d) => req[d].pc # "grant"
      BY <3>1, OpOfStep DEF Granting, Steps
    <3>3. ShareInv(d) /\ req'[d] = req[d]
      BY <1>2 DEF GrantInv
    <3> QED BY <3>1, <3>2, <3>3 DEF ShareInv, Live, Granting
  <2> QED BY <1>2, <2>1, <2>2, AloneKept
<1> QED BY <1>1, <1>2 DEF GrantInv

\* The two transactions that empty document_shares
LEMMA GrantEmpty ==
    ASSUME TypeInv, GrantInv, NEW c \in Clients, DropRow(c) \/ CommitChange(c)
    PROVE  GrantInv'
<1>1. req[c].pc \in {"drop_row", "revoke"}
  BY DEF DropRow, CommitChange, At
<1>2. Live(c) /\ req[c] \in Requests /\ StepOf(req[c].op, req[c].pc)
  BY <1>1, SlotHasRequest, OpOfStep DEF Live, Steps, TypeInv
<1>3. /\ UNCHANGED <<tuples, queued, exposed>>
      /\ Return(c) \/ Goto(c, "drop_object")
      /\ shares' \in {shares, {}}
  BY DEF DropRow, CommitChange, Change, Others
<1>4. /\ \A d \in Clients \ {c} : req'[d] = req[d]
      /\ req'[c] = Idle \/ (/\ req'[c].op = req[c].op /\ req'[c].pc = "drop_object"
                            /\ req'[c].again = req[c].again)
  BY <1>2, <1>3 DEF Goto, Return, Requests, TypeInv, TypeOK
<1>5. ASSUME exposed # Users PROVE NoTupleWithoutRow' /\ ShareInv(c)'
  <2>1. ShareInv(c) /\ NoTupleWithoutRow
    BY <1>5 DEF GrantInv
  <2>2. CASE UNCHANGED shares
    <3>1. req[c].op # "replace"
      BY <1>1, <1>2 DEF StepOf
    <3> QED BY <1>2, <1>3, <1>4, <2>1, <2>2, <3>1 DEF NoTupleWithoutRow, ShareInv, Live
  <2>3. CASE DropRow(c)
    <3>1. req[c].op = "upload"
      BY <1>2, <2>3 DEF DropRow, At, StepOf
    <3> QED BY <1>2, <1>3, <1>4, <2>1, <3>1 DEF NoTupleWithoutRow, ShareInv, Live
  <2>4. CASE CommitChange(c) /\ shares' # shares
    <3>1. /\ req[c].todo = {} /\ req[c].pc = "revoke"
          /\ req[c].op \in {"mode", "delete"}
          /\ req[c].op = "delete" \/ req[c].mode # "restricted"
      BY <1>2, <2>4 DEF CommitChange, Change, At, StepOf
    <3>2. req[c].op = "delete" \/ req[c].mode = "workspace_default"
      BY <1>2, <3>1 DEF Requests, Modes
    <3> QED BY <1>2, <1>3, <1>4, <2>1, <3>1, <3>2 DEF NoTupleWithoutRow, ShareInv, Live
  <2> QED BY <2>2, <2>3, <2>4
<1> QED BY <1>2, <1>3, <1>4, <1>5, SharesShrink

\* A share row and its tuple: row first when granting, tuple first when revoking
LEMMA GrantShares ==
    ASSUME TypeInv, GrantInv, NEW c \in Clients,
           \/ InsertShare(c) \/ SwapGrant(c) \/ GrantTuple(c) \/ UndoShare(c) \/ UnlistShare(c)
    PROVE  GrantInv'
<1>1. req[c].pc \in {"list", "swap", "grant", "undo", "unlist"}
  BY DEF InsertShare, SwapGrant, GrantTuple, UndoShare, UnlistShare, At
<1>2. Live(c) /\ req[c] \in Requests /\ StepOf(req[c].op, req[c].pc)
  BY <1>1, SlotHasRequest, OpOfStep DEF Live, Steps, TypeInv
<1>3. UNCHANGED queued /\ exposed \subseteq exposed' /\ exposed' \subseteq Users
  <2>1. req[c].pc = "undo" => req[c].user \in Users
    BY <1>2 DEF TypeInv, InHand, SlotOK, Live, WithUser
  <2> QED BY <2>1 DEF InsertShare, SwapGrant, GrantTuple, UndoShare, UnlistShare, Others, At,
             TypeInv, TypeOK
<1>4. \A d \in Clients \ {c} : req'[d] = req[d]
  BY DEF InsertShare, SwapGrant, ListShare, GrantTuple, UndoShare, UnlistShare, Goto, Return,
         TypeInv, TypeOK
<1>5. CASE InsertShare(c) \/ SwapGrant(c)
  <2>1. PICK u : /\ ListShare(c, u) /\ UNCHANGED <<tuples, exposed>>
                 /\ req[c].op = "replace" => u \in req[c].fresh \cup req[c].again
    <3>1. InsertShare(c) => req[c].op = "share"
      BY <1>2 DEF InsertShare, At, StepOf
    <3> QED BY <1>5, <3>1 DEF InsertShare, SwapGrant, Others
  <2>2. req[c].op \in Granting /\ req[c].pc \in {"list", "swap"}
    BY <1>2, <1>5 DEF InsertShare, SwapGrant, At, StepOf, Granting
  <2> DEFINE r == [req[c] EXCEPT !.pc = "grant", !.user = u, !.fresh = @ \ {u}, !.again = @ \ {u}]
  <2>3. /\ r.pc = "grant" /\ r.op = req[c].op /\ r.user = u /\ r.todo = req[c].todo
        /\ r.target = req[c].target /\ r.again \subseteq req[c].again
    BY <1>2 DEF Requests
  <2>4. \/ req' = [req EXCEPT ![c] = Idle]
        \/ req' = [req EXCEPT ![c] = r] /\ (u \in shares' \/ u \in req[c].again)
    BY <2>1 DEF ListShare, Return
  <2>5. shares \subseteq shares'
    BY <2>1 DEF ListShare
  <2>6. req'[c] \in {Idle, r} /\ (req'[c] = r => req'[c] # Idle /\ (u \in shares' \/ u \in req[c].again))
    <3>1. r # Idle
      BY <2>3 DEF Idle
    <3> HIDE DEF r
    <3> QED BY <2>4, <3>1 DEF TypeInv, TypeOK
  <2> HIDE DEF r
  <2>7. ASSUME exposed' # Users PROVE NoTupleWithoutRow' /\ ShareInv(c)'
    <3>1. ShareInv(c) /\ NoTupleWithoutRow
      BY <2>1, <2>7 DEF GrantInv
    <3>2. NoTupleWithoutRow'
      BY <2>1, <2>5, <3>1 DEF NoTupleWithoutRow
    <3> QED BY <1>2, <2>2, <2>3, <2>5, <2>6, <3>1, <3>2 DEF ShareInv, Live, Granting
  <2> QED BY <1>2, <1>3, <1>4, <2>2, <2>3, <2>6, <2>7, GrantingStep

<1>6. CASE GrantTuple(c)
  <2>1. /\ req[c].op \in Granting /\ req[c].pc = "grant"
        /\ UNCHANGED <<shares, exposed>> /\ tuples' \subseteq tuples \cup {req[c].user}
        /\ Return(c) \/ (\E pc \in {"swap", "undo", "enqueue"} : Goto(c, pc))
    BY <1>2, <1>6 DEF GrantTuple, At, StepOf, Granting, Written
  <2>2. /\ req'[c] = Idle \/ (req'[c].pc \in {"swap", "undo", "enqueue"} /\ req'[c].op = req[c].op)
        /\ req'[c] # Idle => /\ req'[c].todo = req[c].todo /\ req'[c].target = req[c].target
                             /\ req'[c].again = req[c].again
    BY <1>2, <2>1 DEF Goto, Return, Requests, TypeInv, TypeOK
  <2>3. ASSUME exposed' # Users PROVE NoTupleWithoutRow' /\ ShareInv(c)'
    <3>1. ShareInv(c) /\ NoTupleWithoutRow
      BY <2>1, <2>3 DEF GrantInv
    <3>2. NoTupleWithoutRow'
      BY <1>2, <2>1, <3>1 DEF NoTupleWithoutRow, ShareInv
    <3> QED BY <1>2, <2>1, <2>2, <3>1, <3>2 DEF ShareInv, Live, Granting
  <2> QED BY <1>2, <1>3, <1>4, <2>1, <2>2, <2>3, GrantingStep
<1>7. CASE UndoShare(c)
  <2>1. /\ req[c].op \in Granting /\ UNCHANGED tuples /\ exposed' = exposed \cup {req[c].user}
        /\ shares \ {req[c].user} \subseteq shares' /\ Return(c)
    BY <1>2, <1>7 DEF UndoShare, At, StepOf, Granting
  <2>2. req'[c] = Idle
    BY <2>1, ReturnSlot
  <2>3. ASSUME exposed' # Users PROVE NoTupleWithoutRow' /\ ShareInv(c)'
    <3>1. NoTupleWithoutRow
      BY <1>3, <2>3 DEF GrantInv
    <3> QED BY <2>1, <2>2, <3>1 DEF NoTupleWithoutRow, ShareInv, Live
  <2> QED BY <1>2, <1>3, <1>4, <2>1, <2>2, <2>3, GrantingStep
<1>8. CASE UnlistShare(c)
  <2> DEFINE u == req[c].user
             r == [req[c] EXCEPT !.pc = "swap", !.todo = @ \ {u}]
  <2>1. /\ UNCHANGED <<tuples, exposed>> /\ shares' \in {shares, shares \ {u}}
        /\ req[c].pc = "unlist" /\ req[c].op \in {"unshare", "replace"}
    BY <1>2, <1>8 DEF UnlistShare, Others, At, StepOf
  <2>2. /\ r.pc = "swap" /\ r.op = req[c].op /\ r.todo = req[c].todo \ {u}
        /\ r.target = req[c].target /\ r.again = req[c].again
    BY <1>2 DEF Requests
  <2>3. \/ req' = [req EXCEPT ![c] = Idle]
        \/ req' = [req EXCEPT ![c] = r]
    <3>1. Return(c) \/ req' = [req EXCEPT ![c].pc = "swap", ![c].todo = @ \ {u}]
      BY <1>8 DEF UnlistShare
    <3>2. Return(c) => req' = [req EXCEPT ![c] = Idle]
      BY DEF Return
    <3>3. [req EXCEPT ![c].pc = "swap", ![c].todo = @ \ {u}] = [req EXCEPT ![c] = r]
      BY <1>2 DEF TypeInv, TypeOK
    <3> QED BY <3>1, <3>2, <3>3
  <2> HIDE DEF r
  <2>4. req'[c] = Idle \/ req'[c] = r
    BY <2>3 DEF TypeInv, TypeOK
  <2>5. ASSUME exposed # Users PROVE NoTupleWithoutRow' /\ ShareInv(c)'
    <3>1. ShareInv(c) /\ NoTupleWithoutRow
      BY <2>5 DEF GrantInv
    <3>2. u \notin tuples \/ u \in exposed
      BY <1>2, <2>1, <3>1 DEF ShareInv
    <3>3. NoTupleWithoutRow'
      BY <2>1, <3>1, <3>2 DEF NoTupleWithoutRow
    <3>4. req[c].op = "replace" => u \in req[c].todo
      BY <1>2, <2>1, <3>1 DEF ShareInv
    <3> QED BY <1>2, <2>1, <2>2, <2>4, <3>1, <3>3, <3>4 DEF ShareInv, Live
  <2> QED BY <1>2, <1>3, <1>4, <2>1, <2>2, <2>4, <2>5, SharesShrink
<1> QED BY <1>5, <1>6, <1>7, <1>8

LEMMA GrantStep == TypeInv /\ LifeInv /\ GrantInv /\ [Next]_vars => GrantInv'
<1> SUFFICES ASSUME TypeInv, LifeInv, GrantInv, [Next]_vars PROVE GrantInv'
  OBVIOUS
<1>1. ASSUME NEW c \in Clients, Start(c) PROVE GrantInv'
  BY <1>1, GrantStart
<1>2. ASSUME NEW c \in Clients, Continue(c) PROVE GrantInv'
  BY <1>2, GrantQuiet, GrantRevoke, GrantEmpty, GrantShares DEF Continue
<1>3. ASSUME NEW c \in Clients, Abandon(c) PROVE GrantInv'
  BY <1>3, GrantMove DEF Abandon, Live, Others, docVars, TypeInv, TypeOK
<1>4. ASSUME UNCHANGED <<shares, req, exposed>>, queued' \subseteq queued,
             tuples' \subseteq tuples \cup queued
      PROVE  GrantInv'
  <2>1. GrantAlone' = GrantAlone
    BY <1>4 DEF GrantAlone, Live
  <2>2. NoTupleWithoutRow => NoTupleWithoutRow'
    BY <1>4 DEF GrantInv, NoTupleWithoutRow
  <2>3. ASSUME NEW c \in Clients, ShareInv(c) PROVE ShareInv(c)'
    <3>1. queued \subseteq exposed
      BY DEF GrantInv
    <3> QED BY <1>4, <2>3, <3>1 DEF ShareInv, Live
  <2> QED BY <1>4, <2>1, <2>2, <2>3 DEF GrantInv
<1>5. ASSUME NEW u \in Users, ReplayGrant(u) PROVE GrantInv'
  BY <1>4, <1>5 DEF ReplayGrant, histVars
<1>6. ASSUME EraseObject \/ ScanRows \/ ScanObjects \/ UNCHANGED vars PROVE GrantInv'
  BY <1>4, <1>6 DEF EraseObject, ScanRows, ScanObjects, vars, docVars, histVars
<1> QED BY <1>1, <1>2, <1>3, <1>5, <1>6 DEF Next

DocumentInv == TypeInv /\ LifeInv /\ GrantInv

LEMMA DocumentInvariant == Spec => []DocumentInv
<1>1. Init => DocumentInv
  BY TypeInit, LifeInit, GrantInit DEF DocumentInv
<1>2. DocumentInv /\ [Next]_vars => DocumentInv'
  BY TypeStep, LifeStep, GrantStep DEF DocumentInv
<1> QED BY <1>1, <1>2, PTL DEF Spec

\* No user has a viewer tuple without a share row, whatever fails, except where a
\* known gap of the protocol has touched the user.
THEOREM NoTupleWithoutRowHolds == Spec => []NoTupleWithoutRow
<1>1. DocumentInv => NoTupleWithoutRow
  BY DEF DocumentInv, GrantInv, NoTupleWithoutRow, TypeInv, TypeOK
<1> QED BY <1>1, DocumentInvariant, PTL

-----------------------------------------------------------------------------
(* PUT permissions *)

\* What was exposed stays so.
LEMMA ExposedGrows ==
    ASSUME TypeInv, [Next]_vars
    PROVE  exposed \subseteq exposed'
<1>1. ASSUME NEW c \in Clients, Start(c) PROVE exposed \subseteq exposed'
  BY <1>1 DEF Start, PutObject, SetAccessMode, DeleteDocument, ShareDocument, RevokeShare,
              ReplacePermissions, Begin, TypeInv, TypeOK
<1>2. ASSUME NEW c \in Clients, Continue(c) PROVE exposed \subseteq exposed'
  BY <1>2 DEF Continue, InsertDocument, ensure_document_workspace_relation, DropRow, DropObject,
         RevokeTuple, CommitChange, InsertShare, GrantTuple, UndoShare, TakeBackTuple,
         UnlistShare, PlanGrants, CommitMode, SwapRevoke, SwapGrant, EnqueueGrant, Replaced
<1>3. ASSUME NEW c \in Clients, Abandon(c) PROVE exposed \subseteq exposed'
  BY <1>3 DEF Abandon
<1>4. CASE \/ \E u \in Users : ReplayGrant(u)
           \/ EraseObject \/ ScanRows \/ ScanObjects \/ UNCHANGED vars
  BY <1>4 DEF ReplayGrant, EraseObject, ScanRows, ScanObjects, histVars, vars
<1> QED BY <1>1, <1>2, <1>3, <1>4 DEF Next

\* What a replacement has planned and what it has done so far
ReplaceOK(c) ==
    LET r == req[c] IN
    Live(c) /\ r.op = "replace" =>
        /\ r.pc = "check" => r.todo = shares \ r.target
        /\ r.pc \in {"commit", "swap", "unlist", "grant"} =>
             /\ shares = r.todo \cup (r.target \ r.fresh) /\ r.fresh \subseteq r.target
             /\ \A u \in r.target \ (r.fresh \cup r.again) :
                  u \in tuples \/ (r.pc = "grant" /\ u = r.user)

ReplaceInv == exposed # Users => \A c \in Clients : ReplaceOK(c)

\* The steps of the replacement itself
LEMMA ReplaceOwnStep ==
    ASSUME TypeInv, NEW c \in Clients, ShareInv(c), ReplaceOK(c), req[c].op = "replace",
           Continue(c)
    PROVE  ReplaceOK(c)'
<1>1. Live(c) /\ req[c] \in Requests /\ StepOf("replace", req[c].pc)
  BY ContinueKeepsOp, OpOfStep DEF Requests
<1>2. req[c].pc \in {"check", "commit", "swap", "unlist", "grant", "enqueue"}
  BY <1>1 DEF StepOf
<1>3. CASE req'[c] = Idle
  BY <1>3 DEF ReplaceOK, Live
<1>4. CASE PlanGrants(c) /\ req'[c] # Idle
  <2>1. /\ req' = [req EXCEPT ![c].pc = "commit", ![c].fresh = NewGrants(c),
                              ![c].again = MissingTuples(c)]
        /\ UNCHANGED <<shares, tuples>> /\ req[c].pc = "check"
    BY <1>4, ReturnSlot DEF PlanGrants, docVars, At
  <2>2. /\ req'[c].pc = "commit" /\ req'[c].fresh = NewGrants(c)
        /\ req'[c].again = MissingTuples(c) /\ req'[c].todo = req[c].todo
        /\ req'[c].target = req[c].target
    BY <1>1, <2>1 DEF Requests, TypeInv, TypeOK
  <2>3. req[c].todo = shares \ req[c].target
    BY <1>1, <2>1 DEF ReplaceOK
  <2> QED BY <2>1, <2>2, <2>3 DEF ReplaceOK, NewGrants, MissingTuples
<1>5. CASE CommitMode(c) /\ req'[c] # Idle
  <2>1. Goto(c, "swap") /\ UNCHANGED <<shares, tuples>> /\ req[c].pc = "commit"
    BY <1>5, ReturnSlot DEF CommitMode, At
  <2>2. /\ req'[c].pc = "swap" /\ req'[c].fresh = req[c].fresh /\ req'[c].again = req[c].again
        /\ req'[c].todo = req[c].todo /\ req'[c].target = req[c].target
    BY <1>1, <2>1 DEF Goto, Requests, TypeInv, TypeOK
  <2> QED BY <1>1, <2>1, <2>2 DEF ReplaceOK
<1>6. CASE SwapRevoke(c) /\ req'[c] # Idle
  <2>1. PICK u \in req[c].todo : /\ tuples' = tuples \ {u}
                                 /\ req' = [req EXCEPT ![c].pc = "unlist", ![c].user = u]
    BY <1>6, ReturnSlot DEF SwapRevoke, Deleted
  <2>2. UNCHANGED shares /\ req[c].pc = "swap"
    BY <1>6 DEF SwapRevoke, At
  <2>3. /\ req'[c].pc = "unlist" /\ req'[c].fresh = req[c].fresh /\ req'[c].again = req[c].again
        /\ req'[c].todo = req[c].todo /\ req'[c].target = req[c].target
    BY <1>1, <2>1 DEF Requests, TypeInv, TypeOK
  <2>4. u \notin req[c].target
    BY <1>1, <2>1 DEF ShareInv
  <2> QED BY <1>1, <2>1, <2>2, <2>3, <2>4 DEF ReplaceOK
<1>7. CASE UnlistShare(c) /\ req'[c] # Idle
  <2> DEFINE u == req[c].user
  <2>1. /\ req' = [req EXCEPT ![c].pc = "swap", ![c].todo = @ \ {u}]
        /\ shares' = shares \ {u} /\ UNCHANGED tuples /\ req[c].pc = "unlist"
    BY <1>7, ReturnSlot DEF UnlistShare, At
  <2>2. /\ req'[c].pc = "swap" /\ req'[c].fresh = req[c].fresh /\ req'[c].again = req[c].again
        /\ req'[c].todo = req[c].todo \ {u} /\ req'[c].target = req[c].target
    BY <1>1, <2>1 DEF Requests, TypeInv, TypeOK
  <2>3. u \in req[c].todo /\ u \notin req[c].target
    BY <1>1, <2>1 DEF ShareInv
  <2> QED BY <1>1, <2>1, <2>2, <2>3 DEF ReplaceOK
<1>8. CASE SwapGrant(c) /\ req'[c] # Idle
  <2>1. PICK u \in req[c].fresh \cup req[c].again : ListShare(c, u)
    BY <1>8 DEF SwapGrant
  <2> DEFINE r == [req[c] EXCEPT !.pc = "grant", !.user = u, !.fresh = @ \ {u}, !.again = @ \ {u}]
  <2>2. /\ r.pc = "grant" /\ r.user = u /\ r.fresh = req[c].fresh \ {u}
        /\ r.again = req[c].again \ {u} /\ r.todo = req[c].todo /\ r.target = req[c].target
    BY <1>1 DEF Requests
  <2>3. /\ req' = [req EXCEPT ![c] = r]
        /\ u \in req[c].again => UNCHANGED shares
        /\ u \notin req[c].again => shares' = shares \cup {u}
    <3>1. ~Return(c)
      BY <1>8, ReturnSlot
    <3>2. CASE u \in req[c].again
      BY <2>1, <3>1, <3>2, Zenon DEF ListShare
    <3>3. CASE u \notin req[c].again
      <4>1. row = "present" /\ shares' = shares \cup {u} /\ req' = [req EXCEPT ![c] = r]
        BY <2>1, <3>1, <3>3, Zenon DEF ListShare
      <4> QED BY <3>3, <4>1
    <3> QED BY <3>2, <3>3
  <2> HIDE DEF r
  <2>4. req'[c] = r
    BY <2>3 DEF TypeInv, TypeOK
  <2>5. req[c].pc = "swap" /\ req[c].todo = {} /\ UNCHANGED tuples
    BY <1>8 DEF SwapGrant, At
  <2>6. req[c].again \subseteq shares \cap req[c].target
    BY <1>1 DEF ShareInv
  <2> QED BY <1>1, <2>1, <2>2, <2>3, <2>4, <2>5, <2>6 DEF ReplaceOK
<1>9. CASE GrantTuple(c) /\ req'[c] # Idle
  <2>1. /\ Goto(c, "enqueue") \/ (Goto(c, "swap") /\ tuples' = tuples \cup {req[c].user})
        /\ UNCHANGED shares /\ req[c].pc = "grant"
    BY <1>9 DEF GrantTuple, Written, At
  <2>2. \A pc : Goto(c, pc) =>
          /\ req'[c].pc = pc /\ req'[c].fresh = req[c].fresh /\ req'[c].again = req[c].again
          /\ req'[c].todo = req[c].todo /\ req'[c].target = req[c].target
    BY <1>1 DEF Goto, Requests, TypeInv, TypeOK
  <2> QED BY <1>1, <2>1, <2>2 DEF ReplaceOK
<1>10. EnqueueGrant(c) \/ Replaced(c) => req'[c] = Idle
  BY ReturnSlot DEF EnqueueGrant, Replaced
<1>11. PlanGrants(c) \/ CommitMode(c) \/ SwapRevoke(c) \/ UnlistShare(c) \/ SwapGrant(c)
       \/ GrantTuple(c) \/ EnqueueGrant(c) \/ Replaced(c)
  BY <1>2 DEF Continue, InsertDocument, ensure_document_workspace_relation, DropRow, DropObject,
     RevokeTuple, CommitChange, InsertShare, UndoShare, TakeBackTuple, At
<1> QED BY <1>3, <1>4, <1>5, <1>6, <1>7, <1>8, <1>9, <1>10, <1>11

\* While a replacement is in progress, it is the only request that begins.
LEMMA BeginReplace ==
    ASSUME TypeInv, GrantInv, NEW c \in Clients, NEW pc, NEW op, NEW m, NEW target, NEW todo,
           Begin(c, pc, op, m, target, todo),
           NEW d \in Clients, exposed' # Users, Live(d)', req'[d].op = "replace"
    PROVE  /\ c = d /\ op = "replace"
           /\ req'[d].pc = pc /\ req'[d].todo = todo /\ req'[d].target = target
<1>1. /\ req'[c] = [pc |-> pc, op |-> op, mode |-> m, target |-> target, todo |-> todo,
                    fresh |-> {}, again |-> {}, user |-> Workspace]
      /\ GrantAlone'
  BY BeginAlone
<1>2. req'[c] # Idle
  BY <1>1 DEF Idle
<1>3. c = d
  BY <1>1, <1>2 DEF GrantAlone, Live, Granting
<1> QED BY <1>1, <1>3

LEMMA ReplaceStart ==
    ASSUME DocumentInv, NEW c \in Clients, Start(c), NEW d \in Clients,
           exposed' # Users, Live(d)', req'[d].op = "replace"
    PROVE  ReplaceOK(d)'
<1> USE DEF DocumentInv
<1>1. CASE PutObject(c)
  <2>1. row = "unborn"
    BY <1>1 DEF PutObject
  <2>2. UNCHANGED req => FALSE
    BY <2>1, LiveHasRow DEF Live
  <2>3. ~Begin(c, "insert", "upload", mode, {}, {})
    BY BeginReplace
  <2> QED BY <1>1, <2>2, <2>3 DEF PutObject
<1>2. ~DeleteDocument(c)
  BY BeginReplace DEF DeleteDocument
<1>3. ASSUME NEW m \in Modes, SetAccessMode(c, m) PROVE FALSE
  BY <1>3, BeginReplace DEF SetAccessMode
<1>4. ASSUME NEW u \in Users, ShareDocument(c, u) PROVE FALSE
  BY <1>4, BeginReplace DEF ShareDocument
<1>5. ASSUME NEW u \in Users, RevokeShare(c, u) PROVE FALSE
  BY <1>5, BeginReplace DEF RevokeShare
<1>6. ASSUME NEW m \in Modes, NEW target \in SUBSET Users, ReplacePermissions(c, m, target)
      PROVE  ReplaceOK(d)'
  <2>1. /\ Begin(c, "check", "replace", m, target, shares \ target)
        /\ UNCHANGED shares
    BY <1>6 DEF ReplacePermissions, docVars
  <2>2. req'[d].pc = "check" /\ req'[d].todo = shares \ target /\ req'[d].target = target
    BY <2>1, BeginReplace
  <2> QED BY <2>1, <2>2 DEF ReplaceOK
<1> QED BY <1>1, <1>2, <1>3, <1>4, <1>5, <1>6 DEF Start

LEMMA ReplaceStep == DocumentInv /\ DocumentInv' /\ ReplaceInv /\ [Next]_vars => ReplaceInv'
<1> SUFFICES ASSUME DocumentInv, DocumentInv', ReplaceInv, [Next]_vars, exposed' # Users,
                    NEW d \in Clients, Live(d)', req'[d].op = "replace"
             PROVE  ReplaceOK(d)'
  BY DEF ReplaceInv, ReplaceOK
<1>1. exposed # Users
  BY ExposedGrows DEF DocumentInv, TypeInv, TypeOK
<1>2. GrantAlone /\ ShareInv(d) /\ ReplaceOK(d)
  BY <1>1 DEF DocumentInv, GrantInv, ReplaceInv
\* No other request moves while a replacement is in progress.
<1>3. ASSUME NEW c \in Clients, Live(c), \A e \in Clients \ {c} : req'[e] = req[e] PROVE c = d
  BY <1>2, <1>3 DEF GrantAlone, Live, Granting
<1>4. ASSUME NEW c \in Clients, Start(c) PROVE ReplaceOK(d)'
  BY <1>4, ReplaceStart
<1>5. ASSUME NEW c \in Clients, Continue(c) PROVE ReplaceOK(d)'
  <2>1. c = d /\ req[c].op = "replace"
    BY <1>3, <1>5, ContinueKeepsOp DEF DocumentInv, Live
  <2> QED BY <1>2, <1>5, <2>1, ReplaceOwnStep DEF DocumentInv
<1>6. ASSUME NEW c \in Clients, Abandon(c) PROVE ReplaceOK(d)'
  <2>1. Live(c) /\ Return(c)
    BY <1>6 DEF Abandon, Live
  <2>2. req'[c] = Idle /\ c = d
    BY <1>3, <2>1, ReturnSlot DEF DocumentInv
  <2> QED BY <2>2 DEF Live
<1>7. ASSUME UNCHANGED <<shares, req>>, tuples \subseteq tuples' PROVE ReplaceOK(d)'
  BY <1>2, <1>7 DEF ReplaceOK, Live
<1>8. ASSUME NEW u \in Users, ReplayGrant(u) PROVE ReplaceOK(d)'
  BY <1>7, <1>8 DEF ReplayGrant
<1>9. ASSUME EraseObject \/ ScanRows \/ ScanObjects \/ UNCHANGED vars PROVE ReplaceOK(d)'
  BY <1>7, <1>9 DEF EraseObject, ScanRows, ScanObjects, vars, docVars
<1> QED BY <1>4, <1>5, <1>6, <1>8, <1>9 DEF Next

\* A request is in progress until a step of its own ends it.
LEMMA RequestEnds ==
    ASSUME TypeInv, [Next]_vars, NEW c \in Clients, Live(c), req'[c] = Idle
    PROVE  Continue(c) \/ Abandon(c)
<1>1. ASSUME NEW e \in Clients, Start(e) PROVE FALSE
  <2>1. UNCHANGED req => FALSE
    BY DEF Live
  <2>2. ASSUME NEW pc, NEW op, NEW m, NEW target, NEW todo, Begin(e, pc, op, m, target, todo)
        PROVE  FALSE
    BY <2>2 DEF Begin, Live, TypeInv, TypeOK
  <2>3. \A pc, op, m, target, todo : ~Begin(e, pc, op, m, target, todo)
    BY <2>2
  <2> QED BY <1>1, <2>1, <2>3 DEF Start, PutObject, SetAccessMode, DeleteDocument, ShareDocument,
                                  RevokeShare, ReplacePermissions
<1>2. ASSUME NEW e \in Clients, Continue(e) PROVE e = c
  BY <1>2, ContinueKeepsOp DEF Live
<1>3. ASSUME NEW e \in Clients, Abandon(e) PROVE e = c
  BY <1>3, ReturnSlot DEF Abandon, Live
<1>4. ~UNCHANGED req
  BY DEF Live
<1> QED BY <1>1, <1>2, <1>3, <1>4 DEF Next, ReplayGrant, EraseObject, ScanRows, ScanObjects, vars

\* What SuccessMeansTarget says of a step
LEMMA AnswerStep ==
    ASSUME DocumentInv, ReplaceInv, [Next]_vars, NEW c \in Clients, Answered(c)
    PROVE  PermissionsAre(req[c].target, Users \ exposed)
<1> DEFINE target == req[c].target
<1> SUFFICES ASSUME exposed # Users PROVE PermissionsAre(target, Users \ exposed)
  BY DEF PermissionsAre
<1>1. /\ Live(c) /\ req'[c] = Idle /\ req[c].op = "replace"
      /\ \/ req[c].pc = "swap" /\ AllDone(c)
         \/ req[c].pc = "check" /\ NothingToDo(c)
  BY DEF Answered, At, Live
<1>2. NoTupleWithoutRow /\ ShareInv(c) /\ ReplaceOK(c)
  BY DEF DocumentInv, GrantInv, ReplaceInv
<1>3. UNCHANGED <<shares, tuples>>
  <2>1. CASE Abandon(c)
    BY <2>1 DEF Abandon, docVars
  <2>2. CASE Continue(c)
    <3>1. Replaced(c) \/ PlanGrants(c)
      BY <1>1, <2>2 DEF Continue, InsertDocument, ensure_document_workspace_relation, DropRow,
         DropObject, RevokeTuple, CommitChange, InsertShare, GrantTuple, UndoShare,
         TakeBackTuple, UnlistShare, CommitMode, SwapRevoke, SwapGrant, EnqueueGrant, At, AllDone
    <3> QED BY <3>1 DEF Replaced, PlanGrants, docVars
  <2> QED BY <1>1, <2>1, <2>2, RequestEnds DEF DocumentInv
<1>4. req[c] \in Requests
  BY <1>1, SlotHasRequest DEF DocumentInv, TypeInv, TypeOK, Live
<1>5. shares = target /\ target \subseteq tuples
  <2>1. CASE req[c].pc = "swap" /\ AllDone(c)
    BY <1>1, <1>2, <2>1 DEF ReplaceOK, AllDone
  <2>2. CASE req[c].pc = "check" /\ NothingToDo(c)
    <3>1. req[c].todo = {} /\ target \ shares = {} /\ {u \in target \cap shares : u \notin tuples} = {}
      BY <2>2 DEF NothingToDo, NewGrants, MissingTuples
    <3> QED BY <1>1, <1>2, <2>2, <3>1 DEF ReplaceOK
  <2> QED BY <1>1, <2>1, <2>2
<1>6. \A u \in Users \ exposed : u \in tuples => u \in shares
  BY <1>2 DEF NoTupleWithoutRow
<1> QED BY <1>3, <1>5, <1>6 DEF PermissionsAre

\* A PUT permissions that answers success has left exactly its target, of every user
\* that no known gap has touched, whatever failed or was dropped before it.
THEOREM SuccessMeansTargetHolds == Spec => SuccessMeansTarget
<1>1. Init => ReplaceInv
  BY DEF Init, ReplaceInv, ReplaceOK, Live
<1>2. DocumentInv /\ ReplaceInv /\ [Next]_vars
        => [\A c \in Clients : Answered(c) => PermissionsAre(req[c].target, Users \ exposed)]_vars
  BY AnswerStep
<1> QED BY <1>1, <1>2, ReplaceStep, DocumentInvariant, PTL DEF Spec, SuccessMeansTarget

=============================================================================
