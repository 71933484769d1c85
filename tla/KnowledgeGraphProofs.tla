------------------------ MODULE KnowledgeGraphProofs ------------------------
(***************************************************************************)
(* Proofs about KnowledgeGraph, for any number of documents, entities and  *)
(* concurrent transactions.                                                *)
(*                                                                         *)
(* What keeps the shared graph whole is what a transaction in progress has *)
(* deleted: no other transaction that is about to commit writes any of it  *)
(* (the row locks), its edges went with its nodes (the foreign keys), and  *)
(* the provenance of others it takes along is on record.  What keeps an    *)
(* embedding current is that the back-fill writes only where there is none.*)
(***************************************************************************)
EXTENDS KnowledgeGraph, TLAPS

-----------------------------------------------------------------------------
(* Types *)

\* What a save writes: the ends of an edge are among its nodes.
Batches ==
    {b \in [nodes : SUBSET Node, described : SUBSET Node, edges : SUBSET Edge] :
        \A e \in b.edges : e[1] \in b.nodes /\ e[2] \in b.nodes}

Transactions ==
    [pc : {"delete", "upsert", "commit"}, kind : {"save", "clear", "delete"}, batch : Batches,
     pass : {1, 2}, targets : SUBSET (Node \cup Edge), seen : SUBSET Source,
     doomed : SUBSET (Node \cup Edge), stolen : SUBSET Source]

Jobs == [pc : {"idle", "fetch", "embed"}, batch : SUBSET (Node \X (Doc \cup {NoDoc})),
         excluded : SUBSET Node]

GraphTypes ==
    /\ TypeOK
    /\ tx \in [Doc -> Transactions \cup {Idle}]
    /\ saved \in [Doc -> Batches]
    /\ job \in Jobs

\* Names are not pairs, and the two ends of an edge are names.
LEMMA NodesAndEdges ==
    /\ \A n \in Node : n \notin Edge
    /\ \A e \in Edge : e[1] \in Node /\ e[2] \in Node /\ e \notin Node
BY GraphAssumption DEF Edge

\* Whatever was extracted, the batch holds the ends of its edges.
LEMMA BatchTypes == /\ \A S \in SUBSET Element : Batch(S) \in Batches
                    /\ Nothing \in Batches
<1>1. ASSUME NEW S \in SUBSET Element PROVE Batch(S) \in Batches
  <2>1. PICK E : E = {<<e.source, e.target>> : e \in {e \in S : e.kind = "edge"}}
    OBVIOUS
  <2>2. PICK D : D = {e.name : e \in {e \in S : e.kind = "node"}}
    OBVIOUS
  <2>3. Batch(S) = [nodes |-> D \cup UNION {{e[1], e[2]} : e \in E}, described |-> D, edges |-> E]
    BY <2>1, <2>2 DEF Batch
  <2>4. E \subseteq Edge
    BY <2>1, GraphAssumption DEF NodeElement, EdgeElement, Edge
  <2>5. D \subseteq Node
    BY <2>2, GraphAssumption DEF NodeElement, EdgeElement
  <2>6. UNION {{e[1], e[2]} : e \in E} \subseteq Node
    BY <2>4, NodesAndEdges
  <2>7. \A e \in E : e[1] \in UNION {{f[1], f[2]} : f \in E} /\ e[2] \in UNION {{f[1], f[2]} : f \in E}
    OBVIOUS
  <2> QED BY <2>3, <2>4, <2>5, <2>6, <2>7 DEF Batches
<1>2. Nothing \in Batches
  BY DEF Nothing, Batches
<1> QED BY <1>1, <1>2

\* What a batch writes, and what a transaction holds, are nodes and edges.
LEMMA ItemTypes ==
    ASSUME NEW b \in Batches
    PROVE  /\ b.nodes \subseteq Node /\ b.edges \subseteq Edge /\ Items(b) \subseteq Node \cup Edge
           /\ \A e \in Edge : e \in Items(b) => e \in b.edges /\ {e[1], e[2]} \subseteq Items(b)
           /\ \A n \in Node : n \in Items(b) => n \in b.nodes
           /\ \A d \in Doc : SourcesOf(b, d) \subseteq Source
BY NodesAndEdges DEF Batches, Items, SourcesOf, Source

\* The snapshot of a statement shows no provenance of others on its targets: that
\* is what makes them targets.
LEMMA SnapshotFields ==
    ASSUME GraphTypes, NEW d \in Doc, NEW t \in Transactions
    PROVE  /\ Snapshot(d, t) \in Transactions /\ Snapshot(d, t).seen = {}
           /\ Snapshot(d, t).pc = t.pc /\ Snapshot(d, t).kind = t.kind
           /\ Snapshot(d, t).batch = t.batch /\ Snapshot(d, t).pass = t.pass
           /\ Snapshot(d, t).doomed = t.doomed /\ Snapshot(d, t).stolen = t.stolen
<1>1. PICK T : T = Doomed(d, t.doomed)
  OBVIOUS
<1>2. PICK Z : Z = {s \in sources : s.doc # d /\ s.item \in T}
  OBVIOUS
<1>3. Snapshot(d, t) = [t EXCEPT !.targets = T, !.seen = Z]
  BY <1>1, <1>2 DEF Snapshot
<1>4. T \subseteq Node \cup Edge /\ \A i \in T : Docs(i) \subseteq {d}
  BY <1>1 DEF Doomed, GraphTypes, TypeOK
<1>5. Z = {}
  BY <1>2, <1>4 DEF Docs
<1> QED BY <1>3, <1>4, <1>5 DEF Transactions

-----------------------------------------------------------------------------
(* The invariant *)

\* Nobody is about to write what c has deleted.
Apart(c) ==
    \A b \in Doc \ {c} : tx[b].pc = "commit" => Items(tx[b].batch) \cap tx[c].doomed = {}

\* With a node c has deleted its edges.
Whole(c) ==
    \A e \in edges : {e[1], e[2]} \cap tx[c].doomed # {} => e \in tx[c].doomed

\* The provenance of others that goes with what c has deleted is on record.
OnRecord(c) ==
    \A s \in sources : s.item \in tx[c].doomed /\ s.doc # c => s \in tx[c].stolen

TxInv(c) == tx[c] # Idle => tx[c].seen = {} /\ Apart(c) /\ Whole(c) /\ OnRecord(c)

\* Provenance is of nodes and edges there are; a document that contributes an edge
\* contributes its two nodes.
Tracked == \A s \in sources : s.item \in nodes \cup edges
Joined ==
    \A e \in edges, d \in Doc : [item |-> e, doc |-> d] \in sources =>
        \A n \in {e[1], e[2]} : n \in nodes /\ [item |-> n, doc |-> d] \in sources

\* Where there is still no embedding, the back-fill has read the text there is.
ReadsFit ==
    \A b \in job.batch : b[1] \in nodes /\ embedding[b[1]] = "null" => b[2] = about[b[1]]

GraphInv ==
    /\ GraphTypes
    /\ \A c \in Doc : TxInv(c)
    /\ Tracked /\ Joined /\ ProvenanceKept
    /\ ReadsFit /\ EmbeddingIsCurrent

\* A slot that is at a step holds a transaction.
LEMMA InProgress ==
    ASSUME GraphTypes, NEW d \in Doc
    PROVE  /\ tx[d] # Idle => tx[d] \in Transactions
           /\ tx[d].pc \in {"delete", "upsert", "commit"} => tx[d] # Idle
           /\ tx[d] = Idle => tx[d].pc = "idle"
BY DEF GraphTypes, Idle

\* A statement of one transaction: nothing is seen of it before its commit.
LEMMA TxStep ==
    ASSUME GraphInv, NEW d \in Doc, NEW t \in Transactions \cup {Idle}, Goto(d, t),
           UNCHANGED <<graph, job, saved, robbed, row>>, writes' \in 0..MaxWrites,
           t.pc = "commit" =>
             \A c \in Doc \ {d} : tx[c] # Idle => Items(t.batch) \cap tx[c].doomed = {},
           t # Idle =>
             /\ t.seen = {}
             /\ \A b \in Doc \ {d} : tx[b].pc = "commit" => Items(tx[b].batch) \cap t.doomed = {}
             /\ \A e \in edges : {e[1], e[2]} \cap t.doomed # {} => e \in t.doomed
             /\ \A s \in sources : s.item \in t.doomed /\ s.doc # d => s \in t.stolen
    PROVE  GraphInv'
<1>1. tx'[d] = t /\ \A c \in Doc \ {d} : tx'[c] = tx[c]
  BY DEF Goto, GraphInv, GraphTypes
<1>2. GraphTypes'
  <2>1. tx' \in [Doc -> Transactions \cup {Idle}]
    BY DEF Goto, GraphInv, GraphTypes
  <2>2. \A c \in Doc : tx'[c].pc \in {"idle", "delete", "upsert", "commit"}
    BY <2>1 DEF Transactions, Idle
  <2> QED BY <2>1, <2>2 DEF GraphInv, GraphTypes, TypeOK, graph
<1>3. TxInv(d)'
  BY <1>1 DEF TxInv, Apart, Whole, OnRecord, graph
<1>4. ASSUME NEW c \in Doc \ {d} PROVE TxInv(c)'
  <2> SUFFICES ASSUME tx[c] # Idle PROVE TxInv(c)'
    BY <1>1 DEF TxInv
  <2>1. tx[c].seen = {} /\ Apart(c) /\ Whole(c) /\ OnRecord(c)
    BY DEF GraphInv, TxInv
  <2>2. Apart(c)'
    BY <1>1, <2>1 DEF Apart
  <2> QED BY <1>1, <2>1, <2>2 DEF TxInv, Whole, OnRecord, graph
<1>5. Tracked' /\ Joined' /\ ProvenanceKept' /\ ReadsFit' /\ EmbeddingIsCurrent'
  BY DEF GraphInv, Tracked, Joined, ProvenanceKept, ReadsFit, EmbeddingIsCurrent, graph
<1> QED BY <1>2, <1>3, <1>4, <1>5 DEF GraphInv

\* A transaction begins with nothing deleted.
LEMMA BeginKeeps ==
    ASSUME GraphInv, NEW d \in Doc, NEW kind \in {"save", "clear", "delete"},
           NEW b \in Batches, BeginTx(d, kind, b), UNCHANGED row
    PROVE  GraphInv'
<1>1. PICK t0 : t0 = [pc |-> "delete", kind |-> kind, batch |-> b, pass |-> 1,
                      targets |-> {}, seen |-> {}, doomed |-> {}, stolen |-> {}]
  OBVIOUS
<1>2. t0 \in Transactions /\ t0.pc = "delete" /\ t0.doomed = {}
  BY <1>1 DEF Transactions
<1>3. PICK t : t = Snapshot(d, t0)
  OBVIOUS
<1>4. t \in Transactions /\ t.seen = {} /\ t.pc = "delete" /\ t.doomed = {}
  BY <1>2, <1>3, SnapshotFields DEF GraphInv
<1>5. Goto(d, t) /\ writes' \in 0..MaxWrites /\ UNCHANGED <<graph, job, saved, robbed>>
  BY <1>1, <1>3, GraphAssumption DEF BeginTx, GraphInv, GraphTypes, TypeOK
<1> QED BY <1>4, <1>5, TxStep

\* What others are about to write is locked.
LEMMA Locked ==
    ASSUME GraphTypes, NEW d \in Doc, NEW c \in Doc \ {d}, tx[c] # Idle
    PROVE  /\ tx[c].doomed \subseteq LockedFrom(d)
           /\ tx[c].pc = "commit" => Items(tx[c].batch) \subseteq LockedFrom(d)
<1>1. tx[c].doomed \subseteq Held(c) /\ (tx[c].pc = "commit" => Items(tx[c].batch) \subseteq Held(c))
  BY DEF Held
<1> QED BY <1>1 DEF LockedFrom

\* The delete of a transaction takes the edges of its nodes along, and no row that
\* another transaction has written.
LEMMA DeleteKeeps ==
    ASSUME GraphInv, NEW d \in Doc, DeleteUntracked(d)
    PROVE  GraphInv'
<1>1. /\ tx[d] \in Transactions /\ tx[d] # Idle
      /\ tx[d].seen = {} /\ Apart(d) /\ Whole(d) /\ OnRecord(d)
  BY InProgress DEF DeleteUntracked, GraphInv, TxInv
<1>2. PICK hit : hit = tx[d].targets \cap (nodes \cup edges)
  OBVIOUS
<1>3. PICK now : now = hit \cup {e \in edges : \E n \in hit \cap Node : Touches(e, n)}
  OBVIOUS
<1>4. PICK taken : taken = {s \in sources : s.item \in now /\ s.doc # d /\ s \notin tx[d].seen}
  OBVIOUS
<1>5. PICK t1 : t1 = [tx[d] EXCEPT !.doomed = tx[d].doomed \cup now, !.targets = {}, !.seen = {},
                                   !.stolen = tx[d].stolen \cup taken]
  OBVIOUS
<1>6. PICK t : t = IF t1.kind = "save" /\ t1.pass = 1
                   THEN Snapshot(d, [t1 EXCEPT !.pass = 2]) ELSE [t1 EXCEPT !.pc = "upsert"]
  OBVIOUS
<1>7. Goto(d, t) /\ UNCHANGED <<graph, job, saved, robbed, row>> /\ writes' \in 0..MaxWrites
  BY <1>2, <1>3, <1>4, <1>5, <1>6 DEF DeleteUntracked, Cascade, GraphInv, GraphTypes, TypeOK
<1>8. tx[d].pc = "delete" /\ tx[d].targets \cap LockedFrom(d) = {}
  BY DEF DeleteUntracked, Waits
<1>9. now \subseteq Node \cup Edge /\ taken \subseteq Source
  BY <1>2, <1>3, <1>4 DEF GraphInv, GraphTypes, TypeOK
<1>10. /\ t1 \in Transactions /\ t1.pc = "delete" /\ t1.seen = {}
       /\ t1.doomed = tx[d].doomed \cup now /\ t1.stolen = tx[d].stolen \cup taken
  BY <1>1, <1>5, <1>8, <1>9 DEF Transactions
<1>11. /\ t \in Transactions /\ t.pc \in {"delete", "upsert"} /\ t.seen = {}
       /\ t.doomed = tx[d].doomed \cup now /\ t.stolen = tx[d].stolen \cup taken
  <2>1. PICK t2 : t2 = [t1 EXCEPT !.pass = 2]
    OBVIOUS
  <2>2. /\ t2 \in Transactions /\ t2.pc = "delete" /\ t2.doomed = t1.doomed /\ t2.stolen = t1.stolen
    BY <1>10, <2>1 DEF Transactions
  <2>3. CASE t = Snapshot(d, t2)
    BY <1>10, <2>2, <2>3, SnapshotFields DEF GraphInv
  <2>4. CASE t = [t1 EXCEPT !.pc = "upsert"]
    BY <1>10, <2>4 DEF Transactions
  <2> QED BY <1>6, <2>1, <2>3, <2>4
<1>12. ASSUME NEW b \in Doc \ {d}, tx[b].pc = "commit"
       PROVE  Items(tx[b].batch) \cap t.doomed = {}
  <2>1. tx[b] \in Transactions /\ tx[b] # Idle
    BY <1>12, InProgress DEF GraphInv
  <2>2. tx[b].batch \in Batches
    BY <2>1 DEF Transactions
  <2>3. Items(tx[b].batch) \cap hit = {}
    BY <1>2, <1>8, <1>12, <2>1, Locked DEF GraphInv
  <2>4. \A e \in edges : e \in Items(tx[b].batch) => ~\E n \in hit \cap Node : Touches(e, n)
    BY <2>2, <2>3, ItemTypes DEF Touches, GraphInv, GraphTypes, TypeOK
  <2>5. Items(tx[b].batch) \cap now = {}
    BY <1>3, <2>3, <2>4
  <2> QED BY <1>1, <1>11, <1>12, <2>5 DEF Apart
<1>13. ASSUME NEW e \in edges, {e[1], e[2]} \cap t.doomed # {}
       PROVE  e \in t.doomed
  <2>1. PICK n \in {e[1], e[2]} : n \in tx[d].doomed \/ n \in now
    BY <1>11, <1>13
  <2>2. e \in Edge /\ n \in Node /\ n \notin edges
    BY NodesAndEdges DEF GraphInv, GraphTypes, TypeOK
  <2>3. n \in tx[d].doomed \/ n \in hit
    BY <1>3, <2>1, <2>2
  <2> QED BY <1>1, <1>3, <1>11, <2>2, <2>3 DEF Whole, Touches
<1>14. ASSUME NEW s \in sources, s.item \in t.doomed, s.doc # d
       PROVE  s \in t.stolen
  BY <1>1, <1>4, <1>11, <1>14 DEF OnRecord
<1> QED BY <1>7, <1>11, <1>12, <1>13, <1>14, TxStep

\* The writes of a transaction wait for the rows others have deleted.
LEMMA UpsertKeeps ==
    ASSUME GraphInv, NEW d \in Doc, UpsertGraph(d)
    PROVE  GraphInv'
<1>1. /\ tx[d] \in Transactions /\ tx[d] # Idle
      /\ tx[d].seen = {} /\ Apart(d) /\ Whole(d) /\ OnRecord(d)
  BY InProgress DEF UpsertGraph, GraphInv, TxInv
<1>2. PICK t : t = [tx[d] EXCEPT !.pc = "commit"]
  OBVIOUS
<1>3. /\ t \in Transactions /\ t.batch = tx[d].batch /\ t.doomed = tx[d].doomed
      /\ t.seen = {} /\ t.stolen = tx[d].stolen
  BY <1>1, <1>2 DEF Transactions
<1>4. Goto(d, t) /\ UNCHANGED <<graph, job, saved, robbed, row>> /\ writes' \in 0..MaxWrites
  BY <1>2 DEF UpsertGraph, GraphInv, GraphTypes, TypeOK
<1>5. ASSUME NEW c \in Doc \ {d}, tx[c] # Idle PROVE Items(t.batch) \cap tx[c].doomed = {}
  <2>1. Items(t.batch) \cap LockedFrom(d) = {}
    BY <1>3 DEF UpsertGraph, Waits
  <2> QED BY <1>5, <2>1, Locked DEF GraphInv
<1>6. /\ \A b \in Doc \ {d} : tx[b].pc = "commit" => Items(tx[b].batch) \cap t.doomed = {}
      /\ \A e \in edges : {e[1], e[2]} \cap t.doomed # {} => e \in t.doomed
      /\ \A s \in sources : s.item \in t.doomed /\ s.doc # d => s \in t.stolen
  BY <1>1, <1>3 DEF Apart, Whole, OnRecord
<1> QED BY <1>3, <1>4, <1>5, <1>6, TxStep

\* A rollback leaves nothing.
LEMMA RollbackKeeps ==
    ASSUME GraphInv, NEW d \in Doc, Rollback(d)
    PROVE  GraphInv'
<1>1. Goto(d, Idle) /\ UNCHANGED <<graph, job, saved, robbed, row>> /\ writes' \in 0..MaxWrites
  BY DEF Rollback, GraphInv, GraphTypes, TypeOK
<1>2. Idle.pc # "commit"
  BY DEF Idle
<1> QED BY <1>1, <1>2, TxStep

\* What a commit leaves of the other transactions.
LEMMA OthersAtCommit ==
    ASSUME GraphTypes, NEW d \in Doc, Commit(d)
    PROVE  /\ tx' \in [Doc -> Transactions \cup {Idle}] /\ tx'[d] = Idle
           /\ \A c \in Doc \ {d} :
                /\ tx'[c] = Idle <=> tx[c] = Idle
                /\ tx[c] # Idle =>
                     /\ tx'[c].pc = tx[c].pc /\ tx'[c].batch = tx[c].batch
                     /\ tx'[c].doomed = tx[c].doomed /\ tx'[c].seen = tx[c].seen
                     /\ tx'[c].stolen = tx[c].stolen
<1>0. tx' = Ended(d)
  BY DEF Commit
<1>1. tx'[d] = Idle
  BY <1>0 DEF Ended
<1>2. ASSUME NEW c \in Doc \ {d}
      PROVE  /\ tx'[c] \in Transactions \cup {Idle}
             /\ tx'[c] = Idle <=> tx[c] = Idle
             /\ tx[c] # Idle =>
                  /\ tx'[c].pc = tx[c].pc /\ tx'[c].batch = tx[c].batch
                  /\ tx'[c].doomed = tx[c].doomed /\ tx'[c].seen = tx[c].seen
                  /\ tx'[c].stolen = tx[c].stolen
  <2>1. tx'[c] = IF tx[c].pc = "delete"
                 THEN [tx[c] EXCEPT !.targets = tx[c].targets \ tx[d].doomed] ELSE tx[c]
    BY <1>0 DEF Ended
  <2>2. CASE tx[c] = Idle
    BY <2>1, <2>2 DEF Idle
  <2>3. CASE tx[c] \in Transactions
    <3>1. tx'[c] \in Transactions
      BY <2>1, <2>3 DEF Transactions
    <3>2. Idle \notin Transactions
      BY DEF Idle, Transactions
    <3>3. /\ tx'[c].pc = tx[c].pc /\ tx'[c].batch = tx[c].batch
          /\ tx'[c].doomed = tx[c].doomed /\ tx'[c].seen = tx[c].seen
          /\ tx'[c].stolen = tx[c].stolen
      BY <2>1, <2>3 DEF Transactions
    <3> QED BY <2>3, <3>1, <3>2, <3>3
  <2> QED BY <2>2, <2>3 DEF GraphTypes
<1>3. tx' \in [Doc -> Transactions \cup {Idle}]
  <2>1. tx' = [c \in Doc |-> tx'[c]]
    BY <1>0 DEF Ended
  <2> QED BY <1>1, <1>2, <2>1
<1> QED BY <1>1, <1>2, <1>3

\* A commit makes the deletions and the writes of one transaction seen at once.
LEMMA CommitKeeps ==
    ASSUME GraphInv, NEW d \in Doc, Commit(d)
    PROVE  GraphInv'
<1>0. /\ tx[d].pc = "commit" /\ tx[d] \in Transactions /\ tx[d] # Idle
      /\ Apart(d) /\ Whole(d) /\ OnRecord(d) /\ GraphTypes
  BY InProgress DEF Commit, GraphInv, TxInv
<1>1. PICK B \in Batches, D \in SUBSET (Node \cup Edge) : B = tx[d].batch /\ D = tx[d].doomed
  BY <1>0 DEF Transactions
<1>2. /\ nodes' = (nodes \ D) \cup B.nodes /\ edges' = (edges \ D) \cup B.edges
      /\ sources' = {s \in sources : s.item \notin D /\ s.doc # d} \cup SourcesOf(B, d)
      /\ saved' = [saved EXCEPT ![d] = B]
      /\ robbed' = {s \in robbed : s.doc # d} \cup tx[d].stolen
      /\ UNCHANGED <<job, writes>>
  BY <1>1 DEF Commit, Sources
<1>i. \A s : s \in SourcesOf(B, d) <=> \E i \in Items(B) : s = [item |-> i, doc |-> d]
  BY DEF SourcesOf
<1>b. /\ B.nodes \subseteq Node /\ B.edges \subseteq Edge /\ Items(B) \subseteq Node \cup Edge
      /\ Items(B) = B.nodes \cup B.edges
      /\ \A e \in Edge : e \in Items(B) => e \in B.edges /\ {e[1], e[2]} \subseteq Items(B)
      /\ \A n \in Node : n \in Items(B) => n \in B.nodes
      /\ SourcesOf(B, d) \subseteq Source
  BY ItemTypes DEF Items
<1>t. /\ tx' \in [Doc -> Transactions \cup {Idle}] /\ tx'[d] = Idle
      /\ \A c \in Doc \ {d} :
           /\ tx'[c] = Idle <=> tx[c] = Idle
           /\ tx[c] # Idle =>
                /\ tx'[c].pc = tx[c].pc /\ tx'[c].batch = tx[c].batch
                /\ tx'[c].doomed = tx[c].doomed /\ tx'[c].seen = tx[c].seen
                /\ tx'[c].stolen = tx[c].stolen
  BY <1>0, OthersAtCommit
<1>3. GraphTypes'
  <2>1. row' \in [Doc -> {"none", "stored", "gone"}]
    BY <1>0 DEF Commit, GraphTypes, TypeOK
  <2>2. nodes' \subseteq Node /\ edges' \subseteq Edge /\ sources' \subseteq Source
    BY <1>0, <1>2, <1>b DEF GraphTypes, TypeOK
  <2>3. robbed' \subseteq Source /\ saved' \in [Doc -> Batches]
    BY <1>0, <1>1, <1>2 DEF GraphTypes, TypeOK, Transactions
  <2>4. about' \in [Node -> Doc \cup {NoDoc}] /\ embedding' \in [Node -> Doc \cup {"null", "name"}]
    BY <1>0 DEF Commit, GraphTypes, TypeOK, About, Embedding
  <2>5. \A c \in Doc : tx'[c].pc \in {"idle", "delete", "upsert", "commit"}
    BY <1>t DEF Transactions, Idle
  <2> QED BY <1>0, <1>2, <1>t, <2>1, <2>2, <2>3, <2>4, <2>5 DEF GraphTypes, TypeOK
<1>4. ASSUME NEW c \in Doc PROVE TxInv(c)'
  <2> SUFFICES ASSUME c # d, tx[c] # Idle PROVE TxInv(c)'
    BY <1>t DEF TxInv
  <2>1. tx[c].seen = {} /\ Apart(c) /\ Whole(c) /\ OnRecord(c)
    BY DEF GraphInv, TxInv
  <2>2. /\ tx'[c].doomed = tx[c].doomed /\ tx'[c].seen = {} /\ tx'[c].stolen = tx[c].stolen
        /\ Items(B) \cap tx[c].doomed = {}
    BY <1>0, <1>1, <1>t, <2>1 DEF Apart
  <2>3. Apart(c)'
    <3> SUFFICES ASSUME NEW b \in Doc \ {c}, tx'[b].pc = "commit"
                 PROVE  Items(tx'[b].batch) \cap tx'[c].doomed = {}
      BY DEF Apart
    <3>1. b # d /\ tx[b] # Idle
      BY <1>t DEF Idle
    <3> QED BY <1>t, <2>1, <2>2, <3>1 DEF Apart
  <2>4. Whole(c)'
    <3> SUFFICES ASSUME NEW e \in edges', {e[1], e[2]} \cap tx[c].doomed # {}
                 PROVE  e \in tx[c].doomed
      BY <2>2 DEF Whole
    <3>1. e \notin B.edges
      BY <1>b, <2>2
    <3> QED BY <1>2, <2>1, <3>1 DEF Whole
  <2>5. OnRecord(c)'
    <3> SUFFICES ASSUME NEW s \in sources', s.item \in tx[c].doomed, s.doc # c
                 PROVE  s \in tx[c].stolen
      BY <2>2 DEF OnRecord
    <3>1. s \notin SourcesOf(B, d)
      BY <1>i, <2>2
    <3> QED BY <1>2, <2>1, <3>1 DEF OnRecord
  <2> QED BY <2>2, <2>3, <2>4, <2>5 DEF TxInv
<1>5. Tracked'
  <2> SUFFICES ASSUME NEW s \in sources' PROVE s.item \in nodes' \cup edges'
    BY DEF Tracked
  <2>1. CASE s \in SourcesOf(B, d)
    BY <1>2, <1>b, <1>i, <2>1
  <2>2. CASE s \in sources /\ s.item \notin D
    BY <1>2, <2>2 DEF GraphInv, Tracked
  <2> QED BY <1>2, <2>1, <2>2
<1>6. Joined'
  <2> SUFFICES ASSUME NEW e \in edges', NEW c \in Doc, [item |-> e, doc |-> c] \in sources',
                      NEW n \in {e[1], e[2]}
               PROVE  n \in nodes' /\ [item |-> n, doc |-> c] \in sources'
    BY DEF Joined
  <2>1. e \in Edge /\ n \in Node /\ e \notin Node
    BY <1>3, NodesAndEdges DEF GraphTypes, TypeOK
  <2>2. CASE [item |-> e, doc |-> c] \in SourcesOf(B, d)
    <3>1. e \in Items(B) /\ c = d
      BY <1>i, <2>2
    <3>2. n \in Items(B) /\ n \in B.nodes
      BY <1>b, <2>1, <3>1
    <3> QED BY <1>2, <1>i, <3>1, <3>2
  <2>3. CASE [item |-> e, doc |-> c] \in sources /\ e \notin D /\ c # d
    <3>1. e \in edges
      BY <1>0, <2>1, <2>3 DEF GraphInv, Tracked, GraphTypes, TypeOK
    <3>2. n \in nodes /\ [item |-> n, doc |-> c] \in sources
      BY <2>3, <3>1 DEF GraphInv, Joined
    <3>3. n \notin D
      BY <1>0, <1>1, <2>3, <3>1 DEF Whole
    <3> QED BY <1>2, <2>3, <3>2, <3>3
  <2> QED BY <1>2, <2>2, <2>3
<1>7. ProvenanceKept'
  <2> SUFFICES ASSUME NEW c \in Doc, NEW i \in Items(saved'[c])
               PROVE  [item |-> i, doc |-> c] \in sources' \cup robbed'
    BY DEF ProvenanceKept
  <2>1. CASE c = d
    BY <1>0, <1>2, <1>i, <2>1 DEF GraphTypes
  <2>2. CASE c # d
    <3>1. [item |-> i, doc |-> c] \in sources \cup robbed
      BY <1>0, <1>2, <2>2 DEF GraphInv, ProvenanceKept, GraphTypes
    <3>2. [item |-> i, doc |-> c] \in sources /\ i \in D => [item |-> i, doc |-> c] \in tx[d].stolen
      BY <1>0, <1>1, <2>2 DEF OnRecord
    <3> QED BY <1>2, <2>2, <3>1, <3>2
  <2> QED BY <2>1, <2>2
<1>8. ASSUME NEW n \in Node
      PROVE  /\ n \in nodes' => embedding'[n] \in {"null", "name", about'[n]}
             /\ n \in nodes' /\ embedding'[n] = "null" =>
                  n \in nodes /\ embedding[n] = "null" /\ about'[n] = about[n]
  <2>1. about'[n] = About(d, n) /\ embedding'[n] = Embedding(d, n)
    BY DEF Commit
  <2>2. d # "null" /\ d # "name"
    BY GraphAssumption
  <2>3. CASE n \in B.described
    BY <1>1, <2>1, <2>2, <2>3 DEF About, Embedding
  <2>4. CASE n \notin B.described /\ n \in B.nodes
    <3>1. ~NewRow(d, n) => n \in nodes /\ embedding[n] \in {"null", "name", about[n]}
      BY DEF NewRow, GraphInv, EmbeddingIsCurrent
    <3> QED BY <1>1, <2>1, <2>4, <3>1 DEF About, Embedding
  <2>5. CASE n \notin B.described /\ n \notin B.nodes
    <3>1. n \in nodes' => n \in nodes
      BY <1>2, <2>5
    <3> QED BY <1>1, <2>1, <2>5, <3>1 DEF About, Embedding, GraphInv, EmbeddingIsCurrent
  <2> QED BY <2>3, <2>4, <2>5
<1>9. EmbeddingIsCurrent'
  BY <1>3, <1>8 DEF EmbeddingIsCurrent, GraphTypes, TypeOK
<1>10. ReadsFit'
  <2> SUFFICES ASSUME NEW b \in job.batch, b[1] \in nodes', embedding'[b[1]] = "null"
               PROVE  b[2] = about'[b[1]]
    BY <1>2 DEF ReadsFit
  <2>1. b[1] \in Node
    BY <1>3 DEF GraphTypes, TypeOK
  <2> QED BY <1>8, <2>1 DEF GraphInv, ReadsFit
<1> QED BY <1>3, <1>4, <1>5, <1>6, <1>7, <1>9, <1>10 DEF GraphInv

\* A document's row goes, and its provenance with it.
LEMMA DropRowKeeps ==
    ASSUME GraphInv, NEW d \in Doc, DropRow(d)
    PROVE  GraphInv'
<1>1. /\ UNCHANGED <<nodes, about, embedding, edges, tx, job, writes>>
      /\ sources' = {s \in sources : s.doc # d} /\ robbed' = {s \in robbed : s.doc # d}
      /\ saved' = [saved EXCEPT ![d] = Nothing] /\ row' = [row EXCEPT ![d] = "gone"]
  BY DEF DropRow
<1>2. GraphTypes'
  BY <1>1, BatchTypes DEF GraphInv, GraphTypes, TypeOK
<1>3. \A c \in Doc : TxInv(c)'
  BY <1>1 DEF GraphInv, TxInv, Apart, Whole, OnRecord
<1>4. Tracked' /\ Joined' /\ ReadsFit' /\ EmbeddingIsCurrent'
  BY <1>1 DEF GraphInv, Tracked, Joined, ReadsFit, EmbeddingIsCurrent
<1>5. ProvenanceKept'
  <2> SUFFICES ASSUME NEW c \in Doc, NEW i \in Items(saved'[c])
               PROVE  [item |-> i, doc |-> c] \in sources' \cup robbed'
    BY DEF ProvenanceKept
  <2>1. c # d /\ saved'[c] = saved[c]
    BY <1>1 DEF GraphInv, GraphTypes, Items, Nothing
  <2>2. [item |-> i, doc |-> c] \in sources \cup robbed
    BY <2>1 DEF GraphInv, ProvenanceKept
  <2> QED BY <1>1, <2>1, <2>2
<1> QED BY <1>2, <1>3, <1>4, <1>5 DEF GraphInv

\* The back-fill: it writes no row but embeddings, and those where there is none.
LEMMA BackfillKeeps ==
    ASSUME GraphInv, StartJob \/ FetchBatch \/ WriteNode
    PROVE  GraphInv'
<1>0. UNCHANGED <<row, nodes, about, edges, sources, tx, writes, saved, robbed>>
  BY DEF StartJob, FetchBatch, WriteNode, graph
<1>1. job \in Jobs /\ GraphTypes /\ NoJob \in Jobs
  BY DEF GraphInv, GraphTypes, NoJob, Jobs
<1>f. ASSUME job' \in Jobs, embedding' \in [Node -> Doc \cup {"null", "name"}],
             ReadsFit', EmbeddingIsCurrent'
      PROVE  GraphInv'
  <2>1. GraphTypes'
    BY <1>0, <1>1, <1>f DEF GraphTypes, TypeOK, Jobs
  <2>2. \A c \in Doc : TxInv(c)'
    BY <1>0 DEF GraphInv, TxInv, Apart, Whole, OnRecord
  <2>3. Tracked' /\ Joined' /\ ProvenanceKept'
    BY <1>0 DEF GraphInv, Tracked, Joined, ProvenanceKept
  <2> QED BY <1>f, <2>1, <2>2, <2>3 DEF GraphInv
<1>2. CASE StartJob
  <2>1. job' \in Jobs /\ job'.batch = {} /\ UNCHANGED embedding
    BY <1>2 DEF StartJob, NoJob, Jobs, graph
  <2> QED BY <1>0, <1>1, <1>f, <2>1 DEF ReadsFit, EmbeddingIsCurrent, GraphInv, GraphTypes, TypeOK
<1>3. CASE FetchBatch
  <2>0. UNCHANGED embedding
    BY <1>3 DEF FetchBatch, graph
  <2>1. CASE job' = NoJob
    <3>1. job' \in Jobs /\ job'.batch = {}
      BY <1>1, <2>1 DEF NoJob
    <3> QED BY <1>0, <1>1, <1>f, <2>0, <3>1 DEF ReadsFit, EmbeddingIsCurrent, GraphInv, GraphTypes, TypeOK
  <2>2. ASSUME NEW M \in SUBSET Missing,
               job' = [job EXCEPT !.pc = "embed", !.batch = {<<n, about[n]>> : n \in M}]
        PROVE  GraphInv'
    <3>1. PICK R : R = {<<n, about[n]>> : n \in M}
      OBVIOUS
    <3>2. R \subseteq Node \X (Doc \cup {NoDoc}) /\ \A b \in R : b[2] = about[b[1]]
      BY <1>1, <3>1 DEF Missing, GraphTypes, TypeOK
    <3>3. job' \in Jobs /\ job'.batch = R
      BY <1>1, <2>2, <3>1, <3>2 DEF Jobs
    <3> QED BY <1>0, <1>1, <1>f, <2>0, <3>2, <3>3 DEF ReadsFit, EmbeddingIsCurrent, GraphInv, GraphTypes, TypeOK
  <2> QED BY <1>3, <2>1, <2>2 DEF FetchBatch
<1>4. CASE WriteNode
  <2>1. PICK b \in job.batch :
          /\ \/ embedding' = Filled(b)
             \/ UNCHANGED embedding
          /\ \E pc \in {"fetch", "embed"} :
               \/ job' = [job EXCEPT !.pc = pc, !.batch = job.batch \ {b}]
               \/ job' = [[job EXCEPT !.pc = pc, !.batch = job.batch \ {b}]
                            EXCEPT !.excluded = job.excluded \cup {b[1]}]
    BY <1>4 DEF WriteNode, Excluded
  <2>2. b \in Node \X (Doc \cup {NoDoc}) /\ b[1] \in Node /\ b[2] \in Doc \cup {NoDoc}
    BY <1>1 DEF Jobs
  <2>3. job' \in Jobs /\ job'.batch \subseteq job.batch
    <3>1. PICK pc \in {"fetch", "embed"} :
            \/ job' = [job EXCEPT !.pc = pc, !.batch = job.batch \ {b}]
            \/ job' = [[job EXCEPT !.pc = pc, !.batch = job.batch \ {b}]
                         EXCEPT !.excluded = job.excluded \cup {b[1]}]
      BY <2>1
    <3>2. PICK rest : rest = job.batch \ {b}
      OBVIOUS
    <3>3. rest \in SUBSET (Node \X (Doc \cup {NoDoc})) /\ rest \subseteq job.batch
      BY <1>1, <3>2 DEF Jobs
    <3>4. CASE job' = [job EXCEPT !.pc = pc, !.batch = job.batch \ {b}]
      BY <1>1, <3>2, <3>3, <3>4 DEF Jobs
    <3>5. CASE job' = [[job EXCEPT !.pc = pc, !.batch = job.batch \ {b}]
                         EXCEPT !.excluded = job.excluded \cup {b[1]}]
      <4>1. PICK out : out = job.excluded \cup {b[1]}
        OBVIOUS
      <4>2. out \in SUBSET Node
        BY <1>1, <2>2, <4>1 DEF Jobs
      <4> QED BY <1>1, <3>2, <3>3, <3>5, <4>1, <4>2 DEF Jobs
    <3> QED BY <3>1, <3>4, <3>5
  <2>4. /\ embedding' \in [Node -> Doc \cup {"null", "name"}]
        /\ \A n \in Node : \/ embedding'[n] = embedding[n]
                           \/ /\ n = b[1] /\ n \in nodes /\ embedding[n] = "null"
                              /\ embedding'[n] \in {"name", b[2]} /\ embedding'[n] # "null"
    BY <1>1, <2>1, <2>2, GraphAssumption DEF Filled, GraphTypes, TypeOK
  <2>5. ReadsFit'
    <3> SUFFICES ASSUME NEW r \in job.batch, r[1] \in nodes, embedding'[r[1]] = "null"
                 PROVE  r[2] = about[r[1]]
      BY <1>0, <2>3 DEF ReadsFit
    <3>1. r[1] \in Node
      BY <1>1 DEF Jobs
    <3> QED BY <2>4, <3>1 DEF GraphInv, ReadsFit
  <2>6. EmbeddingIsCurrent'
    <3> SUFFICES ASSUME NEW n \in nodes PROVE embedding'[n] \in {"null", "name", about[n]}
      BY <1>0 DEF EmbeddingIsCurrent
    <3>1. n \in Node
      BY <1>1 DEF GraphTypes, TypeOK
    <3>2. embedding[n] \in {"null", "name", about[n]}
      BY DEF GraphInv, EmbeddingIsCurrent
    <3>3. n = b[1] /\ embedding[n] = "null" => b[2] = about[n]
      BY DEF GraphInv, ReadsFit
    <3> QED BY <2>4, <3>1, <3>2, <3>3
  <2> QED BY <1>f, <2>3, <2>4, <2>5, <2>6
<1> QED BY <1>2, <1>3, <1>4

-----------------------------------------------------------------------------
\* An old document's graph is as one save wrote it.
LEMMA GraphInit == Init => GraphInv
<1> SUFFICES ASSUME Init PROVE GraphInv
  OBVIOUS
<1>1. saved \in [Doc -> Batches]
  BY BatchTypes DEF Init
<1>2. /\ nodes = UNION {saved[d].nodes : d \in Doc} /\ edges = UNION {saved[d].edges : d \in Doc}
      /\ sources = UNION {SourcesOf(saved[d], d) : d \in Doc}
      /\ tx = [d \in Doc |-> Idle] /\ job = NoJob /\ writes = 0 /\ robbed = {}
      /\ embedding = [n \in Node |-> "null"]
      /\ row \in [Doc -> {"none", "stored", "gone"}]
  BY DEF Init
<1>3. \A s : s \in sources <=> \E d \in Doc : \E i \in Items(saved[d]) : s = [item |-> i, doc |-> d]
  BY <1>2 DEF SourcesOf
<1>4. GraphTypes
  <2>1. nodes \subseteq Node /\ edges \subseteq Edge
    BY <1>1, <1>2 DEF Batches
  <2>2. \A d \in Doc : Items(saved[d]) \subseteq Node \cup Edge
    BY <1>1, ItemTypes
  <2>3. sources \subseteq Source
    BY <1>3, <2>2 DEF Source
  <2>4. about \in [Node -> Doc \cup {NoDoc}]
    BY DEF Init
  <2>5. job \in Jobs /\ job.pc = "idle" /\ job.excluded = {}
    BY <1>2 DEF NoJob, Jobs
  <2>6. tx \in [Doc -> Transactions \cup {Idle}] /\ \A d \in Doc : tx[d].pc = "idle"
    BY <1>2 DEF Idle
  <2> QED BY <1>1, <1>2, <2>1, <2>3, <2>4, <2>5, <2>6, GraphAssumption DEF GraphTypes, TypeOK
<1>5. \A c \in Doc : TxInv(c)
  BY <1>2 DEF TxInv
<1>6. Tracked
  BY <1>2, <1>3 DEF Tracked, Items
<1>7. Joined
  <2> SUFFICES ASSUME NEW e \in edges, NEW d \in Doc, [item |-> e, doc |-> d] \in sources,
                      NEW n \in {e[1], e[2]}
               PROVE  n \in nodes /\ [item |-> n, doc |-> d] \in sources
    BY DEF Joined
  <2>1. e \in Edge /\ e \in Items(saved[d]) /\ saved[d] \in Batches /\ n \in Node
    BY <1>1, <1>3, <1>4, NodesAndEdges DEF GraphTypes, TypeOK
  <2>2. n \in Items(saved[d]) /\ n \in saved[d].nodes
    BY <2>1, ItemTypes
  <2> QED BY <1>2, <1>3, <2>2
<1>8. ProvenanceKept
  BY <1>3 DEF ProvenanceKept
<1>9. ReadsFit /\ EmbeddingIsCurrent
  BY <1>2, <1>4 DEF ReadsFit, EmbeddingIsCurrent, NoJob, GraphTypes, TypeOK
<1> QED BY <1>4, <1>5, <1>6, <1>7, <1>8, <1>9 DEF GraphInv

\* Every step keeps the invariant.
LEMMA GraphStep == GraphInv /\ [Next]_vars => GraphInv'
<1> SUFFICES ASSUME GraphInv, [Next]_vars PROVE GraphInv'
  OBVIOUS
<1>f. ASSUME UNCHANGED <<graph, tx, job, writes, saved, robbed>>,
             row' \in [Doc -> {"none", "stored", "gone"}]
      PROVE  GraphInv'
  <2>1. GraphTypes'
    BY <1>f DEF GraphInv, GraphTypes, TypeOK, graph
  <2>2. \A c \in Doc : TxInv(c)'
    BY <1>f DEF GraphInv, TxInv, Apart, Whole, OnRecord, graph
  <2>3. Tracked' /\ Joined' /\ ProvenanceKept' /\ ReadsFit' /\ EmbeddingIsCurrent'
    BY <1>f DEF GraphInv, Tracked, Joined, ProvenanceKept, ReadsFit, EmbeddingIsCurrent, graph
  <2> QED BY <2>1, <2>2, <2>3 DEF GraphInv
<1>1. ASSUME NEW d \in Doc, Upload(d) PROVE GraphInv'
  BY <1>1, <1>f DEF Upload, GraphInv, GraphTypes, TypeOK
<1>2. ASSUME NEW d \in Doc, BeginSave(d) \/ BeginClear(d) \/ BeginDelete(d) PROVE GraphInv'
  BY <1>2, BatchTypes, BeginKeeps DEF BeginSave, BeginClear, BeginDelete
<1>3. ASSUME NEW d \in Doc, Transaction(d) \/ Rollback(d) \/ DropRow(d) PROVE GraphInv'
  BY <1>3, DeleteKeeps, UpsertKeeps, CommitKeeps, RollbackKeeps, DropRowKeeps DEF Transaction
<1>4. CASE StartJob \/ Backfill
  BY <1>4, BackfillKeeps DEF Backfill
<1>5. CASE UNCHANGED vars
  BY <1>5, <1>f DEF vars, GraphInv, GraphTypes, TypeOK
<1> QED BY <1>1, <1>2, <1>3, <1>4, <1>5 DEF Next

LEMMA GraphInvariant == Spec => []GraphInv
BY GraphInit, GraphStep, PTL DEF Spec

\* The tables of the graph, the transactions and the back-fill stay typed.
THEOREM TypeCorrect == Spec => []TypeOK
<1>1. GraphInv => TypeOK
  BY DEF GraphInv, GraphTypes
<1> QED BY <1>1, GraphInvariant, PTL

\* Whoever may see a link may see both its nodes: graph_context and the workspace
\* graph join the names of the ends without asking for their provenance
\* (routes/graph.rs, chat/retrieval.rs), whatever saves, clearings and deletions of
\* other documents run beside.
THEOREM LinksJoinShownNodesHolds == Spec => []LinksJoinShownNodes
<1>1. GraphInv => LinksJoinShownNodes
  <2> SUFFICES ASSUME GraphInv, NEW V \in SUBSET Doc, NEW e \in LinksFor(V), NEW n \in {e[1], e[2]}
               PROVE  n \in NodesFor(V)
    BY DEF LinksJoinShownNodes
  <2>1. PICK s \in sources : s.item = e /\ s.doc \in V
    BY DEF LinksFor, Docs
  <2>2. s = [item |-> e, doc |-> s.doc] /\ s.doc \in Doc /\ e \in edges
    BY <2>1 DEF GraphInv, GraphTypes, TypeOK, Source, LinksFor
  <2>3. n \in nodes /\ [item |-> n, doc |-> s.doc] \in sources
    BY <2>1, <2>2 DEF GraphInv, Joined
  <2> QED BY <2>1, <2>3 DEF NodesFor, Docs
<1> QED BY <1>1, GraphInvariant, PTL

\* What one document has contributed stays when another is ingested again or
\* deleted (bulk_upsert_graph, clear_document_output), but for what a delete that
\* waited took by its old snapshot.
THEOREM ProvenanceKeptHolds == Spec => []ProvenanceKept
<1>1. GraphInv => ProvenanceKept
  BY DEF GraphInv
<1> QED BY <1>1, GraphInvariant, PTL

\* The back-fill never writes an embedding made of a description that its node no
\* longer has, although an ingestion may change it between read and write
\* (backfill_node_embeddings.rs: the update asks for embedding IS NULL).
THEOREM EmbeddingIsCurrentHolds == Spec => []EmbeddingIsCurrent
<1>1. GraphInv => EmbeddingIsCurrent
  BY DEF GraphInv
<1> QED BY <1>1, GraphInvariant, PTL
=============================================================================
