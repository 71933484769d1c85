--------------------------- MODULE KnowledgeGraph ---------------------------
(***************************************************************************)
(* The knowledge graph of one workspace: nodes and edges that several      *)
(* documents share, and the provenance rows that say which document        *)
(* contributed which.  Transactions of different documents run beside one  *)
(* another in READ COMMITTED: the save and the clearing of an ingestion    *)
(* (ingestion/graph.rs, ingestion/processor.rs), the deletion of a document*)
(* (routes/documents.rs).  Beside them the operator's back-fill of node    *)
(* embeddings (ingestion/backfill_node_embeddings.rs) and the readers      *)
(* (routes/graph.rs, chat/retrieval.rs).                                   *)
(***************************************************************************)
EXTENDS Naturals, FiniteSets

CONSTANTS
    Doc,            \* documents; an id is never used again
    Node,           \* entities, by their normalised name
    Element,        \* what the model may extract from a document: a node with a
                    \* description, or an edge
    NoDoc,          \* nobody's description
    BatchSize,      \* nodes a batch of the back-fill takes
    MaxWrites       \* bound: transactions of a behaviour

NodeElement == [kind : {"node"}, name : Node]
EdgeElement == [kind : {"edge"}, source : Node, target : Node]

\* The id of a document is no word of this module, and a node's name no pair of names.
ASSUME GraphAssumption ==
    /\ Element \subseteq NodeElement \cup EdgeElement
    /\ NoDoc \notin Doc /\ Doc \cap {"null", "name"} = {}
    /\ Node \cap (Node \X Node) = {}
    /\ BatchSize \in Nat \ {0} /\ MaxWrites \in Nat

VARIABLES
    row,        \* documents: "none", "stored", "gone"
    nodes,      \* graph_nodes
    about,      \* the document whose description a node carries
    embedding,  \* graph_nodes.embedding: "null", "name", or made with the
                \* description of a document
    edges,      \* graph_edges
    sources,    \* graph_node_sources and graph_edge_sources
    tx,         \* the transaction about each document
    job,        \* the back-fill
    writes,     \* transactions so far
    saved,      \* history: what the last committed save of a document wrote
    robbed      \* history: provenance that went with a node or edge deleted by a
                \* transaction whose snapshot did not have that provenance

graph == <<nodes, about, embedding, edges, sources>>
vars == <<row, graph, tx, job, writes, saved, robbed>>

Edge == Node \X Node
Source == [item : Node \cup Edge, doc : Doc]
Idle == [pc |-> "idle"]
Nothing == [nodes |-> {}, described |-> {}, edges |-> {}]
NoJob == [pc |-> "idle", batch |-> {}, excluded |-> {}]

Docs(i) == {s.doc : s \in {s \in sources : s.item = i}}
Touches(e, n) == n \in {e[1], e[2]}

TypeOK ==
    /\ row \in [Doc -> {"none", "stored", "gone"}]
    /\ nodes \subseteq Node /\ edges \subseteq Edge
    /\ about \in [Node -> Doc \cup {NoDoc}]
    /\ embedding \in [Node -> Doc \cup {"null", "name"}]
    /\ sources \subseteq Source /\ robbed \subseteq Source
    /\ \A d \in Doc : tx[d].pc \in {"idle", "delete", "upsert", "commit"}
    /\ job.pc \in {"idle", "fetch", "embed"}
    /\ job.excluded \subseteq Node
    /\ writes \in 0..MaxWrites

\* GraphWriteBatch::from_extractions: the ends of an edge are nodes of the batch,
\* if only by name.
Batch(S) ==
    LET E == {<<e.source, e.target>> : e \in {e \in S : e.kind = "edge"}}
        D == {e.name : e \in {e \in S : e.kind = "node"}}
    IN  [nodes |-> D \cup UNION {{e[1], e[2]} : e \in E}, described |-> D, edges |-> E]
Items(b) == b.nodes \cup b.edges
SourcesOf(b, d) == [item : Items(b), doc : {d}]

\* The workspace holds at most one document from before node embeddings were kept.
Init ==
    /\ \E old \in SUBSET Doc, S \in SUBSET Element :
         /\ Cardinality(old) <= 1
         /\ row = [d \in Doc |-> IF d \in old THEN "stored" ELSE "none"]
         /\ saved = [d \in Doc |-> IF d \in old THEN Batch(S) ELSE Nothing]
    /\ nodes = UNION {saved[d].nodes : d \in Doc}
    /\ edges = UNION {saved[d].edges : d \in Doc}
    /\ sources = UNION {SourcesOf(saved[d], d) : d \in Doc}
    /\ about = [n \in Node |->
                  IF \E d \in Doc : n \in saved[d].described
                  THEN CHOOSE d \in Doc : n \in saved[d].described ELSE NoDoc]
    /\ embedding = [n \in Node |-> "null"]
    /\ tx = [d \in Doc |-> Idle]
    /\ job = NoJob
    /\ writes = 0
    /\ robbed = {}

-----------------------------------------------------------------------------
(* Transactions.  What one has done is seen by others when it commits; a row it *)
(* has deleted or written is locked until then.  The documents row, which a     *)
(* deletion locks and a save's foreign keys need, keeps the transactions about  *)
(* one document apart.                                                          *)

Goto(d, t) == tx' = [tx EXCEPT ![d] = t]
Held(c) == IF tx[c] = Idle THEN {}
           ELSE tx[c].doomed \cup (IF tx[c].pc = "commit" THEN Items(tx[c].batch) ELSE {})
LockedFrom(d) == UNION {Held(c) : c \in Doc \ {d}}

\* The statement that deletes edges and nodes without provenance, as far as its
\* snapshot tells: provenance of d, deleted before by this transaction, is not seen.
DoomedOfDocument(d, gone) ==    \* mutant: the provenance of other documents is not asked for
    LET E == {e \in edges \ gone : d \in Docs(e) \/ Docs(e) = {}}
    IN  E \cup {n \in nodes \ gone :
                  /\ d \in Docs(n) \/ Docs(n) = {}
                  /\ \A e \in edges \ (E \cup gone) : ~Touches(e, n)}
Doomed(d, gone) ==
    LET E == {e \in edges \ gone : Docs(e) \subseteq {d}}
    IN  E \cup {n \in nodes \ gone :
                  /\ Docs(n) \subseteq {d}
                  /\ \A e \in edges \ (E \cup gone) : ~Touches(e, n)}

\* seen: the provenance of others the snapshot shows of the statement's targets.
Snapshot(d, t) ==
    LET T == Doomed(d, t.doomed)
    IN  [t EXCEPT !.targets = T,
                  !.seen = {s \in sources : s.doc # d /\ s.item \in T}]

\* An ingestion clears the old output and, if there is text, saves the new one; an
\* extraction that failed or came too late leaves elements out.
BeginTx(d, kind, b) ==
    /\ tx[d] = Idle /\ writes < MaxWrites /\ writes' = writes + 1
    /\ Goto(d, Snapshot(d, [pc |-> "delete", kind |-> kind, batch |-> b, pass |-> 1,
                            targets |-> {}, seen |-> {}, doomed |-> {}, stolen |-> {}]))
    /\ UNCHANGED <<graph, job, saved, robbed>>

Upload(d) ==
    /\ row[d] = "none" /\ row' = [row EXCEPT ![d] = "stored"]
    /\ UNCHANGED <<graph, tx, job, writes, saved, robbed>>

BeginSave(d) ==
    /\ row[d] = "stored" /\ UNCHANGED row
    /\ \E S \in SUBSET Element : BeginTx(d, "save", Batch(S))
BeginClear(d) ==
    row[d] = "stored" /\ BeginTx(d, "clear", Nothing) /\ UNCHANGED row
BeginDelete(d) ==
    row[d] = "stored" /\ BeginTx(d, "delete", Nothing) /\ UNCHANGED row

\* The delete waits for the rows' locks and is carried out on what is left of its
\* targets then, whatever provenance was committed meanwhile.  A save runs it again,
\* in a statement and with a snapshot of its own (bulk_upsert_graph).
Waits(d) ==
    \/ tx[d].pc = "delete" /\ tx[d].targets \cap LockedFrom(d) # {}
    \/ tx[d].pc = "upsert" /\ Items(tx[d].batch) \cap LockedFrom(d) # {}

\* Foreign keys: with a node go its edges, with either its provenance.
Cascade(S) == S \cup {e \in edges : \E n \in S \cap Node : Touches(e, n)}

DeleteUntracked(d) ==
    /\ tx[d].pc = "delete" /\ ~Waits(d)
    /\ LET now == Cascade(tx[d].targets \cap (nodes \cup edges))
           then == [tx[d] EXCEPT
                      !.doomed = @ \cup now, !.targets = {}, !.seen = {},
                      !.stolen = @ \cup {s \in sources : /\ s.item \in now
                                                        /\ s.doc # d
                                                        /\ s \notin tx[d].seen}]
       IN  Goto(d, IF then.kind = "save" /\ then.pass = 1
                   THEN Snapshot(d, [then EXCEPT !.pass = 2])
                   ELSE [then EXCEPT !.pc = "upsert"])
    /\ UNCHANGED <<row, graph, job, writes, saved, robbed>>

\* bulk_upsert_graph_nodes and the three statements after it.
UpsertGraph(d) ==
    /\ tx[d].pc = "upsert" /\ ~Waits(d)
    /\ Goto(d, [tx[d] EXCEPT !.pc = "commit"])
    /\ UNCHANGED <<row, graph, job, writes, saved, robbed>>

\* ON CONFLICT DO UPDATE: a batch without a description keeps the one there is,
\* and its weaker embedding only fills an empty one.
NewRow(d, n) == n \notin nodes \/ n \in tx[d].doomed
About(d, n) ==
    IF n \in tx[d].batch.described THEN d
    ELSE IF n \in tx[d].batch.nodes /\ NewRow(d, n) THEN NoDoc
    ELSE about[n]
Embedding(d, n) ==
    IF n \in tx[d].batch.described THEN d
    ELSE IF n \in tx[d].batch.nodes /\ (NewRow(d, n) \/ embedding[n] = "null") THEN "name"
    ELSE embedding[n]

\* What a transaction deleted is gone for those that waited for it, even if it put
\* a row of the same name back.
Ended(d) ==
    [c \in Doc |-> IF c = d THEN Idle
                   ELSE IF tx[c].pc = "delete" THEN [tx[c] EXCEPT !.targets = @ \ tx[d].doomed]
                   ELSE tx[c]]

SourcesKeepingEdges(d) ==   \* mutant: clear_document_output forgets graph_edge_sources
    {s \in sources : s.item \notin tx[d].doomed /\ (s.doc # d \/ s.item \in Edge)}
        \cup SourcesOf(tx[d].batch, d)
Sources(d) ==
    {s \in sources : s.item \notin tx[d].doomed /\ s.doc # d} \cup SourcesOf(tx[d].batch, d)

Commit(d) ==
    /\ tx[d].pc = "commit"
    /\ nodes' = (nodes \ tx[d].doomed) \cup tx[d].batch.nodes
    /\ edges' = (edges \ tx[d].doomed) \cup tx[d].batch.edges
    /\ sources' = Sources(d)
    /\ about' = [n \in Node |-> About(d, n)]
    /\ embedding' = [n \in Node |-> Embedding(d, n)]
    /\ row' = [row EXCEPT ![d] = IF tx[d].kind = "delete" THEN "gone" ELSE @]
    /\ saved' = [saved EXCEPT ![d] = tx[d].batch]
    /\ robbed' = {s \in robbed : s.doc # d} \cup tx[d].stolen
    /\ tx' = Ended(d)
    /\ UNCHANGED <<job, writes>>

\* An error, a lost connection or a deadlock that PostgreSQL ends: rolled back.
Rollback(d) ==
    /\ tx[d] # Idle
    /\ Goto(d, Idle)
    /\ UNCHANGED <<row, graph, job, writes, saved, robbed>>

\* The row alone is deleted (an upload that is rolled back): provenance cascades,
\* nodes and edges stay until the next transaction of the workspace.
DropRow(d) ==
    /\ row[d] = "stored" /\ tx[d] = Idle
    /\ row' = [row EXCEPT ![d] = "gone"]
    /\ sources' = {s \in sources : s.doc # d}
    /\ saved' = [saved EXCEPT ![d] = Nothing]
    /\ robbed' = {s \in robbed : s.doc # d}
    /\ UNCHANGED <<nodes, about, embedding, edges, tx, job, writes>>

-----------------------------------------------------------------------------
(* The back-fill: batches of nodes without an embedding, read, embedded outside *)
(* the database, and written one by one.                                        *)

StartJob ==
    /\ job = NoJob /\ job' = [NoJob EXCEPT !.pc = "fetch"]
    /\ UNCHANGED <<row, graph, tx, writes, saved, robbed>>

Missing == {n \in nodes \ job.excluded : embedding[n] = "null"}
FetchBatch ==
    /\ job.pc = "fetch"
    /\ IF Missing = {}
       THEN job' = NoJob
       ELSE \E B \in SUBSET Missing :
              /\ Cardinality(B) = IF Cardinality(Missing) < BatchSize
                                  THEN Cardinality(Missing) ELSE BatchSize
              /\ job' = [job EXCEPT !.pc = "embed",
                                    !.batch = {<<n, about[n]>> : n \in B}]
    /\ UNCHANGED <<row, graph, tx, writes, saved, robbed>>

\* record_node_error: left out for the rest of the run.
Excluded(b) == job.excluded \cup {b[1]}

\* update_node_embedding, with the vector of the text that was read.
FilledAlways(b) ==          \* mutant: the update does not ask for embedding IS NULL
    IF b[1] \in nodes
    THEN [embedding EXCEPT ![b[1]] = IF b[2] = NoDoc THEN "name" ELSE b[2]]
    ELSE embedding
Filled(b) ==
    IF b[1] \in nodes /\ embedding[b[1]] = "null"
    THEN [embedding EXCEPT ![b[1]] = IF b[2] = NoDoc THEN "name" ELSE b[2]]
    ELSE embedding

WriteNode ==
    /\ job.pc = "embed"
    /\ \E b \in job.batch :
         LET rest == job.batch \ {b}
             next == [job EXCEPT !.pc = IF rest = {} THEN "fetch" ELSE "embed",
                                 !.batch = rest]
         IN  \/ /\ b[1] \notin LockedFrom(NoDoc)
                /\ embedding' = Filled(b)
                /\ job' = next
             \/ /\ job' = [next EXCEPT !.excluded = Excluded(b)]
                /\ UNCHANGED embedding
    /\ UNCHANGED <<row, nodes, about, edges, sources, tx, writes, saved, robbed>>

-----------------------------------------------------------------------------
Transaction(d) == DeleteUntracked(d) \/ UpsertGraph(d) \/ Commit(d)
Backfill == FetchBatch \/ WriteNode

Next ==
    \/ \E d \in Doc : \/ Upload(d) \/ BeginSave(d) \/ BeginClear(d) \/ BeginDelete(d)
                      \/ Transaction(d) \/ Rollback(d) \/ DropRow(d)
    \/ StartJob \/ Backfill

Spec == Init /\ [][Next]_vars

-----------------------------------------------------------------------------
\* What fetch_workspace_graph and fetch_graph_context join for a viewer of the
\* documents V.
NodesFor(V) == {n \in nodes : Docs(n) \cap V # {}}
LinksFor(V) == {e \in edges : Docs(e) \cap V # {}}

\* A link is joined to the names of its two nodes without a look at their
\* provenance (fetch_graph_context, fetch_workspace_graph): whoever may see the link
\* may see both nodes, because a document that contributes an edge contributes its
\* ends and none of the concurrent transactions parts them.
LinksJoinShownNodes ==
    \A V \in SUBSET Doc : \A e \in LinksFor(V) : {e[1], e[2]} \subseteq NodesFor(V)

\* Nodes and edges are shared, and every ingestion or deletion of one document
\* deletes those nobody contributes any more: what another document has contributed
\* stays.  Known gap: a delete that waited for a row judges by its old snapshot.
ProvenanceKept ==
    \A d \in Doc : \A i \in Items(saved[d]) :
        LET s == [item |-> i, doc |-> d] IN s \in sources \/ s \in robbed

\* An embedding is never made of a description its node no longer has, although the
\* back-fill computes it outside any transaction while ingestions go on.
EmbeddingIsCurrent ==
    \A n \in nodes : embedding[n] \in {"null", "name", about[n]}
=============================================================================
