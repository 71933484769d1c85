\* Two documents that may both contribute a described node and an edge from it.
CONSTANTS
    d1 = d1
    d2 = d2
    n1 = n1
    n2 = n2
    Doc <- MCDoc
    Node <- MCNode
    Element <- MCElement
    NoDoc = NoDoc
    BatchSize = 1
    MaxWrites = 3
SPECIFICATION Spec
INVARIANT LinksJoinShownNodes
INVARIANT ProvenanceKept
INVARIANT EmbeddingIsCurrent
CHECK_DEADLOCK FALSE
