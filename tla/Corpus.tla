------------------------------- MODULE Corpus -------------------------------
(* The corpus a retrieval reads: the documents with their active versions,    *)
(* the payloads of the vector index that follow them, and the knowledge graph *)
(* with its projection to Neo4j. A version is one chunk, so the active        *)
(* version of a document is a chunk number. How a graph gets built is the     *)
(* subject of GraphIndexBuild; here a build is its commit and its projection. *)
EXTENDS Ranking

CONSTANTS
    Docs,               \* logical_document_id of every document
    FirstActive,        \* [Docs -> Chunks]: the versions active at the start
    FirstGraphs,        \* versions with a graph, built and projected, at the start
    Entities,           \* graph_entity_id of every entity
    Mentions,           \* [Chunks -> SUBSET Entities]: found in a chunk
    Renames             \* [Chunks -> SUBSET Entities]: given an alias by a build

Archived == 0           \* no active version

VARIABLES
    active,             \* [Docs -> Chunks \cup {Archived}]
    stamp,              \* [Docs -> Nat]: updated_at of a document and its version
    marker,             \* the corpus marker among the system settings
    indexed,            \* chunks whose payload in the vector index says active
    graphs,             \* chunks whose mentions and relations are in the database
    builds,             \* [Chunks -> Nat]: graph_index_runs of a version, their last change
    projected,          \* [Chunks -> {"none", "inactive", "active"}]: in Neo4j
    toProject,          \* chunks whose last build has not been projected yet
    aliased,            \* entities with their alias: in the database (db), in Neo4j (neo)
    rebuilds,           \* bound: builds still to come
    disturbances        \* bound: activations, archivals (and what the modules built on
                        \* this one count among them) still to come

graphVars == <<graphs, builds, projected, toProject, aliased, rebuilds>>
documentVars == <<active, stamp, marker, indexed>>
corpusVars == <<documentVars, graphVars>>

ASSUME FirstActiveAssumption ==
    FirstActive \in [Docs -> Chunks] /\ \A d \in Docs : DocOf[FirstActive[d]] = d

ActiveChunks == {active[d] : d \in Docs} \ {Archived}
InScope(filter, chunks) == {c \in chunks : filter = {} \/ DocOf[c] \in filter}

\* What a projection writes of a version, read from the database.
ProjectedStatus(c) == IF c \in ActiveChunks THEN "active" ELSE "inactive"

CorpusInit ==
    /\ active = FirstActive
    /\ stamp = [d \in Docs |-> 0]
    /\ marker = 0
    /\ indexed = {FirstActive[d] : d \in Docs}
    /\ graphs = FirstGraphs
    /\ builds = [c \in Chunks |-> IF c \in FirstGraphs THEN 1 ELSE 0]
    /\ projected = [c \in Chunks |-> IF c \in FirstGraphs THEN "active" ELSE "none"]
    /\ toProject = {}
    /\ LET known == UNION {Renames[c] : c \in FirstGraphs} IN aliased = [db |-> known, neo |-> known]

Disturb == disturbances > 0 /\ disturbances' = disturbances - 1

-----------------------------------------------------------------------------
(* The corpus changes while requests run.                                     *)

\* set_active_version on approval: any ready version of a document still active.
ActivateVersion(d) ==
    /\ Disturb
    /\ active[d] # Archived
    /\ \E c \in Chunks : /\ DocOf[c] = d
                         /\ c # active[d]
                         /\ active' = [active EXCEPT ![d] = c]
    /\ stamp' = [stamp EXCEPT ![d] = @ + 1]
    /\ marker' = marker + 1
    /\ UNCHANGED <<indexed, graphVars>>

\* archive_document
ArchiveDocument(d) ==
    /\ Disturb
    /\ active[d] # Archived
    /\ active' = [active EXCEPT ![d] = Archived]
    /\ stamp' = [stamp EXCEPT ![d] = @ + 1]
    /\ marker' = marker + 1
    /\ UNCHANGED <<indexed, graphVars>>

\* The mirror job of a document brings its payloads up to date.
MirrorDocument(d) ==
    LET current == {c \in indexed : DocOf[c] # d} \cup ({active[d]} \ {Archived})
    IN /\ indexed # current
       /\ indexed' = current
       /\ UNCHANGED <<active, stamp, marker, graphVars, disturbances>>

\* A build of a version commits. It replaces the graph of the version, possibly
\* by nothing, and gives aliases to entities all versions share.
BuildGraph(c) ==
    /\ rebuilds > 0
    /\ rebuilds' = rebuilds - 1
    /\ \/ graphs' = graphs \cup {c} /\ aliased' = [aliased EXCEPT !.db = @ \cup Renames[c]]
       \/ graphs' = graphs \ {c} /\ UNCHANGED aliased
    /\ builds' = [builds EXCEPT ![c] = @ + 1]
    /\ toProject' = toProject \cup {c}
    /\ UNCHANGED <<documentVars, projected, disturbances>>

\* The projection after the commit, one write transaction of Neo4j; nobody
\* repeats it when another version is activated.
ProjectGraph(c) ==
    /\ c \in toProject
    /\ IF c \in graphs
       THEN /\ projected' = [projected EXCEPT ![c] = ProjectedStatus(c)]
            /\ aliased' = [aliased EXCEPT !.neo = @ \cup (aliased.db \cap Mentions[c])]
       ELSE /\ projected' = [projected EXCEPT ![c] = "none"]
            /\ UNCHANGED aliased
    /\ toProject' = toProject \ {c}
    /\ UNCHANGED <<documentVars, graphs, builds, rebuilds, disturbances>>

\* Neo4j cannot be reached: the version keeps the projection it has.
ProjectionFails(c) ==
    /\ c \in toProject
    /\ Disturb
    /\ toProject' = toProject \ {c}
    /\ UNCHANGED <<documentVars, graphs, builds, projected, aliased, rebuilds>>

CorpusStep ==
    \/ \E d \in Docs : ActivateVersion(d) \/ ArchiveDocument(d) \/ MirrorDocument(d)
    \/ \E c \in Chunks : BuildGraph(c) \/ ProjectGraph(c) \/ ProjectionFails(c)
=============================================================================
