--------------------------- MODULE RetrievalCache ---------------------------
(* The cache of retrieval results (rag/retrieval_cache.py). A result is found *)
(* again under a key that names the state of the corpus, and of the graph     *)
(* when the request is about the graph, it was computed for.                  *)
EXTENDS GraphRetrieval

VARIABLES
    entries             \* retrieval_cache_entries: [keys -> [items, paths, fellBack,
                        \* fresh, settled, aliased]]; the last two record how the world was

cacheVars == <<corpusVars, entries>>

CacheInit == CorpusInit /\ entries = <<>>

-----------------------------------------------------------------------------
(* Keys and entries.                                                          *)

\* Mutation: the rows count, the time of their last change does not.
FingerprintOfVersions(filter) ==
    IF filter = {} THEN {<<0, marker>>}
    ELSE {<<active[d], 0>> : d \in {e \in filter : active[e] # Archived}}

\* _active_document_fingerprint: the marker, or the rows of the documents the
\* request is limited to.
Fingerprint(filter) ==
    IF filter = {} THEN {<<0, marker>>}
    ELSE {<<active[d], stamp[d]>> : d \in {e \in filter : active[e] # Archived}}

\* _graph_index_fingerprint: the builds of the active versions.
GraphFingerprint(strategy, filter) ==
    IF strategy \in GraphStrategies
    THEN {<<c, builds[c]>> : c \in {a \in InScope(filter, ActiveChunks) : builds[a] > 0}}
    ELSE {}

\* CacheKeyBuilder.build; the strategy stands for the provider too.
CacheKey(kind, q, strategy, filter) ==
    [kind |-> kind, query |-> q, strategy |-> strategy, filter |-> filter,
     fingerprint |-> Fingerprint(filter), graph |-> GraphFingerprint(strategy, filter)]

NoKey == [kind |-> "none"]

Cacheable(strategy) == strategy \in {"dense", "sparse", "hybrid"} \cup GraphStrategies
Hit(key) == key \in DOMAIN entries /\ entries[key].fresh

\* expires_at passes; the row stays until a store prunes it.
ExpireEntry ==
    /\ Disturb
    /\ \E key \in DOMAIN entries :
          /\ entries[key].fresh
          /\ entries' = [entries EXCEPT ![key].fresh = FALSE]
    /\ UNCHANGED corpusVars

\* The entries after a store: expired ones pruned, the new one written over any
\* entry of its key.
Stored(key, result) ==
    LET kept == {k \in DOMAIN entries : entries[k].fresh}
    IN [k \in kept \cup {key} |-> IF k = key THEN result ELSE entries[k]]

-----------------------------------------------------------------------------
\* What a direct retrieval finds.
FreshItems(q, strategy, filter) ==
    LET scope == InScope(filter, ActiveChunks)
        offered == Offered(q, strategy, InScope(filter, indexed), scope)
    IN DirectItems(q, strategy, Checked(q, strategy, offered, scope))

\* What a graph store offers when it answers completely.
FreshCandidates(q, strategy, filter) ==
    IF strategy = "graph_postgres"
    THEN DatabaseCandidates(DatabaseView(filter), q, MaxDepth)
    ELSE LET view == Neo4jView(filter)
             starts == StartEntities(view, q)
         IN Neo4jCandidates(view, q, starts, FoundPaths(view, q, starts, MaxDepth),
                            InScope(filter, ActiveChunks))

DirectResult(q, strategy, filter) == [items |-> FreshItems(q, strategy, filter), paths |-> {}]

\* What the database serves of it.
FreshVisible(q, strategy, filter) ==
    FirstN(FinalCheck(FreshCandidates(q, strategy, filter), InScope(filter, ActiveChunks)), TopK)

\* What a retrieval returns when nothing changes under it (there is one result).
FreshResults(q, strategy, filter) ==
    IF strategy \notin GraphStrategies THEN {DirectResult(q, strategy, filter)}
    ELSE {IF visible = <<>> THEN DirectResult(q, GraphFallback, filter)
          ELSE [items |-> PlainItems(visible, RerankTopN), paths |-> PathRecords(visible)] :
          visible \in {FreshVisible(q, strategy, filter)}}

\* In the scope of a filter the payloads are those of the active versions and,
\* where it matters, Neo4j holds the graphs of the active versions.
Settled(strategy, filter) ==
    /\ InScope(filter, indexed) = InScope(filter, ActiveChunks)
    /\ strategy = "graph_neo4j" => Neo4jView(filter).chunks = DatabaseView(filter).chunks

\* An entry a request of now would find holds what a retrieval of now would return.
EntryMatches(key) ==
    LET entry == entries[key]
    IN /\ entry.settled
       /\ entry.aliased = aliased
       /\ Settled(key.strategy, key.filter)
       /\ key.fingerprint = Fingerprint(key.filter)
       /\ key.graph = GraphFingerprint(key.strategy, key.filter)
       => [items |-> entry.items, paths |-> entry.paths]
            \in FreshResults(key.query, key.strategy, key.filter)

\* Whatever was activated, archived, built or rolled back between the search and
\* the store, an entry that is found is right, as long as the vector index and Neo4j
\* had caught up on both occasions (retrieval_cache_foundation.md leaves the rest to
\* the TTL) and no other version's build gave an entity an alias in between, which no
\* part of the key tells.
CacheMatchesCorpus == \A key \in DOMAIN entries : EntryMatches(key)
=============================================================================
