--------------------------- MODULE GraphRetrieval ---------------------------
(* How a query turns the knowledge graph into ranked source chunks and the    *)
(* paths they rest on (rag/graph_retrieval.py), as operators over a view: the *)
(* part of a store a request may see. PostgreSQL and Neo4j answer alike but   *)
(* for how they load relations, use them and list mentions. Each relation has *)
(* the chunk it was extracted from.                                           *)
EXTENDS Corpus

CONSTANTS
    EntityMatch,        \* [Queries -> [Entities -> <<score, score with the alias>>]]
    Relations,          \* sequence by graph_relation_id of [ends, confidence, chunk]
    MinEntityMatch, MaxStartEntities, MaxDepth, MaxPaths,
    MaxRelations,       \* of an entity, per step
    MaxSourceChunks,
    Signs,              \* [Queries -> [hit, markers, words]]: graph wording in a query
    MinSignal

GraphStrategies == {"graph_postgres", "graph_neo4j"}
GraphDefault == "graph_neo4j"

DatabaseView(filter) ==
    [provider |-> "postgres", aliased |-> aliased.db,
     chunks |-> InScope(filter, ActiveChunks \cap graphs)]
Neo4jView(filter) ==
    [provider |-> "neo4j", aliased |-> aliased.neo,
     chunks |-> InScope(filter, {c \in Chunks : projected[c] = "active"})]

Ends(i) == {Relations[i].ends[1], Relations[i].ends[2]}
OtherEnd(i, e) == CHOOSE o \in Ends(i) : o # e

ASSUME DepthAssumption == MaxDepth \in Nat \ {0}
ASSUME RelationsAssumption == \A i \in DOMAIN Relations : Cardinality(Ends(i)) = 2

Ascending(S) == SetToSortSeq(S, <)
ByConfidence(ids) ==
    SetToSortSeq(ids, LAMBDA i, j : \/ Relations[i].confidence > Relations[j].confidence
                                    \/ Relations[i].confidence = Relations[j].confidence /\ i < j)

-----------------------------------------------------------------------------
(* From the query to paths.                                                   *)

\* The score of an entity: its names (or type) against the words of the query.
Match(view, q, e) == EntityMatch[q][e][IF e \in view.aliased THEN 2 ELSE 1]

\* lookup_entities and _lookup_entities: entities some chunk in view mentions.
StartEntities(view, q) ==
    LET known == UNION {Mentions[c] : c \in view.chunks}
        found == {e \in known : Match(view, q, e) >= MinEntityMatch}
    IN FirstN(SetToSortSeq(found, LAMBDA a, b :
                  \/ Match(view, q, a) > Match(view, q, b)
                  \/ Match(view, q, a) = Match(view, q, b) /\ a < b), MaxStartEntities)

\* The relations of an entity that have not been seen, best first.
Unseen(view, search, e) ==
    ByConfidence({i \in DOMAIN Relations \ search.seen :
                      e \in Ends(i) /\ Relations[i].chunk \in view.chunks})

\* list_relations_for_entity_ids: entity by entity, a relation only once, known
\* from then on at both its ends; later steps exclude it.
LoadFromDatabase(view, search, pending) ==
    LET take(loaded, e) ==
            LET ranked == FirstN(Unseen(view, search, e), MaxRelations + Cardinality(pending))
            IN loaded \o FirstN(SelectSeq(ranked, LAMBDA i : i \notin ToSet(loaded)), MaxRelations)
        loaded == FoldLeft(take, <<>>, Ascending(pending))
        ends(i) == <<<<Relations[i].ends[1], i>>, <<Relations[i].ends[2], i>>>>
    IN [search EXCEPT !.rows = @ \o FlattenSeq([k \in DOMAIN loaded |-> ends(loaded[k])]),
                      !.seen = @ \cup ToSet(loaded)]

\* _relations_for_frontier: a relation is known at the entity it was loaded for;
\* later steps exclude those some path has used.
LoadFromNeo4j(view, search, pending) ==
    LET of(e) == LET best == FirstN(Unseen(view, search, e), MaxRelations)
                 IN [k \in DOMAIN best |-> <<e, best[k]>>]
        order == Ascending(pending)
    IN [search EXCEPT !.rows = @ \o FlattenSeq([k \in DOMAIN order |-> of(order[k])])]

\* The chunks of the relations of a path, each once.
SourceChunks(relations) ==
    LET add(found, i) == IF Relations[i].chunk \in ToSet(found) THEN found
                         ELSE Append(found, Relations[i].chunk)
    IN FirstN(FoldLeft(add, <<>>, relations), MaxSourceChunks)

Longer(path, i) ==
    LET relations == Append(path.relations, i)
    IN [entities |-> Append(path.entities, OtherEnd(i, Last(path.entities))),
        relations |-> relations, match |-> path.match, chunks |-> SourceChunks(relations)]

PathLimit == LET n == MaxPaths * MaxDepth * MaxRelations IN IF n > MaxPaths THEN n ELSE MaxPaths
FrontierLimit == LET n == MaxPaths * MaxRelations IN IF n > MaxPaths THEN n ELSE MaxPaths

\* One path of the frontier, extended by the relations known at its last entity
\* that lead to an entity it has not visited. In Neo4j's search no other path
\* uses these relations again.
Expand(view, search, path) ==
    LET here == Last(path.entities)
        known == SelectSeq(search.rows, LAMBDA row : row[1] = here)
        ahead == SelectSeq([k \in DOMAIN known |-> known[k][2]],
                           LAMBDA i : /\ OtherEnd(i, here) \notin ToSet(path.entities)
                                      /\ view.provider = "neo4j" => i \notin search.seen)
        next == FirstN(ahead, MaxRelations)
        longer == [k \in DOMAIN next |-> Longer(path, next[k])]
    IN [search EXCEPT
          !.paths = FirstN(@ \o longer, PathLimit),
          !.frontier = IF Len(path.relations) + 1 < MaxDepth
                       THEN FirstN(@ \o longer, FrontierLimit) ELSE @,
          !.seen = IF view.provider = "neo4j" THEN @ \cup ToSet(next) ELSE @]

\* One step of search_paths: relations of new entities are loaded, then every
\* path of the frontier is extended.
Deepen(view, search) ==
    LET here == {Last(search.frontier[k].entities) : k \in DOMAIN search.frontier}
        pending == here \ search.loaded
        opened == IF view.provider = "neo4j" THEN LoadFromNeo4j(view, search, pending)
                  ELSE LoadFromDatabase(view, search, pending)
        extend(s, path) == Expand(view, s, path)
    IN FoldLeft(extend, [opened EXCEPT !.loaded = @ \cup pending, !.frontier = <<>>], search.frontier)

\* GraphScoreCalculator.score_path; a mention scores like its entity.
PathScore(path) ==
    LET n == Len(path.relations)
        total == FoldLeft(LAMBDA sum, i : sum + Relations[i].confidence, 0, path.relations)
        penalty == Unit - 100 * (n - 1)
    IN IF n = 0 THEN path.match
       ELSE (45 * path.match + 45 * (total \div n)
               + 10 * (IF penalty < 100 THEN 100 ELSE penalty)) \div 100

\* _select_paths_at_cap; ties go to the shorter, then to the later found path.
BestPaths(paths) ==
    LET score == [k \in DOMAIN paths |-> PathScore(paths[k])]
        depth(k) == Len(paths[k].relations)
        order == SetToSortSeq(DOMAIN paths, LAMBDA k, l :
                     \/ score[k] > score[l]
                     \/ score[k] = score[l] /\ depth(k) < depth(l)
                     \/ score[k] = score[l] /\ depth(k) = depth(l) /\ k > l)
    IN FirstN([n \in DOMAIN order |-> paths[order[n]]], MaxPaths)

\* search_paths; fewer steps than MaxDepth are a timeout.
FoundPaths(view, q, starts, steps) ==
    LET start == [k \in DOMAIN starts |->
                    [entities |-> <<starts[k]>>, relations |-> <<>>,
                     match |-> Match(view, q, starts[k]), chunks |-> <<>>]]
        begin == [paths |-> <<>>, frontier |-> start, rows |-> <<>>, loaded |-> {}, seen |-> {}]
        deepen(s, k) == Deepen(view, s)
    IN BestPaths(FoldLeft(deepen, begin, [k \in 1..steps |-> k]).paths)

-----------------------------------------------------------------------------
(* From paths to source chunks.                                               *)

\* _source_candidates: a chunk scores the mean of its three best paths and keeps
\* its five best.
SourceCandidates(paths) ==
    LET score == [k \in DOMAIN paths |-> PathScore(paths[k])]
        ranked(c) == SetToSortSeq({k \in DOMAIN paths : c \in ToSet(paths[k].chunks)},
                         LAMBDA k, l : \/ score[k] > score[l]
                                       \/ score[k] = score[l] /\ k < l)
        mean(s) == FoldLeft(LAMBDA sum, k : sum + score[k], 0, s) \div Len(s)
        chunks == UNION {ToSet(paths[k].chunks) : k \in DOMAIN paths}
        kept(c) == LET best == FirstN(ranked(c), 5) IN [n \in DOMAIN best |-> paths[best[n]]]
    IN FirstN(BestFirst({[chunk |-> c, score |-> mean(FirstN(ranked(c), 3)), paths |-> kept(c)]
                            : c \in chunks}),
              Least(TopK, MaxSourceChunks))

Mentioned(view, e) == Ascending({c \in view.chunks : e \in Mentions[c]})
MentionPath(view, q, e, c) ==
    [entities |-> <<e>>, relations |-> <<>>, match |-> Match(view, q, e), chunks |-> <<c>>]

\* list_mentions_for_entity_ids: the entities take turns, each within its share.
DatabaseMentions(view, q, starts) ==
    LET asked == FirstN(starts, MaxSourceChunks)
        share == (MaxSourceChunks + Len(asked) - 1) \div Len(asked)
        turn(rank) == LET having == SelectSeq(asked, LAMBDA e : Len(Mentioned(view, e)) >= rank)
                      IN [k \in DOMAIN having |->
                            MentionPath(view, q, having[k], Mentioned(view, having[k])[rank])]
    IN FirstN(FirstN(FlattenSeq([rank \in 1..share |-> turn(rank)]), MaxSourceChunks), MaxPaths)

\* _mention_only_paths_for_entities of Neo4j: entity by entity; chunks the
\* database does not serve are dropped.
Neo4jMentions(view, q, starts, served) ==
    LET order == Ascending(ToSet(starts))
        of(e) == LET chunks == Mentioned(view, e)
                 IN [k \in DOMAIN chunks |-> MentionPath(view, q, e, chunks[k])]
        rows == FirstN(FlattenSeq([k \in DOMAIN order |-> of(order[k])]), MaxSourceChunks * Len(starts))
    IN FirstN(SelectSeq(rows, LAMBDA p : p.chunks[1] \in served), MaxPaths)

\* Chunks of paths, or of mentions when no path has any.
OrMentions(paths, mentions) ==
    LET found == SourceCandidates(paths)
    IN IF found = <<>> THEN SourceCandidates(mentions) ELSE found

\* PostgresGraphStore.search
DatabaseCandidates(view, q, steps) ==
    LET starts == StartEntities(view, q)
    IN IF starts = <<>> THEN <<>>
       ELSE OrMentions(FoundPaths(view, q, starts, steps), DatabaseMentions(view, q, starts))

\* Neo4jGraphStore.search once it knows its paths: those stay whose relations all
\* come from served chunks.
Neo4jCandidates(view, q, starts, paths, served) ==
    IF starts = <<>> THEN <<>>
    ELSE OrMentions(SelectSeq(paths, LAMBDA p : \A k \in DOMAIN p.relations :
                                                    Relations[p.relations[k]].chunk \in served),
                    Neo4jMentions(view, q, starts, served))

\* _projection_gap_reason: the projection is empty, or lacks a version.
ProjectionGap(filter) ==
    LET has(view) == {c \in view.chunks : Mentions[c] # {}}
        there == has(Neo4jView(filter))
    IN there = {} \/ ~(has(DatabaseView(filter)) \subseteq there)

\* _path_records: the paths behind the items, with the items' chunks.
PathRecords(visible) ==
    LET paths == UNION {ToSet(visible[k].paths) : k \in DOMAIN visible}
        of(p) == {visible[k].chunk : k \in {n \in DOMAIN visible : p \in ToSet(visible[n].paths)}}
    IN {[entities |-> p.entities, relations |-> p.relations, chunks |-> of(p)] : p \in paths}

\* graph_query_signal_score, and the router's threshold.
GraphRouted(q) ==
    LET s == Signs[q]
    IN (IF s.hit THEN 450 ELSE 0) + 150 * s.markers + (IF s.words >= 3 THEN 250 ELSE 0) >= MinSignal

\* _graph_fallback_selection
GraphFallback == IF "hybrid" \in AvailableStrategies THEN "hybrid" ELSE "dense"
=============================================================================
