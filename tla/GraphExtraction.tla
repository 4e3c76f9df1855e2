--------------------------- MODULE GraphExtraction ---------------------------
(***************************************************************************)
(* What a graph build extracts from the chunks of a version:               *)
(*   backend/app/graph/llm_extraction.py     LLMGraphExtractor             *)
(*   backend/app/graph/extraction.py         RuleBasedGraphExtractor       *)
(*   backend/app/services/graph_index_service.py   extract_from_snapshot   *)
(*                                                                         *)
(* Text is abstracted to what grounding finds in it.  A raw entity of the  *)
(* model's answer has the key it normalises to, the references by which a  *)
(* relation may name it, and whether it was found in the chunk, is sure    *)
(* enough and survives normalisation (kept).  A raw relation names its     *)
(* endpoints by reference and is kept when its type, confidence and        *)
(* evidence are good.                                                      *)
(***************************************************************************)
EXTENDS Naturals, Sequences, SequencesExt

CONSTANTS
    MaxEntities,       \* graph_extraction_max_entities_per_chunk
    MaxRelations,      \* graph_extraction_max_relations_per_chunk
    InvalidRetries,    \* _MAX_INVALID_RESPONSE_RETRIES
    Payloads,          \* Payloads[c]: the well-formed answers about chunk c
    RuleMentions       \* RuleMentions[c]: what the patterns find, rule by rule

NoEntity == 0  \* keys are positive numbers, ordered as the code sorts them

\* Keep the first element of each class, as the seen sets of the code do;
\* class[i] is the class of s[i].
FirstOfEach(s, class) ==
    LET first == SelectSeq([i \in DOMAIN s |-> i],
                           LAMBDA i : \A k \in 1..(i - 1) : class[k] # class[i])
    IN  [n \in DOMAIN first |-> s[first[n]]]

AtMost(s, n) == SubSeq(s, 1, IF Len(s) < n THEN Len(s) ELSE n)

-----------------------------------------------------------------------------
(* Grounding of one answer. *)

\* _ground_entities
GroundEntities(raw) ==
    LET found == SelectSeq(raw, LAMBDA e : e.kept)
    IN  AtMost(FirstOfEach(found, [i \in DOMAIN found |-> <<found[i].key, found[i].span>>]),
               MaxEntities)

\* _store_entity_ref, _resolve_entity_ref: exact references come first, and a
\* reference that two keys share names neither.
Resolve(entities, ref) ==
    LET exact == {e.key : e \in {x \in ToSet(entities) : ref \in x.exact}}
        alias == {e.key : e \in {x \in ToSet(entities) : ref \in x.alias}}
        named == IF exact # {} THEN exact ELSE alias
    IN  IF \E k \in named : named = {k} THEN CHOOSE k \in named : TRUE ELSE NoEntity

\* _ground_relations
GroundRelations(entities, raw) ==
    LET ends(r)  == <<Resolve(entities, r.source), Resolve(entities, r.target)>>
        usable   == SelectSeq(raw, LAMBDA r : /\ r.kept
                                              /\ ends(r)[1] # ends(r)[2]
                                              /\ NoEntity \notin {ends(r)[1], ends(r)[2]})
        pairs    == [i \in DOMAIN usable |-> ends(usable[i])]
        distinct == FirstOfEach(pairs, pairs)
    IN  IF Len(entities) < 2 THEN <<>> ELSE AtMost(distinct, MaxRelations)

\* _ground_chunk
GroundChunk(payload) ==
    LET entities == GroundEntities(payload.entities)
    IN  [keys      |-> {e.key : e \in ToSet(entities)},
         relations |-> ToSet(GroundRelations(entities, payload.relations))]

-----------------------------------------------------------------------------
(* The model's answers about the chunks. *)

Malformed == {"invalid", "empty", "failed"}       \* of one chunk only
Unreachable == {"unavailable", "timeout"}         \* fails the whole document
Answer(c) == [kind : {"payload"}, payload : Payloads[c]]
                \cup [kind : Malformed \cup Unreachable]

\* _extract_chunk: only an invalid response is asked for again.
ChunkOutcome(answers) ==
    LET decisive == {i \in DOMAIN answers : answers[i].kind # "invalid"}
    IN  IF decisive = {} THEN [kind |-> "invalid"]
        ELSE answers[CHOOSE i \in decisive : \A k \in decisive : i <= k]

\* _dominant_failure_reason: the most frequent, the alphabetically first of equals.
DominantReason(outcomes) ==
    LET order    == <<"empty", "failed", "invalid">>
        count(i) == Len(SelectSeq(outcomes, LAMBDA o : o.kind = order[i]))
        top      == {i \in 1..3 : \A k \in 1..3 : count(k) <= count(i)}
    IN  order[CHOOSE i \in top : \A k \in top : i <= k]

Result(code, mentions, relations) ==
    [code |-> code, mentions |-> mentions, relations |-> relations]

\* RelationExtractionService: neighbours in a sentence with a relation keyword.
RuleRelations(mentions) ==
    LET text == SortSeq(mentions, LAMBDA a, b : a.at < b.at)
        near == SelectSeq([i \in 1..Len(text) - 1 |-> <<text[i], text[i + 1]>>],
                          LAMBDA m : /\ m[1].sentence = m[2].sentence
                                     /\ m[1].keyword
                                     /\ m[1].key # m[2].key)
        ends == [i \in DOMAIN near |-> <<near[i][1].key, near[i][2].key>>]
    IN  ToSet(AtMost(FirstOfEach(ends, ends), MaxRelations))

\* Mutant: relations are drawn from mentions beyond the limit.
RuleExtractUncapped(code, chunks) ==
    LET found(c) == AtMost(RuleMentions[c], MaxEntities)
    IN  Result(code,
               UNION {{<<m.key, c>> : m \in ToSet(found(c))} : c \in ToSet(chunks)},
               UNION {{<<e[1], e[2], c>> : e \in RuleRelations(RuleMentions[c])} : c \in ToSet(chunks)})

\* RuleBasedGraphExtractor, EntityExtractionService
RuleExtract(code, chunks) ==
    LET found(c) == AtMost(RuleMentions[c], MaxEntities)
    IN  Result(code,
               UNION {{<<m.key, c>> : m \in ToSet(found(c))} : c \in ToSet(chunks)},
               UNION {{<<e[1], e[2], c>> : e \in RuleRelations(found(c))} : c \in ToSet(chunks)})

\* LLMGraphExtractor.extract with _metadata; the codes other than "completed"
\* and "partial" are the reason of an LLMGraphExtractionError.
LlmExtract(chunks, outcomes) ==
    LET down   == SelectSeq(outcomes, LAMBDA o : o.kind \in Unreachable)
        good   == {i \in DOMAIN chunks : outcomes[i].kind = "payload"}
        ground == [i \in good |-> GroundChunk(outcomes[i].payload)]
    IN  IF down # <<>>
        THEN Result(IF down[1].kind = "timeout" THEN "failed" ELSE "unavailable", {}, {})
        ELSE IF chunks # <<>> /\ good = {}
        THEN Result(DominantReason(outcomes), {}, {})
        ELSE Result(IF good = DOMAIN chunks THEN "completed" ELSE "partial",
                    UNION {{<<k, chunks[i]>> : k \in ground[i].keys} : i \in good},
                    UNION {{<<e[1], e[2], chunks[i]>> : e \in ground[i].relations} : i \in good})

\* extract_from_snapshot: a failure that a retry may cure gives no graph at all,
\* an unusable model falls back to the patterns.
Extract(chunks, outcomes) ==
    LET result == LlmExtract(chunks, outcomes)
    IN  IF result.code \in {"completed", "partial"} THEN result
        ELSE IF result.code \in {"failed", "unavailable"} THEN Result("retryable", {}, {})
        ELSE RuleExtract("fallback", chunks)

\* Everything a build may extract from these chunks.
Extractions(chunks) ==
    LET outcomes == [i \in DOMAIN chunks |->
                        {ChunkOutcome(a) : a \in [1..(1 + InvalidRetries) -> Answer(chunks[i])]}]
    IN  {Extract(chunks, o) : o \in {f \in [DOMAIN chunks -> UNION Range(outcomes)] :
                                        \A i \in DOMAIN chunks : f[i] \in outcomes[i]}}
=============================================================================
