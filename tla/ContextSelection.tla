-------------------------- MODULE ContextSelection --------------------------
(* From the items of a run to the numbered context an answer may cite, and    *)
(* from a generator's output to the answer that is stored: the context budget *)
(* (rag/context_budget.py), the evidence pack (rag/evidence_pack.py), the     *)
(* citation checks and repairs (rag/citations.py, services/rag_service.py)    *)
(* and the confidence label (rag/confidence.py). A text is a sequence of      *)
(* words; a word counts as one token and as one character.                    *)
EXTENDS Ranking, AnswerText

CONSTANTS
    Text,               \* [Chunks -> Seq(words)], two chunks may say the same
    AsciiWords,         \* the words made of a-z and 0-9, all a duplicate check may see
    MaxContextTokens, ReserveAnswerTokens, MaxContextItems, MaxTokensPerItem,
    MinCitationCandidates,
    MaxEvidenceItems, MaxItemsPerSource, MaxCharsPerItem, MaxTotalChars,
    NearDuplicate,      \* percent of shared words from which a text is a duplicate
    HighThreshold, MediumThreshold,             \* of the confidence, in thousandths
    HighGroundedness, MediumGroundedness,
    RetryOnInsufficient

HighSupport == 600
MediumSupport == 300

\* Positions of the items, those of the first seen source ahead of the rest.
SourcesFirst(items, order) ==
    LET first(k) == \A l \in 1..(k - 1) : DocOf[items[order[l]].chunk] # DocOf[items[order[k]].chunk]
        positions == [k \in DOMAIN order |-> k]
    IN SelectSeq(positions, first) \o SelectSeq(positions, LAMBDA k : ~first(k))

\* _selection_order: by rank (the reranker's when there is one), then the first
\* item of every source ahead of the rest.
SelectionOrder(items, eligible) ==
    LET rank(i) == IF items[i].order # Unranked THEN items[i].order ELSE i
        ordered == SetToSortSeq(eligible, LAMBDA i, j : \/ rank(i) < rank(j)
                                                        \/ rank(i) = rank(j) /\ i < j)
        spread == SourcesFirst(items, ordered)
    IN [k \in DOMAIN spread |-> ordered[spread[k]]]

\* ContextBudgetManager.apply: the items, with selected saying what the prompt
\* takes. Candidates for a citation come first; others only fill up to minimum.
ApplyBudget(items, minimum) ==
    LET eligible == {i \in DOMAIN items :
                        /\ Len(Text[items[i].chunk]) \in 1..MaxTokensPerItem
                        /\ \A j \in 1..(i - 1) : items[j].chunk # items[i].chunk}
        order == SelectionOrder(items, {i \in eligible : items[i].selected})
                   \o SelectionOrder(items, {i \in eligible : ~items[i].selected})
        take(acc, i) ==
            LET size == Len(Text[items[i].chunk])
            IN IF /\ Cardinality(acc.taken) < MaxContextItems
                  /\ items[i].selected \/ Cardinality(acc.taken) < minimum
                  /\ acc.tokens + size <= MaxContextTokens - ReserveAnswerTokens
               THEN [taken |-> acc.taken \cup {i}, tokens |-> acc.tokens + size]
               ELSE acc
        result == FoldLeft(take, [taken |-> {}, tokens |-> 0], order)
    IN [i \in DOMAIN items |-> [items[i] EXCEPT !.selected = i \in result.taken]]

-----------------------------------------------------------------------------
(* The evidence pack: the selected items under the number the generator sees  *)
(* them by, without duplicates and cut to size.                               *)

\* _near_duplicate, against the cut text of what was accepted.
SharesWords(text, other) ==
    LET words == ToSet(text) \cap AsciiWords  others == ToSet(other) \cap AsciiWords
    IN /\ NearDuplicate > 0 /\ words # {} /\ others # {}
       /\ Cardinality(words \cap others) * 100 >= NearDuplicate * Cardinality(words \cup others)

\* ContextCompressor.compress over the selected items, in their order.
EvidencePack(items) ==
    LET chosen == SelectSeq(items, LAMBDA k : k.selected)
        accept(pack, n) ==
            LET text == Text[chosen[n].chunk]
                room == MaxTotalChars - pack.chars
                cut == FirstN(text, Least(MaxCharsPerItem, room))
                ofSource == {l \in DOMAIN pack.items :
                                DocOf[pack.items[l].chunk] = DocOf[chosen[n].chunk]}
            IN IF \/ text = <<>>
                  \/ \E l \in DOMAIN pack.items : Text[pack.items[l].chunk] = text
                  \/ \E l \in DOMAIN pack.items : SharesWords(text, pack.items[l].text)
                  \/ Len(pack.items) >= MaxEvidenceItems
                  \/ Cardinality(ofSource) >= MaxItemsPerSource
                  \/ room <= 0
               THEN pack
               ELSE [items |-> Append(pack.items, [id |-> n, chunk |-> chosen[n].chunk,
                                                   text |-> cut]),
                     chars |-> pack.chars + Len(cut)]
        numbers == [n \in DOMAIN chosen |-> n]
    IN FoldLeft(accept, [items |-> <<>>, chars |-> 0], numbers).items

\* Mutation: what the evidence pack dropped stays selected.
BudgetedSelection(items, pack) == items

\* _finalize_context_budget_after_assembly: selected is what the prompt holds.
FinalSelection(items, pack) ==
    LET shown == {pack[n].chunk : n \in DOMAIN pack}
    IN [i \in DOMAIN items |-> [items[i] EXCEPT
            !.selected = items[i].selected /\ items[i].chunk \in shown]]

-----------------------------------------------------------------------------
(* The generated answer, from an output of AnswerText.                        *)

Ids(pack) == {pack[n].id : n \in DOMAIN pack}
FallbackAnswer(pack) == [ok |-> TRUE, markers |-> <<pack[1].id>>, insufficient |-> TRUE]
Rejected == [ok |-> FALSE, markers |-> <<>>, insufficient |-> FALSE]

\* _validated_generation_or_fallback with the repair of _repair_generation_citations.
Validated(output, pack, afterRetry) ==
    LET known(m) == m \in Ids(pack)
        repaired == IF output.markers = <<>> THEN <<pack[1].id>>
                    ELSE [i \in DOMAIN output.markers |->
                            IF known(output.markers[i]) THEN output.markers[i] ELSE pack[1].id]
    IN CASE output.kind = "insufficient" -> FallbackAnswer(pack)
         [] output.kind \in {"unparsable", "unsafe"} ->
                IF afterRetry THEN FallbackAnswer(pack) ELSE Rejected
         [] output.kind = "markersOnly" ->   \* the fallback text, not called one
                [FallbackAnswer(pack) EXCEPT !.insufficient = afterRetry]
         [] output.kind = "answer" ->
                IF output.markers # <<>> /\ \A i \in DOMAIN output.markers : known(output.markers[i])
                THEN [ok |-> TRUE, markers |-> output.markers, insufficient |-> FALSE]
                ELSE IF afterRetry THEN FallbackAnswer(pack)
                ELSE [ok |-> TRUE, markers |-> repaired, insufficient |-> FALSE]

\* The cited sources, as pairs of the number in the text and the chunk stored.
Citations(markers, pack) ==
    {<<pack[n].id, pack[n].chunk>> : n \in {k \in DOMAIN pack : pack[k].id \in ToSet(markers)}}

-----------------------------------------------------------------------------
(* Confidence, from the items the prompt was left with.                       *)

\* _summary_with_final_context_refs: the first item's score and the first rerank
\* score, -1 when there is none.
TopScores(items) ==
    LET shown == SelectSeq(items, LAMBDA k : k.selected)
        ranked == SelectSeq(shown, LAMBDA k : k.order # Unranked)
    IN [retrieval |-> IF shown = <<>> THEN -1 ELSE shown[1].score,
        rerank |-> IF ranked = <<>> THEN -1 ELSE ranked[1].rerank]

\* _retrieval_support_score: the mean of the scores there are.
Support(top) ==
    LET scores == SelectSeq(<<top.retrieval, top.rerank>>, LAMBDA x : x >= 0)
    IN IF scores = <<>> THEN 0
       ELSE FoldLeft(LAMBDA x, y : x + y, 0, scores) \div Len(scores)

Groundedness(markers, cited, shown) ==
    LET required == IF shown > 0 /\ cited > 0 THEN Least(shown, cited)
                    ELSE IF shown > 1 THEN shown ELSE 1
        coverage == Least(Unit, (cited * Unit) \div required)
    IN (75 * coverage + (IF markers > 0 THEN 25 * Unit ELSE 0)) \div 100

\* calculate_confidence before its cap: weights renormalised over the scores present.
Blend(top, groundedness, shown) ==
    LET weight == (IF top.retrieval >= 0 THEN 35 ELSE 0) + (IF top.rerank >= 0 THEN 35 ELSE 0) + 30
        value == (IF top.retrieval >= 0 THEN 35 * top.retrieval ELSE 0)
                   + (IF top.rerank >= 0 THEN 35 * top.rerank ELSE 0)
                   + 20 * groundedness + (IF shown > 0 THEN 10 * Unit ELSE 0)
    IN value \div weight

\* The confidence is capped under the threshold its retrieval support does not reach.
Capped(confidence, support) ==
    IF support < MediumSupport THEN Least(confidence, MediumThreshold - 10)
    ELSE IF support < HighSupport THEN Least(confidence, HighThreshold - 10)
    ELSE confidence

ConfidenceLabel(items, answer, cited) ==
    LET top == TopScores(items)
        shown == Cardinality({i \in DOMAIN items : items[i].selected})
        grounded == Groundedness(Len(answer.markers), cited, shown)
        confidence == Capped(Blend(top, grounded, shown), Support(top))
    IN IF answer.insufficient THEN "Low"
       ELSE IF /\ confidence >= HighThreshold
               /\ grounded >= HighGroundedness
               /\ Support(top) >= HighSupport THEN "High"
       ELSE IF /\ confidence >= MediumThreshold
               /\ grounded >= MediumGroundedness
               /\ Support(top) >= MediumSupport THEN "Medium"
       ELSE "Low"

\* _should_retry_insufficient_evidence_generation
ShouldRetry(output, items) ==
    /\ RetryOnInsufficient
    /\ output.kind = "insufficient"
    /\ Support(TopScores(items)) >= HighSupport
=============================================================================
