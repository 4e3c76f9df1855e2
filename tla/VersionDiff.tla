----------------------------- MODULE VersionDiff -----------------------------
(***************************************************************************)
(* The comparison of two versions of a document, chunk by chunk:           *)
(*   backend/app/services/document_service.py     compare_versions         *)
(*                                                                         *)
(* A chunk is its text, the key its structure gives it, and its hash.  The *)
(* hash is of the text, the id of the version and the index together, so a *)
(* text that two versions share has a hash of its own in each.             *)
(***************************************************************************)
EXTENDS Integers, Sequences, FiniteSets, FiniteSetsExt

CONSTANTS
    Similar,      \* Similar[text]: the texts similar enough to it
    MaxDiffItems  \* document_diff_max_items

ASSUME DiffAssumption == MaxDiffItems \in Nat

NoKey == <<>>

\* str of a number.
Decimal[n \in Nat] == IF n < 10 THEN <<n>> ELSE Append(Decimal[n \div 10], n % 10)

\* chunk_hash: nothing separates the text, the version and the index, so digits
\* at the end of a text, [stem, digits], run into theirs.
ChunkHash(text, version, index) ==
    <<text.stem, text.digits \o Decimal[version] \o Decimal[index]>>

\* The rows of a version whose chunks have these texts and headings; a key names
\* the index, too.
Rows(version, chunks) ==
    [n \in DOMAIN chunks |->
        [text |-> chunks[n].text,
         hash |-> ChunkHash(chunks[n].text, version, n - 1),
         key |-> IF chunks[n].heading = NoKey THEN NoKey ELSE <<chunks[n].heading, n - 1>>]]

\* What two chunks must have in common, in this order.
Phases == <<"hash", "structure", "index">>

\* _structural_key; a chunk without one is in no pair of that phase.
Key(phase, chunk, n) ==
    CASE phase = "hash"      -> <<"hash", chunk.hash>>
      [] phase = "structure" -> <<"structure", chunk.key>>
      [] OTHER               -> <<"index", n>>

Acceptable(phase, b, t) ==
    CASE phase = "structure" -> b.key # NoKey
      [] phase = "index"     -> t.text \in Similar[b.text]
      [] OTHER               -> TRUE

\* _match_by_key: each chunk of the base takes the first acceptable one in the
\* queue of its key, and what it passes over is gone from the queue.
MatchBy(phase, base, target, pairs) ==
    LET freeBase == DOMAIN base \ {p[1] : p \in pairs}
        freeTarget == DOMAIN target \ {p[2] : p \in pairs}
        step(acc, b) ==
            LET candidates == {t \in acc.queue :
                                  Key(phase, target[t], t) = Key(phase, base[b], b)}
                good == {t \in candidates : Acceptable(phase, base[b], target[t])}
            IN IF good = {} THEN [acc EXCEPT !.queue = acc.queue \ candidates]
               ELSE [queue |-> acc.queue \ {t \in candidates : t <= Min(good)},
                     pairs |-> acc.pairs \cup {<<b, Min(good)>>}]
        walk[b \in 0..Len(base)] ==
            IF b = 0 THEN [queue |-> freeTarget, pairs |-> pairs]
            ELSE IF b \in freeBase THEN step(walk[b - 1], b) ELSE walk[b - 1]
    IN walk[Len(base)].pairs

Matched(base, target) ==
    LET after[n \in 0..Len(Phases)] ==
            IF n = 0 THEN {} ELSE MatchBy(Phases[n], base, target, after[n - 1])
    IN after[Len(Phases)]

\* Mutant: the texts are compared.
DiffTypeOfTexts(base, target, item) ==
    CASE item[1] = 0 -> "added"
      [] item[2] = 0 -> "removed"
      [] OTHER -> IF base[item[1]].text = target[item[2]].text THEN "unchanged" ELSE "changed"

\* _chunk_diff_type; 0 stands for no chunk on that side.
DiffType(base, target, item) ==
    CASE item[1] = 0 -> "added"
      [] item[2] = 0 -> "removed"
      [] OTHER -> IF base[item[1]].hash = target[item[2]].hash THEN "unchanged" ELSE "changed"

\* _chunk_match_sort_key
Place(item) ==
    IF item[2] # 0 THEN <<item[2], IF item[1] = 0 THEN -1 ELSE item[1]>> ELSE <<item[1], item[1]>>
Before(x, y) ==
    LET p == Place(x)
        q == Place(y)
    IN p[1] < q[1] \/ (p[1] = q[1] /\ p[2] < q[2])

Sorted(items) ==
    [n \in 1..Cardinality(items) |->
        CHOOSE x \in items : Cardinality({y \in items : y = x \/ Before(y, x)}) = n]

\* _chunk_diff: the counts are of all items, the items shown may be fewer.
ChunkDiff(base, target) ==
    LET pairs == Matched(base, target)
        items == pairs \cup {<<b, 0>> : b \in DOMAIN base \ {p[1] : p \in pairs}}
                   \cup {<<0, t>> : t \in DOMAIN target \ {p[2] : p \in pairs}}
        count(type) == Cardinality({x \in items : DiffType(base, target, x) = type})
        number == Cardinality(items)
    IN [items |-> items,
        shown |-> SubSeq(Sorted(items), 1, IF number < MaxDiffItems THEN number ELSE MaxDiffItems),
        truncated |-> number > MaxDiffItems,
        added |-> count("added"), removed |-> count("removed"),
        changed |-> count("changed"), unchanged |-> count("unchanged")]
=============================================================================
