------------------------- MODULE MCGraphIndexBuild -------------------------
(* An instance of GraphIndexBuild for TLC. *)
EXTENDS GraphIndexBuild

CONSTANTS v1, v2, p1, p2, j1, j2

MCChunksOf == [v \in Versions |-> IF v = v1 THEN <<1, 2>> ELSE <<3>>]
MCPreset == [v \in Versions |-> IF v = v1 THEN 1 ELSE 0]

Interchangeable == Permutations(Procs) \cup Permutations(Jobs)

Entity(k, span, exact, alias, kept) ==
    [key |-> k, span |-> span, exact |-> exact, alias |-> alias, kept |-> kept]

\* Chunk 1 names two entities by the same alias "it"; chunk 3 has more
\* entities than allowed and one the text does not contain.
MCPayloads ==
    <<{[entities  |-> <<Entity(1, 1, {"one"}, {"it"}, TRUE), Entity(2, 2, {"two"}, {"it"}, TRUE)>>,
        relations |-> <<[source |-> "one", target |-> "it", kept |-> TRUE],
                        [source |-> "one", target |-> "two", kept |-> TRUE],
                        [source |-> "two", target |-> "ghost", kept |-> TRUE]>>]},
      {[entities  |-> <<Entity(2, 1, {"two"}, {}, TRUE)>>, relations |-> <<>>]},
      {[entities  |-> <<Entity(2, 1, {"two"}, {}, TRUE), Entity(9, 5, {"ghost"}, {}, FALSE),
                        Entity(2, 1, {"two"}, {}, TRUE), Entity(1, 9, {"one"}, {}, TRUE),
                        Entity(3, 12, {"three"}, {}, TRUE)>>,
        relations |-> <<[source |-> "two", target |-> "three", kept |-> TRUE],
                        [source |-> "two", target |-> "one", kept |-> TRUE]>>]}>>

Found(k, at, sentence, keyword) ==
    [key |-> k, at |-> at, sentence |-> sentence, keyword |-> keyword]
MCRuleMentions ==
    <<<<Found(2, 7, 1, TRUE), Found(1, 3, 1, TRUE), Found(3, 9, 1, TRUE)>>,
      <<Found(2, 1, 1, FALSE)>>,
      <<Found(1, 1, 1, TRUE), Found(1, 4, 1, TRUE)>>>>
=============================================================================
