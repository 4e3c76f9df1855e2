------------------------------ MODULE Chunking ------------------------------
(* From extracted pages to chunks and their vectors: ingest/chunking.py and   *)
(* the batches of ingest/embedding.py. A page is [words, number, section,     *)
(* place]; its place is what an extractor knows of it beyond a page number:   *)
(* the structure it is part of and the table, rows and columns it covers.     *)
EXTENDS Integers, SequencesExt

CONSTANTS
    ChunkSize,          \* chunk_size_tokens; a word is a token
    ChunkOverlap,       \* chunk_overlap_tokens
    EmbeddingBatch      \* batch_size of the embedding service

ASSUME ChunkingAssumption ==
    /\ ChunkSize \in Nat \ {0}
    /\ ChunkOverlap \in 0..(ChunkSize - 1)
    /\ EmbeddingBatch \in Nat \ {0}

\* range(0, len(s), stride), the slice of that size at each.
Slices(s, size, stride) ==
    [k \in 1..(((Len(s) - 1) \div stride) + 1) |->
        SubSeq(s, (k - 1) * stride + 1, Min({(k - 1) * stride + size, Len(s)}))]

NoKey == <<>>
NoPlace == [key |-> NoKey, table |-> 0, rows |-> {}, columns |-> {}]

\* The words of all pages, each with what is known of its page.
DocumentTokens(pages) ==
    FlattenSeq([i \in DOMAIN pages |->
        [k \in DOMAIN pages[i].words |->
            [word |-> pages[i].words[k], page |-> pages[i].number,
             section |-> pages[i].section, place |-> pages[i].place]]])

\* Mutation: the tables of a sheet run into each other.
BoundaryOfStructure(token) ==
    IF token.place.key = NoKey THEN <<NoKey, 0>> ELSE <<token.place.key, 0>>

\* Tokens with different boundaries never share a chunk; tables are told apart
\* on the sheets of a workbook only, elsewhere there are none.
Boundary(token) ==
    IF token.place.key = NoKey THEN <<NoKey, 0>> ELSE <<token.place.key, token.place.table>>

Segments(tokens) ==
    FoldLeft(LAMBDA segments, token :
                IF segments # <<>> /\ Boundary(Last(Last(segments))) = Boundary(token)
                THEN Append(Front(segments), Append(Last(segments), token))
                ELSE Append(segments, <<token>>),
             <<>>, tokens)

\* Windows of ChunkSize tokens start every Stride tokens. The last ones may lie
\* within the window before them.
Stride == ChunkSize - ChunkOverlap

Windows(segment) == Slices(segment, ChunkSize, Stride)

\* The first title in the window, <<>> without one.
FirstSection(window) ==
    LET titled == SelectSeq(window, LAMBDA token : token.section # <<>>)
    IN IF titled = <<>> THEN <<>> ELSE Head(titled).section

\* The place of the first token, widened to the rows and columns of all.
MergedPlace(window) ==
    [window[1].place EXCEPT
        !.rows = UNION {window[i].place.rows : i \in DOMAIN window},
        !.columns = UNION {window[i].place.columns : i \in DOMAIN window}]

ChunkOf(window) ==
    [words |-> [i \in DOMAIN window |-> window[i].word],
     pages |-> {window[i].page : i \in DOMAIN window} \ {0},
     section |-> FirstSection(window),
     place |-> MergedPlace(window)]

\* The chunks of a document in the order of their index; <<>> is the error
\* no_chunks_created.
ChunkDocument(pages) ==
    LET segments == Segments(DocumentTokens(pages))
    IN FlattenSeq([s \in DOMAIN segments |->
          LET windows == Windows(segments[s]) IN [k \in DOMAIN windows |-> ChunkOf(windows[k])]])

-----------------------------------------------------------------------------
(* The vectors of the chunks. An answer of an embedding provider is a         *)
(* sequence of [index, vector], the index 0 where the provider gives none.    *)

EmbeddingFailed == <<"failed">>

BatchesOf(texts) == Slices(texts, EmbeddingBatch, EmbeddingBatch)

\* The answer in the order of its indexes, when every item has one.
Ordered(answer) ==
    LET items == IF \A i \in DOMAIN answer : answer[i].index # 0
                 THEN SortSeq(answer, LAMBDA a, b : a.index < b.index) ELSE answer
    IN [i \in DOMAIN items |-> items[i].vector]

\* One batch after the other; an answer of another length fails the whole.
EmbedChunks(texts, answers) ==
    IF texts = <<>> \/ \E k \in DOMAIN BatchesOf(texts) : Len(answers[k]) # Len(BatchesOf(texts)[k])
    THEN EmbeddingFailed
    ELSE FlattenSeq([k \in DOMAIN BatchesOf(texts) |-> Ordered(answers[k])])
=============================================================================
