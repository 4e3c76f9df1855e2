--------------------------- MODULE TextExtraction ---------------------------
(* What the extractors of ingest/extractors make of a workbook, a slide deck  *)
(* and a web page: the pages that Chunking cuts. A word of a document is a    *)
(* tuple that names its place in it, a word the extractor adds (a label, a    *)
(* separator) is Label.                                                       *)
EXTENDS Chunking

CONSTANTS
    MaxRows,            \* ingest_office_max_rows_per_sheet
    MaxCells,           \* ingest_office_max_cells of a workbook
    RowsPerPage,        \* ingest_office_rows_per_chunk
    MaxPages,           \* ingest_office_max_pages
    MaxSlides,          \* ingest_office_max_slides
    Workbooks, Decks, WebPages      \* the documents of an instance

Label == <<>>

-----------------------------------------------------------------------------
(* Workbooks: sheets [visible, rows] of rows [number, cells] of cells         *)
(* [column, value], the column 0 where the file gives none and Label for a    *)
(* cell without a value.                                                      *)

\* The cells of a row with a value, as far as there is room. Without a column a
\* cell takes the one after the cells read so far, blank ones not counted.
ReadCells(cells, room) ==
    FoldLeft(LAMBDA read, cell :
                IF Len(read) >= room \/ cell.value = Label THEN read
                ELSE Append(read, [column |-> IF cell.column # 0 THEN cell.column ELSE Len(read) + 1,
                                   value |-> cell.value]),
             <<>>, cells)

\* The rows that have cells, up to MaxRows, and the number of their cells.
ReadRows(sheet, room) ==
    FoldLeft(LAMBDA read, row :
                LET cells == ReadCells(row.cells, room - read.count)
                IN IF Len(read.rows) >= MaxRows \/ cells = <<>> THEN read
                   ELSE [rows |-> Append(read.rows, [number |-> row.number, cells |-> cells]),
                         count |-> read.count + Len(cells)],
             [rows |-> <<>>, count |-> 0], sheet.rows)

\* Rows that follow each other are a table.
Tables(rows) ==
    FoldLeft(LAMBDA tables, row :
                IF tables # <<>> /\ row.number <= Last(Last(tables)).number + 1
                THEN Append(Front(tables), Append(Last(tables), row))
                ELSE Append(tables, <<row>>),
             <<>>, rows)

\* "R1: A=... | B=..."
RowWords(row) ==
    <<Label>> \o FlattenSeq([c \in DOMAIN row.cells |->
                    IF c = 1 THEN <<row.cells[c].value>> ELSE <<Label, row.cells[c].value>>])

\* A table is cut into pages of RowsPerPage rows under a heading of four words.
TablePages(index, table, rows) ==
    LET windows == Slices(rows, RowsPerPage, RowsPerPage)
    IN [p \in DOMAIN windows |->
          [words |-> <<Label, Label, Label, Label>>
                     \o FlattenSeq([r \in DOMAIN windows[p] |-> RowWords(windows[p][r])]),
           number |-> 0,
           section |-> <<"Sheet", index>>,
           place |-> [key |-> <<"sheet", index>>, table |-> table,
                      rows |-> {row.number : row \in ToSet(windows[p])},
                      columns |-> {cell.column : cell \in UNION {ToSet(row.cells) :
                                                                  row \in ToSet(windows[p])}}]]]

SheetPages(index, rows) ==
    LET tables == Tables(rows)
    IN FlattenSeq([t \in DOMAIN tables |-> TablePages(index, t, tables[t])])

\* Sheet after sheet until the cells or the pages are used up; the pages are
\* counted, and cut, only when cells are left.
WorkbookPages(sheets) ==
    FoldLeft(LAMBDA book, index :
                LET read == ReadRows(sheets[index], MaxCells - book.count)
                    pages == book.pages \o SheetPages(index, read.rows)
                    full == book.count + read.count >= MaxCells
                IN IF book.stop \/ ~sheets[index].visible THEN book
                   ELSE [count |-> book.count + read.count,
                         pages |-> IF full \/ Len(pages) < MaxPages THEN pages
                                   ELSE SubSeq(pages, 1, MaxPages),
                         stop |-> full \/ Len(pages) >= MaxPages],
             [pages |-> <<>>, count |-> 0, stop |-> FALSE],
             [i \in DOMAIN sheets |-> i]).pages

-----------------------------------------------------------------------------
(* Slide decks: slides [shown, shapes], a shape being the words of its text.  *)

\* The text of the first shape is the title too.
SlidePage(number, slide) ==
    [words |-> <<Label, Label>> \o (IF slide.shapes = <<>> THEN <<>> ELSE slide.shapes[1])
               \o FlattenSeq([s \in DOMAIN slide.shapes |-> <<Label, Label>> \o slide.shapes[s]]),
     number |-> number,
     section |-> <<"Slide", number>>,
     place |-> [NoPlace EXCEPT !.key = <<"slide", number>>]]

\* Slides keep their number in the presentation, those that are hidden or
\* without text included.
SlidePages(slides) ==
    FoldLeft(LAMBDA pages, number :
                IF Len(pages) >= MaxSlides \/ ~slides[number].shown \/ slides[number].shapes = <<>>
                THEN pages
                ELSE Append(pages, SlidePage(number, slides[number])),
             <<>>, [i \in DOMAIN slides |-> i])

-----------------------------------------------------------------------------
(* Web pages: what an HTML parser reports of a file, events [kind, tag,       *)
(* hidden, word]. kind is "open", "close" or "text".                          *)

BlockedTags == {"script", "template"}
VoidTags == {"br"}
BlockTags == {"p", "div", "br", "tr"}
HeadingLevel == [h1 |-> 1, h2 |-> 2, h3 |-> 3]
HeadingTags == DOMAIN HeadingLevel

Closed == [open |-> FALSE, words |-> <<>>]
Opened == [open |-> TRUE, words |-> <<>>]

\* _SafeHtmlTextParser: suppressed are the open elements below a hidden one,
\* text the words since the last block, row and cell those of a table.
NewParser ==
    [blocks |-> <<>>, suppressed |-> <<>>, text |-> <<>>, headings |-> <<>>, level |-> 0,
     parent |-> 0, inTitle |-> FALSE, row |-> Closed, cell |-> Closed]

\* The text so far becomes a block, below the last heading if there was one.
Flush(p) ==
    IF p.text = <<>> THEN p
    ELSE [p EXCEPT !.blocks = Append(@, [words |-> p.text, path |-> p.headings,
                                         parent |-> IF p.headings # <<>> THEN p.parent
                                                    ELSE Len(p.blocks) + 1]),
                   !.text = <<>>]

OpenTag(p, event) ==
    LET Suppress == IF event.tag \in VoidTags THEN p
                    ELSE [p EXCEPT !.suppressed = Append(@, event.tag)]
    IN CASE p.suppressed # <<>>                            -> Suppress
         [] p.suppressed = <<>> /\ (event.tag \in BlockedTags \/ event.hidden) -> Suppress
         [] OTHER ->
              CASE event.tag = "title"         -> [p EXCEPT !.inTitle = TRUE]
                [] event.tag = "td"            -> [p EXCEPT !.cell = Opened]
                [] event.tag = "tr"            -> [p EXCEPT !.row = Opened]
                [] event.tag \in HeadingTags   -> [Flush(p) EXCEPT !.level = HeadingLevel[event.tag]]
                [] event.tag \in BlockTags \ {"tr"} -> Flush(p)
                [] OTHER                       -> p

\* The open elements without the last one of this tag and those below it.
Unsuppressed(suppressed, tag) ==
    LET last == SelectLastInSeq(suppressed, LAMBDA open : open = tag)
    IN IF last = 0 THEN suppressed ELSE SubSeq(suppressed, 1, last - 1)

\* A heading replaces as many of the headings before it as its level leaves,
\* whatever their levels; the text since the last break is its title.
CloseHeading(p) ==
    LET kept == IF p.level = 0 THEN 0 ELSE Min({Len(p.headings), p.level - 1})
        path == Append(SubSeq(p.headings, 1, kept), p.text)
        index == Len(p.blocks) + 1
    IN IF p.text = <<>> THEN [p EXCEPT !.level = 0]
       ELSE [p EXCEPT !.headings = path, !.parent = index, !.text = <<>>, !.level = 0,
                      !.blocks = Append(@, [words |-> p.text, path |-> path, parent |-> index])]

CloseCell(p) ==
    [p EXCEPT !.cell = Closed,
              !.row.words = IF p.row.open THEN @ \o p.cell.words ELSE @]

CloseRow(p) ==
    [(IF p.row.words = <<>> THEN p ELSE Flush([p EXCEPT !.text = @ \o p.row.words])) EXCEPT !.row = Closed]

CloseTag(p, event) ==
    CASE p.suppressed # <<>> -> [p EXCEPT !.suppressed = Unsuppressed(@, event.tag)]
      [] p.suppressed = <<>> ->
           CASE event.tag = "title"                -> [p EXCEPT !.inTitle = FALSE]
             [] event.tag = "td" /\ p.cell.open    -> CloseCell(p)
             [] event.tag = "tr" /\ p.row.open     -> CloseRow(p)
             [] event.tag \in HeadingTags          -> CloseHeading(p)
             [] event.tag \in BlockTags /\ ~(event.tag = "tr" /\ p.row.open) -> Flush(p)
             [] OTHER                              -> p

Text(p, event) ==
    CASE p.suppressed # <<>> \/ p.inTitle -> p
      [] OTHER -> IF p.cell.open THEN [p EXCEPT !.cell.words = Append(@, event.word)]
                  ELSE [p EXCEPT !.text = Append(@, event.word)]

Parsed(doc) ==
    Flush(FoldLeft(LAMBDA p, event : CASE event.kind = "open"  -> OpenTag(p, event)
                                       [] event.kind = "close" -> CloseTag(p, event)
                                       [] event.kind = "text"  -> Text(p, event),
                   NewParser, doc))

\* A page per block; the blocks below one heading are one structure. Without a
\* heading the section is the type of the element, <<>> here.
HtmlPages(doc) ==
    LET blocks == Parsed(doc).blocks
    IN [b \in DOMAIN blocks |->
          [words |-> blocks[b].words, number |-> 0, section |-> blocks[b].path,
           place |-> [NoPlace EXCEPT !.key = <<"html", blocks[b].parent>>]]]

-----------------------------------------------------------------------------
(* What the chunks of a document have to say of it.                           *)

Shown(chunk) == ToSet(chunk.words) \ {Label}
ShownBy(cut) == UNION {Shown(cut[n]) : n \in DOMAIN cut}

\* No passage as long as the overlap, and one word more, is cut by every chunk.
PassagesWhole(pages, cut) ==
    LET tokens == DocumentTokens(pages)
    IN /\ \A n \in DOMAIN cut : Len(cut[n].words) <= ChunkSize
       /\ \A i \in 1..(Len(tokens) - ChunkOverlap) :
             LET passage == SubSeq(tokens, i, i + ChunkOverlap)
             IN (\A t \in ToSet(passage) : Boundary(t) = Boundary(passage[1])) =>
                   \E n \in DOMAIN cut : \E k \in 1..(Len(cut[n].words) - ChunkOverlap) :
                      \A d \in 0..ChunkOverlap : cut[n].words[k + d] = passage[d + 1].word

\* The cells with a value on the visible sheets.
Valued(sheets) ==
    UNION {{cell.value : cell \in UNION {ToSet(row.cells) : row \in ToSet(sheets[s].rows)}} :
              s \in {i \in DOMAIN sheets : sheets[i].visible}} \ {Label}

\* The columns are right when the file gives them or leaves no cell out.
ColumnsKnown(sheet) ==
    \A row \in ToSet(sheet.rows) :
        \/ \A cell \in ToSet(row.cells) : cell.column # 0
        \/ \A cell \in ToSet(row.cells) : cell.value # Label

\* No limit of an instance cuts the workbook.
WithinLimits(sheets) ==
    /\ \A s \in DOMAIN sheets : Len(sheets[s].rows) <= MaxRows
    /\ Cardinality(Valued(sheets)) < MaxCells
    /\ Len(WorkbookPages(sheets)) < MaxPages

Spanned(numbers) == Min(numbers)..Max(numbers)

\* A value is <<sheet, row, column>>.
WorkbookPlaced(sheets) ==
    LET pages == WorkbookPages(sheets)
        cut == ChunkDocument(pages)
    IN /\ PassagesWhole(pages, cut)
       /\ ShownBy(cut) \subseteq Valued(sheets)
       /\ WithinLimits(sheets) => ShownBy(cut) = Valued(sheets)
       /\ \A n \in DOMAIN cut : Shown(cut[n]) # {} =>
             LET chunk == cut[n]
                 rows == {value[2] : value \in Shown(chunk)}
             IN /\ \A value \in Shown(chunk) :
                      /\ chunk.place.key = <<"sheet", value[1]>>
                      /\ value[2] \in Spanned(chunk.place.rows)
                      /\ ColumnsKnown(sheets[value[1]]) => value[3] \in Spanned(chunk.place.columns)
                \* one table: no empty row in between
                /\ \A r \in Spanned(rows) : \E v \in Valued(sheets) :
                      v[1] = chunk.place.key[2] /\ v[2] = r

\* A word is <<slide, shape>>.
DeckPlaced(slides) ==
    LET pages == SlidePages(slides)
        cut == ChunkDocument(pages)
        shown == {s \in DOMAIN slides : slides[s].shown}
        words == UNION {UNION {ToSet(text) : text \in ToSet(slides[s].shapes)} : s \in shown}
    IN /\ PassagesWhole(pages, cut)
       /\ ShownBy(cut) \subseteq words
       /\ Cardinality(shown) <= MaxSlides => ShownBy(cut) = words
       /\ \A n \in DOMAIN cut : \A word \in Shown(cut[n]) :
             cut[n].pages = {word[1]} /\ cut[n].place.key = <<"slide", word[1]>>

-----------------------------------------------------------------------------
(* The elements and headings of a web page, by its events. A word is the      *)
(* position of its event, in a tuple.                                         *)

\* The elements open before an event.
OpenBefore(doc, i) ==
    FoldLeft(LAMBDA open, event :
                CASE event.kind = "open" /\ event.tag \notin VoidTags -> Append(open, event)
                  [] event.kind = "close" ->
                        SubSeq(open, 1, SelectLastInSeq(open, LAMBDA e : e.tag = event.tag) - 1)
                  [] OTHER -> open,
             <<>>, SubSeq(doc, 1, i - 1))

HiddenAt(doc, i) ==
    \E e \in ToSet(OpenBefore(doc, i)) : e.hidden \/ e.tag \in BlockedTags \cup {"title"}

Visible(doc, i) == doc[i].kind = "text" /\ ~HiddenAt(doc, i)
VisibleWords(doc) == {<<i>> : i \in {k \in DOMAIN doc : Visible(doc, k)}}

\* Visible words within the heading that ends with event j.
HeadingWords(doc, j) ==
    LET start == Last(SelectSeq([k \in 1..j |-> k], LAMBDA k : doc[k].kind = "open" /\ doc[k].tag = doc[j].tag))
    IN SelectSeq([k \in 1..(j - start) |-> <<start + k>>], LAMBDA word : Visible(doc, word[1]))

HeadingEnds(doc) ==
    SelectSeq([k \in DOMAIN doc |-> k],
              LAMBDA k : doc[k].kind = "close" /\ doc[k].tag \in HeadingTags /\ ~HiddenAt(doc, k))

\* The headings above event i, outermost first: of each level lower than that of
\* the headings after it the last, and its own heading for a word within one.
HeadingsAbove(doc, i) ==
    FoldLeft(LAMBDA above, j :
                IF i < j /\ <<i>> \notin ToSet(HeadingWords(doc, j)) THEN above
                ELSE Append(SelectSeq(above, LAMBDA h : h.level < HeadingLevel[doc[j].tag]),
                            [level |-> HeadingLevel[doc[j].tag], words |-> HeadingWords(doc, j)]),
             <<>>, HeadingEnds(doc))

\* Headings of one line, no level left out.
HeadingsInOrder(doc) ==
    \A n \in DOMAIN HeadingEnds(doc) :
        LET j == HeadingEnds(doc)[n]
            above == HeadingsAbove(doc, j)
        IN /\ \A k \in DOMAIN above : above[k].level = k
           /\ \A k \in DOMAIN doc : doc[k].tag = "br" /\ ~doc[k].hidden =>
                 \A e \in ToSet(OpenBefore(doc, k)) : e.tag \notin HeadingTags

CellsClosed(doc) ==
    Cardinality({k \in DOMAIN doc : doc[k].tag = "td" /\ doc[k].kind = "open"})
        = Cardinality({k \in DOMAIN doc : doc[k].tag = "td" /\ doc[k].kind = "close"})

WebPagePlaced(doc) ==
    LET pages == HtmlPages(doc)
        cut == ChunkDocument(pages)
        words == FlattenSeq([p \in DOMAIN pages |-> pages[p].words])
    IN /\ PassagesWhole(pages, cut)
       /\ IsInjective(words)
       /\ ToSet(words) \subseteq VisibleWords(doc)
       /\ CellsClosed(doc) => ShownBy(cut) = VisibleWords(doc)
       /\ CellsClosed(doc) /\ HeadingsInOrder(doc) =>
             \A n \in DOMAIN cut : \A word \in Shown(cut[n]) :
                LET above == HeadingsAbove(doc, word[1])
                IN cut[n].section = [k \in DOMAIN above |-> above[k].words]

-----------------------------------------------------------------------------
(* Providers of embeddings may answer in any order when they number their     *)
(* answers.                                                                   *)
VectorsInPlace(texts) ==
    LET batches == BatchesOf(texts)
        Numbered(k) == [i \in DOMAIN batches[k] |-> [index |-> i, vector |-> batches[k][i]]]
        Plain(k) == [i \in DOMAIN batches[k] |-> [index |-> 0, vector |-> batches[k][i]]]
        answers(k) == {Numbered(k), Reverse(Numbered(k)), Plain(k), Front(Plain(k))}
    IN \A given \in [DOMAIN batches -> UNION {answers(k) : k \in DOMAIN batches}] :
          (\A k \in DOMAIN batches : given[k] \in answers(k)) =>
             EmbedChunks(texts, given) =
                IF \E k \in DOMAIN batches : Len(given[k]) < Len(batches[k]) THEN EmbeddingFailed
                ELSE texts

PlacedWorkbooks == {sheets \in Workbooks : WorkbookPlaced(sheets)}
PlacedDecks == {slides \in Decks : DeckPlaced(slides)}
PlacedWebPages == {doc \in WebPages : WebPagePlaced(doc)}
TextsEmbedded == \A n \in 1..5 : VectorsInPlace([i \in 1..n |-> <<i>>])

\* Each of the documents of an instance is cut as it should, and each chunk is
\* indexed under its own vector.
DocumentsPlaced ==
    /\ PlacedWorkbooks = Workbooks
    /\ PlacedDecks = Decks
    /\ PlacedWebPages = WebPages
    /\ TextsEmbedded
=============================================================================
