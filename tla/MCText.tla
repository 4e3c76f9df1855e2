------------------------------- MODULE MCText -------------------------------
(* The documents of the instances of TextExtraction. *)
EXTENDS TextExtraction

\* Workbooks of one or two sheets of up to three rows, whose second sheet has one
\* row. Rows follow each other or leave a number out and have one or two cells, the
\* first may be blank; the file gives the columns or leaves them out.
Cell(given, s, r, c) == [column |-> IF given THEN c ELSE 0, value |-> <<s, r, c>>]
Blank(given, c) == [column |-> IF given THEN c ELSE 0, value |-> Label]
RowsOf(given, s, r) ==
    {[number |-> r, cells |-> cells] : cells \in
        {<<Cell(given, s, r, 1)>>, <<Cell(given, s, r, 1), Cell(given, s, r, 2)>>,
         <<Blank(given, 1), Cell(given, s, r, 2)>>}}
SheetsOf(s) ==
    UNION {{[visible |-> TRUE, rows |-> <<a>>] : a \in RowsOf(given, s, 1)}
           \cup {[visible |-> visible, rows |-> <<a, b>>] :
                   a \in RowsOf(given, s, 1), b \in UNION {RowsOf(given, s, r) : r \in {2, 4}}, visible \in BOOLEAN}
           \cup {[visible |-> TRUE, rows |-> <<a, b, c>>] :
                   a \in RowsOf(given, s, 1), b \in RowsOf(given, s, 2), c \in UNION {RowsOf(given, s, r) : r \in {3, 4}}} :
           given \in BOOLEAN}
SecondSheets == {sheet \in SheetsOf(2) : Len(sheet.rows) = 1 /\ ColumnsKnown(sheet)}
SomeWorkbooks == {<<a>> : a \in SheetsOf(1)} \cup {<<a, b>> : a \in SheetsOf(1), b \in SecondSheets}

Slides(n) ==
    {[shown |-> shown, shapes |-> shapes] : shown \in BOOLEAN,
     shapes \in {<<>>, << <<<<n, 1>>>> >>, << <<<<n, 1>>, <<n, 1>>>>, <<<<n, 2>>, <<n, 3>>>> >>}}
SomeDecks == UNION {{<<a>>, <<a, b>>, <<a, b, c>>} : a \in Slides(1), b \in Slides(2), c \in Slides(3)}

\* Web pages of up to three fragments.
O(tag) == [kind |-> "open", tag |-> tag, hidden |-> FALSE]
H(tag) == [kind |-> "open", tag |-> tag, hidden |-> TRUE]
C(tag) == [kind |-> "close", tag |-> tag]
W == [kind |-> "text"]
Sections ==
    {<<O("p"), W, O("br"), W, C("p")>>,
     <<O("h1"), W, C("h1")>>,
     <<O("h2"), W, C("h2"), W>>,
     <<O("h3"), W, O("b"), W, C("b"), C("h3")>>,
     <<H("div"), O("p"), W, O("br"), C("p"), W, C("div"), W>>,
     <<O("tr"), O("td"), W, C("td"), O("td"), O("p"), W, C("p"), C("td"), C("tr")>>,
     <<O("tr"), O("td"), W, C("tr")>>}
Fragments == Sections \cup
    {<<O("h2"), W, O("br"), W, C("h2")>>,
     <<O("title"), W, C("title")>>,
     <<O("p"), W, H("br"), W, H("b"), W, C("b"), C("p")>>,
     <<O("script"), W, C("script")>>,
     <<H("div"), O("h1"), W, C("h1"), C("div")>>,
     <<O("tr"), O("td"), W, H("b"), W, C("b"), C("td"), C("tr")>>,
     <<O("tr"), O("td"), W, O("td"), W, C("td"), C("tr")>>,
     <<H("tr"), O("td"), W, C("td"), C("tr")>>}
Event(e, i) == [kind |-> e.kind, tag |-> IF e.kind = "text" THEN "none" ELSE e.tag,
                hidden |-> e.kind = "open" /\ e.hidden, word |-> <<i>>]
Page(fragments) == LET events == FlattenSeq(fragments) IN [i \in DOMAIN events |-> Event(events[i], i)]
SomeWebPages == {Page(f) : f \in [1..2 -> Fragments] \cup [1..3 -> Sections] \cup [1..1 -> Fragments]}
=============================================================================
