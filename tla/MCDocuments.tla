----------------------------- MODULE MCDocuments -----------------------------
(* Instances of DocumentIngest and of DocumentLibrary for TLC. *)
EXTENDS DocumentIngest, DocumentLibrary, TLC

\* The chunks of three files.  "a1" in version 1 and "a" in version 11 have the
\* same hash as first chunks; the third file repeats a text, has one that is
\* similar to "b", and a heading of the others.
Words(stem, digits) == [stem |-> stem, digits |-> digits]
Chunk(text, heading) == [text |-> text, heading |-> heading]
MCChunksOf ==
    [c1 |-> <<Chunk(Words("a", <<1>>), NoKey), Chunk(Words("b", <<>>), <<"k1">>)>>,
     c2 |-> <<Chunk(Words("a", <<>>), <<"k2">>), Chunk(Words("b", <<>>), NoKey)>>,
     c3 |-> <<Chunk(Words("c", <<>>), <<"k2">>), Chunk(Words("d", <<>>), NoKey),
              Chunk(Words("a", <<>>), NoKey), Chunk(Words("a", <<>>), NoKey)>>]
MCSimilar ==
    [text \in {Words("a", <<>>), Words("a", <<1>>), Words("b", <<>>), Words("c", <<>>),
               Words("d", <<>>)} |->
        IF text.stem \in {"b", "d"} THEN {Words("b", <<>>), Words("d", <<>>)} ELSE {text}]
MCVersionIds == <<1, 11, 12>>

\* A text, a web page and a spreadsheet that are accepted, and others that fail
\* one check each.
Limits(parts, total, main, mainSize) ==
    [parts |-> parts, ratio |-> 2, total |-> total, main |-> main, mainSize |-> mainSize]
MCZipLimits == [docx |-> Limits(2, 4, "document", 3), xlsx |-> Limits(3, 5, "workbook", 4)]
MCRequiredParts == [docx |-> {}, xlsx |-> {"types", "workbook"}]
MCMimesOf == [pdf |-> {"pdf", "binary"}, docx |-> {"docx", "zip", "binary"},
              xlsx |-> {"xlsx", "zip", "binary"}, txt |-> {"plain", "binary"},
              html |-> {"html", "xhtml", "binary"}, xml |-> {"xml", "binary"}]
MCBodyOf == [pdf |-> "pdf", docx |-> "zip", xlsx |-> "zip", txt |-> "text", html |-> "text",
             xml |-> "text"]
Part(name, size) == [name |-> name, size |-> size, packed |-> 1, forbidden |-> FALSE]
Body(kind, parts, flaw) == [kind |-> kind, parts |-> parts, flaw |-> flaw]
File(suffix, mime, body, content) ==
    [name |-> "plain", suffixes |-> <<suffix>>, mime |-> mime, size |-> 2, body |-> body,
     content |-> content]
Pdf(content) == File("pdf", "pdf", Body("pdf", <<>>, "none"), content)
Text(suffix, flaw, content) == File(suffix, "binary", Body("text", <<>>, flaw), content)
Workbook == <<Part("types", 1), Part("workbook", 2)>>
MCFiles ==
    {Text("txt", "none", "c1"), Text("html", "doctype", "c2"),
     File("xlsx", "zip", Body("zip", Workbook, "none"), "c3"),
     [Pdf("c1") EXCEPT !.size = 0], [Pdf("c1") EXCEPT !.size = 4],
     [Pdf("c1") EXCEPT !.name = "path"], [Pdf("c1") EXCEPT !.mime = "plain"],
     [Pdf("c1") EXCEPT !.suffixes = <<"executable", "pdf">>], Text("pdf", "none", "c1"),
     Text("txt", "null", "c1"), Text("html", "svg", "c1"), Text("xml", "doctype", "c1"),
     File("xlsx", "zip", Body("zip", <<Part("workbook", 2)>>, "none"), "c1"),
     File("docx", "zip", Body("zip", <<Part("document", 2), Part("media", 3)>>, "none"), "c1"),
     File("docx", "zip", Body("zip", <<[Part("document", 1) EXCEPT !.forbidden = TRUE]>>, "none"),
          "c1")}

\* A name server that changes its mind, a server that redirects in a circle and
\* to a URL that is not allowed, pages that are accepted as a file or not.
Response(kind, to, page) == [kind |-> kind, to |-> to, page |-> page]
NoPage == <<>>
PlainPage == [Text("html", "none", "c1") EXCEPT !.mime = "plain"]
MCPublic == {"p1", "p2"}
MCUrls ==
    <<[allowed |-> TRUE, resolved |-> {<<"p1", "p2">>, <<"p1", "internal">>, <<"internal">>},
       responses |-> {Response("page", 0, Text("html", "none", "c2")),
                      Response("page", 0, PlainPage), Response("redirect", 2, NoPage),
                      Response("bad", 0, NoPage)}],
      [allowed |-> TRUE, resolved |-> {<<"p2">>, <<>>},
       responses |-> {Response("redirect", to, NoPage) : to \in {0, 1, 3}}],
      [allowed |-> FALSE, resolved |-> {<<"p1">>}, responses |-> {}]>>

-----------------------------------------------------------------------------
\* Nothing orders the requests.
Symmetry == Permutations(Requests)

MCInit == Init /\ LibraryInit
\* One instance or the other: they share no state.  Fetches come first and one
\* at a time, for they meet the rest of the library only in IngestUrl.
UntouchedLibrary ==
    /\ documents[1] = "none" /\ storageFaults = 0
    /\ \A r \in Requests : upload[r] = NoUpload /\ fetch[r] = NotFetching
FetchesFirst ==
    \A r \in Requests : fetch[r].pc = "none" /\ fetch'[r].pc # "none" =>
        versions = {} /\ \A q \in Requests : upload[q] = NoUpload /\ fetch[q] = NotFetching
\* Nothing else moves while a fetch is under way.
FetchesUndisturbed ==
    (\E r \in Requests : fetch[r].pc \notin {"none", "fetched"}) => fetch' # fetch
\* Three versions without a fault, two with one, or one with two; the ingest of
\* a version that fails is one.
FailedIngests == Cardinality({v \in versions : v.retriable \/ v.job \in {"fail", "failing"}})
FaultsInstead == Cardinality(versions') + storageFaults' + FailedIngests' <= MaxVersions
\* One worker, which runs one job at a time.
OneWorker == Cardinality({v \in versions' : v.job \in Attempting}) <= 1
MCNext ==
    \/ UntouchedLibrary /\ Next /\ UNCHANGED libraryVars
    \/ started = 0 /\ ~archived /\ LibraryNext /\ FetchesFirst /\ FetchesUndisturbed
       /\ FaultsInstead /\ OneWorker /\ UNCHANGED vars
MCSpec == MCInit /\ [][MCNext]_<<vars, libraryVars>>
=============================================================================
