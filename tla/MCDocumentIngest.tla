-------------------------- MODULE MCDocumentIngest --------------------------
(* Instances of DocumentIngest and of TextExtraction for TLC. *)
EXTENDS DocumentIngest, MCText

\* Faults the owner of the job meets without ever losing it while alive.
OwnerFaults == {"crash", "qdrant", "content"}

\* A version that is ready may be made of any document: whatever it looks like, its
\* chunks lose nothing that no limit cuts, show nothing hidden, cut no passage in
\* half, and tell the right place of every word: its sheet, table, rows and columns,
\* its slide, the headings above it. Each is indexed under its own vector
\* (chunk_pages, the extractors, embed_chunks).
ChunksTellTheirPlace == verStatus = "ready" => DocumentsPlaced
=============================================================================
