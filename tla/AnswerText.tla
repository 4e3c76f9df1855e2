----------------------------- MODULE AnswerText -----------------------------
(* What is taken of the text a language model returns (rag/generation.py,     *)
(* rag/insufficient.py, rag/citations.py). A text is a sequence of pieces,    *)
(* strings of which the sets below say what the program takes them for; all   *)
(* others are words of the answer.                                            *)
EXTENDS Naturals, SequencesExt

CONSTANTS
    Numbers,            \* pieces that are citation markers and the numbers they are: [pieces -> Nat]
    AnswerLabels,       \* "Final answer:", "Answer:", "Draft:", in the order they are looked for
    Asides,             \* "Wait,", "Check constraints:": what follows is no more of the answer
    SentenceEnds,       \* pieces that end with a full stop or the like
    Excuses,            \* phrases that say that there is no evidence
    Leaks,              \* what looks like a secret, and long quotes of the context
    Width,              \* characters of a piece with the blank after it (1 for the others)
    MaxOutputChars,     \* (more than 3)
    MaxNumber           \* above it, a marker has too many digits

ThinkStart == "<think>"
ThinkEnd == "</think>"
Cut == "cut"            \* what is left of a piece
Dots == "..."

WidthOf(piece) == IF piece \in DOMAIN Width THEN Width[piece] ELSE 1
IsNumber(piece) == piece \in DOMAIN Numbers

UpTo(text, n) == SubSeq(text, 1, n)
IndicesOf(text, pieces) == {i \in DOMAIN text : text[i] \in pieces}

\* The model's own numbers, wherever it wrote them.
Said(text) == {Numbers[text[i]] : i \in IndicesOf(text, DOMAIN Numbers)}

-----------------------------------------------------------------------------
(* Models that think aloud.                                                   *)

\* What follows the first of the separators, if there is one.
AfterThought(text) ==
    LET ends == IndicesOf(text, {ThinkEnd})
    IN IF ends = {} THEN text ELSE SubSeq(text, Min(ends) + 1, Len(text))

\* The first label of the list that occurs decides, and its last occurrence.
AfterLabel(text) ==
    LET used == SelectSeq(AnswerLabels, LAMBDA l : IndicesOf(text, {l}) # {})
    IN IF used = <<>> THEN text
       ELSE SubSeq(text, Max(IndicesOf(text, {used[1]})) + 1, Len(text))

BeforeAside(text) ==
    LET asides == IndicesOf(text, Asides)
    IN IF asides = {} THEN text ELSE UpTo(text, Min(asides) - 1)

\* _trim_incomplete_tail: a last sentence that does not end is left out, with its
\* citations, unless it ends with one of them.
TrimTail(text) ==
    LET ends == IndicesOf(text, SentenceEnds)
    IN IF text = <<>> \/ Last(text) \in SentenceEnds \/ IsNumber(Last(text)) \/ ends = {}
       THEN text
       ELSE UpTo(text, Max(ends))

\* _final_answer_text, nothing of a text that only thinks.
FinalAnswer(raw) ==
    LET text == BeforeAside(AfterLabel(AfterThought(raw)))
    IN IF text # <<>> /\ text[1] = ThinkStart THEN <<>> ELSE TrimTail(text)

-----------------------------------------------------------------------------
(* Giving up, and the limit.                                                  *)

\* Without labels before it, markers and punctuation, the text is one of the
\* phrases.
GivesUpOn(text) ==
    LET labels == ToSet(AnswerLabels)
        start == CHOOSE i \in 1..(Len(text) + 1) :
                    /\ \A j \in 1..(i - 1) : text[j] \in labels
                    /\ i <= Len(text) => text[i] \notin labels
        rest == SelectSeq(SubSeq(text, start, Len(text)),
                          LAMBDA piece : ~IsNumber(piece) /\ piece \notin {Dots, "."})
    IN Len(rest) = 1 /\ rest[1] \in Excuses

\* _rewrite_insufficient_evidence_answer: one phrase for all, with the first marker.
Rewritten(text) ==
    LET excuse == CHOOSE phrase \in Excuses : TRUE
        markers == SelectSeq(text, IsNumber)
    IN IF ~GivesUpOn(text) THEN text
       ELSE IF markers = <<>> THEN <<excuse>> ELSE <<excuse, markers[1]>>

\* _truncate_output. The dots that end the text may follow a piece that was cut: a
\* marker that was is none.
Truncated(text) ==
    LET room == MaxOutputChars - 3
        start(n) == FoldLeft(LAMBDA sum, piece : sum + WidthOf(piece), 0, UpTo(text, n))
        whole == Max({n \in 0..Len(text) : n = 0 \/ start(n) - 1 <= room})
    IN IF text = <<>> \/ start(Len(text)) - 1 <= MaxOutputChars THEN text
       ELSE UpTo(text, whole) \o (IF start(whole) < room THEN <<Cut>> ELSE <<>>) \o <<Dots>>

-----------------------------------------------------------------------------
(* An output is the kind of the text, the numbers of its markers, in order,   *)
(* and the numbers the model said.                                            *)

\* parse_generation_output
Parsed(text) ==
    LET markers == SelectSeq(text, IsNumber)
    IN [i \in DOMAIN markers |-> Numbers[markers[i]]]

\* What keeps an answer from being taken, in the order it is looked for.
Kind(text) ==
    IF text = <<>> THEN "failed"
    ELSE IF \E n \in ToSet(Parsed(text)) : n > MaxNumber THEN "unparsable"
    ELSE IF GivesUpOn(text) THEN "insufficient"
    ELSE IF IndicesOf(text, Leaks) # {} THEN "unsafe"
    ELSE IF \A piece \in ToSet(text) : IsNumber(piece) THEN "markersOnly"
    ELSE "answer"

\* _generation_output_text: only chat models that may think aloud are cleaned up.
Content(raw, thinksAloud) ==
    Truncated(Rewritten(IF thinksAloud THEN FinalAnswer(raw) ELSE raw))

\* OpenAICompatibleChatAnswerGenerator.generate, and the others for a model that
\* does not think aloud. A request that fails is like an empty text.
Output(raw, thinksAloud) ==
    LET text == Content(raw, thinksAloud)
    IN [kind |-> Kind(text), markers |-> Parsed(text), said |-> Said(raw)]
=============================================================================
