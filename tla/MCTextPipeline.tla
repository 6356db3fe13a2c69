--------------------------- MODULE MCTextPipeline ---------------------------
EXTENDS TextPipeline

\* Messages with a few characters of each class, and messages of one or two words
\* of any kind or of four with two words of any kind in front.
Words == UNION {[1..n -> Word] : n \in 1..2}
MCMessage ==
    [plain : 0..3, quote : 0..2, amp : 0..1, pad : 0..1, control : 0..1, about : About, words : {FullQuestion}]
    \cup [plain : {3}, quote : {0}, amp : {0}, pad : {0}, control : {0}, about : {"question"},
          words : Words \cup {w \o <<"other", "other">> : w \in [1..2 -> Word]}]

\* Replies of up to four pieces: words, sentences, a sentence that ends loudly,
\* a forbidden term, a word that begins with one, the slogan, empty lines.
Piece == {<<"word", "word", "word">>, <<"word", "word", "period">>, <<"word", "exclaim">>,
          <<"bad">>, <<"bad", "rest">>, <<"gap">>, Slogan}
MCReply == {FlattenSeq(s) : s \in UNION {[1..n -> Piece] : n \in 0..4}}

\* Documents of two paragraphs of up to three sentences, or three of up to two, with
\* one blank between them or with three.
Total(lengths) == FoldLeft(LAMBDA sum, l : sum + l, 0, lengths)
Paragraph(n) == {[length |-> Total(s) + blanks * (Len(s) - 1), sentences |-> s] :
                    s \in UNION {[1..m -> {1, 2, 4, 6}] : m \in 1..n}, blanks \in {1, 3}}
                \cup {[length |-> 0, sentences |-> <<>>]}
MCDocument == UNION {[1..n -> Paragraph(3)] : n \in 0..2} \cup [1..3 -> Paragraph(2)]

\* Either a message is answered, or a document is cut.
NoMessage == [plain |-> 0, quote |-> 0, amp |-> 0, pad |-> 0, control |-> 0, about |-> "question",
              words |-> FullQuestion]
MCInit == \/ document = <<>> /\ TextInit
          \/ channel = "web" /\ message = NoMessage /\ TextInit
MCSpec == MCInit /\ [][TextNext]_textVars
=============================================================================
