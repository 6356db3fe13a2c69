---------------------------- MODULE TextPipeline ----------------------------
(***************************************************************************)
(* What becomes of texts: the message of a client on its way to the chat   *)
(* service, the answer on its way back (InputValidator, OutputValidator,   *)
(* WhatsAppService), and a document on its way to the vector store         *)
(* (DocumentProcessor).                                                    *)
(*                                                                         *)
(* A message is told apart by how many characters of each class it has, by *)
(* what the detectors would say of it, and by those of its words that have *)
(* answers of their own.  A reply is a sequence of marks, each of them one *)
(* unit long; a document a sequence of paragraphs, and a paragraph its     *)
(* length and those of its sentences.  The patterns are left out.          *)
(***************************************************************************)
EXTENDS Integers, SequencesExt

CONSTANTS
    Message,     \* what clients type
    Reply,       \* what the language model generates
    Document,    \* documents to index
    MaxMessage,  \* MAX_MESSAGE_LENGTH
    MaxReply,    \* MAX_WHATSAPP_LENGTH
    ChunkSize    \* chunk_size

Channel == {"web", "whatsapp"}
About == {"question", "xss", "injection", "blocked phrase", "dislike", "threat"}
Word == {"other", "short", "topic", "health", "economy", "barrow", "hello", "help", "thanks", "thx",
         "stop", "start", "status"}
Mark == {"word", "period", "exclaim", "gap", "bad", "rest", "ask", "one"}

\* Only a text of blanks has no words; it is refused before anyone looks at them.
Text == [plain : Nat, quote : Nat, amp : Nat, pad : Nat, control : Nat, about : About,
         words : Seq(Word) \ {<<>>}]
ASSUME SizeAssumption == MaxMessage \in Nat /\ MaxReply \in Nat /\ ChunkSize \in Nat \ {0}
ASSUME TextAssumption == /\ Message \subseteq Text /\ Reply \subseteq Seq(Mark)
                         /\ Document \subseteq Seq([length : Nat, sentences : Seq(Nat)])

VARIABLES
    channel,   \* the client's
    stage,     \* the step that is next
    message,   \* the message as the last step left it
    typed,     \* the message as the client typed it
    refused,   \* why it was not taken: "", "content", "empty", "length" or "rate"
    answer,    \* what the chat service answers
    sent,      \* what the client is sent
    document,  \* the document to be cut
    at,        \* paragraphs that are cut
    current,   \* current_chunk
    chunks     \* chunks

talk == <<channel, stage, message, typed, refused, answer, sent>>
cutting == <<document, at, current, chunks>>
textVars == <<talk, cutting>>

-----------------------------------------------------------------------------
\* Messages: counts of plain characters, of quotes and slashes, of ampersands,
\* of blanks around the text and of control characters.

Length(m) == m.plain + m.quote + m.amp + m.control
Padded(m) == Length(m) + m.pad

Sanitize(m) == [m EXCEPT !.pad = 0, !.control = 0]

\* Faulty: the ampersand is replaced after the others.
EscapeLate(m) == [m EXCEPT !.plain = @ + 9 * m.quote + 4 * m.amp, !.quote = 0, !.amp = @ + m.quote]

\* "&#x27;" is an ampersand and five more, "&amp;" one and four.
Escape(m) == [m EXCEPT !.plain = @ + 5 * m.quote + 4 * m.amp, !.quote = 0, !.amp = @ + m.quote]

\* What the detectors look for.  Critical questions, spam, encodings and SQL are let through.
DetectXss(m)       == m.about = "xss"
DetectInjection(m) == m.about = "injection"
DetectHostile(m)   == m.about = "dislike"
HasBlockedPhrase(m) == m.about = "blocked phrase"
BlockedBySentiment(m) == m.about = "threat"

\* ChatMessageRequest strips before it measures and looks for dislike.
RequestRefuses(m) ==
    IF Length(m) = 0 THEN "empty"
    ELSE IF Length(m) > MaxMessage THEN "length"
    ELSE IF DetectXss(m) \/ DetectInjection(m) \/ DetectHostile(m) THEN "content"
    ELSE ""

\* InputValidator measures first and looks for blocked phrases and threats.
ServiceRefuses(m) ==
    IF Length(m) = 0 THEN "empty"
    ELSE IF Padded(m) > MaxMessage THEN "length"
    ELSE IF DetectXss(m) \/ DetectInjection(m) \/ HasBlockedPhrase(m) \/ BlockedBySentiment(m) THEN "content"
    ELSE ""

-----------------------------------------------------------------------------
\* Replies

Slogan == <<"ask", "period", "one", "period">>
Ending == <<"gap">> \o Slogan
Spare == 2

\* The word that begins with a forbidden one is none.
IsForbidden(s) == \E n \in DOMAIN s : s[n] = "bad" /\ (n < Len(s) => s[n + 1] # "rest")
HasSlogan(s) == \E n \in 1..Len(s) - Len(Slogan) + 1 : SubSeq(s, n, n + Len(Slogan) - 1) = Slogan
RStrip(s) == SubSeq(s, 1, CHOOSE n \in 0..Len(s) : /\ n = 0 \/ s[n] # "gap"
                                                   /\ \A k \in n + 1..Len(s) : s[k] = "gap")

\* Ready-made texts: all the ones without the slogan, and all with it.
Unsigned == <<"word", "period">>
Fallback == Unsigned \o Ending

ASSUME RoomAssumption == MaxReply >= Len(Fallback)

CutLength == MaxReply - Len(Slogan) - Spare

\* rfind of a sentence's end in the part that is kept; -1 when there is none.
LastOf(ends, s) ==
    LET found == {n \in 1..CutLength : s[n] \in ends}
    IN  IF found = {} THEN -1 ELSE (CHOOSE n \in found : \A k \in found : k <= n) - 1

Late(n) == 10 * n > 7 * CutLength
CutAt(s, n) == SubSeq(s, 1, IF Late(n) THEN n + 1 ELSE CutLength) \o Ending

\* OutputValidator cuts at the last sentence's end, WhatsAppService at a period
\* when there is one late enough.
Truncate(s) == CutAt(s, LastOf({"period", "exclaim"}, s))
TruncateToSend(s) ==
    CutAt(s, LET period == LastOf({"period"}, s)
             IN  IF Late(period) THEN period ELSE LastOf({"exclaim"}, s))

WithSlogan(s) == IF HasSlogan(s) THEN s ELSE RStrip(s) \o Ending
OnChannel(s, c) == IF c = "whatsapp" /\ Len(s) > MaxReply THEN Truncate(s) ELSE s

\* Faulty: the forbidden terms are looked for before the reply is cut.
ValidateThenCut(s, c) ==
    IF RStrip(s) = <<>> \/ IsForbidden(WithSlogan(s)) THEN Fallback ELSE OnChannel(WithSlogan(s), c)

\* validate_response, not strict
ValidateResponse(s, c) ==
    LET final == OnChannel(WithSlogan(s), c)
    IN  IF RStrip(s) = <<>> \/ IsForbidden(final) THEN Fallback ELSE final

-----------------------------------------------------------------------------
\* Answers that are ready-made

\* The words that stand for a question, and those with an answer; "topic" is
\* any other word that is in both maps.
QuestionTopic == {"topic", "health", "economy"}
KeywordTopic  == {"topic", "health", "barrow"}
SpelledOut(w) == IF w = "thx" THEN "thanks" ELSE w
FullQuestion == <<"other", "other", "other", "other">>

\* normalize_user_input: abbreviations are written out, and a few words with a
\* topic among them become a question about it.
Normalize(words) ==
    IF Len(words) <= 3 /\ (\E n \in DOMAIN words : words[n] \in QuestionTopic) THEN FullQuestion
    ELSE [n \in DOMAIN words |-> SpelledOut(words[n])]

\* The first intent in this order that one of its words is there for; "health"
\* is a word for "status".  A greeting is one only when it is alone.
Intents == <<"help", "thanks", "stop", "start", "status">>
Says(words, intent) ==
    \E n \in DOMAIN words : words[n] = intent \/ (words[n] = "health" /\ intent = "status")

DetectIntent(words) ==
    LET said == {k \in DOMAIN Intents : Says(words, Intents[k])}
    IN  IF words = <<"hello">> THEN "greeting"
        ELSE IF said # {} THEN Intents[Min(said)]
        ELSE IF words = <<"short">> THEN "help" ELSE "none"

\* Thanks are left to the language model; the status has no slogan.
IntentResponse(intent) ==
    CASE intent \in {"none", "thanks"} -> <<>>
      [] intent = "status"            -> Unsigned
      [] OTHER                        -> Fallback

\* What begins with a topic has an answer, without slogan.
KeywordAnswer(words) == IF words[1] \in KeywordTopic THEN Unsigned ELSE <<>>

-----------------------------------------------------------------------------
\* Documents.  A sentence is [at, length]; a chunk its sentences and its size.

Nothing == [of |-> <<>>, size |-> 0]
Sentences(p) == [n \in DOMAIN document[p].sentences |->
                    [at |-> <<p, n>>, length |-> document[p].sentences[n]]]

Kept(out, chunk) == IF chunk = Nothing THEN out ELSE Append(out, chunk)

\* The sentence goes where the one before it went, or begins a chunk.
AddSentence(acc, s) ==
    IF acc.temp.size + s.length <= ChunkSize
    THEN [acc EXCEPT !.temp = [of |-> Append(@.of, s), size |-> @.size + s.length + 1]]
    ELSE [out  |-> Kept(acc.out, [acc.temp EXCEPT !.size = IF @ = 0 THEN 0 ELSE @ - 1]),
          temp |-> [of |-> <<s>>, size |-> s.length + 1]]

\* The sentences of a paragraph, one after another, behind the chunks that are there.
SplitSentences(out, sentences) ==
    LET acc[n \in 0..Len(sentences)] ==
            IF n = 0 THEN [out |-> out, temp |-> Nothing] ELSE AddSentence(acc[n - 1], sentences[n])
    IN  acc[Len(sentences)]

TextInit ==
    /\ channel \in Channel /\ stage = "typed"
    /\ message \in Message /\ typed = message
    /\ refused = "" /\ answer = <<>> /\ sent = <<>>
    /\ document \in Document
    /\ at = 0 /\ current = Nothing /\ chunks = <<>>

\* WhatsAppService sends its own texts as they are.
Notify(text) == stage' = "sent" /\ answer' = text /\ sent' = text

\* The request model on the web, the validator of WhatsAppService on WhatsApp.
FirstRefusal(m) == IF channel = "web" THEN RequestRefuses(m) ELSE ServiceRefuses(m)

Accept ==
    /\ stage = "typed" /\ FirstRefusal(message) = ""
    /\ message' = Escape(Sanitize(message)) /\ stage' = "accepted"
    /\ UNCHANGED <<channel, typed, refused, answer, sent, cutting>>

\* The web is answered with an error, WhatsApp with a notice.
TurnAway ==
    /\ stage = "typed" /\ FirstRefusal(message) # ""
    /\ refused' = FirstRefusal(message)
    /\ IF channel = "web" THEN stage' = "turned away" /\ UNCHANGED <<answer, sent>>
       ELSE Notify(Unsigned)
    /\ UNCHANGED <<channel, message, typed, cutting>>

\* Too many messages: WhatsAppService says so before it looks at this one,
\* ChatService before it validates it.
Throttle ==
    /\ refused' = "rate"
    /\ \/ channel = "whatsapp" /\ stage = "typed" /\ Notify(Unsigned)
       \/ /\ channel = "web" /\ stage = "accepted"
          /\ stage' = "answered" /\ answer' = Unsigned /\ UNCHANGED sent
    /\ UNCHANGED <<channel, message, typed, cutting>>

\* A whole message that is a command, which WhatsAppService confirms itself.
Command ==
    /\ channel = "whatsapp" /\ stage = "typed"
    /\ message.about = "question" /\ message.words \in {<<"stop">>, <<"start">>}
    /\ Notify(Fallback)
    /\ UNCHANGED <<channel, message, typed, refused, cutting>>

\* ChatService validates what it is given once more.
Take ==
    /\ stage = "accepted"
    /\ refused' = ServiceRefuses(message)
    /\ IF refused' = ""
       THEN /\ message' = [Escape(Sanitize(message)) EXCEPT !.words = Normalize(@)]
            /\ stage' = "taken" /\ UNCHANGED answer
       ELSE answer' = Fallback /\ stage' = "answered" /\ UNCHANGED message
    /\ UNCHANGED <<channel, typed, sent, cutting>>

\* A ready-made answer; or a generated one, perhaps cached and made for either
\* channel; or that nothing is known.
Answer ==
    /\ stage = "taken"
    /\ LET intent  == IntentResponse(DetectIntent(message.words))
           keyword == KeywordAnswer(message.words)
       IN  IF intent # <<>> THEN answer' = intent
           ELSE IF keyword # <<>> THEN answer' = keyword
           ELSE \/ \E reply \in Reply, c \in Channel : answer' = ValidateResponse(reply, c)
                \/ answer' = Fallback
    /\ stage' = "answered"
    /\ UNCHANGED <<channel, message, typed, refused, sent, cutting>>

Send ==
    /\ stage = "answered" /\ stage' = "sent"
    /\ sent' = IF channel = "whatsapp" /\ Len(answer) > MaxReply THEN TruncateToSend(answer) ELSE answer
    /\ UNCHANGED <<channel, message, typed, refused, answer, cutting>>

-----------------------------------------------------------------------------
\* chunk_document, a paragraph at a time

\* Faulty: what was collected is not put away in front of a long paragraph.
CutLongOver ==
    /\ at < Len(document) /\ Sentences(at + 1) # <<>> /\ document[at + 1].length > ChunkSize
    /\ LET acc == SplitSentences(chunks, Sentences(at + 1))
       IN  chunks' = acc.out /\ current' = acc.temp
    /\ at' = at + 1
    /\ UNCHANGED <<document, talk>>

CutLong ==
    /\ at < Len(document) /\ Sentences(at + 1) # <<>> /\ document[at + 1].length > ChunkSize
    /\ LET acc == SplitSentences(Kept(chunks, current), Sentences(at + 1))
       IN  chunks' = acc.out /\ current' = acc.temp
    /\ at' = at + 1
    /\ UNCHANGED <<document, talk>>

CutShort ==
    /\ at < Len(document) /\ Sentences(at + 1) # <<>> /\ document[at + 1].length <= ChunkSize
    /\ LET length == document[at + 1].length
           whole == [of |-> Sentences(at + 1), size |-> length]
       IN  IF current.size + length <= ChunkSize
           THEN /\ current' = IF current = Nothing THEN whole
                              ELSE [of |-> current.of \o whole.of, size |-> current.size + 2 + length]
                /\ UNCHANGED chunks
           ELSE chunks' = Kept(chunks, current) /\ current' = whole
    /\ at' = at + 1
    /\ UNCHANGED <<document, talk>>

Skip ==
    /\ at < Len(document) /\ Sentences(at + 1) = <<>>
    /\ at' = at + 1
    /\ UNCHANGED <<document, current, chunks, talk>>

LastChunk ==
    /\ at = Len(document) /\ current # Nothing
    /\ chunks' = Append(chunks, current) /\ current' = Nothing
    /\ UNCHANGED <<document, at, talk>>

-----------------------------------------------------------------------------
TextNext == Accept \/ TurnAway \/ Throttle \/ Command \/ Take \/ Answer \/ Send
            \/ CutLong \/ CutShort \/ Skip \/ LastChunk

TextSpec == TextInit /\ [][TextNext]_textVars

-----------------------------------------------------------------------------
\* A message is refused for its length only when it was longer than a sixth of
\* what is allowed: each of the two validations escapes it, and the second one
\* measures what the first has escaped.
\* (models/request/chat.py:68-108, input_validator.py:425-551)
ShortIsTaken == refused = "length" => 6 * Padded(typed) > MaxMessage

\* What may be answered without the slogan: a message about the status or one that
\* begins with a keyword, one too many, and one that WhatsAppService refuses.
Curt(words) == words[1] \in KeywordTopic \/ \E n \in DOMAIN words : words[n] \in {"status", "health"}
Notice == refused = "rate" \/ (channel = "whatsapp" /\ ServiceRefuses(typed) # "")

\* Every answer has the slogan, but for those kinds, and no forbidden term, even one
\* that the validator's cut has laid bare.  What WhatsApp is sent keeps the slogan
\* of the answer and is short enough, also when the answer was cached for the web
\* and is longer; only this cut, which nothing checks any more, can lay bare a
\* forbidden term.  (chat_service.py:319-456, 606-616, output_validator.py:105-311,
\* whatsapp_service.py:293-370, 713-739)
SentIsFit ==
    /\ stage \in {"answered", "sent"} => /\ HasSlogan(answer) \/ Curt(typed.words) \/ Notice
                                        /\ ~IsForbidden(answer)
    /\ stage = "sent" => /\ HasSlogan(answer) => HasSlogan(sent)
                         /\ IsForbidden(sent) => channel = "whatsapp" /\ Len(answer) > MaxReply
                         /\ channel = "whatsapp" => Len(sent) <= MaxReply

\* The chunks hold every sentence of the paragraphs that are cut, once and in
\* order; none is empty; one that exceeds the size by more than a paragraph's
\* separator is a single sentence.  (document_processor.py:84-134)
ChunksAreFaithful ==
    LET all == Kept(chunks, current)
    IN  /\ FlattenSeq([n \in DOMAIN all |-> all[n].of]) = FlattenSeq([p \in 1..at |-> Sentences(p)])
        /\ \A n \in DOMAIN all : /\ all[n].of # <<>>
                                 /\ all[n].size <= ChunkSize + 2 \/ Len(all[n].of) = 1
=============================================================================
