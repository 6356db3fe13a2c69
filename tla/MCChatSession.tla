--------------------------- MODULE MCChatSession ----------------------------
(***************************************************************************)
(* Instances of ChatSession.  A request is named after what it asks, so    *)
(* that its kind is the same in every scenario.                            *)
(***************************************************************************)
EXTENDS ChatSession, TLC

CONSTANTS ask, hello, word, stop, start,         \* messages of ana
          other,                                 \* a question of bob
          ana, bob

Clients == {ana, bob}
KindOfName == ask :> "question" @@ hello :> "canned"
              @@ word :> "keyword" @@ stop :> "stop" @@ start :> "start"
              @@ other :> "question"
Names == DOMAIN KindOfName

\* Ana, who says she is on WhatsApp, opts out and in, the second time in the
\* session of the first if it comes later; bob asks a question.
TalkRequest == {stop, start, other}
TalkBy      == stop :> ana @@ start :> ana @@ other :> bob
TalkKind    == [r \in TalkRequest |-> KindOfName[r]]
OnPhone     == {stop, start}
Nothing     == {}

\* One message.
OneRequest  == {hello}
OneBy       == [r \in OneRequest |-> ana]
OneKind     == [r \in OneRequest |-> KindOfName[r]]
=============================================================================
