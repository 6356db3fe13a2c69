------------------------------ MODULE Consent -------------------------------
(***************************************************************************)
(* What the WhatsApp channel promises its senders: a message is let        *)
(* through once at most; only what was let through is answered, once at    *)
(* most and to its own sender; and nothing but a STOP or a START that was  *)
(* let through changes the record of who wants no answers, and only for    *)
(* its own sender.  A notice that the sender writes too fast is no answer. *)
(* That the record is heeded is not promised.                              *)
(***************************************************************************)
CONSTANTS
    Message,  \* messages, each time they are delivered
    From,     \* From[m]: the sender of m
    Asks      \* Asks[m]: what m asks for: "stop", "start" or something else

VARIABLES
    out,        \* the record of senders who want no answers
    through,    \* messages that were let through and are not settled
    settled,    \* messages that nothing more is done about
    told        \* what senders were told

vars == <<out, through, settled, told>>

Init == out = {} /\ through = {} /\ settled = {} /\ told = {}

Told(m, notice) == [of |-> m, to |-> From[m], notice |-> notice]

LetThrough(m) ==
    /\ m \notin through \cup settled
    /\ through' = through \cup {m}
    /\ UNCHANGED <<out, settled, told>>

\* A duplicate, one too many, or one of a sender who wants no answers.
TurnAway(m) ==
    /\ m \notin through \cup settled
    /\ settled' = settled \cup {m}
    /\ told' \in {told, told \cup {Told(m, TRUE)}}
    /\ UNCHANGED <<out, through>>

\* The answer may be lost on its way.
Answer(m) ==
    /\ m \in through
    /\ through' = through \ {m} /\ settled' = settled \cup {m}
    /\ told' \in {told, told \cup {Told(m, FALSE)}}
    /\ UNCHANGED out

Obey(m) ==
    /\ m \in through
    /\ \/ Asks[m] = "stop"  /\ out' = out \cup {From[m]}
       \/ Asks[m] = "start" /\ out' = out \ {From[m]}
    /\ UNCHANGED <<through, settled, told>>

\* What is under way may be forgotten.
Forget == through' = {} /\ UNCHANGED <<out, settled, told>>

Next == \/ Forget
        \/ \E m \in Message : LetThrough(m) \/ TurnAway(m) \/ Answer(m) \/ Obey(m)

Spec == Init /\ [][Next]_vars
=============================================================================
