------------------------------ MODULE LeaseLock -----------------------------
(***************************************************************************)
(* What a lock with a lease promises its clients: it is granted only when  *)
(* nobody owns it, and it is given back only by a client that found its    *)
(* own token in it after it had left.  A client may still be inside when   *)
(* its lease is over, and the lock may then be another's.                  *)
(***************************************************************************)
CONSTANTS Client, Token, Nobody

VARIABLES
    token,   \* token[c]: the token that c writes into the lock
    owner,   \* whose token is in the lock
    inside,  \* clients that were told they hold the lock and have not left
    sure     \* clients that found their token in the lock on leaving

vars == <<token, owner, inside, sure>>

Init == token \in [Client -> Token] /\ owner = Nobody /\ inside = {} /\ sure = {}

\* The answer may be lost: the lock is taken and nobody is inside.
Grant(c) == /\ owner = Nobody
            /\ owner' = c
            /\ inside' \in {inside, inside \cup {c}}
            /\ UNCHANGED <<token, sure>>

Leave(c) == /\ c \in inside
            /\ inside' = inside \ {c}
            /\ \/ sure' = sure
               \/ owner # Nobody /\ token[owner] = token[c] /\ sure' = sure \cup {c}
            /\ UNCHANGED <<token, owner>>

GiveBack(c) == /\ c \in sure
               /\ sure' = sure \ {c}
               /\ owner' \in {owner, Nobody}
               /\ UNCHANGED <<token, inside>>

Expire == owner' = Nobody /\ UNCHANGED <<token, inside, sure>>

Next == Expire \/ \E c \in Client : Grant(c) \/ Leave(c) \/ GiveBack(c)

Spec == Init /\ [][Next]_vars
=============================================================================
