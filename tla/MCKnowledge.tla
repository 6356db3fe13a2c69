----------------------------- MODULE MCKnowledge ----------------------------
EXTENDS Knowledge, TLC

CONSTANTS d1, d2, i1, i2

\* The script indexes as English; a caller may name another language.
MCSubject == i1 :> [doc |-> d1, language |-> "en"] @@ i2 :> [doc |-> d2, language |-> "fr"]

Asks(q, l) == [question |-> q, language |-> l]

\* Either the store and the answers are used, or the rows.  The second request
\* asks the first one's question in another language, or another question.
Apart == \/ /\ \A w \in Write : op[w] = None
            /\ asked[1] = Asks(1, "en") /\ asked[2] \in {Asks(1, "fr"), Asks(2, "wolof")}
         \/ /\ \A w \in Write : op[w] # None
            /\ \A r \in Request : asked[r] = None
MCNext == Next /\ (asked[1] = None => UNCHANGED <<store, answers>>)
MCInit == Init /\ Apart
MCSpec == MCInit /\ [][MCNext]_vars /\ Fairness
=============================================================================
