--------------------------- MODULE MCCacheService ---------------------------
EXTENDS CacheService, TLC

CONSTANTS c1, c2, c3, w1, w2

\* Two calls share a process.
MCAt == c1 :> w1 @@ c2 :> w2 @@ c3 :> w2

\* Calls of one kind of state at a time: locks, counters or sessions.
Together == \/ \A c \in Call : job[c] = "lock"
            \/ /\ \A c \in Call : stamp[c] = 1
               /\ \/ \A c \in Call : job[c] \in {"failure", "clear"}
                  \/ \A c \in Call : job[c] \in {"create", "update"}
MCInit == Init /\ Together
MCSpec == MCInit /\ [][Next]_vars
=============================================================================
