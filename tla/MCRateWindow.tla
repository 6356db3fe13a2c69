---------------------------- MODULE MCRateWindow ----------------------------
(***************************************************************************)
(* An instance of RateWindow: concurrent chat requests of one caller, each *)
(* checked against two sorted sets one after the other.                    *)
(***************************************************************************)
EXTENDS RateWindow, TLC

CONSTANTS w1, w2,                    \* workers
          ana,                       \* a caller
          session, address           \* keys

TwoWorkers == {w1, w2}
OneCaller  == {ana}

\* A chat client is checked against its session first, and then its address.
ChatKey    == {session, address}
ChatRoute  == ana :> <<session, address>>
ChatLimit  == session :> 1 @@ address :> 1
ChatWindow == session :> 4 @@ address :> 2
ChatSlack  == [k \in ChatKey |-> 1]

Interchangeable == Permutations(TwoWorkers)
=============================================================================
