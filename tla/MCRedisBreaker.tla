--------------------------- MODULE MCRedisBreaker ---------------------------
(***************************************************************************)
(* Instances of RedisBreaker: two processes with a task each.              *)
(***************************************************************************)
EXTENDS RedisBreaker, TLC

CONSTANTS t1, t2, p1, p2

TwoTasks     == {t1, t2}
OneTask      == {t1}
TwoProcesses == {p1, p2}
Apart        == t1 :> p1 @@ t2 :> p2
=============================================================================
