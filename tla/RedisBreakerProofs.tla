------------------------- MODULE RedisBreakerProofs -------------------------
(***************************************************************************)
(* Theorems about RedisBreaker for any number of tasks and processes, and  *)
(* any threshold, timeout and expiry.                                      *)
(***************************************************************************)
EXTENDS RedisBreaker, TLAPS

-----------------------------------------------------------------------------
(* Types. *)

\* The counter and the ages stay within their bounds.
LEMMA CountBounds ==
    ASSUME failures \in 0..Threshold
    PROVE  OneMore \in 1..Threshold
BY BreakerAssumption DEF OneMore, LesserOf

LEMMA TypeInit == Init => TypeOK
<1> SUFFICES ASSUME Init
             PROVE  TypeOK
    OBVIOUS
<1> USE BreakerAssumption DEF Init
<1>1. pc \in [Task -> PC] /\ \A t \in Task : pc[t] \notin Noting
    BY DEF PC, Noting
<1>2. client \in [Process -> {"none", "made", "ready"}]
    OBVIOUS
<1>3. round \in [Task -> 1..3] /\ tally \in [Task -> 0..Threshold]
    OBVIOUS
<1>4. age \in (0..Timeout) \cup {Absent}
    OBVIOUS
<1>5. openTtl \in 0..KeyTtl /\ openTtl = 0 /\ failTtl \in 0..KeyTtl /\ failTtl = 0
    OBVIOUS
<1>6. open \in BOOLEAN /\ dirty \in BOOLEAN /\ disturbed \subseteq Task
    OBVIOUS
<1>7. failures \in 0..Threshold
    OBVIOUS
<1> QED
    BY <1>1, <1>2, <1>3, <1>4, <1>5, <1>6, <1>7 DEF TypeOK

LEMMA TypeStep == TypeOK /\ [Next]_vars => TypeOK'
<1> SUFFICES ASSUME TypeOK, [Next]_vars
             PROVE  TypeOK'
    OBVIOUS
<1> USE TaskAssumption, BreakerAssumption
<1>0. OneMore \in 1..Threshold
    BY CountBounds DEF TypeOK
<1>1. ASSUME NEW t \in Task,
             Begin(t) \/ GetOpen(t) \/ GetLast(t) \/ Refuse(t) \/ Connect(t) \/ Ping(t) \/ Operate(t)
      PROVE  TypeOK'
    <2>1. UNCHANGED <<keys, tally, ghosts>>
        BY <1>1 DEF Begin, GetOpen, GetLast, Refuse, Connect, Ping, Operate
    <2>2. /\ pc' \in [Task -> PC] /\ pc'[t] \notin Noting
          /\ \A u \in Task \ {t} : pc'[u] = pc[u]
        BY <1>1 DEF Begin, GetOpen, GetLast, Refuse, Connect, Ping, Operate, Admit, Goto,
                    TypeOK, PC, Asking, Resetting, Noting
    <2>3. round' \in [Task -> 1..3]
        BY <1>1 DEF Begin, GetOpen, GetLast, Refuse, Connect, Ping, Operate, Admit, TypeOK
    <2>4. client' \in [Process -> {"none", "made", "ready"}]
        BY <1>1 DEF Begin, GetOpen, GetLast, Refuse, Connect, Ping, Operate, TypeOK
    <2> QED
        BY <2>1, <2>2, <2>3, <2>4 DEF TypeOK, keys, ghosts
<1>2. ASSUME NEW t \in Task, HalfOpen(t) \/ DelOpen(t) \/ DelFailures(t) \/ DelLast(t)
      PROVE  TypeOK'
    <2>1. /\ pc' \in [Task -> PC] /\ pc'[t] \notin Noting
          /\ \A u \in Task \ {t} : pc'[u] = pc[u]
          /\ UNCHANGED <<tally, client>>
        BY <1>2 DEF HalfOpen, DelOpen, DelFailures, DelLast, AfterReset, Admit, Goto,
                    TypeOK, PC, Asking, Resetting, Noting
    <2>2. round' \in [Task -> 1..3]
        BY <1>2 DEF HalfOpen, DelOpen, DelFailures, DelLast, Admit, TypeOK
    <2>3. /\ open' \in BOOLEAN /\ openTtl' \in 0..KeyTtl /\ (openTtl' # 0 => open')
          /\ failures' \in 0..Threshold /\ failTtl' \in 0..KeyTtl /\ (failTtl' # 0 => failures' # 0)
          /\ age' \in (0..Timeout) \cup {Absent}
        <3>1. /\ (open' = FALSE /\ openTtl' = 0) \/ UNCHANGED <<open, openTtl>>
              /\ (failures' = 0 /\ failTtl' = 0) \/ UNCHANGED <<failures, failTtl>>
              /\ age' = Absent \/ UNCHANGED age
            BY <1>2 DEF HalfOpen, DelOpen, DelFailures, DelLast, DropOpen, DropFailures
        <3>2. openTtl' \in 0..KeyTtl
            BY <3>1 DEF TypeOK
        <3>3. open' \in BOOLEAN
            BY <3>1 DEF TypeOK
        <3>4. openTtl' # 0 => open'
            BY <3>1 DEF TypeOK
        <3>5. failures' \in 0..Threshold /\ failTtl' \in 0..KeyTtl /\ (failTtl' # 0 => failures' # 0)
            BY <3>1 DEF TypeOK
        <3>6. age' \in (0..Timeout) \cup {Absent}
            BY <3>1 DEF TypeOK
        <3> QED
            BY <3>2, <3>3, <3>4, <3>5, <3>6
    <2>4. /\ dirty' \in BOOLEAN /\ disturbed' \subseteq Task
        BY <1>2 DEF HalfOpen, DelOpen, DelFailures, DelLast, ghosts, TypeOK
    <2> QED
        BY <2>1, <2>2, <2>3, <2>4 DEF TypeOK
<1>3. ASSUME NEW t \in Task,
             Incr(t) \/ SetLast(t) \/ ExpireFailures(t) \/ SetOpen(t) \/ ExpireOpen(t)
      PROVE  TypeOK'
    <2>1. /\ pc' \in [Task -> PC]
          /\ \A u \in Task \ {t} : pc'[u] = pc[u] /\ tally'[u] = tally[u]
          /\ UNCHANGED <<round, client>>
        BY <1>3 DEF Incr, SetLast, ExpireFailures, SetOpen, ExpireOpen, Goto, TypeOK, PC,
                    Asking, Resetting, Noting
    <2>2. /\ tally' \in [Task -> 0..Threshold]
          /\ pc'[t] \in Noting => tally'[t] # 0
        BY <1>0, <1>3 DEF Incr, SetLast, ExpireFailures, SetOpen, ExpireOpen, Goto, TypeOK, Noting
    <2>3. /\ open' \in BOOLEAN /\ openTtl' \in 0..KeyTtl /\ (openTtl' # 0 => open')
          /\ failures' \in 0..Threshold /\ failTtl' \in 0..KeyTtl /\ (failTtl' # 0 => failures' # 0)
          /\ age' \in (0..Timeout) \cup {Absent}
        <3>1. CASE Incr(t)
            BY <1>0, <3>1 DEF Incr, TypeOK
        <3>2. CASE SetLast(t)
            BY <3>2 DEF SetLast, TypeOK
        <3>3. CASE ExpireFailures(t)
            <4>1. failTtl' \in 0..KeyTtl /\ (failTtl' # 0 => failures # 0)
                BY <3>3 DEF ExpireFailures, TypeOK
            <4> QED
                BY <3>3, <4>1 DEF ExpireFailures, TypeOK
        <3>4. CASE SetOpen(t)
            <4>1. openTtl' \in 0..KeyTtl /\ (openTtl' # 0 => open')
                BY <3>4 DEF SetOpen, TypeOK
            <4>2. open' \in BOOLEAN
                BY <3>4 DEF SetOpen, TypeOK
            <4> QED
                BY <3>4, <4>1, <4>2 DEF SetOpen, TypeOK
        <3>5. CASE ExpireOpen(t)
            BY <3>5 DEF ExpireOpen, TypeOK
        <3> QED
            BY <1>3, <3>1, <3>2, <3>3, <3>4, <3>5
    <2>4. /\ dirty' \in BOOLEAN /\ disturbed' \subseteq Task
        BY <1>3 DEF Incr, SetLast, ExpireFailures, SetOpen, ExpireOpen, NoteFailure, ghosts, TypeOK
    <2> QED
        BY <2>1, <2>2, <2>3, <2>4 DEF TypeOK
<1>4. CASE Tick
    <2>1. /\ open' \in BOOLEAN /\ openTtl' \in 0..KeyTtl /\ (openTtl' # 0 => open')
          /\ failures' \in 0..Threshold /\ failTtl' \in 0..KeyTtl /\ (failTtl' # 0 => failures' # 0)
          /\ age' \in (0..Timeout) \cup {Absent}
        BY <1>4 DEF Tick, LesserOf, TypeOK
    <2> QED
        BY <1>4, <2>1 DEF Tick, ghosts, TypeOK
<1>5. ASSUME NEW p \in Process, Restart(p)
      PROVE  TypeOK'
    BY <1>5 DEF Restart, TypeOK, keys, ghosts, PC, Noting
<1>6. CASE UNCHANGED vars
    BY <1>6 DEF vars, TypeOK
<1> QED
    BY <1>1, <1>2, <1>3, <1>4, <1>5, <1>6 DEF Next, Step

(* Every state of the breaker is well formed; in particular a key that does  *)
(* not exist has no expiry.                                                  *)
THEOREM TypeCorrect == Spec => []TypeOK
<1> QED
    BY TypeInit, TypeStep, PTL DEF Spec

-----------------------------------------------------------------------------
(* A reset that nothing disturbed leaves a closed breaker. *)

\* While a reset is undisturbed, no task is noting a failure, and the keys that
\* it has deleted so far stay deleted.
UndisturbedInv ==
    \A t \in Task : pc[t] \in Resetting /\ t \notin disturbed =>
        ~NotingNow /\ ~open /\ (pc[t] = "delLast" => failures = 0)

CleanInv ==
    /\ TypeOK
    /\ UndisturbedInv
    /\ ~dirty => ~NotingNow
    /\ CleanIsClosed

LEMMA CleanInit == Init => CleanInv
BY TypeInit DEF Init, CleanInv, UndisturbedInv, CleanIsClosed, NotingNow, Resetting, Noting

LEMMA CleanStep == CleanInv /\ [Next]_vars => CleanInv'
<1> SUFFICES ASSUME CleanInv, [Next]_vars
             PROVE  CleanInv'
    OBVIOUS
<1> USE TaskAssumption, BreakerAssumption
<1>0. TypeOK /\ TypeOK'
    BY TypeStep DEF CleanInv
<1>1. ASSUME NEW t \in Task,
             Begin(t) \/ GetOpen(t) \/ GetLast(t) \/ HalfOpen(t) \/ Refuse(t) \/ Connect(t)
               \/ Ping(t) \/ Operate(t)
      PROVE  CleanInv'
    <2>1. /\ UNCHANGED <<failures, age, dirty, disturbed>>
          /\ open' => open
        BY <1>1 DEF Begin, GetOpen, GetLast, HalfOpen, Refuse, Connect, Ping, Operate, keys,
                    ghosts, DropOpen
    <2>2. /\ pc'[t] \notin Noting \cup Resetting
          /\ \A u \in Task \ {t} : pc'[u] = pc[u]
        BY <1>0, <1>1 DEF Begin, GetOpen, GetLast, HalfOpen, Refuse, Connect, Ping, Operate,
                          Admit, Goto, TypeOK, Resetting, Noting
    <2>3. NotingNow' => NotingNow
        BY <2>2 DEF NotingNow
    <2> QED
        BY <1>0, <2>1, <2>2, <2>3 DEF CleanInv, UndisturbedInv, CleanIsClosed
<1>2. ASSUME NEW t \in Task, DelOpen(t) \/ DelFailures(t) \/ DelLast(t)
      PROVE  CleanInv'
    <2>1. /\ pc'[t] \notin Noting
          /\ \A u \in Task \ {t} : pc'[u] = pc[u]
        BY <1>0, <1>2 DEF DelOpen, DelFailures, DelLast, AfterReset, Goto, TypeOK, Noting
    <2>2. NotingNow' => NotingNow
        BY <2>1 DEF NotingNow
    <2>3. /\ open' => open
          /\ failures # 0 \/ failures' = 0
          /\ age' \in {age, Absent}
          /\ \A u \in Task \ {t} : u \in disturbed' <=> u \in disturbed
        BY <1>2 DEF DelOpen, DelFailures, DelLast, DropOpen, DropFailures, ghosts
    <2>4. ~dirty' => ~dirty \/ (pc[t] = "delLast" /\ t \notin disturbed /\ age' = Absent)
        BY <1>0, <1>2 DEF DelOpen, DelFailures, DelLast, ghosts, TypeOK
    <2>5. (~dirty => ~NotingNow /\ CleanIsClosed)'
        BY <2>2, <2>3, <2>4 DEF CleanInv, UndisturbedInv, CleanIsClosed, Resetting
    <2>6. ASSUME pc'[t] \in Resetting, t \notin disturbed'
          PROVE  ~NotingNow /\ ~open' /\ (pc'[t] = "delLast" => failures' = 0)
        <3>1. CASE DelOpen(t)
            BY <1>0, <2>6, <3>1 DEF DelOpen, DropOpen, Goto, AfterReset, TypeOK, Resetting
        <3>2. CASE DelFailures(t)
            BY <1>0, <2>6, <3>2 DEF DelFailures, DropFailures, Goto, AfterReset, TypeOK,
                                    Resetting, ghosts, CleanInv, UndisturbedInv
        <3>3. CASE DelLast(t)
            BY <1>0, <2>6, <3>3 DEF DelLast, Goto, AfterReset, TypeOK, Resetting
        <3> QED
            BY <1>2, <3>1, <3>2, <3>3
    <2>7. UndisturbedInv'
        BY <2>1, <2>2, <2>3, <2>6 DEF CleanInv, UndisturbedInv
    <2> QED
        BY <1>0, <2>5, <2>7 DEF CleanInv, CleanIsClosed
<1>3. ASSUME NEW t \in Task, Incr(t)
      PROVE  CleanInv'
    <2>1. dirty' /\ \A u \in Task : pc[u] \in Resetting => u \in disturbed'
        BY <1>3 DEF Incr, NoteFailure
    <2>2. \A u \in Task : pc'[u] \in Resetting => pc[u] \in Resetting
        BY <1>0, <1>3 DEF Incr, Goto, TypeOK, Resetting
    <2> QED
        BY <1>0, <2>1, <2>2 DEF CleanInv, UndisturbedInv, CleanIsClosed
<1>4. ASSUME NEW t \in Task,
             SetLast(t) \/ ExpireFailures(t) \/ SetOpen(t) \/ ExpireOpen(t)
      PROVE  CleanInv'
    <2>1. NotingNow
        BY <1>4 DEF SetLast, ExpireFailures, SetOpen, ExpireOpen, NotingNow, Noting
    <2>2. dirty' /\ UNCHANGED disturbed
        BY <1>4, <2>1 DEF SetLast, ExpireFailures, SetOpen, ExpireOpen, ghosts, CleanInv, TypeOK
    <2>3. \A u \in Task : pc'[u] \in Resetting => pc[u] = pc'[u]
        BY <1>0, <1>4 DEF SetLast, ExpireFailures, SetOpen, ExpireOpen, Goto, TypeOK, Resetting
    <2> QED
        BY <1>0, <2>1, <2>2, <2>3 DEF CleanInv, UndisturbedInv, CleanIsClosed
<1>5. CASE Tick
    <2>1. /\ open' => open
          /\ failures = 0 => failures' = 0
          /\ age = Absent => age' = Absent
          /\ UNCHANGED <<pc, dirty, disturbed>>
        BY <1>0, <1>5 DEF Tick, ghosts, TypeOK
    <2> QED
        BY <1>0, <2>1 DEF CleanInv, UndisturbedInv, CleanIsClosed, NotingNow
<1>6. ASSUME NEW p \in Process, Restart(p)
      PROVE  CleanInv'
    <2>1. \A u \in Task : pc'[u] \in Resetting \cup Noting => pc[u] = pc'[u]
        BY <1>0, <1>6 DEF Restart, TypeOK, Resetting, Noting
    <2> QED
        BY <1>0, <1>6, <2>1 DEF Restart, keys, ghosts, CleanInv, UndisturbedInv, CleanIsClosed,
                                NotingNow
<1>7. CASE UNCHANGED vars
    BY <1>0, <1>7 DEF vars, CleanInv, UndisturbedInv, CleanIsClosed, NotingNow
<1> QED
    BY <1>1, <1>2, <1>3, <1>4, <1>5, <1>6, <1>7 DEF Next, Step

(* A reset that no noting of a failure overlaps closes the breaker until the *)
(* next failure is counted, whatever the tasks of the other processes do     *)
(* (redis_client.py:90-101).                                                 *)
THEOREM CleanResetCloses == Spec => []CleanIsClosed
<1>1. CleanInv => CleanIsClosed
    BY DEF CleanInv
<1> QED
    BY CleanInit, CleanStep, <1>1, PTL DEF Spec
=============================================================================
