-------------------------- MODULE RateWindowProofs --------------------------
(***************************************************************************)
(* Proofs about RateWindow, for any number of workers, keys and callers:   *)
(* the limiter overshoots by at most the other workers, denies only with a *)
(* cause, and loses no entry that is still in its window.                  *)
(***************************************************************************)
EXTENDS RateWindow, FiniteSetTheorems, WellFoundedInduction, TLAPS

LEMMA MinExists ==
    ASSUME NEW S \in SUBSET Nat, S # {}
    PROVE  \E e \in S : \A f \in S : e <= f
  <1>1. PICK e \in S : \A f \in S : ~(<<f, e>> \in OpToRel(<, Nat))
    BY NatLessThanWellFounded, WFMin
  <1>2. \A f \in S : ~(f < e)
    BY <1>1 DEF OpToRel
  <1>3. QED
    BY <1>2

\* What every member of Time and every key can be relied on for.
LEMMA KeyFacts ==
    ASSUME TypeOK, NEW w \in Worker
    PROVE  /\ KeyOf(w) \in Key
           /\ caller[w] \in Caller /\ pos[w] \in Nat \ {0} /\ pos[w] <= Len(Route[caller[w]])
           /\ Route[caller[w]] \in Seq(Key)
           /\ stamp[w] \in Nat /\ now \in Nat /\ MaxStall \in Nat
           /\ Window[KeyOf(w)] \in Nat /\ Limit[KeyOf(w)] \in Nat \ {0}
           /\ zset[KeyOf(w)] \in SUBSET Time
  <1>1. caller[w] \in Caller /\ pos[w] \in Nat \ {0} /\ pos[w] <= Len(Route[caller[w]])
        /\ stamp[w] \in Nat /\ now \in Nat
    BY TimeAssumption DEF TypeOK, Time
  <1>2. Route[caller[w]] \in Seq(Key)
    BY <1>1, RouteAssumption
  <1>3. KeyOf(w) \in Key
    BY <1>1, <1>2 DEF KeyOf
  <1>4. QED
    BY <1>1, <1>2, <1>3, RouteAssumption, TimeAssumption DEF TypeOK

LEMMA FiniteStamps ==
    ASSUME NEW S \in SUBSET Time
    PROVE  IsFiniteSet(S) /\ Cardinality(S) \in Nat
  <1>1. IsFiniteSet(Time)
    BY FS_Interval, TimeAssumption DEF Time
  <1>2. IsFiniteSet(S)
    BY <1>1, FS_Subset
  <1>3. QED
    BY <1>2, FS_CardinalityType

-----------------------------------------------------------------------------
(* How the two ways of moving on leave the worker.                           *)
LEMMA ContinueFacts ==
    ASSUME TypeOK, NEW w \in Worker, NEW l \in PC, Continue(w, l)
    PROVE  /\ pc' \in [Worker -> PC] /\ pc'[w] = l
           /\ \A v \in Worker \ {w} : pc'[v] = pc[v]
           /\ \A v \in Worker : KeyOf(v)' = KeyOf(v) /\ stamp'[v] = stamp[v]
  BY DEF Continue, TypeOK, KeyOf

LEMMA PassFacts ==
    ASSUME TypeOK, NEW w \in Worker, Pass(w)
    PROVE  /\ pc' \in [Worker -> PC] /\ pc'[w] \in {"trim", "idle"}
           /\ caller' = caller /\ pos' \in [Worker -> Nat \ {0}]
           /\ \A v \in Worker : pos'[v] <= Len(Route[caller'[v]])
           /\ stamp' \in [Worker -> Time] /\ stamp'[w] \in {stamp[w], now}
           /\ pc'[w] = "trim" => stamp'[w] = now
           /\ \A v \in Worker \ {w} :
                 pc'[v] = pc[v] /\ stamp'[v] = stamp[v] /\ KeyOf(v)' = KeyOf(v)
  <1>1. Len(Route[caller[w]]) \in Nat
    BY KeyFacts
  <1>2. CASE pos[w] < Len(Route[caller[w]])
    <2>1. pos[w] + 1 \in Nat \ {0} /\ pos[w] + 1 <= Len(Route[caller[w]])
      BY <1>1, <1>2, KeyFacts
    <2>2. /\ pc' = [pc EXCEPT ![w] = "trim"] /\ pos' = [pos EXCEPT ![w] = @ + 1]
          /\ stamp' = [stamp EXCEPT ![w] = now] /\ caller' = caller
      BY <1>2 DEF Pass
    <2>3. QED
      BY <2>1, <2>2 DEF TypeOK, PC, KeyOf
  <1>3. CASE ~(pos[w] < Len(Route[caller[w]]))
    <2>1. /\ pc' = [pc EXCEPT ![w] = "idle"] /\ UNCHANGED <<pos, stamp, caller>>
      BY <1>3 DEF Pass
    <2>2. QED
      BY <2>1 DEF TypeOK, PC, KeyOf
  <1>4. QED
    BY <1>2, <1>3

LEMMA WaitFacts ==
    ASSUME TypeOK, NEW w \in Worker
    PROVE  WaitSeconds(w) \in Nat \ {0}
  <1> DEFINE k == KeyOf(w)
             oldest == CHOOSE e \in zset[k] : \A f \in zset[k] : e <= f
             left == (oldest + Window[k] - stamp[w]) \div TicksPerSecond
  <1>1. k \in Key /\ Window[k] \in Nat /\ stamp[w] \in Nat /\ zset[k] \in SUBSET Nat
        /\ TicksPerSecond \in Nat \ {0} /\ TicksPerSecond <= Window[k]
    BY KeyFacts, TimeAssumption DEF Time
  <1>2. CASE zset[k] = {}
    <2>1. Window[k] \div TicksPerSecond \in Nat \ {0}
      BY <1>1
    <2>2. QED
      BY <1>2, <2>1 DEF WaitSeconds
  <1>3. CASE zset[k] # {}
    <2>1. oldest \in zset[k]
      BY <1>1, <1>3, MinExists
    <2>2. oldest \in Nat
      BY <1>1, <2>1
    <2>3. left \in Int
      <3> DEFINE ahead == oldest + Window[k] - stamp[w]
      <3>1. ahead \in Int
        BY <1>1, <2>2
      <3> HIDE DEF ahead
      <3>2. ahead \div TicksPerSecond \in Int
        BY <1>1, <3>1
      <3>3. QED
        BY <3>2 DEF ahead
    <2>4. WaitSeconds(w) = LongerOf(1, left)
      BY <1>3 DEF WaitSeconds
    <2> HIDE DEF left
    <2>5. QED
      BY <2>3, <2>4 DEF LongerOf
  <1>4. QED
    BY <1>2, <1>3

-----------------------------------------------------------------------------
LEMMA TypeStep == TypeOK /\ [Next]_vars => TypeOK'
  <1> SUFFICES ASSUME TypeOK, [Next]_vars PROVE TypeOK'
    OBVIOUS
  <1>0. \A w \in Worker : /\ KeyOf(w) \in Key /\ stamp[w] \in Time /\ now \in Time
                          /\ now + Window[KeyOf(w)] + Slack[KeyOf(w)] \in Nat
    BY KeyFacts, TimeAssumption DEF TypeOK
  <1>1. ASSUME NEW w \in Worker, NEW c \in Caller, Arrive(w, c) PROVE TypeOK'
    <2>1. Route[c] \in Seq(Key) /\ Route[c] # <<>>
      BY RouteAssumption
    <2>2. 1 \in Nat \ {0} /\ 1 <= Len(Route[c])
      BY <2>1
    <2>3. QED
      BY <1>1, <2>2 DEF Arrive, TypeOK, PC
  <1>2. ASSUME NEW w \in Worker, Trim(w) PROVE TypeOK'
    <2>1. pc' \in [Worker -> PC]
      BY <1>2, ContinueFacts DEF Trim, PC
    <2>2. Within(zset[KeyOf(w)], stamp[w], Window[KeyOf(w)]) \in SUBSET Time
      BY <1>0, KeyFacts DEF Within
    <2>3. zset' \in [Key -> SUBSET Time] /\ ttl' \in [Key -> Nat]
      BY <1>2, <2>2 DEF Trim, Store, TypeOK
    <2>4. QED
      BY <1>2, <2>1, <2>3 DEF Trim, Continue, TypeOK
  <1>3. ASSUME NEW w \in Worker, Count(w) PROVE TypeOK'
    <2>1. pc' \in [Worker -> PC]
      BY <1>3 DEF Count, Continue, TypeOK, PC
    <2>2. QED
      BY <1>3, <2>1 DEF Count, Continue, TypeOK
  <1>4. ASSUME NEW w \in Worker, Deny(w) PROVE TypeOK'
    <2>1. pc' \in [Worker -> PC]
      BY <1>4 DEF Deny, Continue, TypeOK, PC
    <2>2. [at |-> stamp[w], wait |-> WaitSeconds(w)] \in [at : Time, wait : Nat \ {0}]
      BY <1>0, WaitFacts
    <2>3. denial' \in [Key -> [at : Time, wait : Nat \ {0}]]
      BY <1>4, <2>2 DEF Deny, TypeOK
    <2>4. QED
      BY <1>4, <2>1, <2>3 DEF Deny, Continue, TypeOK
  <1>5. ASSUME NEW w \in Worker, Add(w) PROVE TypeOK'
    <2>1. pc' \in [Worker -> PC]
      BY <1>5 DEF Add, Continue, TypeOK, PC
    <2>2. zset' \in [Key -> SUBSET Time] /\ granted' \in [Key -> SUBSET Time]
      BY <1>0, <1>5 DEF Add, TypeOK
    <2>3. QED
      BY <1>5, <2>1, <2>2 DEF Add, Continue, TypeOK
  <1>6. ASSUME NEW w \in Worker, Expire(w) PROVE TypeOK'
    <2>1. ttl' \in [Key -> Nat]
      BY <1>0, <1>6 DEF Expire, TypeOK
    <2>2. Pass(w)
      BY <1>6 DEF Expire
    <2>3. QED
      BY <1>6, <2>1, <2>2, PassFacts DEF Expire, TypeOK
  <1>7. ASSUME NEW w \in Worker, RedisFails(w) PROVE TypeOK'
    <2>1. zset' \in [Key -> SUBSET Time] /\ granted' \in [Key -> SUBSET Time]
      <3>1. CASE UNCHANGED <<zset, granted>>
        BY <3>1 DEF TypeOK
      <3>2. CASE /\ zset' = [zset EXCEPT ![KeyOf(w)] = @ \cup {stamp[w]}]
                 /\ granted' = [granted EXCEPT ![KeyOf(w)] = @ \cup {stamp[w]}]
        BY <1>0, <3>2 DEF TypeOK
      <3>3. QED
        BY <1>7, <3>1, <3>2 DEF RedisFails
    <2>2. torn' \subseteq Key
      BY <1>0, <1>7 DEF RedisFails, TypeOK
    <2>3. Pass(w)
      BY <1>7 DEF RedisFails
    <2>4. QED
      BY <1>7, <2>1, <2>2, <2>3, PassFacts DEF RedisFails, TypeOK
  <1>8. CASE Tick
    <2>1. now' \in Time
      BY <1>8, TimeAssumption DEF Tick, TypeOK, Time
    <2>2. zset' \in [Key -> SUBSET Time] /\ ttl' \in [Key -> Nat]
      BY <1>8 DEF Tick, TypeOK
    <2>3. torn' \subseteq Key
      BY <1>0, <1>8 DEF Tick, TypeOK
    <2>4. QED
      BY <1>8, <2>1, <2>2, <2>3 DEF Tick, TypeOK, workerVars
  <1>9. CASE UNCHANGED vars
    BY <1>9 DEF vars, TypeOK
  <1>10. QED
    BY <1>1, <1>2, <1>3, <1>4, <1>5, <1>6, <1>7, <1>8, <1>9 DEF Next, Step

LEMMA InitTyped == Init => TypeOK
  <1> SUFFICES ASSUME Init PROVE TypeOK
    OBVIOUS
  <1>1. \A w \in Worker : Route[caller[w]] \in Seq(Key) /\ Route[caller[w]] # <<>>
    BY RouteAssumption DEF Init
  <1>2. \A w \in Worker : 1 <= Len(Route[caller[w]])
    BY <1>1
  <1>3. now \in Time
    BY TimeAssumption DEF Init, Time
  <1>4. 0 \in Time /\ 0 \in Nat /\ 1 \in Nat \ {0}
    BY TimeAssumption DEF Time
  <1> HIDE DEF Time
  <1>5. denial \in [Key -> [at : Time, wait : Nat \ {0}]]
    BY <1>4 DEF Init
  <1>6. QED
    BY <1>2, <1>3, <1>4, <1>5 DEF Init, TypeOK, PC

\* The limiter's state is well typed; in particular the position in a route never
\* leaves it.
THEOREM TypeCorrect == Spec => []TypeOK
  BY InitTyped, TypeStep, PTL DEF Spec

-----------------------------------------------------------------------------
(* Time: a check in progress is not older than MaxStall, and no stamp lies   *)
(* in the future; what Redis holds was granted.                              *)
StallInv ==
    \A w \in Worker : stamp[w] <= now /\ (pc[w] # "idle" => now <= stamp[w] + MaxStall)

RecordInv ==
    \A k \in Key : zset[k] \subseteq granted[k] /\ \A s \in granted[k] : s <= now

TimeInv == TypeOK /\ StallInv /\ RecordInv

LEMMA TimeStep == TimeInv /\ [Next]_vars => TimeInv'
  <1> SUFFICES ASSUME TimeInv, [Next]_vars PROVE StallInv' /\ RecordInv'
    BY TypeStep DEF TimeInv
  <1>0. /\ TypeOK /\ now \in Nat /\ MaxStall \in Nat
        /\ \A w \in Worker : KeyOf(w) \in Key /\ stamp[w] \in Nat /\ stamp[w] <= now
    BY KeyFacts, TimeAssumption DEF TimeInv, StallInv, TypeOK, Time
  <1>1. ASSUME NEW w \in Worker, NEW c \in Caller, Arrive(w, c)
        PROVE  StallInv' /\ RecordInv'
    BY <1>0, <1>1 DEF Arrive, TimeInv, StallInv, RecordInv, TypeOK
  <1>2. ASSUME NEW w \in Worker, NEW l \in PC, pc[w] # "idle", Continue(w, l),
               now' = now
        PROVE  StallInv'
    BY <1>0, <1>2, ContinueFacts DEF TimeInv, StallInv
  <1>3. ASSUME NEW w \in Worker, Pass(w), now' = now
        PROVE  StallInv'
    <2>1. \A v \in Worker \ {w} : pc'[v] = pc[v] /\ stamp'[v] = stamp[v]
      BY <1>0, <1>3, PassFacts
    <2>2. /\ stamp'[w] \in {stamp[w], now} /\ pc'[w] \in {"trim", "idle"}
          /\ pc'[w] = "trim" => stamp'[w] = now
      BY <1>0, <1>3, PassFacts
    <2>3. QED
      BY <1>0, <1>3, <2>1, <2>2 DEF TimeInv, StallInv
  <1>4. ASSUME NEW w \in Worker, Trim(w) PROVE StallInv' /\ RecordInv'
    <2>1. StallInv'
      BY <1>2, <1>4 DEF Trim, PC
    <2>2. RecordInv'
      BY <1>0, <1>4 DEF Trim, Store, Within, TimeInv, RecordInv, TypeOK
    <2>3. QED
      BY <2>1, <2>2
  <1>5. ASSUME NEW w \in Worker, Count(w) PROVE StallInv' /\ RecordInv'
    BY <1>2, <1>5 DEF Count, PC, TimeInv, RecordInv
  <1>6. ASSUME NEW w \in Worker, Deny(w) PROVE StallInv' /\ RecordInv'
    BY <1>2, <1>6 DEF Deny, PC, TimeInv, RecordInv
  <1>7. ASSUME NEW w \in Worker, Add(w) PROVE StallInv' /\ RecordInv'
    <2>1. StallInv'
      BY <1>2, <1>7 DEF Add, PC
    <2>2. RecordInv'
      BY <1>0, <1>7 DEF Add, TimeInv, RecordInv, TypeOK
    <2>3. QED
      BY <2>1, <2>2
  <1>8. ASSUME NEW w \in Worker, Expire(w) PROVE StallInv' /\ RecordInv'
    BY <1>3, <1>8 DEF Expire, TimeInv, RecordInv
  <1>9. ASSUME NEW w \in Worker, RedisFails(w) PROVE StallInv' /\ RecordInv'
    <2>1. StallInv'
      BY <1>3, <1>9 DEF RedisFails
    <2>2. CASE UNCHANGED <<zset, granted>>
      BY <1>9, <2>1, <2>2 DEF RedisFails, TimeInv, RecordInv
    <2>3. CASE /\ zset' = [zset EXCEPT ![KeyOf(w)] = @ \cup {stamp[w]}]
               /\ granted' = [granted EXCEPT ![KeyOf(w)] = @ \cup {stamp[w]}]
      BY <1>0, <1>9, <2>1, <2>3 DEF RedisFails, TimeInv, RecordInv, TypeOK
    <2>4. QED
      BY <1>9, <2>2, <2>3 DEF RedisFails
  <1>10. CASE Tick
    <2>1. /\ now' = now + 1 /\ UNCHANGED <<pc, stamp, granted>>
          /\ \A w \in Worker : pc[w] # "idle" => now - stamp[w] < MaxStall
          /\ \A k \in Key : zset'[k] \subseteq zset[k]
      BY <1>10 DEF Tick, workerVars
    <2>2. StallInv'
      BY <1>0, <2>1 DEF TimeInv, StallInv
    <2>3. RecordInv'
      <3>1. \A k \in Key : \A s \in granted[k] : s \in Nat
        BY DEF TimeInv, TypeOK, Time
      <3>2. QED
        BY <1>0, <2>1, <3>1 DEF TimeInv, RecordInv
    <2>4. QED
      BY <2>2, <2>3
  <1>11. CASE UNCHANGED vars
    BY <1>11 DEF vars, TimeInv, StallInv, RecordInv
  <1>12. QED
    BY <1>1, <1>4, <1>5, <1>6, <1>7, <1>8, <1>9, <1>10, <1>11 DEF Next, Step

-----------------------------------------------------------------------------
(* Why a denial has a cause: once trimmed, a set holds nothing outside the   *)
(* window of the check under way, and a check that joins is not that old.    *)
TrimmedInv ==
    \A w \in Worker :
        pc[w] = "count" => \A e \in zset[KeyOf(w)] : e > stamp[w] - Window[KeyOf(w)]

CauseInv == TrimmedInv /\ DenialHasCause

\* More grants never take a denial's cause away.
LEMMA CauseGrows ==
    ASSUME TimeInv, NEW S \in SUBSET Time, NEW T \in SUBSET Time, S \subseteq T,
           NEW t \in Nat, NEW n \in Nat
    PROVE  Cardinality(Within(S, t, n)) <= Cardinality(Within(T, t, n))
  <1>1. Within(S, t, n) \subseteq Within(T, t, n) /\ Within(T, t, n) \in SUBSET Time
    BY DEF Within
  <1>2. QED
    BY <1>1, FiniteStamps, FS_Subset

\* A step of worker w that takes no entry into view of a check under way, and
\* no grant away.
LEMMA CauseKept ==
    ASSUME TimeInv, TimeInv', CauseInv, NEW w \in Worker,
           pc'[w] \notin {"count", "oldest"},
           \A v \in Worker \ {w} :
              pc'[v] = pc[v] /\ stamp'[v] = stamp[v] /\ KeyOf(v)' = KeyOf(v),
           \A k \in Key : /\ granted[k] \subseteq granted'[k]
                         /\ \A e \in zset'[k] : e \in zset[k] \/ e >= now - MaxStall
    PROVE  CauseInv'
  <1>1. ASSUME NEW v \in Worker, pc'[v] = "count", NEW e \in zset'[KeyOf(v)']
        PROVE  e > stamp'[v] - Window[KeyOf(v)']
    <2>1. /\ v # w /\ pc[v] = "count" /\ KeyOf(v)' = KeyOf(v) /\ stamp'[v] = stamp[v]
          /\ KeyOf(v) \in Key
      BY <1>1, KeyFacts DEF TimeInv
    <2>2. CASE e \in zset[KeyOf(v)]
      BY <2>1, <2>2 DEF CauseInv, TrimmedInv
    <2>3. CASE e >= now - MaxStall
      <3>1. /\ stamp[v] \in Nat /\ now \in Nat /\ stamp[v] <= now /\ MaxStall \in Nat
            /\ Window[KeyOf(v)] \in Nat /\ MaxStall < Window[KeyOf(v)]
        BY <2>1, KeyFacts, TimeAssumption DEF TimeInv, StallInv
      <3>2. e \in Nat
        BY <1>1, <2>1 DEF TimeInv, TypeOK, Time
      <3>3. QED
        BY <2>1, <2>3, <3>1, <3>2
    <2>4. QED
      BY <1>1, <2>1, <2>2, <2>3
  <1>2. ASSUME NEW v \in Worker, pc'[v] = "oldest"
        PROVE  Cardinality(Within(granted'[KeyOf(v)'], stamp'[v], Window[KeyOf(v)']))
                 >= Limit[KeyOf(v)']
    <2> DEFINE k == KeyOf(v)
               old == Within(granted[k], stamp[v], Window[k])
               new == Within(granted'[k], stamp[v], Window[k])
    <2>1. /\ pc[v] = "oldest" /\ KeyOf(v)' = k /\ stamp'[v] = stamp[v]
          /\ k \in Key /\ stamp[v] \in Nat /\ Window[k] \in Nat /\ Limit[k] \in Nat
      BY <1>2, KeyFacts DEF TimeInv
    <2>2. Cardinality(old) >= Limit[k]
      BY <2>1 DEF CauseInv, DenialHasCause
    <2>3. granted[k] \in SUBSET Time /\ granted'[k] \in SUBSET Time
      BY <2>1 DEF TimeInv, TypeOK
    <2>4. Cardinality(old) <= Cardinality(new)
      BY <2>1, <2>3, CauseGrows
    <2>5. Cardinality(old) \in Nat /\ Cardinality(new) \in Nat
      BY <2>3, FiniteStamps DEF Within
    <2> HIDE DEF old, new
    <2>6. Cardinality(new) >= Limit[k]
      BY <2>1, <2>2, <2>4, <2>5
    <2>7. QED
      BY <2>1, <2>6 DEF new
  <1>3. QED
    BY <1>1, <1>2 DEF CauseInv, TrimmedInv, DenialHasCause

LEMMA CauseStep == TimeInv /\ TimeInv' /\ CauseInv /\ [Next]_vars => CauseInv'
  <1> SUFFICES ASSUME TimeInv, TimeInv', CauseInv, [Next]_vars PROVE CauseInv'
    OBVIOUS
  <1>0. /\ TypeOK
        /\ \A w \in Worker : pc[w] # "idle" => stamp[w] >= now - MaxStall
    <2>1. \A w \in Worker : stamp[w] \in Nat /\ now \in Nat /\ MaxStall \in Nat
      BY KeyFacts DEF TimeInv
    <2>2. QED
      BY <2>1 DEF TimeInv, StallInv
  <1>1. ASSUME NEW w \in Worker, NEW c \in Caller, Arrive(w, c) PROVE CauseInv'
    <2>1. /\ pc'[w] = "trim"
          /\ \A v \in Worker \ {w} :
                pc'[v] = pc[v] /\ stamp'[v] = stamp[v] /\ KeyOf(v)' = KeyOf(v)
      BY <1>0, <1>1 DEF Arrive, TypeOK, KeyOf
    <2>2. UNCHANGED <<zset, granted>>
      BY <1>1 DEF Arrive
    <2>3. QED
      BY <2>1, <2>2, CauseKept
  <1>2. ASSUME NEW w \in Worker, Trim(w) PROVE CauseInv'
    <2> DEFINE k == KeyOf(w)
    <2>1. /\ pc'[w] = "count" /\ \A v \in Worker \ {w} : pc'[v] = pc[v]
          /\ \A v \in Worker : KeyOf(v)' = KeyOf(v) /\ stamp'[v] = stamp[v]
      BY <1>0, <1>2, ContinueFacts DEF Trim, PC
    <2>2. /\ k \in Key /\ granted' = granted
          /\ zset' = [zset EXCEPT ![k] = Within(zset[k], stamp[w], Window[k])]
      BY <1>0, <1>2, KeyFacts DEF Trim, Store
    <2>3. /\ \A e \in zset'[k] : e > stamp[w] - Window[k]
          /\ \A l \in Key : zset'[l] \subseteq zset[l]
      BY <1>0, <2>2 DEF Within, TypeOK
    <2>4. TrimmedInv'
      <3>1. ASSUME NEW v \in Worker, pc'[v] = "count"
            PROVE  \A e \in zset'[KeyOf(v)'] : e > stamp'[v] - Window[KeyOf(v)']
        <4>1. CASE v = w
          BY <2>1, <2>3, <4>1
        <4>2. CASE v # w
          <5>1. pc[v] = "count" /\ KeyOf(v) \in Key
            BY <1>0, <2>1, <3>1, <4>2, KeyFacts
          <5>2. QED
            BY <2>1, <2>3, <5>1 DEF CauseInv, TrimmedInv
        <4>3. QED
          BY <4>1, <4>2
      <3>2. QED
        BY <3>1 DEF TrimmedInv
    <2>5. DenialHasCause'
      BY <2>1, <2>2 DEF CauseInv, DenialHasCause
    <2>6. QED
      BY <2>4, <2>5 DEF CauseInv
  <1>3. ASSUME NEW w \in Worker, Count(w) PROVE CauseInv'
    <2> DEFINE k == KeyOf(w)
               seen == Within(granted[k], stamp[w], Window[k])
    <2>1. /\ pc[w] = "count" /\ UNCHANGED <<zset, granted>> /\ k \in Key
          /\ Limit[k] \in Nat
      BY <1>0, <1>3, KeyFacts DEF Count
    <2>2. /\ pc'[w] = IF Cardinality(zset[k]) >= Limit[k] THEN "oldest" ELSE "add"
          /\ \A v \in Worker \ {w} : pc'[v] = pc[v]
          /\ \A v \in Worker : KeyOf(v)' = KeyOf(v) /\ stamp'[v] = stamp[v]
      BY <1>0, <1>3, ContinueFacts DEF Count, PC
    <2>3. TrimmedInv'
      BY <2>1, <2>2 DEF CauseInv, TrimmedInv
    <2>4. zset[k] \subseteq seen
      BY <2>1 DEF CauseInv, TrimmedInv, TimeInv, RecordInv, Within
    <2>5. granted[k] \in SUBSET Time /\ zset[k] \in SUBSET Time
      BY <1>0, <2>1 DEF TypeOK
    <2>6. seen \in SUBSET Time
      BY <2>5 DEF Within
    <2>7. /\ Cardinality(zset[k]) <= Cardinality(seen)
          /\ Cardinality(zset[k]) \in Nat /\ Cardinality(seen) \in Nat
      BY <2>4, <2>5, <2>6, FiniteStamps, FS_Subset
    <2> HIDE DEF seen
    <2>8. pc'[w] = "oldest" => Cardinality(seen) >= Limit[k]
      BY <2>1, <2>2, <2>7
    <2>9. DenialHasCause'
      BY <2>1, <2>2, <2>8 DEF CauseInv, DenialHasCause, seen
    <2>10. QED
      BY <2>3, <2>9 DEF CauseInv
  <1>4. ASSUME NEW w \in Worker, Deny(w) PROVE CauseInv'
    <2>1. Continue(w, "idle") /\ UNCHANGED <<zset, granted>>
      BY <1>4 DEF Deny
    <2>2. QED
      BY <1>0, <2>1, ContinueFacts, CauseKept DEF PC
  <1>5. ASSUME NEW w \in Worker, KeyOf(w) \in Key, pc[w] # "idle",
               zset' = [zset EXCEPT ![KeyOf(w)] = @ \cup {stamp[w]}],
               granted' = [granted EXCEPT ![KeyOf(w)] = @ \cup {stamp[w]}]
        PROVE  \A k \in Key : /\ granted[k] \subseteq granted'[k]
                             /\ \A e \in zset'[k] : e \in zset[k] \/ e >= now - MaxStall
    BY <1>0, <1>5 DEF TypeOK
  <1>6. ASSUME NEW w \in Worker, Add(w) PROVE CauseInv'
    <2>1. Continue(w, "expire") /\ KeyOf(w) \in Key
      BY <1>0, <1>6, KeyFacts DEF Add
    <2>2. QED
      BY <1>0, <1>5, <1>6, <2>1, ContinueFacts, CauseKept DEF Add, PC
  <1>7. ASSUME NEW w \in Worker, Expire(w) PROVE CauseInv'
    BY <1>0, <1>7, PassFacts, CauseKept DEF Expire
  <1>8. ASSUME NEW w \in Worker, RedisFails(w) PROVE CauseInv'
    <2>1. Pass(w) /\ KeyOf(w) \in Key
      BY <1>0, <1>8, KeyFacts DEF RedisFails
    <2>2. \A k \in Key : /\ granted[k] \subseteq granted'[k]
                        /\ \A e \in zset'[k] : e \in zset[k] \/ e >= now - MaxStall
      BY <1>5, <1>8, <2>1 DEF RedisFails
    <2>3. QED
      BY <1>0, <2>1, <2>2, PassFacts, CauseKept
  <1>9. CASE Tick
    <2>1. /\ UNCHANGED <<pc, stamp, caller, pos, granted>>
          /\ \A k \in Key : zset'[k] \subseteq zset[k]
      BY <1>9 DEF Tick, workerVars
    <2>2. \A v \in Worker : KeyOf(v)' = KeyOf(v) /\ KeyOf(v) \in Key
      BY <1>0, <2>1, KeyFacts DEF KeyOf
    <2>3. TrimmedInv'
      BY <2>1, <2>2 DEF CauseInv, TrimmedInv
    <2>4. DenialHasCause'
      BY <2>1, <2>2 DEF CauseInv, DenialHasCause
    <2>5. QED
      BY <2>3, <2>4 DEF CauseInv
  <1>10. CASE UNCHANGED vars
    BY <1>10 DEF vars, CauseInv, TrimmedInv, DenialHasCause, KeyOf
  <1>11. QED
    BY <1>1, <1>2, <1>3, <1>4, <1>6, <1>7, <1>8, <1>9, <1>10 DEF Next, Step

-----------------------------------------------------------------------------
(* Why the bound holds: unless an entry of the key was torn, whatever was    *)
(* granted within its window is still in the set to be counted.              *)
KeptInv ==
    \A k \in Key \ torn : \A s \in granted[k] : s > now - Window[k] => s \in zset[k]

LastsInv == ExpiryLosesNothing /\ KeptInv

\* A worker that goes through, or is not at "expire", guards nobody's entry but
\* those of its own key.
LEMMA LastsKept ==
    ASSUME TimeInv, LastsInv, NEW w \in Worker, now' = now, ttl' = ttl,
           UNCHANGED <<zset, granted>>, torn \subseteq torn',
           pc[w] # "expire" \/ KeyOf(w) \in torn',
           \A v \in Worker \ {w} :
              pc'[v] = pc[v] /\ stamp'[v] = stamp[v] /\ KeyOf(v)' = KeyOf(v)
    PROVE  LastsInv'
  <1>1. ExpiryLosesNothing'
    BY DEF LastsInv, ExpiryLosesNothing
  <1>2. KeptInv'
    BY DEF LastsInv, KeptInv
  <1>3. QED
    BY <1>1, <1>2 DEF LastsInv

LEMMA LastsStep == TimeInv /\ LastsInv /\ [Next]_vars => LastsInv'
  <1> SUFFICES ASSUME TimeInv, LastsInv, [Next]_vars PROVE LastsInv'
    OBVIOUS
  <1>0. /\ TypeOK /\ now \in Nat
        /\ \A k \in Key : /\ Window[k] \in Nat /\ Slack[k] \in Nat
                          /\ \A e \in zset[k] \cup granted[k] : e \in Nat /\ e <= now
        /\ \A w \in Worker : KeyOf(w) \in Key /\ stamp[w] \in Nat /\ stamp[w] <= now
    <2>1. TypeOK /\ now \in Nat
      BY DEF TimeInv, TypeOK, Time
    <2>2. \A k \in Key : \A e \in zset[k] \cup granted[k] : e \in Nat /\ e <= now
      BY <2>1 DEF TimeInv, RecordInv, TypeOK, Time
    <2>3. \A w \in Worker : KeyOf(w) \in Key /\ stamp[w] \in Nat /\ stamp[w] <= now
      BY <2>1, KeyFacts DEF TimeInv, StallInv
    <2>4. QED
      BY <2>1, <2>2, <2>3, TimeAssumption
  <1>1. ASSUME NEW w \in Worker, NEW c \in Caller, Arrive(w, c) PROVE LastsInv'
    <2>1. /\ pc[w] # "expire"
          /\ \A v \in Worker \ {w} :
                pc'[v] = pc[v] /\ stamp'[v] = stamp[v] /\ KeyOf(v)' = KeyOf(v)
      BY <1>0, <1>1 DEF Arrive, TypeOK, KeyOf
    <2>2. QED
      BY <1>1, <2>1, LastsKept DEF Arrive
  <1>2. ASSUME NEW w \in Worker, Trim(w) PROVE LastsInv'
    <2> DEFINE k == KeyOf(w)
    <2>1. /\ pc[w] = "trim" /\ pc'[w] = "count" /\ \A v \in Worker \ {w} : pc'[v] = pc[v]
          /\ \A v \in Worker : KeyOf(v)' = KeyOf(v) /\ stamp'[v] = stamp[v]
      BY <1>0, <1>2, ContinueFacts DEF Trim, PC
    <2>2. /\ k \in Key /\ UNCHANGED <<now, granted, torn>>
          /\ zset' = [zset EXCEPT ![k] = Within(zset[k], stamp[w], Window[k])]
          /\ \A l \in Key : zset'[l] # {} => ttl'[l] = ttl[l]
      BY <1>0, <1>2 DEF Trim, Store, TypeOK
    <2>3. /\ \A l \in Key : zset'[l] \subseteq zset[l]
          /\ \A l \in Key : \A s \in zset[l] : s > now - Window[l] => s \in zset'[l]
      <3>1. \A s \in zset[k] : s > now - Window[k] => s > stamp[w] - Window[k]
        BY <1>0, <2>2
      <3>2. QED
        BY <1>0, <2>2, <3>1 DEF Within, TypeOK
    <2>4. ExpiryLosesNothing'
      BY <2>1, <2>2, <2>3 DEF LastsInv, ExpiryLosesNothing
    <2>5. KeptInv'
      BY <2>2, <2>3 DEF LastsInv, KeptInv
    <2>6. QED
      BY <2>4, <2>5 DEF LastsInv
  <1>3. ASSUME NEW w \in Worker, Count(w) PROVE LastsInv'
    <2>1. \A v \in Worker \ {w} :
             pc'[v] = pc[v] /\ stamp'[v] = stamp[v] /\ KeyOf(v)' = KeyOf(v)
      BY <1>0, <1>3, ContinueFacts DEF Count, PC
    <2>2. QED
      BY <1>3, <2>1, LastsKept DEF Count
  <1>4. ASSUME NEW w \in Worker, Deny(w) PROVE LastsInv'
    <2>1. \A v \in Worker \ {w} :
             pc'[v] = pc[v] /\ stamp'[v] = stamp[v] /\ KeyOf(v)' = KeyOf(v)
      BY <1>0, <1>4, ContinueFacts DEF Deny, PC
    <2>2. QED
      BY <1>4, <2>1, LastsKept DEF Deny
  <1>5. ASSUME NEW w \in Worker,
               zset' = [zset EXCEPT ![KeyOf(w)] = @ \cup {stamp[w]}],
               granted' = [granted EXCEPT ![KeyOf(w)] = @ \cup {stamp[w]}]
        PROVE  /\ \A k \in Key : \A e \in zset'[k] :
                      e \in zset[k] \/ (k = KeyOf(w) /\ e = stamp[w])
               /\ \A k \in Key : \A s \in granted'[k] : s \in granted[k] \/ s \in zset'[k]
               /\ \A k \in Key : zset[k] \subseteq zset'[k]
    BY <1>0, <1>5 DEF TypeOK
  <1>6. ASSUME NEW w \in Worker, Add(w) PROVE LastsInv'
    <2>1. /\ pc[w] = "add" /\ pc'[w] = "expire" /\ \A v \in Worker \ {w} : pc'[v] = pc[v]
          /\ \A v \in Worker : KeyOf(v)' = KeyOf(v) /\ stamp'[v] = stamp[v]
      BY <1>0, <1>6, ContinueFacts DEF Add, PC
    <2>2. UNCHANGED <<now, ttl, torn>>
      BY <1>6 DEF Add
    <2>3. ExpiryLosesNothing'
      BY <1>5, <1>6, <2>1, <2>2 DEF Add, LastsInv, ExpiryLosesNothing
    <2>4. KeptInv'
      BY <1>5, <1>6, <2>2 DEF Add, LastsInv, KeptInv
    <2>5. QED
      BY <2>3, <2>4 DEF LastsInv
  <1>7. ASSUME NEW w \in Worker, Expire(w) PROVE LastsInv'
    <2> DEFINE k == KeyOf(w)
    <2>1. \A v \in Worker \ {w} :
             pc'[v] = pc[v] /\ stamp'[v] = stamp[v] /\ KeyOf(v)' = KeyOf(v)
      BY <1>0, <1>7, PassFacts DEF Expire
    <2>2. UNCHANGED <<now, zset, granted, torn>>
      BY <1>7 DEF Expire
    <2>3. \A e \in zset[k] : ttl'[k] >= e + Window[k]
      <3>1. SUFFICES ASSUME NEW e \in zset[k] PROVE ttl'[k] >= e + Window[k]
        OBVIOUS
      <3>2. ttl'[k] = now + Window[k] + Slack[k]
        BY <1>0, <1>7, <3>1 DEF Expire, TypeOK
      <3>3. e \in Nat /\ e <= now /\ Window[k] \in Nat /\ Slack[k] \in Nat
        BY <1>0
      <3>4. QED
        BY <1>0, <3>2, <3>3
    <2>4. \A l \in Key \ {k} : ttl'[l] = ttl[l]
      BY <1>7 DEF Expire
    <2>5. ExpiryLosesNothing'
      <3>1. SUFFICES ASSUME NEW l \in Key \ torn, NEW e \in zset[l]
                     PROVE  \/ ttl'[l] >= e + Window[l]
                            \/ \E v \in Worker : /\ pc'[v] = "expire" /\ KeyOf(v)' = l
                                                 /\ stamp'[v] = e
        BY <2>2 DEF ExpiryLosesNothing
      <3>2. CASE l = k
        BY <2>3, <3>2
      <3>3. CASE l # k
        <4>1. \/ ttl[l] >= e + Window[l]
              \/ \E v \in Worker : pc[v] = "expire" /\ KeyOf(v) = l /\ stamp[v] = e
          BY DEF LastsInv, ExpiryLosesNothing
        <4>2. QED
          BY <2>1, <2>4, <3>3, <4>1
      <3>4. QED
        BY <3>2, <3>3
    <2>6. KeptInv'
      BY <2>2 DEF LastsInv, KeptInv
    <2>7. QED
      BY <2>5, <2>6 DEF LastsInv
  <1>8. ASSUME NEW w \in Worker, RedisFails(w) PROVE LastsInv'
    <2>1. \A v \in Worker \ {w} :
             pc'[v] = pc[v] /\ stamp'[v] = stamp[v] /\ KeyOf(v)' = KeyOf(v)
      BY <1>0, <1>8, PassFacts DEF RedisFails
    <2>2. /\ UNCHANGED <<now, ttl>> /\ torn \subseteq torn'
          /\ pc[w] \in {"add", "expire"} => KeyOf(w) \in torn'
      BY <1>8 DEF RedisFails
    <2>3. CASE UNCHANGED <<zset, granted>>
      BY <2>1, <2>2, <2>3, LastsKept
    <2>4. CASE /\ pc[w] = "add"
               /\ zset' = [zset EXCEPT ![KeyOf(w)] = @ \cup {stamp[w]}]
               /\ granted' = [granted EXCEPT ![KeyOf(w)] = @ \cup {stamp[w]}]
      <3>1. ExpiryLosesNothing'
        BY <1>5, <2>1, <2>2, <2>4 DEF LastsInv, ExpiryLosesNothing
      <3>2. KeptInv'
        BY <1>5, <2>2, <2>4 DEF LastsInv, KeptInv
      <3>3. QED
        BY <3>1, <3>2 DEF LastsInv
    <2>5. QED
      BY <1>8, <2>3, <2>4 DEF RedisFails
  <1>9. CASE Tick
    <2>1. /\ now' = now + 1 /\ UNCHANGED <<pc, stamp, granted>> /\ torn \subseteq torn'
          /\ \A v \in Worker : KeyOf(v)' = KeyOf(v)
      BY <1>9 DEF Tick, workerVars, KeyOf
    <2>2. ASSUME NEW k \in Key \ torn'
          PROVE  \/ zset'[k] = zset[k] /\ ttl'[k] = ttl[k]
                 \/ zset'[k] = {} /\ \A e \in zset[k] : e <= now' - Window[k]
      <3>1. CASE ttl[k] \notin 1..now'
        BY <1>9, <3>1 DEF Tick
      <3>2. CASE ttl[k] \in 1..now'
        <4>1. zset'[k] = {}
          BY <1>9, <3>2 DEF Tick
        <4>2. ~ \E v \in Worker : pc[v] = "expire" /\ KeyOf(v) = k
          BY <1>9, <2>2, <3>2 DEF Tick
        <4>3. \A e \in zset[k] : ttl[k] >= e + Window[k]
          BY <2>1, <4>2 DEF LastsInv, ExpiryLosesNothing
        <4>4. QED
          BY <1>0, <2>1, <3>2, <4>1, <4>3
      <3>3. QED
        BY <3>1, <3>2
    <2>3. ExpiryLosesNothing'
      BY <2>1, <2>2 DEF LastsInv, ExpiryLosesNothing
    <2>4. KeptInv'
      <3>1. ASSUME NEW k \in Key \ torn', NEW s \in granted[k], s > now' - Window[k]
            PROVE  s \in zset'[k]
        <4>1. s \in Nat /\ Window[k] \in Nat /\ s > now - Window[k]
          BY <1>0, <2>1, <3>1
        <4>2. s \in zset[k]
          BY <2>1, <4>1 DEF LastsInv, KeptInv
        <4>3. ~(s <= now' - Window[k])
          BY <1>0, <2>1, <3>1, <4>1
        <4>4. QED
          BY <2>2, <4>2, <4>3
      <3>2. QED
        BY <2>1, <3>1 DEF KeptInv
    <2>5. QED
      BY <2>3, <2>4 DEF LastsInv
  <1>10. CASE UNCHANGED vars
    BY <1>10 DEF vars, LastsInv, ExpiryLosesNothing, KeptInv, KeyOf
  <1>11. QED
    BY <1>1, <1>2, <1>3, <1>4, <1>6, <1>7, <1>8, <1>9, <1>10 DEF Next, Step

-----------------------------------------------------------------------------
(* The bound itself: the workers that have counted and not yet added are     *)
(* charged to the key while they can still add to the window in question.    *)
Adders(k) == {w \in Worker : pc[w] = "add" /\ KeyOf(w) = k}

Budget(k) == Limit[k] + Cardinality(Worker)

BudgetInv ==
    \A k \in Key \ torn : \A t \in Time :
        /\ now <= t + MaxStall
              => Cardinality(Recent(k, t)) + Cardinality(Adders(k)) < Budget(k)
        /\ Cardinality(Recent(k, t)) < Budget(k)

LEMMA BudgetFacts ==
    ASSUME TypeOK, NEW k \in Key
    PROVE  /\ IsFiniteSet(Adders(k)) /\ Cardinality(Adders(k)) \in Nat
           /\ Cardinality(Adders(k)) <= Cardinality(Worker)
           /\ Cardinality(Worker) \in Nat /\ Limit[k] \in Nat \ {0} /\ Budget(k) \in Nat
           /\ \A t : /\ Recent(k, t) \in SUBSET Time /\ IsFiniteSet(Recent(k, t))
                     /\ Cardinality(Recent(k, t)) \in Nat
  <1>1. Adders(k) \subseteq Worker
    BY DEF Adders
  <1>2. /\ IsFiniteSet(Adders(k)) /\ Cardinality(Adders(k)) \in Nat
        /\ Cardinality(Adders(k)) <= Cardinality(Worker) /\ Cardinality(Worker) \in Nat
    BY <1>1, WorkerAssumption, FS_Subset, FS_CardinalityType
  <1>3. Limit[k] \in Nat \ {0}
    BY RouteAssumption
  <1>4. Budget(k) \in Nat
    BY <1>2, <1>3 DEF Budget
  <1>5. \A t : Recent(k, t) \in SUBSET Time
    BY DEF Recent, TypeOK
  <1>6. QED
    BY <1>2, <1>3, <1>4, <1>5, FiniteStamps

\* A step that grants nothing and makes nobody ready to.
LEMMA BudgetKept ==
    ASSUME TypeOK, TypeOK', BudgetInv, granted' = granted, torn \subseteq torn', now <= now',
           \A w \in Worker : pc'[w] = "add" => pc[w] = "add" /\ KeyOf(w)' = KeyOf(w)
    PROVE  BudgetInv'
  <1>1. SUFFICES ASSUME NEW k \in Key \ torn', NEW t \in Time
                 PROVE  /\ now' <= t + MaxStall
                              => Cardinality(Recent(k, t))' + Cardinality(Adders(k))' < Budget(k)
                        /\ Cardinality(Recent(k, t))' < Budget(k)
    BY DEF BudgetInv, Budget
  <1>2. Recent(k, t)' = Recent(k, t)
    BY DEF Recent
  <1>3. Adders(k)' \subseteq Adders(k)
    BY DEF Adders
  <1>4. Cardinality(Adders(k)') <= Cardinality(Adders(k)) /\ Cardinality(Adders(k)') \in Nat
    BY <1>3, BudgetFacts, FS_Subset, FS_CardinalityType
  <1>5. /\ now <= t + MaxStall
              => Cardinality(Recent(k, t)) + Cardinality(Adders(k)) < Budget(k)
        /\ Cardinality(Recent(k, t)) < Budget(k)
    BY <1>1 DEF BudgetInv
  <1>6. now' <= t + MaxStall => now <= t + MaxStall
    BY TimeAssumption DEF TypeOK, Time
  <1>7. Cardinality(Recent(k, t)) \in Nat /\ Cardinality(Adders(k)) \in Nat /\ Budget(k) \in Nat
    BY BudgetFacts
  <1>8. QED
    BY <1>2, <1>4, <1>5, <1>6, <1>7

\* While a check can still reach window t of the key, the set holds all its grants.
LEMMA RecentIsCounted ==
    ASSUME TimeInv, LastsInv, NEW k \in Key \ torn, NEW t \in Time, now <= t + MaxStall
    PROVE  Cardinality(Recent(k, t)) <= Cardinality(zset[k]) /\ Cardinality(zset[k]) \in Nat
  <1>1. /\ Window[k] \in Nat /\ MaxStall \in Nat /\ t \in Nat /\ now \in Nat
        /\ granted[k] \in SUBSET Nat
    BY TimeAssumption DEF TimeInv, TypeOK, Time
  <1>2. \A s \in granted[k] : t - (Window[k] - MaxStall) < s => s > now - Window[k]
    BY <1>1
  <1>3. Recent(k, t) \subseteq zset[k]
    BY <1>2 DEF Recent, LastsInv, KeptInv
  <1>4. zset[k] \in SUBSET Time
    BY DEF TimeInv, TypeOK
  <1>5. QED
    BY <1>3, <1>4, FiniteStamps, FS_Subset

LEMMA BudgetStep ==
    TimeInv /\ TimeInv' /\ LastsInv /\ BudgetInv /\ [Next]_vars => BudgetInv'
  <1> SUFFICES ASSUME TimeInv, TimeInv', LastsInv, BudgetInv, [Next]_vars PROVE BudgetInv'
    OBVIOUS
  <1>0. TypeOK /\ TypeOK' /\ now \in Nat /\ now <= now
    BY DEF TimeInv, TypeOK, Time
  <1>1. ASSUME NEW w \in Worker, NEW c \in Caller, Arrive(w, c) PROVE BudgetInv'
    <2>1. \A v \in Worker : pc'[v] = "add" => pc[v] = "add" /\ KeyOf(v)' = KeyOf(v)
      BY <1>0, <1>1 DEF Arrive, TypeOK, KeyOf
    <2>2. QED
      BY <1>0, <1>1, <2>1, BudgetKept DEF Arrive
  <1>2. ASSUME NEW w \in Worker, Trim(w) PROVE BudgetInv'
    <2>1. \A v \in Worker : pc'[v] = "add" => pc[v] = "add" /\ KeyOf(v)' = KeyOf(v)
      BY <1>0, <1>2, ContinueFacts DEF Trim, PC
    <2>2. QED
      BY <1>0, <1>2, <2>1, BudgetKept DEF Trim
  <1>3. ASSUME NEW w \in Worker, Count(w) PROVE BudgetInv'
    <2> DEFINE k == KeyOf(w)
    <2>1. /\ pc[w] = "count" /\ UNCHANGED <<now, granted, torn>> /\ k \in Key
          /\ pc'[w] = IF Cardinality(zset[k]) >= Limit[k] THEN "oldest" ELSE "add"
          /\ \A v \in Worker \ {w} : pc'[v] = pc[v]
          /\ \A v \in Worker : KeyOf(v)' = KeyOf(v)
      BY <1>0, <1>3, KeyFacts, ContinueFacts DEF Count, PC
    <2>2. CASE Cardinality(zset[k]) >= Limit[k]
      BY <1>0, <2>1, <2>2, BudgetKept
    <2>3. CASE ~(Cardinality(zset[k]) >= Limit[k])
      <3>1. SUFFICES ASSUME NEW l \in Key \ torn, NEW t \in Time
                     PROVE  /\ now <= t + MaxStall
                                  => Cardinality(Recent(l, t)) + Cardinality(Adders(l)') < Budget(l)
                            /\ Cardinality(Recent(l, t)) < Budget(l)
        BY <2>1 DEF BudgetInv, Budget, Recent
      <3>2. Cardinality(Recent(l, t)) < Budget(l)
        BY DEF BudgetInv
      <3>3. CASE l = k /\ now <= t + MaxStall
        <4>1. Cardinality(Recent(l, t)) <= Cardinality(zset[l]) /\ Cardinality(zset[l]) \in Nat
          BY <3>1, <3>3, RecentIsCounted
        <4>2. Cardinality(Adders(l)') <= Cardinality(Worker) /\ Cardinality(Adders(l)') \in Nat
          <5>1. Adders(l)' \subseteq Worker
            BY DEF Adders
          <5>2. QED
            BY <5>1, WorkerAssumption, FS_Subset, FS_CardinalityType
        <4>3. /\ Cardinality(Worker) \in Nat /\ Limit[l] \in Nat
              /\ Cardinality(Recent(l, t)) \in Nat
          BY <1>0, <2>1, <3>3, BudgetFacts
        <4>4. Cardinality(zset[l]) < Limit[l]
          BY <2>3, <3>3, <4>1, <4>3
        <4>5. Cardinality(Recent(l, t)) + Cardinality(Adders(l)') < Budget(l)
          <5> DEFINE r == Cardinality(Recent(l, t))
                     a == Cardinality(Adders(l)')
                     z == Cardinality(zset[l])
                     n == Cardinality(Worker)
          <5>1. r <= z /\ z < Limit[l] /\ a <= n /\ r \in Nat /\ z \in Nat /\ a \in Nat
                /\ n \in Nat /\ Limit[l] \in Nat
            BY <4>1, <4>2, <4>3, <4>4
          <5> HIDE DEF r, a, z, n
          <5>2. r + a < Limit[l] + n
            BY <5>1
          <5>3. QED
            BY <5>2 DEF r, a, n, Budget
        <4>6. QED
          BY <3>2, <3>3, <4>5
      <3>4. CASE l # k
        <4>1. Adders(l)' = Adders(l)
          BY <2>1, <3>4 DEF Adders
        <4>2. QED
          BY <3>1, <4>1 DEF BudgetInv
      <3>5. CASE ~(now <= t + MaxStall)
        BY <3>2, <3>5
      <3>6. QED
        BY <3>2, <3>3, <3>4, <3>5
    <2>4. QED
      BY <2>2, <2>3
  <1>4. ASSUME NEW w \in Worker, Deny(w) PROVE BudgetInv'
    <2>1. \A v \in Worker : pc'[v] = "add" => pc[v] = "add" /\ KeyOf(v)' = KeyOf(v)
      BY <1>0, <1>4, ContinueFacts DEF Deny, PC
    <2>2. QED
      BY <1>0, <1>4, <2>1, BudgetKept DEF Deny
  <1>5. ASSUME NEW w \in Worker, Add(w) PROVE BudgetInv'
    <2> DEFINE k == KeyOf(w)
    <2>1. /\ pc[w] = "add" /\ UNCHANGED <<now, torn>> /\ k \in Key /\ pc'[w] = "expire"
          /\ \A v \in Worker \ {w} : pc'[v] = pc[v]
          /\ \A v \in Worker : KeyOf(v)' = KeyOf(v)
          /\ granted' = [granted EXCEPT ![k] = @ \cup {stamp[w]}]
      BY <1>0, <1>5, KeyFacts, ContinueFacts DEF Add, PC
    <2>2. SUFFICES ASSUME NEW l \in Key \ torn, NEW t \in Time
                   PROVE  /\ now <= t + MaxStall
                                => Cardinality(Recent(l, t)') + Cardinality(Adders(l)') < Budget(l)
                          /\ Cardinality(Recent(l, t)') < Budget(l)
      BY <2>1 DEF BudgetInv, Budget
    <2>3. CASE l = k
      <3>1. Adders(l)' = Adders(l) \ {w} /\ w \in Adders(l)
        BY <2>1, <2>3 DEF Adders
      <3>2. /\ IsFiniteSet(Adders(l)) /\ Cardinality(Adders(l)) \in Nat
            /\ Budget(l) \in Nat
            /\ IsFiniteSet(Recent(l, t)) /\ Cardinality(Recent(l, t)) \in Nat
        BY <1>0, <2>1, <2>3, BudgetFacts
      <3>3. Cardinality(Adders(l)') = Cardinality(Adders(l)) - 1
        BY <3>1, <3>2, FS_RemoveElement
      <3>4. Cardinality(Adders(l)') \in Nat
        BY <3>1, <3>2, FS_RemoveElement, FS_CardinalityType
      <3>5. Recent(l, t)' \subseteq Recent(l, t) \cup {stamp[w]}
        BY <1>0, <2>1, <2>3 DEF Recent, TypeOK
      <3>6. /\ Cardinality(Recent(l, t)') <= Cardinality(Recent(l, t)) + 1
            /\ Cardinality(Recent(l, t)') \in Nat
        <4>1. /\ IsFiniteSet(Recent(l, t) \cup {stamp[w]})
              /\ Cardinality(Recent(l, t) \cup {stamp[w]}) <= Cardinality(Recent(l, t)) + 1
          BY <3>2, FS_AddElement
        <4>2. /\ Cardinality(Recent(l, t)') <= Cardinality(Recent(l, t) \cup {stamp[w]})
              /\ IsFiniteSet(Recent(l, t)')
          BY <3>5, <4>1, FS_Subset
        <4>3. /\ Cardinality(Recent(l, t)') \in Nat
              /\ Cardinality(Recent(l, t) \cup {stamp[w]}) \in Nat
          BY <4>1, <4>2, FS_CardinalityType
        <4>4. QED
          BY <3>2, <4>1, <4>2, <4>3
      <3>7. CASE now <= t + MaxStall
        <4>1. Cardinality(Recent(l, t)) + Cardinality(Adders(l)) < Budget(l)
          BY <2>3, <3>7 DEF BudgetInv
        <4> DEFINE r == Cardinality(Recent(l, t))
                   a == Cardinality(Adders(l))
                   r1 == Cardinality(Recent(l, t)')
                   a1 == Cardinality(Adders(l)')
                   b == Budget(l)
        <4>2. /\ r + a < b /\ r1 <= r + 1 /\ a1 = a - 1 /\ a1 \in Nat /\ a \in Nat
              /\ r \in Nat /\ r1 \in Nat /\ b \in Nat
          BY <3>2, <3>3, <3>4, <3>6, <4>1
        <4> HIDE DEF r, a, r1, a1, b
        <4>3. r1 + a1 < b /\ r1 < b
          BY <4>2
        <4>4. QED
          BY <2>3, <4>3 DEF r1, a1, b
      <3>8. CASE ~(now <= t + MaxStall)
        <4>1. stamp[w] \in Nat /\ t \in Nat /\ MaxStall \in Nat /\ now <= stamp[w] + MaxStall
          BY <1>0, <2>1, KeyFacts DEF TimeInv, StallInv, Time
        <4>2. stamp[w] > t
          BY <1>0, <3>8, <4>1
        <4>3. Recent(l, t)' = Recent(l, t)
          BY <1>0, <2>1, <2>3, <4>1, <4>2 DEF Recent, TypeOK
        <4>4. Cardinality(Recent(l, t)) < Budget(l)
          BY <2>3 DEF BudgetInv
        <4>5. QED
          BY <2>3, <3>8, <4>3, <4>4
      <3>9. QED
        BY <3>7, <3>8
    <2>4. CASE l # k
      <3>1. Adders(l)' = Adders(l) /\ Recent(l, t)' = Recent(l, t)
        BY <1>0, <2>1, <2>4 DEF Adders, Recent, TypeOK
      <3>2. QED
        BY <2>2, <3>1 DEF BudgetInv
    <2>5. QED
      BY <2>3, <2>4
  <1>6. ASSUME NEW w \in Worker, Expire(w) PROVE BudgetInv'
    BY <1>0, <1>6, PassFacts, BudgetKept DEF Expire
  <1>7. ASSUME NEW w \in Worker, RedisFails(w) PROVE BudgetInv'
    <2>1. \A v \in Worker : pc'[v] = "add" => v # w /\ pc[v] = "add" /\ KeyOf(v)' = KeyOf(v)
      BY <1>0, <1>7, PassFacts DEF RedisFails
    <2>2. torn \subseteq torn' /\ now' = now
      BY <1>7 DEF RedisFails
    <2>3. CASE UNCHANGED <<zset, granted>>
      BY <1>0, <2>1, <2>2, <2>3, BudgetKept
    <2>4. CASE /\ pc[w] = "add"
               /\ granted' = [granted EXCEPT ![KeyOf(w)] = @ \cup {stamp[w]}]
      <3>1. KeyOf(w) \in torn'
        BY <1>7, <2>4 DEF RedisFails
      <3>2. \A l \in Key \ torn' : granted'[l] = granted[l] /\ Adders(l)' = Adders(l)
        <4>1. \A l \in Key \ torn' : granted'[l] = granted[l] /\ KeyOf(w) # l
          BY <2>4, <3>1 DEF TypeOK
        <4>2. \A v \in Worker \ {w} : pc'[v] = pc[v] /\ KeyOf(v)' = KeyOf(v)
          BY <1>0, <1>7, PassFacts DEF RedisFails
        <4>3. pc'[w] # "add"
          BY <2>1
        <4>4. QED
          BY <4>1, <4>2, <4>3 DEF Adders
      <3>3. QED
        BY <2>2, <3>2 DEF BudgetInv, Budget, Recent
    <2>5. QED
      BY <1>7, <2>3, <2>4 DEF RedisFails
  <1>8. CASE Tick
    <2>1. /\ granted' = granted /\ torn \subseteq torn' /\ now <= now'
          /\ \A w \in Worker : pc'[w] = "add" => pc[w] = "add" /\ KeyOf(w)' = KeyOf(w)
      BY <1>0, <1>8 DEF Tick, workerVars, KeyOf
    <2>2. QED
      BY <1>0, <2>1, BudgetKept
  <1>9. CASE UNCHANGED vars
    BY <1>0, <1>9, BudgetKept DEF vars, KeyOf
  <1>10. QED
    BY <1>1, <1>2, <1>3, <1>4, <1>5, <1>6, <1>7, <1>8, <1>9 DEF Next, Step

-----------------------------------------------------------------------------
LEMMA InitInvariants == Init => TimeInv /\ CauseInv /\ LastsInv /\ BudgetInv
  <1> SUFFICES ASSUME Init PROVE TimeInv /\ CauseInv /\ LastsInv /\ BudgetInv
    OBVIOUS
  <1>1. TypeOK
    BY InitTyped
  <1>2. StallInv /\ RecordInv
    BY DEF Init, StallInv, RecordInv
  <1>3. CauseInv /\ LastsInv
    BY DEF Init, CauseInv, TrimmedInv, DenialHasCause, LastsInv, ExpiryLosesNothing, KeptInv
  <1>4. BudgetInv
    <2>1. SUFFICES ASSUME NEW k \in Key, NEW t \in Time
                   PROVE Cardinality(Recent(k, t)) + Cardinality(Adders(k)) < Budget(k)
                         /\ Cardinality(Recent(k, t)) < Budget(k)
      BY DEF BudgetInv
    <2>2. Recent(k, t) = {} /\ Adders(k) = {}
      BY DEF Init, Recent, Adders
    <2>3. Budget(k) \in Nat \ {0}
      BY <1>1, BudgetFacts DEF Budget
    <2>4. QED
      BY <2>2, <2>3, FS_EmptySet
  <1>5. QED
    BY <1>1, <1>2, <1>3, <1>4 DEF TimeInv

LEMMA Invariants == Spec => [](TimeInv /\ CauseInv /\ LastsInv /\ BudgetInv)
  BY InitInvariants, TimeStep, CauseStep, LastsStep, BudgetStep, PTL DEF Spec

\* A denial has a cause: the limit was reached by requests inside the window.
THEOREM DenialsHaveCauses == Spec => []DenialHasCause
  BY Invariants, PTL DEF CauseInv

\* Redis drops no entry that is still inside its window, but for one whose expire
\* is still under way.
THEOREM NothingExpiresEarly == Spec => []ExpiryLosesNothing
  BY Invariants, PTL DEF LastsInv

\* However many workers check one key at once, they let through at most one request
\* each, less one, beyond the limit.
THEOREM OvershootBounded == Spec => []AdmittedWithinLimit
  <1>1. TimeInv /\ BudgetInv => AdmittedWithinLimit
    BY DEF TimeInv, TypeOK, BudgetInv, Budget, AdmittedWithinLimit
  <1>2. QED
    BY <1>1, Invariants, PTL

-----------------------------------------------------------------------------
(* The wait: reckoned from an entry that is not younger than the clock, for  *)
(* a check that is not older than MaxStall, and rounded down.                *)
LEMMA RoundedDown ==
    ASSUME NEW a \in Int, NEW b \in Nat \ {0}
    PROVE  (a \div b) \in Int /\ (a \div b) * b <= a
  <1>1. a = b * (a \div b) + (a % b) /\ a % b \in 0..(b - 1)
    OBVIOUS
  <1>2. (a \div b) \in Int
    OBVIOUS
  <1>3. QED
    BY <1>1, <1>2

LEMMA WaitBounded ==
    ASSUME TimeInv, NEW w \in Worker, pc[w] = "oldest"
    PROVE  WaitSeconds(w) * TicksPerSecond <= Window[KeyOf(w)] + MaxStall
  <1> DEFINE k == KeyOf(w)
             oldest == CHOOSE e \in zset[k] : \A f \in zset[k] : e <= f
             ahead == oldest + Window[k] - stamp[w]
  <1>1. /\ k \in Key /\ Window[k] \in Nat /\ stamp[w] \in Nat /\ now \in Nat
        /\ zset[k] \in SUBSET Nat /\ MaxStall \in Nat
        /\ TicksPerSecond \in Nat \ {0} /\ TicksPerSecond <= Window[k]
    BY KeyFacts, TimeAssumption DEF TimeInv, Time
  <1>2. CASE zset[k] = {}
    <2>1. WaitSeconds(w) = Window[k] \div TicksPerSecond
      BY <1>2 DEF WaitSeconds
    <2>2. (Window[k] \div TicksPerSecond) * TicksPerSecond <= Window[k]
          /\ (Window[k] \div TicksPerSecond) \in Int
      BY <1>1, RoundedDown
    <2>3. WaitSeconds(w) * TicksPerSecond <= Window[k]
      BY <2>1, <2>2
    <2> HIDE DEF k
    <2>4. WaitSeconds(w) \in Int
      BY WaitFacts DEF TimeInv
    <2>5. WaitSeconds(w) * TicksPerSecond \in Int
      BY <1>1, <2>4
    <2>6. QED
      BY <1>1, <2>3, <2>5 DEF k
  <1>3. CASE zset[k] # {}
    <2>1. oldest \in zset[k]
      BY <1>1, <1>3, MinExists
    <2>2. oldest \in Nat /\ oldest <= now
      BY <1>1, <2>1, TimeAssumption DEF TimeInv, RecordInv, TypeOK, Time
    <2>3. now <= stamp[w] + MaxStall
      BY DEF TimeInv, StallInv
    <2> HIDE DEF oldest
    <2>4. ahead \in Int /\ ahead <= Window[k] + MaxStall
      BY <1>1, <2>2, <2>3
    <2>5. WaitSeconds(w) = LongerOf(1, ahead \div TicksPerSecond)
      BY <1>3 DEF WaitSeconds, oldest
    <2> HIDE DEF ahead, k
    <2>6. (ahead \div TicksPerSecond) \in Int
          /\ (ahead \div TicksPerSecond) * TicksPerSecond <= ahead
      BY <1>1, <2>4, RoundedDown
    <2> DEFINE left == ahead \div TicksPerSecond
    <2> HIDE DEF left
    <2>7. LongerOf(1, left) = 1 \/ LongerOf(1, left) = left
      BY DEF LongerOf
    <2>8. CASE LongerOf(1, left) = 1
      BY <1>1, <2>5, <2>8 DEF left, k
    <2>9. CASE LongerOf(1, left) = left
      <3>1. left \in Int /\ left * TicksPerSecond <= ahead
        BY <2>6 DEF left
      <3>2. WaitSeconds(w) = left
        BY <2>5, <2>9 DEF left
      <3>3. left * TicksPerSecond \in Int
        BY <1>1, <3>1
      <3>4. left * TicksPerSecond <= Window[k] + MaxStall
        BY <1>1, <2>4, <3>1, <3>3
      <3>5. QED
        BY <3>2, <3>4 DEF k
    <2>10. QED
      BY <2>7, <2>8, <2>9
  <1>4. QED
    BY <1>2, <1>3

LEMMA InitWait == Init => WaitIsBounded
  <1> SUFFICES ASSUME Init, NEW k \in Key
               PROVE  denial[k].wait * TicksPerSecond <= Window[k] + MaxStall
    BY DEF WaitIsBounded
  <1>1. denial[k].wait = 1
    BY DEF Init
  <1>2. QED
    BY <1>1, TimeAssumption

LEMMA WaitStep == TimeInv /\ WaitIsBounded /\ [Next]_vars => WaitIsBounded'
  <1> SUFFICES ASSUME TimeInv, WaitIsBounded, [Next]_vars
               PROVE  WaitIsBounded'
    OBVIOUS
  <1>1. ASSUME UNCHANGED denial PROVE WaitIsBounded'
    BY <1>1 DEF WaitIsBounded
  <1>2. ASSUME NEW w \in Worker, Deny(w) PROVE WaitIsBounded'
    <2>1. pc[w] = "oldest"
      BY <1>2 DEF Deny
    <2>2. denial \in [Key -> [at : Time, wait : Nat \ {0}]]
      BY DEF TimeInv, TypeOK
    <2>3. /\ denial'[KeyOf(w)].wait = WaitSeconds(w)
          /\ \A k \in Key \ {KeyOf(w)} : denial'[k] = denial[k]
      BY <1>2, <2>2, KeyFacts DEF Deny, TimeInv
    <2>4. WaitSeconds(w) * TicksPerSecond <= Window[KeyOf(w)] + MaxStall
      BY <2>1, WaitBounded
    <2>5. QED
      BY <2>3, <2>4 DEF WaitIsBounded
  <1>3. QED
    BY <1>1, <1>2 DEF Next, Step, Arrive, Trim, Count, Add, Expire, RedisFails, Tick, vars

\* A denied caller is never sent away for longer than the window and one stall.
THEOREM WaitsAreBounded == Spec => []WaitIsBounded
  <1>1. Init => TimeInv /\ WaitIsBounded
    BY InitInvariants, InitWait
  <1>2. TimeInv /\ WaitIsBounded /\ [Next]_vars => TimeInv' /\ WaitIsBounded'
    BY TimeStep, WaitStep
  <1>3. QED
    BY <1>1, <1>2, PTL DEF Spec
=============================================================================
