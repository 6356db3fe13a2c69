------------------------- MODULE CacheServiceProofs -------------------------
(***************************************************************************)
(* Theorems about CacheService for any number of calls and processes, any  *)
(* limit, and any number of failing commands; and that its lock implements *)
(* LeaseLock.                                                              *)
(***************************************************************************)
EXTENDS CacheService, TLAPS

-----------------------------------------------------------------------------
(* One command. *)

Shape == value = [k \in Key |-> value[k]]
Alive == mortal \subseteq {k \in Key : value[k] # Gone}

\* A write changes one key; the others keep their values and times to live.
LEMMA WritesEffect ==
    ASSUME Shape, Alive, NEW k \in Key, NEW v, NEW dies \in BOOLEAN, Writes(k, v, dies), dies => v # Gone
    PROVE  /\ Shape' /\ Alive'
           /\ value'[k] = v
           /\ \A l \in Key \ {k} : value'[l] = value[l] /\ (l \in mortal' <=> l \in mortal)
           /\ dies => k \in mortal'
           /\ Gone \notin {v, value[k]} /\ k \in mortal => k \in mortal'
<1>1. value' = [value EXCEPT ![k] = v]
    BY DEF Writes
<1>2. value'[k] = v /\ (\A l \in Key \ {k} : value'[l] = value[l]) /\ DOMAIN value = Key
    BY <1>1 DEF Shape
<1>3. Shape'
    BY <1>1 DEF Shape
<1>4. CASE dies
    <2>1. mortal' = mortal \cup {k}
        BY <1>4 DEF Writes
    <2> QED
        BY <1>2, <1>3, <1>4, <2>1 DEF Alive
<1>5. CASE ~dies /\ Gone \in {v, value[k]}
    <2>1. mortal' = mortal \ {k}
        BY <1>5 DEF Writes
    <2> QED
        BY <1>2, <1>3, <1>5, <2>1 DEF Alive
<1>6. CASE ~dies /\ Gone \notin {v, value[k]}
    <2>1. mortal' = mortal
        BY <1>6 DEF Writes
    <2> QED
        BY <1>2, <1>3, <1>6, <2>1 DEF Alive
<1> QED
    BY <1>4, <1>5, <1>6

\* What a command does to the faults.
LEMMA FaultsEffect ==
    ASSUME faults \in 0..MaxFaults, excused \subseteq Key, NEW k \in Key, Works \/ Fails(k)
    PROVE  /\ faults' \in 0..MaxFaults /\ excused' \subseteq Key /\ excused \subseteq excused'
           /\ Fails(k) => k \in excused'
BY LimitAssumption DEF Works, Fails

-----------------------------------------------------------------------------
(* Which keys, and which labels, a call of each method touches. *)

Waiting == {"expire ip", "expire email", "expire session"}

Sound == /\ Shape /\ Alive
         /\ pc \in [Call -> PC] /\ job \in [Call -> Job] /\ stamp \in [Call -> Stamp]
         /\ faults \in 0..MaxFaults /\ excused \subseteq Key

\* The lock's actions touch the lock only, and give it a time to live.
LEMMA LockEffect ==
    ASSUME Sound, NEW c \in Call, Acquire(c) \/ Leave(c) \/ Release(c)
    PROVE  /\ Sound'
           /\ \A k \in Key \ {"lock"} : value'[k] = value[k] /\ (k \in mortal' <=> k \in mortal)
           /\ value'["lock"] # Gone => value'["lock"] \in {value["lock"], stamp[c]}
           /\ value'["lock"] # Gone /\ value'["lock"] # value["lock"] => "lock" \in mortal'
           /\ "lock" \in mortal /\ value'["lock"] # Gone => "lock" \in mortal'
           /\ excused \subseteq excused'
           /\ pc[c] \in {"start", "inside", "delete"} /\ pc'[c] \in {"start", "inside", "delete", "done"}
           /\ \A d \in Call \ {c} : pc'[d] = pc[d]
           /\ UNCHANGED <<job, stamp, Logins>>
<1>1. /\ pc' \in [Call -> PC] /\ \A d \in Call \ {c} : pc'[d] = pc[d]
      /\ pc[c] \in {"start", "inside", "delete"} /\ pc'[c] \in {"start", "inside", "delete", "done"}
    BY DEF Acquire, Leave, Release, Refused, Goto, Sound, PC
<1>2. UNCHANGED <<job, stamp, Logins>>
    BY DEF Acquire, Leave, Release
<1>3. Works \/ Fails("lock")
    BY DEF Acquire, Leave, Release
<1>4. "lock" \in Key /\ Gone \notin Stamp /\ stamp[c] # Gone
    BY KeyAssumption DEF Key, Sound
<1>5. faults' \in 0..MaxFaults /\ excused' \subseteq Key /\ excused \subseteq excused'
    BY <1>3, <1>4, FaultsEffect DEF Sound
<1>6. CASE Keeps
    BY <1>1, <1>2, <1>4, <1>5, <1>6 DEF Keeps, Sound, Shape, Alive
<1>7. CASE Free /\ Writes("lock", stamp[c], TRUE)
    BY <1>1, <1>2, <1>4, <1>5, <1>7, WritesEffect DEF Sound, Free
<1>8. CASE Writes("lock", Gone, FALSE)
    BY <1>1, <1>2, <1>4, <1>5, <1>8, WritesEffect DEF Sound
<1> QED
    BY <1>6, <1>7, <1>8 DEF Acquire, Leave, Release

Values == /\ \A k \in Counter : value[k] \in Nat \cup {Gone}
          /\ value["lock"] \in Stamp \cup {Gone}
          /\ value["session"] \in (SUBSET Field) \cup {Gone}

ExpiryOf == [ip |-> "expire ip", email |-> "expire email", session |-> "expire session"]

LEMMA ExpiryNames ==
    /\ ExpiryOf["ip"] = "expire ip" /\ ExpiryOf["email"] = "expire email"
    /\ ExpiryOf["session"] = "expire session"
BY DEF ExpiryOf

\* An increment touches its counter only; one that makes the counter goes on
\* to give it a time to live.
LEMMA IncrementEffect ==
    ASSUME Sound, Values, NEW c \in Call, NEW k \in Counter, NEW next \in PC,
           Increment(c, k, ExpiryOf[k], next)
    PROVE  /\ UNCHANGED job /\ UNCHANGED stamp => Sound'
           /\ \A l \in Key \ {k} : value'[l] = value[l] /\ (l \in mortal' <=> l \in mortal)
           /\ value'[k] \in Nat \cup {Gone}
           /\ k \in excused' \/ value'[k] = Plus(k)
           /\ k \in excused' \/ value[k] # Gone \/ pc'[c] = ExpiryOf[k]
           /\ value[k] # Gone /\ k \in mortal => k \in mortal' \/ value'[k] = Gone
           /\ excused \subseteq excused'
           /\ pc'[c] \in {ExpiryOf[k], next}
           /\ \A d \in Call \ {c} : pc'[d] = pc[d]
<1>1. /\ pc' \in [Call -> PC] /\ (\A d \in Call \ {c} : pc'[d] = pc[d]) /\ pc'[c] \in {ExpiryOf[k], next}
    <2>1. ExpiryOf[k] \in PC
        BY ExpiryNames DEF Counter, PC
    <2>2. \E label \in {ExpiryOf[k], next} : pc' = [pc EXCEPT ![c] = label]
        BY DEF Increment, Goto
    <2> QED
        BY <2>1, <2>2 DEF Sound
<1>2. k \in Key /\ Plus(k) \in Nat
    BY DEF Key, Values, Plus
<1>3. Works \/ Fails(k)
    BY DEF Increment
<1>4. faults' \in 0..MaxFaults /\ excused' \subseteq Key /\ excused \subseteq excused'
    BY <1>2, <1>3, FaultsEffect DEF Sound
<1>5. CASE Fails(k) /\ Keeps
    <2>1. k \in excused'
        BY <1>2, <1>5, FaultsEffect DEF Sound
    <2> QED
        BY <1>1, <1>2, <1>4, <1>5, <2>1 DEF Keeps, Sound, Shape, Alive, Values
<1>6. CASE Writes(k, Plus(k), FALSE)
    <2>1. value[k] = Gone => Plus(k) = 1
        BY DEF Plus
    <2>2. k \in excused' \/ value[k] # Gone \/ pc'[c] = ExpiryOf[k]
        BY <2>1, <1>2, FaultsEffect DEF Increment, Goto, Sound
    <2> QED
        BY <1>1, <1>2, <1>4, <1>6, <2>2, WritesEffect DEF Sound
<1> QED
    BY <1>5, <1>6 DEF Increment

\* EXPIRE gives a key that is there a time to live.
LEMMA ExpireEffect ==
    ASSUME Sound, NEW c \in Call, NEW k \in Key, NEW next \in PC, Expire(c, k, next)
    PROVE  /\ UNCHANGED job /\ UNCHANGED stamp => Sound'
           /\ value' = value /\ mortal \subseteq mortal' /\ mortal' \subseteq mortal \cup {k}
           /\ value[k] # Gone => k \in mortal' \/ k \in excused'
           /\ excused \subseteq excused'
           /\ pc'[c] = next
           /\ \A d \in Call \ {c} : pc'[d] = pc[d]
<1>1. pc' \in [Call -> PC] /\ (\A d \in Call \ {c} : pc'[d] = pc[d]) /\ pc'[c] = next
    BY DEF Expire, Goto, Sound
<1>2. Works \/ Fails(k)
    BY DEF Expire
<1>3. /\ faults' \in 0..MaxFaults /\ excused' \subseteq Key /\ excused \subseteq excused'
      /\ Fails(k) => k \in excused'
    BY <1>2, FaultsEffect DEF Sound
<1>4. /\ value' = value /\ mortal \subseteq mortal' /\ mortal' \subseteq mortal \cup {k}
      /\ value[k] = Gone => mortal' = mortal
      /\ value[k] # Gone => k \in mortal' \/ Fails(k)
    BY DEF Expire
<1> QED
    BY <1>1, <1>3, <1>4 DEF Sound, Shape, Alive

-----------------------------------------------------------------------------
(* The invariant, in parts. *)

Counted == /\ tries \in [Call -> 0..Retries] /\ count \in [Call -> Nat]
           /\ blocked \subseteq Worker /\ failures \in Nat
           /\ \A c \in Call : job[c] = "lock" /\ pc[c] = "start" => tries[c] # 0

\* The history of the lock: it is owned by the call whose stamp is in it.
Owned == /\ owner \in Call \cup {Gone}
         /\ owner = Gone <=> value["lock"] = Gone
         /\ owner # Gone => value["lock"] = stamp[owner]

\* A key without a time to live.
Bare(k) == value[k] # Gone /\ k \notin mortal

Covered(k) == Bare(k) => k \in excused \/ \E c \in Call : pc[c] = ExpiryOf[k]
MortalLock == value["lock"] # Gone => "lock" \in mortal

IInv == /\ Sound /\ Values /\ Counted /\ Owned /\ MortalLock /\ SessionsAreWhole
        /\ \A k \in Key \ {"lock"} : Covered(k)

\* The address's counter holds what was counted since it was made; whoever has
\* counted is not through yet, or has gone all the way.
Counting == {"expire ip", "incr email", "expire email", "block", "done", "raised"}
Blocking == /\ "ip" \in excused \/ value["ip"] \in {Gone, failures}
            /\ \A c \in Call : count[c] # 0 => pc[c] \in Counting
            /\ FailuresLeadToABlock

LEMMA IInvInit == Init => IInv
<1> SUFFICES ASSUME Init
             PROVE  IInv
    OBVIOUS
<1> USE DEF Init
<1>1. \A k \in Key : value[k] = Gone
    OBVIOUS
<1>2. Sound
    BY <1>1, LimitAssumption DEF Sound, Shape, Alive, PC
<1>3. Values
    BY <1>1 DEF Values, Key
<1>4. Counted
    BY LimitAssumption DEF Counted
<1>5. Owned /\ MortalLock /\ SessionsAreWhole /\ \A k \in Key \ {"lock"} : Covered(k)
    BY <1>1 DEF Owned, MortalLock, SessionsAreWhole, Covered, Bare, Key
<1> QED
    BY <1>2, <1>3, <1>4, <1>5 DEF IInv

\* A key that stays as it is, or is excused, stays covered while the calls that
\* are about to give it a time to live have not done so.
LEMMA StaysCovered ==
    ASSUME NEW k \in Key, Covered(k), excused \subseteq excused',
           Bare(k)' => k \in excused' \/ (\E c \in Call : pc'[c] = ExpiryOf[k]) \/ Bare(k),
           \A c \in Call : pc[c] = ExpiryOf[k] => pc'[c] = ExpiryOf[k]
    PROVE  Covered(k)'
BY DEF Covered, Bare, ExpiryOf

LEMMA LockStep ==
    ASSUME IInv, NEW c \in Call, Acquire(c) \/ Leave(c) \/ Release(c)
    PROVE  IInv'
<1> USE DEF IInv
<1>1. /\ Sound'
      /\ \A k \in Key \ {"lock"} : value'[k] = value[k] /\ (k \in mortal' <=> k \in mortal)
      /\ value'["lock"] # Gone => value'["lock"] \in {value["lock"], stamp[c]}
      /\ value'["lock"] # Gone /\ value'["lock"] # value["lock"] => "lock" \in mortal'
      /\ "lock" \in mortal /\ value'["lock"] # Gone => "lock" \in mortal'
      /\ excused \subseteq excused'
      /\ pc[c] \in {"start", "inside", "delete"} /\ pc'[c] \in {"start", "inside", "delete", "done"}
      /\ \A d \in Call \ {c} : pc'[d] = pc[d]
      /\ UNCHANGED <<job, stamp, Logins>>
    BY LockEffect
<1>2. Values'
    BY <1>1 DEF Values, Key, Counter, Sound
<1>3. MortalLock'
    BY <1>1 DEF MortalLock
<1>4. SessionsAreWhole'
    BY <1>1 DEF SessionsAreWhole, Key
<1>5. ASSUME NEW k \in Key \ {"lock"}
      PROVE  Covered(k)'
    <2>1. ExpiryOf[k] \in Waiting
        BY ExpiryNames DEF Key, Counter, Waiting
    <2> QED
        BY <1>1, <2>1, StaysCovered DEF Waiting, Bare
<1>6. Owned'
    <2>1. Gone \notin Call /\ Gone \notin Stamp /\ stamp[c] # Gone /\ "lock" \in Key
        BY KeyAssumption DEF Sound, Key
    <2>2. CASE Keeps /\ UNCHANGED owner
        BY <1>1, <2>2 DEF Keeps, Owned
    <2>3. CASE Writes("lock", stamp[c], TRUE) /\ owner' = c
        BY <1>1, <2>1, <2>3, WritesEffect DEF Owned, Sound
    <2>4. CASE Writes("lock", Gone, FALSE) /\ owner' = Gone
        BY <1>1, <2>1, <2>4, WritesEffect DEF Owned, Sound
    <2> QED
        BY <2>2, <2>3, <2>4 DEF Acquire, Leave, Release, Own
<1>7. Counted'
    <2>1. /\ tries' \in [Call -> 0..Retries]
          /\ \A d \in Call : job[d] = "lock" /\ pc'[d] = "start" => tries'[d] # 0
        <3>1. CASE UNCHANGED tries /\ pc'[c] # "start"
            BY <1>1, <3>1 DEF Counted
        <3>2. CASE job[c] = "lock" /\ pc[c] = "start" /\ Refused(c)
            <4>1. tries[c] \in 1..Retries
                BY <3>2, LimitAssumption DEF Counted
            <4>2. tries' = [tries EXCEPT ![c] = tries[c] - 1] /\ (pc'[c] = "start" => tries[c] > 1)
                BY <3>2 DEF Refused, Goto, Sound
            <4> QED
                BY <1>1, <4>1, <4>2, LimitAssumption DEF Counted
        <3> QED
            BY <3>1, <3>2 DEF Acquire, Leave, Release, Own, Goto, Sound
    <2> QED
        BY <1>1, <2>1 DEF Counted, Logins
<1> QED
    BY <1>1, <1>2, <1>3, <1>4, <1>5, <1>6, <1>7

LEMMA BlockingStays ==
    ASSUME IInv, Blocking, UNCHANGED <<count, blocked, failures>>,
           value'["ip"] \in {value["ip"], Gone} \/ "ip" \in excused', excused \subseteq excused',
           \A d \in Call : pc'[d] = pc[d] \/ pc[d] \notin Counting
    PROVE  Blocking'
<1>1. \A c \in Call : count[c] \in Nat /\ (count[c] >= Limit => count[c] # 0)
    BY LimitAssumption DEF IInv, Counted
<1>2. FailuresLeadToABlock'
    BY <1>1 DEF Blocking, FailuresLeadToABlock
<1> QED
    BY <1>2 DEF Blocking

\* What a call that counts failed logins leaves alone.
LEMMA LoginFrame ==
    ASSUME NEW c \in Call, RecordFailedLogin(c) \/ ClearFailedLogins(c)
    PROVE  UNCHANGED <<job, stamp, owner, tries, blocked>>
BY DEF RecordFailedLogin, ClearFailedLogins, Own, Logins

\* A counter's step keeps the invariant when it treats its counter well.
LEMMA CounterStep ==
    ASSUME IInv, NEW c \in Call, NEW k \in Counter, Sound',
           UNCHANGED <<job, stamp, owner, tries>>,
           \A l \in Key \ {k} : value'[l] = value[l] /\ (l \in mortal' <=> l \in mortal),
           value'[k] \in Nat \cup {Gone},
           Bare(k)' => k \in excused' \/ pc'[c] = ExpiryOf[k] \/ Bare(k),
           excused \subseteq excused', pc'[c] # "start",
           \A d \in Call \ {c} : pc'[d] = pc[d],
           pc[c] = ExpiryOf[k] => value'[k] = Gone \/ k \in mortal' \/ k \in excused',
           pc[c] \in Waiting => pc[c] = ExpiryOf[k],
           count' \in [Call -> Nat], failures' \in Nat, blocked' \subseteq Worker
    PROVE  IInv'
<1> USE DEF IInv
<1>1. k \in Key /\ k # "lock" /\ k # "session" /\ "lock" \in Key /\ "session" \in Key
    BY DEF Counter, Key
<1>2. Values'
    BY <1>1 DEF Values, Key, Counter
<1>3. MortalLock' /\ SessionsAreWhole'
    BY <1>1 DEF MortalLock, SessionsAreWhole
<1>4. Owned' /\ Counted'
    BY <1>1 DEF Owned, Counted
<1>5. ASSUME NEW l \in Key \ {"lock"}
      PROVE  Covered(l)'
    <2>1. ExpiryOf[l] \in Waiting /\ (l # k => ExpiryOf[l] # ExpiryOf[k])
        BY ExpiryNames DEF Key, Counter, Waiting
    <2>2. CASE l # k
        <3>1. \A d \in Call : pc[d] = ExpiryOf[l] => pc'[d] = ExpiryOf[l]
            BY <2>1, <2>2
        <3> QED
            BY <2>2, <3>1, StaysCovered DEF Bare
    <2>3. CASE l = k
        BY <2>1, <2>3 DEF Covered, Bare
    <2> QED
        BY <2>2, <2>3
<1> QED
    BY <1>2, <1>3, <1>4, <1>5

LEMMA LabelNames == "start" \notin Waiting /\ Waiting \subseteq PC /\ Counting \subseteq PC
BY DEF Waiting, Counting, PC

LEMMA IncrementStep ==
    ASSUME IInv, NEW c \in Call, NEW k \in Counter, NEW next \in PC \ {"start"},
           Increment(c, k, ExpiryOf[k], next), pc[c] \notin Waiting,
           UNCHANGED <<job, stamp, owner, tries, blocked>>
    PROVE  IInv'
<1>1. k \in Key /\ Sound /\ Values /\ Counted /\ ExpiryOf[k] \in Waiting
    BY ExpiryNames DEF IInv, Key, Counter, Waiting
<1>2. /\ Sound'
      /\ \A l \in Key \ {k} : value'[l] = value[l] /\ (l \in mortal' <=> l \in mortal)
      /\ value'[k] \in Nat \cup {Gone}
      /\ k \in excused' \/ value[k] # Gone \/ pc'[c] = ExpiryOf[k]
      /\ value[k] # Gone /\ k \in mortal => k \in mortal' \/ value'[k] = Gone
      /\ excused \subseteq excused'
      /\ pc'[c] \in {ExpiryOf[k], next}
      /\ \A d \in Call \ {c} : pc'[d] = pc[d]
    BY <1>1, IncrementEffect
<1>3. Plus(k) \in Nat
    BY <1>1 DEF Values, Plus
<1>4. failures' \in Nat /\ count' \in [Call -> Nat]
    <2>1. failures' = failures \/ Tallies(k)
        BY DEF Increment
    <2>2. count' = count \/ \E n \in Nat : count' = [count EXCEPT ![c] = n]
        <3>1. CASE UNCHANGED count
            BY <3>1
        <3>2. CASE count' = [count EXCEPT ![c] = IF k = "ip" THEN Plus(k) ELSE @]
            <4>1. count[c] \in Nat
                BY <1>1 DEF Counted
            <4>2. (IF k = "ip" THEN Plus(k) ELSE count[c]) \in Nat
                BY <1>3, <4>1
            <4> QED
                BY <3>2, <4>2
        <3> QED
            BY <3>1, <3>2 DEF Increment
    <2> QED
        BY <1>1, <2>1, <2>2 DEF Tallies, Counted
<1>5. pc'[c] # "start"
    BY <1>1, <1>2, LabelNames
<1>6. blocked' \subseteq Worker
    BY <1>1 DEF Counted
<1>7. Bare(k)' => k \in excused' \/ pc'[c] = ExpiryOf[k] \/ Bare(k)
    <2>1. CASE value[k] = Gone
        BY <1>2, <2>1 DEF Bare
    <2>2. CASE value[k] # Gone /\ k \in mortal
        BY <1>2, <2>2 DEF Bare
    <2>3. CASE value[k] # Gone /\ k \notin mortal
        BY <2>3 DEF Bare
    <2> QED
        BY <2>1, <2>2, <2>3
<1> QED
    BY <1>1, <1>2, <1>4, <1>5, <1>6, <1>7, CounterStep

LEMMA ExpireCounterStep ==
    ASSUME IInv, NEW c \in Call, NEW k \in Counter, NEW next \in PC \ {"start"},
           Expire(c, k, next), pc[c] = ExpiryOf[k],
           UNCHANGED <<job, stamp, owner, tries, blocked, failures>>
    PROVE  IInv'
<1>1. k \in Key /\ Sound /\ Values /\ Counted
    BY DEF IInv, Key, Counter
<1>2. /\ Sound'
      /\ value' = value /\ mortal \subseteq mortal' /\ mortal' \subseteq mortal \cup {k}
      /\ value[k] # Gone => k \in mortal' \/ k \in excused'
      /\ excused \subseteq excused'
      /\ pc'[c] = next
      /\ \A d \in Call \ {c} : pc'[d] = pc[d]
    BY <1>1, ExpireEffect
<1>3. count' \in [Call -> Nat]
    BY <1>1 DEF Expire, Counted
<1>4. value'[k] \in Nat \cup {Gone}
    BY <1>1, <1>2 DEF Values
<1>5. failures' \in Nat /\ blocked' \subseteq Worker
    BY <1>1 DEF Counted
<1> QED
    BY <1>1, <1>2, <1>3, <1>4, <1>5, CounterStep DEF Bare

\* record_failed_login
LEMMA FailedLoginStep ==
    ASSUME IInv, NEW c \in Call, RecordFailedLogin(c)
    PROVE  IInv'
<1>1. UNCHANGED <<job, stamp, owner, tries, blocked>>
    BY LoginFrame
<1>2. /\ "ip" \in Counter /\ "email" \in Counter
      /\ "incr email" \in PC \ {"start"} /\ AfterCounting(c) \in PC \ {"start"}
    BY DEF Counter, PC, AfterCounting
<1>3. CASE Increment(c, "ip", "expire ip", "incr email") /\ pc[c] = "start"
    BY <1>1, <1>2, <1>3, ExpiryNames, LabelNames, IncrementStep
<1>4. CASE pc[c] = "expire ip" /\ Expire(c, "ip", "incr email") /\ UNCHANGED failures
    BY <1>1, <1>2, <1>4, ExpiryNames, ExpireCounterStep
<1>5. CASE Increment(c, "email", "expire email", AfterCounting(c)) /\ pc[c] = "incr email"
    <2>1. pc[c] \notin Waiting
        BY <1>5 DEF Waiting
    <2> QED
        BY <1>1, <1>2, <1>5, <2>1, ExpiryNames, IncrementStep
<1>6. CASE pc[c] = "expire email" /\ Expire(c, "email", AfterCounting(c)) /\ UNCHANGED failures
    BY <1>1, <1>2, <1>6, ExpiryNames, ExpireCounterStep
<1> QED
    BY <1>3, <1>4, <1>5, <1>6 DEF RecordFailedLogin

\* clear_failed_logins
LEMMA DeleteStep ==
    ASSUME IInv, NEW c \in Call, NEW k \in Counter, NEW next \in PC \ {"start"},
           Delete(c, k, next), pc[c] \notin Waiting,
           UNCHANGED <<job, stamp, owner, tries, count, blocked, failures>>
    PROVE  IInv'
<1>1. k \in Key /\ Sound /\ Values /\ Counted
    BY DEF IInv, Key, Counter
<1>2. pc' \in [Call -> PC] /\ (\A d \in Call \ {c} : pc'[d] = pc[d]) /\ pc'[c] = next
    BY <1>1 DEF Delete, Goto, Sound
<1>3. Works \/ Fails(k)
    BY DEF Delete
<1>4. faults' \in 0..MaxFaults /\ excused' \subseteq Key /\ excused \subseteq excused'
    BY <1>1, <1>3, FaultsEffect DEF Sound
<1>5. Writes(k, Gone, FALSE) \/ Keeps
    BY DEF Delete
<1>6. /\ Sound' /\ value'[k] \in {value[k], Gone}
      /\ \A l \in Key \ {k} : value'[l] = value[l] /\ (l \in mortal' <=> l \in mortal)
      /\ Bare(k)' => Bare(k)
    <2>1. CASE Writes(k, Gone, FALSE)
        BY <1>1, <1>2, <1>4, <2>1, WritesEffect DEF Sound, Bare
    <2>2. CASE Keeps
        BY <1>1, <1>2, <1>4, <2>2 DEF Keeps, Sound, Shape, Alive, Bare
    <2> QED
        BY <1>5, <2>1, <2>2
<1>7. pc[c] # ExpiryOf[k]
    BY ExpiryNames DEF Counter, Waiting
<1>8. /\ value'[k] \in Nat \cup {Gone} /\ count' \in [Call -> Nat] /\ failures' \in Nat
      /\ blocked' \subseteq Worker
    BY <1>1, <1>6 DEF Values, Counted
<1> QED
    BY <1>1, <1>2, <1>4, <1>6, <1>7, <1>8, CounterStep

LEMMA ClearStep ==
    ASSUME IInv, NEW c \in Call, ClearFailedLogins(c)
    PROVE  IInv'
<1>1. UNCHANGED <<job, stamp, owner, tries, count, blocked, failures>>
    BY DEF ClearFailedLogins, Own, Logins
<1>2. /\ "ip" \in Counter /\ "email" \in Counter
      /\ "delete email" \in PC \ {"start"} /\ "done" \in PC \ {"start"}
    BY DEF Counter, PC
<1>3. pc[c] \in {"start", "delete email"} /\ pc[c] \notin Waiting
    BY DEF ClearFailedLogins, Waiting
<1>4. CASE Delete(c, "ip", "delete email")
    BY <1>1, <1>2, <1>3, <1>4, DeleteStep
<1>5. CASE Delete(c, "email", "done")
    BY <1>1, <1>2, <1>3, <1>5, DeleteStep
<1> QED
    BY <1>4, <1>5 DEF ClearFailedLogins

\* block_ip touches the process's memory only.
LEMMA BlockStep ==
    ASSUME IInv, NEW c \in Call, BlockIp(c)
    PROVE  IInv'
<1> USE DEF IInv
<1>1. /\ UNCHANGED <<value, mortal, job, stamp, tries, count, owner, failures, faults, excused>>
      /\ pc[c] = "block" /\ pc' = [pc EXCEPT ![c] = "raised"] /\ blocked' = blocked \cup {At[c]}
    BY DEF BlockIp, Works, Keeps, Own, Goto
<1>2. /\ pc' \in [Call -> PC] /\ pc'[c] = "raised" /\ \A d \in Call \ {c} : pc'[d] = pc[d]
    BY <1>1 DEF Sound, PC
<1>3. Sound'
    BY <1>1, <1>2 DEF Sound, Shape, Alive
<1>4. Values' /\ Owned' /\ MortalLock' /\ SessionsAreWhole'
    BY <1>1 DEF Values, Owned, MortalLock, SessionsAreWhole
<1>5. Counted'
    <2>1. blocked' \subseteq Worker
        BY <1>1, CallAssumption DEF Counted
    <2> QED
        BY <1>1, <1>2, <2>1 DEF Counted
<1>6. ASSUME NEW k \in Key \ {"lock"}
      PROVE  Covered(k)'
    <2>1. ExpiryOf[k] \in Waiting /\ "block" \notin Waiting
        BY ExpiryNames DEF Key, Counter, Waiting
    <2> QED
        BY <1>1, <1>2, <2>1, StaysCovered DEF Bare
<1> QED
    BY <1>3, <1>4, <1>5, <1>6

-----------------------------------------------------------------------------
(* The hash of a chat session. *)

LEMMA SessionStep ==
    ASSUME IInv, NEW c \in Call, Sound',
           UNCHANGED <<job, stamp, owner, tries, blocked, failures>>,
           \A l \in Key \ {"session"} : value'[l] = value[l] /\ (l \in mortal' <=> l \in mortal),
           value'["session"] \in (SUBSET Field) \cup {Gone},
           "session" \in excused' \/ value'["session"] \in {Gone, Field},
           Bare("session")' => "session" \in excused' \/ pc'[c] = "expire session" \/ Bare("session"),
           pc[c] = "expire session" => "session" \in excused' \/ ~Bare("session")',
           excused \subseteq excused', pc'[c] # "start",
           \A d \in Call \ {c} : pc'[d] = pc[d],
           pc[c] \in Waiting => pc[c] = "expire session",
           count' \in [Call -> Nat]
    PROVE  IInv'
<1> USE DEF IInv
<1>1. "session" \in Key /\ "lock" \in Key
    BY DEF Key
<1>2. Values' /\ MortalLock' /\ SessionsAreWhole'
    BY <1>1 DEF Values, Key, Counter, MortalLock, SessionsAreWhole
<1>3. Owned' /\ Counted'
    BY <1>1 DEF Owned, Counted
<1>4. ASSUME NEW l \in Key \ {"lock"}
      PROVE  Covered(l)'
    <2>1. ExpiryOf[l] \in Waiting /\ (l # "session" => ExpiryOf[l] # "expire session")
        BY ExpiryNames DEF Key, Counter, Waiting
    <2>2. CASE l # "session"
        <3>1. \A d \in Call : pc[d] = ExpiryOf[l] => pc'[d] = ExpiryOf[l]
            BY <2>1, <2>2
        <3> QED
            BY <2>2, <3>1, StaysCovered DEF Bare
    <2>3. CASE l = "session"
        BY <2>3, ExpiryNames DEF Covered, Bare
    <2> QED
        BY <2>2, <2>3
<1> QED
    BY <1>2, <1>3, <1>4

\* A write of the hash: it makes it whole and goes on to give it a time to
\* live, or adds to one that is there, or it is excused.
LEMMA SessionWriteStep ==
    ASSUME IInv, NEW c \in Call, NEW fields \in SUBSET Field, NEW next \in PC \ {"start"},
           \/ Keeps
           \/ /\ Writes("session", fields, FALSE)
              /\ \/ "session" \in excused'
                 \/ fields = Field /\ (next = "expire session" \/ value["session"] # Gone),
           faults' \in 0..MaxFaults, excused' \subseteq Key, excused \subseteq excused',
           Goto(c, next), pc[c] \notin Waiting,
           UNCHANGED <<job, stamp, owner, tries, count, blocked, failures>>
    PROVE  IInv'
<1>1. Sound /\ Counted /\ Values /\ SessionsAreWhole /\ "session" \in Key
    BY DEF IInv, Key
<1>2. pc' \in [Call -> PC] /\ (\A d \in Call \ {c} : pc'[d] = pc[d]) /\ pc'[c] = next
    BY <1>1 DEF Goto, Sound
<1>3. pc[c] # "expire session"
    BY DEF Waiting
<1>4. CASE Keeps
    <2>1. Sound' /\ value' = value /\ mortal' = mortal
        BY <1>1, <1>2, <1>4 DEF Keeps, Sound, Shape, Alive
    <2> QED
        BY <1>1, <1>2, <1>3, <2>1, SessionStep DEF Values, Counted, SessionsAreWhole, Bare
<1>5. CASE Writes("session", fields, FALSE)
    <2>1. /\ Shape' /\ Alive'
          /\ value'["session"] = fields
          /\ \A l \in Key \ {"session"} : value'[l] = value[l] /\ (l \in mortal' <=> l \in mortal)
          /\ Gone \notin {fields, value["session"]} /\ "session" \in mortal => "session" \in mortal'
        BY <1>1, <1>5, WritesEffect DEF Sound
    <2>2. Sound'
        BY <1>1, <1>2, <2>1 DEF Sound
    <2>3. CASE "session" \in excused'
        BY <1>1, <1>2, <1>3, <2>1, <2>2, <2>3, SessionStep DEF Counted
    <2>4. CASE fields = Field /\ (next = "expire session" \/ value["session"] # Gone)
        <3>1. Bare("session")' => pc'[c] = "expire session" \/ Bare("session")
            BY <1>2, <2>1, <2>4 DEF Bare
        <3>2. value'["session"] \in {Gone, Field} /\ value'["session"] \in (SUBSET Field) \cup {Gone}
            BY <2>1, <2>4
        <3> QED
            BY <1>1, <1>2, <1>3, <2>1, <2>2, <3>1, <3>2, SessionStep DEF Counted
    <2>5. \/ "session" \in excused'
          \/ fields = Field /\ (next = "expire session" \/ value["session"] # Gone)
          \/ Keeps
        OBVIOUS
    <2> QED
        BY <1>4, <2>3, <2>4, <2>5
<1> QED
    BY <1>4, <1>5

LEMMA CreateStep ==
    ASSUME IInv, NEW c \in Call, CreateChatSession(c)
    PROVE  IInv'
<1>1. Sound /\ Counted /\ Values /\ SessionsAreWhole /\ "session" \in Key
    BY DEF IInv, Key
<1>2. UNCHANGED <<job, stamp, owner, tries, blocked, failures>>
    BY DEF CreateChatSession, Own
<1>3. "done" \in PC \ {"start"} /\ "expire session" \in PC \ {"start"} /\ Field \in SUBSET Field
    BY DEF PC
<1>4. CASE pc[c] = "start" /\ UNCHANGED count
    <2>1. pc[c] \notin Waiting
        BY <1>4, LabelNames
    <2>2. CASE Works /\ Writes("session", Field, FALSE) /\ Goto(c, "expire session")
        <3>1. faults' \in 0..MaxFaults /\ excused' \subseteq Key /\ excused \subseteq excused'
            BY <1>1, <2>2, FaultsEffect DEF Sound
        <3> QED
            BY <1>2, <1>3, <1>4, <2>1, <2>2, <3>1, SessionWriteStep
    <2>3. CASE Fails("session") /\ (Writes("session", Field, FALSE) \/ Keeps) /\ Goto(c, "done")
        <3>1. /\ faults' \in 0..MaxFaults /\ excused' \subseteq Key /\ excused \subseteq excused'
              /\ "session" \in excused'
            BY <1>1, <2>3, FaultsEffect DEF Sound
        <3> QED
            BY <1>2, <1>3, <1>4, <2>1, <2>3, <3>1, SessionWriteStep
    <2> QED
        BY <1>4, <2>2, <2>3 DEF CreateChatSession, Expire
<1>5. CASE pc[c] = "expire session" /\ Expire(c, "session", "done")
    <2>1. /\ Sound'
          /\ value' = value /\ mortal \subseteq mortal' /\ mortal' \subseteq mortal \cup {"session"}
          /\ value["session"] # Gone => "session" \in mortal' \/ "session" \in excused'
          /\ excused \subseteq excused'
          /\ pc'[c] = "done"
          /\ \A d \in Call \ {c} : pc'[d] = pc[d]
        BY <1>1, <1>2, <1>3, <1>5, ExpireEffect
    <2>2. count' \in [Call -> Nat]
        BY <1>1, <1>5 DEF Expire, Counted
    <2>3. value'["session"] \in (SUBSET Field) \cup {Gone} /\ ("session" \in excused' \/ value'["session"] \in {Gone, Field})
        BY <1>1, <2>1 DEF Values, SessionsAreWhole
    <2> QED
        BY <1>1, <1>2, <1>3, <1>5, <2>1, <2>2, <2>3, SessionStep DEF Bare
<1> QED
    BY <1>4, <1>5 DEF CreateChatSession

LEMMA SetsStep ==
    ASSUME IInv, NEW c \in Call, NEW field \in Field, NEW next \in PC \ {"start"}, Sets(c, field, next),
           pc[c] \notin Waiting, UNCHANGED <<job, stamp, owner, tries, count, blocked, failures>>
    PROVE  IInv'
<1>1. Sound /\ Values /\ SessionsAreWhole /\ "session" \in Key /\ "done" \in PC \ {"start"}
    BY DEF IInv, Key, PC
<1>2. Fields \cup {field} \in SUBSET Field
    BY <1>1 DEF Fields, Values
<1>3. CASE /\ faults' = faults
           /\ excused' = IF value["session"] = Gone THEN excused \cup {"session"} ELSE excused
           /\ Writes("session", Fields \cup {field}, FALSE) /\ Goto(c, next)
    <2>1. faults' \in 0..MaxFaults /\ excused' \subseteq Key /\ excused \subseteq excused'
        BY <1>1, <1>3 DEF Sound
    <2>2. "session" \in excused' \/ (Fields \cup {field} = Field /\ value["session"] # Gone)
        BY <1>1, <1>2, <1>3 DEF SessionsAreWhole, Fields
    <2> QED
        BY <1>2, <1>3, <2>1, <2>2, SessionWriteStep
<1>4. CASE Fails("session") /\ (Writes("session", Fields \cup {field}, FALSE) \/ Keeps) /\ Goto(c, "done")
    <2>1. /\ faults' \in 0..MaxFaults /\ excused' \subseteq Key /\ excused \subseteq excused'
          /\ "session" \in excused'
        BY <1>1, <1>4, FaultsEffect DEF Sound
    <2> QED
        BY <1>1, <1>2, <1>4, <2>1, SessionWriteStep
<1> QED
    BY <1>3, <1>4 DEF Sets

LEMMA UpdateStep ==
    ASSUME IInv, NEW c \in Call, UpdateChatSession(c)
    PROVE  IInv'
<1>1. UNCHANGED <<job, stamp, owner, tries, count, blocked, failures>>
    BY DEF UpdateChatSession, Own, Logins
<1>2. /\ "done" \in PC \ {"start"} /\ "hincrby" \in PC \ {"start"} /\ "hset" \in PC \ {"start"}
      /\ "count" \in Field /\ "active" \in Field
    BY DEF PC, Field
<1>3. pc[c] \notin Waiting
    BY DEF UpdateChatSession, Waiting
<1>4. CASE Keeps /\ (Works \/ Fails("session")) /\ (Goto(c, "done") \/ Goto(c, "hincrby"))
    <2>1. faults' \in 0..MaxFaults /\ excused' \subseteq Key /\ excused \subseteq excused'
        BY <1>4, FaultsEffect DEF IInv, Sound, Key
    <2> QED
        BY <1>1, <1>2, <1>3, <1>4, <2>1, SessionWriteStep
<1>5. CASE Sets(c, "count", "hset")
    BY <1>1, <1>2, <1>3, <1>5, SetsStep
<1>6. CASE Sets(c, "active", "done")
    BY <1>1, <1>2, <1>3, <1>6, SetsStep
<1> QED
    BY <1>4, <1>5, <1>6 DEF UpdateChatSession

-----------------------------------------------------------------------------
(* A key lapses. *)

LEMMA LapseStep ==
    ASSUME IInv, NEW k \in Key, Lapse(k)
    PROVE  IInv'
<1> USE DEF IInv
<1>1. /\ Shape' /\ Alive' /\ value'[k] = Gone
      /\ \A l \in Key \ {k} : value'[l] = value[l] /\ (l \in mortal' <=> l \in mortal)
    BY WritesEffect DEF Lapse, Sound
<1>2. UNCHANGED <<job, pc, stamp, tries, count, blocked, failures, faults, excused>>
    BY DEF Lapse, Works, Logins
<1>3. Sound' /\ Values' /\ Counted'
    BY <1>1, <1>2 DEF Sound, Values, Counted, Key, Counter
<1>4. MortalLock' /\ SessionsAreWhole'
    BY <1>1, <1>2 DEF MortalLock, SessionsAreWhole, Key
<1>5. Owned'
    <2>1. CASE k = "lock"
        BY <1>1, <1>2, <2>1, KeyAssumption DEF Owned, Lapse
    <2>2. CASE k # "lock"
        BY <1>1, <1>2, <2>2 DEF Owned, Lapse, Key
    <2> QED
        BY <2>1, <2>2
<1>6. \A l \in Key \ {"lock"} : Covered(l)'
    BY <1>1, <1>2 DEF Covered, Bare
<1> QED
    BY <1>3, <1>4, <1>5, <1>6

LEMMA IInvStep == IInv /\ [Next]_vars => IInv'
<1> SUFFICES ASSUME IInv, [Next]_vars
             PROVE  IInv'
    OBVIOUS
<1>1. ASSUME NEW c \in Call, Acquire(c) \/ Leave(c) \/ Release(c)
      PROVE  IInv'
    BY <1>1, LockStep
<1>2. ASSUME NEW c \in Call, RecordFailedLogin(c)
      PROVE  IInv'
    BY <1>2, FailedLoginStep
<1>3. ASSUME NEW c \in Call, BlockIp(c)
      PROVE  IInv'
    BY <1>3, BlockStep
<1>4. ASSUME NEW c \in Call, ClearFailedLogins(c)
      PROVE  IInv'
    BY <1>4, ClearStep
<1>5. ASSUME NEW c \in Call, CreateChatSession(c)
      PROVE  IInv'
    BY <1>5, CreateStep
<1>6. ASSUME NEW c \in Call, UpdateChatSession(c)
      PROVE  IInv'
    BY <1>6, UpdateStep
<1>7. ASSUME NEW k \in Key, Lapse(k)
      PROVE  IInv'
    BY <1>7, LapseStep
<1>8. CASE UNCHANGED vars
    BY <1>8 DEF vars, IInv, Sound, Shape, Alive, Values, Counted, Owned, MortalLock, SessionsAreWhole,
                Covered, Bare
<1> QED
    BY <1>1, <1>2, <1>3, <1>4, <1>5, <1>6, <1>7, <1>8 DEF Next

LEMMA IInvHolds == Spec => []IInv
BY IInvInit, IInvStep, PTL DEF Spec

-----------------------------------------------------------------------------
(* The steps that count failures, and what they do to Blocking. *)

LEMMA BlockingCounts ==
    ASSUME IInv, Blocking, NEW c \in Call, RecordFailedLogin(c)
    PROVE  Blocking'
<1>1. Sound /\ Values /\ Counted /\ "ip" \in Key /\ "email" \in Key /\ "ip" \in Counter /\ "email" \in Counter
    BY DEF IInv, Key, Counter
<1>2. UNCHANGED blocked /\ LimitAssumption
    BY LimitAssumption DEF RecordFailedLogin
<1>3. \A d \in Call : count[d] \in Nat /\ (count[d] >= Limit => count[d] # 0)
    BY <1>1, LimitAssumption DEF Counted
<1>4. /\ AfterCounting(c) \in {"block", "done"}
      /\ count[c] >= Limit => AfterCounting(c) = "block"
    BY DEF AfterCounting
<1>5. CASE Increment(c, "ip", "expire ip", "incr email")
    <2>1. pc'[c] \in {"expire ip", "incr email"} /\ \A d \in Call \ {c} : pc'[d] = pc[d]
        BY <1>1, <1>5 DEF Increment, Goto, Sound
    <2>2. CASE Fails("ip")
        <3>1. "ip" \in excused'
            BY <1>1, <2>2, FaultsEffect DEF Sound
        <3>2. \A d \in Call \ {c} : count'[d] = count[d]
            BY <1>1, <1>5 DEF Increment, Counted
        <3> QED
            BY <2>1, <3>1, <3>2 DEF Blocking, FailuresLeadToABlock, Counting
    <2>3. CASE /\ Works /\ Writes("ip", Plus("ip"), FALSE) /\ Tallies("ip")
               /\ count' = [count EXCEPT ![c] = Plus("ip")]
        <3>1. excused' = excused /\ value'["ip"] = Plus("ip")
            BY <1>1, <2>3, WritesEffect DEF Works, Sound
        <3>2. count'[c] = Plus("ip") /\ \A d \in Call \ {c} : count'[d] = count[d]
            BY <1>1, <2>3 DEF Counted
        <3>3. "ip" \in excused \/ Plus("ip") = failures'
            BY <2>3 DEF Blocking, Plus, Tallies
        <3>4. failures' >= Limit => "ip" \in excused' \/ count'[c] >= Limit
            BY <3>1, <3>2, <3>3
        <3>5. FailuresLeadToABlock'
            BY <2>1, <3>4 DEF FailuresLeadToABlock
        <3> QED
            BY <2>1, <3>1, <3>2, <3>3, <3>5 DEF Blocking, Counting
    <2> QED
        BY <1>5, <2>2, <2>3 DEF Increment
<1>6. CASE Expire(c, "ip", "incr email") /\ pc[c] = "expire ip" /\ UNCHANGED failures
    <2>1. pc'[c] = "incr email" /\ (\A d \in Call \ {c} : pc'[d] = pc[d]) /\ value' = value
        BY <1>1, <1>6 DEF Expire, Goto, Sound
    <2>2. CASE Fails("ip")
        <3>1. "ip" \in excused'
            BY <1>1, <2>2, FaultsEffect DEF Sound
        <3>2. \A d \in Call \ {c} : count'[d] = count[d]
            BY <1>1, <1>6 DEF Expire, Counted
        <3> QED
            BY <2>1, <3>1, <3>2 DEF Blocking, FailuresLeadToABlock, Counting
    <2>3. CASE Works /\ UNCHANGED count
        <3>1. FailuresLeadToABlock'
            BY <1>2, <1>6, <2>1, <2>3 DEF Blocking, FailuresLeadToABlock, Works
        <3> QED
            BY <1>6, <2>1, <2>3, <3>1 DEF Blocking, Counting, Works
    <2> QED
        BY <1>6, <2>2, <2>3 DEF Expire
<1>7. CASE /\ pc[c] \in {"incr email", "expire email"} /\ excused \subseteq excused'
           /\ pc'[c] \in {"expire email", AfterCounting(c)}
           /\ \A d \in Call \ {c} : pc'[d] = pc[d]
           /\ value'["ip"] = value["ip"] /\ UNCHANGED <<count, failures>>
    <2>1. \A d \in Call : count[d] >= Limit /\ pc[d] \notin {"done", "raised"} => pc'[d] \notin {"done", "raised"}
        BY <1>4, <1>7
    <2>2. FailuresLeadToABlock'
        BY <1>2, <1>7, <2>1 DEF Blocking, FailuresLeadToABlock
    <2> QED
        BY <1>4, <1>7, <2>2 DEF Blocking, Counting
<1>8. CASE pc[c] = "incr email" /\ Increment(c, "email", "expire email", AfterCounting(c))
    <2>1. pc'[c] \in {"expire email", AfterCounting(c)} /\ \A d \in Call \ {c} : pc'[d] = pc[d]
        BY <1>1, <1>8 DEF Increment, Goto, Sound
    <2>2. Works \/ Fails("email")
        BY <1>8 DEF Increment
    <2>3. excused \subseteq excused'
        BY <1>1, <2>2, FaultsEffect DEF Sound
    <2>4. value'["ip"] = value["ip"]
        BY <1>1, <1>8, WritesEffect DEF Increment, Keeps, Sound
    <2>5. UNCHANGED failures
        BY <1>8 DEF Increment, Tallies
    <2>6. UNCHANGED count
        BY <1>1, <1>8 DEF Increment, Counted
    <2> QED
        BY <1>7, <1>8, <2>1, <2>3, <2>4, <2>5, <2>6
<1>9. CASE pc[c] = "expire email" /\ Expire(c, "email", AfterCounting(c)) /\ UNCHANGED failures
    <2>1. pc'[c] = AfterCounting(c) /\ \A d \in Call \ {c} : pc'[d] = pc[d]
        BY <1>1, <1>9 DEF Expire, Goto, Sound
    <2>2. Works \/ Fails("email")
        BY <1>9 DEF Expire
    <2>3. excused \subseteq excused'
        BY <1>1, <2>2, FaultsEffect DEF Sound
    <2>4. UNCHANGED <<value, count>>
        BY <1>1, <1>9 DEF Expire, Counted
    <2> QED
        BY <1>7, <1>9, <2>1, <2>3, <2>4
<1> QED
    BY <1>5, <1>6, <1>8, <1>9 DEF RecordFailedLogin

LEMMA BlockingStep == IInv /\ Blocking /\ [Next]_vars => Blocking'
<1> SUFFICES ASSUME IInv, Blocking, [Next]_vars
             PROVE  Blocking'
    OBVIOUS
<1>1. Sound /\ Counted /\ \A k \in Counter \cup {"session"} : k \in Key
    BY DEF IInv, Key
<1>2. ASSUME NEW c \in Call, Acquire(c) \/ Leave(c) \/ Release(c)
      PROVE  Blocking'
    <2>1. /\ \A k \in Key \ {"lock"} : value'[k] = value[k]
          /\ excused \subseteq excused' /\ pc[c] \in {"start", "inside", "delete"}
          /\ \A d \in Call \ {c} : pc'[d] = pc[d]
          /\ UNCHANGED <<count, blocked, failures>>
        BY <1>1, <1>2, LockEffect DEF Logins
    <2>2. "ip" \in Key /\ pc[c] \notin Counting
        BY <2>1 DEF Key, Counter, Counting
    <2>3. \A d \in Call : pc'[d] = pc[d] \/ pc[d] \notin Counting
        BY <2>1, <2>2
    <2> QED
        BY <2>1, <2>2, <2>3, BlockingStays
<1>3. ASSUME NEW c \in Call, RecordFailedLogin(c)
      PROVE  Blocking'
    BY <1>3, BlockingCounts
<1>4. ASSUME NEW c \in Call, BlockIp(c)
      PROVE  Blocking'
    <2>1. /\ UNCHANGED <<value, count, failures, excused>> /\ blocked' # {}
          /\ pc' = [pc EXCEPT ![c] = "raised"]
        BY <1>4 DEF BlockIp, Works, Keeps, Goto
    <2>2. pc'[c] = "raised" /\ \A d \in Call \ {c} : pc'[d] = pc[d]
        BY <1>1, <2>1 DEF Sound
    <2> QED
        BY <2>1, <2>2 DEF Blocking, FailuresLeadToABlock, Counting
<1>5. ASSUME NEW c \in Call, ClearFailedLogins(c)
      PROVE  Blocking'
    <2>1. UNCHANGED <<count, blocked, failures>> /\ pc[c] \notin Counting
        BY <1>5 DEF ClearFailedLogins, Logins, Counting
    <2>2. \A d \in Call : pc'[d] = pc[d] \/ pc[d] \notin Counting
        BY <1>1, <1>5, <2>1 DEF ClearFailedLogins, Delete, Goto, Sound
    <2>3. PICK k \in Counter : (Works \/ Fails(k)) /\ (Writes(k, Gone, FALSE) \/ Keeps)
        BY <1>5 DEF ClearFailedLogins, Delete, Counter
    <2>4. "ip" \in Key /\ value'["ip"] \in {value["ip"], Gone}
        BY <1>1, <2>3, WritesEffect DEF Sound, Keeps, Counter
    <2>5. excused \subseteq excused'
        BY <1>1, <2>3, FaultsEffect DEF Sound
    <2> QED
        BY <2>1, <2>2, <2>4, <2>5, BlockingStays
<1>6. ASSUME NEW c \in Call, CreateChatSession(c) \/ UpdateChatSession(c)
      PROVE  Blocking'
    <2>1. /\ pc[c] \in {"start", "expire session", "hincrby", "hset"} /\ UNCHANGED <<blocked, failures>>
          /\ UNCHANGED count \/ Expire(c, "session", "done")
        BY <1>6 DEF CreateChatSession, UpdateChatSession, Logins
    <2>2. UNCHANGED count /\ pc[c] \notin Counting
        BY <1>1, <2>1 DEF Expire, Counted, Counting
    <2>3. \A d \in Call \ {c} : pc'[d] = pc[d]
        BY <1>1, <1>6 DEF CreateChatSession, UpdateChatSession, Sets, Expire, Goto, Sound
    <2>4. UNCHANGED value \/ \E fields : Writes("session", fields, FALSE)
        BY <1>6 DEF CreateChatSession, UpdateChatSession, Sets, Expire, Keeps
    <2>5. "ip" \in Key \ {"session"} /\ value'["ip"] = value["ip"]
        BY <1>1, <2>4, WritesEffect DEF Sound, Key, Counter
    <2>6. excused \subseteq excused'
        BY <1>1, <1>6 DEF CreateChatSession, UpdateChatSession, Sets, Expire, Works, Fails
    <2> QED
        BY <2>1, <2>2, <2>3, <2>5, <2>6, BlockingStays
<1>7. ASSUME NEW k \in Key, Lapse(k)
      PROVE  Blocking'
    <2>1. UNCHANGED <<count, blocked, failures, pc, excused>> /\ Writes(k, Gone, FALSE)
        BY <1>7 DEF Lapse, Logins, Works
    <2>2. "ip" \in Key /\ value'["ip"] \in {value["ip"], Gone}
        BY <1>1, <2>1, WritesEffect DEF Sound, Key, Counter
    <2> QED
        BY <2>1, <2>2, BlockingStays
<1>8. CASE UNCHANGED vars
    BY <1>8 DEF vars, Blocking, FailuresLeadToABlock
<1> QED
    BY <1>2, <1>3, <1>4, <1>5, <1>6, <1>7, <1>8 DEF Next

LEMMA BlockingInit == Init => Blocking
<1> SUFFICES ASSUME Init
             PROVE  Blocking
    OBVIOUS
<1>1. value["ip"] = Gone /\ failures = 0 /\ \A c \in Call : count[c] = 0
    BY DEF Init, Key, Counter
<1> QED
    BY <1>1, LimitAssumption DEF Blocking, FailuresLeadToABlock

-----------------------------------------------------------------------------
(* The theorems. *)

\* Every key holds what its methods put there, and only keys that exist have a
\* time to live, in every reachable state.
THEOREM TypeCorrect == Spec => []TypeOK
<1>1. IInv => TypeOK
    BY DEF IInv, TypeOK, Sound, Values, Counted, Owned, Alive
<1> QED
    BY <1>1, IInvHolds, PTL

\* A counter, a lock or a session that nothing failed on has a time to live, or
\* a call is about to give it one.  (redis_cache.py:263-295, 330-363)
THEOREM KeysLapse == Spec => []NothingStaysForever
<1>1. ASSUME IInv
      PROVE  NothingStaysForever
    <2>1. ASSUME NEW k \in Key, value[k] # Gone /\ k \notin mortal
          PROVE  k \in excused \/ Expiring(k) # {}
        <3>1. k # "lock" /\ Covered(k)
            BY <1>1, <2>1 DEF IInv, MortalLock
        <3>2. \A c \in Call : pc[c] = ExpiryOf[k] => c \in Expiring(k)
            BY <3>1, ExpiryNames DEF Expiring, Key, Counter
        <3> QED
            BY <2>1, <3>1, <3>2 DEF Covered, Bare
    <2> QED
        BY <2>1 DEF NothingStaysForever
<1> QED
    BY <1>1, IInvHolds, PTL

\* A session nothing failed on has all its fields.  (redis_cache.py:711-739)
THEOREM SessionsKeepTheirFields == Spec => []SessionsAreWhole
<1>1. IInv => SessionsAreWhole
    BY DEF IInv
<1> QED
    BY <1>1, IInvHolds, PTL

\* Whatever number of calls count failures at once, the one that counts the
\* last of Limit blocks the address.  (security_validator.py:430-446)
THEOREM FailuresBlock == Spec => []FailuresLeadToABlock
<1>1. Blocking => FailuresLeadToABlock
    BY DEF Blocking
<1> QED
    BY <1>1, IInvHolds, BlockingInit, BlockingStep, PTL DEF Spec

-----------------------------------------------------------------------------
(* The lock implements LeaseLock. *)

LEMMA LeaseInit == Init => Lease!Init
BY DEF Init, Lease!Init, inside, sure

LEMMA LeaseStutter ==
    ASSUME UNCHANGED <<stamp, owner>>,
           \A c \in Call : pc'[c] = pc[c] \/ {pc[c], pc'[c]} \cap {"inside", "delete"} = {}
    PROVE  UNCHANGED Lease!vars
<1>1. inside' = inside /\ sure' = sure
    BY DEF inside, sure
<1> QED
    BY <1>1 DEF Lease!vars

LEMMA LeaseStep == IInv /\ [Next]_vars => [Lease!Next]_(Lease!vars)
<1> SUFFICES ASSUME IInv, [Next]_vars
             PROVE  Lease!Next \/ UNCHANGED Lease!vars
    OBVIOUS
<1>1. Sound /\ Owned
    BY DEF IInv
<1>2. ASSUME NEW c \in Call, Acquire(c)
      PROVE  Lease!Next \/ UNCHANGED Lease!vars
    <2>1. /\ pc[c] = "start" /\ pc'[c] \in {"start", "inside", "done"} /\ stamp' = stamp
          /\ \A d \in Call \ {c} : pc'[d] = pc[d]
        BY <1>1, <1>2 DEF Acquire, Refused, Goto, Sound
    <2>2. sure' = sure /\ inside' \in {inside, inside \cup {c}}
        BY <2>1 DEF sure, inside
    <2>3. CASE Free /\ owner' = c
        <3>1. owner = Gone
            BY <1>1, <2>3 DEF Owned, Free
        <3>2. Lease!Grant(c)
            BY <2>1, <2>2, <2>3, <3>1 DEF Lease!Grant
        <3> QED
            BY <3>2 DEF Lease!Next
    <2>4. CASE UNCHANGED owner /\ pc'[c] # "inside"
        BY <2>1, <2>4, LeaseStutter
    <2> QED
        BY <1>1, <1>2, <2>1, <2>3, <2>4 DEF Acquire, Refused, Goto, Sound
<1>3. ASSUME NEW c \in Call, Leave(c)
      PROVE  Lease!Next
    <2>1. /\ pc[c] = "inside" /\ pc'[c] \in {"delete", "done"} /\ UNCHANGED <<stamp, owner>>
          /\ \A d \in Call \ {c} : pc'[d] = pc[d]
          /\ pc'[c] = "delete" => value["lock"] = stamp[c]
        BY <1>1, <1>3 DEF Leave, Goto, Sound, Own
    <2>2. c \in inside /\ inside' = inside \ {c}
        BY <2>1 DEF inside
    <2>3. sure' = IF pc'[c] = "delete" THEN sure \cup {c} ELSE sure
        BY <2>1 DEF sure
    <2>4. pc'[c] = "delete" => owner # Gone /\ stamp[owner] = stamp[c]
        BY <1>1, <2>1, KeyAssumption DEF Owned, Sound
    <2>5. Lease!Leave(c)
        BY <2>1, <2>2, <2>3, <2>4 DEF Lease!Leave
    <2> QED
        BY <2>5 DEF Lease!Next
<1>4. ASSUME NEW c \in Call, Release(c)
      PROVE  Lease!Next
    <2>1. /\ pc[c] = "delete" /\ pc'[c] = "done" /\ UNCHANGED stamp /\ owner' \in {owner, Gone}
          /\ \A d \in Call \ {c} : pc'[d] = pc[d]
        BY <1>1, <1>4 DEF Release, Goto, Sound
    <2>2. c \in sure /\ sure' = sure \ {c} /\ inside' = inside
        BY <2>1 DEF sure, inside
    <2>3. Lease!GiveBack(c)
        BY <2>1, <2>2 DEF Lease!GiveBack
    <2> QED
        BY <2>3 DEF Lease!Next
<1>5. ASSUME NEW c \in Call, RecordFailedLogin(c) \/ ClearFailedLogins(c)
      PROVE  UNCHANGED Lease!vars
    <2>1. /\ UNCHANGED <<stamp, owner>> /\ pc[c] \notin {"inside", "delete"}
          /\ pc'[c] \notin {"inside", "delete"} /\ \A d \in Call \ {c} : pc'[d] = pc[d]
        BY <1>1, <1>5 DEF RecordFailedLogin, Increment, Expire, ClearFailedLogins, Delete, Goto, Own, Sound,
                          AfterCounting
    <2> QED
        BY <2>1, LeaseStutter
<1>6. ASSUME NEW c \in Call, BlockIp(c) \/ CreateChatSession(c) \/ UpdateChatSession(c)
      PROVE  UNCHANGED Lease!vars
    <2>1. /\ UNCHANGED <<stamp, owner>> /\ pc[c] \notin {"inside", "delete"}
          /\ pc'[c] \notin {"inside", "delete"} /\ \A d \in Call \ {c} : pc'[d] = pc[d]
        BY <1>1, <1>6 DEF BlockIp, CreateChatSession, Expire, UpdateChatSession, Sets, Goto, Own, Sound
    <2> QED
        BY <2>1, LeaseStutter
<1>7. ASSUME NEW k \in Key, Lapse(k)
      PROVE  Lease!Next \/ UNCHANGED Lease!vars
    <2>1. UNCHANGED <<pc, stamp>> /\ owner' \in {Gone, owner} /\ inside' = inside /\ sure' = sure
        BY <1>7 DEF Lapse, inside, sure
    <2> QED
        BY <2>1 DEF Lease!Next, Lease!Expire, Lease!vars
<1>8. CASE UNCHANGED vars
    BY <1>8, LeaseStutter DEF vars
<1> QED
    BY <1>2, <1>3, <1>4, <1>5, <1>6, <1>7, <1>8 DEF Next

\* lock() keeps the promise of LeaseLock for any number of clients, attempts and
\* lost answers: it is granted only when nobody owns it, and a delete on leaving
\* comes only from a caller that found its own stamp there.
\* (redis_cache.py:932-992)
THEOREM LockIsALease == Spec => KeepsTheLease
<1>1. Spec => Lease!Init /\ [][Lease!Next]_(Lease!vars)
    BY LeaseInit, LeaseStep, IInvHolds, PTL DEF Spec
<1> QED
    BY <1>1 DEF KeepsTheLease, Lease!Spec
=============================================================================
