---------------------------- MODULE CacheService ----------------------------
(***************************************************************************)
(* The methods of RedisCacheService (app/services/cache/redis_cache.py)    *)
(* that take more than one Redis command, and the failed-login counters    *)
(* that SecurityValidator keeps with them.                                 *)
(*                                                                         *)
(* Every action is one command.  A key with a time to live may lapse at    *)
(* any moment.  A command that fails, or is refused by the breaker, ends   *)
(* the operation with its fallback value; it may have been carried out.    *)
(***************************************************************************)
EXTENDS Naturals, FiniteSets

CONSTANTS
    Call,       \* one call of a method each
    Worker,     \* processes
    At,         \* At[c]: the process that runs c
    Job,        \* the methods that calls may be
    Stamp,      \* readings of the event loop's clock, the value of a lock
    Gone,       \* a key that does not exist
    Limit,      \* failures from one address before it is blocked
    Retries,    \* retry_times
    MaxFaults   \* bound on commands that fail

Method  == {"lock", "failure", "clear", "create", "update"}
Counter == {"ip", "email"}
Key     == Counter \cup {"lock", "session"}
Field   == {"language", "count", "active"}

ASSUME CallAssumption == Job \subseteq Method /\ At \in [Call -> Worker]
ASSUME KeyAssumption == Gone \notin Call /\ Gone \notin Stamp
ASSUME LimitAssumption == Limit \in Nat \ {0} /\ Retries \in Nat \ {0} /\ MaxFaults \in Nat

VARIABLES
    value,    \* value[k]: a count, a stamp, the fields of a hash, or Gone
    mortal,   \* keys that have a time to live
    job,      \* job[c]: the method
    pc,       \* pc[c]: the next command of c
    stamp,    \* stamp[c]: lock_value
    tries,    \* tries[c]: attempts at the lock that are left
    count,    \* count[c]: what the counter of the address was incremented to
    blocked,  \* processes that have the address in _blocked_ips
    faults,   \* commands that failed
    \* history
    owner,    \* the call whose SET made the lock's key
    failures, \* INCRs of the address's counter since it last began at nothing
    excused   \* keys that a failed command or a lapse under a call's feet touched

vars == <<value, mortal, job, pc, stamp, tries, count, blocked, faults, owner, failures, excused>>

PC == {"start", "inside", "check", "delete",
       "expire ip", "incr email", "expire email", "block",
       "delete email", "expire session", "hincrby", "hset", "done", "raised"}

Init ==
    /\ value = [k \in Key |-> Gone]
    /\ mortal = {}
    /\ job \in [Call -> Job]
    /\ pc = [c \in Call |-> "start"]
    /\ stamp \in [Call -> Stamp]
    /\ tries = [c \in Call |-> Retries]
    /\ count = [c \in Call |-> 0]
    /\ blocked = {}
    /\ faults = 0
    /\ owner = Gone
    /\ failures = 0
    /\ excused = {}

-----------------------------------------------------------------------------
\* One command.

Goto(c, label) == pc' = [pc EXCEPT ![c] = label]

\* What writing v to k does; a key that comes or goes has no time to live.
Writes(k, v, dies) ==
    /\ value' = [value EXCEPT ![k] = v]
    /\ mortal' = IF dies THEN mortal \cup {k}
                 ELSE IF Gone \in {v, value[k]} THEN mortal \ {k} ELSE mortal

Keeps == UNCHANGED <<value, mortal>>

\* An address's counter begins anew when it is made.
Tallies(k) == failures' = IF k # "ip" THEN failures ELSE IF value[k] = Gone THEN 1 ELSE failures + 1

\* The exception: the rest of the operation is skipped.
Fails(k) == /\ faults < MaxFaults /\ faults' = faults + 1
            /\ excused' = excused \cup {k}

Works == UNCHANGED <<faults, excused>>

Own == <<owner, tries>>
Logins == <<count, blocked, failures>>

-----------------------------------------------------------------------------
\* lock(resource)

\* SET lock_key lock_value NX EX ttl, and the next attempt when it did not.
Refused(c) == /\ tries' = [tries EXCEPT ![c] = @ - 1]
              /\ Goto(c, IF tries[c] > 1 THEN "start" ELSE "done")

Free == value["lock"] = Gone

Acquire(c) ==
    /\ job[c] = "lock" /\ pc[c] = "start"
    /\ \/ /\ Free /\ Works
          /\ Writes("lock", stamp[c], TRUE) /\ owner' = c
          /\ Goto(c, "inside") /\ UNCHANGED tries
       \/ /\ ~Free /\ Works
          /\ Refused(c) /\ Keeps /\ UNCHANGED owner
       \/ /\ Fails("lock") /\ Refused(c)
          /\ \/ Free /\ Writes("lock", stamp[c], TRUE) /\ owner' = c
             \/ Keeps /\ UNCHANGED owner
    /\ UNCHANGED <<job, stamp, Logins>>

\* Faulty: the key is deleted whatever is in it.
LeaveRegardless(c) ==
    /\ pc[c] = "inside"
    /\ Works /\ Goto(c, "delete")
    /\ Keeps /\ UNCHANGED <<job, stamp, Own, Logins>>

\* The GET on leaving: only a caller that still finds its value deletes the key.
Leave(c) ==
    /\ pc[c] = "inside"
    /\ \/ Works /\ Goto(c, IF value["lock"] = stamp[c] THEN "delete" ELSE "done")
       \/ Fails("lock") /\ Goto(c, "done")
    /\ Keeps /\ UNCHANGED <<job, stamp, Own, Logins>>

Release(c) ==
    /\ pc[c] = "delete" /\ Goto(c, "done")
    /\ \/ Works /\ Writes("lock", Gone, FALSE) /\ owner' = Gone
       \/ Fails("lock") /\ Writes("lock", Gone, FALSE) /\ owner' = Gone
       \/ Fails("lock") /\ Keeps /\ UNCHANGED owner
    /\ UNCHANGED <<job, stamp, tries, Logins>>

-----------------------------------------------------------------------------
\* record_failed_login and clear_failed_logins

Plus(k) == IF value[k] = Gone THEN 1 ELSE value[k] + 1

\* Faulty: the time to live is given on the second increment.
IncrementThenExpire(c, k, expire, next) ==
    /\ Works /\ Writes(k, Plus(k), FALSE) /\ Tallies(k)
    /\ Goto(c, IF Plus(k) = 2 THEN expire ELSE next)
    /\ count' = [count EXCEPT ![c] = IF k = "ip" THEN Plus(k) ELSE @]

\* INCRBY: whoever begins the counter gives it a time to live.
Increment(c, k, expire, next) ==
    \/ /\ Works /\ Writes(k, Plus(k), FALSE) /\ Tallies(k)
       /\ Goto(c, IF Plus(k) = 1 THEN expire ELSE next)
       /\ count' = [count EXCEPT ![c] = IF k = "ip" THEN Plus(k) ELSE @]
    \/ /\ Fails(k) /\ Writes(k, Plus(k), FALSE) /\ Tallies(k)
       /\ Goto(c, next) /\ UNCHANGED count
    \/ /\ Fails(k) /\ Keeps /\ UNCHANGED <<failures, count>>
       /\ Goto(c, next)

\* EXPIRE of a key that is gone does nothing.  When it fails, incr answers 0.
Expire(c, k, next) ==
    /\ Goto(c, next) /\ UNCHANGED value
    /\ \/ Works /\ mortal' = mortal \cup (IF value[k] = Gone THEN {} ELSE {k})
          /\ UNCHANGED count
       \/ Fails(k) /\ mortal' \in {mortal, mortal \cup (IF value[k] = Gone THEN {} ELSE {k})}
          /\ count' = [count EXCEPT ![c] = IF k = "ip" THEN 0 ELSE @]

\* Faulty: blocks one failure late.
AfterCountingLate(c) == IF count[c] > Limit THEN "block" ELSE "done"

AfterCounting(c) == IF count[c] >= Limit THEN "block" ELSE "done"

RecordFailedLogin(c) ==
    /\ \/ /\ job[c] = "failure" /\ pc[c] = "start"
          /\ Increment(c, "ip", "expire ip", "incr email")
       \/ /\ pc[c] = "expire ip" /\ Expire(c, "ip", "incr email")
          /\ UNCHANGED failures
       \/ /\ pc[c] = "incr email"
          /\ Increment(c, "email", "expire email", AfterCounting(c))
       \/ /\ pc[c] = "expire email" /\ Expire(c, "email", AfterCounting(c))
          /\ UNCHANGED failures
    /\ UNCHANGED <<job, stamp, Own, blocked>>

\* block_ip: the process remembers the address; the call of set() lacks its value
\* and raises before it reaches Redis.
BlockIp(c) ==
    /\ pc[c] = "block"
    /\ blocked' = blocked \cup {At[c]}
    /\ Goto(c, "raised")
    /\ Works /\ Keeps /\ UNCHANGED <<job, stamp, Own, count, failures>>

Delete(c, k, next) ==
    /\ Goto(c, next)
    /\ \/ Works /\ Writes(k, Gone, FALSE)
       \/ Fails(k) /\ (Writes(k, Gone, FALSE) \/ Keeps)

ClearFailedLogins(c) ==
    /\ \/ job[c] = "clear" /\ pc[c] = "start" /\ Delete(c, "ip", "delete email")
       \/ pc[c] = "delete email" /\ Delete(c, "email", "done")
    /\ UNCHANGED <<job, stamp, Own, Logins>>

-----------------------------------------------------------------------------
\* create_chat_session and update_chat_session_activity

CreateChatSession(c) ==
    /\ \/ /\ job[c] = "create" /\ pc[c] = "start"
          /\ \/ Works /\ Writes("session", Field, FALSE) /\ Goto(c, "expire session")
             \/ Fails("session") /\ (Writes("session", Field, FALSE) \/ Keeps) /\ Goto(c, "done")
          /\ UNCHANGED count
       \/ pc[c] = "expire session" /\ Expire(c, "session", "done")
    /\ UNCHANGED <<job, stamp, Own, blocked, failures>>

Fields == IF value["session"] = Gone THEN {} ELSE value["session"]

\* HINCRBY and HSET make a hash that has lapsed meanwhile again.
Sets(c, field, next) ==
    \/ /\ faults' = faults
       /\ excused' = IF value["session"] = Gone THEN excused \cup {"session"} ELSE excused
       /\ Writes("session", Fields \cup {field}, FALSE) /\ Goto(c, next)
    \/ Fails("session") /\ (Writes("session", Fields \cup {field}, FALSE) \/ Keeps) /\ Goto(c, "done")

\* Faulty: the hash is written without asking whether it is there.
UpdateUnasked(c) ==
    /\ \/ job[c] = "update" /\ pc[c] = "start" /\ Keeps /\ Works /\ Goto(c, "hincrby")
       \/ pc[c] = "hincrby" /\ Works /\ Writes("session", Fields \cup {"count"}, FALSE) /\ Goto(c, "hset")
       \/ pc[c] = "hset" /\ Works /\ Writes("session", Fields \cup {"active"}, FALSE) /\ Goto(c, "done")
    /\ UNCHANGED <<job, stamp, Own, Logins>>

UpdateChatSession(c) ==
    /\ \/ /\ job[c] = "update" /\ pc[c] = "start" /\ Keeps
          /\ \/ Works /\ Goto(c, IF value["session"] = Gone THEN "done" ELSE "hincrby")
             \/ Fails("session") /\ Goto(c, "done")
       \/ pc[c] = "hincrby" /\ Sets(c, "count", "hset")
       \/ pc[c] = "hset" /\ Sets(c, "active", "done")
    /\ UNCHANGED <<job, stamp, Own, Logins>>

-----------------------------------------------------------------------------
Lapse(k) ==
    /\ k \in mortal
    /\ Writes(k, Gone, FALSE)
    /\ owner' = IF k = "lock" THEN Gone ELSE owner
    /\ Works /\ UNCHANGED <<job, pc, stamp, tries, Logins>>

Next ==
    \/ \E c \in Call : \/ Acquire(c) \/ Leave(c) \/ Release(c)
                       \/ RecordFailedLogin(c) \/ BlockIp(c) \/ ClearFailedLogins(c)
                       \/ CreateChatSession(c) \/ UpdateChatSession(c)
    \/ \E k \in Key : Lapse(k)

Spec == Init /\ [][Next]_vars

-----------------------------------------------------------------------------
TypeOK ==
    /\ \A k \in Counter : value[k] \in Nat \cup {Gone}
    /\ value["lock"] \in Stamp \cup {Gone}
    /\ value["session"] \in (SUBSET Field) \cup {Gone}
    /\ mortal \subseteq {k \in Key : value[k] # Gone}
    /\ job \in [Call -> Job]
    /\ pc \in [Call -> PC]
    /\ stamp \in [Call -> Stamp]
    /\ tries \in [Call -> 0..Retries]
    /\ count \in [Call -> Nat]
    /\ blocked \subseteq Worker
    /\ faults \in 0..MaxFaults
    /\ owner \in Call \cup {Gone}
    /\ failures \in Nat
    /\ excused \subseteq Key

\* Calls that are about to give k its time to live.
Expiring(k) == {c \in Call : <<k, pc[c]>> \in {<<"ip", "expire ip">>, <<"email", "expire email">>,
                                               <<"session", "expire session">>}}

\* Nothing stays in Redis for ever: a key without a time to live is one that
\* a call is about to give one, or a command on it has failed, or the hash
\* lapsed between the commands of an update.  (redis_cache.py:263-295, 330-363)
NothingStaysForever ==
    \A k \in Key : value[k] # Gone /\ k \notin mortal => k \in excused \/ Expiring(k) # {}

\* Limit failures from an address since its counter began lead to its being
\* blocked, however the calls interleave: the one that counts the last of them
\* blocks it, unless the answer of a command on the counter was lost.
\* (security_validator.py:430-446)
FailuresLeadToABlock ==
    failures >= Limit => \/ "ip" \in excused \/ blocked # {}
                         \/ \E c \in Call : count[c] >= Limit /\ pc[c] \notin {"done", "raised"}

\* A chat session in Redis has all of its fields, unless it lapsed or a
\* command failed while it was updated.  (redis_cache.py:711-739)
SessionsAreWhole == value["session"] \in {Gone, Field} \/ "session" \in excused

\* The lock keeps the promise of a lease: see LeaseLock.  (redis_cache.py:932-992)
inside == {c \in Call : pc[c] = "inside"}
sure == {c \in Call : pc[c] = "delete"}

Lease == INSTANCE LeaseLock WITH Client <- Call, Token <- Stamp, Nobody <- Gone, token <- stamp

KeepsTheLease == Lease!Spec
=============================================================================
