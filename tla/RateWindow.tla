----------------------------- MODULE RateWindow -----------------------------
(***************************************************************************)
(* The sliding-window rate limiter: SecurityValidator.check_rate_limit     *)
(* (security_validator.py), RateLimitMiddleware._check_rate_limit          *)
(* (rate_limit.py) and CacheService.check_rate_limit (redis_cache.py) are  *)
(* three copies of one algorithm over a Redis sorted set per key.          *)
(*                                                                         *)
(* Every Redis command is a round trip of its own, so the requests that    *)
(* the workers serve interleave between them.  A caller passes the keys of *)
(* its route one after the other (a chat request: its session, then its    *)
(* address).  Time is counted in ticks, TicksPerSecond of them a second.   *)
(***************************************************************************)
EXTENDS Integers, Sequences, FiniteSets

CONSTANTS
    Worker,         \* what serves requests at the same time
    Caller,         \* who sends them
    Key,            \* sorted sets in Redis
    Route,          \* Route[c]: the keys a request of c is checked against
    Limit,          \* Limit[k]: max_requests
    Window,         \* Window[k]: window_seconds, in ticks
    Slack,          \* Slack[k]: what is added to the window for the key's ttl
    TicksPerSecond,
    MaxStall,       \* a check is over before it is this old (socket timeouts)
    MaxTime         \* bound on the clock

ASSUME RouteAssumption == /\ Route \in [Caller -> Seq(Key) \ {<<>>}]
                          /\ Limit \in [Key -> Nat \ {0}]
ASSUME TimeAssumption ==
    /\ Window \in [Key -> Nat \ {0}] /\ Slack \in [Key -> Nat]
    /\ TicksPerSecond \in Nat \ {0} /\ MaxTime \in Nat \ {0}
    /\ MaxStall \in Nat \ {0}
    /\ \A k \in Key : MaxStall < Window[k] /\ TicksPerSecond <= Window[k]
ASSUME WorkerAssumption == IsFiniteSet(Worker)

VARIABLES
    now,      \* the clock
    pc,       \* pc[w]: the next Redis command of worker w
    caller,   \* caller[w]: whose request w serves
    pos,      \* pos[w]: position in the caller's route
    stamp,    \* stamp[w]: current_time of the check in progress
    zset,     \* zset[k]: members (= scores) of the sorted set; {} is no key
    ttl,      \* ttl[k]: when Redis drops the key; 0 is never
    \* history
    granted,  \* granted[k]: stamps of the requests let through and recorded
    torn,     \* keys for which a check broke off, or the ttl ran out, in
              \* between a zadd and its expire
    denial    \* denial[k]: the last denial: its stamp, and the wait it named

workerVars == <<pc, caller, pos, stamp>>
vars == <<now, pc, caller, pos, stamp, zset, ttl, granted, torn, denial>>

PC == {"idle", "trim", "count", "oldest", "add", "expire"}

KeyOf(w) == Route[caller[w]][pos[w]]

\* zremrangebyscore(key, 0, window_start) leaves these.
Within(stamps, t, width) == {e \in stamps : e > t - width}

-----------------------------------------------------------------------------
Init ==
    /\ now = 1
    /\ pc = [w \in Worker |-> "idle"]
    /\ caller \in [Worker -> Caller]
    /\ pos = [w \in Worker |-> 1]
    /\ stamp = [w \in Worker |-> 0]
    /\ zset = [k \in Key |-> {}]
    /\ ttl = [k \in Key |-> 0]
    /\ granted = [k \in Key |-> {}]
    /\ torn = {}
    /\ denial = [k \in Key |-> [at |-> 0, wait |-> 1]]

\* A request arrives and its first check reads the clock.  Two workers may read
\* the same time (their entries then share a member); one worker never does.
Arrive(w, c) ==
    /\ pc[w] = "idle"
    /\ stamp[w] < now
    /\ pc' = [pc EXCEPT ![w] = "trim"]
    /\ caller' = [caller EXCEPT ![w] = c]
    /\ pos' = [pos EXCEPT ![w] = 1]
    /\ stamp' = [stamp EXCEPT ![w] = now]
    /\ UNCHANGED <<now, zset, ttl, granted, torn, denial>>

\* Faulty variant of Pass: the end of the route is overlooked.
PassOn(w) ==
    /\ pc' = [pc EXCEPT ![w] = "trim"]
    /\ pos' = [pos EXCEPT ![w] = @ + 1]
    /\ stamp' = [stamp EXCEPT ![w] = now]
    /\ UNCHANGED caller

\* The key lets the request through: on to the next key of the route.
Pass(w) ==
    /\ IF pos[w] < Len(Route[caller[w]])
       THEN /\ pc' = [pc EXCEPT ![w] = "trim"]
            /\ pos' = [pos EXCEPT ![w] = @ + 1]
            /\ stamp' = [stamp EXCEPT ![w] = now]
       ELSE /\ pc' = [pc EXCEPT ![w] = "idle"]
            /\ UNCHANGED <<pos, stamp>>
    /\ UNCHANGED caller

Continue(w, label) ==
    /\ pc' = [pc EXCEPT ![w] = label]
    /\ UNCHANGED <<caller, pos, stamp>>

\* Redis deletes a sorted set, ttl and all, when its last member goes.
Store(k, members) ==
    /\ zset' = [zset EXCEPT ![k] = members]
    /\ ttl' = IF members = {} THEN [ttl EXCEPT ![k] = 0] ELSE ttl

\* Faulty variant of Trim: nothing is removed.
TrimNothing(w) ==
    /\ pc[w] = "trim"
    /\ Continue(w, "count")
    /\ UNCHANGED <<now, zset, ttl, granted, torn, denial>>

Trim(w) ==
    /\ pc[w] = "trim"
    /\ Store(KeyOf(w), Within(zset[KeyOf(w)], stamp[w], Window[KeyOf(w)]))
    /\ Continue(w, "count")
    /\ UNCHANGED <<now, granted, torn, denial>>

\* Faulty variant of Count: one request more than the limit is let in.
CountLoosely(w) ==
    /\ pc[w] = "count"
    /\ Continue(w, IF Cardinality(zset[KeyOf(w)]) > Limit[KeyOf(w)] THEN "oldest" ELSE "add")
    /\ UNCHANGED <<now, zset, ttl, granted, torn, denial>>

Count(w) ==
    /\ pc[w] = "count"
    /\ Continue(w, IF Cardinality(zset[KeyOf(w)]) >= Limit[KeyOf(w)] THEN "oldest" ELSE "add")
    /\ UNCHANGED <<now, zset, ttl, granted, torn, denial>>

LongerOf(a, b) == IF a > b THEN a ELSE b

\* Faulty variant of WaitSeconds: the moment is named, not the distance to it.
WaitAbsolute(w) ==
    LET k == KeyOf(w)
        oldest == CHOOSE e \in zset[k] : \A f \in zset[k] : e <= f
    IN  IF zset[k] = {}
        THEN Window[k] \div TicksPerSecond
        ELSE LongerOf(1, (oldest + Window[k]) \div TicksPerSecond)

\* The denial: when will the oldest entry leave the window, in whole seconds?
\* A set that emptied in the meantime makes it the whole window.
WaitSeconds(w) ==
    LET k == KeyOf(w)
        oldest == CHOOSE e \in zset[k] : \A f \in zset[k] : e <= f
    IN  IF zset[k] = {}
        THEN Window[k] \div TicksPerSecond
        ELSE LongerOf(1, (oldest + Window[k] - stamp[w]) \div TicksPerSecond)

Deny(w) ==
    /\ pc[w] = "oldest"
    /\ denial' = [denial EXCEPT ![KeyOf(w)] = [at |-> stamp[w], wait |-> WaitSeconds(w)]]
    /\ Continue(w, "idle")
    /\ UNCHANGED <<now, zset, ttl, granted, torn>>

\* zadd, and the ttl that is set by a command of its own.
Add(w) ==
    /\ pc[w] = "add"
    /\ zset' = [zset EXCEPT ![KeyOf(w)] = @ \cup {stamp[w]}]
    /\ granted' = [granted EXCEPT ![KeyOf(w)] = @ \cup {stamp[w]}]
    /\ Continue(w, "expire")
    /\ UNCHANGED <<now, ttl, torn, denial>>

\* Faulty variant of Expire: the ttl falls short of the window.
ExpireEarly(w) ==
    /\ pc[w] = "expire"
    /\ ttl' = IF zset[KeyOf(w)] = {} THEN ttl
              ELSE [ttl EXCEPT ![KeyOf(w)] = now + Window[KeyOf(w)] - 1]
    /\ Pass(w)
    /\ UNCHANGED <<now, zset, granted, torn, denial>>

Expire(w) ==
    /\ pc[w] = "expire"
    /\ ttl' = IF zset[KeyOf(w)] = {} THEN ttl
              ELSE [ttl EXCEPT ![KeyOf(w)] = now + Window[KeyOf(w)] + Slack[KeyOf(w)]]
    /\ Pass(w)
    /\ UNCHANGED <<now, zset, granted, torn, denial>>

\* Any Redis error fails open: the key lets the request through.  A zadd whose
\* answer is lost may have happened, and its expire never will.
RedisFails(w) ==
    /\ pc[w] # "idle"
    /\ \/ UNCHANGED <<zset, granted>>
       \/ /\ pc[w] = "add"
          /\ zset' = [zset EXCEPT ![KeyOf(w)] = @ \cup {stamp[w]}]
          /\ granted' = [granted EXCEPT ![KeyOf(w)] = @ \cup {stamp[w]}]
    /\ torn' = IF pc[w] \in {"add", "expire"} THEN torn \cup {KeyOf(w)} ELSE torn
    /\ Pass(w)
    /\ UNCHANGED <<now, ttl, denial>>

\* The clock moves on; a key whose ttl is over is gone.
Tick ==
    /\ now < MaxTime
    /\ \A w \in Worker : pc[w] # "idle" => now - stamp[w] < MaxStall
    /\ now' = now + 1
    /\ zset' = [k \in Key |-> IF ttl[k] \in 1..now' THEN {} ELSE zset[k]]
    /\ ttl' = [k \in Key |-> IF ttl[k] \in 1..now' THEN 0 ELSE ttl[k]]
    /\ torn' = torn \cup {KeyOf(w) : w \in {w \in Worker : /\ pc[w] = "expire"
                                                          /\ ttl[KeyOf(w)] \in 1..now'}}
    /\ UNCHANGED <<workerVars, granted, denial>>

Step(w) == \/ \E c \in Caller : Arrive(w, c)
           \/ Trim(w) \/ Count(w) \/ Deny(w) \/ Add(w) \/ Expire(w) \/ RedisFails(w)

Next == Tick \/ \E w \in Worker : Step(w)

Spec == Init /\ [][Next]_vars

-----------------------------------------------------------------------------
(* Type invariant. *)
Time == 0..MaxTime
TypeOK ==
    /\ now \in Time
    /\ pc \in [Worker -> PC]
    /\ caller \in [Worker -> Caller]
    /\ pos \in [Worker -> Nat \ {0}]
    /\ \A w \in Worker : pos[w] <= Len(Route[caller[w]])
    /\ stamp \in [Worker -> Time]
    /\ zset \in [Key -> SUBSET Time]
    /\ ttl \in [Key -> Nat]
    /\ granted \in [Key -> SUBSET Time]
    /\ torn \subseteq Key
    /\ denial \in [Key -> [at : Time, wait : Nat \ {0}]]

(* The check is not atomic, but it overshoots by the concurrency at most: of  *)
(* the stamps of any window, shortened by the longest a check can take, no   *)
(* more are let through than the limit and one for every other worker        *)
(* (security_validator.py:80-144).                                           *)
Recent(k, t) == {s \in granted[k] : t - (Window[k] - MaxStall) < s /\ s <= t}
AdmittedWithinLimit ==
    \A k \in Key \ torn : \A t \in granted[k] :
        Cardinality(Recent(k, t)) < Limit[k] + Cardinality(Worker)

(* A denial has a cause: as many requests as the limit were let through      *)
(* within the window that ends when the denied one was stamped, or later.    *)
(* Denied requests, and requests older than the window, do not count.        *)
DenialHasCause ==
    \A w \in Worker :
        pc[w] = "oldest"
            => Cardinality(Within(granted[KeyOf(w)], stamp[w], Window[KeyOf(w)]))
                 >= Limit[KeyOf(w)]

(* Redis drops a key only when none of its entries is in the window any more, *)
(* but for an entry whose expire is still under way.                         *)
ExpiryLosesNothing ==
    \A k \in Key \ torn : \A e \in zset[k] :
        \/ ttl[k] >= e + Window[k]
        \/ \E w \in Worker : pc[w] = "expire" /\ KeyOf(w) = k /\ stamp[w] = e

(* A denial is for the length of the window at most: although the entry that *)
(* the wait is reckoned from may be younger than the denied request, the     *)
(* caller is never sent away for longer than the window and one stall        *)
(* (security_validator.py:118-124).                                          *)
WaitIsBounded ==
    \A k \in Key : denial[k].wait * TicksPerSecond <= Window[k] + MaxStall
=============================================================================
