---------------------------- MODULE RedisBreaker ----------------------------
(***************************************************************************)
(* The circuit breaker in front of Redis, kept in Redis itself             *)
(* (app/core/redis_client.py): execute_redis_operation, get_redis and the  *)
(* lazy init_redis, with the three keys circuit_breaker:redis:open,        *)
(* :failures and :last_failure shared by all worker processes.             *)
(*                                                                         *)
(* Every Redis command is an action.  Any of them may fail, and a command  *)
(* that fails may have been carried out.  A counter at or above the        *)
(* threshold is kept at the threshold, an age at or above the timeout at   *)
(* the timeout: the code tells no more apart.                              *)
(***************************************************************************)
EXTENDS Naturals, FiniteSets

CONSTANTS
    Task,       \* operations under way at the same time
    Process,    \* worker processes
    ProcessOf,  \* ProcessOf[t]: the process that runs task t
    Respectful, \* tasks that pass allow_circuit_breaker=True
    Probe,      \* tasks that run check_redis_health
    Threshold,  \* CIRCUIT_BREAKER_THRESHOLD
    Timeout,    \* CIRCUIT_BREAKER_TIMEOUT_SECONDS
    KeyTtl,     \* expiry of :open and :failures
    Absent      \* the value of a key that does not exist

ASSUME TaskAssumption == ProcessOf \in [Task -> Process] /\ Respectful \subseteq Task
                         /\ Probe \subseteq Respectful
ASSUME BreakerAssumption == /\ Threshold \in Nat \ {0} /\ Timeout \in Nat \ {0}
                            /\ KeyTtl \in Nat \ {0} /\ Absent \notin Nat

VARIABLES
    open,      \* does :open exist?
    openTtl,   \* what is left of its expiry; 0 is none
    failures,  \* :failures, 0 when the key does not exist
    failTtl,   \* what is left of its expiry; 0 is none
    age,       \* time since :last_failure, or Absent
    client,    \* client[p]: _redis_client and _is_initialized of process p
    pc,        \* pc[t]: the next command of task t
    round,     \* round[t]: the breaker is asked twice, by two functions;
               \* 3 once the operation has been carried out
    tally,     \* tally[t]: the failure count that incr answered
    \* history
    dirty,     \* was a failure counted since the last undisturbed reset?
    disturbed  \* tasks whose reset overlaps the noting of a failure

keys == <<open, openTtl, failures, failTtl, age>>
ghosts == <<dirty, disturbed>>
vars == <<open, openTtl, failures, failTtl, age, client, pc, round, tally, dirty, disturbed>>

Asking    == {"getOpen", "getLast", "halfOpen"}
Resetting == {"delFailures", "delLast"}
Noting    == {"setLast", "expireFailures", "setOpen", "expireOpen"}
PC == {"idle", "refused", "connect", "ping", "operate", "delOpen", "incr"}
        \cup Asking \cup Resetting \cup Noting

Init ==
    /\ open = FALSE /\ openTtl = 0
    /\ failures = 0 /\ failTtl = 0
    /\ age = Absent
    /\ client = [p \in Process |-> "none"]
    /\ pc = [t \in Task |-> "idle"]
    /\ round = [t \in Task |-> 1]
    /\ tally = [t \in Task |-> 0]
    /\ dirty = FALSE
    /\ disturbed = {}

Goto(t, label) == pc' = [pc EXCEPT ![t] = label]

DropOpen     == open' = FALSE /\ openTtl' = 0
DropFailures == failures' = 0 /\ failTtl' = 0

-----------------------------------------------------------------------------
\* execute_redis_operation asks the breaker if its caller wants it to, and
\* get_redis, which it calls next, asks in any case.
Begin(t) ==
    /\ pc[t] = "idle"
    /\ Goto(t, "getOpen")
    /\ round' = [round EXCEPT ![t] = IF t \in Respectful THEN 1 ELSE 2]
    /\ UNCHANGED <<keys, client, tally, ghosts>>

\* The breaker lets the task on: to the second check, to init_redis, or to the
\* operation itself.
Admit(t) ==
    /\ Goto(t, IF round[t] = 1 THEN "getOpen"
               ELSE IF client[ProcessOf[t]] = "ready" THEN "operate" ELSE "connect")
    /\ round' = [round EXCEPT ![t] = 2]

\* _should_attempt_circuit_breaker_redis.  Without a client, without the key, or
\* after an error, the task is let on.
GetOpen(t) ==
    /\ pc[t] = "getOpen"
    /\ \/ open /\ client[ProcessOf[t]] # "none" /\ Goto(t, "getLast") /\ UNCHANGED round
       \/ Admit(t)
    /\ UNCHANGED <<keys, client, tally, ghosts>>

\* Faulty variant of GetLast: an open breaker waits for its key to expire.
NeverHalfOpen(t) ==
    /\ pc[t] = "getLast"
    /\ Goto(t, "refused")
    /\ UNCHANGED <<keys, client, round, tally, ghosts>>

GetLast(t) ==
    /\ pc[t] = "getLast"
    /\ \/ age # Absent /\ age < Timeout /\ Goto(t, "refused") /\ UNCHANGED round
       \/ age = Timeout /\ Goto(t, "halfOpen") /\ UNCHANGED round
       \/ Admit(t)
    /\ UNCHANGED <<keys, client, tally, ghosts>>

\* The timeout is over: the flag goes, the failure count stays.
HalfOpen(t) ==
    /\ pc[t] = "halfOpen"
    /\ DropOpen \/ UNCHANGED <<open, openTtl>>
    /\ Admit(t)
    /\ UNCHANGED <<failures, failTtl, age, client, tally, ghosts>>

\* The fallback value is returned.
Refuse(t) ==
    /\ pc[t] = "refused"
    /\ Goto(t, "idle")
    /\ UNCHANGED <<keys, client, round, tally, ghosts>>

\* init_redis holds _init_lock from the creation of the client to the end of the
\* reset that follows the first ping.
Initializing(t) == pc[t] \in {"ping", "delOpen"} \cup Resetting /\ round[t] = 2

Connect(t) ==
    /\ pc[t] = "connect"
    /\ ~ \E u \in Task : ProcessOf[u] = ProcessOf[t] /\ Initializing(u)
    /\ IF client[ProcessOf[t]] = "ready"
       THEN Goto(t, "operate") /\ UNCHANGED client
       ELSE Goto(t, "ping") /\ client' = [client EXCEPT ![ProcessOf[t]] = "made"]
    /\ UNCHANGED <<keys, round, tally, ghosts>>

\* Three attempts at most; only the health check notes that all of them failed.
Ping(t) ==
    /\ pc[t] = "ping"
    /\ \/ /\ client' = [client EXCEPT ![ProcessOf[t]] = "ready"]
          /\ Goto(t, "delOpen")
       \/ /\ Goto(t, IF t \in Probe THEN "incr" ELSE "idle")
          /\ UNCHANGED client
    /\ UNCHANGED <<keys, round, tally, ghosts>>

\* The operation succeeds, loses the connection, or fails in some other way,
\* which only the health check notes.
Operate(t) ==
    /\ pc[t] = "operate"
    /\ Goto(t, "delOpen") \/ Goto(t, "incr") \/ (t \notin Probe /\ Goto(t, "idle"))
    /\ round' = [round EXCEPT ![t] = 3]
    /\ UNCHANGED <<keys, client, tally, ghosts>>

-----------------------------------------------------------------------------
\* _reset_circuit_breaker_redis: three deletes; the first that fails ends it,
\* and the task goes on all the same.
AfterReset(t) == IF round[t] = 3 THEN "idle" ELSE "operate"

NotingNow == \E t \in Task : pc[t] \in Noting

DelOpen(t) ==
    /\ pc[t] = "delOpen"
    /\ \/ DropOpen /\ Goto(t, "delFailures")
       \/ (DropOpen \/ UNCHANGED <<open, openTtl>>) /\ Goto(t, AfterReset(t))
    /\ disturbed' = IF NotingNow THEN disturbed \cup {t} ELSE disturbed \ {t}
    /\ UNCHANGED <<failures, failTtl, age, client, round, tally, dirty>>

\* Faulty variant of DelFailures: the count survives the reset.
FailuresKept(t) ==
    /\ pc[t] = "delFailures"
    /\ Goto(t, "delLast")
    /\ UNCHANGED <<keys, client, round, tally, ghosts>>

DelFailures(t) ==
    /\ pc[t] = "delFailures"
    /\ \/ DropFailures /\ Goto(t, "delLast")
       \/ (DropFailures \/ UNCHANGED <<failures, failTtl>>) /\ Goto(t, AfterReset(t))
    /\ UNCHANGED <<open, openTtl, age, client, round, tally, ghosts>>

DelLast(t) ==
    /\ pc[t] = "delLast"
    /\ \/ /\ age' = Absent
          /\ dirty' = (dirty /\ t \in disturbed)
       \/ UNCHANGED <<age, dirty>>
    /\ Goto(t, AfterReset(t))
    /\ UNCHANGED <<open, openTtl, failures, failTtl, client, round, tally, disturbed>>

-----------------------------------------------------------------------------
\* _record_circuit_breaker_failure_redis.  Any command that fails ends it, and
\* what it had done so far stays done.
LesserOf(a, b) == IF a < b THEN a ELSE b
OneMore == LesserOf(failures + 1, Threshold)

NoteFailure ==
    /\ dirty' = TRUE
    /\ disturbed' = disturbed \cup {t \in Task : pc[t] \in Resetting}

\* Faulty variant of Incr: the count before the failure is the one compared.
IncrLate(t) ==
    /\ pc[t] = "incr"
    /\ failures' = OneMore
    /\ tally' = [tally EXCEPT ![t] = failures]
    /\ Goto(t, "setLast")
    /\ NoteFailure
    /\ UNCHANGED <<open, openTtl, failTtl, age, client, round>>

Incr(t) ==
    /\ pc[t] = "incr"
    /\ \/ failures' = OneMore /\ tally' = [tally EXCEPT ![t] = OneMore] /\ Goto(t, "setLast")
       \/ failures' \in {failures, OneMore} /\ UNCHANGED tally /\ Goto(t, "idle")
    /\ NoteFailure
    /\ UNCHANGED <<open, openTtl, failTtl, age, client, round>>

SetLast(t) ==
    /\ pc[t] = "setLast"
    /\ \/ age' = 0 /\ Goto(t, "expireFailures")
       \/ age' \in {age, 0} /\ Goto(t, "idle")
    /\ UNCHANGED <<open, openTtl, failures, failTtl, client, round, tally, ghosts>>

\* expire does nothing to a key that is gone.
ExpireFailures(t) ==
    /\ pc[t] = "expireFailures"
    /\ \/ /\ failTtl' = IF failures = 0 THEN 0 ELSE KeyTtl
          /\ Goto(t, IF tally[t] >= Threshold THEN "setOpen" ELSE "idle")
       \/ UNCHANGED failTtl /\ Goto(t, "idle")
    /\ UNCHANGED <<open, openTtl, failures, age, client, round, tally, ghosts>>

\* set takes the expiry of the key away.
SetOpen(t) ==
    /\ pc[t] = "setOpen"
    /\ \/ open' = TRUE /\ openTtl' = 0 /\ (Goto(t, "expireOpen") \/ Goto(t, "idle"))
       \/ UNCHANGED <<open, openTtl>> /\ Goto(t, "idle")
    /\ UNCHANGED <<failures, failTtl, age, client, round, tally, ghosts>>

ExpireOpen(t) ==
    /\ pc[t] = "expireOpen"
    /\ openTtl' \in {openTtl, IF open THEN KeyTtl ELSE 0}
    /\ Goto(t, "idle")
    /\ UNCHANGED <<open, failures, failTtl, age, client, round, tally, ghosts>>

-----------------------------------------------------------------------------
Tick ==
    /\ age' = IF age = Absent THEN Absent ELSE LesserOf(age + 1, Timeout)
    /\ open' = (open /\ openTtl # 1)
    /\ failures' = IF failTtl = 1 THEN 0 ELSE failures
    /\ openTtl' = IF openTtl = 0 THEN 0 ELSE openTtl - 1
    /\ failTtl' = IF failTtl = 0 THEN 0 ELSE failTtl - 1
    /\ UNCHANGED <<client, pc, round, tally, ghosts>>

\* close_redis, or the end of the process without it.
Restart(p) ==
    /\ client' = [client EXCEPT ![p] = "none"]
    /\ pc' = [t \in Task |-> IF ProcessOf[t] = p THEN "idle" ELSE pc[t]]
    /\ UNCHANGED <<keys, round, tally, ghosts>>

Step(t) ==
    \/ Begin(t) \/ GetOpen(t) \/ GetLast(t) \/ HalfOpen(t) \/ Refuse(t)
    \/ Connect(t) \/ Ping(t) \/ Operate(t)
    \/ DelOpen(t) \/ DelFailures(t) \/ DelLast(t)
    \/ Incr(t) \/ SetLast(t) \/ ExpireFailures(t) \/ SetOpen(t) \/ ExpireOpen(t)

Next == Tick \/ (\E t \in Task : Step(t)) \/ (\E p \in Process : Restart(p))

Spec == Init /\ [][Next]_vars

\* Time passes.  Nothing is asked of the tasks: they may stop anywhere.
FairSpec == Spec /\ WF_vars(Tick)

-----------------------------------------------------------------------------
(* Type invariant.  Only a key that exists has an expiry. *)
TypeOK ==
    /\ open \in BOOLEAN /\ openTtl \in 0..KeyTtl /\ (openTtl # 0 => open)
    /\ failures \in 0..Threshold /\ failTtl \in 0..KeyTtl /\ (failTtl # 0 => failures # 0)
    /\ age \in (0..Timeout) \cup {Absent}
    /\ client \in [Process -> {"none", "made", "ready"}]
    /\ pc \in [Task -> PC]
    /\ round \in [Task -> 1..3]
    /\ tally \in [Task -> 0..Threshold]
    /\ \A t \in Task : pc[t] \in Noting => tally[t] # 0
    /\ dirty \in BOOLEAN
    /\ disturbed \subseteq Task

(* A reset that no noting of a failure overlaps closes the breaker for good: *)
(* until the next failure is counted, no process finds the flag, an old      *)
(* count that would make the next failure open it, or an old time stamp,     *)
(* whatever the other tasks were in the middle of (redis_client.py:90-101).  *)
CleanIsClosed ==
    ~dirty => ~open /\ failures = 0 /\ age = Absent

(* An open breaker never cuts Redis off for good: if operations go on being  *)
(* refused, some task goes on reaching for Redis (an operation, or the ping  *)
(* of a new client), although the flag has no expiry when the process ends,  *)
(* or Redis fails, between set and expire (redis_client.py:134-135, 171-183).*)
ProbesGoOn ==
    []<><<\E t \in Task : Refuse(t)>>_vars => []<><<\E t \in Task : Operate(t) \/ Ping(t)>>_vars
=============================================================================
