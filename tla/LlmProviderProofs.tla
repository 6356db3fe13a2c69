-------------------------- MODULE LlmProviderProofs -------------------------
(***************************************************************************)
(* Theorems about LlmProvider for any number of tasks, any threshold and   *)
(* reset time, and any number of retries.                                  *)
(***************************************************************************)
EXTENDS LlmProvider, TLAPS

-----------------------------------------------------------------------------
(* The lifespan. *)

\* From the second step on the database is open; what has had its turn in the
\* shutdown is closed, or its closing has raised.  Calls are under way only while
\* the process is up, so that no client is made after the step that closes it.
Orderly ==
    /\ phase \in Phase /\ held \subseteq Connection /\ spared \subseteq Connection
    /\ phase \in {"redis", "providers", "rag", "services", "up"} => "engine" \in held
    /\ phase = "up" => "session" \in held
    /\ phase \in {"close_llm", "close_redis", "close_database", "down"} => ("session" \in held => "session" \in spared)
    /\ phase \in {"close_redis", "close_database", "down"} => ("llm" \in held => "llm" \in spared)
    /\ phase \in {"close_database", "down"} => ("redis" \in held => "redis" \in spared)
    /\ phase = "down" => ("engine" \in held => "engine" \in spared)
    /\ \A t \in Task : pc[t] # "idle" => phase = "up"

LEMMA OrderlyInit == Init => Orderly
BY DEF Init, Orderly, Phase, After

LEMMA OrderlyStep == Orderly /\ [Next]_vars => Orderly'
<1> SUFFICES ASSUME Orderly, [Next]_vars
             PROVE  Orderly'
    OBVIOUS
<1> USE DEF Phase, After, Opened, Closed
<1>1. CASE Start
    <2>1. phase \in {"database", "redis", "providers"}
        BY <1>1 DEF Start
    <2>0. Opened[phase] \in Connection
        BY <2>1 DEF Connection
    <2>2. held \subseteq held' /\ held' \subseteq Connection /\ spared' = spared /\ pc' = pc
        BY <1>1, <2>0 DEF Start, Orderly, calls
    <2>3. CASE phase = "database"
        <3>1. phase' = "failed" \/ (phase' = "redis" /\ "engine" \in held')
            BY <1>1, <2>3 DEF Start
        <3> QED
            BY <2>2, <2>3, <3>1 DEF Orderly
    <2>4. CASE phase = "redis"
        <3>1. phase' = "providers"
            BY <1>1, <2>4 DEF Start
        <3> QED
            BY <2>2, <2>4, <3>1 DEF Orderly
    <2>5. CASE phase = "providers"
        <3>1. phase' = "rag"
            BY <1>1, <2>5 DEF Start
        <3> QED
            BY <2>2, <2>5, <3>1 DEF Orderly
    <2> QED
        BY <2>1, <2>3, <2>4, <2>5
<1>8. CASE LoadRag
    BY <1>8 DEF LoadRag, Orderly, calls
<1>2. CASE StartServices
    BY <1>2 DEF StartServices, Orderly, Connection, calls
<1>3. CASE Stop
    BY <1>3 DEF Stop, Orderly, calls
<1>4. CASE Close
    <2>1. phase \in {"close_session", "close_llm", "close_redis", "close_database"}
        BY <1>4 DEF Close
    <2>2. /\ held' \subseteq held /\ spared \subseteq spared'
          /\ Closed[phase] \in held' => Closed[phase] \in spared'
        BY <1>4 DEF Close
    <2>0. Closed[phase] \in Connection
        BY <2>1 DEF Connection
    <2>3. spared' \subseteq Connection
        BY <1>4, <2>0 DEF Close, Orderly
    <2>4. phase' = After[phase] /\ pc' = pc
        BY <1>4 DEF Close, calls
    <2> QED
        BY <2>1, <2>2, <2>3, <2>4 DEF Orderly
<1>5. CASE Restart
    BY <1>5 DEF Restart, Orderly
<1>6. CASE Tick \/ UNCHANGED vars
    BY <1>6 DEF Tick, vars, process, calls, Orderly
<1>7. ASSUME NEW t \in Task, Call(t) \/ Generate(t)
      PROVE  Orderly'
    <2>1. phase = "up"
        BY <1>7 DEF Call, Generate, Check, Refuse, Answer, Look, Pull, AnswerOllama, Wake, Orderly
    <2>2. UNCHANGED process \/ GetClient
        BY <1>7 DEF Call, Generate, Check, Refuse, Answer, Look, Pull, AnswerOllama, Wake
    <2>3. phase' = phase /\ spared' = spared /\ held \subseteq held' /\ held' \subseteq Connection
        BY <2>2 DEF process, GetClient, Orderly, Connection
    <2> QED
        BY <2>1, <2>3 DEF Orderly
<1> QED
    BY <1>1, <1>2, <1>3, <1>4, <1>5, <1>6, <1>7, <1>8 DEF Next

\* When the shutdown is through, only what could not be closed is still open,
\* whichever of its steps raised; and nothing serves without a database.
\* (main.py:54-62, 130-165)
THEOREM ShutdownClosesAll == Spec => []ShutdownIsThorough
<1>1. Spec => []Orderly
    BY OrderlyInit, OrderlyStep, PTL DEF Spec
<1>2. Orderly => ShutdownIsThorough
    BY DEF Orderly, ShutdownIsThorough, Connection
<1> QED
    BY <1>1, <1>2, PTL

-----------------------------------------------------------------------------
(* Types.  The parts of the state that the steps change apart. *)

Calling == /\ pc \in [Task -> PC] /\ attempt \in [Task -> 0..MaxRetries]
           /\ sleep \in [Task -> Nat]
Serving == loaded \in BOOLEAN /\ present \in BOOLEAN /\ (loaded => present)

\* Every bad answer counts once or twice, up to the count that is kept; the age
\* of the last failure is that of the last bad answer.
Breaking ==
    /\ open \in BOOLEAN /\ failures \in Nat /\ age \in Ages
    /\ answered \in 0..Threshold /\ quiet = age
    /\ failures <= 2 * answered \/ answered = Threshold
    /\ open => age # Never /\ failures >= Threshold

Refusing == refusal \in [answered : 0..Threshold, quiet : Ages] /\ RefusalHasCause

\* The invariant: kinds do not change, and every part is sound.
IInv == kind \in {"gemini", "ollama"} /\ Orderly /\ Calling /\ Serving /\ Breaking /\ Refusing

LEMMA IInvInit == Init => IInv
<1> SUFFICES ASSUME Init
             PROVE  IInv
    OBVIOUS
<1> USE BreakerAssumption, RetryAssumption DEF Init
<1>1. Calling
    BY DEF Calling, PC
<1>4. Serving
    BY DEF Serving
<1>5. Never \in Ages /\ 0 \in 0..Threshold /\ 0 <= 2 * 0
    BY DEF Ages
<1>2. Breaking
    BY <1>5 DEF Breaking
<1>3. Refusing
    BY DEF Refusing, RefusalHasCause, Ages, Never
<1> QED
    BY <1>1, <1>2, <1>3, <1>4, OrderlyInit DEF IInv

\* Another attempt or the end keeps the types.
LEMMA RetryTypes ==
    ASSUME NEW t \in Task, Calling, Retry(t) \/ Ends(t)
    PROVE  Calling'
<1>1. CASE attempt[t] < MaxRetries /\ Retry(t)
    <2>1. attempt[t] + 1 \in 0..MaxRetries /\ 2 ^ attempt[t] \in Nat
        BY <1>1, RetryAssumption, PauseAssumption DEF Calling
    <2> QED
        BY <1>1, <2>1 DEF Retry, Goto, Calling, PC
<1>2. CASE ~(attempt[t] < MaxRetries) \/ Ends(t)
    BY <1>2, RetryAssumption DEF Retry, Ends, Goto, Calling, PC
<1> QED
    BY <1>1, <1>2

LEMMA GoesTypes ==
    ASSUME NEW t \in Task, NEW label \in PC, Calling, Goes(t, label)
    PROVE  Calling'
BY DEF Goes, Goto, Calling

LEMMA CallingStep ==
    ASSUME IInv, [Next]_vars
    PROVE  Calling'
<1> USE DEF IInv
<1>1. ASSUME NEW t \in Task, Call(t) \/ Check(t) \/ Wake(t)
      PROVE  Calling'
    BY <1>1, GoesTypes DEF Call, Check, Wake, PC
<1>2. ASSUME NEW t \in Task, Refuse(t) \/ Answer(t) \/ AnswerOllama(t)
      PROVE  Calling'
    BY <1>2, RetryTypes DEF Refuse, Answer, AnswerOllama
<1>3. ASSUME NEW t \in Task, Look(t) \/ Pull(t)
      PROVE  Calling'
    BY <1>3, RetryTypes, GoesTypes DEF Look, Pull, PC
<1>4. CASE Restart
    BY <1>4, RetryAssumption DEF Restart, Calling, PC
<1>5. CASE Tick
    BY <1>5 DEF Tick, Calling
<1>6. ASSUME Start \/ LoadRag \/ StartServices \/ Stop \/ Close \/ UNCHANGED vars
      PROVE  Calling'
    BY <1>6 DEF Start, LoadRag, StartServices, Stop, Close, vars, calls, Calling
<1> QED
    BY <1>1, <1>2, <1>3, <1>4, <1>5, <1>6 DEF Next, Generate

LEMMA ServingStep ==
    ASSUME IInv, [Next]_vars
    PROVE  Serving' /\ kind' = kind
<1> USE DEF IInv, Serving
<1>1. ASSUME NEW t \in Task, Call(t) \/ Check(t) \/ Refuse(t) \/ Answer(t) \/ AnswerOllama(t) \/ Wake(t)
      PROVE  Serving' /\ kind' = kind
    BY <1>1 DEF Call, Check, Refuse, Answer, AnswerOllama, Wake, server
<1>2. ASSUME NEW t \in Task, Look(t) \/ Pull(t)
      PROVE  Serving' /\ kind' = kind
    <2>1. CASE Look(t)
        BY <2>1 DEF Look
    <2>2. CASE Pull(t)
        <3>1. CASE present' = TRUE /\ loaded' \in BOOLEAN
            BY <2>2, <3>1 DEF Pull
        <3>2. CASE present' = present /\ loaded' = loaded
            BY <2>2, <3>2 DEF Pull
        <3> QED
            BY <2>2, <3>1, <3>2 DEF Pull
    <2> QED
        BY <1>2, <2>1, <2>2
<1>3. CASE Restart
    BY <1>3 DEF Restart
<1>4. ASSUME Start \/ LoadRag \/ StartServices \/ Stop \/ Close \/ Tick \/ UNCHANGED vars
      PROVE  Serving' /\ kind' = kind
    BY <1>4 DEF Start, LoadRag, StartServices, Stop, Close, Tick, vars, server
<1> QED
    BY <1>1, <1>2, <1>3, <1>4 DEF Next, Generate

\* A breaker that is closed and counts from nothing.
LEMMA BreakingCleared ==
    ASSUME ~open', failures' = 0, answered' = 0, quiet' = age', age' \in Ages, open' \in BOOLEAN
    PROVE  Breaking'
<1>1. 0 \in 0..Threshold /\ 0 <= 2 * 0
    BY BreakerAssumption
<1> QED
    BY <1>1 DEF Breaking

LEMMA BreakingStep ==
    ASSUME IInv, [Next]_vars
    PROVE  Breaking'
<1> USE BreakerAssumption DEF IInv
<1>1. ASSUME NEW n \in 1..2, Counts(n)
      PROVE  Breaking'
    <2>1. /\ failures' = failures + n /\ age' = 0 /\ quiet' = 0
          /\ open' \in BOOLEAN /\ (open' => failures' >= Threshold)
        BY <1>1 DEF Counts, RecordFailure, Breaking
    <2>2. \/ answered' = answered + 1 /\ answered < Threshold
          \/ answered' = answered /\ answered = Threshold
        BY <1>1 DEF Counts, Breaking
    <2> QED
        BY <2>1, <2>2 DEF Breaking, Ages, Never
<1>0. Never \in Ages
    BY DEF Ages
<1>2. CASE RecordSuccess
    BY <1>0, <1>2, BreakingCleared DEF RecordSuccess
<1>10. CASE UNCHANGED breaker
    BY <1>10 DEF breaker, Breaking
<1>3. ASSUME NEW t \in Task, Check(t)
      PROVE  Breaking'
    <2>1. CASE open
        <3>1. ~open' /\ open' \in BOOLEAN /\ failures' = 0 /\ answered' = 0
            BY <1>3, <2>1 DEF Check
        <3>2. quiet' = age' /\ age' \in Ages
            BY <1>3, <2>1 DEF Check, Breaking
        <3> QED
            BY <3>1, <3>2, BreakingCleared
    <2> QED
        BY <1>3, <1>10, <2>1 DEF Check
<1>4. ASSUME NEW t \in Task, Answer(t)
      PROVE  Breaking'
    <2>1. RecordSuccess \/ UNCHANGED breaker \/ \E n \in 1..2 : Counts(n)
        BY <1>4 DEF Answer
    <2> QED
        BY <1>1, <1>2, <1>10, <2>1
<1>5. CASE Restart
    <2>1. ~open' /\ open' \in BOOLEAN /\ failures' = 0 /\ answered' = 0
        BY <1>5 DEF Restart
    <2>2. quiet' = age' /\ age' \in Ages
        BY <1>0, <1>5 DEF Restart
    <2> QED
        BY <2>1, <2>2, BreakingCleared
<1>6. CASE Tick
    <2>1. quiet' = age' /\ age' \in Ages /\ (age # Never => age' # Never)
        BY <1>6 DEF Tick, Older, Breaking, Ages, Never
    <2> QED
        BY <1>6, <2>1 DEF Tick, Breaking
<1>7. ASSUME NEW t \in Task, Call(t) \/ Refuse(t) \/ Look(t) \/ Pull(t) \/ AnswerOllama(t) \/ Wake(t)
      PROVE  Breaking'
    <2>1. UNCHANGED breaker
        BY <1>7 DEF Call, Refuse, Look, Pull, AnswerOllama, Wake
    <2> QED
        BY <1>10, <2>1
<1>8. ASSUME Start \/ LoadRag \/ StartServices \/ Stop \/ Close \/ UNCHANGED vars
      PROVE  Breaking'
    <2>1. UNCHANGED breaker
        BY <1>8 DEF Start, LoadRag, StartServices, Stop, Close, vars
    <2> QED
        BY <1>10, <2>1
<1> QED
    BY <1>3, <1>4, <1>5, <1>6, <1>7, <1>8 DEF Next, Generate

LEMMA RefusingStep ==
    ASSUME IInv, [Next]_vars
    PROVE  Refusing'
<1> USE BreakerAssumption DEF IInv
<1>1. ASSUME NEW t \in Task, Refuse(t)
      PROVE  Refusing'
    <2>1. open /\ age # Never /\ ~(age >= Reset)
        BY <1>1 DEF Refuse, LetsThrough, Breaking
    <2>2. 2 * answered >= Threshold /\ quiet \in 0..Reset - 1
        BY <2>1 DEF Breaking, Ages, Never
    <2>3. refusal' = [answered |-> answered, quiet |-> quiet]
        BY <1>1 DEF Refuse
    <2> QED
        BY <2>2, <2>3 DEF Refusing, RefusalHasCause, Breaking
<1>2. CASE UNCHANGED refusal
    BY <1>2 DEF Refusing, RefusalHasCause
<1>3. ASSUME NEW t \in Task,
             Call(t) \/ Check(t) \/ Answer(t) \/ Look(t) \/ Pull(t) \/ AnswerOllama(t) \/ Wake(t)
      PROVE  UNCHANGED refusal
    BY <1>3 DEF Call, Check, Answer, Look, Pull, AnswerOllama, Wake
<1>4. ASSUME Start \/ LoadRag \/ StartServices \/ Stop \/ Close \/ Restart \/ Tick \/ UNCHANGED vars
      PROVE  UNCHANGED refusal
    BY <1>4 DEF Start, LoadRag, StartServices, Stop, Close, Restart, Tick, vars, calls
<1> QED
    BY <1>1, <1>2, <1>3, <1>4 DEF Next, Generate

LEMMA Invariant == Spec => []IInv
<1>1. IInv /\ [Next]_vars => IInv'
    BY OrderlyStep, CallingStep, ServingStep, BreakingStep, RefusingStep DEF IInv
<1> QED
    BY IInvInit, <1>1, PTL DEF Spec

\* Types; an open breaker always has a stamp, and so a time at which it lets
\* go; what counts as loaded is on the server.
\* (gemini_provider.py:200-244, ollama_provider.py:123-160)
THEOREM TypeCorrect == Spec => []TypeOK
<1>1. IInv => TypeOK
    BY DEF IInv, Orderly, Calling, Serving, Breaking, Refusing, TypeOK
<1> QED
    BY <1>1, Invariant, PTL

\* A call is refused only after bad answers, half as many as the threshold at
\* least, since the last good one, and less than the reset time after the last
\* of them: refusals neither count nor keep the breaker open.
\* (gemini_provider.py:200-244, 371-393)
THEOREM RefusalsHaveCauses == Spec => []RefusalHasCause
<1>1. IInv => RefusalHasCause
    BY DEF IInv, Refusing
<1> QED
    BY <1>1, Invariant, PTL
=============================================================================
