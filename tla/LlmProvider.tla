----------------------------- MODULE LlmProvider ----------------------------
(***************************************************************************)
(* One worker process: how it starts and stops (the lifespan of            *)
(* app/main.py), and its calls to the language model (GeminiProvider with  *)
(* the breaker it keeps in memory, or OllamaProvider, which pulls its      *)
(* model first).                                                           *)
(*                                                                         *)
(* A call is generate_with_retry; prompts and texts are left out.  Time is *)
(* kept as what is left of a sleep and as the age of the last failure, cut *)
(* off where it no longer makes a difference, so that a finite model is    *)
(* one of all times.  Tasks call again and again.                          *)
(***************************************************************************)
EXTENDS Integers, FiniteSets

CONSTANTS
    Task,        \* tasks of the process that answer chat requests
    Threshold,   \* _circuit_threshold
    Reset,       \* _circuit_reset_seconds
    MaxRetries   \* max_retries

ASSUME BreakerAssumption == Threshold \in Nat \ {0} /\ Reset \in Nat \ {0}
ASSUME RetryAssumption == MaxRetries \in Nat
\* A fact of arithmetic: 2^n is made by recursion on n.
ASSUME PauseAssumption == \A n \in 0..MaxRetries : 2 ^ n \in Nat

Never == -1

VARIABLES
    kind,      \* settings.LLM_PROVIDER
    phase,     \* the step of the lifespan that is next
    held,      \* connections that are open
    pc,        \* pc[t]: where the call of t is
    attempt,   \* attempt[t]: its attempts that failed
    sleep,     \* sleep[t]: seconds until the next one
    open,      \* _circuit_open
    failures,  \* _failure_count
    age,       \* seconds since _last_failure_time, at most Reset; or Never
    loaded,    \* _model_loaded
    present,   \* the Ollama server has the model
    \* history
    spared,    \* connections whose closing raised
    answered,  \* bad answers since a good one, or since the breaker let go; cut at Threshold
    quiet,     \* seconds since the last bad answer, at most Reset; or Never
    refusal    \* answered and quiet of the last call that was refused

breaker == <<open, failures, age, answered, quiet>>
server == <<loaded, present>>
calls == <<pc, attempt, sleep, refusal>>
process == <<phase, held, spared>>
vars == <<kind, process, calls, breaker, server>>

\* The steps of the lifespan, in their order, and what they open and close.
After == [database |-> "redis", redis |-> "providers", providers |-> "rag", rag |-> "services",
          services |-> "up",
          close_session |-> "close_llm", close_llm |-> "close_redis",
          close_redis |-> "close_database", close_database |-> "down"]
Opened == [database |-> "engine", redis |-> "redis", providers |-> "llm"]
Closed == [close_session |-> "session", close_llm |-> "llm",
           close_redis |-> "redis", close_database |-> "engine"]
Phase == DOMAIN After \cup {"up", "down", "failed"}
Connection == {"engine", "redis", "llm", "session"}
PC == {"idle", "attempt", "tags", "pull", "post", "sleep"}

Init ==
    /\ kind \in {"gemini", "ollama"}
    /\ phase = "database" /\ held = {} /\ spared = {}
    /\ pc = [t \in Task |-> "idle"]
    /\ attempt = [t \in Task |-> 0]
    /\ sleep = [t \in Task |-> 0]
    /\ open = FALSE /\ failures = 0 /\ age = Never
    /\ loaded = FALSE /\ present \in BOOLEAN
    /\ answered = 0 /\ quiet = Never
    /\ refusal = [answered |-> Threshold, quiet |-> 0]

-----------------------------------------------------------------------------
\* The lifespan.

\* What opens a connection may raise before or after it is open.  Redis and the
\* providers can be done without; without the database there is no start.
Start ==
    /\ phase \in DOMAIN Opened
    /\ \/ held' = held \cup {Opened[phase]} /\ phase' = After[phase]
       \/ /\ held' \in {held, held \cup {Opened[phase]}}
          /\ phase' = IF phase = "database" THEN "failed" ELSE After[phase]
    /\ UNCHANGED <<kind, spared, calls, breaker, server>>

\* RAGService.initialize: Qdrant has to answer, and the embedding model to load.
LoadRag ==
    /\ phase = "rag"
    /\ phase' \in {After[phase], "failed"}
    /\ UNCHANGED <<kind, held, spared, calls, breaker, server>>

\* The shared session, which does not connect yet, and the services upon it.
StartServices ==
    /\ phase = "services"
    /\ phase' = After[phase] /\ held' = held \cup {"session"}
    /\ UNCHANGED <<kind, spared, calls, breaker, server>>

\* Requests under way are waited for.
Stop ==
    /\ phase = "up" /\ \A t \in Task : pc[t] = "idle"
    /\ phase' = "close_session"
    /\ UNCHANGED <<kind, held, spared, calls, breaker, server>>

\* Faulty: what raises is not caught, and ends the shutdown.
CloseUncaught ==
    /\ phase \in DOMAIN Closed
    /\ \/ held' = held \ {Closed[phase]} /\ phase' = After[phase] /\ UNCHANGED spared
       \/ spared' = spared \cup {Closed[phase]} /\ phase' = "down" /\ UNCHANGED held
    /\ UNCHANGED <<kind, calls, breaker, server>>

\* Every step is tried, whatever became of those before it.
Close ==
    /\ phase \in DOMAIN Closed
    /\ phase' = After[phase]
    /\ \/ held' = held \ {Closed[phase]} /\ UNCHANGED spared
       \/ spared' = spared \cup {Closed[phase]} /\ UNCHANGED held
    /\ UNCHANGED <<kind, calls, breaker, server>>

\* The process is gone, at its end or at any moment, and another one starts.
Restart ==
    /\ phase # "database"
    /\ phase' = "database" /\ held' = {} /\ spared' = {}
    /\ pc' = [t \in Task |-> "idle"]
    /\ attempt' = [t \in Task |-> 0] /\ sleep' = [t \in Task |-> 0]
    /\ open' = FALSE /\ failures' = 0 /\ age' = Never
    /\ loaded' = FALSE
    /\ answered' = 0 /\ quiet' = Never
    /\ UNCHANGED <<kind, present, refusal>>

-----------------------------------------------------------------------------
\* The breaker.  A stamp that is not set keeps an open breaker open.

LetsThrough == ~open \/ (age # Never /\ age >= Reset)

RecordSuccess == /\ open' = FALSE /\ failures' = 0 /\ age' = Never
                 /\ answered' = 0 /\ quiet' = Never

\* An error page that is no JSON is counted before it is parsed and once more
\* when that raises.
RecordFailure(n) == /\ failures' = failures + n /\ age' = 0
                    /\ open' = (open \/ failures + n >= Threshold)

Counts(n) == /\ RecordFailure(n)
             /\ answered' = IF answered < Threshold THEN answered + 1 ELSE answered
             /\ quiet' = 0

-----------------------------------------------------------------------------
\* generate_with_retry

Goto(t, label) == pc' = [pc EXCEPT ![t] = label]

\* Faulty: the attempts are not counted.
RetryForEver(t) == /\ sleep' = [sleep EXCEPT ![t] = 1] /\ Goto(t, "sleep") /\ UNCHANGED attempt

\* An attempt raised: another one after a pause that doubles, or the fallback.
Retry(t) ==
    IF attempt[t] < MaxRetries
    THEN /\ sleep' = [sleep EXCEPT ![t] = 2 ^ attempt[t]]
         /\ attempt' = [attempt EXCEPT ![t] = @ + 1]
         /\ Goto(t, "sleep")
    ELSE /\ attempt' = [attempt EXCEPT ![t] = 0]
         /\ Goto(t, "idle") /\ UNCHANGED sleep

Ends(t) == /\ attempt' = [attempt EXCEPT ![t] = 0]
           /\ Goto(t, "idle") /\ UNCHANGED sleep

Goes(t, label) == Goto(t, label) /\ UNCHANGED <<attempt, sleep>>

\* _get_client: the client is made when a call needs one and there is none.
GetClient == held' = held \cup {"llm"} /\ UNCHANGED <<phase, spared>>

Call(t) ==
    /\ phase = "up" /\ pc[t] = "idle"
    /\ Goes(t, "attempt")
    /\ UNCHANGED <<kind, process, refusal, breaker, server>>

\* _check_circuit_breaker lets the attempt through; half open, it begins to
\* count anew and lets everybody through.
Check(t) ==
    /\ kind = "gemini" /\ pc[t] = "attempt" /\ LetsThrough
    /\ Goes(t, "post") /\ GetClient
    /\ IF open
       THEN open' = FALSE /\ failures' = 0 /\ answered' = 0 /\ UNCHANGED <<age, quiet>>
       ELSE UNCHANGED breaker
    /\ UNCHANGED <<kind, refusal, server>>

\* Faulty: the refusal is stamped as a failure.
RefuseStamped(t) ==
    /\ kind = "gemini" /\ pc[t] = "attempt" /\ ~LetsThrough
    /\ Retry(t) /\ age' = 0
    /\ refusal' = [answered |-> answered, quiet |-> quiet]
    /\ UNCHANGED <<kind, process, open, failures, answered, quiet, server>>

\* The exception is raised in front of the try: it is retried and not counted.
Refuse(t) ==
    /\ kind = "gemini" /\ pc[t] = "attempt" /\ ~LetsThrough
    /\ Retry(t)
    /\ refusal' = [answered |-> answered, quiet |-> quiet]
    /\ UNCHANGED <<kind, process, breaker, server>>

\* An answer with a text; one with none is no failure of the service, all others are.
Answer(t) ==
    /\ kind = "gemini" /\ pc[t] = "post"
    /\ \/ RecordSuccess /\ Ends(t)
       \/ Retry(t) /\ UNCHANGED breaker
       \/ \E n \in 1..2 : Counts(n) /\ Retry(t)
    /\ UNCHANGED <<kind, process, refusal, server>>

\* _ensure_model_loaded
Look(t) ==
    /\ kind = "ollama" /\ pc[t] \in {"attempt", "tags"}
    /\ \/ /\ pc[t] = "attempt"
          /\ Goes(t, IF loaded THEN "post" ELSE "tags") /\ UNCHANGED loaded
          /\ GetClient
       \/ /\ pc[t] = "tags" /\ UNCHANGED process
          /\ \/ Goes(t, IF present THEN "post" ELSE "pull") /\ loaded' = (loaded \/ present)
             \/ Retry(t) /\ UNCHANGED loaded
    /\ UNCHANGED <<kind, refusal, breaker, present>>

\* Faulty: the flag is set before the pull has ended.
PullEarly(t) ==
    /\ kind = "ollama" /\ pc[t] = "pull"
    /\ \/ present' = TRUE /\ Goes(t, "post")
       \/ present' \in {present, TRUE} /\ Retry(t)
    /\ loaded' = TRUE
    /\ UNCHANGED <<kind, process, refusal, breaker>>

Pull(t) ==
    /\ kind = "ollama" /\ pc[t] = "pull"
    /\ \/ present' = TRUE /\ loaded' = TRUE /\ Goes(t, "post")
       \/ present' \in {present, TRUE} /\ Retry(t) /\ UNCHANGED loaded
    /\ UNCHANGED <<kind, process, refusal, breaker>>

AnswerOllama(t) ==
    /\ kind = "ollama" /\ pc[t] = "post"
    /\ Ends(t) \/ Retry(t)
    /\ UNCHANGED <<kind, process, refusal, breaker, server>>

Wake(t) ==
    /\ pc[t] = "sleep" /\ sleep[t] = 0
    /\ Goes(t, "attempt")
    /\ UNCHANGED <<kind, process, refusal, breaker, server>>

Older(a) == IF a = Never \/ a = Reset THEN a ELSE a + 1

\* A second.
Tick ==
    /\ phase = "up"
    /\ sleep' = [t \in Task |-> IF sleep[t] > 0 THEN sleep[t] - 1 ELSE 0]
    /\ age' = Older(age) /\ quiet' = Older(quiet)
    /\ UNCHANGED <<kind, process, pc, attempt, refusal, open, failures, answered, server>>

-----------------------------------------------------------------------------
Generate(t) == Check(t) \/ Refuse(t) \/ Answer(t) \/ Look(t) \/ Pull(t) \/ AnswerOllama(t) \/ Wake(t)

Next ==
    \/ Start \/ LoadRag \/ StartServices \/ Stop \/ Close \/ Restart \/ Tick
    \/ \E t \in Task : Call(t) \/ Generate(t)

\* Every HTTP request has a timeout, and time goes by.
Fairness == WF_vars(Tick) /\ \A t \in Task : WF_vars(Generate(t))

Spec == Init /\ [][Next]_vars
FairSpec == Spec /\ Fairness

-----------------------------------------------------------------------------
Ages == {Never} \cup 0..Reset

\* Types; an open breaker has a stamp, so that it can let go; only a model that
\* the server has counts as loaded.
TypeOK ==
    /\ kind \in {"gemini", "ollama"} /\ phase \in Phase
    /\ held \subseteq Connection /\ spared \subseteq Connection
    /\ pc \in [Task -> PC] /\ attempt \in [Task -> 0..MaxRetries] /\ sleep \in [Task -> Nat]
    /\ open \in BOOLEAN /\ failures \in Nat /\ age \in Ages
    /\ open => age # Never /\ failures >= Threshold
    /\ loaded \in BOOLEAN /\ present \in BOOLEAN /\ (loaded => present)
    /\ answered \in 0..Threshold /\ quiet \in Ages
    /\ refusal \in [answered : 0..Threshold, quiet : Ages]

\* A call is refused only while the provider has answered badly, at least half
\* as often as the threshold says, since it last did well, and did so for the
\* last time less than the reset time ago.  (gemini_provider.py:200-244, 305, 371-393)
RefusalHasCause == 2 * refusal.answered >= Threshold /\ refusal.quiet \in 0..Reset - 1

\* When the shutdown is through, only what could not be closed is still open;
\* and nothing serves without a database.  (main.py:54-62, 130-165)
ShutdownIsThorough ==
    /\ phase = "down" => held \subseteq spared
    /\ phase = "up" => {"engine", "session"} \subseteq held

\* As long as calls keep coming, an open breaker lets one through again: calls
\* that it refuses do not keep it open.  (gemini_provider.py:200-223)
OpenIsProbed == []<>(\E t \in Task : pc[t] = "attempt") => []<>~open

\* Every call ends with an answer or the fallback, whatever the provider does.
\* (gemini_provider.py:418-485, ollama_provider.py:266-325)
EveryCallEnds == \A t \in Task : pc[t] # "idle" ~> pc[t] = "idle"
=============================================================================
