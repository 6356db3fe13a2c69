-------------------------- MODULE WhatsAppInbound --------------------------
(***************************************************************************)
(* The inbound half of the WhatsApp channel: the background task that the  *)
(* webhook endpoint queues for every delivery (api/v1/endpoints/           *)
(* whatsapp.py) and the per-message handler it runs                        *)
(* (WhatsAppService._process_incoming_message in whatsapp_service.py).     *)
(*                                                                         *)
(* Tasks run interleaved on one event loop: every action below is the code *)
(* between two awaits.  Redis (`processed`, `optedOut`) outlives a restart *)
(* of the process; the tasks, and the database rows written through the    *)
(* one AsyncSession of main.py that nobody commits, do not.                *)
(*                                                                         *)
(* The verdict of the rate limiter is a free choice here; module           *)
(* RateWindow models how it is computed.                                   *)
(***************************************************************************)
EXTENDS Naturals, Sequences, FiniteSets

CONSTANTS
    Task,        \* webhook deliveries accepted by the endpoint
    Msg,         \* WhatsApp message ids
    Phone,       \* senders
    NoPhone,     \* external_id of a session created without one
    Batch,       \* Batch[t]: the messages of delivery t, in payload order
    PhoneOf,     \* PhoneOf[m]: sender of m
    KindOf,      \* KindOf[m]: what the handler can tell about the text of m
    MaxSends,    \* permits of _message_semaphore
    MaxRestarts, \* bound on process restarts
    OutagesOccur, \* may cache operations fall back?
    MaxLapses    \* bound: no key expires once so many messages are unguarded

\* "stop"/"start": the whole text is the command.  "stopPhrase"/"startPhrase":
\* a longer text in which only the chat service finds the keyword.  "media": not
\* a text.  "refused": the validator raises on it.  "text": any other question.
Kind == {"stop", "start", "stopPhrase", "startPhrase", "media", "refused", "text"}

ASSUME TaskAssumption == /\ NoPhone \notin Phone
                         /\ Batch \in [Task -> Seq(Msg) \ {<<>>}]
                         /\ PhoneOf \in [Msg -> Phone]
                         /\ KindOf \in [Msg -> Kind]
ASSUME BoundAssumption == /\ MaxSends \in Nat \ {0}
                          /\ MaxRestarts \in Nat /\ MaxLapses \in Nat
                          /\ OutagesOccur \in BOOLEAN

VARIABLES
    pc,          \* pc[t]: where task t is suspended
    log,         \* log[t]: outcome of each message task t is finished with
    reply,       \* reply[t]: the text task t is about to send
    processed,   \* Redis: message ids carrying a "processed" key
    optedOut,    \* Redis: the opt-out set
    cacheUp,     \* do cache operations reach Redis, or return their fallback?
    sessions,    \* chat_sessions rows visible through the shared AsyncSession
    outbox,      \* messages that reached WhatsApp
    restarts,    \* restarts so far
    \* history
    unguarded,   \* messages whose key expired, or could not be written or read
    raced        \* messages checked by one task while another was about to mark

taskVars == <<pc, log, reply>>
ghostVars == <<unguarded, raced>>
vars == <<pc, log, reply, processed, optedOut, cacheUp, sessions,
          outbox, restarts, unguarded, raced>>

PC == {"idle", "check", "mark", "limit", "optOut", "stopSet", "stopDb", "startSet",
       "startDb", "chat", "intent", "generate", "slot", "sending", "done", "lost"}

Reply == {"none", "tooFast", "textOnly", "refusal", "unsubscribed", "welcome",
          "answer", "technicalError"}

Outcome == {"duplicate", "optedOut", "sent", "throttled", "failed"}

Delivery == Task \X (Nat \ {0})

Session == [id : Delivery, sender : Phone, external : Phone \cup {NoPhone},
            active : BOOLEAN, optedOut : BOOLEAN]

At(t) == Len(log[t]) + 1
Here(t) == <<t, At(t)>>
Current(t) == Batch[t][At(t)]
Sender(t) == PhoneOf[Current(t)]

\* Stages of the handler that lie behind the opt-out check, and those in which
\* a reply that does not come from the rate limiter is still to be sent.
Cleared == {"stopSet", "stopDb", "startSet", "startDb", "chat", "intent", "generate"}
Answering(t) == \/ pc[t] \in Cleared
                \/ pc[t] \in {"slot", "sending"} /\ reply[t] # "tooFast"

-----------------------------------------------------------------------------
Init ==
    /\ pc = [t \in Task |-> "idle"]
    /\ log = [t \in Task |-> <<>>]
    /\ reply = [t \in Task |-> "none"]
    /\ processed = {}
    /\ optedOut = {}
    /\ cacheUp = TRUE
    /\ sessions = {}
    /\ outbox = {}
    /\ restarts = 0
    /\ unguarded = {}
    /\ raced = {}

Goto(t, label) == pc' = [pc EXCEPT ![t] = label]

\* Faulty variants of Settle: one message too many, and an error that is not
\* caught, so that the rest of the payload is dropped.
SettleLate(t, outcome) ==
    /\ log' = [log EXCEPT ![t] = Append(@, outcome)]
    /\ pc' = [pc EXCEPT ![t] = IF At(t) > Len(Batch[t]) THEN "done" ELSE "check"]
    /\ reply' = [reply EXCEPT ![t] = "none"]

SettleUncaught(t, outcome) ==
    /\ log' = [log EXCEPT ![t] = Append(@, outcome)]
    /\ pc' = [pc EXCEPT ![t] = IF At(t) = Len(Batch[t]) \/ outcome = "failed"
                               THEN "done" ELSE "check"]
    /\ reply' = [reply EXCEPT ![t] = "none"]

\* The handler of the current message returns or raises: process_webhook counts
\* it or records the error, and goes on with the next message of the payload.
Settle(t, outcome) ==
    /\ log' = [log EXCEPT ![t] = Append(@, outcome)]
    /\ pc' = [pc EXCEPT ![t] = IF At(t) = Len(Batch[t]) THEN "done" ELSE "check"]
    /\ reply' = [reply EXCEPT ![t] = "none"]

\* send_text_message: from here the task queues for the semaphore.
Respond(t, text) ==
    /\ Goto(t, "slot")
    /\ reply' = [reply EXCEPT ![t] = text]
    /\ UNCHANGED log

\* A cache write whose result nobody looks at: when the operation falls back, the
\* command may have been carried out all the same, only its answer lost.
AfterWrite(before, after) == IF cacheUp THEN {after} ELSE {before, after}

-----------------------------------------------------------------------------
\* process_webhook: a payload with a bad signature, or that does not parse, or
\* that carries no message is dropped; any other one is worked through in order.
DropWebhook(t) ==
    /\ pc[t] = "idle"
    /\ Goto(t, "done")
    /\ UNCHANGED <<log, reply, processed, optedOut, cacheUp, sessions,
                   outbox, restarts, ghostVars>>

StartWebhook(t) ==
    /\ pc[t] = "idle"
    /\ Goto(t, "check")
    /\ UNCHANGED <<log, reply, processed, optedOut, cacheUp, sessions,
                   outbox, restarts, ghostVars>>

\* Faulty variant of CheckProcessed: the key is never looked at.
CheckSkipped(t) ==
    /\ pc[t] = "check"
    /\ Goto(t, "mark")
    /\ UNCHANGED <<log, reply, processed, optedOut, cacheUp, sessions, outbox,
                   restarts, ghostVars>>

\* The idempotency check; `exists` answers False when the operation falls back.
CheckProcessed(t) ==
    /\ pc[t] = "check"
    /\ IF cacheUp /\ Current(t) \in processed
       THEN Settle(t, "duplicate")
       ELSE Goto(t, "mark") /\ UNCHANGED <<log, reply>>
    /\ unguarded' = IF cacheUp THEN unguarded ELSE unguarded \cup {Current(t)}
    /\ raced' = IF \E u \in Task \ {t} : pc[u] = "mark" /\ Current(u) = Current(t)
                THEN raced \cup {Current(t)} ELSE raced
    /\ UNCHANGED <<processed, optedOut, cacheUp, sessions, outbox, restarts>>

\* Faulty variant of MarkProcessed: the key is not written.
MarkForgotten(t) ==
    /\ pc[t] = "mark"
    /\ Goto(t, "limit")
    /\ UNCHANGED <<log, reply, processed, optedOut, cacheUp, sessions, outbox,
                   restarts, ghostVars>>

\* mark_whatsapp_processed; its result is ignored.
MarkProcessed(t) ==
    /\ pc[t] = "mark"
    /\ processed' \in AfterWrite(processed, processed \cup {Current(t)})
    /\ unguarded' = IF cacheUp THEN unguarded ELSE unguarded \cup {Current(t)}
    /\ Goto(t, "limit")
    /\ UNCHANGED <<log, reply, optedOut, cacheUp, sessions, outbox,
                   restarts, raced>>

\* check_whatsapp_rate_limit, which fails open.  It takes the client of the cache
\* and no fallback, so it may find a sender too fast while cache operations fall back.
CheckRateLimit(t) ==
    /\ pc[t] = "limit"
    /\ \/ Respond(t, "tooFast")
       \/ Goto(t, "optOut") /\ UNCHANGED <<log, reply>>
    /\ UNCHANGED <<processed, optedOut, cacheUp, sessions, outbox, restarts, ghostVars>>

\* What the handler does with a message of each kind once the sender is cleared.
Dispatch(t) ==
    CASE KindOf[Current(t)] = "stop"    -> Goto(t, "stopSet") /\ UNCHANGED <<log, reply>>
      [] KindOf[Current(t)] = "start"   -> Goto(t, "startSet") /\ UNCHANGED <<log, reply>>
      [] KindOf[Current(t)] = "media"   -> Respond(t, "textOnly")
      [] KindOf[Current(t)] = "refused" -> Respond(t, "refusal")
      [] OTHER -> Goto(t, "chat") /\ UNCHANGED <<log, reply>>

\* sismember: Redis answers with an integer and the fallback is a boolean; the
\* method keeps `result is True`, which no integer is.
SismemberResult(p) == IF ~cacheUp THEN "False" ELSE IF p \in optedOut THEN "1" ELSE "0"
IsOptedOut(p) == SismemberResult(p) = "True"

\* is_opted_out, then (no await in between) the dispatch on the text.
CheckOptOut(t) ==
    /\ pc[t] = "optOut"
    /\ IF IsOptedOut(Sender(t)) THEN Settle(t, "optedOut") ELSE Dispatch(t)
    /\ UNCHANGED <<processed, optedOut, cacheUp, sessions, outbox, restarts, ghostVars>>

-----------------------------------------------------------------------------
\* _handle_stop_command: the Redis set, the session row, the confirmation.
StopSet(t) ==
    /\ pc[t] = "stopSet"
    /\ optedOut' \in AfterWrite(optedOut, optedOut \cup {Sender(t)})
    /\ Goto(t, "stopDb")
    /\ UNCHANGED <<log, reply, processed, cacheUp, sessions, outbox, restarts, ghostVars>>

\* get_by_external_id: rows whose external_id is the phone number.
SessionsOf(p) == {s \in sessions : s.external = p}

\* opt_out_session / opt_in_session on one row.
OptOutRow(s) == [s EXCEPT !.optedOut = TRUE, !.active = FALSE]
OptInRow(s)  == [s EXCEPT !.optedOut = FALSE, !.active = TRUE]

\* "Update session if exists": the most recent row of the sender, if there is one.
UpdateSessionOf(p, changed) ==
    sessions' \in IF SessionsOf(p) = {}
                  THEN {sessions}
                  ELSE {(sessions \ {s}) \cup {changed[s]} : s \in SessionsOf(p)}

StopDb(t) ==
    /\ pc[t] = "stopDb"
    /\ UpdateSessionOf(Sender(t), [s \in SessionsOf(Sender(t)) |-> OptOutRow(s)])
    /\ Respond(t, "unsubscribed")
    /\ UNCHANGED <<processed, optedOut, cacheUp, outbox, restarts, ghostVars>>

\* _handle_start_command.
StartSet(t) ==
    /\ pc[t] = "startSet"
    /\ optedOut' \in AfterWrite(optedOut, optedOut \ {Sender(t)})
    /\ Goto(t, "startDb")
    /\ UNCHANGED <<log, reply, processed, cacheUp, sessions, outbox, restarts, ghostVars>>

StartDb(t) ==
    /\ pc[t] = "startDb"
    /\ UpdateSessionOf(Sender(t), [s \in SessionsOf(Sender(t)) |-> OptInRow(s)])
    /\ Respond(t, "welcome")
    /\ UNCHANGED <<processed, optedOut, cacheUp, outbox, restarts, ghostVars>>

\* The statement on the session row raises: no confirmation, the error is
\* recorded by process_webhook.
CommandDbFails(t) ==
    /\ pc[t] \in {"stopDb", "startDb"}
    /\ Settle(t, "failed")
    /\ UNCHANGED <<processed, optedOut, cacheUp, sessions, outbox, restarts, ghostVars>>

-----------------------------------------------------------------------------
\* ChatService.process_message(session_id=None, channel="whatsapp"), part one:
\* a new session row without external_id (so never an opted-out one); a stop or
\* start phrase then changes this row only.
NewSession(t) ==
    [id |-> Here(t), sender |-> Sender(t), external |-> NoPhone,
     active |-> TRUE, optedOut |-> FALSE]

ChatOpen(t) ==
    /\ pc[t] = "chat"
    /\ sessions' = sessions \cup {NewSession(t)}
    /\ Goto(t, IF KindOf[Current(t)] \in {"stopPhrase", "startPhrase"} THEN "intent" ELSE "generate")
    /\ UNCHANGED <<log, reply, processed, optedOut, cacheUp, outbox, restarts,
                   ghostVars>>

ChatIntent(t) ==
    /\ pc[t] = "intent"
    /\ sessions' = {IF s.id # Here(t) THEN s
                    ELSE IF KindOf[Current(t)] = "stopPhrase" THEN OptOutRow(s) ELSE OptInRow(s)
                    : s \in sessions}
    /\ Goto(t, "generate")
    /\ UNCHANGED <<log, reply, processed, optedOut, cacheUp, outbox, restarts,
                   ghostVars>>

\* Part two, up to seconds later: the confirmation or the answer is returned;
\* any exception inside process_message becomes the technical-error text.
ChatText(m) == CASE KindOf[m] = "stopPhrase"  -> "unsubscribed"
                 [] KindOf[m] = "startPhrase" -> "welcome"
                 [] OTHER -> "answer"

ChatAnswers(t) ==
    /\ pc[t] = "generate"
    /\ Respond(t, ChatText(Current(t)))
    /\ UNCHANGED <<processed, optedOut, cacheUp, sessions, outbox, restarts, ghostVars>>

ChatFails(t) ==
    /\ pc[t] \in {"chat", "intent", "generate"}
    /\ Respond(t, "technicalError")
    /\ UNCHANGED <<processed, optedOut, cacheUp, sessions, outbox, restarts, ghostVars>>

-----------------------------------------------------------------------------
\* send_text_message and _send_message.
Holders == {t \in Task : pc[t] = "sending"}

AcquireSlot(t) ==
    /\ pc[t] = "slot"
    /\ Cardinality(Holders) < MaxSends
    /\ Goto(t, "sending")
    /\ UNCHANGED <<log, reply, processed, optedOut, cacheUp, sessions,
                   outbox, restarts, ghostVars>>

Deliver(t) ==
    outbox' = outbox \cup {[task |-> t, at |-> At(t), to |-> Sender(t), text |-> reply[t]]}

SendSucceeds(t) ==
    /\ pc[t] = "sending"
    /\ Deliver(t)
    /\ Settle(t, "sent")
    /\ UNCHANGED <<processed, optedOut, cacheUp, sessions, restarts, ghostVars>>

\* 429: the retry decorator calls its before_sleep hook, which logs at the level
\* "WARNING"; the filtering logger compares that string with a number, and its
\* TypeError ends the send at the first attempt.
SendThrottled(t) ==
    /\ pc[t] = "sending"
    /\ Settle(t, "throttled")
    /\ UNCHANGED <<processed, optedOut, cacheUp, sessions, outbox, restarts, ghostVars>>

\* Faulty variant of SendFails: after a timeout the message is sent again.
SendRetried(t) ==
    /\ pc[t] = "sending"
    /\ Deliver(t) \/ UNCHANGED outbox
    /\ Goto(t, "slot")
    /\ UNCHANGED <<log, reply, processed, optedOut, cacheUp, sessions, restarts, ghostVars>>

\* A timeout, a refused connection or an error status raises without a retry;
\* after a timeout WhatsApp may have accepted the message all the same.
SendFails(t) ==
    /\ pc[t] = "sending"
    /\ Deliver(t) \/ UNCHANGED outbox
    /\ Settle(t, "failed")
    /\ UNCHANGED <<processed, optedOut, cacheUp, sessions, restarts, ghostVars>>

-----------------------------------------------------------------------------
\* The environment: Redis (or its circuit breaker) comes and goes, keys expire
\* after their ttl, the process is restarted.
CacheToggle ==
    /\ OutagesOccur
    /\ cacheUp' = ~cacheUp
    /\ UNCHANGED <<taskVars, processed, optedOut, sessions, outbox, restarts, ghostVars>>

ExpireMark(m) ==
    /\ m \in processed
    /\ Cardinality(unguarded) < MaxLapses
    /\ processed' = processed \ {m}
    /\ unguarded' = unguarded \cup {m}
    /\ UNCHANGED <<taskVars, optedOut, cacheUp, sessions, outbox, restarts, raced>>

\* Background tasks live in memory, and the endpoint has already answered 200.
Restart ==
    /\ restarts < MaxRestarts
    /\ restarts' = restarts + 1
    /\ pc' = [t \in Task |-> IF pc[t] \in {"idle", "done"} THEN pc[t] ELSE "lost"]
    /\ reply' = [t \in Task |-> "none"]
    /\ sessions' = {}
    /\ UNCHANGED <<log, processed, optedOut, cacheUp, outbox, ghostVars>>

Step(t) ==
    \/ DropWebhook(t) \/ StartWebhook(t)
    \/ CheckProcessed(t) \/ MarkProcessed(t) \/ CheckRateLimit(t) \/ CheckOptOut(t)
    \/ StopSet(t) \/ StopDb(t) \/ StartSet(t) \/ StartDb(t) \/ CommandDbFails(t)
    \/ ChatOpen(t) \/ ChatIntent(t) \/ ChatAnswers(t) \/ ChatFails(t)
    \/ AcquireSlot(t) \/ SendSucceeds(t) \/ SendThrottled(t) \/ SendFails(t)

Next ==
    \/ \E t \in Task : Step(t)
    \/ CacheToggle
    \/ \E m \in Msg : ExpireMark(m)
    \/ Restart

Spec == Init /\ [][Next]_vars

\* The event loop resumes every task whose await has completed; asyncio.Semaphore
\* wakes its waiters in order.
Fairness == \A t \in Task : WF_vars(Step(t))
FairSpec == Spec /\ Fairness

-----------------------------------------------------------------------------
Busy == PC \ {"idle", "done", "lost"}

\* A task in progress has a current message.
PositionInv ==
    \A t \in Task : /\ pc[t] = "idle" => log[t] = <<>>
                    /\ pc[t] \in Busy => Len(log[t]) < Len(Batch[t])

(* Type invariant.  The handler never reads past the end of its payload. *)
TypeOK ==
    /\ pc \in [Task -> PC]
    /\ log \in [Task -> Seq(Outcome)]
    /\ reply \in [Task -> Reply]
    /\ PositionInv
    /\ processed \subseteq Msg
    /\ optedOut \subseteq Phone
    /\ cacheUp \in BOOLEAN
    /\ sessions \subseteq Session
    /\ outbox \subseteq [task : Task, at : Nat \ {0}, to : Phone, text : Reply]
    /\ restarts \in 0..MaxRestarts
    /\ unguarded \subseteq Msg
    /\ raced \subseteq Msg

(* A message is marked before anything is sent for it: whatever reached the  *)
(* sender, a redelivery that is checked later finds the key, unless the key  *)
(* expired or Redis could not be reached (whatsapp_service.py:281-287).      *)
RepliedIsMarked ==
    \A r \in outbox : Batch[r.task][r.at] \in processed \cup unguarded

(* The check and the mark are two round trips.  A message is answered twice  *)
(* only if two deliveries overlapped between them, or its key was not there  *)
(* to be found: redelivery after a crash, a failed send or a slow answer     *)
(* never repeats an answer.                                                  *)
DuplicateOnlyByRace ==
    \A r1, r2 \in outbox :
        r1 # r2 /\ Batch[r1.task][r1.at] = Batch[r2.task][r2.at]
            => Batch[r1.task][r1.at] \in raced \cup unguarded

(* The channel keeps the promise of module Consent to its senders, whatever  *)
(* tasks, outages and restarts do: handled in turn, a message is let through *)
(* to an answer at most once and answered at most once, and no task writes   *)
(* the opt-out set for anybody but the sender of the command it holds        *)
(* (whatsapp_service.py:258-413).                                            *)
MessageOf(d) == Batch[d[1]][d[2]]
Delivered == UNION {{t} \X DOMAIN Batch[t] : t \in Task}
settled == UNION {{t} \X DOMAIN log[t] : t \in Task}
through == {Here(t) : t \in {t \in Task : Answering(t)}}
told == {[of |-> <<r.task, r.at>>, to |-> r.to, notice |-> r.text = "tooFast"] : r \in outbox}

Promise == INSTANCE Consent WITH
    Message <- Delivered, From <- [d \in Delivered |-> PhoneOf[MessageOf(d)]],
    Asks <- [d \in Delivered |-> KindOf[MessageOf(d)]], out <- optedOut

KeepsThePromise == Promise!Spec

(* Every message of an accepted delivery is brought to an outcome, whatever  *)
(* happens to the messages before it and to the sends it queues behind,      *)
(* unless the process is restarted.                                          *)
EveryMessageSettles ==
    \A t \in Task :
        pc[t] = "check" ~> (pc[t] = "lost" \/ Len(log[t]) = Len(Batch[t]))

-----------------------------------------------------------------------------
(* What the code says of itself, and does not keep. *)

\* Does the sender ever ask to be let in again?
NeverStarts(p) ==
    \A m \in Msg : PhoneOf[m] = p => KindOf[m] \notin {"start", "startPhrase"}

(* "You have been unsubscribed from AskBarrow.ai messages"                   *)
(* (whatsapp_service.py:396): of the messages of one delivery, those behind  *)
(* a confirmed STOP get nothing but the throttle notice, which is sent       *)
(* before the opt-out check, unless the sender comes back.                   *)
StopIsHeeded ==
    \A r, s \in outbox :
        /\ r.text = "unsubscribed" /\ KindOf[Batch[r.task][r.at]] = "stop"
        /\ s.task = r.task /\ s.to = r.to /\ r.at < s.at /\ NeverStarts(r.to)
            => s.text = "tooFast"
=============================================================================
