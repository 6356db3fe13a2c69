----------------------- MODULE WhatsAppInboundProofs -----------------------
(***************************************************************************)
(* Proofs about WhatsAppInbound, for every set of deliveries, messages and *)
(* senders: type correctness; that an answer is repeated only when two     *)
(* deliveries of a message overlap between the idempotency check and the   *)
(* mark, or its key was not there to be found; and that the handler        *)
(* implements module Consent.                                              *)
(***************************************************************************)
EXTENDS WhatsAppInbound, TLAPS

LEMMA CurrentType ==
    ASSUME TypeOK, NEW t \in Task, pc[t] \in Busy
    PROVE  /\ At(t) \in 1..Len(Batch[t])
           /\ At(t) \in Nat \ {0}
           /\ Current(t) \in Msg
           /\ Sender(t) \in Phone
           /\ Here(t) \in Delivery
  <1>1. log[t] \in Seq(Outcome) /\ Batch[t] \in Seq(Msg) /\ Len(log[t]) < Len(Batch[t])
    BY TaskAssumption DEF TypeOK, PositionInv
  <1>2. At(t) \in 1..Len(Batch[t])
    BY <1>1 DEF At
  <1>3. Current(t) \in Msg
    BY <1>1, <1>2 DEF Current
  <1>4. QED
    BY <1>1, <1>2, <1>3, TaskAssumption DEF Sender, Here, Delivery

\* Settling the current message: the facts every later proof needs.
LEMMA SettleType ==
    ASSUME TypeOK, NEW t \in Task, pc[t] \in Busy, NEW o \in Outcome, Settle(t, o)
    PROVE  /\ pc' \in [Task -> PC]
           /\ log' \in [Task -> Seq(Outcome)]
           /\ reply' \in [Task -> Reply]
           /\ PositionInv'
           /\ Len(log'[t]) = Len(log[t]) + 1
           /\ pc'[t] \in {"done", "check"}
           /\ \A u \in Task \ {t} : pc'[u] = pc[u] /\ log'[u] = log[u]
  <1>1. log \in [Task -> Seq(Outcome)] /\ pc \in [Task -> PC]
    BY DEF TypeOK
  <1>2. log[t] \in Seq(Outcome) /\ Batch[t] \in Seq(Msg) /\ Len(log[t]) < Len(Batch[t])
    BY <1>1, TaskAssumption DEF TypeOK, PositionInv
  <1>3. log' = [log EXCEPT ![t] = Append(log[t], o)]
    BY DEF Settle
  <1>4. Append(log[t], o) \in Seq(Outcome) /\ Len(Append(log[t], o)) = Len(log[t]) + 1
    BY <1>2
  <1>5. log' \in [Task -> Seq(Outcome)] /\ log'[t] = Append(log[t], o)
        /\ \A u \in Task \ {t} : log'[u] = log[u]
    BY <1>1, <1>3, <1>4
  <1>6. pc' \in [Task -> PC] /\ pc'[t] \in {"done", "check"}
        /\ (pc'[t] = "check" => At(t) # Len(Batch[t]))
        /\ \A u \in Task \ {t} : pc'[u] = pc[u]
    BY <1>1 DEF Settle, PC
  <1>7. reply' \in [Task -> Reply]
    BY DEF Settle, TypeOK, Reply
  <1>8. PositionInv'
    <2>1. \A u \in Task \ {t} : /\ pc'[u] = "idle" => log'[u] = <<>>
                                /\ pc'[u] \in Busy => Len(log'[u]) < Len(Batch[u])
      BY <1>5, <1>6 DEF TypeOK, PositionInv
    <2>2. pc'[t] \in Busy => Len(log'[t]) < Len(Batch[t])
      BY <1>2, <1>4, <1>5, <1>6 DEF Busy, PC, At
    <2>3. pc'[t] # "idle"
      BY <1>6
    <2>4. QED
      BY <2>1, <2>2, <2>3 DEF PositionInv
  <1>9. QED
    BY <1>4, <1>5, <1>6, <1>7, <1>8

\* A step of the handler that stays within the current message.
LEMMA GotoType ==
    ASSUME TypeOK, NEW t \in Task, pc[t] \in Busy \cup {"idle"},
           NEW l \in Busy, Goto(t, l), UNCHANGED log
    PROVE  /\ pc' \in [Task -> PC] /\ PositionInv' /\ pc'[t] = l
           /\ \A u \in Task \ {t} : pc'[u] = pc[u]
  <1>1. Batch[t] \in Seq(Msg) /\ Batch[t] # <<>>
    BY TaskAssumption
  <1>2. pc[t] = "idle" => Len(log[t]) < Len(Batch[t])
    BY <1>1 DEF TypeOK, PositionInv
  <1>3. QED
    BY <1>2 DEF TypeOK, PositionInv, Goto, Busy, PC

LEMMA RespondType ==
    ASSUME TypeOK, NEW t \in Task, pc[t] \in Busy, NEW r \in Reply, Respond(t, r)
    PROVE  /\ pc' \in [Task -> PC] /\ PositionInv' /\ pc'[t] = "slot"
           /\ reply' \in [Task -> Reply] /\ reply'[t] = r
           /\ \A u \in Task \ {t} : pc'[u] = pc[u] /\ reply'[u] = reply[u]
           /\ UNCHANGED log
  BY GotoType DEF Respond, Busy, PC, TypeOK, Reply

\* Handing the message over, and the dispatch on its text.
LEMMA DeliverType ==
    ASSUME TypeOK, NEW t \in Task, pc[t] = "sending", Deliver(t)
    PROVE  /\ outbox' \subseteq [task : Task, at : Nat \ {0}, to : Phone, text : Reply]
  <1>1. At(t) \in Nat \ {0} /\ Sender(t) \in Phone
    BY CurrentType DEF Busy, PC
  <1>2. reply[t] \in Reply
    BY DEF TypeOK
  <1>3. [task |-> t, at |-> At(t), to |-> Sender(t), text |-> reply[t]]
          \in [task : Task, at : Nat \ {0}, to : Phone, text : Reply]
    BY <1>1, <1>2
  <1>4. QED
    BY <1>1, <1>3 DEF Deliver, TypeOK

LEMMA DispatchType ==
    ASSUME TypeOK, NEW t \in Task, pc[t] = "optOut", Dispatch(t)
    PROVE  /\ pc' \in [Task -> PC] /\ PositionInv'
           /\ pc'[t] \in {"stopSet", "startSet", "slot", "chat"}
           /\ reply' \in [Task -> Reply]
           /\ \A u \in Task \ {t} : pc'[u] = pc[u] /\ reply'[u] = reply[u]
           /\ UNCHANGED log
  <1> DEFINE Moves(l) == Goto(t, l) /\ UNCHANGED <<log, reply>>
  <1>1. \/ Moves("stopSet") \/ Moves("startSet") \/ Moves("chat")
        \/ Respond(t, "textOnly") \/ Respond(t, "refusal")
    BY DEF Dispatch
  <1>2. ASSUME NEW l \in {"stopSet", "startSet", "chat"}, Moves(l)
        PROVE  /\ pc' \in [Task -> PC] /\ PositionInv' /\ pc'[t] = l
               /\ \A u \in Task \ {t} : pc'[u] = pc[u]
               /\ UNCHANGED <<log, reply>>
    BY <1>2, GotoType DEF Busy, PC
  <1>3. ASSUME NEW r \in {"textOnly", "refusal"}, Respond(t, r)
        PROVE  /\ pc' \in [Task -> PC] /\ PositionInv' /\ pc'[t] = "slot"
               /\ reply' \in [Task -> Reply]
               /\ \A u \in Task \ {t} : pc'[u] = pc[u] /\ reply'[u] = reply[u]
               /\ UNCHANGED log
    BY <1>3, RespondType DEF Busy, PC, Reply
  <1>4. reply \in [Task -> Reply]
    BY DEF TypeOK
  <1> HIDE DEF Moves
  <1>5. QED
    BY <1>1, <1>2, <1>3, <1>4

\* An update of the opt-out fields keeps a row a row.
LEMMA OptRowType ==
    ASSUME NEW s \in Session
    PROVE  OptOutRow(s) \in Session /\ OptInRow(s) \in Session
  BY DEF OptOutRow, OptInRow, Session

\* So does an update of the row of a sender.
LEMMA UpdateType ==
    ASSUME TypeOK, NEW p \in Phone, NEW changed,
           \A s \in SessionsOf(p) : changed[s] \in Session,
           UpdateSessionOf(p, changed)
    PROVE  sessions' \subseteq Session
  <1>1. CASE SessionsOf(p) = {}
    BY <1>1 DEF UpdateSessionOf, TypeOK
  <1>2. CASE SessionsOf(p) # {}
    <2>1. PICK s \in SessionsOf(p) : sessions' = (sessions \ {s}) \cup {changed[s]}
      BY <1>2 DEF UpdateSessionOf
    <2>2. QED
      BY <2>1 DEF TypeOK
  <1>3. QED
    BY <1>1, <1>2

-----------------------------------------------------------------------------
LEMMA TypeStep == TypeOK /\ [Next]_vars => TypeOK'
  <1> SUFFICES ASSUME TypeOK, [Next]_vars PROVE TypeOK'
    OBVIOUS
  <1> USE DEF Busy, PC
  <1>1. ASSUME NEW t \in Task, DropWebhook(t) PROVE TypeOK'
    BY <1>1 DEF DropWebhook, Goto, TypeOK, PositionInv, ghostVars
  <1>2. ASSUME NEW t \in Task, StartWebhook(t) PROVE TypeOK'
    <2>1. pc' \in [Task -> PC] /\ PositionInv'
      BY <1>2, GotoType DEF StartWebhook
    <2>2. QED
      BY <1>2, <2>1 DEF StartWebhook, TypeOK, ghostVars
  <1>3. ASSUME NEW t \in Task, CheckProcessed(t) PROVE TypeOK'
    <2>1. Current(t) \in Msg
      BY <1>3, CurrentType DEF CheckProcessed
    <2>2. CASE cacheUp /\ Current(t) \in processed
      <3>1. Settle(t, "duplicate") /\ "duplicate" \in Outcome
        BY <1>3, <2>2 DEF CheckProcessed, Outcome
      <3>2. QED
        BY <1>3, <2>1, <3>1, SettleType DEF CheckProcessed, TypeOK
    <2>3. CASE ~(cacheUp /\ Current(t) \in processed)
      <3>1. pc' \in [Task -> PC] /\ PositionInv'
        BY <1>3, <2>3, GotoType DEF CheckProcessed
      <3>2. QED
        BY <1>3, <2>1, <2>3, <3>1 DEF CheckProcessed, TypeOK
    <2>4. QED
      BY <2>2, <2>3
  <1>4. ASSUME NEW t \in Task, MarkProcessed(t) PROVE TypeOK'
    <2>1. Current(t) \in Msg
      BY <1>4, CurrentType DEF MarkProcessed
    <2>2. pc' \in [Task -> PC] /\ PositionInv'
      BY <1>4, GotoType DEF MarkProcessed
    <2>3. QED
      BY <1>4, <2>1, <2>2 DEF MarkProcessed, AfterWrite, TypeOK
  <1>5. ASSUME NEW t \in Task, CheckRateLimit(t) PROVE TypeOK'
    <2>1. CASE Respond(t, "tooFast")
      BY <1>5, <2>1, RespondType DEF CheckRateLimit, TypeOK, ghostVars, Reply
    <2>2. CASE Goto(t, "optOut") /\ UNCHANGED <<log, reply>>
      <3>1. pc' \in [Task -> PC] /\ PositionInv'
        BY <1>5, <2>2, GotoType DEF CheckRateLimit
      <3>2. QED
        BY <1>5, <2>2, <3>1 DEF CheckRateLimit, TypeOK, ghostVars
    <2>3. QED
      BY <1>5, <2>1, <2>2 DEF CheckRateLimit
  <1>6. ASSUME NEW t \in Task, CheckOptOut(t) PROVE TypeOK'
    <2>1. Here(t) \in Delivery /\ Current(t) \in Msg
      BY <1>6, CurrentType DEF CheckOptOut
    <2>2. CASE Settle(t, "optedOut")
      BY <1>6, <2>1, <2>2, SettleType DEF CheckOptOut, TypeOK, ghostVars, Outcome
    <2>3. CASE Dispatch(t)
      <3>1. /\ pc' \in [Task -> PC] /\ PositionInv'
            /\ reply' \in [Task -> Reply] /\ UNCHANGED log
        BY <1>6, <2>1, <2>3, DispatchType DEF CheckOptOut
      <3>2. QED
        BY <1>6, <2>1, <3>1 DEF CheckOptOut, TypeOK, ghostVars
    <2>4. QED
      BY <1>6, <2>2, <2>3 DEF CheckOptOut
  <1>7. ASSUME NEW t \in Task, StopSet(t) PROVE TypeOK'
    <2>1. Sender(t) \in Phone
      BY <1>7, CurrentType DEF StopSet
    <2>2. pc' \in [Task -> PC] /\ PositionInv'
      BY <1>7, GotoType DEF StopSet
    <2>3. optedOut' \subseteq Phone
      BY <1>7, <2>1 DEF StopSet, AfterWrite, TypeOK
    <2>4. QED
      BY <1>7, <2>2, <2>3 DEF StopSet, TypeOK, ghostVars
  <1>8. ASSUME NEW t \in Task, StopDb(t) PROVE TypeOK'
    <2>1. sessions' \subseteq Session
      <3> DEFINE changed == [s \in SessionsOf(Sender(t)) |-> OptOutRow(s)]
      <3>1. Sender(t) \in Phone
        BY <1>8, CurrentType DEF StopDb
      <3>2. UpdateSessionOf(Sender(t), changed)
        BY <1>8 DEF StopDb
      <3>3. \A s \in SessionsOf(Sender(t)) : changed[s] \in Session
        BY OptRowType DEF SessionsOf, TypeOK
      <3> HIDE DEF changed
      <3>4. QED
        BY <3>1, <3>2, <3>3, UpdateType
    <2>2. QED
      BY <1>8, <2>1, RespondType DEF StopDb, TypeOK, ghostVars, Reply
  <1>9. ASSUME NEW t \in Task, StartSet(t) PROVE TypeOK'
    <2>1. pc' \in [Task -> PC] /\ PositionInv'
      BY <1>9, GotoType DEF StartSet
    <2>2. optedOut' \subseteq Phone
      BY <1>9 DEF StartSet, AfterWrite, TypeOK
    <2>3. QED
      BY <1>9, <2>1, <2>2 DEF StartSet, TypeOK, ghostVars
  <1>10. ASSUME NEW t \in Task, StartDb(t) PROVE TypeOK'
    <2>1. sessions' \subseteq Session
      <3> DEFINE changed == [s \in SessionsOf(Sender(t)) |-> OptInRow(s)]
      <3>1. Sender(t) \in Phone
        BY <1>10, CurrentType DEF StartDb
      <3>2. UpdateSessionOf(Sender(t), changed)
        BY <1>10 DEF StartDb
      <3>3. \A s \in SessionsOf(Sender(t)) : changed[s] \in Session
        BY OptRowType DEF SessionsOf, TypeOK
      <3> HIDE DEF changed
      <3>4. QED
        BY <3>1, <3>2, <3>3, UpdateType
    <2>2. QED
      BY <1>10, <2>1, RespondType DEF StartDb, TypeOK, ghostVars, Reply
  <1>11. ASSUME NEW t \in Task, CommandDbFails(t) PROVE TypeOK'
    BY <1>11, SettleType DEF CommandDbFails, TypeOK, ghostVars, Outcome
  <1>12. ASSUME NEW t \in Task, ChatOpen(t) PROVE TypeOK'
    <2>1. NewSession(t) \in Session
      BY <1>12, CurrentType DEF ChatOpen, NewSession, Session
    <2>2. pc' \in [Task -> PC] /\ PositionInv'
      <3>1. CASE Goto(t, "intent")
        BY <1>12, <3>1, GotoType DEF ChatOpen
      <3>2. CASE Goto(t, "generate")
        BY <1>12, <3>2, GotoType DEF ChatOpen
      <3>3. QED
        BY <1>12, <3>1, <3>2 DEF ChatOpen
    <2>3. QED
      BY <1>12, <2>1, <2>2 DEF ChatOpen, TypeOK, ghostVars
  <1>13. ASSUME NEW t \in Task, ChatIntent(t) PROVE TypeOK'
    <2>1. sessions' \subseteq Session
      BY <1>13, OptRowType DEF ChatIntent, TypeOK
    <2>2. pc' \in [Task -> PC] /\ PositionInv'
      BY <1>13, GotoType DEF ChatIntent
    <2>3. QED
      BY <1>13, <2>1, <2>2 DEF ChatIntent, TypeOK, ghostVars
  <1>14. ASSUME NEW t \in Task, ChatAnswers(t) PROVE TypeOK'
    <2>1. ChatText(Current(t)) \in Reply
      BY DEF ChatText, Reply
    <2>2. QED
      BY <1>14, <2>1, RespondType DEF ChatAnswers, TypeOK, ghostVars
  <1>15. ASSUME NEW t \in Task, ChatFails(t) PROVE TypeOK'
    BY <1>15, RespondType DEF ChatFails, TypeOK, ghostVars, Reply
  <1>16. ASSUME NEW t \in Task, AcquireSlot(t) PROVE TypeOK'
    <2>1. pc' \in [Task -> PC] /\ PositionInv'
      BY <1>16, GotoType DEF AcquireSlot
    <2>2. QED
      BY <1>16, <2>1 DEF AcquireSlot, TypeOK, ghostVars
  <1>17. ASSUME NEW t \in Task, SendSucceeds(t) PROVE TypeOK'
    <2>1. outbox' \subseteq [task : Task, at : Nat \ {0}, to : Phone, text : Reply]
      BY <1>17, DeliverType DEF SendSucceeds
    <2>2. QED
      BY <1>17, <2>1, SettleType DEF SendSucceeds, TypeOK, ghostVars, Outcome
  <1>18. ASSUME NEW t \in Task, SendThrottled(t) PROVE TypeOK'
    BY <1>18, SettleType DEF SendThrottled, TypeOK, ghostVars, Outcome
  <1>19. ASSUME NEW t \in Task, SendFails(t) PROVE TypeOK'
    <2>1. outbox' \subseteq [task : Task, at : Nat \ {0}, to : Phone, text : Reply]
      BY <1>19, DeliverType DEF SendFails, TypeOK
    <2>2. QED
      BY <1>19, <2>1, SettleType DEF SendFails, TypeOK, ghostVars, Outcome
  <1>20. CASE CacheToggle
    BY <1>20 DEF CacheToggle, TypeOK, PositionInv, taskVars, ghostVars
  <1>21. ASSUME NEW m \in Msg, ExpireMark(m) PROVE TypeOK'
    BY <1>21 DEF ExpireMark, TypeOK, PositionInv, taskVars
  <1>22. CASE Restart
    <2>1. restarts' \in 0..MaxRestarts
      BY <1>22, BoundAssumption DEF Restart, TypeOK
    <2>2. reply' \in [Task -> Reply]
      BY <1>22 DEF Restart, Reply
    <2>3. pc' \in [Task -> PC] /\ PositionInv'
      BY <1>22 DEF Restart, TypeOK, PositionInv
    <2>4. QED
      BY <1>22, <2>1, <2>2, <2>3 DEF Restart, TypeOK, ghostVars
  <1>23. CASE UNCHANGED vars
    BY <1>23 DEF vars, TypeOK, PositionInv
  <1>24. QED
    BY <1>1, <1>2, <1>3, <1>4, <1>5, <1>6, <1>7, <1>8, <1>9, <1>10, <1>11, <1>12, <1>13,
       <1>14, <1>15, <1>16, <1>17, <1>18, <1>19, <1>20, <1>21, <1>22, <1>23
       DEF Next, Step

\* Every reachable state is typed, and a task in progress has a current message:
\* the handler never reads past the end of its payload.
THEOREM TypeCorrect == Spec => []TypeOK
  <1>1. Init => TypeOK
    BY TaskAssumption, BoundAssumption
       DEF Init, TypeOK, PositionInv, Busy, PC, Reply
  <1>2. QED
    BY <1>1, TypeStep, PTL DEF Spec

-----------------------------------------------------------------------------
(* Duplicates.  Whoever is past the check of a message that somebody else is *)
(* past, or that was answered, got there because the two overlapped or       *)
(* because the key was missing; that is what makes DuplicateOnlyByRace       *)
(* inductive.                                                                *)
Checked == Busy \ {"check"}
Marked  == Busy \ {"check", "mark"}

OutboxInv ==
    /\ \A r \in outbox : r.at <= Len(log[r.task])
    /\ \A r1, r2 \in outbox : r1.task = r2.task /\ r1.at = r2.at => r1 = r2

MarkInv == \A t \in Task : pc[t] \in Marked => Current(t) \in processed \cup unguarded

RaceInv ==
    /\ \A t, u \in Task :
          /\ t # u /\ pc[t] \in Checked /\ pc[u] \in Checked
          /\ Current(t) = Current(u)
          => Current(t) \in raced \cup unguarded
    /\ \A t \in Task, r \in outbox :
          pc[t] \in Checked /\ Batch[r.task][r.at] = Current(t)
             => Current(t) \in raced \cup unguarded

DuplicateInv == OutboxInv /\ MarkInv /\ RepliedIsMarked /\ RaceInv /\ DuplicateOnlyByRace

\* A step in which nobody gets past the check or the mark, and nothing is sent.
Muted ==
    /\ UNCHANGED <<outbox, raced>>
    /\ processed \cup unguarded \subseteq processed' \cup unguarded'
    /\ unguarded \subseteq unguarded'
    /\ \A t \in Task :
          /\ Len(log[t]) <= Len(log'[t])
          /\ pc'[t] \in Checked => pc[t] \in Checked /\ log'[t] = log[t]
          /\ pc'[t] \in Marked => pc[t] \in Marked

LEMMA RecordType ==
    ASSUME TypeOK, OutboxInv, NEW r \in outbox
    PROVE  /\ r.task \in Task /\ r.at \in Nat
           /\ Len(log[r.task]) \in Nat /\ r.at <= Len(log[r.task])
  <1>1. r.task \in Task /\ r.at \in Nat
    BY DEF TypeOK
  <1>2. QED
    BY <1>1 DEF TypeOK, OutboxInv

LEMMA MutedStep ==
    ASSUME TypeOK, TypeOK', DuplicateInv, Muted
    PROVE  DuplicateInv'
  <1>1. \A t \in Task : pc'[t] \in Checked => Current(t)' = Current(t)
    BY DEF Muted, Current, At
  <1>2. OutboxInv'
    <2>1. ASSUME NEW r \in outbox PROVE r.at <= Len(log'[r.task])
      <3>1. /\ r.task \in Task /\ r.at \in Nat /\ r.at <= Len(log[r.task])
            /\ Len(log[r.task]) \in Nat
        BY RecordType DEF DuplicateInv
      <3>2. Len(log'[r.task]) \in Nat /\ Len(log[r.task]) <= Len(log'[r.task])
        BY <3>1 DEF TypeOK, Muted
      <3>3. QED
        BY <3>1, <3>2
    <2>2. QED
      BY <2>1 DEF OutboxInv, DuplicateInv, Muted
  <1>3. MarkInv'
    BY <1>1 DEF MarkInv, DuplicateInv, Muted, Checked, Marked
  <1>4. RepliedIsMarked' /\ DuplicateOnlyByRace'
    BY DEF RepliedIsMarked, DuplicateOnlyByRace, DuplicateInv, Muted
  <1>5. RaceInv'
    BY <1>1 DEF RaceInv, DuplicateInv, Muted
  <1>6. QED
    BY <1>2, <1>3, <1>4, <1>5 DEF DuplicateInv

\* The one kind of step that adds to the outbox.
LEMMA DeliveredStep ==
    ASSUME TypeOK, TypeOK', DuplicateInv, NEW t \in Task, pc[t] = "sending",
           NEW o \in Outcome, Deliver(t), Settle(t, o), UNCHANGED <<processed, unguarded, raced>>
    PROVE  DuplicateInv'
  <1> DEFINE new == [task |-> t, at |-> At(t), to |-> Sender(t), text |-> reply[t]]
  <1>1. outbox' = outbox \cup {new}
    BY DEF Deliver
  <1>2. /\ Len(log'[t]) = At(t) /\ pc'[t] \notin Checked
        /\ \A u \in Task \ {t} : pc'[u] = pc[u] /\ log'[u] = log[u]
    BY SettleType DEF Busy, PC, Checked, At
  <1>3. \A u \in Task \ {t} : Current(u)' = Current(u)
    BY <1>2 DEF Current, At
  <1>4. /\ At(t) \in Nat
        /\ \A r \in outbox : r.task = t => r.at \in Nat /\ r.at < At(t)
    <2>1. Len(log[t]) \in Nat
      BY DEF TypeOK
    <2>2. \A r \in outbox : r.at \in Nat /\ r.at <= Len(log[r.task])
      BY RecordType DEF DuplicateInv
    <2>3. QED
      BY <2>1, <2>2 DEF At
  <1>5. OutboxInv'
    <2>1. \A r \in outbox' : r.at <= Len(log'[r.task])
      <3>1. new.at <= Len(log'[new.task])
        BY <1>2, <1>4
      <3>2. ASSUME NEW r \in outbox PROVE r.at <= Len(log'[r.task])
        BY <1>2, <1>4, RecordType DEF DuplicateInv
      <3>3. QED
        BY <1>1, <3>1, <3>2
    <2>2. \A r1, r2 \in outbox' : r1.task = r2.task /\ r1.at = r2.at => r1 = r2
      <3>1. \A r \in outbox : ~(r.task = new.task /\ r.at = new.at)
        BY <1>4
      <3>2. QED
        BY <1>1, <3>1 DEF DuplicateInv, OutboxInv
    <2>3. QED
      BY <2>1, <2>2 DEF OutboxInv
  <1>6. new.task = t /\ new.at = At(t) /\ Batch[new.task][new.at] = Current(t)
    BY DEF Current
  <1>7. pc[t] \in Checked /\ pc[t] \in Marked
    BY DEF Checked, Marked, Busy, PC
  <1>8. RepliedIsMarked'
    BY <1>1, <1>6, <1>7 DEF RepliedIsMarked, DuplicateInv, MarkInv
  <1>9. MarkInv'
    BY <1>2, <1>3 DEF MarkInv, DuplicateInv, Checked, Marked
  <1>10. DuplicateOnlyByRace'
    <2>1. ASSUME NEW r \in outbox, Batch[r.task][r.at] = Current(t)
          PROVE  Current(t) \in raced \cup unguarded
      BY <1>7, <2>1 DEF DuplicateInv, RaceInv
    <2>2. QED
      BY <1>1, <1>6, <2>1 DEF DuplicateOnlyByRace, DuplicateInv
  <1>11. RaceInv'
    <2>1. ASSUME NEW u \in Task, pc'[u] \in Checked
          PROVE  u # t /\ pc[u] \in Checked /\ Current(u)' = Current(u)
      BY <1>2, <1>3, <2>1
    <2>2. ASSUME NEW u \in Task, NEW r \in outbox', pc'[u] \in Checked,
                 Batch[r.task][r.at] = Current(u)'
          PROVE  Current(u)' \in raced \cup unguarded
      <3>1. CASE r \in outbox
        BY <2>1, <2>2, <3>1 DEF RaceInv, DuplicateInv
      <3>2. CASE r = new
        BY <1>6, <1>7, <2>1, <2>2, <3>2 DEF RaceInv, DuplicateInv
      <3>3. QED
        BY <1>1, <3>1, <3>2
    <2>3. QED
      BY <2>1, <2>2 DEF RaceInv, DuplicateInv
  <1>12. QED
    BY <1>5, <1>8, <1>9, <1>10, <1>11 DEF DuplicateInv

LEMMA CheckStep ==
    ASSUME TypeOK, TypeOK', DuplicateInv, NEW t \in Task, CheckProcessed(t)
    PROVE  DuplicateInv'
  <1>1. pc[t] = "check" /\ pc[t] \in Busy /\ pc[t] \notin Checked
    BY DEF CheckProcessed, Busy, PC, Checked
  <1>2. CASE cacheUp /\ Current(t) \in processed
    <2>1. Settle(t, "duplicate")
      BY <1>2 DEF CheckProcessed
    <2>2. /\ Len(log'[t]) = Len(log[t]) + 1 /\ pc'[t] \in {"done", "check"}
          /\ \A u \in Task \ {t} : pc'[u] = pc[u] /\ log'[u] = log[u]
      BY <1>1, <2>1, SettleType DEF Outcome
    <2>3. UNCHANGED <<outbox, processed, unguarded>> /\ raced \subseteq raced'
      BY <1>2 DEF CheckProcessed
    <2>4. \A u \in Task : pc'[u] \in Checked => pc[u] \in Checked /\ Current(u)' = Current(u)
      BY <2>2 DEF Checked, Busy, PC, Current, At
    <2>5. OutboxInv'
      <3>1. ASSUME NEW r \in outbox PROVE r.at <= Len(log'[r.task])
        BY <2>2, RecordType DEF DuplicateInv
      <3>2. QED
        BY <2>3, <3>1 DEF OutboxInv, DuplicateInv
    <2>6. RepliedIsMarked' /\ DuplicateOnlyByRace'
      BY <2>3 DEF DuplicateInv, RepliedIsMarked, DuplicateOnlyByRace
    <2>7. MarkInv'
      <3>1. \A u \in Task : pc'[u] \in Marked => pc[u] \in Marked
        BY <2>2 DEF Marked, Busy, PC
      <3>2. QED
        BY <2>3, <2>4, <3>1 DEF DuplicateInv, MarkInv, Checked, Marked
    <2>8. RaceInv'
      BY <2>3, <2>4 DEF DuplicateInv, RaceInv
    <2>9. QED
      BY <2>5, <2>6, <2>7, <2>8 DEF DuplicateInv
  <1>3. CASE ~(cacheUp /\ Current(t) \in processed)
    <2> DEFINE m == Current(t)
    <2>1. Goto(t, "mark") /\ UNCHANGED <<log, outbox, processed>>
      BY <1>3 DEF CheckProcessed
    <2>2. pc'[t] = "mark" /\ \A u \in Task \ {t} : pc'[u] = pc[u]
      BY <2>1 DEF Goto, TypeOK
    <2>3. \A u \in Task : Current(u)' = Current(u)
      BY <2>1 DEF Current, At
    <2>4. unguarded \subseteq unguarded' /\ raced \subseteq raced'
      BY DEF CheckProcessed
    <2>5. m \in processed \cup unguarded => m \in unguarded'
      BY <1>3 DEF CheckProcessed
    <2>6. ASSUME NEW u \in Task \ {t}, pc[u] \in Checked, Current(u) = m
          PROVE  m \in raced' \cup unguarded'
      <3>1. CASE pc[u] = "mark"
        BY <2>6, <3>1 DEF CheckProcessed
      <3>2. CASE pc[u] # "mark"
        <4>1. m \in processed \cup unguarded
          BY <2>6, <3>2 DEF DuplicateInv, MarkInv, Checked, Marked
        <4>2. QED
          BY <2>5, <4>1
      <3>3. QED
        BY <3>1, <3>2
    <2>7. ASSUME NEW r \in outbox, Batch[r.task][r.at] = m
          PROVE  m \in raced' \cup unguarded'
      BY <2>5, <2>7 DEF DuplicateInv, RepliedIsMarked
    <2>8. RaceInv'
      BY <2>1, <2>2, <2>3, <2>4, <2>6, <2>7 DEF RaceInv, DuplicateInv
    <2>9. MarkInv'
      BY <2>1, <2>2, <2>3, <2>4 DEF MarkInv, DuplicateInv, Marked
    <2>10. OutboxInv' /\ RepliedIsMarked' /\ DuplicateOnlyByRace'
      BY <2>1, <2>4 DEF DuplicateInv, OutboxInv, RepliedIsMarked, DuplicateOnlyByRace
    <2>11. QED
      BY <2>8, <2>9, <2>10 DEF DuplicateInv
  <1>4. QED
    BY <1>2, <1>3

LEMMA MarkStep ==
    ASSUME TypeOK, TypeOK', DuplicateInv, NEW t \in Task, MarkProcessed(t)
    PROVE  DuplicateInv'
  <1>1. pc[t] = "mark" /\ Goto(t, "limit") /\ UNCHANGED <<log, outbox, raced>>
    BY DEF MarkProcessed
  <1>2. pc'[t] = "limit" /\ \A u \in Task \ {t} : pc'[u] = pc[u]
    BY <1>1 DEF Goto, TypeOK
  <1>3. \A u \in Task : Current(u)' = Current(u)
    BY <1>1 DEF Current, At
  <1>4. /\ processed \subseteq processed' /\ unguarded \subseteq unguarded'
        /\ Current(t) \in processed' \cup unguarded'
    BY DEF MarkProcessed, AfterWrite
  <1>5. \A u \in Task : pc'[u] \in Checked => pc[u] \in Checked
    BY <1>1, <1>2 DEF Checked, Busy, PC
  <1>6. MarkInv'
    BY <1>2, <1>3, <1>4 DEF MarkInv, DuplicateInv
  <1>7. RaceInv'
    BY <1>1, <1>3, <1>4, <1>5 DEF RaceInv, DuplicateInv
  <1>8. OutboxInv' /\ RepliedIsMarked' /\ DuplicateOnlyByRace'
    BY <1>1, <1>4 DEF DuplicateInv, OutboxInv, RepliedIsMarked, DuplicateOnlyByRace
  <1>9. QED
    BY <1>6, <1>7, <1>8 DEF DuplicateInv

\* Moving on within a message, and giving up on one, are muted.
LEMMA MovedMuted ==
    ASSUME TypeOK, NEW t \in Task, NEW l \in PC, Goto(t, l), UNCHANGED log,
           pc[t] \in Marked \/ l \notin Checked,
           UNCHANGED <<processed, unguarded, raced, outbox>>
    PROVE  Muted
  <1>1. pc'[t] = l /\ \A u \in Task \ {t} : pc'[u] = pc[u]
    BY DEF Goto, TypeOK
  <1>2. \A u \in Task : Len(log[u]) <= Len(log'[u])
    BY DEF TypeOK
  <1>3. QED
    BY <1>1, <1>2 DEF Muted, Checked, Marked

LEMMA SettledMuted ==
    ASSUME TypeOK, NEW t \in Task, pc[t] \in Busy, NEW o \in Outcome, Settle(t, o),
           UNCHANGED <<processed, unguarded, raced, outbox>>
    PROVE  Muted
  <1>1. /\ Len(log'[t]) = Len(log[t]) + 1 /\ pc'[t] \notin Checked /\ pc'[t] \notin Marked
        /\ \A u \in Task \ {t} : pc'[u] = pc[u] /\ log'[u] = log[u]
    BY SettleType DEF Checked, Marked, Busy, PC
  <1>2. ASSUME NEW u \in Task PROVE Len(log[u]) <= Len(log'[u])
    <2>1. Len(log[u]) \in Nat
      BY DEF TypeOK
    <2>2. CASE u = t
      BY <1>1, <2>1, <2>2
    <2>3. CASE u # t
      BY <1>1, <2>1, <2>3
    <2>4. QED
      BY <2>2, <2>3
  <1>3. QED
    BY <1>1, <1>2 DEF Muted

LEMMA DuplicateStep == TypeOK /\ TypeOK' /\ DuplicateInv /\ [Next]_vars => DuplicateInv'
  <1> SUFFICES ASSUME TypeOK, TypeOK', DuplicateInv, [Next]_vars PROVE DuplicateInv'
    OBVIOUS
  <1> USE DEF Busy, PC, Checked, Marked
  <1>1. ASSUME NEW t \in Task, DropWebhook(t) PROVE Muted
    BY <1>1, MovedMuted DEF DropWebhook, ghostVars
  <1>2. ASSUME NEW t \in Task, StartWebhook(t) PROVE Muted
    BY <1>2, MovedMuted DEF StartWebhook, ghostVars
  <1>3. ASSUME NEW t \in Task, CheckProcessed(t) PROVE DuplicateInv'
    BY <1>3, CheckStep
  <1>4. ASSUME NEW t \in Task, MarkProcessed(t) PROVE DuplicateInv'
    BY <1>4, MarkStep
  <1>5. ASSUME NEW t \in Task, CheckRateLimit(t) PROVE Muted
    BY <1>5, MovedMuted DEF CheckRateLimit, Respond, ghostVars
  <1>6. ASSUME NEW t \in Task, CheckOptOut(t) PROVE Muted
    <2>1. CASE Settle(t, "optedOut")
      BY <1>6, <2>1, SettledMuted DEF CheckOptOut, Outcome, ghostVars
    <2>2. CASE Dispatch(t)
      BY <1>6, <2>2, MovedMuted DEF CheckOptOut, Dispatch, Respond, ghostVars
    <2>3. QED
      BY <1>6, <2>1, <2>2 DEF CheckOptOut
  <1>7. ASSUME NEW t \in Task, StopSet(t) PROVE Muted
    BY <1>7, MovedMuted DEF StopSet, ghostVars
  <1>8. ASSUME NEW t \in Task, StopDb(t) PROVE Muted
    BY <1>8, MovedMuted DEF StopDb, Respond, ghostVars
  <1>9. ASSUME NEW t \in Task, StartSet(t) PROVE Muted
    BY <1>9, MovedMuted DEF StartSet, ghostVars
  <1>10. ASSUME NEW t \in Task, StartDb(t) PROVE Muted
    BY <1>10, MovedMuted DEF StartDb, Respond, ghostVars
  <1>11. ASSUME NEW t \in Task, CommandDbFails(t) PROVE Muted
    BY <1>11, SettledMuted DEF CommandDbFails, Outcome, ghostVars
  <1>12. ASSUME NEW t \in Task, ChatOpen(t) PROVE Muted
    BY <1>12, MovedMuted DEF ChatOpen, ghostVars
  <1>13. ASSUME NEW t \in Task, ChatIntent(t) PROVE Muted
    BY <1>13, MovedMuted DEF ChatIntent, ghostVars
  <1>14. ASSUME NEW t \in Task, ChatAnswers(t) PROVE Muted
    BY <1>14, MovedMuted DEF ChatAnswers, Respond, ghostVars
  <1>15. ASSUME NEW t \in Task, ChatFails(t) PROVE Muted
    BY <1>15, MovedMuted DEF ChatFails, Respond, ghostVars
  <1>16. ASSUME NEW t \in Task, AcquireSlot(t) PROVE Muted
    BY <1>16, MovedMuted DEF AcquireSlot, ghostVars
  <1>17. ASSUME NEW t \in Task, SendSucceeds(t) PROVE DuplicateInv'
    BY <1>17, DeliveredStep DEF SendSucceeds, ghostVars, Outcome
  <1>18. ASSUME NEW t \in Task, SendThrottled(t) PROVE Muted
    BY <1>18, SettledMuted DEF SendThrottled, Outcome, ghostVars
  <1>19. ASSUME NEW t \in Task, SendFails(t) PROVE DuplicateInv'
    <2>1. CASE Deliver(t)
      BY <1>19, <2>1, DeliveredStep DEF SendFails, ghostVars, Outcome
    <2>2. CASE UNCHANGED outbox
      BY <1>19, <2>2, SettledMuted, MutedStep DEF SendFails, ghostVars, Outcome
    <2>3. QED
      BY <1>19, <2>1, <2>2 DEF SendFails
  <1>20. \A u \in Task : Len(log[u]) <= Len(log[u])
    BY DEF TypeOK
  <1>21. CASE CacheToggle
    BY <1>20, <1>21, MutedStep DEF CacheToggle, Muted, taskVars, ghostVars
  <1>22. ASSUME NEW m \in Msg, ExpireMark(m) PROVE Muted
    BY <1>20, <1>22 DEF ExpireMark, Muted, taskVars
  <1>23. CASE Restart
    <2>1. \A u \in Task : pc'[u] \in {"idle", "done", "lost"}
      BY <1>23 DEF Restart
    <2>2. Muted
      BY <1>20, <1>23, <2>1 DEF Restart, Muted, ghostVars
    <2>3. QED
      BY <2>2, MutedStep
  <1>24. CASE UNCHANGED vars
    BY <1>20, <1>24, MutedStep DEF vars, Muted
  <1>25. QED
    BY <1>1, <1>2, <1>3, <1>4, <1>5, <1>6, <1>7, <1>8, <1>9, <1>10, <1>11, <1>12, <1>13,
       <1>14, <1>15, <1>16, <1>17, <1>18, <1>19, <1>21, <1>22, <1>23, <1>24, MutedStep
       DEF Next, Step

LEMMA DuplicateInvariant == Spec => []DuplicateInv
  <1>1. Init => DuplicateInv
    BY DEF Init, DuplicateInv, OutboxInv, MarkInv, RepliedIsMarked, RaceInv,
           DuplicateOnlyByRace, Checked, Marked, Busy, PC
  <1>2. QED
    BY <1>1, TypeCorrect, DuplicateStep, PTL DEF Spec

\* No answer goes out for a message whose key was not written first, unless the
\* key expired or Redis was away.
THEOREM MarkedBeforeReply == Spec => []RepliedIsMarked
  BY DuplicateInvariant, PTL DEF DuplicateInv

\* Two answers to one message need two deliveries between check and mark, or a
\* missing key, for any number of deliveries, payloads, restarts and outages.
THEOREM NoOtherDuplicate == Spec => []DuplicateOnlyByRace
  BY DuplicateInvariant, PTL DEF DuplicateInv

-----------------------------------------------------------------------------
(* The promise of module Consent.  A command is only carried out for the     *)
(* message that asked for it, and the message a task holds was neither       *)
(* settled before nor is it let through by another task.                     *)
CommandInv ==
    \A t \in Task : /\ pc[t] = "stopSet"  => KindOf[Current(t)] = "stop"
                    /\ pc[t] = "startSet" => KindOf[Current(t)] = "start"

\* Nobody but CheckOptOut starts to carry out a command.
NoNewCommand ==
    \A u \in Task : pc'[u] \in {"stopSet", "startSet"} => pc'[u] = pc[u] /\ log'[u] = log[u]

LEMMA NoNewCommandStep ==
    ASSUME CommandInv, NoNewCommand
    PROVE  CommandInv'
  BY DEF CommandInv, NoNewCommand, Current, At

LEMMA MovedOn ==
    ASSUME TypeOK, NEW t \in Task, NEW l \in PC \ {"stopSet", "startSet"}, Goto(t, l), UNCHANGED log
    PROVE  NoNewCommand
  BY DEF NoNewCommand, Goto, TypeOK

LEMMA SettledOn ==
    ASSUME TypeOK, NEW t \in Task, pc[t] \in Busy, NEW o \in Outcome, Settle(t, o)
    PROVE  NoNewCommand
  BY SettleType DEF NoNewCommand

LEMMA CommandStep == TypeOK /\ CommandInv /\ [Next]_vars => CommandInv'
  <1> SUFFICES ASSUME TypeOK, CommandInv, [Next]_vars PROVE CommandInv'
    OBVIOUS
  <1> USE DEF Busy, PC
  <1>1. ASSUME NEW t \in Task, DropWebhook(t) \/ StartWebhook(t) PROVE NoNewCommand
    BY <1>1, MovedOn DEF DropWebhook, StartWebhook
  <1>2. ASSUME NEW t \in Task, CheckProcessed(t) PROVE NoNewCommand
    BY <1>2, MovedOn, SettledOn DEF CheckProcessed, Outcome
  <1>3. ASSUME NEW t \in Task, MarkProcessed(t) PROVE NoNewCommand
    BY <1>3, MovedOn DEF MarkProcessed
  <1>4. ASSUME NEW t \in Task, CheckRateLimit(t) PROVE NoNewCommand
    BY <1>4, MovedOn DEF CheckRateLimit, Respond
  <1>5. ASSUME NEW t \in Task, CheckOptOut(t) PROVE CommandInv'
    <2>1. CASE Settle(t, "optedOut")
      BY <1>5, <2>1, SettledOn, NoNewCommandStep DEF CheckOptOut, Outcome
    <2>2. CASE Dispatch(t)
      <3>1. log' = log /\ \A u \in Task \ {t} : pc'[u] = pc[u]
        BY <1>5, <2>2, DispatchType DEF CheckOptOut
      <3>2. \A u \in Task : Current(u)' = Current(u)
        BY <3>1 DEF Current, At
      <3>3. /\ pc'[t] = "stopSet"  => KindOf[Current(t)] = "stop"
            /\ pc'[t] = "startSet" => KindOf[Current(t)] = "start"
        <4>1. \A l \in PC : Goto(t, l) => pc'[t] = l
          BY DEF Goto, TypeOK
        <4>2. QED
          BY <2>2, <4>1 DEF Dispatch, Respond
      <3>4. QED
        BY <3>1, <3>2, <3>3 DEF CommandInv
    <2>3. QED
      BY <1>5, <2>1, <2>2 DEF CheckOptOut
  <1>6. ASSUME NEW t \in Task, StopSet(t) \/ StartSet(t) PROVE NoNewCommand
    BY <1>6, MovedOn DEF StopSet, StartSet
  <1>7. ASSUME NEW t \in Task, StopDb(t) \/ StartDb(t) PROVE NoNewCommand
    BY <1>7, MovedOn DEF StopDb, StartDb, Respond
  <1>8. ASSUME NEW t \in Task, CommandDbFails(t) PROVE NoNewCommand
    BY <1>8, SettledOn DEF CommandDbFails, Outcome
  <1>9. ASSUME NEW t \in Task, ChatOpen(t) \/ ChatIntent(t) PROVE NoNewCommand
    BY <1>9, MovedOn DEF ChatOpen, ChatIntent
  <1>10. ASSUME NEW t \in Task, ChatAnswers(t) \/ ChatFails(t) PROVE NoNewCommand
    BY <1>10, MovedOn DEF ChatAnswers, ChatFails, Respond
  <1>11. ASSUME NEW t \in Task, AcquireSlot(t) PROVE NoNewCommand
    BY <1>11, MovedOn DEF AcquireSlot
  <1>12. ASSUME NEW t \in Task, SendSucceeds(t) \/ SendThrottled(t) \/ SendFails(t)
         PROVE  NoNewCommand
    BY <1>12, SettledOn DEF SendSucceeds, SendThrottled, SendFails, Outcome
  <1>13. CASE CacheToggle \/ UNCHANGED vars
    <2>1. pc' = pc /\ log' = log
      BY <1>13 DEF CacheToggle, vars, taskVars
    <2>2. QED
      BY <2>1, NoNewCommandStep DEF NoNewCommand
  <1>14. ASSUME NEW m \in Msg, ExpireMark(m) PROVE NoNewCommand
    BY <1>14 DEF ExpireMark, taskVars, NoNewCommand
  <1>15. CASE Restart
    <2>1. UNCHANGED log /\ \A u \in Task : pc'[u] = pc[u] \/ pc'[u] = "lost"
      BY <1>15 DEF Restart
    <2>2. QED
      BY <2>1, NoNewCommandStep DEF NoNewCommand
  <1>16. QED
    BY <1>1, <1>2, <1>3, <1>4, <1>5, <1>6, <1>7, <1>8, <1>9, <1>10, <1>11, <1>12, <1>13,
       <1>14, <1>15, NoNewCommandStep DEF Next, Step

LEMMA CommandHolds == Spec => []CommandInv
  <1>1. Init => CommandInv
    BY DEF Init, CommandInv
  <1>2. QED
    BY <1>1, TypeCorrect, CommandStep, PTL DEF Spec

\* The message a task holds, as module Consent sees it.
LEMMA HeldMessage ==
    ASSUME TypeOK, NEW t \in Task, pc[t] \in Busy
    PROVE  /\ Here(t) \in Delivered
           /\ MessageOf(Here(t)) = Current(t)
           /\ Here(t) \notin settled
           /\ Here(t) \in through <=> Answering(t)
  <1>1. At(t) \in 1..Len(Batch[t]) /\ Batch[t] \in Seq(Msg) /\ log[t] \in Seq(Outcome)
    BY CurrentType, TaskAssumption DEF TypeOK
  <1>2. Here(t) \in Delivered
    BY <1>1 DEF Here, Delivered
  <1>3. MessageOf(Here(t)) = Current(t)
    BY DEF Here, MessageOf, Current
  <1>4. Here(t) \notin settled
    <2>1. At(t) \notin DOMAIN log[t]
      BY <1>1 DEF At
    <2>2. QED
      BY <2>1 DEF settled, Here
  <1>5. \A u \in Task : Here(u) = Here(t) => u = t
    BY DEF Here
  <1>6. Here(t) \in through <=> Answering(t)
    BY <1>5 DEF through
  <1>7. QED
    BY <1>2, <1>3, <1>4, <1>6

\* What Consent sees is all left alone.
Unseen == UNCHANGED <<optedOut, through, settled, told>>

LEMMA MovedThrough ==
    ASSUME TypeOK, NEW t \in Task, NEW l \in PC, Goto(t, l), UNCHANGED log,
           \A u \in Task \ {t} : reply'[u] = reply[u]
    PROVE  /\ settled' = settled
           /\ Answering(t)' <=> Answering(t) => through' = through
           /\ Answering(t)' => through' = through \cup {Here(t)}
  <1>1. \A u \in Task \ {t} : Answering(u)' <=> Answering(u)
    BY DEF Goto, Answering, TypeOK
  <1>2. \A u \in Task : Here(u)' = Here(u)
    BY DEF Here, At
  <1>3. QED
    BY <1>1, <1>2 DEF through, settled

LEMMA SettledThrough ==
    ASSUME TypeOK, NEW t \in Task, pc[t] \in Busy, NEW o \in Outcome, Settle(t, o)
    PROVE  /\ settled' = settled \cup {Here(t)}
           /\ through' = through \ {Here(t)}
  <1>1. /\ Len(log'[t]) = Len(log[t]) + 1 /\ pc'[t] \in {"done", "check"}
        /\ \A u \in Task \ {t} : pc'[u] = pc[u] /\ log'[u] = log[u]
        /\ log'[t] \in Seq(Outcome) /\ log[t] \in Seq(Outcome)
    BY SettleType DEF TypeOK
  <1>2. \A u \in Task \ {t} : reply'[u] = reply[u]
    BY DEF Settle, TypeOK
  <1>3. DOMAIN log'[t] = DOMAIN log[t] \cup {At(t)}
    BY <1>1 DEF At
  <1>4. settled' = settled \cup {Here(t)}
    BY <1>1, <1>3 DEF settled, Here
  <1>5. \A u \in Task \ {t} : (Answering(u)' <=> Answering(u)) /\ Here(u)' = Here(u)
    BY <1>1, <1>2 DEF Answering, Here, At
  <1>6. ~Answering(t)' /\ \A u \in Task : Here(u) = Here(t) => u = t
    BY <1>1 DEF Answering, Cleared, Here
  <1>7. through' = through \ {Here(t)}
    BY <1>5, <1>6 DEF through
  <1>8. QED
    BY <1>4, <1>7

\* A task that stays within an answer, or outside of one, is not seen.
LEMMA MovedUnseen ==
    ASSUME TypeOK, NEW t \in Task, NEW l \in PC, Goto(t, l), UNCHANGED log,
           \A u \in Task \ {t} : reply'[u] = reply[u],
           Answering(t)' <=> Answering(t),
           UNCHANGED <<optedOut, outbox>>
    PROVE  Unseen
  BY MovedThrough DEF Unseen, told

\* A message that was not let through is settled, with or without a notice;
\* one that was let through is answered.
LEMMA SettledByConsent ==
    ASSUME TypeOK, NEW t \in Task, pc[t] \in Busy, NEW o \in Outcome, Settle(t, o),
           UNCHANGED optedOut,
           outbox' = outbox \/ (pc[t] = "sending" /\ Deliver(t))
    PROVE  Promise!TurnAway(Here(t)) \/ Promise!Answer(Here(t))
  <1> DEFINE said(notice) == [of |-> Here(t), to |-> Sender(t), notice |-> notice]
  <1>1. settled' = settled \cup {Here(t)} /\ through' = through \ {Here(t)}
    BY SettledThrough
  <1>2. /\ Here(t) \in Delivered /\ MessageOf(Here(t)) = Current(t)
        /\ Here(t) \notin settled /\ (Here(t) \in through <=> Answering(t))
    BY HeldMessage
  <1>3. [d \in Delivered |-> PhoneOf[MessageOf(d)]][Here(t)] = Sender(t)
    BY <1>2 DEF Sender
  <1>4. \/ told' = told
        \/ pc[t] = "sending" /\ told' = told \cup {said(reply[t] = "tooFast")}
    <2>1. CASE outbox' = outbox
      BY <2>1 DEF told
    <2>2. CASE pc[t] = "sending" /\ Deliver(t)
      BY <2>2 DEF told, Deliver, Here
    <2>3. QED
      BY <2>1, <2>2
  <1>5. CASE Answering(t)
    <2>1. \/ told' = told
          \/ told' = told \cup {said(FALSE)}
      BY <1>4, <1>5 DEF Answering, Cleared
    <2>2. Promise!Answer(Here(t))
      BY <1>1, <1>2, <1>3, <1>5, <2>1 DEF Promise!Answer, Promise!Told
    <2>3. QED
      BY <2>2
  <1>6. CASE ~Answering(t)
    <2>1. \/ told' = told
          \/ told' = told \cup {said(TRUE)}
      BY <1>4, <1>6 DEF Answering
    <2>2. through' = through
      BY <1>1, <1>2, <1>6
    <2>3. Promise!TurnAway(Here(t))
      BY <1>1, <1>2, <1>3, <1>6, <2>1, <2>2 DEF Promise!TurnAway, Promise!Told
    <2>4. QED
      BY <2>3
  <1>7. QED
    BY <1>5, <1>6

\* Carrying out a command: only for whoever asked.
LEMMA CommandByConsent ==
    ASSUME TypeOK, CommandInv, NEW t \in Task, StopSet(t) \/ StartSet(t)
    PROVE  Unseen \/ Promise!Obey(Here(t))
  <1>1. /\ pc[t] \in {"stopSet", "startSet"} /\ pc[t] \in Busy
        /\ UNCHANGED <<log, reply, outbox>>
    BY DEF StopSet, StartSet, Busy, PC
  <1>2. pc'[t] \in {"stopDb", "startDb"} /\ \E l \in PC : Goto(t, l)
    BY DEF StopSet, StartSet, Goto, TypeOK, PC
  <1>3. Answering(t) /\ Answering(t)'
    BY <1>1, <1>2 DEF Answering, Cleared
  <1>4. settled' = settled /\ through' = through /\ told' = told
    BY <1>1, <1>2, <1>3, MovedThrough DEF told
  <1>5. /\ Here(t) \in Delivered /\ MessageOf(Here(t)) = Current(t)
        /\ Here(t) \in through
    BY <1>1, <1>3, HeldMessage
  <1>6. /\ [d \in Delivered |-> PhoneOf[MessageOf(d)]][Here(t)] = Sender(t)
        /\ [d \in Delivered |-> KindOf[MessageOf(d)]][Here(t)] = KindOf[Current(t)]
    BY <1>5 DEF Sender
  <1>7. \/ KindOf[Current(t)] = "stop"  /\ optedOut' = optedOut \cup {Sender(t)}
        \/ KindOf[Current(t)] = "start" /\ optedOut' = optedOut \ {Sender(t)}
        \/ optedOut' = optedOut
    BY DEF StopSet, StartSet, AfterWrite, CommandInv
  <1>8. CASE optedOut' = optedOut
    BY <1>4, <1>8 DEF Unseen
  <1>9. CASE optedOut' # optedOut
    BY <1>4, <1>5, <1>6, <1>7, <1>9 DEF Promise!Obey
  <1>10. QED
    BY <1>8, <1>9

\* Passing the opt-out check.
LEMMA ClearedByConsent ==
    ASSUME TypeOK, NEW t \in Task, CheckOptOut(t)
    PROVE  Promise!LetThrough(Here(t)) \/ Promise!TurnAway(Here(t)) \/ Promise!Answer(Here(t))
  <1>1. pc[t] = "optOut" /\ pc[t] \in Busy /\ UNCHANGED <<optedOut, outbox>>
    BY DEF CheckOptOut, Busy, PC
  <1>2. CASE Settle(t, "optedOut")
    BY <1>1, <1>2, SettledByConsent DEF Outcome
  <1>3. CASE Dispatch(t)
    <2>1. /\ Here(t) \in Delivered /\ MessageOf(Here(t)) = Current(t)
          /\ Here(t) \notin settled /\ (Here(t) \in through <=> Answering(t))
      BY <1>1, HeldMessage
    <2>2. [d \in Delivered |-> PhoneOf[MessageOf(d)]][Here(t)] = Sender(t)
      BY <2>1 DEF Sender
    <2>3. ~Answering(t)
      BY <1>1 DEF Answering, Cleared
    <2>4. /\ log' = log /\ pc'[t] \in {"stopSet", "startSet", "slot", "chat"}
          /\ \A u \in Task \ {t} : reply'[u] = reply[u]
      BY <1>1, <1>3, DispatchType
    <2>5. \E l \in PC : Goto(t, l)
      BY <1>3 DEF Dispatch, Respond, PC
    <2>6. pc'[t] = "slot" => reply'[t] # "tooFast"
      <3>1. \A l \in PC : Goto(t, l) => pc'[t] = l
        BY DEF Goto, TypeOK
      <3>2. ASSUME NEW r, Respond(t, r) PROVE reply'[t] = r
        BY <3>2 DEF Respond, TypeOK
      <3>3. QED
        BY <1>3, <3>1, <3>2 DEF Dispatch, PC
    <2>7. Answering(t)'
      BY <2>4, <2>6 DEF Answering, Cleared
    <2>8. settled' = settled /\ through' = through \cup {Here(t)} /\ told' = told
      BY <1>1, <2>4, <2>5, <2>7, MovedThrough DEF told
    <2>9. Promise!LetThrough(Here(t))
      BY <1>1, <1>3, <2>1, <2>2, <2>3, <2>8 DEF Promise!LetThrough
    <2>10. QED
      BY <2>9
  <1>4. QED
    BY <1>2, <1>3 DEF CheckOptOut

\* Every step of the handler is one that Consent knows, or none it sees.
LEMMA PromiseStep == TypeOK /\ CommandInv /\ [Next]_vars => [Promise!Next]_(Promise!vars)
  <1> SUFFICES ASSUME TypeOK, CommandInv, [Next]_vars PROVE Unseen \/ Promise!Next
    BY DEF Unseen, Promise!vars
  <1> USE DEF Busy, PC, Cleared
  <1> DEFINE Known(t) == /\ pc[t] \in Busy
                         /\ \/ Promise!LetThrough(Here(t)) \/ Promise!TurnAway(Here(t))
                            \/ Promise!Answer(Here(t)) \/ Promise!Obey(Here(t))
  <1>0. reply \in [Task -> Reply] /\ pc \in [Task -> PC]
    BY DEF TypeOK
  <1>1. ASSUME NEW t \in Task, DropWebhook(t) PROVE Unseen
    BY <1>0, <1>1, MovedUnseen DEF DropWebhook, Goto, Answering
  <1>2. ASSUME NEW t \in Task, StartWebhook(t) PROVE Unseen
    BY <1>0, <1>2, MovedUnseen DEF StartWebhook, Goto, Answering
  <1>3. ASSUME NEW t \in Task, CheckProcessed(t) PROVE Unseen \/ Known(t)
    <2>1. CASE Settle(t, "duplicate")
      BY <1>3, <2>1, SettledByConsent DEF CheckProcessed, Outcome
    <2>2. CASE Goto(t, "mark") /\ UNCHANGED <<log, reply>>
      BY <1>0, <1>3, <2>2, MovedUnseen DEF CheckProcessed, Goto, Answering
    <2>3. QED
      BY <1>3, <2>1, <2>2 DEF CheckProcessed
  <1>4. ASSUME NEW t \in Task, MarkProcessed(t) PROVE Unseen
    BY <1>0, <1>4, MovedUnseen DEF MarkProcessed, Goto, Answering
  <1>5. ASSUME NEW t \in Task, CheckRateLimit(t) PROVE Unseen
    <2>1. CASE Respond(t, "tooFast")
      <3>1. /\ pc[t] = "limit" /\ Goto(t, "slot") /\ reply'[t] = "tooFast"
            /\ UNCHANGED <<log, optedOut, outbox>>
            /\ \A u \in Task \ {t} : reply'[u] = reply[u]
        BY <1>0, <1>5, <2>1 DEF CheckRateLimit, Respond
      <3>2. ~Answering(t) /\ ~Answering(t)'
        BY <1>0, <3>1 DEF Goto, Answering
      <3>3. QED
        BY <3>1, <3>2, MovedUnseen
    <2>2. CASE Goto(t, "optOut") /\ UNCHANGED <<log, reply>>
      BY <1>0, <1>5, <2>2, MovedUnseen DEF CheckRateLimit, Goto, Answering
    <2>3. QED
      BY <1>5, <2>1, <2>2 DEF CheckRateLimit
  <1>6. ASSUME NEW t \in Task, CheckOptOut(t) PROVE Known(t)
    BY <1>6, ClearedByConsent DEF CheckOptOut
  <1>7. ASSUME NEW t \in Task, StopSet(t) \/ StartSet(t) PROVE Unseen \/ Known(t)
    BY <1>7, CommandByConsent DEF StopSet, StartSet
  <1>8. ASSUME NEW t \in Task, StopDb(t) \/ StartDb(t) PROVE Unseen
    BY <1>0, <1>8, MovedUnseen DEF StopDb, StartDb, Respond, Goto, Answering
  <1>9. ASSUME NEW t \in Task, CommandDbFails(t) PROVE Known(t)
    BY <1>9, SettledByConsent DEF CommandDbFails, Outcome
  <1>10. ASSUME NEW t \in Task, ChatOpen(t) \/ ChatIntent(t) PROVE Unseen
    BY <1>0, <1>10, MovedUnseen DEF ChatOpen, ChatIntent, Goto, Answering
  <1>11. ASSUME NEW t \in Task, ChatAnswers(t) \/ ChatFails(t) PROVE Unseen
    BY <1>0, <1>11, MovedUnseen DEF ChatAnswers, ChatFails, ChatText, Respond, Goto, Answering
  <1>12. ASSUME NEW t \in Task, AcquireSlot(t) PROVE Unseen
    BY <1>0, <1>12, MovedUnseen DEF AcquireSlot, Goto, Answering
  <1>13. ASSUME NEW t \in Task, SendSucceeds(t) \/ SendThrottled(t) \/ SendFails(t)
         PROVE  Known(t)
    BY <1>13, SettledByConsent DEF SendSucceeds, SendThrottled, SendFails, Outcome
  <1>14. CASE CacheToggle \/ (\E m \in Msg : ExpireMark(m)) \/ UNCHANGED vars
    <2>1. UNCHANGED <<taskVars, optedOut, outbox>>
      BY <1>14 DEF CacheToggle, ExpireMark, vars, taskVars
    <2>2. QED
      BY <2>1 DEF taskVars, Unseen, through, settled, told, Here, At, Answering
  <1>15. CASE Restart
    <2>1. UNCHANGED <<log, optedOut, outbox>> /\ \A u \in Task : ~Answering(u)'
      BY <1>15 DEF Restart, Answering
    <2>2. through' = {} /\ UNCHANGED <<settled, told>>
      BY <2>1 DEF through, settled, told
    <2>3. Promise!Forget
      BY <2>1, <2>2 DEF Promise!Forget
    <2>4. QED
      BY <2>3 DEF Promise!Next
  <1>16. ASSUME NEW t \in Task, Known(t) PROVE Promise!Next
    <2>1. Here(t) \in Delivered
      BY <1>16, HeldMessage
    <2>2. QED
      BY <1>16, <2>1 DEF Promise!Next
  <1>17. QED
    BY <1>1, <1>2, <1>3, <1>4, <1>5, <1>6, <1>7, <1>8, <1>9, <1>10, <1>11, <1>12, <1>13,
       <1>14, <1>15, <1>15, <1>16 DEF Next, Step

\* For any deliveries, senders, outages and restarts, the handler implements the
\* promise: each message is let through and answered once at most, and the record
\* of who is opted out is changed by the sender's own command only.
\* (whatsapp_service.py:258-413)
THEOREM PromiseKept == Spec => KeepsThePromise
  <1>1. Init => Promise!Init
    <2>1. Init => through = {} /\ settled = {} /\ told = {}
      BY DEF Init, through, settled, told, Answering, Cleared
    <2>2. QED
      BY <2>1 DEF Init, Promise!Init
  <1>2. Spec => Promise!Init /\ [][Promise!Next]_(Promise!vars)
    BY <1>1, PromiseStep, TypeCorrect, CommandHolds, PTL DEF Spec
  <1>3. QED
    BY <1>2 DEF KeepsThePromise, Promise!Spec
=============================================================================
