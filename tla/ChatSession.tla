---------------------------- MODULE ChatSession -----------------------------
(***************************************************************************)
(* ChatService.process_message (app/services/chat_service.py) over the one *)
(* AsyncSession that main.py creates and hands to both repositories.       *)
(*                                                                         *)
(* Requests are interleaved on one event loop; every action is the code    *)
(* between two awaits, a statement and the answer to it being one action.  *)
(* The exception is the flush of new rows: while it waits for the driver,  *)
(* a flush by anybody else raises, and what that one had added stays in    *)
(* the session and is written by whoever flushes next.                     *)
(*                                                                         *)
(* No code commits or rolls back.  The transaction begins with the first   *)
(* statement and lasts until the process ends or a statement fails; after  *)
(* a failure every statement raises (PendingRollbackError, or a Postgres   *)
(* transaction that is aborted), and the rows written so far are lost.     *)
(***************************************************************************)
EXTENDS Naturals, FiniteSets

CONSTANTS
    Request,      \* chat messages
    Client,       \* who sends them
    By,           \* By[r]: the sender of r
    KindOf,       \* KindOf[r]: what the service finds in the text of r
    Resuming,     \* requests that carry the session id their client was last given
    OnWhatsApp,   \* requests with channel = "whatsapp"
    NoSession,    \* no session id
    Stranger,     \* a session id that no row ever has
    Nobody,       \* no request is flushing
    IdleKills,    \* may Postgres end an idle transaction?
    MaxFaults,    \* bound on failing statements and failing calls of the model
    MaxRestarts   \* bound on process restarts

Kind == {"stop", "start", "canned", "keyword", "question"}

ASSUME RequestAssumption == /\ By \in [Request -> Client]
                            /\ KindOf \in [Request -> Kind]
                            /\ Resuming \subseteq Request /\ OnWhatsApp \subseteq Request
                            /\ NoSession \notin Request /\ Stranger \notin Request
                            /\ NoSession # Stranger /\ Nobody \notin Request
ASSUME BoundAssumption == /\ IdleKills \in BOOLEAN
                          /\ MaxFaults \in Nat /\ MaxRestarts \in Nat

VARIABLES
    pc,        \* pc[r]: where request r is suspended
    onward,    \* onward[r]: where r goes on when its flush is over
    sent,      \* sent[r]: the session id that r carried
    sid,       \* sid[r]: the session row that r uses, named after its creator
    draft,     \* draft[r]: the reply that r is going to return
    said,      \* said[r]: the reply that was returned
    known,     \* known[c]: the session id client c was last given
    txn,       \* the transaction of the shared session
    sessions,  \* sessions rows: a function on their ids
    stored,    \* conversations rows: the requests that have one
    pending,   \* rows that were added, but not written yet
    flusher,   \* the request whose flush is waiting for the driver
    carried,   \* the rows that this flush is writing
    faults,    \* failing statements, and failing calls of the model, so far
    restarts,  \* restarts so far
    \* history
    lost,      \* rows that were written once and are no more
    declined   \* sessions that were opted out at some time

requestVars == <<pc, onward, sent, sid, draft, said, known>>
dbVars      == <<txn, sessions, stored, pending, flusher, carried>>
ghostVars   == <<lost, declined>>
vars == <<pc, onward, sent, sid, draft, said, known, txn, sessions, stored, pending,
          flusher, carried, faults, restarts, lost, declined>>

Label == {"idle", "lookup", "touch", "create", "flushing", "route", "optOut", "optIn",
          "generate", "retouch", "store", "reply", "done", "gone"}

\* Stages at which the next thing the request does is a statement.
AtStatement == {"lookup", "touch", "create", "optOut", "optIn", "retouch", "store"}

Reply == {"none", "tooFast", "blocked", "canned", "unsubscribed", "keyword", "answer",
          "fallback", "technicalError", "alreadyOut"}

\* The replies that leave a conversation row.
Recorded == {"canned", "unsubscribed", "keyword", "answer", "fallback"}

SessionRow      == [active : BOOLEAN, optedOut : BOOLEAN, count : Nat]
NewRow          == [active |-> TRUE, optedOut |-> FALSE, count |-> 0]
SessionOf(r)      == <<"session", r>>
ConversationOf(r) == <<"conversation", r>>
Row             == {"session", "conversation"} \X Request
Written == {SessionOf(s) : s \in DOMAIN sessions} \cup {ConversationOf(r) : r \in stored}

-----------------------------------------------------------------------------
Init ==
    /\ pc = [r \in Request |-> "idle"]
    /\ onward = [r \in Request |-> "idle"]
    /\ sent = [r \in Request |-> NoSession]
    /\ sid = [r \in Request |-> NoSession]
    /\ draft = [r \in Request |-> "none"]
    /\ said = [r \in Request |-> "none"]
    /\ known = [c \in Client |-> NoSession]
    /\ txn = "none"
    /\ sessions = [s \in {} |-> NewRow]
    /\ stored = {}
    /\ pending = {}
    /\ flusher = Nobody
    /\ carried = {}
    /\ faults = 0
    /\ restarts = 0
    /\ lost = {}
    /\ declined = {}

Goto(r, label) == pc' = [pc EXCEPT ![r] = label]

\* process_message returns; the client keeps the session id of the response.
Answer(r, text, id) ==
    /\ Goto(r, "done")
    /\ said' = [said EXCEPT ![r] = text]
    /\ known' = [known EXCEPT ![By[r]] = id]

\* The response to a request that has no session yet names one made up for it.
GivenId(r) == IF sent[r] = NoSession THEN Stranger ELSE sent[r]

\* The outermost except: nothing is rolled back.
Fail(r) == Answer(r, "technicalError", GivenId(r))

-----------------------------------------------------------------------------
\* Steps 1 and 2.  Only a request with a session id (and an address) is checked
\* by the rate limiter; hostile or invalid text is answered at once.
Receive(r) ==
    /\ pc[r] = "idle"
    /\ sent' = [sent EXCEPT ![r] = IF r \in Resuming THEN known[By[r]] ELSE NoSession]
    /\ \/ Goto(r, IF sent'[r] = NoSession THEN "create" ELSE "lookup") /\ UNCHANGED <<said, known>>
       \/ sent'[r] # NoSession /\ Answer(r, "tooFast", sent'[r])
       \/ Answer(r, "blocked", IF sent'[r] = NoSession THEN Stranger ELSE sent'[r])
    /\ UNCHANGED <<onward, sid, draft, dbVars, faults, restarts, ghostVars>>

\* get_or_create_session: a session that is closed or opted out is left behind.
Usable(s) == s \in DOMAIN sessions /\ sessions[s].active /\ ~sessions[s].optedOut

\* Faulty variant of Lookup: the session id is not looked at.
LookupIgnored(r) ==
    /\ pc[r] = "lookup"
    /\ txn # "broken"
    /\ Goto(r, "create")
    /\ UNCHANGED <<onward, sent, sid, draft, said, known, dbVars, faults, restarts, ghostVars>>

Lookup(r) ==
    /\ pc[r] = "lookup"
    /\ txn # "broken"
    /\ txn' = "open"
    /\ IF Usable(sent[r])
       THEN Goto(r, "touch") /\ sid' = [sid EXCEPT ![r] = sent[r]]
       ELSE Goto(r, "create") /\ UNCHANGED sid
    /\ UNCHANGED <<onward, sent, draft, said, known, sessions, stored, pending, flusher,
                   carried, faults, restarts, ghostVars>>

-----------------------------------------------------------------------------
\* Faulty variant of Flush: the exception of a second flush is swallowed.
FlushSkipped(r, new, label) ==
    /\ pending' = pending \cup new
    /\ IF flusher # Nobody \/ pending' = {}
       THEN Goto(r, label) /\ UNCHANGED <<onward, flusher, carried>>
       ELSE /\ flusher' = r
            /\ carried' = pending'
            /\ Goto(r, "flushing")
            /\ onward' = [onward EXCEPT ![r] = label]
    /\ UNCHANGED <<said, known>>

\* AsyncSession.flush once `new` has been added: it raises while another flush
\* is on its way, returns at once when there is nothing to write, and otherwise
\* writes all that is pending, whoever added it.
Flush(r, new, label) ==
    \/ /\ flusher # Nobody
       /\ pending' = pending \cup new
       /\ Fail(r)
       /\ UNCHANGED <<onward, flusher, carried>>
    \/ /\ flusher = Nobody /\ pending \cup new = {}
       /\ Goto(r, label)
       /\ UNCHANGED <<onward, said, known, pending, flusher, carried>>
    \/ /\ flusher = Nobody /\ pending \cup new # {}
       /\ pending' = pending \cup new
       /\ flusher' = r
       /\ carried' = pending'
       /\ Goto(r, "flushing")
       /\ onward' = [onward EXCEPT ![r] = label]
       /\ UNCHANGED <<said, known>>

\* The rows are written; for a new row, the refresh that reads it back follows.
FlushDone(r) ==
    /\ flusher = r
    /\ sessions' = [s \in DOMAIN sessions \cup {s \in Request : SessionOf(s) \in carried} |->
                       IF s \in DOMAIN sessions THEN sessions[s] ELSE NewRow]
    /\ stored' = stored \cup {c \in Request : ConversationOf(c) \in carried}
    /\ pending' = pending \ carried
    /\ flusher' = Nobody
    /\ carried' = {}
    /\ Goto(r, onward[r])
    /\ UNCHANGED <<onward, sent, sid, draft, said, known, txn, faults, restarts, ghostVars>>

\* create_session, with the columns that process_message gives it.
Create(r) ==
    /\ pc[r] = "create"
    /\ txn # "broken"
    /\ txn' = "open"
    /\ sid' = [sid EXCEPT ![r] = r]
    /\ Flush(r, {SessionOf(r)}, "route")
    /\ UNCHANGED <<sent, draft, sessions, stored, faults, restarts, ghostVars>>

\* An update of the request's session row, and the flush that follows it.
RowOf(r) == sessions[sid[r]]
Update(r, row, label) ==
    /\ txn # "broken"
    /\ txn' = "open"
    /\ sessions' = [s \in DOMAIN sessions |-> IF s = sid[r] THEN row ELSE sessions[s]]
    /\ Flush(r, {}, label)
    /\ UNCHANGED <<sent, sid, draft, stored, faults, restarts>>

OneMore(s) == [s EXCEPT !.count = @ + 1]
OptedOut(s) == [s EXCEPT !.optedOut = TRUE, !.active = FALSE]
OptedIn(s) == [s EXCEPT !.optedOut = FALSE, !.active = TRUE]

Touch(r) ==
    /\ pc[r] = "touch"
    /\ Update(r, OneMore(RowOf(r)), "route")
    /\ UNCHANGED ghostVars

-----------------------------------------------------------------------------
\* Step 3, end, and step 4: the session object tells whether its row was opted
\* out in the meantime; then the intent, or the keyword, decides.
Route(r) ==
    /\ pc[r] = "route"
    /\ IF r \in OnWhatsApp /\ sid[r] \in DOMAIN sessions /\ sessions[sid[r]].optedOut
       THEN Answer(r, "alreadyOut", sid[r]) /\ UNCHANGED draft
       ELSE /\ UNCHANGED <<said, known>>
            /\ CASE KindOf[r] = "question" -> Goto(r, "generate") /\ UNCHANGED draft
                 [] KindOf[r] = "keyword" -> Goto(r, "store") /\ draft' = [draft EXCEPT ![r] = "keyword"]
                 [] OTHER ->
                     /\ Goto(r, IF r \notin OnWhatsApp \/ KindOf[r] = "canned" THEN "retouch"
                                ELSE IF KindOf[r] = "stop" THEN "optOut" ELSE "optIn")
                     /\ draft' = [draft EXCEPT ![r] = IF KindOf[r] = "stop" THEN "unsubscribed"
                                                      ELSE "canned"]
    /\ UNCHANGED <<onward, sent, sid, dbVars, faults, restarts, ghostVars>>

OptOut(r) ==
    /\ pc[r] = "optOut"
    /\ Update(r, OptedOut(RowOf(r)), "retouch")
    /\ declined' = declined \cup (DOMAIN sessions \cap {sid[r]})
    /\ UNCHANGED lost

OptIn(r) ==
    /\ pc[r] = "optIn"
    /\ Update(r, OptedIn(RowOf(r)), "retouch")
    /\ UNCHANGED ghostVars

\* Steps 5 to 8, up to minutes long: the cache or the model answers; without a
\* source, or without a model, a fallback text does.
Generate(r) ==
    /\ pc[r] = "generate"
    /\ \/ /\ \E text \in {"answer", "fallback"} : draft' = [draft EXCEPT ![r] = text]
          /\ Goto(r, "retouch")
          /\ UNCHANGED <<said, known, faults>>
       \/ /\ faults < MaxFaults
          /\ faults' = faults + 1
          /\ Fail(r)
          /\ UNCHANGED draft
    /\ UNCHANGED <<onward, sent, sid, dbVars, restarts, ghostVars>>

\* Step 9: touch_session (the second time, if the session is not new), then
\* create_conversation.
Retouch(r) ==
    /\ pc[r] = "retouch"
    /\ Update(r, OneMore(RowOf(r)), "store")
    /\ UNCHANGED ghostVars

Store(r) ==
    /\ pc[r] = "store"
    /\ txn # "broken"
    /\ txn' = "open"
    /\ Flush(r, {ConversationOf(r)}, "reply")
    /\ UNCHANGED <<sent, sid, draft, sessions, stored, faults, restarts, ghostVars>>

Respond(r) ==
    /\ pc[r] = "reply"
    /\ Answer(r, draft[r], sid[r])
    /\ UNCHANGED <<onward, sent, sid, draft, dbVars, faults, restarts, ghostVars>>

-----------------------------------------------------------------------------
\* Faulty variant of LoseRows: the session goes on believing in its flush.
LoseRowsOnly ==
    /\ sessions' = [s \in {} |-> NewRow]
    /\ stored' = {}
    /\ pending' = {}
    /\ lost' = lost \cup Written
    /\ UNCHANGED <<flusher, carried>>

\* The transaction is gone, and with it every row.  (What is still pending stays
\* so, but is never written: it is left out from here on.)
LoseRows ==
    /\ sessions' = [s \in {} |-> NewRow]
    /\ stored' = {}
    /\ pending' = {}
    /\ flusher' = Nobody
    /\ carried' = {}
    /\ lost' = lost \cup Written

\* Faulty variant of StatementFails: nobody wakes a flush whose connection died.
FlushNeverFails(r) ==
    /\ pc[r] \in AtStatement
    /\ Fail(r)
    /\ \/ txn = "broken" /\ UNCHANGED <<dbVars, faults, lost>>
       \/ /\ txn # "broken" /\ faults < MaxFaults
          /\ txn' = "broken"
          /\ faults' = faults + 1
          /\ LoseRows
    /\ UNCHANGED <<onward, sent, sid, draft, restarts, declined>>

\* Faulty variant of StatementFails: the flush that failed is not ended.
FlushNotEnded(r) ==
    /\ pc[r] \in AtStatement \cup {"flushing"}
    /\ Fail(r)
    /\ \/ txn = "broken" /\ UNCHANGED <<dbVars, faults, lost>>
       \/ /\ txn # "broken" /\ faults < MaxFaults
          /\ txn' = "broken"
          /\ faults' = faults + 1
          /\ LoseRowsOnly
    /\ UNCHANGED <<onward, sent, sid, draft, restarts, declined>>

\* A statement fails in the database (a timeout, a lost connection); from then on
\* all of them do.
StatementFails(r) ==
    /\ pc[r] \in AtStatement \cup {"flushing"}
    /\ Fail(r)
    /\ \/ txn = "broken" /\ UNCHANGED <<dbVars, faults, lost>>
       \/ /\ txn # "broken" /\ faults < MaxFaults
          /\ txn' = "broken"
          /\ faults' = faults + 1
          /\ LoseRows
    /\ UNCHANGED <<onward, sent, sid, draft, restarts, declined>>

\* idle_in_transaction_session_timeout: nobody has issued a statement for a while.
IdleTimeout ==
    /\ IdleKills
    /\ txn = "open"
    /\ \A r \in Request : pc[r] \notin AtStatement \cup {"flushing"}
    /\ txn' = "broken"
    /\ LoseRows
    /\ UNCHANGED <<requestVars, faults, restarts, declined>>

Restart ==
    /\ restarts < MaxRestarts
    /\ restarts' = restarts + 1
    /\ pc' = [r \in Request |-> IF pc[r] \in {"idle", "done"} THEN pc[r] ELSE "gone"]
    /\ txn' = "none"
    /\ LoseRows
    /\ UNCHANGED <<onward, sent, sid, draft, said, known, faults, declined>>

Step(r) ==
    \/ Receive(r) \/ Lookup(r) \/ Create(r) \/ Touch(r) \/ FlushDone(r) \/ Route(r)
    \/ OptOut(r) \/ OptIn(r) \/ Generate(r) \/ Retouch(r) \/ Store(r) \/ Respond(r)
    \/ StatementFails(r)

Next == (\E r \in Request : Step(r)) \/ IdleTimeout \/ Restart

Spec == Init /\ [][Next]_vars

\* The event loop resumes every request whose await is over.
FairSpec == Spec /\ \A r \in Request : WF_vars(Step(r))

-----------------------------------------------------------------------------
(* Type invariant.  A flush on its way has a request that waits for it. *)
TypeOK ==
    /\ pc \in [Request -> Label] /\ onward \in [Request -> Label]
    /\ sent \in [Request -> Request \cup {NoSession, Stranger}]
    /\ sid \in [Request -> Request \cup {NoSession}]
    /\ draft \in [Request -> Reply] /\ said \in [Request -> Reply]
    /\ known \in [Client -> Request \cup {NoSession, Stranger}]
    /\ txn \in {"none", "open", "broken"}
    /\ DOMAIN sessions \subseteq Request
    /\ \A s \in DOMAIN sessions : sessions[s] \in SessionRow
    /\ stored \subseteq Request
    /\ pending \subseteq Row /\ carried \subseteq pending
    /\ flusher \in Request \cup {Nobody}
    /\ flusher # Nobody => pc[flusher] = "flushing"
    /\ faults \in 0..MaxFaults /\ restarts \in 0..MaxRestarts
    /\ lost \subseteq Row /\ declined \subseteq Request

(* Whoever is given an answer has a conversation row, until the transaction  *)
(* is lost: no interleaving of flushes drops a row that was reported as      *)
(* stored (conversation_repository.py:119-131).                              *)
AnsweredIsStored ==
    \A r \in Request :
        said[r] \in Recorded => ConversationOf(r) \in Written \cup lost

(* A row that was added and is not on its way to the database belongs to a   *)
(* request that was told of an error: it is never silently left behind.      *)
UnwrittenIsFailed ==
    \A row \in pending \ carried : said[row[2]] = "technicalError"

(* A client stays in its session: the reply comes from the session whose id  *)
(* the request carried, unless that session was opted out or lost, and       *)
(* always from one that was created for the same client                      *)
(* (session_repository.py:132-144).                                          *)
Continuity ==
    \A r \in Resuming :
        said[r] \in Recorded =>
            /\ By[sid[r]] = By[r]
            /\ sent[r] \in Request \ {sid[r]} =>
                   SessionOf(sent[r]) \in lost \/ sent[r] \in declined

(* Every message is answered, whatever happens to the shared transaction and *)
(* whoever is flushing, unless the process is restarted.                     *)
EveryRequestEnds ==
    \A r \in Request : pc[r] # "idle" ~> pc[r] \in {"done", "gone"}

-----------------------------------------------------------------------------
(* What the code says of itself, and does not keep. *)

(* "STEP 9: Cache and Persist" (chat_service.py:964), through a session that *)
(* is to "stay open across requests" (database.py:192): an exchange that was *)
(* stored is stored for good.                                                *)
StoredSurvives == \A r \in Request : said[r] \in Recorded => r \in stored
=============================================================================
