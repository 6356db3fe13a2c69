-------------------------- MODULE ChatSessionProofs --------------------------
(***************************************************************************)
(* Proofs about ChatSession, for every set of requests and clients, with   *)
(* any number of faults and restarts: type correctness; that an answer has *)
(* a conversation row until the shared transaction is lost; that a row     *)
(* left behind in the session belongs to a request that was told of an     *)
(* error; and that a client stays in its session.                          *)
(***************************************************************************)
EXTENDS ChatSession, TLAPS

\* A transaction that is not usable has no flush on its way.
FlusherInv == txn = "broken" => flusher = Nobody

Typed == TypeOK /\ FlusherInv

\* What Flush, Update and Fail do to the parts of the type invariant.
LEMMA AnswerType ==
    ASSUME Typed, NEW r \in Request, NEW text \in Reply,
           NEW id \in Request \cup {NoSession, Stranger}, Answer(r, text, id)
    PROVE  /\ pc' \in [Request -> Label] /\ pc'[r] = "done"
           /\ \A q \in Request \ {r} : pc'[q] = pc[q]
           /\ said' \in [Request -> Reply]
           /\ known' \in [Client -> Request \cup {NoSession, Stranger}]
  BY DEF Answer, Goto, Typed, TypeOK, Label

LEMMA FailType ==
    ASSUME Typed, NEW r \in Request, Fail(r)
    PROVE  /\ pc' \in [Request -> Label] /\ pc'[r] = "done"
           /\ \A q \in Request \ {r} : pc'[q] = pc[q]
           /\ said' \in [Request -> Reply]
           /\ known' \in [Client -> Request \cup {NoSession, Stranger}]
  <1>1. GivenId(r) \in Request \cup {NoSession, Stranger}
    BY DEF GivenId, Typed, TypeOK
  <1>2. "technicalError" \in Reply
    BY DEF Reply
  <1>3. QED
    BY <1>1, <1>2, AnswerType DEF Fail

LEMMA FlushType ==
    ASSUME Typed, NEW r \in Request, pc[r] # "flushing",
           NEW new \in SUBSET Row, NEW label \in Label \ {"flushing"}, Flush(r, new, label)
    PROVE  /\ pc' \in [Request -> Label] /\ onward' \in [Request -> Label]
           /\ \A q \in Request \ {r} : pc'[q] = pc[q]
           /\ said' \in [Request -> Reply]
           /\ known' \in [Client -> Request \cup {NoSession, Stranger}]
           /\ pending' \subseteq Row /\ carried' \subseteq pending'
           /\ flusher' \in Request \cup {Nobody}
           /\ flusher' # Nobody => pc'[flusher'] = "flushing"
  <1>1. CASE flusher # Nobody /\ pending' = pending \cup new /\ Fail(r)
             /\ UNCHANGED <<onward, flusher, carried>>
    BY <1>1, FailType DEF Typed, TypeOK
  <1>2. CASE flusher = Nobody /\ Goto(r, label)
             /\ UNCHANGED <<onward, said, known, pending, flusher, carried>>
    BY <1>2 DEF Goto, Typed, TypeOK
  <1>3. CASE /\ pending' = pending \cup new /\ flusher' = r /\ carried' = pending'
             /\ Goto(r, "flushing") /\ onward' = [onward EXCEPT ![r] = label]
             /\ UNCHANGED <<said, known>>
    BY <1>3 DEF Goto, Typed, TypeOK, Label
  <1>4. QED
    BY <1>1, <1>2, <1>3 DEF Flush

LEMMA RowType ==
    ASSUME NEW r \in Request
    PROVE  {} \in SUBSET Row /\ {SessionOf(r)} \in SUBSET Row /\ {ConversationOf(r)} \in SUBSET Row
  BY DEF Row, SessionOf, ConversationOf

-----------------------------------------------------------------------------
LEMMA LoseRowsType ==
    ASSUME Typed, LoseRows
    PROVE  /\ DOMAIN sessions' = {} /\ stored' = {} /\ pending' = {} /\ carried' = {}
           /\ flusher' = Nobody /\ lost' \subseteq Row
  <1>1. Written \subseteq Row
    BY DEF Written, Row, SessionOf, ConversationOf, Typed, TypeOK
  <1>2. QED
    BY <1>1 DEF LoseRows, Typed, TypeOK

\* The four updates of a session row differ in the row they leave only.
LEMMA UpdateType ==
    ASSUME Typed, NEW r \in Request, pc[r] # "flushing",
           NEW label \in Label \ {"flushing"}, Flush(r, {}, label), txn' = "open",
           DOMAIN sessions' = DOMAIN sessions,
           \A s \in DOMAIN sessions' : sessions'[s] \in SessionRow,
           declined' \subseteq Request,
           UNCHANGED <<sent, sid, draft, stored, faults, restarts, lost>>
    PROVE  Typed'
  BY FlushType, RowType DEF Typed, TypeOK, FlusherInv

LEMMA TypeStep == Typed /\ [Next]_vars => Typed'
  <1> SUFFICES ASSUME Typed, [Next]_vars PROVE Typed'
    OBVIOUS
  <1>1. ASSUME NEW r \in Request, Receive(r) PROVE Typed'
    <2>1. sent' \in [Request -> Request \cup {NoSession, Stranger}]
      BY <1>1, RequestAssumption DEF Receive, Typed, TypeOK
    <2>2. /\ pc' \in [Request -> Label] /\ said' \in [Request -> Reply]
          /\ known' \in [Client -> Request \cup {NoSession, Stranger}]
          /\ pc'[r] # "flushing" /\ \A q \in Request \ {r} : pc'[q] = pc[q]
      <3>1. sent'[r] \in Request \cup {NoSession, Stranger}
        BY <2>1
      <3>2. CASE /\ Goto(r, IF sent'[r] = NoSession THEN "create" ELSE "lookup")
                 /\ UNCHANGED <<said, known>>
        BY <1>1, <3>2 DEF Goto, Label, Typed, TypeOK
      <3>3. CASE Answer(r, "tooFast", sent'[r])
        BY <3>1, <3>3, AnswerType DEF Reply
      <3>4. CASE Answer(r, "blocked", IF sent'[r] = NoSession THEN Stranger ELSE sent'[r])
        BY <3>1, <3>4, AnswerType DEF Reply
      <3>5. QED
        BY <1>1, <3>2, <3>3, <3>4 DEF Receive
    <2>3. QED
      BY <1>1, <2>1, <2>2 DEF Receive, Typed, TypeOK, FlusherInv, dbVars, ghostVars
  <1>2. ASSUME NEW r \in Request, Lookup(r) PROVE Typed'
    <2>1. /\ pc' \in [Request -> Label]
          /\ pc'[r] # "flushing" /\ \A q \in Request \ {r} : pc'[q] = pc[q]
      BY <1>2 DEF Lookup, Goto, Label, Typed, TypeOK
    <2>2. sid' \in [Request -> Request \cup {NoSession}]
      BY <1>2 DEF Lookup, Usable, Typed, TypeOK
    <2>3. QED
      BY <1>2, <2>1, <2>2 DEF Lookup, Typed, TypeOK, FlusherInv, ghostVars
  <1>3. ASSUME NEW r \in Request, FlushDone(r) PROVE Typed'
    <2>1. pc' \in [Request -> Label]
      BY <1>3 DEF FlushDone, Goto, Typed, TypeOK
    <2>2. /\ DOMAIN sessions' \subseteq Request
          /\ \A s \in DOMAIN sessions' : sessions'[s] \in SessionRow
      BY <1>3 DEF FlushDone, Typed, TypeOK, NewRow, SessionRow
    <2>3. QED
      BY <1>3, <2>1, <2>2 DEF FlushDone, Typed, TypeOK, FlusherInv, ghostVars
  <1>4. ASSUME NEW r \in Request, Create(r) PROVE Typed'
    <2>1. pc[r] # "flushing" /\ "route" \in Label \ {"flushing"} /\ txn' = "open"
      BY <1>4 DEF Create, Label
    <2>2. sid' \in [Request -> Request \cup {NoSession}]
      BY <1>4 DEF Create, Typed, TypeOK
    <2>3. QED
      BY <1>4, <2>1, <2>2, FlushType, RowType DEF Create, Typed, TypeOK, FlusherInv, ghostVars
  <1>5. ASSUME NEW r \in Request, Touch(r) PROVE Typed'
    <2>1. /\ DOMAIN sessions' = DOMAIN sessions
          /\ \A s \in DOMAIN sessions' : sessions'[s] \in SessionRow
      BY <1>5 DEF Touch, Update, RowOf, OneMore, SessionRow, Typed, TypeOK
    <2>2. declined' \subseteq Request /\ UNCHANGED lost
      BY <1>5 DEF Touch, ghostVars, Typed, TypeOK
    <2>3. QED
      BY <1>5, <2>1, <2>2, UpdateType DEF Touch, Update, Label
  <1>6. ASSUME NEW r \in Request, Route(r) PROVE Typed'
    <2>1. CASE Answer(r, "alreadyOut", sid[r]) /\ UNCHANGED draft
      <3>1. "alreadyOut" \in Reply /\ sid[r] \in Request \cup {NoSession, Stranger}
        BY DEF Reply, Typed, TypeOK
      <3>2. QED
        BY <1>6, <2>1, <3>1, AnswerType DEF Route, Typed, TypeOK, FlusherInv, dbVars, ghostVars
    <2>2. CASE UNCHANGED <<said, known>>
      <3>1. /\ pc' \in [Request -> Label] /\ pc[r] # "flushing"
            /\ \A q \in Request \ {r} : pc'[q] = pc[q]
        BY <1>6, <2>2 DEF Route, Goto, Label, Typed, TypeOK, Answer
      <3>2. draft' \in [Request -> Reply]
        BY <1>6, <2>2 DEF Route, Goto, Reply, Typed, TypeOK, Answer
      <3>3. QED
        BY <1>6, <2>2, <3>1, <3>2 DEF Route, Typed, TypeOK, FlusherInv, dbVars, ghostVars
    <2>3. QED
      BY <1>6, <2>1, <2>2 DEF Route
  <1>7. ASSUME NEW r \in Request, OptOut(r) PROVE Typed'
    <2>1. /\ DOMAIN sessions' = DOMAIN sessions
          /\ \A s \in DOMAIN sessions' : sessions'[s] \in SessionRow
      BY <1>7 DEF OptOut, Update, RowOf, OptedOut, SessionRow, Typed, TypeOK
    <2>2. declined' \subseteq Request
      BY <1>7 DEF OptOut, Typed, TypeOK
    <2>3. QED
      BY <1>7, <2>1, <2>2, UpdateType DEF OptOut, Update, Label
  <1>8. ASSUME NEW r \in Request, OptIn(r) PROVE Typed'
    <2>1. /\ DOMAIN sessions' = DOMAIN sessions
          /\ \A s \in DOMAIN sessions' : sessions'[s] \in SessionRow
      BY <1>8 DEF OptIn, Update, RowOf, OptedIn, SessionRow, Typed, TypeOK
    <2>2. declined' \subseteq Request /\ UNCHANGED lost
      BY <1>8 DEF OptIn, ghostVars, Typed, TypeOK
    <2>3. QED
      BY <1>8, <2>1, <2>2, UpdateType DEF OptIn, Update, Label
  <1>9. ASSUME NEW r \in Request, Generate(r) PROVE Typed'
    <2>1. CASE /\ \E text \in {"answer", "fallback"} : draft' = [draft EXCEPT ![r] = text]
               /\ Goto(r, "retouch")
               /\ UNCHANGED <<said, known, faults>>
      <3>1. draft' \in [Request -> Reply]
        BY <2>1 DEF Reply, Typed, TypeOK
      <3>2. /\ pc' \in [Request -> Label] /\ pc'[r] # "flushing" /\ pc[r] # "flushing"
            /\ \A q \in Request \ {r} : pc'[q] = pc[q]
        BY <1>9, <2>1 DEF Generate, Goto, Label, Typed, TypeOK
      <3>3. QED
        BY <1>9, <2>1, <3>1, <3>2 DEF Generate, Typed, TypeOK, FlusherInv, dbVars, ghostVars
    <2>2. CASE faults < MaxFaults /\ faults' = faults + 1 /\ Fail(r) /\ UNCHANGED draft
      <3>1. faults' \in 0..MaxFaults
        BY <2>2, BoundAssumption DEF Typed, TypeOK
      <3>2. QED
        BY <1>9, <2>2, <3>1, FailType DEF Generate, Typed, TypeOK, FlusherInv, dbVars, ghostVars
    <2>3. QED
      BY <1>9, <2>1, <2>2 DEF Generate
  <1>10. ASSUME NEW r \in Request, Retouch(r) PROVE Typed'
    <2>1. /\ DOMAIN sessions' = DOMAIN sessions
          /\ \A s \in DOMAIN sessions' : sessions'[s] \in SessionRow
      BY <1>10 DEF Retouch, Update, RowOf, OneMore, SessionRow, Typed, TypeOK
    <2>2. declined' \subseteq Request /\ UNCHANGED lost
      BY <1>10 DEF Retouch, ghostVars, Typed, TypeOK
    <2>3. QED
      BY <1>10, <2>1, <2>2, UpdateType DEF Retouch, Update, Label
  <1>11. ASSUME NEW r \in Request, Store(r) PROVE Typed'
    <2>1. pc[r] # "flushing" /\ "reply" \in Label \ {"flushing"} /\ txn' = "open"
      BY <1>11 DEF Store, Label
    <2>2. QED
      BY <1>11, <2>1, FlushType, RowType DEF Store, Typed, TypeOK, FlusherInv, ghostVars
  <1>12. ASSUME NEW r \in Request, Respond(r) PROVE Typed'
    <2>1. draft[r] \in Reply /\ sid[r] \in Request \cup {NoSession, Stranger}
      BY DEF Typed, TypeOK
    <2>2. QED
      BY <1>12, <2>1, AnswerType DEF Respond, Typed, TypeOK, FlusherInv, dbVars, ghostVars
  <1>13. ASSUME NEW r \in Request, StatementFails(r) PROVE Typed'
    <2>1. CASE txn = "broken" /\ UNCHANGED <<dbVars, faults, lost>>
      BY <1>13, <2>1, FailType DEF StatementFails, Typed, TypeOK, FlusherInv, dbVars
    <2>2. CASE faults < MaxFaults /\ txn' = "broken" /\ faults' = faults + 1 /\ LoseRows
      <3>1. faults' \in 0..MaxFaults
        BY <2>2, BoundAssumption DEF Typed, TypeOK
      <3>2. QED
        BY <1>13, <2>2, <3>1, FailType, LoseRowsType
           DEF StatementFails, Typed, TypeOK, FlusherInv
    <2>3. QED
      BY <1>13, <2>1, <2>2 DEF StatementFails
  <1>14. CASE IdleTimeout
    BY <1>14, LoseRowsType DEF IdleTimeout, Typed, TypeOK, FlusherInv, requestVars
  <1>15. CASE Restart
    <2>1. pc' \in [Request -> Label]
      BY <1>15 DEF Restart, Label, Typed, TypeOK
    <2>2. restarts' \in 0..MaxRestarts
      BY <1>15, BoundAssumption DEF Restart, Typed, TypeOK
    <2>3. QED
      BY <1>15, <2>1, <2>2, LoseRowsType DEF Restart, Typed, TypeOK, FlusherInv
  <1>16. CASE UNCHANGED vars
    BY <1>16 DEF vars, Typed, TypeOK, FlusherInv
  <1>17. QED
    BY <1>1, <1>2, <1>3, <1>4, <1>5, <1>6, <1>7, <1>8, <1>9, <1>10, <1>11, <1>12, <1>13,
       <1>14, <1>15, <1>16 DEF Next, Step

\* In every reachable state the variables have their types, and whoever is
\* flushing is waiting for it.
THEOREM TypeCorrect == Spec => []TypeOK
  <1>1. Init => Typed
    BY RequestAssumption, BoundAssumption DEF Init, Typed, TypeOK, FlusherInv, Label, Reply
  <1>2. Typed => TypeOK
    BY DEF Typed
  <1>3. QED
    BY <1>1, <1>2, TypeStep, PTL DEF Spec

-----------------------------------------------------------------------------
\* A row that was written stays written, or is lost; and a step of one request
\* leaves the others, and a flush that another one has on its way, alone.
Kept == Written \cup lost

LEMMA LoseRowsKeeps == ASSUME LoseRows PROVE Kept \subseteq Kept'
  BY DEF LoseRows, Kept

LEMMA KeptGrows == ASSUME Typed, [Next]_vars
                   PROVE  Kept \subseteq Kept' /\ lost \subseteq lost' /\ declined \subseteq declined'
  <1> DEFINE Grows == /\ DOMAIN sessions \subseteq DOMAIN sessions' /\ stored \subseteq stored'
                      /\ lost \subseteq lost' /\ declined \subseteq declined'
  <1>1. Grows => Kept \subseteq Kept'
    BY DEF Kept, Written
  <1>2. CASE \E r \in Request : Step(r)
    <2>1. PICK r \in Request : Step(r)
      BY <1>2
    <2>2. CASE StatementFails(r)
      <3>1. CASE UNCHANGED <<dbVars, faults, lost>>
        BY <1>1, <2>2, <3>1 DEF StatementFails, dbVars
      <3>2. CASE LoseRows
        BY <2>2, <3>2, LoseRowsKeeps DEF StatementFails, LoseRows
      <3>3. QED
        BY <2>2, <3>1, <3>2 DEF StatementFails
    <2>3. CASE ~StatementFails(r)
      <3>1. Grows
        BY <2>1, <2>3 DEF Step, Receive, Lookup, Create, Touch, FlushDone, Route, OptOut, OptIn,
                          Generate, Retouch, Store, Respond, Update, dbVars, ghostVars
      <3>2. QED
        BY <1>1, <3>1
    <2>4. QED
      BY <2>2, <2>3
  <1>3. CASE IdleTimeout \/ Restart
    BY <1>3, LoseRowsKeeps DEF IdleTimeout, Restart, LoseRows
  <1>4. CASE UNCHANGED vars
    BY <1>1, <1>4 DEF vars
  <1>5. QED
    BY <1>2, <1>3, <1>4 DEF Next

Aside(q) ==
    /\ pc'[q] = pc[q] /\ onward'[q] = onward[q] /\ sent'[q] = sent[q]
    /\ sid'[q] = sid[q] /\ said'[q] = said[q]
    /\ flusher' = q => flusher = q /\ carried' = carried

LEMMA AnswerAside ==
    ASSUME Typed, NEW r \in Request, NEW text, NEW id, Answer(r, text, id)
    PROVE  \A q \in Request \ {r} : pc'[q] = pc[q] /\ said'[q] = said[q]
  BY DEF Answer, Goto, Typed, TypeOK

LEMMA FlushAside ==
    ASSUME Typed, NEW r \in Request, NEW new, NEW label, Flush(r, new, label)
    PROVE  \A q \in Request \ {r} :
              /\ pc'[q] = pc[q] /\ onward'[q] = onward[q] /\ said'[q] = said[q]
              /\ flusher' = q => flusher = q /\ carried' = carried
  BY RequestAssumption DEF Flush, Fail, Answer, Goto, Typed, TypeOK

LEMMA OthersAside ==
    ASSUME Typed, NEW r \in Request, Step(r), NEW q \in Request \ {r}
    PROVE  Aside(q)
  <1> USE RequestAssumption DEF Aside
  <1>1. CASE Receive(r)
    BY <1>1, AnswerAside DEF Receive, Goto, Typed, TypeOK, dbVars
  <1>2. CASE Lookup(r)
    BY <1>2 DEF Lookup, Goto, Typed, TypeOK
  <1>3. CASE FlushDone(r)
    BY <1>3 DEF FlushDone, Goto, Typed, TypeOK
  <1>4. CASE Create(r)
    BY <1>4, FlushAside DEF Create, Typed, TypeOK
  <1>5. CASE Touch(r)
    BY <1>5, FlushAside DEF Touch, Update
  <1>6. CASE Route(r)
    BY <1>6, AnswerAside DEF Route, Goto, Typed, TypeOK, dbVars
  <1>7. CASE OptOut(r)
    BY <1>7, FlushAside DEF OptOut, Update
  <1>8. CASE OptIn(r)
    BY <1>8, FlushAside DEF OptIn, Update
  <1>9. CASE Generate(r)
    BY <1>9, AnswerAside DEF Generate, Fail, Goto, Typed, TypeOK, dbVars
  <1>10. CASE Retouch(r)
    BY <1>10, FlushAside DEF Retouch, Update
  <1>11. CASE Store(r)
    BY <1>11, FlushAside DEF Store
  <1>12. CASE Respond(r)
    BY <1>12, AnswerAside DEF Respond, dbVars
  <1>13. CASE StatementFails(r)
    BY <1>13, AnswerAside DEF StatementFails, Fail, LoseRows, dbVars
  <1>14. QED
    BY <1>1, <1>2, <1>3, <1>4, <1>5, <1>6, <1>7, <1>8, <1>9, <1>10, <1>11, <1>12, <1>13 DEF Step

-----------------------------------------------------------------------------
(* Rows.  A request that waits to return a recorded reply has its row, and   *)
(* one whose last flush is on its way has it in that flush; a request that   *)
(* has not returned has said nothing, so what it leaves behind when it fails *)
(* is accounted for.                                                         *)
Recordable(r) ==
    /\ said[r] # "none" => pc[r] = "done"
    /\ said[r] \in Recorded \/ pc[r] = "reply" => ConversationOf(r) \in Kept
    /\ flusher = r /\ onward[r] = "reply" => ConversationOf(r) \in carried

RowInv == (\A r \in Request : Recordable(r)) /\ UnwrittenIsFailed

LEMMA AsideRecordable ==
    ASSUME NEW q \in Request, Aside(q), Recordable(q), Kept \subseteq Kept'
    PROVE  Recordable(q)'
  BY DEF Aside, Recordable, ConversationOf

\* The end of a request that did not leave a row.
LEMMA AnswerRecordable ==
    ASSUME Typed, NEW r \in Request, pc[r] # "done", NEW text \in Reply \ Recorded, NEW id,
           Answer(r, text, id), flusher' # r
    PROVE  Recordable(r)'
  BY DEF Answer, Goto, Recordable, Typed, TypeOK

LEMMA FlushRecordable ==
    ASSUME Typed, RowInv, NEW r \in Request, pc[r] \in AtStatement,
           NEW new \in SUBSET {SessionOf(r), ConversationOf(r)}, NEW label \in Label \ {"flushing"},
           Flush(r, new, label), label = "reply" => ConversationOf(r) \in new
    PROVE  Recordable(r)' /\ UnwrittenIsFailed'
  <1>1. pc[r] \notin {"done", "flushing"} /\ said[r] = "none" /\ flusher # r
    BY RequestAssumption DEF RowInv, Recordable, AtStatement, Typed, TypeOK
  <1>2. \A row \in pending \ carried : row[2] # r
    BY <1>1 DEF RowInv, UnwrittenIsFailed
  <1>3. \A row \in new : row[2] = r
    BY DEF SessionOf, ConversationOf
  <1>4. CASE pending' = pending \cup new /\ Fail(r) /\ UNCHANGED <<onward, flusher, carried>>
    <2>1. Recordable(r)'
      <3>1. "technicalError" \in Reply \ Recorded
        BY DEF Reply, Recorded
      <3>2. QED
        BY <1>1, <1>4, <3>1, AnswerRecordable DEF Fail
    <2>2. said' = [said EXCEPT ![r] = "technicalError"]
      BY <1>4 DEF Fail, Answer
    <2>3. UnwrittenIsFailed'
      BY <1>2, <1>3, <1>4, <2>2 DEF RowInv, UnwrittenIsFailed, Typed, TypeOK, Row
    <2>4. QED
      BY <2>1, <2>3
  <1>5. CASE pending \cup new = {} /\ Goto(r, label)
             /\ UNCHANGED <<onward, said, known, pending, flusher, carried>>
    <2>1. label # "reply"
      BY <1>5
    <2>2. Recordable(r)'
      BY <1>1, <1>5, <2>1 DEF Recordable, Goto, Recorded, Typed, TypeOK
    <2>3. QED
      BY <1>5, <2>2 DEF RowInv, UnwrittenIsFailed
  <1>6. CASE /\ pending' = pending \cup new /\ flusher' = r /\ carried' = pending'
             /\ Goto(r, "flushing") /\ onward' = [onward EXCEPT ![r] = label]
             /\ UNCHANGED <<said, known>>
    <2>1. pc'[r] = "flushing" /\ onward'[r] = label /\ said'[r] = "none"
      BY <1>1, <1>6 DEF Goto, Typed, TypeOK
    <2>2. Recordable(r)'
      BY <1>6, <2>1 DEF Recordable, Recorded, ConversationOf
    <2>3. QED
      BY <1>6, <2>2 DEF UnwrittenIsFailed
  <1>7. QED
    BY <1>4, <1>5, <1>6 DEF Flush

\* Whoever acts has said nothing yet: what the others were told stands.
LEMMA UnwrittenStands ==
    ASSUME Typed, RowInv, NEW r \in Request, pc[r] # "done", Step(r),
           pending' \ carried' \subseteq pending \ carried
    PROVE  UnwrittenIsFailed'
  <1>1. ASSUME NEW row \in pending' \ carried' PROVE said'[row[2]] = "technicalError"
    <2>1. row[2] \in Request /\ said[row[2]] = "technicalError"
      BY <1>1 DEF RowInv, UnwrittenIsFailed, Typed, TypeOK, Row
    <2>2. row[2] # r
      BY <2>1 DEF RowInv, Recordable
    <2>3. QED
      BY <2>1, <2>2, OthersAside DEF Aside
  <1>2. QED
    BY <1>1 DEF UnwrittenIsFailed

LEMMA RowStep == Typed /\ RowInv /\ [Next]_vars => RowInv'
  <1> SUFFICES ASSUME Typed, RowInv, [Next]_vars PROVE RowInv'
    OBVIOUS
  <1>1. Kept \subseteq Kept'
    BY KeptGrows
  <1>2. ASSUME NEW r \in Request, Step(r), Recordable(r)', UnwrittenIsFailed' PROVE RowInv'
    BY <1>1, <1>2, OthersAside, AsideRecordable DEF RowInv
  <1>3. ASSUME NEW r \in Request, pc[r] \notin {"done", "flushing"}, Step(r),
               UNCHANGED dbVars, Recordable(r)'
        PROVE  RowInv'
    BY <1>2, <1>3, UnwrittenStands DEF dbVars
  <1>4. ASSUME NEW r \in Request, pc[r] # "flushing" PROVE flusher # r
    BY <1>4, RequestAssumption DEF Typed, TypeOK
  <1>5. ASSUME NEW r \in Request, pc[r] # "done" PROVE said[r] = "none"
    BY <1>5 DEF RowInv, Recordable
  <1>6. ASSUME NEW r \in Request, Receive(r) PROVE RowInv'
    <2>1. pc[r] = "idle" /\ said[r] = "none" /\ UNCHANGED dbVars /\ flusher' # r
      BY <1>4, <1>5, <1>6 DEF Receive, dbVars
    <2>2. Recordable(r)'
      <3>1. CASE Goto(r, IF sent'[r] = NoSession THEN "create" ELSE "lookup") /\ UNCHANGED said
        BY <2>1, <3>1 DEF Recordable, Goto, Recorded, Typed, TypeOK
      <3>2. CASE \E text \in {"tooFast", "blocked"}, id \in {sent'[r], Stranger} : Answer(r, text, id)
        BY <2>1, <3>2, AnswerRecordable DEF Reply, Recorded
      <3>3. QED
        BY <1>6, <3>1, <3>2 DEF Receive
    <2>3. QED
      BY <1>3, <1>6, <2>1, <2>2 DEF Step
  <1>7. ASSUME NEW r \in Request, Lookup(r) PROVE RowInv'
    <2>1. said'[r] = "none" /\ pc'[r] \in {"touch", "create"} /\ flusher' # r
      BY <1>4, <1>5, <1>7 DEF Lookup, Goto, Typed, TypeOK
    <2>2. Recordable(r)'
      BY <2>1 DEF Recordable, Recorded
    <2>3. pending' \ carried' \subseteq pending \ carried
      BY <1>7 DEF Lookup
    <2>4. QED
      BY <1>2, <1>7, <2>2, <2>3, UnwrittenStands DEF Lookup, Step
  <1>8. ASSUME NEW r \in Request, FlushDone(r) PROVE RowInv'
    <2>1. pc[r] = "flushing" /\ said'[r] = "none" /\ pc'[r] = onward[r] /\ flusher' # r
      BY <1>5, <1>8, RequestAssumption DEF FlushDone, Goto, Typed, TypeOK
    <2>2. onward[r] = "reply" => r \in stored'
      BY <1>8 DEF FlushDone, RowInv, Recordable
    <2>3. Recordable(r)'
      BY <2>1, <2>2 DEF Recordable, Recorded, Kept, Written, ConversationOf
    <2>4. pending' \ carried' \subseteq pending \ carried
      BY <1>8 DEF FlushDone
    <2>5. QED
      BY <1>2, <1>8, <2>1, <2>3, <2>4, UnwrittenStands DEF Step
  <1>9. ASSUME NEW r \in Request, Create(r) PROVE RowInv'
    BY <1>2, <1>9, FlushRecordable DEF Create, Step, AtStatement, Label
  <1>10. ASSUME NEW r \in Request, NEW label \in {"route", "retouch", "store"}, Step(r),
                pc[r] \in AtStatement, Flush(r, {}, label)
         PROVE  RowInv'
    BY <1>2, <1>10, FlushRecordable DEF Label
  <1>11. ASSUME NEW r \in Request, Touch(r) \/ OptOut(r) \/ OptIn(r) \/ Retouch(r) PROVE RowInv'
    BY <1>10, <1>11 DEF Touch, OptOut, OptIn, Retouch, Update, Step, AtStatement
  <1>12. ASSUME NEW r \in Request, Store(r) PROVE RowInv'
    BY <1>2, <1>12, FlushRecordable DEF Store, Step, AtStatement, Label
  <1>13. ASSUME NEW r \in Request, Route(r) PROVE RowInv'
    <2>1. pc[r] = "route" /\ said[r] = "none" /\ UNCHANGED dbVars /\ flusher' # r
      BY <1>4, <1>5, <1>13 DEF Route, dbVars
    <2>2. Recordable(r)'
      <3>1. CASE Answer(r, "alreadyOut", sid[r])
        BY <2>1, <3>1, AnswerRecordable DEF Reply, Recorded
      <3>2. CASE UNCHANGED said
        <4>1. pc'[r] # "reply"
          BY <1>13 DEF Route, Goto, Answer, Typed, TypeOK
        <4>2. QED
          BY <2>1, <3>2, <4>1 DEF Recordable, Recorded
      <3>3. QED
        BY <1>13, <3>1, <3>2 DEF Route
    <2>3. QED
      BY <1>3, <1>13, <2>1, <2>2 DEF Step
  <1>14. ASSUME NEW r \in Request, Generate(r) PROVE RowInv'
    <2>1. pc[r] = "generate" /\ said[r] = "none" /\ UNCHANGED dbVars /\ flusher' # r
      BY <1>4, <1>5, <1>14 DEF Generate, dbVars
    <2>2. Recordable(r)'
      <3>1. CASE Fail(r)
        BY <2>1, <3>1, AnswerRecordable DEF Fail, Reply, Recorded
      <3>2. CASE Goto(r, "retouch") /\ UNCHANGED said
        BY <2>1, <3>2 DEF Recordable, Recorded, Goto, Typed, TypeOK
      <3>3. QED
        BY <1>14, <3>1, <3>2 DEF Generate
    <2>3. QED
      BY <1>3, <1>14, <2>1, <2>2 DEF Step
  <1>15. ASSUME NEW r \in Request, Respond(r) PROVE RowInv'
    <2>1. pc[r] = "reply" /\ UNCHANGED dbVars /\ flusher' # r
      BY <1>4, <1>15 DEF Respond, dbVars
    <2>2. pc'[r] = "done" /\ ConversationOf(r) \in Kept'
      BY <1>1, <1>15, <2>1 DEF Respond, Answer, Goto, RowInv, Recordable, Typed, TypeOK
    <2>3. Recordable(r)'
      BY <2>1, <2>2 DEF Recordable, ConversationOf
    <2>4. QED
      BY <1>3, <1>15, <2>1, <2>3 DEF Step
  <1>16. ASSUME NEW r \in Request, StatementFails(r) PROVE RowInv'
    <2>1. pc[r] # "done" /\ Fail(r) /\ "technicalError" \in Reply \ Recorded
      BY <1>16 DEF StatementFails, AtStatement, Reply, Recorded
    <2>2. CASE txn = "broken" /\ UNCHANGED dbVars
      <3>1. flusher' # r /\ pending' \ carried' \subseteq pending \ carried
        BY <2>2, RequestAssumption DEF Typed, FlusherInv, dbVars
      <3>2. QED
        BY <1>2, <1>16, <2>1, <3>1, AnswerRecordable, UnwrittenStands DEF Fail, Step
    <2>3. CASE LoseRows
      <3>1. flusher' # r /\ pending' = {}
        BY <2>3, RequestAssumption DEF LoseRows
      <3>2. QED
        BY <1>2, <1>16, <2>1, <3>1, AnswerRecordable, UnwrittenStands DEF Fail, Step
    <2>4. QED
      BY <1>16, <2>2, <2>3 DEF StatementFails
  <1>17. CASE IdleTimeout \/ Restart
    <2>1. pending' = {} /\ flusher' = Nobody /\ UNCHANGED said
      BY <1>17 DEF IdleTimeout, Restart, LoseRows, requestVars
    <2>2. ASSUME NEW r \in Request PROVE pc'[r] = pc[r] \/ (pc[r] # "done" /\ pc'[r] = "gone")
      BY <1>17 DEF IdleTimeout, Restart, requestVars
    <2>3. ASSUME NEW r \in Request PROVE Recordable(r)'
      BY <1>1, <2>1, <2>2, RequestAssumption DEF RowInv, Recordable, Recorded, ConversationOf
    <2>4. QED
      BY <2>1, <2>3 DEF RowInv, UnwrittenIsFailed
  <1>18. CASE UNCHANGED vars
    BY <1>18 DEF vars, RowInv, Recordable, UnwrittenIsFailed, Kept, Written
  <1>19. QED
    BY <1>6, <1>7, <1>8, <1>9, <1>11, <1>12, <1>13, <1>14, <1>15, <1>16, <1>17, <1>18
       DEF Next, Step

LEMMA RowsRight == Spec => []RowInv
  <1>1. Init => Typed /\ RowInv
    BY RequestAssumption, BoundAssumption
       DEF Init, Typed, TypeOK, FlusherInv, Label, Reply, RowInv, Recordable, UnwrittenIsFailed, Recorded
  <1>2. Typed /\ RowInv /\ [Next]_vars => (Typed /\ RowInv)'
    BY TypeStep, RowStep
  <1>3. QED
    BY <1>1, <1>2, PTL DEF Spec

\* Whoever is given an answer has a conversation row until the transaction is
\* lost, however the flushes of the requests interleave.
THEOREM AnswersAreStored == Spec => []AnsweredIsStored
  <1>1. RowInv => AnsweredIsStored
    BY DEF RowInv, Recordable, AnsweredIsStored, Kept
  <1>2. QED
    BY <1>1, RowsRight, PTL

\* A row that is left behind in the session belongs to a request that was told
\* of an error.
THEOREM LeftoversAreReported == Spec => []UnwrittenIsFailed
  BY RowsRight, PTL DEF RowInv

-----------------------------------------------------------------------------
(* Sessions.  An id that a client was given, and one that a request carried, *)
(* names a row of the same client that was written at some time; a row that  *)
(* cannot be used was opted out; a request that left the session it named    *)
(* found it lost or opted out.                                               *)
Placed == Label \ {"idle", "lookup", "create", "done", "gone"}
Excused(s) == SessionOf(s) \in lost \/ s \in declined
Given(c, id) == id \in Request => By[id] = c /\ SessionOf(id) \in Kept

PlacedWell(r) ==
    /\ Given(By[r], sent[r])
    /\ sid[r] \in Request => By[sid[r]] = By[r]
    /\ pc[r] \in Placed \/ said[r] \in Recorded =>
          /\ sid[r] \in Request
          /\ sent[r] \in Request \ {sid[r]} => Excused(sent[r])
    /\ pc[r] = "create" /\ sent[r] \in Request => Excused(sent[r])
    /\ pc[r] \in Placed \ {"flushing"} => SessionOf(sid[r]) \in Kept
    /\ flusher = r => /\ onward[r] \in Placed \ {"flushing"}
                      /\ SessionOf(sid[r]) \in carried \cup Kept

KnownInv  == \A c \in Client : Given(c, known[c])
UsableInv == \A s \in DOMAIN sessions : s \notin declined => sessions[s].active /\ ~sessions[s].optedOut
PlaceInv  == (\A r \in Request : PlacedWell(r)) /\ KnownInv /\ UsableInv

\* What holds of a request goes on to hold while others act.
LEMMA ExcusedStays ==
    ASSUME lost \subseteq lost', declined \subseteq declined', NEW s, Excused(s)
    PROVE  Excused(s)'
  BY DEF Excused, SessionOf

LEMMA AsidePlaced ==
    ASSUME NEW q \in Request, Aside(q), PlacedWell(q), Kept \subseteq Kept',
           lost \subseteq lost', declined \subseteq declined'
    PROVE  PlacedWell(q)'
  BY ExcusedStays DEF Aside, PlacedWell, Given, SessionOf

\* The ways in which a request ends.
LEMMA AnswerPlaced ==
    ASSUME Typed, PlaceInv, NEW r \in Request, NEW text \in Reply, NEW id,
           Answer(r, text, id), Kept \subseteq Kept', lost \subseteq lost', declined \subseteq declined',
           Given(By[r], sent[r])', (sid[r] \in Request => By[sid[r]] = By[r])', Given(By[r], id),
           flusher' # r,
           text \in Recorded => pc[r] \in Placed /\ sid'[r] = sid[r] /\ sent'[r] = sent[r]
    PROVE  PlacedWell(r)' /\ KnownInv'
  <1>1. pc'[r] = "done" /\ said'[r] = text /\ known' = [known EXCEPT ![By[r]] = id]
    BY DEF Answer, Goto, Typed, TypeOK
  <1>2. text \in Recorded => (/\ sid[r] \in Request
                              /\ sent[r] \in Request \ {sid[r]} => Excused(sent[r]))'
    BY ExcusedStays DEF PlaceInv, PlacedWell, Excused
  <1>3. PlacedWell(r)'
    BY <1>1, <1>2 DEF PlacedWell, Placed, Given
  <1>4. KnownInv'
    BY <1>1 DEF PlaceInv, KnownInv, Given, SessionOf, Typed, TypeOK
  <1>5. QED
    BY <1>3, <1>4

LEMMA FailPlaced ==
    ASSUME Typed, PlaceInv, NEW r \in Request, Fail(r), UNCHANGED <<sent>>,
           Kept \subseteq Kept', lost \subseteq lost', declined \subseteq declined',
           (sid[r] \in Request => By[sid[r]] = By[r])', flusher' # r
    PROVE  PlacedWell(r)' /\ KnownInv'
  <1>1. Given(By[r], GivenId(r))
    BY RequestAssumption DEF GivenId, Given, PlaceInv, PlacedWell
  <1>2. Given(By[r], sent[r])'
    BY DEF PlaceInv, PlacedWell, Given, SessionOf
  <1>3. "technicalError" \in Reply \ Recorded
    BY DEF Reply, Recorded
  <1>4. QED
    BY <1>1, <1>2, <1>3, AnswerPlaced DEF Fail

LEMMA FlushPlaced ==
    ASSUME Typed, PlaceInv, NEW r \in Request, pc[r] \in AtStatement, said[r] = "none",
           NEW new \in SUBSET Row, NEW label \in Placed \ {"flushing"}, Flush(r, new, label),
           Kept \subseteq Kept', lost \subseteq lost', declined \subseteq declined',
           UNCHANGED sent, (sid[r] \in Request /\ By[sid[r]] = By[r])',
           (sent[r] \in Request \ {sid[r]} => Excused(sent[r]))',
           SessionOf(sid[r])' \in new \cup Kept'
    PROVE  PlacedWell(r)' /\ KnownInv'
  <1>1. pc[r] # "flushing" /\ flusher # r
    BY RequestAssumption DEF AtStatement, Typed, TypeOK
  <1>2. Given(By[r], sent[r])'
    BY DEF PlaceInv, PlacedWell, Given, SessionOf
  <1>3. CASE Fail(r) /\ UNCHANGED flusher
    BY <1>1, <1>3, FailPlaced
  <1>4. CASE pending \cup new = {} /\ Goto(r, label) /\ UNCHANGED <<said, known, flusher>>
    <2>1. pc'[r] = label /\ SessionOf(sid[r])' \in Kept' /\ flusher' # r
      BY <1>1, <1>4 DEF Goto, Typed, TypeOK
    <2>2. PlacedWell(r)'
      BY <1>2, <1>4, <2>1 DEF PlacedWell, Placed, Recorded
    <2>3. KnownInv'
      BY <1>4 DEF PlaceInv, KnownInv, Given, SessionOf
    <2>4. QED
      BY <2>2, <2>3
  <1>5. CASE /\ pending' = pending \cup new /\ flusher' = r /\ carried' = pending'
             /\ Goto(r, "flushing") /\ onward' = [onward EXCEPT ![r] = label]
             /\ UNCHANGED <<said, known>>
    <2>1. /\ pc'[r] = "flushing" /\ onward'[r] = label
          /\ SessionOf(sid[r])' \in carried' \cup Kept'
      BY <1>5 DEF Goto, Typed, TypeOK
    <2>2. PlacedWell(r)'
      BY <1>2, <1>5, <2>1 DEF PlacedWell, Placed, Recorded
    <2>3. KnownInv'
      BY <1>5 DEF PlaceInv, KnownInv, Given, SessionOf
    <2>4. QED
      BY <2>2, <2>3
  <1>6. QED
    BY <1>3, <1>4, <1>5 DEF Flush

LEMMA PlaceStep == Typed /\ RowInv /\ PlaceInv /\ [Next]_vars => PlaceInv'
  <1> SUFFICES ASSUME Typed, RowInv, PlaceInv, [Next]_vars PROVE PlaceInv'
    OBVIOUS
  <1>1. Kept \subseteq Kept' /\ lost \subseteq lost' /\ declined \subseteq declined'
    BY KeptGrows
  <1>2. ASSUME NEW r \in Request, Step(r), PlacedWell(r)', KnownInv', UsableInv' PROVE PlaceInv'
    BY <1>1, <1>2, OthersAside, AsidePlaced DEF PlaceInv
  <1>3. ASSUME NEW r \in Request, pc[r] # "done" PROVE said[r] = "none"
    BY <1>3 DEF RowInv, Recordable
  <1>4. ASSUME NEW r \in Request, pc[r] # "flushing" PROVE flusher # r
    BY <1>4, RequestAssumption DEF Typed, TypeOK
  <1>5. UNCHANGED sessions => UsableInv'
    BY <1>1 DEF PlaceInv, UsableInv
  <1>6. UNCHANGED known => KnownInv'
    BY <1>1 DEF PlaceInv, KnownInv, Given, SessionOf
  <1>7. ASSUME NEW r \in Request, Receive(r) PROVE PlaceInv'
    <2>1. pc[r] = "idle" /\ said[r] = "none" /\ UNCHANGED <<sid, sessions>> /\ flusher' # r
      BY <1>3, <1>4, <1>7 DEF Receive, dbVars
    <2>2. sent'[r] \in {NoSession, known[By[r]]}
      BY <1>7 DEF Receive, Typed, TypeOK
    <2>3. Given(By[r], sent'[r]) /\ Given(By[r], Stranger) /\ Given(By[r], NoSession)
      BY <2>2, RequestAssumption DEF PlaceInv, KnownInv, Given
    <2>4. Given(By[r], sent[r])' /\ (sid[r] \in Request => By[sid[r]] = By[r])'
      BY <1>1, <2>1, <2>3 DEF Given, SessionOf, PlaceInv, PlacedWell
    <2>5. PlacedWell(r)' /\ KnownInv'
      <3>1. CASE /\ Goto(r, IF sent'[r] = NoSession THEN "create" ELSE "lookup")
                 /\ UNCHANGED <<said, known>>
        <4>1. pc'[r] = (IF sent'[r] = NoSession THEN "create" ELSE "lookup") /\ said'[r] = "none"
          BY <2>1, <3>1 DEF Goto, Typed, TypeOK
        <4>2. PlacedWell(r)'
          BY <2>1, <2>4, <4>1, RequestAssumption DEF PlacedWell, Placed, Recorded
        <4>3. QED
          BY <1>6, <3>1, <4>2
      <3>2. CASE \E text \in {"tooFast", "blocked"}, id \in {sent'[r], Stranger} : Answer(r, text, id)
        BY <1>1, <2>1, <2>3, <2>4, <3>2, AnswerPlaced DEF Reply, Recorded
      <3>3. QED
        BY <1>7, <3>1, <3>2 DEF Receive
    <2>6. QED
      BY <1>2, <1>5, <1>7, <2>1, <2>5 DEF Step
  <1>8. ASSUME NEW r \in Request, Lookup(r) PROVE PlaceInv'
    <2>1. said'[r] = "none" /\ UNCHANGED <<sent, known, sessions>> /\ flusher' # r
      BY <1>3, <1>4, <1>8 DEF Lookup
    <2>2. Given(By[r], sent[r]) /\ (sid[r] \in Request => By[sid[r]] = By[r])
      BY DEF PlaceInv, PlacedWell
    <2>3. Given(By[r], sent[r])'
      BY <1>1, <2>1, <2>2 DEF Given, SessionOf
    <2>4. CASE Usable(sent[r])
      <3>1. pc'[r] = "touch" /\ sid'[r] = sent[r] /\ sent[r] \in Request
            /\ SessionOf(sent[r]) \in Kept
        BY <1>8, <2>4 DEF Lookup, Goto, Usable, Kept, Written, Typed, TypeOK
      <3>2. PlacedWell(r)'
        BY <1>1, <2>1, <2>2, <2>3, <3>1 DEF PlacedWell, Placed, Recorded, Given, SessionOf
      <3>3. QED
        BY <1>2, <1>5, <1>6, <1>8, <2>1, <3>2 DEF Step
    <2>5. CASE ~Usable(sent[r])
      <3>1. pc'[r] = "create" /\ UNCHANGED sid
        BY <1>8, <2>5 DEF Lookup, Goto, Typed, TypeOK
      <3>2. ASSUME sent[r] \in Request PROVE Excused(sent[r])
        <4>1. SessionOf(sent[r]) \in lost \/ sent[r] \in DOMAIN sessions
          BY <2>2, <3>2 DEF Given, Kept, Written, SessionOf, ConversationOf
        <4>2. QED
          BY <2>5, <4>1 DEF Excused, Usable, PlaceInv, UsableInv
      <3>3. PlacedWell(r)'
        BY <1>1, <2>1, <2>2, <2>3, <3>1, <3>2, ExcusedStays
           DEF PlacedWell, Placed, Recorded, Excused
      <3>4. QED
        BY <1>2, <1>5, <1>6, <1>8, <2>1, <3>3 DEF Step
    <2>6. QED
      BY <2>4, <2>5
  <1>9. ASSUME NEW r \in Request, FlushDone(r) PROVE PlaceInv'
    <2>1. /\ pc[r] = "flushing" /\ flusher = r /\ flusher' # r
          /\ pc'[r] = onward[r] /\ UNCHANGED <<sent, sid, said, known>>
      BY <1>9, RequestAssumption DEF FlushDone, Goto, Typed, TypeOK
    <2>2. sid[r] \in Request /\ SessionOf(sid[r]) \in carried \cup Kept /\ said[r] = "none"
      BY <1>3, <2>1 DEF PlaceInv, PlacedWell, Placed, Label
    <2>3. SessionOf(sid[r]) \in Kept'
      BY <1>1, <1>9, <2>2 DEF FlushDone, Kept, Written
    <2>4. onward[r] \in Placed \ {"flushing"}
      BY <2>1 DEF PlaceInv, PlacedWell
    <2>5. sent[r] \in Request \ {sid[r]} => Excused(sent[r])
      BY <2>1 DEF PlaceInv, PlacedWell, Placed, Label
    <2>6. Given(By[r], sent[r]) /\ By[sid[r]] = By[r]
      BY <2>2 DEF PlaceInv, PlacedWell
    <2>7. PlacedWell(r)'
      <3>1. Given(By[r], sent[r])'
        BY <1>1, <2>1, <2>6 DEF Given, SessionOf
      <3>2. (sent[r] \in Request \ {sid[r]} => Excused(sent[r]))'
        BY <1>1, <2>1, <2>5, ExcusedStays DEF Excused
      <3>3. QED
        BY <2>1, <2>2, <2>3, <2>4, <2>6, <3>1, <3>2 DEF PlacedWell, Placed, SessionOf
    <2>8. UsableInv'
      BY <1>1, <1>9 DEF FlushDone, PlaceInv, UsableInv, NewRow
    <2>9. QED
      BY <1>2, <1>6, <1>9, <2>1, <2>7, <2>8 DEF Step
  <1>10. ASSUME NEW r \in Request, Create(r) PROVE PlaceInv'
    <2>1. /\ pc[r] = "create" /\ said[r] = "none" /\ UNCHANGED <<sent, sessions>> /\ sid'[r] = r
      BY <1>3, <1>10 DEF Create, Typed, TypeOK
    <2>2. (sent[r] \in Request \ {sid[r]} => Excused(sent[r]))'
      BY <1>1, <2>1, ExcusedStays DEF PlaceInv, PlacedWell, Excused
    <2>3. SessionOf(sid[r])' \in {SessionOf(r)} \cup Kept'
      BY <2>1 DEF SessionOf
    <2>4. "route" \in Placed \ {"flushing"} /\ pc[r] \in AtStatement
      BY <2>1 DEF Placed, Label, AtStatement
    <2>5. PlacedWell(r)' /\ KnownInv'
      BY <1>1, <1>10, <2>1, <2>2, <2>3, <2>4, FlushPlaced, RowType DEF Create
    <2>6. QED
      BY <1>2, <1>5, <1>10, <2>1, <2>5 DEF Step
  <1>11. ASSUME NEW r \in Request, Step(r), pc[r] \in AtStatement \cap Placed,
                NEW label \in Placed \ {"flushing"}, NEW new \in SUBSET Row, Flush(r, new, label),
                UNCHANGED <<sent, sid>>, UsableInv'
         PROVE  PlaceInv'
    <2>1. said[r] = "none"
      BY <1>3, <1>11 DEF AtStatement
    <2>2. /\ sid[r] \in Request /\ By[sid[r]] = By[r] /\ SessionOf(sid[r]) \in Kept
          /\ sent[r] \in Request \ {sid[r]} => Excused(sent[r])
      BY <1>11 DEF PlaceInv, PlacedWell, AtStatement
    <2>3. (sent[r] \in Request \ {sid[r]} => Excused(sent[r]))'
      BY <1>1, <1>11, <2>2, ExcusedStays DEF Excused
    <2>4. SessionOf(sid[r])' \in new \cup Kept'
      BY <1>1, <1>11, <2>2 DEF SessionOf
    <2>5. PlacedWell(r)' /\ KnownInv'
      BY <1>1, <1>11, <2>1, <2>2, <2>3, <2>4, FlushPlaced
    <2>6. QED
      BY <1>2, <1>11, <2>5
  <1>12. ASSUME NEW r \in Request, Touch(r) \/ Retouch(r) PROVE PlaceInv'
    <2>1. UsableInv'
      <3>1. sessions' = [s \in DOMAIN sessions |->
                            IF s = sid[r] THEN OneMore(sessions[sid[r]]) ELSE sessions[s]]
            /\ declined' = declined
        BY <1>12 DEF Touch, Retouch, Update, RowOf, ghostVars
      <3>2. \A s \in DOMAIN sessions :
              OneMore(sessions[s]).active = sessions[s].active
              /\ OneMore(sessions[s]).optedOut = sessions[s].optedOut
        BY <1>1 DEF OneMore, Typed, TypeOK, SessionRow
      <3>3. \A s \in DOMAIN sessions : sessions'[s].active = sessions[s].active
                                        /\ sessions'[s].optedOut = sessions[s].optedOut
        BY <3>1, <3>2
      <3>4. QED
        BY <1>1, <3>1, <3>3 DEF PlaceInv, UsableInv
    <2>2. pc[r] \in AtStatement \cap Placed /\ {"route", "store"} \subseteq Placed \ {"flushing"}
      BY <1>12 DEF Touch, Retouch, AtStatement, Placed, Label
    <2>3. QED
      BY <1>11, <1>12, <2>1, <2>2, RowType DEF Touch, Retouch, Update, Step
  <1>13. ASSUME NEW r \in Request, OptOut(r) \/ OptIn(r) PROVE PlaceInv'
    <2>1. UsableInv'
      <3>1. CASE OptOut(r)
        <4>1. /\ DOMAIN sessions' = DOMAIN sessions
              /\ \A s \in DOMAIN sessions : s # sid[r] => sessions'[s] = sessions[s]
          BY <3>1 DEF OptOut, Update
        <4>2. \A s \in DOMAIN sessions : s = sid[r] => s \in declined'
          BY <3>1 DEF OptOut
        <4>3. QED
          BY <1>1, <4>1, <4>2 DEF PlaceInv, UsableInv
      <3>2. CASE OptIn(r)
        <4>1. /\ DOMAIN sessions' = DOMAIN sessions
              /\ \A s \in DOMAIN sessions : s # sid[r] => sessions'[s] = sessions[s]
          BY <3>2 DEF OptIn, Update
        <4>2. \A s \in DOMAIN sessions : s = sid[r] => sessions'[s].active /\ ~sessions'[s].optedOut
          BY <3>2 DEF OptIn, Update, RowOf, OptedIn, Typed, TypeOK, SessionRow
        <4>3. QED
          BY <1>1, <4>1, <4>2 DEF PlaceInv, UsableInv
      <3>3. QED
        BY <1>13, <3>1, <3>2
    <2>2. pc[r] \in AtStatement \cap Placed /\ "retouch" \in Placed \ {"flushing"}
      BY <1>13 DEF OptOut, OptIn, AtStatement, Placed, Label
    <2>3. QED
      BY <1>11, <1>13, <2>1, <2>2, RowType DEF OptOut, OptIn, Update, Step
  <1>14. ASSUME NEW r \in Request, Store(r) PROVE PlaceInv'
    <2>1. pc[r] \in AtStatement \cap Placed /\ "reply" \in Placed \ {"flushing"}
      BY <1>14 DEF Store, AtStatement, Placed, Label
    <2>2. QED
      BY <1>5, <1>11, <1>14, <2>1, RowType DEF Store, Step
  <1>15. ASSUME NEW r \in Request, Step(r), pc[r] \in Placed \ {"flushing"}, pc'[r] \in Placed \ {"flushing"},
                UNCHANGED <<sent, sid, said, known, dbVars>>
         PROVE  PlaceInv'
    <2>1. flusher' # r /\ UNCHANGED sessions
      BY <1>4, <1>15 DEF dbVars
    <2>2. PlacedWell(r)'
      <3>1. (sent[r] \in Request \ {sid[r]} => Excused(sent[r]))'
        BY <1>1, <1>15, ExcusedStays DEF PlaceInv, PlacedWell, Excused
      <3>2. Given(By[r], sent[r])' /\ SessionOf(sid[r])' \in Kept'
        BY <1>1, <1>15 DEF PlaceInv, PlacedWell, Given, SessionOf
      <3>3. QED
        BY <1>15, <2>1, <3>1, <3>2 DEF PlacedWell, PlaceInv, Placed
    <2>3. QED
      BY <1>2, <1>5, <1>6, <1>15, <2>1, <2>2
  <1>16. ASSUME NEW r \in Request, Step(r), NEW text \in Reply, NEW id, Answer(r, text, id),
                pc[r] # "flushing", UNCHANGED <<sent, sid, dbVars>>, Given(By[r], id),
                text \in Recorded => pc[r] \in Placed
         PROVE  PlaceInv'
    <2>1. flusher' # r /\ UNCHANGED sessions
      BY <1>4, <1>16 DEF dbVars
    <2>2. Given(By[r], sent[r])' /\ (sid[r] \in Request => By[sid[r]] = By[r])'
      BY <1>1, <1>16 DEF PlaceInv, PlacedWell, Given, SessionOf
    <2>3. QED
      BY <1>1, <1>2, <1>5, <1>16, <2>1, <2>2, AnswerPlaced
  <1>17. ASSUME NEW r \in Request PROVE Given(By[r], GivenId(r))
    BY RequestAssumption DEF GivenId, Given, PlaceInv, PlacedWell
  <1>18. ASSUME NEW r \in Request, pc[r] \in Placed \ {"flushing"} PROVE Given(By[r], sid[r])
    BY <1>18 DEF Given, PlaceInv, PlacedWell
  <1>19. ASSUME NEW r \in Request, Route(r) PROVE PlaceInv'
    <2>1. pc[r] \in Placed \ {"flushing"} /\ UNCHANGED <<sent, sid, dbVars>>
      BY <1>19 DEF Route, Placed, Label
    <2>2. CASE Answer(r, "alreadyOut", sid[r])
      BY <1>16, <1>18, <1>19, <2>1, <2>2 DEF Step, Reply, Recorded
    <2>3. CASE UNCHANGED <<said, known>> /\ pc'[r] \in Placed \ {"flushing"}
      BY <1>15, <1>19, <2>1, <2>3 DEF Step
    <2>4. QED
      BY <1>19, <2>2, <2>3 DEF Route, Goto, Placed, Label, Typed, TypeOK
  <1>20. ASSUME NEW r \in Request, Generate(r) PROVE PlaceInv'
    <2>1. pc[r] \in Placed \ {"flushing"} /\ UNCHANGED <<sent, sid, dbVars>>
      BY <1>20 DEF Generate, Placed, Label
    <2>2. CASE Fail(r)
      BY <1>16, <1>17, <1>20, <2>1, <2>2 DEF Fail, Step, Reply, Recorded
    <2>3. CASE UNCHANGED <<said, known>> /\ pc'[r] \in Placed \ {"flushing"}
      BY <1>15, <1>20, <2>1, <2>3 DEF Step
    <2>4. QED
      BY <1>20, <2>2, <2>3 DEF Generate, Goto, Placed, Label, Typed, TypeOK
  <1>21. ASSUME NEW r \in Request, Respond(r) PROVE PlaceInv'
    <2>1. pc[r] \in Placed \ {"flushing"} /\ UNCHANGED <<sent, sid, dbVars>> /\ draft[r] \in Reply
      BY <1>21 DEF Respond, Placed, Label, Typed, TypeOK
    <2>2. QED
      BY <1>16, <1>18, <1>21, <2>1 DEF Respond, Step
  <1>22. ASSUME NEW r \in Request, StatementFails(r) PROVE PlaceInv'
    <2>1. Fail(r) /\ UNCHANGED <<sent, sid>>
      BY <1>22 DEF StatementFails
    <2>2. flusher' = Nobody /\ UsableInv'
      <3>1. CASE txn = "broken" /\ UNCHANGED dbVars
        BY <1>5, <3>1 DEF Typed, FlusherInv, dbVars
      <3>2. CASE LoseRows
        BY <3>2 DEF LoseRows, UsableInv
      <3>3. QED
        BY <1>22, <3>1, <3>2 DEF StatementFails
    <2>3. (sid[r] \in Request => By[sid[r]] = By[r])' /\ flusher' # r
      BY <2>1, <2>2, RequestAssumption DEF PlaceInv, PlacedWell
    <2>4. QED
      BY <1>1, <1>2, <1>22, <2>1, <2>2, <2>3, FailPlaced DEF Step
  <1>23. CASE IdleTimeout \/ Restart
    <2>1. LoseRows /\ UNCHANGED <<sent, sid, said, known>>
      BY <1>23 DEF IdleTimeout, Restart, requestVars
    <2>2. ASSUME NEW r \in Request PROVE pc'[r] \in {pc[r], "gone"}
      BY <1>23 DEF IdleTimeout, Restart, requestVars
    <2>3. UsableInv'
      BY <2>1 DEF LoseRows, UsableInv
    <2>4. ASSUME NEW r \in Request PROVE PlacedWell(r)'
      <3>1. flusher' # r
        BY <2>1, RequestAssumption DEF LoseRows
      <3>2. (pc[r] \in Placed \/ said[r] \in Recorded =>
               sid[r] \in Request /\ (sent[r] \in Request \ {sid[r]} => Excused(sent[r])))'
        BY <1>1, <2>1, <2>2, ExcusedStays DEF PlaceInv, PlacedWell, Placed, Excused
      <3>3. (pc[r] = "create" /\ sent[r] \in Request => Excused(sent[r]))'
        BY <1>1, <2>1, <2>2, ExcusedStays DEF PlaceInv, PlacedWell, Excused
      <3>4. Given(By[r], sent[r])' /\ (pc[r] \in Placed \ {"flushing"} => SessionOf(sid[r]) \in Kept)'
        BY <1>1, <2>1, <2>2 DEF PlaceInv, PlacedWell, Given, SessionOf, Placed
      <3>5. QED
        BY <2>1, <3>1, <3>2, <3>3, <3>4 DEF PlaceInv, PlacedWell
    <2>5. QED
      BY <1>6, <2>1, <2>3, <2>4 DEF PlaceInv
  <1>24. CASE UNCHANGED vars
    <2>1. ASSUME NEW r \in Request PROVE PlacedWell(r)'
      BY <1>24 DEF vars, PlaceInv, PlacedWell, Given, Excused, Kept, Written, SessionOf
    <2>2. QED
      BY <1>5, <1>6, <1>24, <2>1 DEF vars, PlaceInv
  <1>25. QED
    BY <1>7, <1>8, <1>9, <1>10, <1>12, <1>13, <1>14, <1>19, <1>20, <1>21, <1>22, <1>23, <1>24
       DEF Next, Step

\* A client stays in its session: an answer comes from the session its request
\* named, unless that one was opted out or lost, and never from anybody else's.
THEOREM ClientsStayInTheirSession == Spec => []Continuity
  <1>1. Init => Typed /\ RowInv /\ PlaceInv
    <2>1. Init => Typed /\ RowInv
      BY RequestAssumption, BoundAssumption
         DEF Init, Typed, TypeOK, FlusherInv, Label, Reply, RowInv, Recordable, UnwrittenIsFailed,
             Recorded
    <2>2. Init => PlaceInv
      BY RequestAssumption
         DEF Init, PlaceInv, PlacedWell, KnownInv, UsableInv, Given, Placed, Label, Recorded
    <2>3. QED
      BY <2>1, <2>2
  <1>2. Typed /\ RowInv /\ PlaceInv /\ [Next]_vars => (Typed /\ RowInv /\ PlaceInv)'
    BY TypeStep, RowStep, PlaceStep
  <1>3. PlaceInv => Continuity
    <2>1. ASSUME PlaceInv, NEW r \in Request, said[r] \in Recorded
          PROVE  /\ By[sid[r]] = By[r]
                 /\ sent[r] \in Request \ {sid[r]} => SessionOf(sent[r]) \in lost \/ sent[r] \in declined
      BY <2>1 DEF PlaceInv, PlacedWell, Excused
    <2>2. QED
      BY <2>1, RequestAssumption DEF Continuity
  <1>4. QED
    BY <1>1, <1>2, <1>3, PTL DEF Spec
=============================================================================
