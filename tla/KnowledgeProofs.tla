--------------------------- MODULE KnowledgeProofs --------------------------
(****************************************************************************)
(* Theorems about Knowledge, for any number of documents, batches, indexing *)
(* calls, requests, questions and writers; and about TextPipeline, which    *)
(* cuts the documents, for any messages, replies, documents and limits.     *)
(****************************************************************************)
EXTENDS Knowledge, TextPipeline, SequenceTheorems, WellFoundedInduction, TLAPS

-----------------------------------------------------------------------------
(* Types. *)

\* A request under way has a question; one that found nothing does not go on.
UnderWay == \A r \in Request :
    /\ pc[r] # "idle" => asked[r] # None
    /\ pc[r] \in {"generate", "cache"} => found[r] # {}

Typed == TypeOK /\ UnderWay

LEMMA TypeInit == Init => Typed
<1> SUFFICES ASSUME Init
             PROVE  Typed
    OBVIOUS
<1> USE BoundAssumption DEF Init, NewDocument
<1>1. /\ points \subseteq Point /\ next \in [Indexing -> 0..Parts + 1]
      /\ faults \in 0..MaxFaults /\ broken \subseteq Indexing /\ removed \subseteq Indexing
    OBVIOUS
<1>2. /\ asked \in [Request -> Asked \cup {None}]
      /\ pc \in [Request -> {"idle", "retrieve", "generate", "cache"}]
      /\ found \in [Request -> SUBSET Doc]
      /\ cache \in [Question -> ((SUBSET Doc) \ {{}}) \cup {None}]
      /\ sweep \in {"idle", "scan", "done"} /\ due \subseteq Question /\ old \subseteq Question
    OBVIOUS
<1>3. row \in Row
    BY DEF Row, Status
<1>4. /\ op \in [Write -> Operation \cup {None}]
      /\ step \in [Write -> {"start", "write", "done"}] /\ seen \in [Write -> Nat]
      /\ retired \in BOOLEAN /\ recorded \in Nat
    OBVIOUS
<1>5. UnderWay
    BY DEF UnderWay
<1> QED
    BY <1>1, <1>2, <1>3, <1>4, <1>5 DEF Typed, TypeOK

\* A failed command leaves the count of faults within its bound.
LEMMA FaultBound == ASSUME faults \in 0..MaxFaults, Fault PROVE faults' \in 0..MaxFaults
BY BoundAssumption DEF Fault

LEMMA TypeStep == Typed /\ [Next]_vars => Typed'
<1> SUFFICES ASSUME Typed, [Next]_vars
             PROVE  Typed'
    OBVIOUS
<1> USE BoundAssumption, IndexingAssumption DEF Typed
<1>1. ASSUME NEW i \in Indexing, Begin(i)
      PROVE  Typed'
    BY <1>1 DEF Begin, TypeOK, UnderWay, answers, rows
<1>2. ASSUME NEW i \in Indexing, IndexBatch(i)
      PROVE  Typed'
    <2>1. Batch(i) \subseteq Point
        BY <1>2 DEF IndexBatch, Batch, Point
    <2>2. points' \subseteq Point
        BY <1>2, <2>1 DEF IndexBatch, TypeOK
    <2>3. next' \in [Indexing -> 0..Parts + 1] /\ broken' \subseteq Indexing
        BY <1>2 DEF IndexBatch, TypeOK
    <2>4. faults' \in 0..MaxFaults
        BY <1>2, FaultBound DEF IndexBatch, TypeOK
    <2> QED
        BY <1>2, <2>2, <2>3, <2>4 DEF IndexBatch, TypeOK, UnderWay, answers, rows
<1>3. ASSUME NEW d \in Doc, DeleteDocument(d)
      PROVE  Typed'
    BY <1>3 DEF DeleteDocument, TypeOK, UnderWay, answers, rows
<1>4. ASSUME NEW r \in Request, Answering(r)
      PROVE  Typed'
    <2>1. UNCHANGED <<store, rows, asked, sweep, due>>
        BY <1>4 DEF Answering, Lookup, Retrieve, Generate, CacheAnswer, Goto
    <2>2. pc' \in [Request -> {"idle", "retrieve", "generate", "cache"}]
        BY <1>4 DEF Answering, Lookup, Retrieve, Generate, CacheAnswer, Goto, TypeOK
    <2>3. found' \in [Request -> SUBSET Doc]
        <3>1. CASE Retrieve(r)
            <4>1. ASSUME NEW kept \in SUBSET Matching(r)
                  PROVE  {p.doc : p \in kept} \subseteq Doc
                BY DEF Matching, TypeOK, Point
            <4> QED
                BY <3>1, <4>1 DEF Retrieve, TypeOK
        <3> QED
            BY <1>4, <3>1 DEF Answering, Lookup, Generate, CacheAnswer, TypeOK
    <2>4. faults' \in 0..MaxFaults
        BY <1>4, FaultBound DEF Answering, Lookup, Retrieve, Generate, CacheAnswer, TypeOK
    <2>5. old' \subseteq Question
        BY <1>4 DEF Answering, Lookup, Retrieve, Generate, CacheAnswer, TypeOK
    <2>6. cache' \in [Question -> ((SUBSET Doc) \ {{}}) \cup {None}]
        <3>1. CASE CacheAnswer(r)
            <4>1. found[r] \in (SUBSET Doc) \ {{}}
                BY <3>1 DEF CacheAnswer, UnderWay, TypeOK
            <4> QED
                BY <3>1, <4>1 DEF CacheAnswer, TypeOK
        <3> QED
            BY <1>4, <3>1 DEF Answering, Lookup, Retrieve, Generate, TypeOK
    <2>7. UnderWay'
        <3>1. ASSUME NEW u \in Request, u # r
              PROVE  pc'[u] = pc[u] /\ found'[u] = found[u]
            BY <1>4, <3>1 DEF Answering, Lookup, Retrieve, Generate, CacheAnswer, Goto, TypeOK
        <3>2. /\ pc'[r] # "idle" => asked[r] # None
              /\ pc'[r] \in {"generate", "cache"} => found'[r] # {}
            <4>1. CASE Retrieve(r)
                <5>1. ASSUME NEW kept \in (SUBSET Matching(r)) \ {{}}
                      PROVE  {p.doc : p \in kept} # {}
                    <6>1. PICK p \in kept : TRUE
                        OBVIOUS
                    <6> QED
                        BY <6>1
                <5> QED
                    BY <4>1, <5>1 DEF Retrieve, Goto, TypeOK, UnderWay
            <4> QED
                BY <1>4, <4>1 DEF Answering, Lookup, Generate, CacheAnswer, Goto, TypeOK, UnderWay
        <3> QED
            BY <2>1, <3>1, <3>2 DEF UnderWay
    <2> QED
        BY <2>1, <2>2, <2>3, <2>4, <2>5, <2>6, <2>7 DEF TypeOK, store, rows
<1>5. CASE Sweep \/ SweepFails
    <2>1. UNCHANGED <<store, rows, asked, pc, found, cache>>
        BY <1>5 DEF Sweep, SweepFails
    <2>2. /\ sweep' \in {"idle", "scan", "done"}
          /\ due' \subseteq Question /\ old' \subseteq Question
          /\ faults' \in 0..MaxFaults
        BY <1>5, FaultBound DEF Sweep, SweepFails, TypeOK
    <2> QED
        BY <2>1, <2>2 DEF TypeOK, UnderWay, store, rows
<1>6. ASSUME NEW q \in Question, Lapse(q) \/ SweepKey(q)
      PROVE  Typed'
    <2>1. UNCHANGED <<store, rows, asked, pc, found, faults>>
        BY <1>6 DEF Lapse, SweepKey
    <2>2. /\ sweep' \in {"idle", "scan", "done"}
          /\ due' \subseteq Question /\ old' \subseteq Question
          /\ cache' \in [Question -> ((SUBSET Doc) \ {{}}) \cup {None}]
        BY <1>6 DEF Lapse, SweepKey, Drops, TypeOK
    <2> QED
        BY <2>1, <2>2 DEF TypeOK, UnderWay, store, rows
<1>7. ASSUME NEW w \in Write,
             UpdateIndexingStatus(w) \/ DeprecateDocument(w) \/ ReadRetrievals(w) \/ RecordRetrieval(w)
      PROVE  Typed'
    <2>1. UNCHANGED <<store, answers, faults, op>>
        BY <1>7 DEF UpdateIndexingStatus, DeprecateDocument, ReadRetrievals, RecordRetrieval, Done
    <2>2. CASE UpdateIndexingStatus(w) \/ DeprecateDocument(w)
        <3>1. /\ step' \in [Write -> {"start", "write", "done"}] /\ seen' = seen
              /\ retired' \in BOOLEAN /\ recorded' = recorded
            BY <2>2 DEF UpdateIndexingStatus, DeprecateDocument, Done, TypeOK
        <3>2. row' \in Row
            <4>1. op[w] \in {"start", "finish", "fail", "deprecate"}
                BY <2>2 DEF UpdateIndexingStatus, DeprecateDocument
            <4>2. CASE DeprecateDocument(w)
                BY <4>2 DEF DeprecateDocument, TypeOK, Row, Status
            <4>3. ASSUME NEW status \in Status
                  PROVE  [row EXCEPT !.status = status] \in Row
                BY DEF TypeOK, Row
            <4>4. CASE UpdateIndexingStatus(w)
                BY <4>4, <4>3 DEF UpdateIndexingStatus, Status
            <4> QED
                BY <2>2, <4>2, <4>4
        <3> QED
            BY <2>1, <3>1, <3>2 DEF TypeOK, UnderWay, store, answers
    <2>3. CASE ReadRetrievals(w) \/ RecordRetrieval(w)
        <3>1. /\ step' \in [Write -> {"start", "write", "done"}] /\ retired' = retired
            BY <2>3 DEF ReadRetrievals, RecordRetrieval, Done, TypeOK
        <3>2. seen' \in [Write -> Nat] /\ recorded' \in Nat /\ row' \in Row
            BY <2>3 DEF ReadRetrievals, RecordRetrieval, Done, TypeOK, Row
        <3> QED
            BY <2>1, <3>1, <3>2 DEF TypeOK, UnderWay, store, answers
    <2> QED
        BY <1>7, <2>2, <2>3
<1>8. CASE UNCHANGED vars
    BY <1>8 DEF TypeOK, UnderWay, vars, store, answers, rows
<1> QED
    BY <1>1, <1>2, <1>3, <1>4, <1>5, <1>6, <1>7, <1>8 DEF Next

\* The state stays within its types whatever is indexed, asked, swept or
\* written.  (rag_service.py, chat_service.py:784-977, knowledge_repository.py)
THEOREM TypeCorrect == Spec => []TypeOK
<1>1. Spec => []Typed
    BY TypeInit, TypeStep, PTL DEF Spec
<1>2. Typed => TypeOK
    BY DEF Typed
<1> QED
    BY <1>1, <1>2, PTL

-----------------------------------------------------------------------------
(* What is indexed is there. *)

PointOf(i, k) == [doc |-> Subject[i].doc, language |-> Subject[i].language, part |-> k, by |-> i]

\* A call that lost nothing to a deletion has every batch it has left behind.
Stored == \A i \in Indexing \ removed : \A k \in 1..Parts : k < next[i] => PointOf(i, k) \in points

LEMMA StoredInit == Init => Stored
BY DEF Init, NewDocument, Stored

LEMMA StoredStep == Typed /\ Stored /\ [Next]_vars => Stored'
<1> SUFFICES ASSUME Typed, Stored, [Next]_vars
             PROVE  Stored'
    OBVIOUS
<1> USE BoundAssumption, IndexingAssumption DEF Typed
<1>1. ASSUME NEW i \in Indexing, Begin(i)
      PROVE  Stored'
    BY <1>1 DEF Begin, Stored, TypeOK, PointOf
<1>2. ASSUME NEW i \in Indexing, IndexBatch(i)
      PROVE  Stored'
    <2>1. points \subseteq points' /\ removed' = removed
        BY <1>2 DEF IndexBatch
    <2>2. \A j \in Indexing \ {i} : next'[j] = next[j]
        BY <1>2 DEF IndexBatch, TypeOK
    <2>3. next'[i] = next[i] \/ (next'[i] = next[i] + 1 /\ PointOf(i, next[i]) \in points')
        BY <1>2 DEF IndexBatch, TypeOK, Batch, PointOf
    <2> QED
        BY <2>1, <2>2, <2>3 DEF Stored, TypeOK, PointOf
<1>3. ASSUME NEW d \in Doc, DeleteDocument(d)
      PROVE  Stored'
    <2>1. ASSUME NEW i \in Indexing \ removed', NEW k \in 1..Parts, k < next'[i]
          PROVE  PointOf(i, k) \in points'
        <3>1. next'[i] = next[i] /\ i \notin removed /\ next[i] # 0
            BY <1>3, <2>1 DEF DeleteDocument, TypeOK
        <3>2. Subject[i].doc # d
            BY <1>3, <2>1, <3>1 DEF DeleteDocument
        <3> QED
            BY <1>3, <2>1, <3>1, <3>2 DEF DeleteDocument, Stored, PointOf
    <2> QED
        BY <2>1 DEF Stored, PointOf
<1>4. CASE UNCHANGED store
    BY <1>4 DEF Stored, store, PointOf
<1>5. ASSUME NEW r \in Request, Answering(r)
      PROVE  UNCHANGED store
    BY <1>5 DEF Answering, Lookup, Retrieve, Generate, CacheAnswer
<1>6. Sweep \/ SweepFails => UNCHANGED store
    BY DEF Sweep, SweepFails
<1>7. ASSUME NEW q \in Question, Lapse(q) \/ SweepKey(q)
      PROVE  UNCHANGED store
    BY <1>7 DEF Lapse, SweepKey
<1>8. ASSUME NEW w \in Write,
             UpdateIndexingStatus(w) \/ DeprecateDocument(w) \/ ReadRetrievals(w) \/ RecordRetrieval(w)
      PROVE  UNCHANGED store
    BY <1>8 DEF UpdateIndexingStatus, DeprecateDocument, ReadRetrievals, RecordRetrieval
<1> QED
    BY <1>1, <1>2, <1>3, <1>4, <1>5, <1>6, <1>7, <1>8 DEF Next, vars

\* A document whose indexing came to its end is in the store with all of its
\* batches unless it was deleted, however indexing runs, failures and deletions
\* of other documents interleave.  (rag_service.py:281-328)
THEOREM IndexedStaysIndexed == Spec => []IndexedInFull
<1>1. Spec => [](Typed /\ Stored)
    BY TypeInit, TypeStep, StoredInit, StoredStep, PTL DEF Spec
<1>2. Typed /\ Stored => IndexedInFull
    <2> SUFFICES ASSUME Typed, Stored, NEW i \in Indexing, next[i] > Parts, i \notin removed
                 PROVE  {p.part : p \in {x \in points : x.by = i}} = 1..Parts
        BY DEF IndexedInFull
    <2> DEFINE own == {x \in points : x.by = i}
    <2>1. ASSUME NEW k \in 1..Parts
          PROVE  \E p \in own : p.part = k
        <3>1. k < next[i]
            BY BoundAssumption DEF Typed, TypeOK
        <3>2. PointOf(i, k) \in own /\ PointOf(i, k).part = k
            BY <3>1 DEF Stored, PointOf
        <3> QED
            BY <3>2
    <2>2. ASSUME NEW p \in own
          PROVE  p.part \in 1..Parts
        BY DEF Typed, TypeOK, Point
    <2> QED
        BY <2>1, <2>2
<1> QED
    BY <1>1, <1>2, PTL

-----------------------------------------------------------------------------
(* What is swept is gone. *)

\* Of the answers that were cached when the sweep began, only those that the
\* scan has not come by are left.
Swept == /\ sweep = "scan" => old \subseteq due
         /\ sweep = "done" => old = {}

LEMMA SweptInit == Init => Swept
BY DEF Init, NewDocument, Swept

LEMMA SweptStep == Typed /\ Swept /\ [Next]_vars => Swept'
<1> SUFFICES ASSUME Typed, Swept, [Next]_vars
             PROVE  Swept'
    OBVIOUS
<1>1. ASSUME NEW r \in Request, Answering(r)
      PROVE  Swept'
    BY <1>1 DEF Answering, Lookup, Retrieve, Generate, CacheAnswer, Swept
<1>2. CASE Sweep \/ SweepFails
    BY <1>2 DEF Sweep, SweepFails, Swept
<1>3. ASSUME NEW q \in Question, Lapse(q) \/ SweepKey(q)
      PROVE  Swept'
    BY <1>3 DEF Lapse, SweepKey, Drops, Swept
<1>4. CASE UNCHANGED answers
    BY <1>4 DEF answers, Swept
<1>5. ASSUME NEW i \in Indexing, Begin(i) \/ IndexBatch(i)
      PROVE  UNCHANGED answers
    BY <1>5 DEF Begin, IndexBatch
<1>6. ASSUME NEW d \in Doc, DeleteDocument(d)
      PROVE  UNCHANGED answers
    BY <1>6 DEF DeleteDocument
<1>7. ASSUME NEW w \in Write,
             UpdateIndexingStatus(w) \/ DeprecateDocument(w) \/ ReadRetrievals(w) \/ RecordRetrieval(w)
      PROVE  UNCHANGED answers
    BY <1>7 DEF UpdateIndexingStatus, DeprecateDocument, ReadRetrievals, RecordRetrieval
<1> QED
    BY <1>1, <1>2, <1>3, <1>4, <1>5, <1>6, <1>7 DEF Next, vars

\* A sweep that came to its end left no answer that was cached when it began,
\* whatever requests, lapses and failures came between its pages.
\* (redis_cache.py:998-1029)
THEOREM SweepsLeaveNothing == Spec => []SweepsAreThorough
<1>1. Spec => [](Typed /\ Swept)
    BY TypeInit, TypeStep, SweptInit, SweptStep, PTL DEF Spec
<1>2. Swept => SweepsAreThorough
    BY DEF Swept, SweepsAreThorough
<1> QED
    BY <1>1, <1>2, PTL

-----------------------------------------------------------------------------
(* The row of a document. *)

\* A deprecated document is not public, whatever becomes of its status, and
\* nobody has read more retrievals than were recorded.
RowSound ==
    /\ retired => ~row.public
    /\ row.times <= recorded /\ (recorded > 0 => row.times > 0)
    /\ \A w \in Write : step[w] = "write" => seen[w] <= recorded

LEMMA RowInit == Init => RowSound
BY DEF Init, NewDocument, RowSound

LEMMA RowStep == Typed /\ RowSound /\ [Next]_vars => RowSound'
<1> SUFFICES ASSUME Typed, RowSound, [Next]_vars
             PROVE  RowSound'
    OBVIOUS
<1> USE DEF Typed, TypeOK, Row
<1>1. ASSUME NEW w \in Write, UpdateIndexingStatus(w) \/ DeprecateDocument(w)
      PROVE  RowSound'
    <2>1. /\ row'.times = row.times /\ recorded' = recorded /\ seen' = seen
          /\ retired' => ~row'.public
        <3>1. CASE DeprecateDocument(w)
            BY <3>1 DEF DeprecateDocument, Done
        <3>2. CASE UpdateIndexingStatus(w)
            <4>1. PICK status : row' = [row EXCEPT !.status = status]
                BY <3>2 DEF UpdateIndexingStatus
            <4> QED
                BY <3>2, <4>1 DEF UpdateIndexingStatus, Done, RowSound
        <3> QED
            BY <1>1, <3>1, <3>2
    <2>2. \A v \in Write : step'[v] = "write" => step[v] = "write"
        BY <1>1 DEF UpdateIndexingStatus, DeprecateDocument, Done
    <2> QED
        BY <2>1, <2>2 DEF RowSound
<1>2. ASSUME NEW w \in Write, ReadRetrievals(w)
      PROVE  RowSound'
    BY <1>2 DEF ReadRetrievals, RowSound
<1>3. ASSUME NEW w \in Write, RecordRetrieval(w)
      PROVE  RowSound'
    BY <1>3 DEF RecordRetrieval, Done, RowSound
<1>4. CASE UNCHANGED rows
    BY <1>4 DEF rows, RowSound
<1>5. ASSUME NEW i \in Indexing, Begin(i) \/ IndexBatch(i)
      PROVE  UNCHANGED rows
    BY <1>5 DEF Begin, IndexBatch
<1>6. ASSUME NEW d \in Doc, DeleteDocument(d)
      PROVE  UNCHANGED rows
    BY <1>6 DEF DeleteDocument
<1>7. ASSUME NEW r \in Request, Answering(r)
      PROVE  UNCHANGED rows
    BY <1>7 DEF Answering, Lookup, Retrieve, Generate, CacheAnswer
<1>8. Sweep \/ SweepFails => UNCHANGED rows
    BY DEF Sweep, SweepFails
<1>9. ASSUME NEW q \in Question, Lapse(q) \/ SweepKey(q)
      PROVE  UNCHANGED rows
    BY <1>9 DEF Lapse, SweepKey
<1> QED
    BY <1>1, <1>2, <1>3, <1>4, <1>5, <1>6, <1>7, <1>8, <1>9 DEF Next, vars

\* A document that has been deprecated is not offered again, even when an
\* indexing run that was under way reports its end afterwards.
\* (knowledge_repository.py:117-130, 242-255)
THEOREM DeprecationHolds == Spec => []DeprecatedStaysHidden
<1>1. Spec => [](Typed /\ RowSound)
    BY TypeInit, TypeStep, RowInit, RowStep, PTL DEF Spec
<1>2. RowSound => DeprecatedStaysHidden
    BY DEF RowSound, DeprecatedStaysHidden
<1> QED
    BY <1>1, <1>2, PTL

\* However many retrievals are recorded at once, the count never exceeds them,
\* and does not stay at nothing.  (knowledge_repository.py:199-229)
THEOREM RetrievalsAreBounded == Spec => []RetrievalsAreNotInvented
<1>1. Spec => [](Typed /\ RowSound)
    BY TypeInit, TypeStep, RowInit, RowStep, PTL DEF Spec
<1>2. RowSound => RetrievalsAreNotInvented
    BY DEF RowSound, RetrievalsAreNotInvented
<1> QED
    BY <1>1, <1>2, PTL

-----------------------------------------------------------------------------
\* Numbers and sequences, for TextPipeline.

\* A set of naturals has a least element.  From it follow the schemes that the
\* proofs below need, stated for sets where the library states them for operators.
LEMMA LeastBy ==
  ASSUME NEW R, IsWellFoundedOn(R, Nat), \A x, y \in Nat : <<y, x>> \in R <=> y < x,
         NEW T \in SUBSET Nat, T # {}
  PROVE \E x \in T : \A y \in T : x <= y
<1>1. PICK x \in T : \A y \in T : ~ (<<y, x>> \in R)
  BY WFMin
<1>2. ASSUME NEW y \in T PROVE x <= y
  <2>1. x \in Nat /\ y \in Nat OBVIOUS
  <2>2. ~ (<<y, x>> \in R) BY <1>1
  <2>3. ~ (y < x) BY <2>1, <2>2, Zenon
  <2>. QED BY <2>1, <2>3
<1>3. QED BY <1>2

LEMMA LeastNat ==
  ASSUME NEW T \in SUBSET Nat, T # {}
  PROVE \E x \in T : \A y \in T : x <= y
<1>. DEFINE R == OpToRel(<, Nat)
<1>1. \A x, y \in Nat : <<y, x>> \in R <=> y < x
  BY DEF OpToRel
<1>2. IsWellFoundedOn(R, Nat)
  BY NatLessThanWellFounded
<1>. HIDE DEF R
<1>. QED BY <1>1, <1>2, LeastBy

\* Induction: a set that has zero and all successors of its members has every natural.
LEMMA NatInd ==
  ASSUME NEW S \in SUBSET Nat, 0 \in S, \A n \in S : n + 1 \in S
  PROVE S = Nat
<1>. SUFFICES ASSUME S # Nat PROVE FALSE OBVIOUS
<1>1. PICK x \in Nat \ S : \A y \in Nat \ S : x <= y BY LeastNat
<1>2. x # 0 /\ x - 1 \in Nat OBVIOUS
<1>3. x - 1 \in S BY <1>1, <1>2
<1>. QED BY <1>1, <1>2, <1>3

\* The functions that iterate turn from base on.  (SMT finds one in a set, and none
\* behind a quantifier.)
Iterates(n, A, base, turn) ==
    {g \in [0..n -> A] : g[0] = base /\ \A i \in 1..n : g[i] = turn[<<g[i - 1], i>>]}

\* A function can be defined by recursion on 0..n.
LEMMA Recursion ==
  ASSUME NEW n \in Nat, NEW A, NEW base \in A, NEW turn \in [A \X Nat -> A]
  PROVE  Iterates(n, A, base, turn) # {}
<1>. DEFINE Good(k, g) == g[0] = base /\ \A i \in 1..k : g[i] = turn[<<g[i - 1], i>>]
            K == {k \in Nat : \E g \in [0..k -> A] : Good(k, g)}
<1>1. 0 \in K
  <2>1. [i \in 0..0 |-> base] \in [0..0 -> A] /\ Good(0, [i \in 0..0 |-> base])
    OBVIOUS
  <2>. QED BY <2>1
<1>2. ASSUME NEW k \in K PROVE k + 1 \in K
  <2>0. k \in Nat OBVIOUS
  <2>1. PICK g \in [0..k -> A] : Good(k, g) OBVIOUS
  <2>. DEFINE h == [i \in 0..k + 1 |-> IF i = k + 1 THEN turn[<<g[k], k + 1>>] ELSE g[i]]
  <2>2. g[k] \in A /\ k + 1 \in Nat OBVIOUS
  <2>3. h \in [0..k + 1 -> A] BY <2>2
  <2>4. h[0] = base BY <2>1
  <2>5. ASSUME NEW i \in 1..k + 1 PROVE h[i] = turn[<<h[i - 1], i>>]
    <3>1. CASE i = k + 1
      <4>1. h[k + 1] = turn[<<g[k], k + 1>>] /\ h[k] = g[k] /\ (k + 1) - 1 = k BY <2>0
      <4>. QED BY <3>1, <4>1
    <3>2. CASE i # k + 1
      <4>1. i \in 1..k /\ i - 1 \in 0..k /\ i - 1 # k + 1 BY <3>2
      <4>2. h[i] = g[i] /\ h[i - 1] = g[i - 1] BY <4>1
      <4>. QED BY <2>1, <4>1, <4>2
    <3>. QED BY <3>1, <3>2
  <2>6. k + 1 \in Nat /\ Good(k + 1, h)
    <3>. HIDE DEF h
    <3>. QED BY <2>0, <2>4, <2>5
  <2>. HIDE DEF Good, h
  <2>. QED BY <2>3, <2>6
<1>3. K = Nat
  <2>. HIDE DEF K
  <2>1. K \in SUBSET Nat BY DEF K
  <2>. QED BY <1>1, <1>2, <2>1, NatInd
<1>4. \E g \in [0..n -> A] : Good(n, g) BY <1>3
<1>. QED BY <1>4 DEF Iterates

\* FlattenSeq is the end of any chain that appends one sequence after the other.
LEMMA FlattenIs ==
  ASSUME NEW S, NEW seqs \in Seq(Seq(S)), NEW f \in [0..Len(seqs) -> Seq(S)], f[0] = <<>>,
         \A i \in 1..Len(seqs) : f[i] = f[i - 1] \o seqs[i]
  PROVE  FlattenSeq(seqs) = f[Len(seqs)]
<1>. DEFINE n == Len(seqs)
            Solves(g) == g = [i \in 1..n |-> IF i = 1 THEN seqs[i] ELSE g[i - 1] \o seqs[i]]
            h == [i \in 1..n |-> f[i]]
<1>0. /\ n \in Nat
      /\ \A i \in 1..n : f[i] = f[i - 1] \o seqs[i] /\ seqs[i] \in Seq(S)
      /\ 1 \in 1..n => f[1] = seqs[1]
  <2>1. n \in Nat OBVIOUS
  <2>a. \A i \in 1..n : seqs[i] \in Seq(S)
    OBVIOUS
  <2>2. \A i \in 1..n : f[i] = f[i - 1] \o seqs[i] /\ seqs[i] \in Seq(S)
    BY <2>a, Zenon
  <2>3. ASSUME 1 \in 1..n PROVE f[1] = seqs[1]
    <3>1. 1 - 1 = 0 OBVIOUS
    <3>2. f[1] = f[1 - 1] \o seqs[1] /\ seqs[1] \in Seq(S) BY <2>2, <2>3, Zenon
    <3>3. f[1] = <<>> \o seqs[1] BY <3>1, <3>2
    <3>. QED BY <3>2, <3>3
  <2>. QED BY <2>1, <2>2, <2>3
<1>1. CASE n = 0
  BY <1>1 DEF FlattenSeq
<1>2. CASE n # 0
  <2>1. Solves(h)
    <3>1. ASSUME NEW i \in 1..n PROVE h[i] = IF i = 1 THEN seqs[i] ELSE h[i - 1] \o seqs[i]
      <4>1. CASE i = 1
        BY <1>0, <4>1
      <4>2. CASE i # 1
        <5>1. i - 1 \in 1..n /\ h[i] = f[i] /\ h[i - 1] = f[i - 1] BY <4>2
        <5>. QED BY <4>2, <5>1
      <4>. QED BY <4>1, <4>2
    <3>. QED BY <3>1
  <2>. DEFINE g == CHOOSE x : Solves(x)
  <2>2. g = [i \in 1..n |-> IF i = 1 THEN seqs[i] ELSE g[i - 1] \o seqs[i]]
    <3>1. Solves(g)
      <4>. HIDE DEF Solves, h
      <4>. QED BY <2>1
    <3>. QED BY <3>1
  <2>3. FlattenSeq(seqs) = g[n]
    BY <1>2 DEF FlattenSeq
  <2>. HIDE DEF g, Solves, n
  <2>. DEFINE K == {k \in Nat : k \in 1..n => g[k] = f[k]}
  <2>4. 0 \in K OBVIOUS
  <2>5. ASSUME NEW k \in K PROVE k + 1 \in K
    <3>1. CASE k + 1 \in 1..n /\ k = 0
      <4>1. g[1] = seqs[1] BY <2>2, <3>1
      <4>2. 1 \in 1..n /\ k + 1 = 1 BY <3>1
      <4>. QED BY <1>0, <4>1, <4>2
    <3>2. CASE k + 1 \in 1..n /\ k # 0
      <4>1. k \in 1..n /\ (k + 1) - 1 = k BY <1>0, <3>2
      <4>2. g[k] = f[k] BY <4>1
      <4>3. \A i \in 1..n : i # 1 => g[i] = g[i - 1] \o seqs[i] BY <2>2
      <4>0. k + 1 \in 1..n /\ k + 1 # 1 BY <3>2, <4>1
      <4>4. g[k + 1] = g[k] \o seqs[k + 1] BY <4>0, <4>1, <4>3
      <4>5. f[k + 1] = f[k] \o seqs[k + 1] BY <1>0, <4>0, <4>1
      <4>6. g[k + 1] = f[k + 1] BY <4>2, <4>4, <4>5, Zenon
      <4>. QED BY <3>2, <4>6
    <3>. QED BY <3>1, <3>2
  <2>6. K = Nat
    <3>. HIDE DEF K
    <3>1. K \in SUBSET Nat BY DEF K
    <3>. QED BY <2>4, <2>5, <3>1, NatInd
  <2>7. n \in Nat /\ n \in 1..n BY <1>2
  <2>8. g[n] = f[n] BY <2>6, <2>7
  <2>. QED BY <2>3, <2>8 DEF n
<1>. QED BY <1>1, <1>2

\* There is such a chain,
LEMMA FlattenExists ==
  ASSUME NEW S, NEW seqs \in Seq(Seq(S))
  PROVE  \E f \in [0..Len(seqs) -> Seq(S)] :
            f[0] = <<>> /\ \A i \in 1..Len(seqs) : f[i] = f[i - 1] \o seqs[i]
<1>. DEFINE n == Len(seqs)
            A == Seq(S)
            base == <<>>
            turn == [x \in A \X Nat |-> IF x[2] \in 1..n THEN x[1] \o seqs[x[2]] ELSE x[1]]
<1>1. turn \in [A \X Nat -> A]
  <2>1. ASSUME NEW x \in Seq(S) \X Nat
        PROVE  (IF x[2] \in 1..n THEN x[1] \o seqs[x[2]] ELSE x[1]) \in Seq(S)
    <3>1. x[1] \in Seq(S) OBVIOUS
    <3>2. ASSUME x[2] \in 1..n PROVE seqs[x[2]] \in Seq(S) BY <3>2
    <3>. QED BY <3>1, <3>2
  <2>. QED BY <2>1
<1>2. n \in Nat /\ base \in A OBVIOUS
<1>3. PICK f \in [0..n -> A] : f[0] = base /\ \A i \in 1..n : f[i] = turn[<<f[i - 1], i>>]
  <2>. HIDE DEF turn, n, A, base
  <2>1. Iterates(n, A, base, turn) # {} BY <1>1, <1>2, Recursion
  <2>. QED BY <2>1 DEF Iterates
<1>4. ASSUME NEW i \in 1..n PROVE f[i] = f[i - 1] \o seqs[i]
  <2>1. f[i - 1] \in Seq(S) /\ i \in Nat OBVIOUS
  <2>2. turn[<<f[i - 1], i>>] = f[i - 1] \o seqs[i] BY <2>1
  <2>. QED BY <1>3, <2>2
<1>. QED BY <1>3, <1>4

\* so that what is appended to a sequence of sequences comes last when it is flattened.
LEMMA FlattenAppend ==
  ASSUME NEW S, NEW seqs \in Seq(Seq(S)), NEW e \in Seq(S)
  PROVE  /\ FlattenSeq(seqs) \in Seq(S)
         /\ FlattenSeq(Append(seqs, e)) = FlattenSeq(seqs) \o e
<1>. DEFINE n == Len(seqs)
            more == Append(seqs, e)
<1>1. PICK f \in [0..n -> Seq(S)] : f[0] = <<>> /\ \A i \in 1..n : f[i] = f[i - 1] \o seqs[i]
  BY FlattenExists
<1>2. FlattenSeq(seqs) = f[n] /\ f[n] \in Seq(S)
  BY <1>1, FlattenIs
<1>. DEFINE h == [i \in 0..n + 1 |-> IF i = n + 1 THEN f[n] \o e ELSE f[i]]
<1>3. more \in Seq(Seq(S)) /\ Len(more) = n + 1 /\ more[n + 1] = e /\ \A i \in 1..n : more[i] = seqs[i]
  OBVIOUS
<1>4. h \in [0..Len(more) -> Seq(S)]
  BY <1>2, <1>3
<1>5. h[0] = <<>> BY <1>1, <1>3
<1>6. ASSUME NEW i \in 1..Len(more) PROVE h[i] = h[i - 1] \o more[i]
  <2>0. n \in Nat OBVIOUS
  <2>1. CASE i = n + 1
    <3>1. h[n + 1] = f[n] \o e /\ h[n] = f[n] /\ (n + 1) - 1 = n BY <2>0
    <3>. QED BY <1>3, <2>1, <3>1
  <2>2. CASE i # n + 1
    <3>0. Len(more) = n + 1 /\ i \in 1..n + 1 BY <1>3
    <3>1. i \in 1..n /\ i - 1 \in 0..n /\ i # n + 1 /\ i - 1 # n + 1
      <4>. HIDE DEF more, n, h
      <4>. QED BY <2>0, <2>2, <3>0
    <3>2. h[i] = f[i] /\ h[i - 1] = f[i - 1] BY <2>0, <3>1
    <3>3. f[i] = f[i - 1] \o seqs[i] /\ more[i] = seqs[i] BY <1>1, <1>3, <3>1
    <3>. QED BY <3>2, <3>3
  <2>. QED BY <2>1, <2>2
<1>7. FlattenSeq(more) = h[Len(more)]
  <2>. HIDE DEF h, more
  <2>. QED BY <1>3, <1>4, <1>5, <1>6, FlattenIs
<1>. QED BY <1>2, <1>3, <1>7

\* A set that has a bound has a greatest element.
LEMMA Greatest ==
  ASSUME NEW n \in Nat, NEW T \in SUBSET (0..n), T # {}
  PROVE  \E x \in T : \A y \in T : y <= x
<1>. DEFINE U == {k \in Nat : n - k \in T}
<1>1. U \in SUBSET Nat /\ U # {}
  <2>1. PICK y \in T : TRUE OBVIOUS
  <2>2. y \in 0..n OBVIOUS
  <2>3. n - y \in Nat /\ n - (n - y) = y BY <2>2
  <2>. QED BY <2>1, <2>3
<1>2. PICK k \in U : \A j \in U : k <= j
  <2>. HIDE DEF U
  <2>. QED BY <1>1, LeastNat
<1>3. ASSUME NEW y \in T PROVE y <= n - k
  <2>1. y \in 0..n /\ k \in Nat OBVIOUS
  <2>2. n - y \in Nat /\ n - (n - y) = y BY <2>1
  <2>3. n - y \in U BY <2>2
  <2>4. k <= n - y BY <1>2, <2>3
  <2>. QED BY <2>1, <2>2, <2>4
<1>. QED BY <1>3

-----------------------------------------------------------------------------
\* TextPipeline: messages.

\* The escaped message is at most six times as long as the one that was typed.
LEMMA EscapeGrows ==
  ASSUME NEW m \in Text
  PROVE  /\ Escape(Sanitize(m)) \in Text
         /\ Padded(Escape(Sanitize(m))) <= 6 * Padded(m)
         /\ Length(m) <= Padded(m) /\ Length(m) \in Nat /\ Padded(m) \in Nat
<1>. DEFINE e == Escape(Sanitize(m))
<1>1. /\ m.plain \in Nat /\ m.quote \in Nat /\ m.amp \in Nat /\ m.pad \in Nat /\ m.control \in Nat
      /\ m.about \in About /\ m.words \in Seq(Word) \ {<<>>}
  BY DEF Text
<1>2. e.quote = 0 /\ e.pad = 0 /\ e.control = 0 /\ e.amp = m.amp + m.quote
  BY DEF Text, Escape, Sanitize
<1>3. e.plain = m.plain + 5 * m.quote + 4 * m.amp
  BY DEF Text, Escape, Sanitize
<1>4. e \in Text
  <2>. DEFINE p == m.plain + 5 * m.quote + 4 * m.amp
              a == m.amp + m.quote
  <2>1. p \in Nat /\ a \in Nat
    <3>. DEFINE u == m.plain  v == m.quote  w == m.amp
    <3>1. u \in Nat /\ v \in Nat /\ w \in Nat BY <1>1
    <3>. HIDE DEF u, v, w
    <3>2. u + 5 * v + 4 * w \in Nat /\ w + v \in Nat BY <3>1
    <3>. QED BY <3>2 DEF u, v, w
  <2>2. e = [Sanitize(m) EXCEPT !.plain = p, !.quote = 0, !.amp = a]
    BY DEF Escape, Sanitize, Text
  <2>3. Sanitize(m) \in Text BY DEF Text, Sanitize
  <2>. HIDE DEF p, a, e
  <2>. QED BY <2>1, <2>2, <2>3 DEF Text
<1>5. Padded(e) <= 6 * Padded(m) /\ Length(m) <= Padded(m) /\ Length(m) \in Nat /\ Padded(m) \in Nat
  <2>. HIDE DEF e
  <2>. DEFINE u == m.plain  v == m.quote  w == m.amp  x == m.pad  y == m.control
  <2>1. Padded(e) = u + 5 * v + 4 * w + 0 + (w + v) + 0 + 0
    BY <1>2, <1>3 DEF Padded, Length
  <2>2. Padded(m) = u + v + w + y + x /\ Length(m) = u + v + w + y
    BY DEF Padded, Length
  <2>3. u \in Nat /\ v \in Nat /\ w \in Nat /\ x \in Nat /\ y \in Nat BY <1>1
  <2>. HIDE DEF u, v, w, x, y
  <2>. QED BY <2>1, <2>2, <2>3
<1>. QED BY <1>4, <1>5

\* Both validations measure the message that they are given.
LEMMA RefusedForLength ==
  ASSUME NEW m \in Text
  PROVE  /\ RequestRefuses(m) = "length" => Padded(m) > MaxMessage
         /\ ServiceRefuses(m) = "length" => Padded(m) > MaxMessage
<1>1. Length(m) \in Nat /\ Padded(m) \in Nat /\ Length(m) <= Padded(m) /\ MaxMessage \in Nat
  BY EscapeGrows, SizeAssumption
<1>2. RequestRefuses(m) = "length" => Length(m) > MaxMessage
  BY DEF RequestRefuses
<1>3. ServiceRefuses(m) = "length" => Padded(m) > MaxMessage
  BY DEF ServiceRefuses
<1>. QED BY <1>1, <1>2, <1>3

-----------------------------------------------------------------------------
\* TextPipeline: replies.

\* Concatenation, for SMT: the same with the ending behind.
LEMMA Concat ==
  ASSUME NEW s \in Seq(Mark), NEW t \in Seq(Mark)
  PROVE  /\ s \o t \in Seq(Mark)
         /\ Len(s) \in Nat /\ Len(t) \in Nat
         /\ Len(s \o t) = Len(s) + Len(t)
         /\ \A i \in 1..Len(s) : (s \o t)[i] = s[i]
         /\ \A i \in 1..Len(t) : (s \o t)[Len(s) + i] = t[i]
<1>1. ASSUME NEW i \in 1..Len(t) PROVE (s \o t)[Len(s) + i] = t[i]
  OBVIOUS
<1>. QED BY <1>1

\* What the literals are.
LEMMA EndingIs == /\ Slogan \in Seq(Mark) /\ Len(Slogan) = 4
                  /\ Slogan[1] = "ask" /\ Slogan[2] = "period" /\ Slogan[3] = "one" /\ Slogan[4] = "period"
                  /\ Ending \in Seq(Mark) /\ Len(Ending) = 5
                  /\ Ending[1] = "gap" /\ \A i \in 1..4 : Ending[i + 1] = Slogan[i]
<1>1. /\ Slogan \in Seq(Mark) /\ Len(Slogan) = 4
      /\ Slogan[1] = "ask" /\ Slogan[2] = "period" /\ Slogan[3] = "one" /\ Slogan[4] = "period"
  BY DEF Slogan, Mark
<1>2. <<"gap">> \in Seq(Mark) /\ Len(<<"gap">>) = 1 /\ <<"gap">>[1] = "gap"
  BY DEF Mark
<1>3. Ending = <<"gap">> \o Slogan
  BY DEF Ending
<1>. DEFINE g == <<"gap">>
            t == Slogan
<1>4. g \in Seq(Mark) /\ Len(g) = 1 /\ g[1] = "gap" /\ t \in Seq(Mark) /\ Len(t) = 4
  BY <1>1, <1>2
<1>. HIDE DEF g, t
<1>5. /\ g \o t \in Seq(Mark) /\ Len(g \o t) = 5
      /\ (g \o t)[1] = "gap" /\ \A i \in 1..4 : (g \o t)[i + 1] = t[i]
  <2>1. /\ g \o t \in Seq(Mark)
        /\ Len(g \o t) = Len(g) + Len(t)
        /\ \A i \in 1..Len(g) : (g \o t)[i] = g[i]
        /\ \A i \in 1..Len(t) : (g \o t)[Len(g) + i] = t[i]
    BY <1>4, Concat, Zenon
  <2>2. /\ Len(g \o t) = 1 + 4
        /\ \A i \in 1..1 : (g \o t)[i] = g[i]
        /\ \A i \in 1..4 : (g \o t)[1 + i] = t[i]
    BY <1>4, <2>1, Zenon
  <2>3. ASSUME NEW i \in 1..4 PROVE (g \o t)[i + 1] = t[i]
    <3>1. 1 + i = i + 1
      OBVIOUS
    <3>. QED
      BY <2>2, <3>1
  <2>4. (g \o t)[1] = "gap"
    BY <1>4, <2>2
  <2>. QED
    BY <2>1, <2>2, <2>3, <2>4
<1>6. Ending = g \o t
  BY <1>3 DEF g, t
<1>. QED BY <1>1, <1>5, <1>6 DEF t

LEMMA EndingType == Ending \in Seq(Mark) /\ Len(Ending) = 5
BY EndingIs

LEMMA Ended ==
  ASSUME NEW s \in Seq(Mark)
  PROVE  /\ s \o Ending \in Seq(Mark) /\ Len(s) \in Nat
         /\ Len(s \o Ending) = Len(s) + 5
         /\ \A i \in 1..Len(s) : (s \o Ending)[i] = s[i]
         /\ \A i \in 1..5 : (s \o Ending)[Len(s) + i] = Ending[i]
<1>. DEFINE t == Ending
<1>1. t \in Seq(Mark) /\ Len(t) = 5 BY EndingType
<1>. HIDE DEF t
<1>2. /\ s \o t \in Seq(Mark)
      /\ Len(s) \in Nat
      /\ Len(s \o t) = Len(s) + Len(t)
      /\ \A i \in 1..Len(s) : (s \o t)[i] = s[i]
      /\ \A i \in 1..Len(t) : (s \o t)[Len(s) + i] = t[i]
  BY <1>1, Concat, Zenon
<1>3. Len(s \o t) = Len(s) + 5 /\ \A i \in 1..5 : (s \o t)[Len(s) + i] = t[i]
  BY <1>1, <1>2, Zenon
<1>. QED BY <1>2, <1>3, Zenon DEF t

LEMMA FallbackIs == /\ Fallback = Unsigned \o Ending
                    /\ Len(Fallback) = 7 /\ Len(Unsigned) = 2
                    /\ Unsigned \in Seq(Mark) /\ Fallback \in Seq(Mark)
                    /\ ~IsForbidden(Fallback) /\ ~IsForbidden(Unsigned)
                    /\ Fallback # <<>> /\ Unsigned # <<>>
<1>1. /\ Unsigned \in Seq(Mark) /\ Len(Unsigned) = 2
      /\ Unsigned[1] = "word" /\ Unsigned[2] = "period"
  BY DEF Unsigned, Mark
<1>2. Fallback = Unsigned \o Ending
  BY DEF Unsigned, Fallback
<1>3. /\ Fallback \in Seq(Mark) /\ Len(Fallback) = 7
      /\ \A i \in 1..2 : Fallback[i] = Unsigned[i]
      /\ \A i \in 1..5 : Fallback[2 + i] = Ending[i]
  <2>. DEFINE u == Unsigned
  <2>1. u \in Seq(Mark) /\ Len(u) = 2 BY <1>1
  <2>. HIDE DEF u
  <2>2. /\ u \o Ending \in Seq(Mark)
        /\ Len(u \o Ending) = Len(u) + 5
        /\ \A i \in 1..Len(u) : (u \o Ending)[i] = u[i]
        /\ \A i \in 1..5 : (u \o Ending)[Len(u) + i] = Ending[i]
    BY <2>1, Ended, Zenon
  <2>3. Fallback = u \o Ending BY <1>2 DEF u
  <2>4. /\ Fallback \in Seq(Mark)
        /\ Len(Fallback) = 2 + 5
        /\ \A i \in 1..2 : Fallback[i] = u[i]
        /\ \A i \in 1..5 : Fallback[2 + i] = Ending[i]
    BY <2>1, <2>2, <2>3, Zenon
  <2>. QED BY <2>4 DEF u
<1>4. ASSUME NEW i \in 1..7 PROVE Fallback[i] # "bad"
  <2>1. CASE i \in 1..2
    BY <1>1, <1>3, <2>1
  <2>2. CASE i \in 3..7
    <3>0. i - 2 \in 1..5 /\ 2 + (i - 2) = i BY <2>2
    <3>1. Fallback[i] = Ending[i - 2] BY <1>3, <3>0
    <3>2. \A k \in 1..5 : Ending[k] # "bad"
      <4>1. \A k \in 1..5 : k = 1 \/ k = 1 + 1 \/ k = 2 + 1 \/ k = 3 + 1 \/ k = 4 + 1 OBVIOUS
      <4>. QED BY <4>1, EndingIs
    <3>. QED BY <3>0, <3>1, <3>2
  <2>. QED BY <2>1, <2>2
<1>5. ~IsForbidden(Unsigned)
  BY <1>1 DEF IsForbidden
<1>6. ~IsForbidden(Fallback)
  <2>1. DOMAIN Fallback = 1..7 BY <1>3
  <2>. QED BY <1>4, <2>1 DEF IsForbidden
<1>7. Fallback # <<>> /\ Unsigned # <<>>
  <2>1. Len(<<>>) = 0 OBVIOUS
  <2>2. Len(Fallback) # 0 /\ Len(Unsigned) # 0 BY <1>1, <1>3
  <2>. QED BY <2>1, <2>2, Zenon
<1>. QED BY <1>1, <1>2, <1>3, <1>5, <1>6, <1>7

\* What ends with the ending has the slogan.
LEMMA SloganAtEnd ==
  ASSUME NEW s \in Seq(Mark)
  PROVE  /\ s \o Ending \in Seq(Mark)
         /\ Len(s \o Ending) = Len(s) + 5
         /\ HasSlogan(s \o Ending)
<1>. DEFINE t == s \o Ending
            n == Len(s) + 2
<1>1. t \in Seq(Mark) /\ Len(t) = Len(s) + 5 /\ Len(s) \in Nat
  BY Ended
<1>2. \A i \in 1..5 : t[Len(s) + i] = Ending[i]
  BY Ended, Zenon
<1>3. t[n] = "ask" /\ t[n + 1] = "period" /\ t[n + 2] = "one" /\ t[n + 3] = "period"
  <2>1. /\ n = Len(s) + 2 /\ n + 1 = Len(s) + 3 /\ n + 2 = Len(s) + 4 /\ n + 3 = Len(s) + 5
    BY <1>1
  <2>2. t[Len(s) + 2] = Ending[1 + 1] /\ t[Len(s) + 3] = Ending[2 + 1] /\ t[Len(s) + 4] = Ending[3 + 1]
        /\ t[Len(s) + 5] = Ending[4 + 1]
    <3>. HIDE DEF t
    <3>. QED BY <1>2
  <2>. HIDE DEF t, n
  <2>. QED BY <2>1, <2>2, EndingIs
<1>. HIDE DEF t
<1>4. SubSeq(t, n, n + 3) = Slogan
  <2>1. SubSeq(t, n, n + 3) = [i \in 1..4 |-> t[n + i - 1]]
    BY <1>1
  <2>2. Slogan = [i \in 1..4 |-> t[n + i - 1]]
    <3>1. Slogan \in Seq(Mark) /\ DOMAIN Slogan = 1..4 BY EndingIs DEF Mark
    <3>2. ASSUME NEW i \in 1..4 PROVE Slogan[i] = t[n + i - 1]
      <4>1. i = 1 \/ i = 2 \/ i = 3 \/ i = 4 OBVIOUS
      <4>2. n \in Nat BY <1>1
      <4>. HIDE DEF n
      <4>3. n + 1 - 1 = n /\ n + 2 - 1 = n + 1 /\ n + 3 - 1 = n + 2 /\ n + 4 - 1 = n + 3 BY <4>2
      <4>. QED BY <1>3, <4>1, <4>3, EndingIs
    <3>. QED BY <3>1, <3>2
  <2>. QED BY <2>1, <2>2
<1>5. n \in 1..Len(t) - Len(Slogan) + 1 /\ n + Len(Slogan) - 1 = n + 3
  BY <1>1, EndingIs
<1>6. HasSlogan(t)
  BY <1>4, <1>5 DEF HasSlogan
<1>. QED BY <1>1, <1>6 DEF t

\* What strip and rfind can return.
LEMMA RStripType ==
  ASSUME NEW s \in Seq(Mark)
  PROVE  RStrip(s) \in Seq(Mark)
<1>. DEFINE Blank(n) == \A k \in n + 1..Len(s) : s[k] = "gap"
            T == {n \in 0..Len(s) : Blank(n)}
<1>1. Len(s) \in T /\ T \in SUBSET Nat
  OBVIOUS
<1>2. PICK n \in T : \A m \in T : n <= m
  BY <1>1, LeastNat
<1>3. n \in 0..Len(s) /\ Blank(n) OBVIOUS
<1>4. n = 0 \/ s[n] # "gap"
  <2>. SUFFICES ASSUME n # 0, s[n] = "gap" PROVE FALSE OBVIOUS
  <2>1. n - 1 \in 0..Len(s) /\ (n - 1) + 1 = n BY <1>3
  <2>2. Blank(n - 1) BY <1>3, <2>1
  <2>3. n - 1 \in T BY <2>1, <2>2
  <2>. QED BY <1>2, <1>3, <2>3
<1>5. \E k \in 0..Len(s) : RStrip(s) = SubSeq(s, 1, k)
  BY <1>3, <1>4 DEF RStrip
<1>. QED BY <1>5

LEMMA LastOfType ==
  ASSUME NEW s, NEW ends
  PROVE  LastOf(ends, s) \in -1..CutLength - 1
<1>. DEFINE those == {n \in 1..CutLength : s[n] \in ends}
<1>0. CutLength \in Nat
  BY RoomAssumption, SizeAssumption, EndingIs, FallbackIs DEF CutLength, Spare
<1>1. CASE those = {}
  BY <1>0, <1>1 DEF LastOf
<1>2. CASE those # {}
  <2>1. \E x \in those : \A y \in those : y <= x
    <3>1. those \in SUBSET (0..CutLength) BY <1>0
    <3>. HIDE DEF those
    <3>. QED BY <1>0, <1>2, <3>1, Greatest
  <2>. DEFINE g == CHOOSE n \in those : \A k \in those : k <= n
  <2>2. g \in those BY <2>1
  <2>3. LastOf(ends, s) = g - 1 BY <1>2 DEF LastOf
  <2>. QED BY <1>0, <2>2, <2>3
<1>. QED BY <1>1, <1>2

\* A reply that is cut is short enough, and has the slogan.
LEMMA CutAtIs ==
  ASSUME NEW s \in Seq(Mark), Len(s) > MaxReply, NEW n \in -1..CutLength - 1
  PROVE  /\ CutAt(s, n) \in Seq(Mark)
         /\ HasSlogan(CutAt(s, n))
         /\ Len(CutAt(s, n)) <= MaxReply
<1>. DEFINE x == IF Late(n) THEN n + 1 ELSE CutLength
<1>1. CutLength \in Nat /\ CutLength = MaxReply - 6 /\ MaxReply \in Nat
  BY RoomAssumption, SizeAssumption, EndingIs, FallbackIs DEF CutLength, Spare
<1>2. x \in 0..CutLength
  BY <1>1
<1>3. x \in 0..Len(s)
  BY <1>1, <1>2
<1>4. CutAt(s, n) = SubSeq(s, 1, x) \o Ending
  BY DEF CutAt
<1>. HIDE DEF x
<1>5. SubSeq(s, 1, x) \in Seq(Mark) /\ Len(SubSeq(s, 1, x)) = x
  BY <1>3
<1>6. Len(CutAt(s, n)) = x + 5 /\ CutAt(s, n) \in Seq(Mark) /\ HasSlogan(CutAt(s, n))
  BY <1>4, <1>5, SloganAtEnd
<1>7. x + 5 <= MaxReply BY <1>1, <1>2
<1>. QED BY <1>6, <1>7

\* What validate_response returns has the slogan and no forbidden term.
LEMMA ValidatedIsFit ==
  ASSUME NEW s \in Seq(Mark), NEW c \in Channel
  PROVE  /\ ValidateResponse(s, c) \in Seq(Mark)
         /\ HasSlogan(ValidateResponse(s, c))
         /\ ~IsForbidden(ValidateResponse(s, c))
<1>. DEFINE with == WithSlogan(s)
            final == OnChannel(with, c)
<1>1. with \in Seq(Mark) /\ HasSlogan(with)
  BY SloganAtEnd, RStripType DEF WithSlogan
<1>2. final \in Seq(Mark) /\ HasSlogan(final)
  <2>1. CASE c = "whatsapp" /\ Len(with) > MaxReply
    <3>. HIDE DEF with
    <3>. QED BY <1>1, <2>1, LastOfType, CutAtIs DEF OnChannel, Truncate
  <2>2. CASE ~(c = "whatsapp" /\ Len(with) > MaxReply)
    BY <1>1, <2>2 DEF OnChannel
  <2>. QED BY <2>1, <2>2
<1>3. Fallback \in Seq(Mark) /\ HasSlogan(Fallback) /\ ~IsForbidden(Fallback)
  BY FallbackIs, SloganAtEnd
<1>. HIDE DEF with, final
<1>. QED BY <1>2, <1>3 DEF ValidateResponse, with, final

\* normalize_user_input leaves the words but for "thx", or asks a full question.
LEMMA NormalizedWords ==
  ASSUME NEW words \in Seq(Word), words # <<>>
  PROVE  /\ 1 \in DOMAIN words
         /\ \/ Normalize(words) = FullQuestion
            \/ /\ DOMAIN Normalize(words) = DOMAIN words
               /\ \A n \in DOMAIN words : Normalize(words)[n] = "thanks" \/ Normalize(words)[n] = words[n]
<1>1. 1 \in DOMAIN words OBVIOUS
<1>. DEFINE few == Len(words) <= 3 /\ (\E n \in DOMAIN words : words[n] \in QuestionTopic)
            spelled == [n \in DOMAIN words |-> SpelledOut(words[n])]
<1>2. CASE few
  BY <1>1, <1>2 DEF Normalize
<1>3. CASE ~few
  <2>1. Normalize(words) = spelled BY <1>3 DEF Normalize
  <2>2. DOMAIN spelled = DOMAIN words OBVIOUS
  <2>3. ASSUME NEW n \in DOMAIN words PROVE spelled[n] = IF words[n] = "thx" THEN "thanks" ELSE words[n]
    BY DEF SpelledOut
  <2>. HIDE DEF spelled
  <2>. QED BY <1>1, <2>1, <2>2, <2>3
<1>. QED BY <1>2, <1>3

\* The intent "status" comes from one of its words.
LEMMA StatusIsSaid ==
  ASSUME NEW words, DetectIntent(words) = "status"
  PROVE  \E n \in DOMAIN words : words[n] \in {"status", "health"}
<1>. DEFINE said == {k \in DOMAIN Intents : Says(words, Intents[k])}
<1>1. said # {} /\ Intents[Min(said)] = "status"
  BY DEF DetectIntent
<1>2. Min(said) \in said
  <2>1. said \in SUBSET Nat BY DEF Intents
  <2>2. PICK x \in said : \A y \in said : x <= y
    <3>. HIDE DEF said
    <3>. QED BY <1>1, <2>1, LeastNat
  <2>. HIDE DEF said
  <2>. QED BY <2>2 DEF Min
<1>3. Says(words, "status")
  <2>. HIDE DEF said
  <2>1. Says(words, Intents[Min(said)]) BY <1>2 DEF said
  <2>. QED BY <1>1, <2>1
<1>. QED BY <1>3 DEF Says

\* A ready-made answer has the slogan, or was asked for by one of the words of Curt.
LEMMA ReadyMadeIsFit ==
  ASSUME NEW said \in Seq(Word), said # <<>>,
         NEW a, a = IntentResponse(DetectIntent(Normalize(said))) \/ a = KeywordAnswer(Normalize(said)),
         a # <<>>
  PROVE  a \in Seq(Mark) /\ ~IsForbidden(a) /\ (HasSlogan(a) \/ Curt(said))
<1>. DEFINE words == Normalize(said)
<1>1. a = Fallback \/ a = Unsigned
  BY FallbackIs DEF IntentResponse, KeywordAnswer
<1>2. Fallback \in Seq(Mark) /\ ~IsForbidden(Fallback) /\ HasSlogan(Fallback)
      /\ Unsigned \in Seq(Mark) /\ ~IsForbidden(Unsigned) /\ Fallback # Unsigned
  <2>1. HasSlogan(Fallback) BY FallbackIs, SloganAtEnd
  <2>2. Len(Fallback) = Len(Unsigned) + 5 /\ Len(Unsigned) \in Nat
    BY FallbackIs, Ended
  <2>. QED BY <2>1, <2>2, FallbackIs
<1>3. CASE a = Unsigned /\ a = IntentResponse(DetectIntent(words))
  <2>1. DetectIntent(words) = "status"
    <3>. HIDE DEF words
    <3>. QED BY <1>2, <1>3, FallbackIs DEF IntentResponse
  <2>2. PICK n \in DOMAIN words : words[n] \in {"status", "health"}
    <3>. HIDE DEF words
    <3>. QED BY <2>1, StatusIsSaid
  <2>3. words # FullQuestion
    BY <2>2 DEF FullQuestion
  <2>. HIDE DEF words
  <2>4. n \in DOMAIN said /\ said[n] \in {"status", "health"}
    BY <2>2, <2>3, NormalizedWords DEF words
  <2>. QED BY <1>2, <1>3, <2>4 DEF Curt
<1>4. CASE a = KeywordAnswer(words)
  <2>1. words[1] \in KeywordTopic BY <1>4 DEF KeywordAnswer
  <2>2. words # FullQuestion BY <2>1 DEF FullQuestion, KeywordTopic
  <2>. HIDE DEF words
  <2>3. 1 \in DOMAIN said /\ said[1] = words[1]
    BY <2>1, <2>2, NormalizedWords DEF words, KeywordTopic
  <2>4. Curt(said) BY <2>1, <2>3 DEF Curt
  <2>. QED BY <1>1, <1>2, <2>4
<1>. QED BY <1>1, <1>2, <1>3, <1>4

-----------------------------------------------------------------------------
\* TextPipeline: from the message to what is sent.

\* The invariant of the actions on a message: what each step has made of the message
\* that was typed, and the properties.
TalkInv ==
    /\ channel \in Channel /\ typed \in Message
    /\ stage \in {"typed", "accepted", "taken", "turned away", "answered", "sent"}
    /\ stage = "typed" => message = typed
    /\ stage = "accepted" => message = Escape(Sanitize(typed))
    /\ stage = "taken" => message.words = Normalize(typed.words)
    /\ ShortIsTaken
    /\ stage \in {"answered", "sent"} => answer \in Seq(Mark)
    /\ SentIsFit

\* What is known of the message that was typed.
LEMMA TypedIsText ==
  ASSUME typed \in Message
  PROVE  /\ typed \in Text /\ typed.words \in Seq(Word) /\ typed.words # <<>>
         /\ Padded(typed) \in Nat /\ MaxMessage \in Nat
<1>1. typed \in Text BY TextAssumption
<1>2. typed.words \in Seq(Word) \ {<<>>} BY <1>1 DEF Text
<1>. QED BY <1>1, <1>2, EscapeGrows, SizeAssumption

\* Arithmetic, for SMT.
LEMMA Sixfold == ASSUME NEW a \in Nat, NEW b \in Nat, a > b PROVE 6 * a > b
OBVIOUS

LEMMA Between == ASSUME NEW a \in Nat, NEW b \in Nat, NEW c \in Nat, a > b, a <= 6 * c PROVE 6 * c > b
OBVIOUS

\* There is room for the ready-made texts.
LEMMA Room == ASSUME NEW a \in Nat, a >= 7 PROVE 7 <= a /\ 2 <= a
OBVIOUS

LEMMA ReadyMadeFits == Len(Unsigned) <= MaxReply /\ Len(Fallback) <= MaxReply
<1>1. Len(Unsigned) = 2 /\ Len(Fallback) = 7 BY FallbackIs
<1>2. MaxReply \in Nat /\ MaxReply >= 7 BY <1>1, RoomAssumption, SizeAssumption
<1>3. 7 <= MaxReply /\ 2 <= MaxReply BY <1>2, Room
<1>. QED BY <1>1, <1>3, Zenon

LEMMA TalkStart == TextInit => TalkInv
<1>. SUFFICES ASSUME TextInit PROVE TalkInv OBVIOUS
<1>. QED BY DEF TextInit, TalkInv, ShortIsTaken, SentIsFit

LEMMA TalkStep == TalkInv /\ [TextNext]_textVars => TalkInv'
<1>. SUFFICES ASSUME TalkInv, [TextNext]_textVars PROVE TalkInv' OBVIOUS
<1>. USE DEF TalkInv
<1>0. /\ Unsigned \in Seq(Mark) /\ ~IsForbidden(Unsigned) /\ Len(Unsigned) <= MaxReply
      /\ Fallback \in Seq(Mark) /\ ~IsForbidden(Fallback) /\ Len(Fallback) <= MaxReply
      /\ HasSlogan(Fallback)
  BY FallbackIs, SloganAtEnd, ReadyMadeFits, Zenon
<1>1. CASE Accept
  <2>1. typed' = typed /\ channel' = channel /\ refused' = refused /\ stage' = "accepted"
    BY <1>1 DEF Accept
  <2>2. message' = Escape(Sanitize(typed))
    BY <1>1 DEF Accept
  <2>. QED BY <2>1, <2>2 DEF ShortIsTaken, SentIsFit
<1>2. CASE TurnAway
  <2>1. /\ stage = "typed" /\ message = typed /\ refused' = FirstRefusal(typed) /\ refused' # ""
        /\ typed' = typed /\ channel' = channel
    BY <1>2 DEF TurnAway
  <2>2. refused' = "length" => 6 * Padded(typed) > MaxMessage
    <3>1. refused' = "length" => Padded(typed) > MaxMessage
      BY <2>1, TypedIsText, RefusedForLength DEF FirstRefusal
    <3>. QED BY <3>1, TypedIsText, Sixfold
  <2>3. CASE channel = "web"
    <3>1. stage' = "turned away" BY <1>2, <2>3 DEF TurnAway
    <3>. QED BY <2>1, <2>2, <3>1 DEF ShortIsTaken, SentIsFit
  <2>4. CASE channel # "web"
    <3>1. stage' = "sent" /\ answer' = Unsigned /\ sent' = Unsigned
      BY <1>2, <2>4 DEF TurnAway, Notify
    <3>2. channel = "whatsapp" /\ ServiceRefuses(typed) # ""
      BY <2>1, <2>4 DEF Channel, FirstRefusal
    <3>3. Notice' BY <2>1, <3>2 DEF Notice
    <3>. QED BY <1>0, <2>1, <2>2, <3>1, <3>3 DEF ShortIsTaken, SentIsFit
  <2>. QED BY <2>3, <2>4
<1>3. CASE Throttle
  <2>1. /\ refused' = "rate" /\ typed' = typed /\ channel' = channel
        /\ stage' \in {"answered", "sent"} /\ answer' = Unsigned
        /\ stage' = "sent" => sent' = Unsigned
    BY <1>3 DEF Throttle, Notify
  <2>2. Notice' BY <2>1 DEF Notice
  <2>. QED BY <1>0, <2>1, <2>2 DEF ShortIsTaken, SentIsFit
<1>4. CASE Command
  <2>1. /\ stage' = "sent" /\ answer' = Fallback /\ sent' = Fallback
        /\ typed' = typed /\ channel' = channel /\ refused' = refused
    BY <1>4 DEF Command, Notify
  <2>. QED BY <1>0, <2>1 DEF ShortIsTaken, SentIsFit
<1>5. CASE Take
  <2>0. stage = "accepted" /\ message = Escape(Sanitize(typed)) /\ typed' = typed /\ channel' = channel
    BY <1>5 DEF Take
  <2>1. refused' = "length" => 6 * Padded(typed) > MaxMessage
    <3>1. Escape(Sanitize(typed)) \in Text /\ Padded(Escape(Sanitize(typed))) <= 6 * Padded(typed)
      BY TypedIsText, EscapeGrows
    <3>2. refused' = "length" => Padded(message) > MaxMessage
      BY <1>5, <2>0, <3>1, RefusedForLength DEF Take
    <3>3. Padded(message) \in Nat /\ Padded(message) <= 6 * Padded(typed)
      BY <2>0, <3>1, EscapeGrows
    <3>. QED BY <3>2, <3>3, TypedIsText, Between
  <2>2. CASE refused' = ""
    <3>1. stage' = "taken" /\ message' = [Escape(Sanitize(message)) EXCEPT !.words = Normalize(@)]
      BY <1>5, <2>2 DEF Take
    <3>2. message'.words = Normalize(typed.words)
      <4>1. message \in Text /\ message.words = typed.words
        BY <2>0, TypedIsText, EscapeGrows DEF Escape, Sanitize, Text
      <4>. QED BY <3>1, <4>1 DEF Escape, Sanitize, Text
    <3>. QED BY <2>0, <2>1, <3>1, <3>2 DEF ShortIsTaken, SentIsFit
  <2>3. CASE refused' # ""
    <3>1. stage' = "answered" /\ answer' = Fallback
      BY <1>5, <2>3 DEF Take
    <3>2. Fallback \in Seq(Mark) /\ HasSlogan(Fallback) /\ ~IsForbidden(Fallback)
      BY FallbackIs, SloganAtEnd
    <3>. QED BY <2>0, <2>1, <3>1, <3>2 DEF ShortIsTaken, SentIsFit
  <2>. QED BY <2>2, <2>3
<1>6. CASE Answer
  <2>0. /\ stage = "taken" /\ stage' = "answered" /\ message.words = Normalize(typed.words)
        /\ typed' = typed /\ channel' = channel /\ refused' = refused
    BY <1>6 DEF Answer
  <2>. DEFINE intent  == IntentResponse(DetectIntent(Normalize(typed.words)))
              keyword == KeywordAnswer(Normalize(typed.words))
  <2>1. \/ answer' = intent /\ intent # <<>>
        \/ answer' = keyword /\ keyword # <<>>
        \/ \E reply \in Reply, c \in Channel : answer' = ValidateResponse(reply, c)
        \/ answer' = Fallback
    BY <1>6, <2>0 DEF Answer
  <2>2. answer' \in Seq(Mark) /\ ~IsForbidden(answer') /\ (HasSlogan(answer') \/ Curt(typed.words))
    <3>1. CASE answer' # <<>> /\ (answer' = intent \/ answer' = keyword)
      <4>. HIDE DEF intent, keyword
      <4>1. typed.words \in Seq(Word) /\ typed.words # <<>> BY TypedIsText
      <4>. QED BY <3>1, <4>1, ReadyMadeIsFit DEF intent, keyword
    <3>2. CASE \E reply \in Reply, c \in Channel : answer' = ValidateResponse(reply, c)
      <4>1. PICK reply \in Reply, c \in Channel : answer' = ValidateResponse(reply, c) BY <3>2
      <4>2. reply \in Seq(Mark) BY TextAssumption
      <4>. QED BY <4>1, <4>2, ValidatedIsFit
    <3>3. CASE answer' = Fallback
      BY <3>3, FallbackIs, SloganAtEnd
    <3>. HIDE DEF intent, keyword
    <3>. QED BY <2>1, <3>1, <3>2, <3>3
  <2>. QED BY <2>0, <2>2 DEF ShortIsTaken, SentIsFit
<1>7. CASE Send
  <2>0. /\ stage = "answered" /\ stage' = "sent" /\ answer' = answer /\ answer \in Seq(Mark)
        /\ typed' = typed /\ channel' = channel /\ refused' = refused
        /\ HasSlogan(answer) \/ Curt(typed.words) \/ Notice
        /\ Notice' <=> Notice
        /\ ~IsForbidden(answer)
    BY <1>7 DEF Send, SentIsFit, Notice
  <2>1. CASE channel = "whatsapp" /\ Len(answer) > MaxReply
    <3>. DEFINE n == LET period == LastOf({"period"}, answer)
                     IN  IF Late(period) THEN period ELSE LastOf({"exclaim"}, answer)
    <3>1. sent' = CutAt(answer, n) BY <1>7, <2>1 DEF Send, TruncateToSend
    <3>2. n \in -1..CutLength - 1 BY LastOfType
    <3>. HIDE DEF n
    <3>3. HasSlogan(sent') /\ Len(sent') <= MaxReply BY <2>0, <2>1, <3>1, <3>2, CutAtIs
    <3>. QED BY <2>0, <2>1, <3>3 DEF ShortIsTaken, SentIsFit
  <2>2. CASE ~(channel = "whatsapp" /\ Len(answer) > MaxReply)
    <3>1. sent' = answer BY <1>7, <2>2 DEF Send
    <3>2. channel = "whatsapp" => Len(sent') <= MaxReply
      BY <2>0, <2>2, <3>1, SizeAssumption
    <3>. QED BY <2>0, <3>1, <3>2 DEF ShortIsTaken, SentIsFit
  <2>. QED BY <2>1, <2>2
<1>8. CASE UNCHANGED talk
  BY <1>8 DEF talk, ShortIsTaken, SentIsFit, Notice
<1>9. CASE CutLong \/ CutShort \/ Skip \/ LastChunk
  BY <1>8, <1>9 DEF CutLong, CutShort, Skip, LastChunk
<1>. QED BY <1>1, <1>2, <1>3, <1>4, <1>5, <1>6, <1>7, <1>8, <1>9 DEF TextNext, textVars

\* Only a message longer than a sixth of the limit is refused for its length, by
\* either validation and on either channel, whatever the limit and the messages.
THEOREM ShortMessagesAreTaken == TextSpec => []ShortIsTaken
<1>1. TalkInv => ShortIsTaken BY DEF TalkInv
<1>. QED BY <1>1, TalkStart, TalkStep, PTL DEF TextSpec

\* For every reply a model may generate, every message and every length that has
\* room for the ready-made texts: an answer has the slogan, or is a ready-made one
\* or a notice without, and no forbidden term; what is sent keeps the slogan, is
\* short enough on WhatsApp, and has a forbidden term only where WhatsApp has cut
\* the answer once more. (output_validator.py:105-311, whatsapp_service.py:713-739)
THEOREM AnswersAreFit == TextSpec => []SentIsFit
<1>1. TalkInv => SentIsFit BY DEF TalkInv
<1>. QED BY <1>1, TalkStart, TalkStep, PTL DEF TextSpec
-----------------------------------------------------------------------------
\* TextPipeline: documents.

\* Chunks as they may be, what they hold, and what they have to hold.
Sentence == [at : Nat \X Nat, length : Nat]
Fit == {c \in [of : Seq(Sentence) \ {<<>>}, size : Int] : c.size <= ChunkSize + 2 \/ Len(c.of) = 1}
Contents(all) == FlattenSeq([n \in DOMAIN all |-> all[n].of])
Acc == [out : Seq(Fit), temp : Fit \cup {Nothing}]
Cut == FlattenSeq([p \in 1..at |-> Sentences(p)])

\* The invariant of the actions on a document.
CuttingInv ==
    /\ document \in Document /\ at \in 0..Len(document)
    /\ chunks \in Seq(Fit) /\ current \in Fit \cup {Nothing}
    /\ Contents(chunks) \o current.of = Cut

\* What is known of a chunk.
LEMMA NothingIs == /\ Nothing.of = <<>> /\ Nothing.size = 0 /\ Nothing \notin Fit
                   /\ \A c \in Fit : c.of \in Seq(Sentence) /\ c.of # <<>> /\ c.size \in Int
                                     /\ (c.size <= ChunkSize + 2 \/ Len(c.of) = 1)
BY DEF Nothing, Fit

\* A chunk that is put away adds its sentences at the end.
LEMMA ContentsAppend ==
  ASSUME NEW out \in Seq(Fit), NEW c \in Fit
  PROVE  /\ Contents(out) \in Seq(Sentence)
         /\ Contents(Append(out, c)) = Contents(out) \o c.of
<1>. DEFINE of == [n \in DOMAIN out |-> out[n].of]
            more == Append(out, c)
            moreOf == [n \in DOMAIN more |-> more[n].of]
<1>1. of \in Seq(Seq(Sentence)) /\ Len(of) = Len(out)
  <2>1. \A n \in 1..Len(out) : out[n].of \in Seq(Sentence) BY NothingIs
  <2>2. DOMAIN out = 1..Len(out) /\ Len(out) \in Nat OBVIOUS
  <2>. QED BY <2>1, <2>2
<1>2. c.of \in Seq(Sentence) BY NothingIs
<1>3. moreOf = Append(of, c.of)
  <2>1. DOMAIN more = 1..Len(out) + 1 /\ Len(out) \in Nat OBVIOUS
  <2>2. Append(of, c.of) \in Seq(Seq(Sentence)) /\ DOMAIN Append(of, c.of) = 1..Len(out) + 1
    <3>. HIDE DEF of
    <3>. QED BY <1>1, <1>2
  <2>3. ASSUME NEW n \in 1..Len(out) + 1 PROVE more[n].of = Append(of, c.of)[n]
    <3>1. CASE n = Len(out) + 1
      <4>1. more[n] = c BY <3>1
      <4>. HIDE DEF of, more
      <4>2. Append(of, c.of)[n] = c.of BY <1>1, <1>2, <3>1
      <4>. QED BY <4>1, <4>2
    <3>2. CASE n # Len(out) + 1
      <4>1. n \in 1..Len(out) BY <2>1, <3>2
      <4>2. more[n] = out[n] /\ of[n] = out[n].of BY <4>1
      <4>. HIDE DEF of, more
      <4>3. Append(of, c.of)[n] = of[n] BY <1>1, <1>2, <4>1
      <4>. QED BY <4>2, <4>3
    <3>. QED BY <3>1, <3>2
  <2>4. Append(of, c.of) = [n \in 1..Len(out) + 1 |-> Append(of, c.of)[n]]
    <3>. HIDE DEF of
    <3>. QED BY <2>2
  <2>. HIDE DEF of, more
  <2>. QED BY <2>1, <2>3, <2>4
<1>4. FlattenSeq(of) \in Seq(Sentence) /\ FlattenSeq(Append(of, c.of)) = FlattenSeq(of) \o c.of
  <2>. HIDE DEF of
  <2>. QED BY <1>1, <1>2, FlattenAppend
<1>. QED BY <1>3, <1>4, Zenon DEF Contents

LEMMA KeptIs ==
  ASSUME NEW out \in Seq(Fit), NEW c \in Fit \cup {Nothing}
  PROVE  /\ Kept(out, c) \in Seq(Fit) /\ Contents(out) \in Seq(Sentence)
         /\ Contents(Kept(out, c)) = Contents(out) \o c.of
<1>0. Contents(out) \in Seq(Sentence)
  <2>1. CASE Fit # {}
    BY <2>1, ContentsAppend
  <2>2. CASE Fit = {}
    <3>1. out = <<>> BY <2>2
    <3>2. Contents(out) = <<>> BY <3>1 DEF Contents, FlattenSeq
    <3>. QED BY <3>2
  <2>. QED BY <2>1, <2>2
<1>1. CASE c = Nothing
  <2>1. Contents(out) \o c.of = Contents(out)
    <3>. DEFINE s == Contents(out)
    <3>. HIDE DEF s
    <3>1. s \in Seq(Sentence) BY <1>0 DEF s
    <3>2. s \o <<>> = s BY <3>1
    <3>. QED BY <1>1, <3>2, NothingIs DEF s
  <2>. QED BY <1>0, <1>1, <2>1 DEF Kept
<1>2. CASE c # Nothing
  <2>1. c \in Fit BY <1>2
  <2>. QED BY <1>0, <1>2, <2>1, ContentsAppend DEF Kept
<1>. QED BY <1>1, <1>2

\* Sequences of sentences, for SMT.
LEMMA Associates ==
  ASSUME NEW a \in Seq(Sentence), NEW b \in Seq(Sentence), NEW c \in Seq(Sentence)
  PROVE  (a \o b) \o c = a \o (b \o c)
OBVIOUS

LEMMA AppendLast ==
  ASSUME NEW a \in Seq(Sentence), NEW b \in Seq(Sentence), NEW s \in Sentence
  PROVE  /\ a \o Append(b, s) = Append(a \o b, s)
         /\ (a \o b) \o <<s>> = Append(a \o b, s)
OBVIOUS

\* One step of _split_long_paragraph adds one sentence, and only at the end.
LEMMA AddSentenceIs ==
  ASSUME NEW acc \in Acc, NEW s \in Sentence
  PROVE  /\ AddSentence(acc, s) \in Acc
         /\ Contents(AddSentence(acc, s).out) \o AddSentence(acc, s).temp.of
              = Append(Contents(acc.out) \o acc.temp.of, s)
<1>1. /\ acc.out \in Seq(Fit) /\ acc.temp \in Fit \cup {Nothing}
      /\ acc.temp.of \in Seq(Sentence) /\ acc.temp.size \in Int
      /\ s.length \in Nat
  <2>1. acc.out \in Seq(Fit) /\ acc.temp \in Fit \cup {Nothing} BY DEF Acc
  <2>2. acc.temp.of \in Seq(Sentence) /\ acc.temp.size \in Int
    <3>1. CASE acc.temp = Nothing BY <3>1, NothingIs
    <3>2. CASE acc.temp \in Fit BY <3>2, NothingIs
    <3>. QED BY <2>1, <3>1, <3>2
  <2>3. s.length \in Nat BY DEF Sentence
  <2>. QED BY <2>1, <2>2, <2>3
<1>2. ChunkSize \in Nat /\ Contents(acc.out) \in Seq(Sentence) BY <1>1, SizeAssumption, KeptIs
<1>3. CASE acc.temp.size + s.length <= ChunkSize
  <2>. DEFINE temp == [of |-> Append(acc.temp.of, s), size |-> acc.temp.size + s.length + 1]
  <2>1. AddSentence(acc, s) = [acc EXCEPT !.temp = temp]
    BY <1>3 DEF AddSentence
  <2>2. temp \in Fit
    <3>1. temp.of \in Seq(Sentence) /\ temp.of # <<>> BY <1>1
    <3>2. temp.size \in Int /\ temp.size <= ChunkSize + 2 BY <1>1, <1>2, <1>3
    <3>. QED BY <3>1, <3>2 DEF Fit
  <2>3. temp.of = Append(acc.temp.of, s) OBVIOUS
  <2>. HIDE DEF temp
  <2>4. AddSentence(acc, s) \in Acc /\ AddSentence(acc, s).out = acc.out /\ AddSentence(acc, s).temp = temp
    BY <2>1, <2>2 DEF Acc
  <2>5. Contents(acc.out) \o temp.of = Append(Contents(acc.out) \o acc.temp.of, s)
    BY <1>1, <1>2, <2>3, AppendLast
  <2>. QED BY <2>4, <2>5
<1>4. CASE ~(acc.temp.size + s.length <= ChunkSize)
  <2>. DEFINE full == [acc.temp EXCEPT !.size = IF @ = 0 THEN 0 ELSE @ - 1]
              temp == [of |-> <<s>>, size |-> s.length + 1]
  <2>1. AddSentence(acc, s) = [out |-> Kept(acc.out, full), temp |-> temp]
    BY <1>4 DEF AddSentence
  <2>2. temp \in Fit /\ temp.of = <<s>>
    BY <1>1 DEF Fit
  <2>3. full \in Fit \cup {Nothing} /\ full.of = acc.temp.of
    <3>1. CASE acc.temp = Nothing
      BY <3>1 DEF Nothing
    <3>2. CASE acc.temp \in Fit
      BY <1>2, <3>2 DEF Fit
    <3>. QED BY <1>1, <3>1, <3>2
  <2>. HIDE DEF full, temp
  <2>4. /\ Kept(acc.out, full) \in Seq(Fit)
        /\ Contents(Kept(acc.out, full)) = Contents(acc.out) \o acc.temp.of
    BY <1>1, <2>3, KeptIs
  <2>5. (Contents(acc.out) \o acc.temp.of) \o <<s>> = Append(Contents(acc.out) \o acc.temp.of, s)
    BY <1>1, <1>2, AppendLast
  <2>6. AddSentence(acc, s) \in Acc
    BY <2>1, <2>2, <2>4 DEF Acc
  <2>7. AddSentence(acc, s).out = Kept(acc.out, full) /\ AddSentence(acc, s).temp = temp
    BY <2>1
  <2>. QED BY <2>2, <2>4, <2>5, <2>6, <2>7
<1>. QED BY <1>3, <1>4

\* By induction on the sentences: all of them are added, and in order.
LEMMA SplitSentencesIs ==
  ASSUME NEW out \in Seq(Fit), NEW sentences \in Seq(Sentence)
  PROVE  /\ SplitSentences(out, sentences) \in Acc
         /\ Contents(SplitSentences(out, sentences).out) \o SplitSentences(out, sentences).temp.of
              = Contents(out) \o sentences
<1>. DEFINE n == Len(sentences)
            base == [out |-> out, temp |-> Nothing]
            turn == [x \in Acc \X Nat |-> IF x[2] \in 1..n THEN AddSentence(x[1], sentences[x[2]]) ELSE x[1]]
            Solves(g) == g = [k \in 0..n |-> IF k = 0 THEN base ELSE AddSentence(g[k - 1], sentences[k])]
            Held(x) == Contents(x.out) \o x.temp.of
<1>0. n \in Nat /\ \A k \in 1..n : sentences[k] \in Sentence OBVIOUS
<1>1. base \in Acc /\ Held(base) = Contents(out) /\ Contents(out) \in Seq(Sentence)
  <2>1. base \in Acc BY DEF Acc
  <2>2. Contents(out) \in Seq(Sentence) BY KeptIs
  <2>3. Held(base) = Contents(out) \o <<>> BY NothingIs
  <2>. QED BY <2>1, <2>2, <2>3
<1>2. turn \in [Acc \X Nat -> Acc]
  <2>1. ASSUME NEW x \in Acc \X Nat
        PROVE  (IF x[2] \in 1..n THEN AddSentence(x[1], sentences[x[2]]) ELSE x[1]) \in Acc
    <3>1. x[1] \in Acc OBVIOUS
    <3>2. ASSUME x[2] \in 1..n PROVE AddSentence(x[1], sentences[x[2]]) \in Acc
      BY <1>0, <3>1, <3>2, AddSentenceIs
    <3>. QED BY <3>1, <3>2
  <2>. QED BY <2>1
<1>3. PICK f \in [0..n -> Acc] : f[0] = base /\ \A k \in 1..n : f[k] = turn[<<f[k - 1], k>>]
  <2>. HIDE DEF turn, n, base
  <2>1. Iterates(n, Acc, base, turn) # {} BY <1>0, <1>1, <1>2, Recursion
  <2>. QED BY <2>1 DEF Iterates
<1>4. Solves(f)
  <2>1. ASSUME NEW k \in 0..n, k # 0 PROVE f[k] = AddSentence(f[k - 1], sentences[k])
    <3>1. k \in 1..n /\ k - 1 \in 0..n /\ k \in Nat BY <1>0, <2>1
    <3>2. turn[<<f[k - 1], k>>] = AddSentence(f[k - 1], sentences[k]) BY <3>1
    <3>. HIDE DEF turn
    <3>. QED BY <1>3, <3>1, <3>2
  <2>2. f = [k \in 0..n |-> f[k]] OBVIOUS
  <2>. HIDE DEF turn, base
  <2>. QED BY <1>3, <2>1, <2>2
<1>. DEFINE g == CHOOSE x : Solves(x)
<1>5. g = [k \in 0..n |-> IF k = 0 THEN base ELSE AddSentence(g[k - 1], sentences[k])]
  <2>1. Solves(g)
    <3>. HIDE DEF Solves
    <3>. QED BY <1>4
  <2>. QED BY <2>1
<1>6. SplitSentences(out, sentences) = g[n]
  BY DEF SplitSentences
<1>. HIDE DEF g, Solves, n, base, turn, Held
<1>. DEFINE K == {k \in Nat : k \in 0..n => /\ g[k] \in Acc
                                            /\ Held(g[k]) = Contents(out) \o SubSeq(sentences, 1, k)}
<1>7. 0 \in K
  <2>1. g[0] = base BY <1>0, <1>5
  <2>2. SubSeq(sentences, 1, 0) = <<>> OBVIOUS
  <2>3. Contents(out) \o <<>> = Contents(out) BY <1>1
  <2>. QED BY <1>1, <2>1, <2>2, <2>3
<1>8. ASSUME NEW k \in K PROVE k + 1 \in K
  <2>1. ASSUME k + 1 \in 0..n
        PROVE  g[k + 1] \in Acc /\ Held(g[k + 1]) = Contents(out) \o SubSeq(sentences, 1, k + 1)
    <3>1. k \in 0..n /\ k + 1 \in 1..n /\ k + 1 # 0 /\ (k + 1) - 1 = k BY <1>0, <2>1
    <3>2. g[k] \in Acc /\ Held(g[k]) = Contents(out) \o SubSeq(sentences, 1, k) BY <3>1
    <3>3. g[k + 1] = AddSentence(g[k], sentences[k + 1]) BY <1>5, <2>1, <3>1
    <3>4. /\ g[k + 1] \in Acc
          /\ Held(g[k + 1]) = Append(Held(g[k]), sentences[k + 1])
      BY <1>0, <3>1, <3>2, <3>3, AddSentenceIs DEF Held
    <3>5. SubSeq(sentences, 1, k + 1) = Append(SubSeq(sentences, 1, k), sentences[k + 1])
          /\ SubSeq(sentences, 1, k) \in Seq(Sentence)
      BY <3>1 DEF n
    <3>6. Contents(out) \o Append(SubSeq(sentences, 1, k), sentences[k + 1])
            = Append(Contents(out) \o SubSeq(sentences, 1, k), sentences[k + 1])
      BY <1>0, <1>1, <3>1, <3>5, AppendLast
    <3>. QED BY <3>2, <3>4, <3>5, <3>6
  <2>. QED BY <2>1
<1>9. K = Nat
  <2>. HIDE DEF K
  <2>1. K \in SUBSET Nat BY DEF K
  <2>. QED BY <1>7, <1>8, <2>1, NatInd
<1>10. g[n] \in Acc /\ Held(g[n]) = Contents(out) \o SubSeq(sentences, 1, n)
  <2>1. n \in 0..n BY <1>0
  <2>. QED BY <1>0, <1>9, <2>1
<1>11. SubSeq(sentences, 1, n) = sentences BY DEF n
<1>. QED BY <1>6, <1>10, <1>11 DEF Held

\* Cutting one more paragraph asks for its sentences, behind those there are.
LEMMA CutGrows ==
  ASSUME document \in Document, at \in 0..Len(document), at < Len(document)
  PROVE  /\ Sentences(at + 1) \in Seq(Sentence)
         /\ document[at + 1].length \in Nat
         /\ Cut \in Seq(Sentence)
         /\ FlattenSeq([p \in 1..at + 1 |-> Sentences(p)]) = Cut \o Sentences(at + 1)
<1>1. document \in Seq([length : Nat, sentences : Seq(Nat)]) BY TextAssumption
<1>2. ASSUME NEW p \in 1..Len(document) PROVE Sentences(p) \in Seq(Sentence) /\ document[p].length \in Nat
  <2>1. document[p] \in [length : Nat, sentences : Seq(Nat)] BY <1>1, ElementOfSeq
  <2>2. document[p].sentences \in Seq(Nat) /\ document[p].length \in Nat BY <2>1
  <2>. DEFINE s == document[p].sentences
  <2>3. s \in Seq(Nat) BY <2>2
  <2>4. p \in Nat BY <1>1
  <2>. HIDE DEF s
  <2>5. [n \in DOMAIN s |-> [at |-> <<p, n>>, length |-> s[n]]] \in Seq(Sentence)
    <3>1. DOMAIN s = 1..Len(s) /\ Len(s) \in Nat BY <2>3
    <3>2. ASSUME NEW n \in 1..Len(s) PROVE [at |-> <<p, n>>, length |-> s[n]] \in Sentence
      BY <2>3, <2>4 DEF Sentence
    <3>. QED BY <3>1, <3>2
  <2>. QED BY <2>2, <2>5 DEF Sentences, s
<1>3. at \in Nat /\ Len(document) \in Nat /\ at + 1 \in 1..Len(document) BY <1>1
<1>. DEFINE seqs == [p \in 1..at |-> Sentences(p)]
            more == [p \in 1..at + 1 |-> Sentences(p)]
<1>4. seqs \in Seq(Seq(Sentence)) /\ Len(seqs) = at
  BY <1>2, <1>3
<1>5. more = Append(seqs, Sentences(at + 1))
  <2>. DEFINE e == Sentences(at + 1)
  <2>0. e \in Seq(Sentence) BY <1>2, <1>3
  <2>1. Append(seqs, e) \in Seq(Seq(Sentence)) /\ DOMAIN Append(seqs, e) = 1..at + 1
    <3>. HIDE DEF seqs, e
    <3>. QED BY <1>3, <1>4, <2>0
  <2>2. ASSUME NEW n \in 1..at + 1 PROVE Append(seqs, e)[n] = Sentences(n)
    <3>1. CASE n = at + 1
      <4>. HIDE DEF seqs, e
      <4>1. Append(seqs, e)[n] = e BY <1>3, <1>4, <2>0, <3>1
      <4>. QED BY <3>1, <4>1 DEF e
    <3>2. CASE n # at + 1
      <4>1. n \in 1..at BY <1>3, <3>2
      <4>2. seqs[n] = Sentences(n) BY <4>1
      <4>. HIDE DEF seqs, e
      <4>3. Append(seqs, e)[n] = seqs[n] BY <1>3, <1>4, <2>0, <4>1
      <4>. QED BY <4>2, <4>3
    <3>. QED BY <3>1, <3>2
  <2>3. Append(seqs, e) = [n \in 1..at + 1 |-> Append(seqs, e)[n]]
    <3>. HIDE DEF seqs, e
    <3>. DEFINE t == Append(seqs, e)
    <3>1. t \in Seq(Seq(Sentence)) /\ DOMAIN t = 1..at + 1 BY <2>1
    <3>. HIDE DEF t
    <3>2. t = [n \in DOMAIN t |-> t[n]] BY <3>1
    <3>. QED BY <3>1, <3>2 DEF t
  <2>. HIDE DEF seqs, e
  <2>. QED BY <2>2, <2>3 DEF e
<1>6. FlattenSeq(seqs) \in Seq(Sentence) /\ FlattenSeq(Append(seqs, Sentences(at + 1))) = FlattenSeq(seqs) \o Sentences(at + 1)
  <2>. HIDE DEF seqs
  <2>. QED BY <1>2, <1>3, <1>4, FlattenAppend
<1>. HIDE DEF seqs, more
<1>7. Cut = FlattenSeq(seqs) BY DEF Cut, seqs
<1>. QED BY <1>2, <1>3, <1>5, <1>6, <1>7 DEF more

LEMMA CuttingStart == TextInit => CuttingInv
<1>. SUFFICES ASSUME TextInit PROVE CuttingInv OBVIOUS
<1>1. document \in Document /\ at = 0 /\ current = Nothing /\ chunks = <<>>
  BY DEF TextInit
<1>2. document \in Seq([length : Nat, sentences : Seq(Nat)]) BY <1>1, TextAssumption
<1>3. at \in 0..Len(document) BY <1>1, <1>2
<1>4. Contents(<<>>) = <<>> BY DEF Contents, FlattenSeq
<1>5. Cut = <<>>
  <2>1. [p \in 1..at |-> Sentences(p)] = <<>> BY <1>1
  <2>. QED BY <2>1 DEF Cut, FlattenSeq
<1>6. Contents(chunks) \o current.of = Cut
  <2>1. <<>> \o <<>> = <<>> OBVIOUS
  <2>. QED BY <1>1, <1>4, <1>5, <2>1, NothingIs
<1>7. chunks \in Seq(Fit) /\ current \in Fit \cup {Nothing} BY <1>1
<1>. QED BY <1>1, <1>3, <1>6, <1>7 DEF CuttingInv

\* What every action has to show that cuts a paragraph.
LEMMA CutMoves ==
  ASSUME CuttingInv, at < Len(document), at' = at + 1, document' = document,
         chunks' \in Seq(Fit), current' \in Fit \cup {Nothing},
         Contents(chunks') \o current'.of = Cut \o Sentences(at + 1)
  PROVE  CuttingInv'
<1>1. document \in Document /\ at \in 0..Len(document) BY DEF CuttingInv
<1>2. document \in Seq([length : Nat, sentences : Seq(Nat)]) BY <1>1, TextAssumption
<1>3. at' \in 0..Len(document') BY <1>1, <1>2
<1>4. Cut' = FlattenSeq([p \in 1..at + 1 |-> Sentences(p)]) BY DEF Cut, Sentences
<1>5. Cut' = Cut \o Sentences(at + 1) BY <1>1, <1>4, CutGrows
<1>. QED BY <1>1, <1>3, <1>5 DEF CuttingInv, Contents

LEMMA CuttingStep == CuttingInv /\ [TextNext]_textVars => CuttingInv'
<1>. SUFFICES ASSUME CuttingInv, [TextNext]_textVars PROVE CuttingInv' OBVIOUS
<1>. DEFINE more == Sentences(at + 1)
<1>1. /\ document \in Document /\ at \in 0..Len(document)
      /\ chunks \in Seq(Fit) /\ current \in Fit \cup {Nothing}
      /\ Contents(chunks) \o current.of = Cut
      /\ Contents(chunks) \in Seq(Sentence)
      /\ Kept(chunks, current) \in Seq(Fit) /\ Contents(Kept(chunks, current)) = Cut
      /\ ChunkSize \in Nat
  BY KeptIs, SizeAssumption DEF CuttingInv
<1>2. ASSUME at < Len(document)
      PROVE  more \in Seq(Sentence) /\ Cut \in Seq(Sentence) /\ document[at + 1].length \in Nat
  BY <1>1, <1>2, CutGrows
<1>3. CASE CutLong
  <2>. DEFINE acc == SplitSentences(Kept(chunks, current), more)
  <2>0. /\ at < Len(document) /\ at' = at + 1 /\ document' = document
        /\ chunks' = acc.out /\ current' = acc.temp
    BY <1>3 DEF CutLong
  <2>1. acc \in Acc /\ Contents(acc.out) \o acc.temp.of = Cut \o more
    BY <1>1, <1>2, <2>0, SplitSentencesIs
  <2>2. chunks' \in Seq(Fit) /\ current' \in Fit \cup {Nothing}
    BY <2>0, <2>1 DEF Acc
  <2>. HIDE DEF acc
  <2>3. Contents(chunks') \o current'.of = Cut \o more BY <2>0, <2>1
  <2>. QED BY <2>0, <2>2, <2>3, CutMoves
<1>4. CASE CutShort
  <2>. DEFINE length == document[at + 1].length
              whole == [of |-> more, size |-> length]
  <2>0. /\ at < Len(document) /\ at' = at + 1 /\ document' = document
        /\ more # <<>> /\ length <= ChunkSize
    BY <1>4 DEF CutShort
  <2>1. more \in Seq(Sentence) /\ Cut \in Seq(Sentence) /\ length \in Nat
    BY <1>2, <2>0
  <2>2. whole \in Fit /\ whole.of = more
    <3>. HIDE DEF length, more
    <3>. QED BY <1>1, <2>0, <2>1 DEF Fit
  <2>3. CASE current.size + length <= ChunkSize /\ current = Nothing
    <3>1. chunks' = chunks /\ current' = whole BY <1>4, <2>3 DEF CutShort
    <3>2. Cut = Contents(chunks)
      <4>. DEFINE held == Contents(chunks)
      <4>1. held \in Seq(Sentence) /\ held \o <<>> = Cut BY <1>1, <2>3, NothingIs
      <4>. HIDE DEF held
      <4>2. held \o <<>> = held BY <4>1
      <4>. QED BY <4>1, <4>2 DEF held
    <3>. HIDE DEF whole
    <3>3. Contents(chunks') \o current'.of = Cut \o more BY <2>2, <3>1, <3>2
    <3>4. chunks' \in Seq(Fit) /\ current' \in Fit \cup {Nothing} BY <1>1, <2>2, <3>1
    <3>. QED BY <2>0, <3>3, <3>4, CutMoves
  <2>4. CASE current.size + length <= ChunkSize /\ current # Nothing
    <3>. DEFINE joined == [of |-> current.of \o more, size |-> current.size + 2 + length]
    <3>1. chunks' = chunks /\ current' = joined BY <1>4, <2>4 DEF CutShort
    <3>2. current \in Fit /\ current.of \in Seq(Sentence) /\ current.of # <<>> /\ current.size \in Int
      BY <1>1, <2>4, NothingIs
    <3>3. current.of \o more \in Seq(Sentence) /\ current.of \o more # <<>>
      <4>. DEFINE a == current.of
      <4>1. a \in Seq(Sentence) /\ a # <<>> BY <3>2
      <4>. HIDE DEF a, more
      <4>2. a \o more \in Seq(Sentence) /\ Len(a \o more) = Len(a) + Len(more) /\ Len(a) > 0 /\ Len(more) \in Nat
        BY <2>1, <4>1
      <4>3. Len(<<>>) = 0 OBVIOUS
      <4>4. a \o more # <<>> BY <4>2, <4>3
      <4>. QED BY <4>2, <4>4 DEF a
    <3>4. joined \in Fit
      <4>1. current.size + 2 + length \in Int /\ current.size + 2 + length <= ChunkSize + 2
        <5>. DEFINE size == current.size
        <5>1. size \in Int /\ length \in Nat /\ ChunkSize \in Nat /\ size + length <= ChunkSize
          BY <1>1, <2>1, <2>4, <3>2
        <5>. HIDE DEF size, length
        <5>2. size + 2 + length \in Int /\ size + 2 + length <= ChunkSize + 2
          BY <5>1
        <5>. QED BY <5>2 DEF size
      <4>. HIDE DEF length, more
      <4>. QED BY <3>3, <4>1 DEF Fit
    <3>5. Contents(chunks) \o (current.of \o more) = Cut \o more
      <4>. DEFINE held == Contents(chunks)
      <4>1. held \in Seq(Sentence) /\ held \o current.of = Cut BY <1>1
      <4>. HIDE DEF held, more
      <4>2. (held \o current.of) \o more = held \o (current.of \o more)
        BY <2>1, <3>2, <4>1, Associates, Zenon
      <4>. QED BY <4>1, <4>2, Zenon DEF held
    <3>6. joined.of = current.of \o more OBVIOUS
    <3>. HIDE DEF joined
    <3>7. Contents(chunks') \o current'.of = Cut \o more BY <3>1, <3>5, <3>6
    <3>8. chunks' \in Seq(Fit) /\ current' \in Fit \cup {Nothing} BY <1>1, <3>1, <3>4
    <3>. QED BY <2>0, <3>7, <3>8, CutMoves
  <2>5. CASE ~(current.size + length <= ChunkSize)
    <3>1. chunks' = Kept(chunks, current) /\ current' = whole BY <1>4, <2>5 DEF CutShort
    <3>. HIDE DEF whole
    <3>2. Contents(chunks') \o current'.of = Cut \o more BY <1>1, <2>2, <3>1
    <3>3. chunks' \in Seq(Fit) /\ current' \in Fit \cup {Nothing} BY <1>1, <2>2, <3>1
    <3>. QED BY <2>0, <3>2, <3>3, CutMoves
  <2>. QED BY <2>3, <2>4, <2>5
<1>5. CASE Skip
  <2>0. /\ at < Len(document) /\ at' = at + 1 /\ document' = document
        /\ more = <<>> /\ chunks' = chunks /\ current' = current
    BY <1>5 DEF Skip
  <2>1. Cut \o more = Cut
    <3>. DEFINE c == Cut
    <3>1. c \in Seq(Sentence) BY <1>2, <2>0
    <3>. HIDE DEF c
    <3>2. c \o <<>> = c BY <3>1
    <3>. QED BY <2>0, <3>2 DEF c
  <2>. QED BY <1>1, <2>0, <2>1, CutMoves
<1>6. CASE LastChunk
  <2>0. /\ document' = document /\ at' = at /\ current # Nothing
        /\ chunks' = Append(chunks, current) /\ current' = Nothing
    BY <1>6 DEF LastChunk
  <2>1. Kept(chunks, current) = chunks' BY <2>0 DEF Kept
  <2>2. Contents(chunks') = Cut /\ chunks' \in Seq(Fit) BY <1>1, <2>1
  <2>3. Contents(chunks') \in Seq(Sentence) BY <2>2, KeptIs
  <2>4. Contents(chunks') \o <<>> = Contents(chunks')
    <3>. DEFINE c == Contents(chunks')
    <3>1. c \in Seq(Sentence) BY <2>3
    <3>. HIDE DEF c
    <3>2. c \o <<>> = c BY <3>1
    <3>. QED BY <3>2 DEF c
  <2>5. Cut' = Cut BY <2>0 DEF Cut, Sentences
  <2>. QED BY <1>1, <2>0, <2>2, <2>4, <2>5, NothingIs DEF CuttingInv, Contents
<1>7. CASE UNCHANGED cutting
  BY <1>7 DEF cutting, CuttingInv, Contents, Cut, Sentences
<1>8. CASE Accept \/ TurnAway \/ Throttle \/ Command \/ Take \/ Answer \/ Send
  BY <1>7, <1>8 DEF Accept, TurnAway, Throttle, Command, Take, Answer, Send
<1>. QED BY <1>3, <1>4, <1>5, <1>6, <1>7, <1>8 DEF TextNext, textVars

\* The chunks of a document hold all its sentences, once and in order, none of them
\* is empty, and only a single sentence exceeds the size: for every document and
\* every size of a chunk.
THEOREM DocumentsAreCutFaithfully == TextSpec => []ChunksAreFaithful
<1>1. CuttingInv => ChunksAreFaithful
  <2>. SUFFICES ASSUME CuttingInv PROVE ChunksAreFaithful OBVIOUS
  <2>. DEFINE all == Kept(chunks, current)
  <2>1. all \in Seq(Fit) /\ Contents(all) = Cut BY KeptIs DEF CuttingInv
  <2>. HIDE DEF all
  <2>2. ASSUME NEW n \in DOMAIN all
        PROVE  all[n].of # <<>> /\ (all[n].size <= ChunkSize + 2 \/ Len(all[n].of) = 1)
    BY <2>1, NothingIs
  <2>. QED BY <2>1, <2>2 DEF all, ChunksAreFaithful, Contents, Cut
<1>. QED BY <1>1, CuttingStart, CuttingStep, PTL DEF TextSpec
=============================================================================
