----------------------------- MODULE Knowledge ------------------------------
(***************************************************************************)
(* The knowledge base: chunks in the vector store (RAGService,             *)
(* QdrantVectorStore), the answers that the chat pipeline builds on them   *)
(* and caches (ChatService steps 5 to 9, RedisCacheService), and the rows  *)
(* that describe the documents (KnowledgeRepository).                      *)
(*                                                                         *)
(* Vectors, scores and texts are left out: a search finds any of the       *)
(* chunks that pass its filter, or none that is near enough.  A question   *)
(* stands for all that _hash_question normalises alike.  A chunk's id is   *)
(* made anew by every call that indexes it.                                *)
(***************************************************************************)
EXTENDS Naturals, FiniteSets

CONSTANTS
    Doc,         \* documents
    Parts,       \* batches that a document's chunks are indexed in
    Indexing,    \* calls of index_document_chunks
    Subject,     \* Subject[i]: the document that i indexes, and its language
    Request,     \* chat requests, one after another of each
    Question,    \* what they ask
    Write,       \* calls of KnowledgeRepository on the row of one document
    None,        \* no question, no answer, no operation
    MaxFaults    \* bound on commands that fail

Filtered == {"en", "fr"}
Language == Filtered \cup {"wolof"}
Operation == {"start", "finish", "fail", "deprecate", "retrieve"}
Status == {"pending", "indexing", "active", "error", "deprecated"}

ASSUME IndexingAssumption == Subject \in [Indexing -> [doc : Doc, language : Language]]
ASSUME BoundAssumption == Parts \in Nat \ {0} /\ MaxFaults \in Nat

VARIABLES
    points,    \* chunks in the vector store
    next,      \* next[i]: the batch that i is at; 0 when it has not begun
    asked,     \* asked[r]: the question and language of r
    pc,        \* pc[r]: the next step of r
    found,     \* found[r]: the documents that r's answer rests on
    cache,     \* cache[q]: the documents of the cached answer
    sweep,     \* invalidate_rag_cache: "idle", "scan" or "done"
    due,       \* keys that the scan has not come by yet
    row,       \* the row of a document in knowledge_docs
    op,        \* op[w]: what the repository is asked to do
    step,      \* step[w]: where it is
    seen,      \* seen[w]: times_retrieved as w read it
    faults,    \* commands that failed
    \* history
    old,       \* questions whose answer is the one cached when the sweep began
    broken,    \* calls that index and did not get to their end
    removed,   \* indexing calls that lost chunks to a deletion
    retired,   \* the document has been deprecated
    recorded   \* retrievals recorded

store == <<points, next, broken, removed>>
answers == <<asked, pc, found, cache, sweep, due, old>>
rows == <<row, op, step, seen, retired, recorded>>
vars == <<store, answers, rows, faults>>

Point == [doc : Doc, language : Language, part : 1..Parts, by : Indexing]
Asked == [question : Question, language : Language]
Row == [status : Status, public : BOOLEAN, times : Nat]

\* A document that create_document has made.
NewDocument == [status |-> "pending", public |-> TRUE, times |-> 0]

Init ==
    /\ points = {}
    /\ next = [i \in Indexing |-> 0]
    /\ asked \in [Request -> Asked \cup {None}]
    /\ pc = [r \in Request |-> "idle"]
    /\ found = [r \in Request |-> {}]
    /\ cache = [q \in Question |-> None]
    /\ sweep = "idle" /\ due = {} /\ old = {}
    /\ row = NewDocument
    /\ op \in [Write -> Operation \cup {None}]
    /\ step = [w \in Write |-> "start"]
    /\ seen = [w \in Write |-> 0]
    /\ faults = 0
    /\ broken = {} /\ removed = {}
    /\ retired = FALSE /\ recorded = 0

Fault == faults < MaxFaults /\ faults' = faults + 1

-----------------------------------------------------------------------------
\* The vector store

\* The chunks of one batch: embed them and upsert them.  An exception ends the
\* call; the batches before stay, and this one may have been stored.
Batch(i) == {[doc |-> Subject[i].doc, language |-> Subject[i].language, part |-> next[i], by |-> i]}

Begin(i) == /\ next[i] = 0
            /\ next' = [next EXCEPT ![i] = 1]
            /\ UNCHANGED <<points, broken, removed, answers, rows, faults>>

\* Faulty: goes on after a batch that failed.
IndexBatchRegardless(i) ==
    /\ next[i] \in 1..Parts
    /\ next' = [next EXCEPT ![i] = @ + 1]
    /\ \/ points' = points \cup Batch(i) /\ UNCHANGED faults
       \/ Fault /\ UNCHANGED points
    /\ UNCHANGED <<removed, broken, answers, rows>>

IndexBatch(i) ==
    /\ next[i] \in 1..Parts /\ i \notin broken
    /\ \/ /\ points' = points \cup Batch(i)
          /\ next' = [next EXCEPT ![i] = @ + 1]
          /\ UNCHANGED <<broken, faults>>
       \/ /\ Fault
          /\ points' \in {points, points \cup Batch(i)}
          /\ broken' = broken \cup {i} /\ UNCHANGED next
    /\ UNCHANGED <<removed, answers, rows>>

\* delete_document: every chunk of the document, whoever indexed it.
DeleteDocument(d) ==
    /\ \E p \in points : p.doc = d
    /\ points' = {p \in points : p.doc # d}
    /\ removed' = removed \cup {i \in Indexing : next[i] # 0 /\ Subject[i].doc = d}
    /\ UNCHANGED <<next, broken, answers, rows, faults>>

-----------------------------------------------------------------------------
\* Answers

Goto(r, label) == pc' = [pc EXCEPT ![r] = label]

\* A hit is served as it is, whatever language it was made in.  A cache that
\* fails is a cache that has nothing.
Lookup(r) ==
    /\ pc[r] = "idle" /\ asked[r] # None
    /\ \/ cache[asked[r].question] = None /\ Goto(r, "retrieve") /\ UNCHANGED faults
       \/ Fault /\ Goto(r, "retrieve")
    /\ UNCHANGED <<asked, found, cache, sweep, due, old, store, rows>>

\* The language is a filter in English and French only.
Matching(r) == {p \in points : asked[r].language \in Filtered => p.language = asked[r].language}

Retrieve(r) ==
    /\ pc[r] = "retrieve"
    /\ \/ \E chunks \in (SUBSET Matching(r)) \ {{}} :
             /\ found' = [found EXCEPT ![r] = {p.doc : p \in chunks}]
             /\ Goto(r, "generate")
       \/ Goto(r, "idle") /\ UNCHANGED found   \* nothing near enough, or Qdrant fails
    /\ UNCHANGED <<asked, cache, sweep, due, old, store, rows, faults>>

Generate(r) ==
    /\ pc[r] = "generate"
    /\ \/ Goto(r, "cache") /\ UNCHANGED found
       \/ Goto(r, "idle") /\ found' = [found EXCEPT ![r] = {}]
    /\ UNCHANGED <<asked, cache, sweep, due, old, store, rows, faults>>

\* set_rag_response; an answer that the output validator replaced is cached too.
\* A command that fails may have been carried out.
CacheAnswer(r) ==
    /\ pc[r] = "cache" /\ Goto(r, "idle")
    /\ found' = [found EXCEPT ![r] = {}]
    /\ \/ /\ cache' = [cache EXCEPT ![asked[r].question] = found[r]]
          /\ old' = old \ {asked[r].question}
       \/ Fault /\ UNCHANGED <<cache, old>>
    /\ Fault \/ UNCHANGED faults
    /\ UNCHANGED <<asked, sweep, due, store, rows>>

Drops(q) == cache' = [cache EXCEPT ![q] = None] /\ old' = old \ {q}

\* Faulty: an answer is cached without a time to live.
LapseNever(q) == cache[q] # None /\ FALSE /\ UNCHANGED vars

\* CACHE_RAG_TTL_SECONDS are over.
Lapse(q) ==
    /\ cache[q] # None /\ Drops(q)
    /\ UNCHANGED <<asked, pc, found, sweep, due, store, rows, faults>>

\* invalidate_rag_cache: SCAN comes by every key that is there all the time.
Sweep ==
    /\ sweep # "scan"
    /\ sweep' = "scan" /\ due' = Question
    /\ old' = {q \in Question : cache[q] # None}
    /\ UNCHANGED <<asked, pc, found, cache, store, rows, faults>>

\* Faulty: the end of the scan is seen before its last page is deleted.
SweepKeyUnlessLast(q) ==
    /\ sweep = "scan" /\ q \in due
    /\ due' = due \ {q}
    /\ IF due' = {} THEN UNCHANGED <<cache, old>> ELSE Drops(q)
    /\ sweep' = IF due' = {} THEN "done" ELSE "scan"
    /\ UNCHANGED <<asked, pc, found, store, rows, faults>>

\* The keys of a page are deleted, and the scan goes on unless it is through.
SweepKey(q) ==
    /\ sweep = "scan" /\ q \in due
    /\ Drops(q) /\ due' = due \ {q}
    /\ sweep' = IF due' = {} THEN "done" ELSE "scan"
    /\ UNCHANGED <<asked, pc, found, store, rows, faults>>

SweepFails ==
    /\ sweep = "scan" /\ Fault
    /\ sweep' = "idle" /\ due' = {}
    /\ UNCHANGED <<asked, pc, found, cache, old, store, rows>>

-----------------------------------------------------------------------------
\* Rows: an UPDATE sees what is committed and a transaction holds one statement
\* that writes, so that the UPDATE and the commit are one step.

Done(w) == step' = [step EXCEPT ![w] = "done"] /\ UNCHANGED <<seen, op>>

UpdateIndexingStatus(w) ==
    /\ step[w] = "start" /\ op[w] \in {"start", "finish", "fail"} /\ Done(w)
    /\ row' = [row EXCEPT !.status = CASE op[w] = "start"  -> "indexing"
                                       [] op[w] = "finish" -> "active"
                                       [] op[w] = "fail"   -> "error"]
    /\ UNCHANGED <<retired, recorded, store, answers, faults>>

\* Faulty: only the status is written.
DeprecateStatus(w) ==
    /\ step[w] = "start" /\ op[w] = "deprecate" /\ Done(w)
    /\ row' = [row EXCEPT !.status = "deprecated"]
    /\ retired' = TRUE
    /\ UNCHANGED <<recorded, store, answers, faults>>

DeprecateDocument(w) ==
    /\ step[w] = "start" /\ op[w] = "deprecate" /\ Done(w)
    /\ row' = [row EXCEPT !.status = "deprecated", !.public = FALSE]
    /\ retired' = TRUE
    /\ UNCHANGED <<recorded, store, answers, faults>>

\* record_retrieval reads the count, adds one to it and writes it.
ReadRetrievals(w) ==
    /\ step[w] = "start" /\ op[w] = "retrieve"
    /\ seen' = [seen EXCEPT ![w] = row.times]
    /\ step' = [step EXCEPT ![w] = "write"]
    /\ UNCHANGED <<row, op, retired, recorded, store, answers, faults>>

\* Faulty: one is added to the count in the row, which may have grown, and to what was read.
RecordRetrievalTwice(w) ==
    /\ step[w] = "write" /\ Done(w)
    /\ row' = [row EXCEPT !.times = @ + seen[w] + 1]
    /\ recorded' = recorded + 1
    /\ UNCHANGED <<retired, store, answers, faults>>

RecordRetrieval(w) ==
    /\ step[w] = "write" /\ Done(w)
    /\ row' = [row EXCEPT !.times = seen[w] + 1]
    /\ recorded' = recorded + 1
    /\ UNCHANGED <<retired, store, answers, faults>>

-----------------------------------------------------------------------------
Answering(r) == Lookup(r) \/ Retrieve(r) \/ Generate(r) \/ CacheAnswer(r)

Next ==
    \/ \E i \in Indexing : Begin(i) \/ IndexBatch(i)
    \/ \E d \in Doc : DeleteDocument(d)
    \/ \E r \in Request : Answering(r)
    \/ Sweep \/ SweepFails
    \/ \E q \in Question : Lapse(q) \/ SweepKey(q)
    \/ \E w \in Write : \/ UpdateIndexingStatus(w) \/ DeprecateDocument(w)
                        \/ ReadRetrievals(w) \/ RecordRetrieval(w)

\* Requests end, as their calls have timeouts, and keys lapse.
Fairness ==
    /\ \A r \in Request : WF_vars(pc[r] # "idle" /\ Answering(r))
    /\ \A q \in Question : WF_vars(Lapse(q))

Spec == Init /\ [][Next]_vars
FairSpec == Spec /\ Fairness

-----------------------------------------------------------------------------
TypeOK ==
    /\ points \subseteq Point
    /\ next \in [Indexing -> 0..Parts + 1]
    /\ asked \in [Request -> Asked \cup {None}]
    /\ pc \in [Request -> {"idle", "retrieve", "generate", "cache"}]
    /\ found \in [Request -> SUBSET Doc]
    /\ cache \in [Question -> ((SUBSET Doc) \ {{}}) \cup {None}]
    /\ sweep \in {"idle", "scan", "done"} /\ due \subseteq Question /\ old \subseteq Question
    /\ row \in Row /\ op \in [Write -> Operation \cup {None}]
    /\ step \in [Write -> {"start", "write", "done"}] /\ seen \in [Write -> Nat]
    /\ faults \in 0..MaxFaults
    /\ broken \subseteq Indexing /\ removed \subseteq Indexing
    /\ retired \in BOOLEAN /\ recorded \in Nat

\* A document whose indexing came to its end is in the store with all of its
\* batches, whatever else is indexed or fails meanwhile, unless it was deleted
\* while or after it was indexed.  (rag_service.py:281-328)
IndexedInFull ==
    \A i \in Indexing : next[i] > Parts /\ i \notin removed =>
        {p.part : p \in {x \in points : x.by = i}} = 1..Parts

\* A sweep that came to its end left no answer that was cached when it began;
\* what requests under way cached meanwhile may be there.
\* (redis_cache.py:998-1029)
SweepsAreThorough == sweep = "done" => old = {}

\* A document that has been deprecated is not offered again, even when an
\* indexing run that was under way reports its end afterwards.
\* (knowledge_repository.py:117-130, 147-169, 242-255)
DeprecatedStaysHidden == retired => ~(row.status = "active" /\ row.public)

\* The count of retrievals loses some that ran at once, and never invents any.
\* (knowledge_repository.py:199-229)
RetrievalsAreNotInvented == row.times <= recorded /\ (recorded > 0 => row.times > 0)

\* A document that is deleted for good is in the end part of no cached answer,
\* although requests that retrieved it before may cache theirs afterwards.
\* (rag_service.py:330-352, chat_service.py:815-977)
DeletedFades ==
    \A d \in Doc : <>[](\A p \in points : p.doc # d)
                   => <>[](\A q \in Question : cache[q] = None \/ d \notin cache[q])
=============================================================================
