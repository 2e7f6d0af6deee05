--------------------------- MODULE EmbeddingIndex ---------------------------
(***************************************************************************)
(* The semantic index of one document: the chunks its last commit wrote,   *)
(* the vectors in document_chunk_embeddings, documents.embedding_status    *)
(* and the document.embed jobs. A job reads the document, its chunks and   *)
(* its vectors in separate statements, calls the provider, and writes the  *)
(* vectors of the chunks it has read; a commit may replace them meanwhile. *)
(* A job is announced to the user (status "queued") before it is published.*)
(* pg-boss gives up on a job that takes too long and retries it, while its *)
(* handler goes on: what that one writes comes late.                       *)
(*                                                                         *)
(* One provider and model are active; a chunk is its content hash, and a   *)
(* vector the hash of the text it was made from.                           *)
(***************************************************************************)
EXTENDS Naturals, FiniteSets

CONSTANTS
    Hashes, None,  \* content hashes; no vector
    MaxChunks,     \* bound on the chunks of a document
    Texts,         \* what a commit may write: a hash for each chunk
    MaxCommits,    \* bound on commits
    Jobs,          \* document.embed jobs there may be at a time
    Users,         \* reembed and reindex requests that may be in flight
    Worker,        \* the processDocument handler of the document
    RetryLimit,    \* PROCESSING_RETRY_LIMIT
    Faults         \* which failures occur

Chunkings == UNION {[1..n -> Hashes] : n \in 0..MaxChunks}

ASSUME TextsAssumption == Texts \subseteq Chunkings
ASSUME NoneAssumption == None \notin Hashes
ASSUME BoundsAssumption == {MaxChunks, MaxCommits, RetryLimit} \subseteq Nat
ASSUME FaultsAssumption == Faults \subseteq {"provider", "outside", "enqueue", "processing", "expiry"}
ASSUME WorkerAssumption == Worker \notin Users

Enqueuers == Users \union {Worker}

VARIABLES
    ready,     \* documents.status = "ready"
    chunks,    \* document_chunks: the content hash at each index
    vectors,   \* document_chunk_embeddings: the content hash at each index
    status,    \* documents.embedding_status
    commits,   \* how many times the document was processed
    epc,       \* each enqueuer's next step
    forced,    \* payload.force of the job each enqueuer is about to publish
    pc,        \* each job: where pg-boss or its handler has it
    force, retries,            \* its payload and its retry count
    late,      \* pg-boss has given up on the job, and its handler runs on
    sawReady, seen, todo, removed,  \* what its handler has read and computed
    abandoned, \* history: since a job was last published, an announced one was not,
               \* or the last one there was ended without a final record
    unserved,  \* history: the job of the present chunks failed to be published
    byHand,    \* history: a user set documents.status since the last commit
    met,       \* history: since a handler was last alone, two ran at a time
    written    \* history: a job wrote vectors of the present chunks

docVars == <<ready, chunks, commits>>
enqueueVars == <<epc, forced>>
handlerVars == <<sawReady, seen, todo, removed>>
jobVars == <<pc, force, retries, late, handlerVars>>
historyVars == <<abandoned, unserved, byHand, met, written>>
vars == <<docVars, vectors, status, enqueueVars, jobVars, historyVars>>

NoChunks == [i \in 1..0 |-> None]

Init ==
    /\ ready = FALSE /\ chunks = NoChunks /\ commits = 0
    /\ vectors = [i \in 1..MaxChunks |-> None]
    /\ status = "not_configured"
    /\ epc = [e \in Enqueuers |-> "idle"]
    /\ forced = [e \in Enqueuers |-> FALSE]
    /\ pc = [j \in Jobs |-> "none"]
    /\ force = [j \in Jobs |-> FALSE]
    /\ retries = [j \in Jobs |-> 0]
    /\ late = [j \in Jobs |-> FALSE]
    /\ sawReady = [j \in Jobs |-> FALSE]
    /\ seen = [j \in Jobs |-> NoChunks]
    /\ todo = [j \in Jobs |-> {}]
    /\ removed = [j \in Jobs |-> {}]
    /\ abandoned = FALSE /\ unserved = FALSE /\ byHand = FALSE /\ met = FALSE /\ written = FALSE

-----------------------------------------------------------------------------
(* processDocument, as far as the index sees it.                           *)

\* Bound: there is a job for every caller that may publish one.
JobsLeft ==
    Cardinality({j \in Jobs : pc[j] # "none"}) + Cardinality({e \in Enqueuers : epc[e] # "idle"})
        < Cardinality(Jobs)

EGoto(e, step) == epc' = [epc EXCEPT ![e] = step]

StartProcessing(f) ==
    /\ epc[Worker] = "idle" /\ commits < MaxCommits /\ JobsLeft
    /\ ready' = FALSE
    /\ forced' = [forced EXCEPT ![Worker] = f]
    /\ EGoto(Worker, "parse")
    /\ UNCHANGED <<chunks, commits, vectors, status, jobVars, historyVars>>

Commit(new) ==
    /\ epc[Worker] = "parse"
    /\ ready' = TRUE /\ chunks' = new /\ commits' = commits + 1
    /\ status' = IF DOMAIN new = {} THEN "ready" ELSE "queued"
    /\ unserved' = FALSE /\ byHand' = FALSE /\ written' = FALSE
    /\ EGoto(Worker, "enqueue")
    /\ UNCHANGED <<vectors, forced, jobVars, abandoned, met>>

\* A failed attempt leaves the document "processing" or "failed". After the
\* commit it takes the chunks as they are, and the job is never announced.
ProcessingFails ==
    /\ "processing" \in Faults
    /\ epc[Worker] \in {"parse", "enqueue"}
    /\ ready' = FALSE
    /\ EGoto(Worker, "idle")
    /\ UNCHANGED <<chunks, commits, vectors, status, forced, jobVars, historyVars>>

\* A PATCH may set the document's status to any value at any time.
SetStatus ==
    /\ ready' = ~ready
    /\ byHand' = TRUE
    /\ UNCHANGED <<chunks, commits, vectors, status, enqueueVars, jobVars, abandoned, unserved, met,
                   written>>

-----------------------------------------------------------------------------
(* enqueueDocumentEmbedding, called after a commit, by reembedDocument and  *)
(* by reindexEmbeddings.                                                    *)

Reembed(u) ==
    /\ epc[u] = "idle" /\ ready /\ JobsLeft
    /\ forced' = [forced EXCEPT ![u] = TRUE]
    /\ EGoto(u, "enqueue")
    /\ UNCHANGED <<docVars, vectors, status, jobVars, historyVars>>

CheckDocument(e) ==
    /\ epc[e] = "enqueue"
    /\ EGoto(e, IF ready /\ DOMAIN chunks # {} THEN "announce" ELSE "idle")
    /\ UNCHANGED <<docVars, vectors, status, forced, jobVars, historyVars>>

\* INSERT processing_jobs; UPDATE documents.
Announce(e) ==
    /\ epc[e] = "announce"
    /\ status' = "queued"
    /\ EGoto(e, "publish")
    /\ UNCHANGED <<docVars, vectors, forced, jobVars, historyVars>>

\* A job has no identity before it is published.
FreeJob == CHOOSE j \in Jobs : pc[j] = "none"

Publish(e) ==
    /\ epc[e] = "publish" /\ \E j \in Jobs : pc[j] = "none"
    /\ pc' = [pc EXCEPT ![FreeJob] = "created"]
    /\ force' = [force EXCEPT ![FreeJob] = forced[e]]
    /\ retries' = [retries EXCEPT ![FreeJob] = 0]
    /\ abandoned' = FALSE /\ unserved' = FALSE
    /\ EGoto(e, "idle") /\ forced' = [forced EXCEPT ![e] = FALSE]
    /\ UNCHANGED <<docVars, vectors, status, late, handlerVars, byHand, met, written>>

\* The worker catches an error and writes "failed"; a request passes it on.
EnqueueFailsUncaught(e) ==  \* mutant: the worker passes it on, too
    /\ "enqueue" \in Faults
    /\ epc[e] \in {"enqueue", "announce", "publish"}
    /\ abandoned' = (abandoned \/ (e # Worker /\ epc[e] = "publish"))
    /\ unserved' = (unserved \/ e = Worker)
    /\ EGoto(e, "idle") /\ forced' = [forced EXCEPT ![e] = FALSE]
    /\ UNCHANGED <<docVars, vectors, status, jobVars, byHand, met, written>>

EnqueueFails(e) ==
    /\ "enqueue" \in Faults
    /\ epc[e] \in {"enqueue", "announce", "publish"}
    /\ status' = IF e = Worker THEN "failed" ELSE status
    /\ abandoned' = (abandoned \/ (e # Worker /\ epc[e] = "publish"))
    /\ unserved' = (unserved \/ e = Worker)
    /\ EGoto(e, "idle") /\ forced' = [forced EXCEPT ![e] = FALSE]
    /\ UNCHANGED <<docVars, vectors, jobVars, byHand, met, written>>

\* The process ends there, after a commit or an announcement.
EnqueueCrashes(e) ==
    /\ "enqueue" \in Faults
    /\ epc[e] \in {"enqueue", "announce", "publish"}
    /\ abandoned' = (abandoned \/ e = Worker \/ epc[e] = "publish")
    /\ EGoto(e, "idle") /\ forced' = [forced EXCEPT ![e] = FALSE]
    /\ UNCHANGED <<docVars, vectors, status, jobVars, unserved, byHand, met, written>>

-----------------------------------------------------------------------------
(* processDocumentEmbedding                                                 *)

Running(j) == pc[j] \in {"document", "chunks", "mark", "unchanged", "vectors", "embed"}
Alive(j) == Running(j) \/ pc[j] \in {"created", "retry"}
Goto(j, step) == pc' = [pc EXCEPT ![j] = step]

Start(j) ==
    /\ pc[j] \in {"created", "retry"}
    /\ retries' = [retries EXCEPT ![j] = IF pc[j] = "retry" THEN @ + 1 ELSE @]
    /\ Goto(j, "document")
    /\ met' = \E k \in Jobs : Running(k)
    /\ written' = (written /\ ~met)
    /\ UNCHANGED <<docVars, vectors, status, enqueueVars, force, late, handlerVars, abandoned,
                   unserved, byHand>>

ReadDocument(j) ==
    /\ pc[j] = "document"
    /\ sawReady' = [sawReady EXCEPT ![j] = ready]
    /\ Goto(j, "chunks")
    /\ UNCHANGED <<docVars, vectors, status, enqueueVars, force, retries, late,
                   seen, todo, removed, historyVars>>

ReadChunks(j) ==
    /\ pc[j] = "chunks"
    /\ seen' = [seen EXCEPT ![j] = chunks]
    /\ Goto(j, "mark")
    /\ UNCHANGED <<docVars, vectors, status, enqueueVars, force, retries, late,
                   sawReady, todo, removed, historyVars>>

MarkIndexing(j) ==
    /\ pc[j] = "mark"
    /\ status' = "indexing"
    /\ Goto(j, IF sawReady[j] /\ DOMAIN seen[j] # {} THEN "vectors" ELSE "unchanged")
    /\ UNCHANGED <<docVars, vectors, enqueueVars, force, retries, late, handlerVars, historyVars>>

\* What a handler knows ends with it.
Forget(j) ==
    /\ late' = [late EXCEPT ![j] = FALSE]
    /\ sawReady' = [sawReady EXCEPT ![j] = FALSE]
    /\ seen' = [seen EXCEPT ![j] = NoChunks]
    /\ todo' = [todo EXCEPT ![j] = {}]
    /\ removed' = [removed EXCEPT ![j] = {}]

CompleteWithoutChanges(j) ==
    /\ pc[j] = "unchanged"
    /\ status' = "ready"
    /\ Goto(j, "none") /\ Forget(j)
    /\ UNCHANGED <<docVars, vectors, enqueueVars, force, retries, historyVars>>

\* A vector is stale when it was not made from the text of its chunk.
AnyVector(j, i) == force[j] \/ vectors[i] = None  \* mutant: an old vector will do
Stale(j, i) == force[j] \/ vectors[i] # seen[j][i]

AnyIndexed(j) == {i \in DOMAIN vectors : vectors[i] # None}  \* mutant: no filter by the chunks
Gone(j) == {i \in DOMAIN vectors \ DOMAIN seen[j] : vectors[i] # None}

ReadVectors(j) ==
    /\ pc[j] = "vectors"
    /\ todo' = [todo EXCEPT ![j] = {i \in DOMAIN seen[j] : Stale(j, i)}]
    /\ removed' = [removed EXCEPT ![j] = Gone(j)]
    /\ Goto(j, "embed")
    /\ UNCHANGED <<docVars, vectors, status, enqueueVars, force, retries, late,
                   sawReady, seen, historyVars>>

\* The vectors of chunks that are gone are deleted beside those that are written;
\* with nothing to write they stay.
Write(j) ==
    /\ pc[j] = "embed"
    /\ vectors' = IF todo[j] = {} THEN vectors
                  ELSE [i \in 1..MaxChunks |->
                           IF i \in removed[j] THEN None
                           ELSE IF i \in todo[j] THEN seen[j][i] ELSE vectors[i]]
    /\ status' = "ready"
    /\ written' = (written \/ (todo[j] # {} /\ seen[j] = chunks))
    /\ Goto(j, "none") /\ Forget(j)
    /\ UNCHANGED <<docVars, enqueueVars, force, retries, abandoned, unserved, byHand, met>>

\* pg-boss retries the job, if retries are left; a job it gave up on has its retry.
EndEarly(j) ==  \* mutant: the retry limit of the queue is not that of the handler
    Goto(j, IF retries[j] + 1 < RetryLimit /\ ~late[j] THEN "retry" ELSE "none") /\ Forget(j)
End(j) == Goto(j, IF retries[j] < RetryLimit /\ ~late[j] THEN "retry" ELSE "none") /\ Forget(j)
LastOne(j) == \A k \in Jobs \ {j} : ~Alive(k)

\* The provider or the transaction fails: handleRetryableEmbeddingFailure, or
\* handleFinalEmbeddingFailure. Late, the former announces a retry that may be over.
RetriesForever(j) == FALSE  \* mutant: the handler never finds itself exhausted
Exhausted(j) == retries[j] >= RetryLimit

Fails(j) ==
    /\ "provider" \in Faults
    /\ pc[j] = "embed"
    /\ status' = IF Exhausted(j) THEN "failed" ELSE "queued"
    /\ abandoned' = (abandoned \/ (late[j] /\ retries[j] < RetryLimit /\ LastOne(j)))
    /\ End(j)
    /\ UNCHANGED <<docVars, vectors, enqueueVars, force, retries, unserved, byHand, met, written>>

\* A statement before the try fails, or the worker dies: nothing is recorded and
\* pg-boss retries the job or gives it up.
Dies(j) ==
    /\ "outside" \in Faults
    /\ Running(j)
    /\ abandoned' = (abandoned \/ retries[j] >= RetryLimit \/ (late[j] /\ LastOne(j)))
    /\ End(j)
    /\ UNCHANGED <<docVars, vectors, status, enqueueVars, force, retries, unserved, byHand, met,
                   written>>

\* The job expires while its handler runs. The bound on jobs spares its retry a slot.
Expire(j) ==
    /\ "expiry" \in Faults
    /\ Running(j) /\ ~late[j]
    /\ late' = [late EXCEPT ![j] = TRUE]
    /\ IF retries[j] < RetryLimit
       THEN /\ JobsLeft /\ \E k \in Jobs : pc[k] = "none"
            /\ pc' = [pc EXCEPT ![FreeJob] = "retry"]
            /\ force' = [force EXCEPT ![FreeJob] = force[j]]
            /\ retries' = [retries EXCEPT ![FreeJob] = retries[j]]
       ELSE UNCHANGED <<pc, force, retries>>
    /\ UNCHANGED <<docVars, vectors, status, enqueueVars, handlerVars, historyVars>>

-----------------------------------------------------------------------------
EnqueueStep(e) == CheckDocument(e) \/ Announce(e) \/ Publish(e)

HandlerStep(j) ==
    \/ Start(j) \/ ReadDocument(j) \/ ReadChunks(j) \/ MarkIndexing(j)
    \/ CompleteWithoutChanges(j) \/ ReadVectors(j) \/ Write(j)

Next ==
    \/ \E f \in BOOLEAN : StartProcessing(f)
    \/ \E new \in Texts : Commit(new)
    \/ ProcessingFails
    \/ SetStatus
    \/ \E u \in Users : Reembed(u)
    \/ \E e \in Enqueuers : EnqueueStep(e) \/ EnqueueFails(e) \/ EnqueueCrashes(e)
    \/ \E j \in Jobs : HandlerStep(j) \/ Fails(j) \/ Dies(j) \/ Expire(j)

Spec == Init /\ [][Next]_vars

\* Workers poll the queue, and a call that does not fail goes on to its end.
FairSpec ==
    /\ Spec
    /\ \A e \in Enqueuers : WF_vars(EnqueueStep(e))
    /\ \A j \in Jobs : WF_vars(HandlerStep(j))

-----------------------------------------------------------------------------
EnqueueSteps == {"idle", "parse", "enqueue", "announce", "publish"}
JobSteps == {"none", "created", "retry", "document", "chunks", "mark", "unchanged",
             "vectors", "embed"}
Slots == 1..MaxChunks

\* Types; a job only knows chunks it has read, and a chunk's vector is replaced
\* or removed, never both.
TypeOK ==
    /\ ready \in BOOLEAN /\ chunks \in Chunkings /\ commits \in 0..MaxCommits
    /\ vectors \in [Slots -> Hashes \union {None}]
    /\ status \in {"not_configured", "queued", "indexing", "ready", "failed"}
    /\ epc \in [Enqueuers -> EnqueueSteps] /\ forced \in [Enqueuers -> BOOLEAN]
    /\ pc \in [Jobs -> JobSteps] /\ force \in [Jobs -> BOOLEAN]
    /\ retries \in [Jobs -> 0..RetryLimit] /\ late \in [Jobs -> BOOLEAN]
    /\ sawReady \in [Jobs -> BOOLEAN] /\ seen \in [Jobs -> Chunkings]
    /\ todo \in [Jobs -> SUBSET Slots] /\ removed \in [Jobs -> SUBSET Slots]
    /\ \A j \in Jobs : todo[j] \subseteq DOMAIN seen[j] /\ removed[j] \intersect DOMAIN seen[j] = {}
    /\ abandoned \in BOOLEAN /\ unserved \in BOOLEAN /\ byHand \in BOOLEAN /\ met \in BOOLEAN /\ written \in BOOLEAN

Pending == status \in {"queued", "indexing"}

\* A ready document that shows "queued" or "indexing" has a job that will end it,
\* or a caller about to publish one, whatever fails, expires or comes late. The
\* exceptions: since the last publish a process died between the announcement and the
\* publish, or the last job ended without a final record (died for good, or late);
\* or a user made the document ready by hand.
PendingHasJob ==
    ready /\ Pending /\ ~abandoned /\ ~byHand =>
        \/ \E j \in Jobs : Alive(j)
        \/ \E e \in Enqueuers : epc[e] \in {"enqueue", "announce", "publish"}

\* Nothing is left to do, and nothing went wrong that is not shown.
Settled ==
    /\ ready /\ status = "ready" /\ ~abandoned /\ ~unserved /\ ~byHand /\ ~met
    /\ \A j \in Jobs : ~Alive(j)
    /\ \A e \in Enqueuers : epc[e] = "idle"

\* However commits, retries and requests interleave with a job, when the work is
\* done every chunk has the vector of its text; and if vectors of this text had
\* to be written, none of an earlier, longer text is left to be found.
SettledIsIndexed ==
    Settled =>
        /\ \A i \in DOMAIN chunks : vectors[i] = chunks[i]
        /\ written => \A i \in Slots \ DOMAIN chunks : vectors[i] = None

\* A document does not show "queued" or "indexing" for ever, with the exceptions of
\* PendingHasJob.
PendingEnds == ready /\ Pending ~> ~Pending \/ ~ready \/ abandoned \/ byHand
=============================================================================
