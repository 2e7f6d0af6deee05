-------------------------- MODULE DocumentPipeline --------------------------
(***************************************************************************)
(* The processing pipeline of one archive: the status of every document,   *)
(* the processing_jobs rows the user interface reads, the pg-boss queue,   *)
(* the processDocument handlers of the workers, the API requests that      *)
(* upload, requeue, reprocess, edit and delete documents, and the reaper   *)
(* that rescues documents stuck in "processing".                           *)
(*                                                                         *)
(* Every database statement or transaction is one step, so handlers,       *)
(* requests and the reaper interleave between any two of their statements. *)
(* What a document contains (text, fields, pages, embeddings) is left out: *)
(* no guard of these operations reads it.                                  *)
(***************************************************************************)
EXTENDS Naturals, FiniteSets

CONSTANTS
    Docs,            \* documents.id
    Jobs,            \* processing_jobs.id of the document.process queue
    Handlers,        \* processDocument invocations that may be in flight
    Requests,        \* API requests that may be in flight
    Reapers,         \* worker processes, each with its reaper timer
    RetryLimit,      \* PROCESSING_RETRY_LIMIT, also given to pg-boss
    PatchStatuses,   \* values of "status" clients send with PATCH
    Faults,          \* which failures the environment may produce
    Edits,           \* which edits users make besides requests: "patch", "resolve"
    NoDoc, NoJob

FaultKinds == {"crash",    \* a worker or API process dies between two steps
               "outside",  \* a step fails and no failure handler records it
               "expiry"}   \* a handler outlives pg-boss's job expiry

ASSUME RetryLimitAssumption == RetryLimit \in Nat
ASSUME EditsAssumption == Edits \subseteq {"patch", "resolve"}
ASSUME FaultsAssumption == Faults \subseteq FaultKinds
ASSUME NullAssumption == NoDoc \notin Docs /\ NoJob \notin Jobs

DocumentStatus == {"pending", "processing", "ready", "failed"}
ReviewStatus == {"not_required", "pending", "resolved"}
RowStatus == {"none", "queued", "running", "completed", "failed", "gone"}
BossState == {"none", "created", "active", "retry", "completed", "failed"}
HandlerPc == {"idle", "read", "mark", "markJob", "download", "work", "post", "throw"}
RequestPc == {"idle", "stale", "staleQueue", "reset", "touch", "insert",
              "publish", "delete"}
ReaperPc == {"idle", "check", "claim"}

ASSUME PatchAssumption == PatchStatuses \subseteq DocumentStatus

VARIABLES
    status,    \* documents.status, "absent" before the upload and after a delete
    review,    \* documents.review_status
    aged,      \* documents whose updated_at is PROCESSING_STALE_MINUTES old
    row,       \* processing_jobs.status, "gone" once the delete cascaded
    jobDoc,    \* processing_jobs.document_id and the document of the queue job
    boss,      \* pg-boss job state
    retries,   \* pg-boss retry count
    hpc, hjob, \* each handler's next step and job
    hretry,    \* the retry count it was started with
    attached,  \* handlers whose outcome pg-boss still waits for
    rpc, rdoc, rop, rjob,  \* each request's next step, document, kind and row
    ppc,       \* each reaper's next step
    old,       \* documents older than the cutoff of its running pass
    todo,      \* candidates that pass has not looked at yet
    cand,      \* the candidate it is about to claim
    disrupted  \* history: documents whose status was patched, or whose attempt or
               \* request crashed, expired or failed without a record

docVars == <<status, review, aged, old>>
rowVars == <<row, jobDoc>>
bossVars == <<boss, retries>>
handlerVars == <<hpc, hjob, hretry, attached>>
requestVars == <<rpc, rdoc, rop, rjob>>
reaperVars == <<ppc, todo, cand>>
vars == <<docVars, rowVars, bossVars, handlerVars, requestVars, reaperVars, disrupted>>

Init ==
    /\ status = [d \in Docs |-> "absent"]
    /\ review = [d \in Docs |-> "not_required"]
    /\ aged = {}
    /\ row = [j \in Jobs |-> "none"]
    /\ jobDoc = [j \in Jobs |-> NoDoc]
    /\ boss = [j \in Jobs |-> "none"]
    /\ retries = [j \in Jobs |-> 0]
    /\ hpc = [w \in Handlers |-> "idle"]
    /\ hjob = [w \in Handlers |-> NoJob]
    /\ hretry = [w \in Handlers |-> 0]
    /\ attached = {}
    /\ rpc = [r \in Requests |-> "idle"]
    /\ rdoc = [r \in Requests |-> NoDoc]
    /\ rop = [r \in Requests |-> "none"]
    /\ rjob = [r \in Requests |-> NoJob]
    /\ ppc = [p \in Reapers |-> "idle"]
    /\ old = [p \in Reapers |-> {}]
    /\ todo = [p \in Reapers |-> {}]
    /\ cand = [p \in Reapers |-> NoDoc]
    /\ disrupted = {}

-----------------------------------------------------------------------------
(* Statements the operations share.                                        *)

Exists(d) == d \in Docs /\ status[d] # "absent"

\* updated_at = now(): d is young again, and younger than every cutoff in use.
Refresh(d) ==
    /\ aged' = aged \ {d}
    /\ old' = [p \in Reapers |-> old[p] \ {d}]

\* UPDATE documents SET status, review_status, updated_at WHERE id = d
UpdateDoc(d, s, v) ==
    /\ status' = IF Exists(d) THEN [status EXCEPT ![d] = s] ELSE status
    /\ review' = IF Exists(d) THEN [review EXCEPT ![d] = v] ELSE review
    /\ Refresh(d)

UpdateRow(j, s) ==
    row' = IF row[j] = "gone" THEN row ELSE [row EXCEPT ![j] = s]

\* hasActiveJobForDocument
LiveState == {"created", "retry", "active"}
HasActiveJobEver(d) == \E j \in Jobs : jobDoc[j] = d /\ boss[j] # "none"  \* mutant
HasActiveJob(d) == \E j \in Jobs : jobDoc[j] = d /\ boss[j] \in LiveState

\* What pg-boss makes of a failed or expired attempt.
FailedState(j) == IF retries[j] < RetryLimit THEN "retry" ELSE "failed"

Disrupt(d) == disrupted' = disrupted \union {d}

Goto(w, pc) == hpc' = [hpc EXCEPT ![w] = pc]
RGoto(r, pc) == rpc' = [rpc EXCEPT ![r] = pc]

-----------------------------------------------------------------------------
(* processDocument, one invocation per handler slot.                       *)

\* The retry count pg-boss gives the attempt it starts next. BossService.work
\* hands it to the handler; the published payload always says 0.
AttemptCount(j) == IF boss[j] = "retry" THEN retries[j] + 1 ELSE retries[j]
PayloadRetryCount(j) == 0  \* mutant
AttemptNumber(j) == AttemptCount(j) + 1  \* mutant: counted from one
HandedRetryCount(j) == AttemptCount(j)

Fetch(w, j) ==
    /\ hpc[w] = "idle"
    /\ boss[j] \in {"created", "retry"}
    /\ boss' = [boss EXCEPT ![j] = "active"]
    /\ retries' = [retries EXCEPT ![j] = AttemptCount(j)]
    /\ Goto(w, "read")
    /\ hjob' = [hjob EXCEPT ![w] = j]
    /\ hretry' = [hretry EXCEPT ![w] = HandedRetryCount(j)]
    /\ attached' = attached \union {w}
    /\ UNCHANGED <<docVars, rowVars, requestVars, reaperVars, disrupted>>

ReadDocument(w) ==
    /\ hpc[w] = "read"
    /\ Goto(w, IF Exists(jobDoc[hjob[w]]) THEN "mark" ELSE "throw")
    /\ UNCHANGED <<docVars, rowVars, bossVars, hjob, hretry, attached,
                   requestVars, reaperVars, disrupted>>

\* markProcessing writes the document and the job row in two statements.
MarkDocument(w) ==
    LET d == jobDoc[hjob[w]] IN
    /\ hpc[w] = "mark"
    /\ UpdateDoc(d, "processing", review[d])
    /\ Goto(w, "markJob")
    /\ UNCHANGED <<rowVars, bossVars, hjob, hretry, attached,
                   requestVars, reaperVars, disrupted>>

MarkJob(w) ==
    /\ hpc[w] = "markJob"
    /\ UpdateRow(hjob[w], "running")
    /\ Goto(w, "download")
    /\ UNCHANGED <<docVars, jobDoc, bossVars, hjob, hretry, attached,
                   requestVars, reaperVars, disrupted>>

\* The original reaches the worker's disk.
Download(w) ==
    /\ hpc[w] = "download"
    /\ Goto(w, "work")
    /\ UNCHANGED <<docVars, rowVars, bossVars, hjob, hretry, attached,
                   requestVars, reaperVars, disrupted>>

\* Parsing and extraction write nothing modelled here; the transaction then
\* publishes the result. For a deleted document its inserts break their foreign
\* keys.
Commit(w, v) ==
    LET d == jobDoc[hjob[w]] IN
    /\ hpc[w] = "work"
    /\ v \in {"pending", "not_required"}
    /\ Exists(d)
    /\ UpdateDoc(d, "ready", v)
    /\ UpdateRow(hjob[w], "completed")
    /\ Goto(w, "post")
    /\ UNCHANGED <<jobDoc, bossVars, hjob, hretry, attached,
                   requestVars, reaperVars, disrupted>>

\* Reading the document, marking it and downloading it happen before the try,
\* and the failure handlers may themselves fail: the error reaches pg-boss with
\* nothing recorded. A failure handler always fails for a deleted document,
\* whose audit row breaks its foreign key.
FailUnrecorded(w) ==
    /\ \/ "outside" \in Faults /\ hpc[w] \notin {"idle", "throw"}
       \/ hpc[w] \in {"work", "post"} /\ ~Exists(jobDoc[hjob[w]])
    /\ Goto(w, "throw")
    /\ Disrupt(jobDoc[hjob[w]])
    /\ UNCHANGED <<docVars, rowVars, bossVars, hjob, hretry, attached,
                   requestVars, reaperVars>>

\* The catch block. Anything in the try may throw, also what follows the commit:
\* aliases, the intelligence refresh and the embedding job.
IsFinalFailureLate(w) == hretry[w] > RetryLimit  \* mutant
IsFinalFailureEarly(w) == hretry[w] + 1 >= RetryLimit  \* mutant
IsFinalFailure(w) == hretry[w] >= RetryLimit

HandleRetryableFailure(w) ==
    LET d == jobDoc[hjob[w]] IN
    /\ hpc[w] \in {"work", "post"}
    /\ ~IsFinalFailure(w)
    /\ Exists(d)
    /\ UpdateDoc(d, "processing", "not_required")
    /\ UpdateRow(hjob[w], "running")
    /\ Goto(w, "throw")
    /\ UNCHANGED <<jobDoc, bossVars, hjob, hretry, attached,
                   requestVars, reaperVars, disrupted>>

HandleFinalFailure(w) ==
    LET d == jobDoc[hjob[w]] IN
    /\ hpc[w] \in {"work", "post"}
    /\ IsFinalFailure(w)
    /\ Exists(d)
    /\ UpdateDoc(d, "failed", "pending")
    /\ UpdateRow(hjob[w], "failed")
    /\ Goto(w, "throw")
    /\ UNCHANGED <<jobDoc, bossVars, hjob, hretry, attached,
                   requestVars, reaperVars, disrupted>>

\* The handler is over; pg-boss hears of it only while it still waits.
Release(w) ==
    /\ Goto(w, "idle")
    /\ hjob' = [hjob EXCEPT ![w] = NoJob]
    /\ hretry' = [hretry EXCEPT ![w] = 0]
    /\ attached' = attached \ {w}
    /\ UNCHANGED <<docVars, rowVars, retries, requestVars, reaperVars>>

Return(w) ==
    /\ hpc[w] = "post"
    /\ boss' = IF w \in attached THEN [boss EXCEPT ![hjob[w]] = "completed"] ELSE boss
    /\ Release(w)
    /\ UNCHANGED disrupted

Throw(w) ==
    /\ hpc[w] = "throw"
    /\ boss' = IF w \in attached THEN [boss EXCEPT ![hjob[w]] = FailedState(hjob[w])] ELSE boss
    /\ Release(w)
    /\ UNCHANGED disrupted

\* The worker process dies: the handler is gone, its job stays "active".
WorkerCrash(w) ==
    /\ "crash" \in Faults
    /\ hpc[w] # "idle"
    /\ boss' = boss
    /\ Release(w)
    /\ Disrupt(jobDoc[hjob[w]])

\* pg-boss gives up on an active job: nobody runs it any more, or its handler is
\* too slow, in which case the handler goes on without being listened to.
ExpireJob(j) ==
    /\ boss[j] = "active"
    /\ "expiry" \in Faults \/ \A w \in attached : hjob[w] # j
    /\ boss' = [boss EXCEPT ![j] = FailedState(j)]
    /\ attached' = {w \in attached : hjob[w] # j}
    /\ Disrupt(jobDoc[j])
    /\ UNCHANGED <<docVars, rowVars, retries, hpc, hjob, hretry,
                   requestVars, reaperVars>>

-----------------------------------------------------------------------------
(* API requests. Each is a sequence of statements of one request slot.     *)

Done(r) ==
    /\ RGoto(r, "idle")
    /\ rdoc' = [rdoc EXCEPT ![r] = NoDoc]
    /\ rop' = [rop EXCEPT ![r] = "none"]
    /\ rjob' = [rjob EXCEPT ![r] = NoJob]

\* Bound on Jobs: a request starts only while there is a free row for it.
RowBudget ==
    Cardinality({q \in Requests : rop[q] \notin {"none", "delete"}})
        < Cardinality({j \in Jobs : row[j] = "none"})

\* uploadDocument inserts the document and goes on to enqueue it.
UploadDocument(r, d) ==
    /\ rpc[r] = "idle"
    /\ RowBudget
    /\ status[d] = "absent"
    /\ \A j \in Jobs : jobDoc[j] # d
    /\ \A q \in Requests : rdoc[q] # d
    /\ status' = [status EXCEPT ![d] = "pending"]
    /\ review' = [review EXCEPT ![d] = "not_required"]
    /\ Refresh(d)
    /\ RGoto(r, "touch")
    /\ rdoc' = [rdoc EXCEPT ![r] = d]
    /\ rop' = [rop EXCEPT ![r] = "upload"]
    /\ UNCHANGED <<rowVars, bossVars, handlerVars, rjob, reaperVars, disrupted>>

\* requeueReview, reprocessDocument and batchReprocessDocuments read the status;
\* only a document that is processing is looked at more closely.
RequestReprocess(r, d, op) ==
    /\ rpc[r] = "idle"
    /\ RowBudget
    /\ Exists(d)
    /\ RGoto(r, IF status[d] = "processing" THEN "stale"
                ELSE IF op = "requeue" THEN "reset" ELSE "touch")
    /\ rdoc' = [rdoc EXCEPT ![r] = d]
    /\ rop' = [rop EXCEPT ![r] = op]
    /\ UNCHANGED <<docVars, rowVars, bossVars, handlerVars, rjob, reaperVars, disrupted>>

\* isDocumentProcessingStale reads the row again, then asks the queue.
ReadStale(r) ==
    /\ rpc[r] = "stale"
    /\ IF status[rdoc[r]] = "processing" /\ rdoc[r] \in aged
       THEN RGoto(r, "staleQueue") /\ UNCHANGED <<rdoc, rop, rjob>>
       ELSE Done(r)
    /\ UNCHANGED <<docVars, rowVars, bossVars, handlerVars, reaperVars, disrupted>>

AskStaleQueue(r) ==
    /\ rpc[r] = "staleQueue"
    /\ IF HasActiveJob(rdoc[r])
       THEN Done(r)
       ELSE /\ RGoto(r, IF rop[r] = "requeue" THEN "reset" ELSE "touch")
            /\ UNCHANGED <<rdoc, rop, rjob>>
    /\ UNCHANGED <<docVars, rowVars, bossVars, handlerVars, reaperVars, disrupted>>

\* requeueReview clears the review before it enqueues.
ResetReview(r) ==
    LET d == rdoc[r] IN
    /\ rpc[r] = "reset"
    /\ UpdateDoc(d, status[d], "not_required")
    /\ RGoto(r, "touch")
    /\ UNCHANGED <<rowVars, bossVars, handlerVars, rdoc, rop, rjob, reaperVars, disrupted>>

\* enqueueDocumentProcessing: refresh updated_at, insert the row, publish.
EnqueueTouch(r) ==
    /\ rpc[r] = "touch"
    /\ Refresh(rdoc[r])
    /\ RGoto(r, "insert")
    /\ UNCHANGED <<status, review, rowVars, bossVars, handlerVars, rdoc, rop, rjob, reaperVars, disrupted>>

EnqueueInsert(r, j) ==
    /\ rpc[r] = "insert"
    /\ Exists(rdoc[r])
    /\ row[j] = "none"
    /\ row' = [row EXCEPT ![j] = "queued"]
    /\ jobDoc' = [jobDoc EXCEPT ![j] = rdoc[r]]
    /\ RGoto(r, "publish")
    /\ rjob' = [rjob EXCEPT ![r] = j]
    /\ UNCHANGED <<docVars, bossVars, handlerVars, rdoc, rop, reaperVars, disrupted>>

EnqueuePublishUnchecked(r) ==  \* mutant: a throttled publish taken for success
    /\ rpc[r] = "publish"
    /\ boss' = IF HasActiveJobEver(rdoc[r]) THEN boss ELSE [boss EXCEPT ![rjob[r]] = "created"]
    /\ Done(r)
    /\ UNCHANGED <<docVars, rowVars, retries, handlerVars, reaperVars, disrupted>>

EnqueuePublish(r) ==
    /\ rpc[r] = "publish"
    /\ boss' = [boss EXCEPT ![rjob[r]] = "created"]
    /\ Done(r)
    /\ UNCHANGED <<docVars, rowVars, retries, handlerVars, reaperVars, disrupted>>

\* deleteDocument refuses a document that is processing, then deletes it in a
\* transaction that does not look at the status again; the rows cascade.
RequestDelete(r, d) ==
    /\ rpc[r] = "idle"
    /\ Exists(d)
    /\ status[d] # "processing"
    /\ RGoto(r, "delete")
    /\ rdoc' = [rdoc EXCEPT ![r] = d]
    /\ rop' = [rop EXCEPT ![r] = "delete"]
    /\ UNCHANGED <<docVars, rowVars, bossVars, handlerVars, rjob, reaperVars, disrupted>>

DeleteDocument(r) ==
    LET d == rdoc[r] IN
    /\ rpc[r] = "delete"
    /\ status' = [status EXCEPT ![d] = "absent"]
    /\ review' = [review EXCEPT ![d] = "not_required"]
    /\ Refresh(d)
    /\ row' = [j \in Jobs |-> IF jobDoc[j] = d THEN "gone" ELSE row[j]]
    /\ Done(r)
    /\ UNCHANGED <<jobDoc, bossVars, handlerVars, reaperVars, disrupted>>

\* A request ends early: its process dies, or a statement fails. Inserting a job
\* row for a deleted document always fails.
RequestFails(r) ==
    /\ \/ "crash" \in Faults /\ rpc[r] # "idle"
       \/ rpc[r] = "insert" /\ ~Exists(rdoc[r])
    /\ Done(r)
    /\ Disrupt(rdoc[r])
    /\ UNCHANGED <<docVars, rowVars, bossVars, handlerVars, reaperVars>>

\* updateDocument and the bulk edits: a status only when the client sends one.
Patch(d, s) ==
    /\ "patch" \in Edits
    /\ Exists(d)
    /\ s \in PatchStatuses \union {status[d]}
    /\ UpdateDoc(d, s, review[d])
    /\ disrupted' = IF s = status[d] THEN disrupted ELSE disrupted \union {d}
    /\ UNCHANGED <<rowVars, bossVars, handlerVars, requestVars, reaperVars>>

ResolveReview(d) ==
    /\ "resolve" \in Edits
    /\ Exists(d)
    /\ UpdateDoc(d, status[d], "resolved")
    /\ UNCHANGED disrupted
    /\ UNCHANGED <<rowVars, bossVars, handlerVars, requestVars, reaperVars>>

-----------------------------------------------------------------------------
(* The reaper: reapStaleProcessingDocuments on the worker's timer.         *)

\* PROCESSING_STALE_MINUTES pass without a write to d. A request that has
\* refreshed the row publishes its job in well under that time.
Age(d) ==
    /\ Exists(d)
    /\ d \notin aged
    /\ \A r \in Requests : rdoc[r] = d => rpc[r] \notin {"insert", "publish"}
    /\ aged' = aged \union {d}
    /\ UNCHANGED <<status, review, old, rowVars, bossVars, handlerVars,
                   requestVars, reaperVars, disrupted>>

ReapScan(p) ==
    LET stuck == {d \in aged : status[d] = "processing"} IN
    /\ ppc[p] = "idle"
    /\ stuck # {}
    /\ old' = [old EXCEPT ![p] = aged]
    /\ todo' = [todo EXCEPT ![p] = stuck]
    /\ ppc' = [ppc EXCEPT ![p] = "check"]
    /\ UNCHANGED <<status, review, aged, rowVars, bossVars, handlerVars,
                   requestVars, cand, disrupted>>

ReapCheck(p, d) ==
    /\ ppc[p] = "check"
    /\ d \in todo[p]
    /\ todo' = [todo EXCEPT ![p] = @ \ {d}]
    /\ IF HasActiveJob(d)
       THEN UNCHANGED <<ppc, cand>>
       ELSE /\ ppc' = [ppc EXCEPT ![p] = "claim"]
            /\ cand' = [cand EXCEPT ![p] = d]
    /\ UNCHANGED <<docVars, rowVars, bossVars, handlerVars, requestVars, disrupted>>

\* The claim revalidates status and cutoff inside the update.
ClaimGuardStatusOnly(p) == status[cand[p]] = "processing"  \* mutant
ClaimGuard(p) == status[cand[p]] = "processing" /\ cand[p] \in old[p]

NextCandidate(p) ==
    /\ ppc' = [ppc EXCEPT ![p] = "check"]
    /\ cand' = [cand EXCEPT ![p] = NoDoc]

\* The claim fails the document and closes those of its rows that are running.
ReapClaim(p) ==
    LET d == cand[p] IN
    /\ ppc[p] = "claim"
    /\ ClaimGuard(p)
    /\ UpdateDoc(d, "failed", "pending")
    /\ row' = [j \in Jobs |->
                 IF jobDoc[j] = d /\ row[j] = "running" THEN "failed" ELSE row[j]]
    /\ NextCandidate(p)
    /\ UNCHANGED <<jobDoc, bossVars, handlerVars, requestVars, todo, disrupted>>

ReapSkip(p) ==
    /\ ppc[p] = "claim"
    /\ ~ClaimGuard(p)
    /\ NextCandidate(p)
    /\ UNCHANGED <<docVars, rowVars, bossVars, handlerVars, requestVars, todo, disrupted>>

\* A pass ends with its last candidate, with an error that runStaleReaper logs,
\* or with the process.
ReapEnd(p) ==
    /\ \/ ppc[p] = "check" /\ todo[p] = {}
       \/ ppc[p] # "idle" /\ "crash" \in Faults
    /\ ppc' = [ppc EXCEPT ![p] = "idle"]
    /\ todo' = [todo EXCEPT ![p] = {}]
    /\ cand' = [cand EXCEPT ![p] = NoDoc]
    /\ old' = [old EXCEPT ![p] = {}]
    /\ UNCHANGED <<status, review, aged, rowVars, bossVars, handlerVars,
                   requestVars, disrupted>>

-----------------------------------------------------------------------------
HandlerStep(w) ==
    \/ ReadDocument(w) \/ MarkDocument(w) \/ MarkJob(w) \/ Download(w)
    \/ \E v \in ReviewStatus : Commit(w, v)
    \/ FailUnrecorded(w) \/ HandleRetryableFailure(w) \/ HandleFinalFailure(w)
    \/ Return(w) \/ Throw(w)

RequestStep(r) ==
    \/ ReadStale(r) \/ AskStaleQueue(r) \/ ResetReview(r) \/ EnqueueTouch(r)
    \/ \E j \in Jobs : EnqueueInsert(r, j)
    \/ EnqueuePublish(r) \/ DeleteDocument(r)

Worker ==
    \/ \E w \in Handlers, j \in Jobs : Fetch(w, j)
    \/ \E w \in Handlers : HandlerStep(w) \/ WorkerCrash(w)
    \/ \E j \in Jobs : ExpireJob(j)

Api ==
    \/ \E r \in Requests, d \in Docs :
          \/ UploadDocument(r, d)
          \/ \E op \in {"requeue", "reprocess"} : RequestReprocess(r, d, op)
          \/ RequestDelete(r, d)
    \/ \E r \in Requests : RequestStep(r) \/ RequestFails(r)
    \/ \E d \in Docs : (\E s \in DocumentStatus : Patch(d, s)) \/ ResolveReview(d)

ReaperStep(p) ==
    \/ ReapScan(p) \/ ReapClaim(p) \/ ReapSkip(p) \/ ReapEnd(p)
    \/ \E d \in Docs : ReapCheck(p, d)

Reaper ==
    \/ \E d \in Docs : Age(d)
    \/ \E p \in Reapers : ReaperStep(p)

Next == Worker \/ Api \/ Reaper

Spec == Init /\ [][Next]_vars

(***************************************************************************)
(* Fairness. Each step of a handler waits for a call that answers or times *)
(* out, workers poll the queue, pg-boss expires abandoned jobs, time       *)
(* passes, and a reaper that keeps starting passes eventually finishes     *)
(* one. API clients owe nothing, but a request in flight is carried out.   *)
(***************************************************************************)
Fairness ==
    /\ \A w \in Handlers : WF_vars(HandlerStep(w))
    /\ \A w \in Handlers, j \in Jobs : SF_vars(Fetch(w, j))
    /\ \A j \in Jobs : WF_vars(ExpireJob(j))
    /\ \A r \in Requests : WF_vars(RequestStep(r) \/ RequestFails(r))
    /\ \A d \in Docs : WF_vars(Age(d))
    /\ \A p \in Reapers : /\ WF_vars(ReapScan(p) \/ ReapSkip(p) \/ ReapEnd(p))
                          /\ SF_vars(ReapClaim(p))
                          /\ \A d \in Docs : SF_vars(ReapCheck(p, d))

FairSpec == Spec /\ Fairness

-----------------------------------------------------------------------------
TypeOK ==
    /\ status \in [Docs -> DocumentStatus \union {"absent"}]
    /\ review \in [Docs -> ReviewStatus]
    /\ aged \subseteq Docs
    /\ row \in [Jobs -> RowStatus]
    /\ jobDoc \in [Jobs -> Docs \union {NoDoc}]
    /\ boss \in [Jobs -> BossState]
    /\ retries \in [Jobs -> 0..RetryLimit]
    /\ hpc \in [Handlers -> HandlerPc]
    /\ hjob \in [Handlers -> Jobs \union {NoJob}]
    /\ hretry \in [Handlers -> 0..RetryLimit]
    /\ attached \subseteq Handlers
    /\ rpc \in [Requests -> RequestPc]
    /\ rdoc \in [Requests -> Docs \union {NoDoc}]
    /\ rop \in [Requests -> {"none", "upload", "requeue", "reprocess", "delete"}]
    /\ rjob \in [Requests -> Jobs \union {NoJob}]
    /\ ppc \in [Reapers -> ReaperPc]
    /\ old \in [Reapers -> SUBSET Docs]
    /\ todo \in [Reapers -> SUBSET Docs]
    /\ cand \in [Reapers -> Docs \union {NoDoc}]
    /\ disrupted \subseteq Docs

\* A handler pg-boss listens to runs an active job, with the retry count that
\* decides whether its failure is the last, and no other such handler runs it.
AttemptOwnership ==
    \A w \in attached :
        /\ boss[hjob[w]] = "active"
        /\ hretry[w] = retries[hjob[w]]
        /\ \A x \in attached : hjob[x] = hjob[w] => x = w

GivenUp(j) ==
    \/ boss[j] \in {"completed", "failed"}
    \/ boss[j] = "active" /\ retries[j] = RetryLimit

\* A processing_jobs row shown as failed belongs to a job the queue starts no
\* further attempt of: it has given up, or is in the last attempt it allows.
FailedRowIsGivenUp == \A j \in Jobs : row[j] = "failed" => GivenUp(j)

\* The reaper never fails a document the queue still has a job for, whatever
\* requests do between its queue check and its claim.
NeverReapLiveJob ==
    [][\A p \in Reapers : ReapClaim(p) => ~HasActiveJob(cand[p])]_vars

\* While only the parsing and committing of a document fail, a job pg-boss has
\* given up on was recorded as failed by its own last attempt.
ExhaustedIsReported ==
    \A j \in Jobs : boss[j] = "failed" /\ jobDoc[j] \notin disrupted =>
        row[j] \in {"failed", "gone"}

\* While only its parsing and committing fail, a failed document is in the review
\* queue, was resolved there, or is on its way to another attempt.
FailedIsVisible ==
    \A d \in Docs \ disrupted : status[d] = "failed" /\ review[d] = "not_required" =>
        \/ HasActiveJob(d)
        \/ \E r \in Requests : rdoc[r] = d /\ rop[r] = "requeue"

\* What becomes of documents is a behaviour of DocumentLifecycle: an attempt counts
\* from its fetch, a job is open while pg-boss has it, and was ordered when it was
\* published.
JobState == [j \in Jobs |-> IF boss[j] \in LiveState THEN "open" ELSE boss[j]]
OrderedFor == [j \in Jobs |-> IF boss[j] = "none" THEN NoDoc ELSE jobDoc[j]]
Attempts == [j \in Jobs |-> IF boss[j] \in {"none", "created"} THEN 0 ELSE retries[j] + 1]

Lifecycle ==
    INSTANCE DocumentLifecycle WITH
        MaxAttempts <- RetryLimit + 1, UserStatuses <- PatchStatuses,
        ordered <- OrderedFor, job <- JobState, attempts <- Attempts, disturbed <- disrupted

ImplementsLifecycle == Lifecycle!Spec

\* Whatever crashes, once users stop sending requests every document leaves
\* "processing": through its job's attempts, or through the reaper.
UsersQuiet == <>[](\A r \in Requests : rpc[r] = "idle")
Settles ==
    UsersQuiet => \A d \in Docs : status[d] = "processing" ~> status[d] # "processing"
=============================================================================
