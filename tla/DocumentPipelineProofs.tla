----------------------- MODULE DocumentPipelineProofs -----------------------
(***************************************************************************)
(* Proofs about DocumentPipeline for any number of documents, jobs,        *)
(* handlers, requests and reapers, any RetryLimit and any set of Faults.   *)
(* The safety properties are not inductive: IInv adds what they rest on;   *)
(* Reported and Visible do so for what users are shown of a document that  *)
(* was not disrupted.                                                      *)
(***************************************************************************)
EXTENDS DocumentPipeline, TLAPS

\* A job waits for a retry only while it has one left.
RetryRoom == \A j \in Jobs : boss[j] = "retry" => retries[j] < RetryLimit

\* A busy handler runs a job that was published.
HandlerJobs ==
    /\ \A w \in Handlers : hpc[w] # "idle" => hjob[w] \in Jobs /\ boss[hjob[w]] # "none"
    /\ \A w \in attached : hpc[w] # "idle"

\* A row is inserted before its job is published, and moves on only after that.
QueueRows ==
    /\ \A j \in Jobs : row[j] = "none" => boss[j] = "none"
    /\ \A j \in Jobs : boss[j] # "none" => jobDoc[j] \in Docs
    /\ \A j \in Jobs : row[j] \in {"running", "completed", "failed"} => boss[j] # "none"

\* A request about to publish owns an unpublished row of its document.
Publishing ==
    \A r \in Requests :
        /\ rpc[r] # "idle" => rdoc[r] \in Docs
        /\ rpc[r] = "publish" =>
              /\ rjob[r] \in Jobs
              /\ row[rjob[r]] # "none"
              /\ boss[rjob[r]] = "none"
              /\ jobDoc[rjob[r]] = rdoc[r]
              /\ \A q \in Requests : rpc[q] = "publish" /\ rjob[q] = rjob[r] => q = r

\* From the refresh to the publish the document is younger than every cutoff.
YoungWhileEnqueuing ==
    \A r \in Requests : rpc[r] \in {"insert", "publish"} =>
        rdoc[r] \notin aged /\ \A p \in Reapers : rdoc[r] \notin old[p]

\* The queue check stays true up to the claim, or the cutoff test fails.
ClaimSafe ==
    \A p \in Reapers : ppc[p] = "claim" =>
        /\ cand[p] \in Docs
        /\ cand[p] \in old[p] => ~HasActiveJob(cand[p])

\* Nothing follows an attempt that was started with the last retry.
LastAttempt ==
    \A w \in Handlers : hpc[w] # "idle" /\ hretry[w] = RetryLimit => GivenUp(hjob[w])

IInv ==
    /\ TypeOK /\ RetryRoom /\ HandlerJobs /\ QueueRows /\ Publishing
    /\ YoungWhileEnqueuing /\ ClaimSafe
    /\ AttemptOwnership /\ LastAttempt /\ FailedRowIsGivenUp

LEMMA InitIInv == Init => IInv
BY RetryLimitAssumption, NullAssumption
   DEF Init, IInv, TypeOK, RetryRoom, HandlerJobs, QueueRows, Publishing,
       YoungWhileEnqueuing, ClaimSafe, AttemptOwnership, LastAttempt,
       FailedRowIsGivenUp, HandlerPc, RequestPc, ReaperPc, RowStatus, BossState,
       ReviewStatus, DocumentStatus

\* Every step preserves IInv: one step of the proof per action of Next.
LEMMA NextIInv == IInv /\ [Next]_vars => IInv'
<1> SUFFICES ASSUME IInv, [Next]_vars PROVE IInv'
    OBVIOUS
<1> USE RetryLimitAssumption, PatchAssumption, NullAssumption
        DEF IInv, TypeOK, RetryRoom, HandlerJobs, QueueRows, Publishing,
            YoungWhileEnqueuing, ClaimSafe, AttemptOwnership, LastAttempt,
            FailedRowIsGivenUp, GivenUp, HasActiveJob, LiveState, HandlerPc,
            RequestPc, ReaperPc, RowStatus, BossState, ReviewStatus, DocumentStatus,
            docVars, rowVars, bossVars, handlerVars, requestVars, reaperVars,
            Disrupt, Refresh, UpdateDoc, UpdateRow, Exists, Goto, RGoto
<1>1. ASSUME NEW w \in Handlers, NEW j \in Jobs, Fetch(w, j) PROVE IInv'
    BY <1>1 DEF Fetch, HandedRetryCount, AttemptCount
<1>2. ASSUME NEW w \in Handlers, ReadDocument(w) PROVE IInv'
    BY <1>2 DEF ReadDocument
<1>3. ASSUME NEW w \in Handlers, MarkDocument(w) PROVE IInv'
    BY <1>3 DEF MarkDocument
<1>4. ASSUME NEW w \in Handlers, MarkJob(w) PROVE IInv'
    BY <1>4 DEF MarkJob
<1>5. ASSUME NEW w \in Handlers, Download(w) PROVE IInv'
    BY <1>5 DEF Download
<1>6. ASSUME NEW w \in Handlers, NEW v \in ReviewStatus, Commit(w, v) PROVE IInv'
    BY <1>6 DEF Commit
<1>7. ASSUME NEW w \in Handlers, FailUnrecorded(w) PROVE IInv'
    BY <1>7 DEF FailUnrecorded
<1>8. ASSUME NEW w \in Handlers, HandleRetryableFailure(w) PROVE IInv'
    BY <1>8 DEF HandleRetryableFailure, IsFinalFailure
<1>9. ASSUME NEW w \in Handlers, HandleFinalFailure(w) PROVE IInv'
    BY <1>9 DEF HandleFinalFailure, IsFinalFailure
<1>10. ASSUME NEW w \in Handlers, Return(w) PROVE IInv'
    BY <1>10 DEF Return, Release
<1>11. ASSUME NEW w \in Handlers, Throw(w) PROVE IInv'
    BY <1>11 DEF Throw, Release, FailedState
<1>12. ASSUME NEW w \in Handlers, WorkerCrash(w) PROVE IInv'
    BY <1>12 DEF WorkerCrash, Release
<1>13. ASSUME NEW j \in Jobs, ExpireJob(j) PROVE IInv'
    BY <1>13 DEF ExpireJob, FailedState
<1>14. ASSUME NEW r \in Requests, NEW d \in Docs, UploadDocument(r, d) PROVE IInv'
    BY <1>14 DEF UploadDocument
<1>15. ASSUME NEW r \in Requests, NEW d \in Docs, NEW op \in {"requeue", "reprocess"},
             RequestReprocess(r, d, op)
      PROVE IInv'
    BY <1>15 DEF RequestReprocess
<1>16. ASSUME NEW r \in Requests, NEW d \in Docs, RequestDelete(r, d) PROVE IInv'
    BY <1>16 DEF RequestDelete
<1>17. ASSUME NEW r \in Requests, ReadStale(r) PROVE IInv'
    BY <1>17 DEF ReadStale, Done
<1>18. ASSUME NEW r \in Requests, AskStaleQueue(r) PROVE IInv'
  <2>1. CASE HasActiveJob(rdoc[r])
        BY <1>18, <2>1 DEF AskStaleQueue, Done
  <2>2. CASE ~HasActiveJob(rdoc[r])
        BY <1>18, <2>2 DEF AskStaleQueue, Done
  <2> QED
        BY <2>1, <2>2
<1>19. ASSUME NEW r \in Requests, ResetReview(r) PROVE IInv'
    BY <1>19 DEF ResetReview
<1>20. ASSUME NEW r \in Requests, EnqueueTouch(r) PROVE IInv'
    BY <1>20 DEF EnqueueTouch
<1>21. ASSUME NEW r \in Requests, NEW j \in Jobs, EnqueueInsert(r, j) PROVE IInv'
    BY <1>21 DEF EnqueueInsert
<1>22. ASSUME NEW r \in Requests, EnqueuePublish(r) PROVE IInv'
    BY <1>22 DEF EnqueuePublish, Done
<1>23. ASSUME NEW r \in Requests, DeleteDocument(r) PROVE IInv'
    BY <1>23 DEF DeleteDocument, Done
<1>24. ASSUME NEW r \in Requests, RequestFails(r) PROVE IInv'
    BY <1>24 DEF RequestFails, Done
<1>25. ASSUME NEW d \in Docs, NEW s \in DocumentStatus, Patch(d, s) PROVE IInv'
    BY <1>25 DEF Patch
<1>26. ASSUME NEW d \in Docs, ResolveReview(d) PROVE IInv'
    BY <1>26 DEF ResolveReview
<1>27. ASSUME NEW d \in Docs, Age(d) PROVE IInv'
    BY <1>27 DEF Age
<1>28. ASSUME NEW p \in Reapers, ReapScan(p) PROVE IInv'
    BY <1>28 DEF ReapScan
<1>29. ASSUME NEW p \in Reapers, NEW d \in Docs, ReapCheck(p, d) PROVE IInv'
    BY <1>29 DEF ReapCheck, HasActiveJob, LiveState
<1>30. ASSUME NEW p \in Reapers, ReapClaim(p) PROVE IInv'
    BY <1>30 DEF ReapClaim, ClaimGuard, NextCandidate
<1>31. ASSUME NEW p \in Reapers, ReapSkip(p) PROVE IInv'
    BY <1>31 DEF ReapSkip, NextCandidate
<1>32. ASSUME NEW p \in Reapers, ReapEnd(p) PROVE IInv'
    BY <1>32 DEF ReapEnd
<1>33. CASE UNCHANGED vars
    BY <1>33 DEF vars
<1> HIDE DEF IInv
<1> QED
    BY <1>1, <1>2, <1>3, <1>4, <1>5, <1>6, <1>7, <1>8, <1>9, <1>10, <1>11,
       <1>12, <1>13, <1>14, <1>15, <1>16, <1>17, <1>18, <1>19, <1>20, <1>21,
       <1>22, <1>23, <1>24, <1>25, <1>26, <1>27, <1>28, <1>29, <1>30, <1>31,
       <1>32, <1>33
       DEF Next, Worker, Api, Reaper, HandlerStep, RequestStep, ReaperStep

THEOREM Invariance == Spec => []IInv
BY InitIInv, NextIInv, PTL DEF Spec

\* Every variable keeps its type; in particular no job is attempted more than
\* PROCESSING_RETRY_LIMIT times after its first run.
THEOREM TypeCorrect == Spec => []TypeOK
<1>1. IInv => TypeOK
      BY DEF IInv
<1> QED
      BY <1>1, Invariance, PTL

\* Whatever crashes, fails or expires, a handler the queue listens to runs its own
\* attempt: nobody shares the job, and it compares the true retry count with
\* PROCESSING_RETRY_LIMIT.
THEOREM AttemptsOwned == Spec => []AttemptOwnership
<1>1. IInv => AttemptOwnership
      BY DEF IInv
<1> QED
      BY <1>1, Invariance, PTL

\* A job shown as failed is never attempted again, though handlers that outlived
\* their expiry and reapers also write processing_jobs.
THEOREM FailedRowsGivenUp == Spec => []FailedRowIsGivenUp
<1>1. IInv => FailedRowIsGivenUp
      BY DEF IInv
<1> QED
      BY <1>1, Invariance, PTL

\* No reaper of any number fails a document that has a live job, for all
\* interleavings of its queue check and its claim with the requests that enqueue.
THEOREM ReaperSafe == Spec => NeverReapLiveJob
<1>1. IInv => \A p \in Reapers : ReapClaim(p) => ~HasActiveJob(cand[p])
      BY DEF IInv, ClaimSafe, ReapClaim, ClaimGuard
<1>2. IInv /\ [Next]_vars =>
          [\A p \in Reapers : ReapClaim(p) => ~HasActiveJob(cand[p])]_vars
      BY <1>1
<1> QED
      BY <1>2, Invariance, PTL DEF Spec, NeverReapLiveJob
-----------------------------------------------------------------------------
(* What users are shown of a document that was not disrupted: only parsing  *)
(* and committing failed, so its handlers are listened to and their failure *)
(* handlers ran.                                                            *)

\* A row gets its document with its insert, and goes with it.
RowsFollow ==
    \A j \in Jobs :
        /\ row[j] = "none" => jobDoc[j] = NoDoc
        /\ jobDoc[j] \in Docs /\ status[jobDoc[j]] = "absent" => row[j] = "gone"

ListenedTo ==
    \A w \in Handlers : hpc[w] # "idle" /\ jobDoc[hjob[w]] \notin disrupted => w \in attached

\* The last attempt records its failure before pg-boss hears of it.
LastIsReported ==
    \A w \in attached :
        hpc[w] = "throw" /\ hretry[w] = RetryLimit /\ jobDoc[hjob[w]] \notin disrupted =>
            row[hjob[w]] \in {"failed", "gone"}

Reported == RowsFollow /\ ListenedTo /\ LastIsReported /\ ExhaustedIsReported

LEMMA NextReported == IInv /\ Reported /\ [Next]_vars => Reported'
<1> SUFFICES ASSUME IInv, Reported, [Next]_vars PROVE Reported'
    OBVIOUS
<1> USE RetryLimitAssumption, NullAssumption
    DEF IInv, TypeOK, HandlerJobs, QueueRows, Publishing, AttemptOwnership,
        docVars, rowVars, bossVars, handlerVars, requestVars, reaperVars,
        Disrupt, Refresh, UpdateDoc, UpdateRow, Exists, Goto, RGoto, Reported, RowsFollow,
        ListenedTo, LastIsReported, ExhaustedIsReported
<1>1. ASSUME NEW w \in Handlers, NEW j \in Jobs, Fetch(w, j) PROVE Reported'
    BY <1>1 DEF Fetch, HandedRetryCount, AttemptCount
<1>2. ASSUME NEW w \in Handlers, ReadDocument(w) PROVE Reported'
    BY <1>2 DEF ReadDocument
<1>3. ASSUME NEW w \in Handlers, MarkDocument(w) PROVE Reported'
    BY <1>3 DEF MarkDocument
<1>4. ASSUME NEW w \in Handlers, MarkJob(w) PROVE Reported'
    BY <1>4 DEF MarkJob
<1>5. ASSUME NEW w \in Handlers, Download(w) PROVE Reported'
    BY <1>5 DEF Download
<1>6. ASSUME NEW w \in Handlers, NEW v \in ReviewStatus, Commit(w, v) PROVE Reported'
    BY <1>6 DEF Commit
<1>7. ASSUME NEW w \in Handlers, FailUnrecorded(w) PROVE Reported'
    BY <1>7 DEF FailUnrecorded
<1>8. ASSUME NEW w \in Handlers, HandleRetryableFailure(w) PROVE Reported'
    BY <1>8 DEF HandleRetryableFailure, IsFinalFailure
<1>9. ASSUME NEW w \in Handlers, HandleFinalFailure(w) PROVE Reported'
    BY <1>9 DEF HandleFinalFailure, IsFinalFailure
<1>10. ASSUME NEW w \in Handlers, Return(w) PROVE Reported'
    BY <1>10 DEF Return, Release
<1>11. ASSUME NEW w \in Handlers, Throw(w) PROVE Reported'
    BY <1>11 DEF Throw, Release, FailedState
<1>12. ASSUME NEW w \in Handlers, WorkerCrash(w) PROVE Reported'
    BY <1>12 DEF WorkerCrash, Release
<1>13. ASSUME NEW j \in Jobs, ExpireJob(j) PROVE Reported'
    BY <1>13 DEF ExpireJob, FailedState
<1>14. ASSUME NEW r \in Requests, NEW d \in Docs, UploadDocument(r, d) PROVE Reported'
    BY <1>14 DEF UploadDocument
<1>15. ASSUME NEW r \in Requests, NEW d \in Docs,
             NEW op \in {"requeue", "reprocess"}, RequestReprocess(r, d, op)
      PROVE  Reported'
    BY <1>15 DEF RequestReprocess
<1>16. ASSUME NEW r \in Requests, NEW d \in Docs, RequestDelete(r, d) PROVE Reported'
    BY <1>16 DEF RequestDelete
<1>17. ASSUME NEW r \in Requests, ReadStale(r) PROVE Reported'
    BY <1>17 DEF ReadStale, Done
<1>18. ASSUME NEW r \in Requests, AskStaleQueue(r) PROVE Reported'
    BY <1>18 DEF AskStaleQueue, Done
<1>19. ASSUME NEW r \in Requests, ResetReview(r) PROVE Reported'
    BY <1>19 DEF ResetReview
<1>20. ASSUME NEW r \in Requests, EnqueueTouch(r) PROVE Reported'
    BY <1>20 DEF EnqueueTouch
<1>21. ASSUME NEW r \in Requests, NEW j \in Jobs, EnqueueInsert(r, j) PROVE Reported'
    BY <1>21 DEF EnqueueInsert
<1>22. ASSUME NEW r \in Requests, EnqueuePublish(r) PROVE Reported'
    BY <1>22 DEF EnqueuePublish, Done
<1>23. ASSUME NEW r \in Requests, DeleteDocument(r) PROVE Reported'
    BY <1>23 DEF DeleteDocument, Done
<1>24. ASSUME NEW r \in Requests, RequestFails(r) PROVE Reported'
    BY <1>24 DEF RequestFails, Done
<1>25. ASSUME NEW d \in Docs, NEW s \in DocumentStatus, Patch(d, s) PROVE Reported'
    BY <1>25 DEF Patch, DocumentStatus
<1>26. ASSUME NEW d \in Docs, ResolveReview(d) PROVE Reported'
    BY <1>26 DEF ResolveReview
<1>27. ASSUME NEW d \in Docs, Age(d) PROVE Reported'
    BY <1>27 DEF Age
<1>28. ASSUME NEW p \in Reapers, ReapClaim(p) PROVE Reported'
    BY <1>28 DEF ReapClaim, ClaimGuard, NextCandidate
<1>29. ASSUME NEW p \in Reapers,
             ReapScan(p) \/ ReapSkip(p) \/ ReapEnd(p) \/ (\E d \in Docs : ReapCheck(p, d))
      PROVE  Reported'
    BY <1>29 DEF ReapScan, ReapSkip, NextCandidate, ReapEnd, ReapCheck
<1>30. CASE UNCHANGED vars
    BY <1>30 DEF vars
<1> HIDE DEF IInv, Reported
<1> QED
    BY <1>1, <1>2, <1>3, <1>4, <1>5, <1>6, <1>7, <1>8, <1>9, <1>10, <1>11,
       <1>12, <1>13, <1>14, <1>15, <1>16, <1>17, <1>18, <1>19, <1>20, <1>21,
       <1>22, <1>23, <1>24, <1>25, <1>26, <1>27, <1>28, <1>29, <1>30
       DEF Next, Worker, Api, Reaper, HandlerStep, RequestStep, ReaperStep

\* A document whose review was cleared while it was failed is on its way: from the
\* requeue that cleared it to the attempt that marks it as processing.
Requeued(d) ==
    \/ \E r \in Requests :
          rdoc[r] = d /\ rop[r] = "requeue" /\ rpc[r] \in {"touch", "insert", "publish"}
    \/ \E j \in Jobs : jobDoc[j] = d /\ boss[j] = "created"
    \/ \E w \in attached : jobDoc[hjob[w]] = d /\ hpc[w] \in {"read", "mark"}

ResetsAreRequeues == \A r \in Requests : rpc[r] = "reset" => rop[r] = "requeue"

FailedIsRequeued ==
    \A d \in Docs \ disrupted :
        status[d] = "failed" /\ review[d] = "not_required" => Requeued(d)

Visible == ResetsAreRequeues /\ FailedIsRequeued

LEMMA NextVisible == IInv /\ Visible /\ [Next]_vars => Visible'
<1> SUFFICES ASSUME IInv, Visible, [Next]_vars PROVE Visible'
    OBVIOUS
<1> USE NullAssumption
    DEF IInv, TypeOK, HandlerJobs, QueueRows, Publishing, AttemptOwnership,
        docVars, rowVars, bossVars, handlerVars, requestVars, reaperVars,
        Disrupt, Refresh, UpdateDoc, UpdateRow, Exists, Goto, RGoto, Visible,
        ResetsAreRequeues, FailedIsRequeued, Requeued, DocumentStatus, ReviewStatus
<1>1. ASSUME NEW w \in Handlers, NEW j \in Jobs, Fetch(w, j) PROVE Visible'
    BY <1>1 DEF Fetch, HandedRetryCount, AttemptCount
<1>2. ASSUME NEW w \in Handlers, ReadDocument(w) PROVE Visible'
    BY <1>2 DEF ReadDocument
<1>3. ASSUME NEW w \in Handlers, MarkDocument(w) PROVE Visible'
    BY <1>3 DEF MarkDocument
<1>4. ASSUME NEW w \in Handlers, MarkJob(w) PROVE Visible'
    BY <1>4 DEF MarkJob
<1>5. ASSUME NEW w \in Handlers, Download(w) PROVE Visible'
    BY <1>5 DEF Download
<1>6. ASSUME NEW w \in Handlers, NEW v \in ReviewStatus, Commit(w, v) PROVE Visible'
    BY <1>6 DEF Commit
<1>7. ASSUME NEW w \in Handlers, FailUnrecorded(w) PROVE Visible'
    BY <1>7 DEF FailUnrecorded
<1>8. ASSUME NEW w \in Handlers, HandleRetryableFailure(w) PROVE Visible'
    BY <1>8 DEF HandleRetryableFailure, IsFinalFailure
<1>9. ASSUME NEW w \in Handlers, HandleFinalFailure(w) PROVE Visible'
    BY <1>9 DEF HandleFinalFailure, IsFinalFailure
<1>10. ASSUME NEW w \in Handlers, Return(w) PROVE Visible'
    BY <1>10 DEF Return, Release
<1>11. ASSUME NEW w \in Handlers, Throw(w) PROVE Visible'
    BY <1>11 DEF Throw, Release, FailedState
<1>12. ASSUME NEW w \in Handlers, WorkerCrash(w) PROVE Visible'
    BY <1>12 DEF WorkerCrash, Release
<1>13. ASSUME NEW j \in Jobs, ExpireJob(j) PROVE Visible'
    BY <1>13 DEF ExpireJob, FailedState
<1>14. ASSUME NEW r \in Requests, NEW d \in Docs, UploadDocument(r, d) PROVE Visible'
    BY <1>14 DEF UploadDocument
<1>15. ASSUME NEW r \in Requests, NEW d \in Docs,
             NEW op \in {"requeue", "reprocess"}, RequestReprocess(r, d, op)
      PROVE  Visible'
    BY <1>15 DEF RequestReprocess
<1>16. ASSUME NEW r \in Requests, NEW d \in Docs, RequestDelete(r, d) PROVE Visible'
    BY <1>16 DEF RequestDelete
<1>17. ASSUME NEW r \in Requests, ReadStale(r) PROVE Visible'
    BY <1>17 DEF ReadStale, Done
<1>18. ASSUME NEW r \in Requests, AskStaleQueue(r) PROVE Visible'
    BY <1>18 DEF AskStaleQueue, Done
<1>19. ASSUME NEW r \in Requests, ResetReview(r) PROVE Visible'
    BY <1>19 DEF ResetReview
<1>20. ASSUME NEW r \in Requests, EnqueueTouch(r) PROVE Visible'
    BY <1>20 DEF EnqueueTouch
<1>21. ASSUME NEW r \in Requests, NEW j \in Jobs, EnqueueInsert(r, j) PROVE Visible'
    BY <1>21 DEF EnqueueInsert
<1>22. ASSUME NEW r \in Requests, EnqueuePublish(r) PROVE Visible'
    BY <1>22 DEF EnqueuePublish, Done
<1>23. ASSUME NEW r \in Requests, DeleteDocument(r) PROVE Visible'
    BY <1>23 DEF DeleteDocument, Done
<1>24. ASSUME NEW r \in Requests, RequestFails(r) PROVE Visible'
    BY <1>24 DEF RequestFails, Done
<1>25. ASSUME NEW d \in Docs, NEW s \in DocumentStatus, Patch(d, s) PROVE Visible'
    BY <1>25 DEF Patch, DocumentStatus
<1>26. ASSUME NEW d \in Docs, ResolveReview(d) PROVE Visible'
    BY <1>26 DEF ResolveReview
<1>27. ASSUME NEW d \in Docs, Age(d) PROVE Visible'
    BY <1>27 DEF Age
<1>28. ASSUME NEW p \in Reapers, ReapClaim(p) PROVE Visible'
    BY <1>28 DEF ReapClaim, ClaimGuard, NextCandidate
<1>29. ASSUME NEW p \in Reapers,
             ReapScan(p) \/ ReapSkip(p) \/ ReapEnd(p) \/ (\E d \in Docs : ReapCheck(p, d))
      PROVE  Visible'
    BY <1>29 DEF ReapScan, ReapSkip, NextCandidate, ReapEnd, ReapCheck
<1>30. CASE UNCHANGED vars
    BY <1>30 DEF vars
<1> HIDE DEF IInv, Visible
<1> QED
    BY <1>1, <1>2, <1>3, <1>4, <1>5, <1>6, <1>7, <1>8, <1>9, <1>10, <1>11,
       <1>12, <1>13, <1>14, <1>15, <1>16, <1>17, <1>18, <1>19, <1>20, <1>21,
       <1>22, <1>23, <1>24, <1>25, <1>26, <1>27, <1>28, <1>29, <1>30
       DEF Next, Worker, Api, Reaper, HandlerStep, RequestStep, ReaperStep

\* Unless something of it crashed, expired or failed where no handler records it,
\* a job the queue has given up on is shown as failed, or gone with its document.
THEOREM ExhaustedReported == Spec => []ExhaustedIsReported
<1>1. Init => Reported
      BY NullAssumption
      DEF Init, Reported, RowsFollow, ListenedTo, LastIsReported, ExhaustedIsReported
<1>2. Reported => ExhaustedIsReported
      BY DEF Reported
<1> QED
      BY <1>1, <1>2, Invariance, NextReported, PTL DEF Spec

\* Under the same failures, a failed document that is not in the review queue was
\* taken out of it by a user, or is about to be attempted again.
THEOREM FailedVisible == Spec => []FailedIsVisible
<1>1. Init => Visible
      BY DEF Init, Visible, ResetsAreRequeues, FailedIsRequeued
<1>2. IInv /\ Visible => FailedIsVisible
      BY DEF IInv, AttemptOwnership, HandlerJobs, TypeOK, Visible, FailedIsRequeued, Requeued,
             FailedIsVisible, HasActiveJob, LiveState
<1> QED
      BY <1>1, <1>2, Invariance, NextVisible, PTL DEF Spec
\* An attempt that will write the status of its document again, if nothing disturbs it.
Unfinished(w) ==
    \/ hpc[w] \in {"read", "mark", "markJob", "download", "work"}
    \/ hpc[w] = "throw" /\ hretry[w] < RetryLimit

WorkedOn(d) ==
    \E j \in Jobs :
        jobDoc[j] = d /\ (boss[j] = "retry" \/ \E w \in attached : hjob[w] = j /\ Unfinished(w))

\* A document that nothing has disturbed and that shows "processing" is being processed,
\* or will be without a request or the reaper, however its attempts overlap.
ProcessingIsWorkedOn ==
    \A d \in Docs \ disrupted : status[d] = "processing" => WorkedOn(d)

LEMMA NextWorkedOn ==
    IInv /\ Reported /\ ProcessingIsWorkedOn /\ [Next]_vars => ProcessingIsWorkedOn'
<1> SUFFICES ASSUME IInv, Reported, ProcessingIsWorkedOn, [Next]_vars
             PROVE  ProcessingIsWorkedOn'
    OBVIOUS
<1> USE RetryLimitAssumption, NullAssumption
    DEF IInv, TypeOK, HandlerJobs, QueueRows, Publishing, AttemptOwnership, RowsFollow,
        docVars, rowVars, bossVars, handlerVars, requestVars, reaperVars,
        Disrupt, Refresh, UpdateDoc, UpdateRow, Exists, Goto, RGoto, Reported,
        ListenedTo, ProcessingIsWorkedOn, WorkedOn, Unfinished
<1>1. ASSUME NEW w \in Handlers, NEW j \in Jobs, Fetch(w, j) PROVE ProcessingIsWorkedOn'
    BY <1>1 DEF Fetch, HandedRetryCount, AttemptCount
<1>2. ASSUME NEW w \in Handlers, ReadDocument(w) PROVE ProcessingIsWorkedOn'
    BY <1>2 DEF ReadDocument
<1>3. ASSUME NEW w \in Handlers, MarkDocument(w) PROVE ProcessingIsWorkedOn'
    BY <1>3 DEF MarkDocument
<1>4. ASSUME NEW w \in Handlers, MarkJob(w) \/ Download(w) PROVE ProcessingIsWorkedOn'
    BY <1>4 DEF MarkJob, Download
<1>5. ASSUME NEW w \in Handlers, NEW v \in ReviewStatus, Commit(w, v) PROVE ProcessingIsWorkedOn'
    BY <1>5 DEF Commit
<1>6. ASSUME NEW w \in Handlers, FailUnrecorded(w) PROVE ProcessingIsWorkedOn'
    BY <1>6 DEF FailUnrecorded
<1>7. ASSUME NEW w \in Handlers, HandleRetryableFailure(w) PROVE ProcessingIsWorkedOn'
    BY <1>7 DEF HandleRetryableFailure, IsFinalFailure
<1>8. ASSUME NEW w \in Handlers, HandleFinalFailure(w) PROVE ProcessingIsWorkedOn'
    BY <1>8 DEF HandleFinalFailure, IsFinalFailure
<1>9. ASSUME NEW w \in Handlers, Return(w) PROVE ProcessingIsWorkedOn'
    BY <1>9 DEF Return, Release
<1>10. ASSUME NEW w \in Handlers, Throw(w) PROVE ProcessingIsWorkedOn'
    BY <1>10 DEF Throw, Release, FailedState
<1>11. ASSUME NEW w \in Handlers, WorkerCrash(w) PROVE ProcessingIsWorkedOn'
    BY <1>11 DEF WorkerCrash, Release
<1>12. ASSUME NEW j \in Jobs, ExpireJob(j) PROVE ProcessingIsWorkedOn'
    BY <1>12 DEF ExpireJob, FailedState
<1>13. ASSUME NEW r \in Requests, NEW d \in Docs, UploadDocument(r, d) PROVE ProcessingIsWorkedOn'
    BY <1>13 DEF UploadDocument
<1>14. ASSUME NEW r \in Requests, NEW j \in Jobs, EnqueueInsert(r, j) PROVE ProcessingIsWorkedOn'
    BY <1>14 DEF EnqueueInsert
<1>15. ASSUME NEW r \in Requests, EnqueuePublish(r) PROVE ProcessingIsWorkedOn'
    BY <1>15 DEF EnqueuePublish
<1>16. ASSUME NEW r \in Requests, DeleteDocument(r) PROVE ProcessingIsWorkedOn'
    BY <1>16 DEF DeleteDocument
<1>17. ASSUME NEW d \in Docs, NEW s \in DocumentStatus, Patch(d, s) PROVE ProcessingIsWorkedOn'
    BY <1>17 DEF Patch, DocumentStatus
<1>18. ASSUME NEW p \in Reapers, ReapClaim(p) PROVE ProcessingIsWorkedOn'
    BY <1>18 DEF ReapClaim, ClaimGuard
<1>19. ASSUME UNCHANGED <<status, jobDoc, bossVars, handlerVars>>, disrupted \subseteq disrupted'
       PROVE  ProcessingIsWorkedOn'
    BY <1>19
<1>20. ASSUME NEW r \in Requests,
              \/ ReadStale(r) \/ AskStaleQueue(r) \/ ResetReview(r) \/ EnqueueTouch(r)
              \/ RequestFails(r)
              \/ \E d \in Docs : RequestDelete(r, d) \/ \E op : RequestReprocess(r, d, op)
       PROVE  UNCHANGED <<status, jobDoc, bossVars, handlerVars>> /\ disrupted \subseteq disrupted'
    BY <1>20 DEF ReadStale, AskStaleQueue, ResetReview, EnqueueTouch, RequestFails,
                 RequestDelete, RequestReprocess
<1>21. ASSUME NEW d \in Docs, ResolveReview(d) \/ Age(d)
       PROVE  UNCHANGED <<status, jobDoc, bossVars, handlerVars>> /\ disrupted \subseteq disrupted'
    BY <1>21 DEF ResolveReview, Age
<1>22. ASSUME NEW p \in Reapers,
              ReapScan(p) \/ ReapSkip(p) \/ ReapEnd(p) \/ (\E d \in Docs : ReapCheck(p, d))
       PROVE  UNCHANGED <<status, jobDoc, bossVars, handlerVars>> /\ disrupted \subseteq disrupted'
    BY <1>22 DEF ReapScan, ReapSkip, ReapEnd, ReapCheck
<1>23. ASSUME UNCHANGED vars
       PROVE  UNCHANGED <<status, jobDoc, bossVars, handlerVars>> /\ disrupted \subseteq disrupted'
    BY <1>23 DEF vars
<1> HIDE DEF IInv, Reported, ProcessingIsWorkedOn, bossVars, handlerVars
<1> QED
    BY <1>1, <1>2, <1>3, <1>4, <1>5, <1>6, <1>7, <1>8, <1>9, <1>10, <1>11, <1>12, <1>13,
       <1>14, <1>15, <1>16, <1>17, <1>18, <1>19, <1>20, <1>21, <1>22, <1>23
       DEF Next, Worker, Api, Reaper, HandlerStep, RequestStep, ReaperStep

-----------------------------------------------------------------------------
(* The refinement of DocumentLifecycle. Its attempts are counted by the     *)
(* queue, and a handler decides by the count it was started with.           *)

\* Attempts are counted: a job that no attempt has started of has no retry behind it,
\* and no handler runs it; a handler knows no more retries than there were.
Counted ==
    /\ \A j \in Jobs : boss[j] \in {"none", "created"} => retries[j] = 0
    /\ \A w \in Handlers : hpc[w] # "idle" =>
          boss[hjob[w]] \notin {"none", "created"} /\ hretry[w] <= retries[hjob[w]]

LEMMA NextCounted == IInv /\ Counted /\ [Next]_vars => Counted'
<1> SUFFICES ASSUME IInv, Counted, [Next]_vars PROVE Counted'
    OBVIOUS
<1> USE RetryLimitAssumption, NullAssumption
    DEF IInv, TypeOK, HandlerJobs, Publishing, RetryRoom,
        docVars, rowVars, bossVars, handlerVars, requestVars, reaperVars, Counted
<1>1. ASSUME NEW w \in Handlers, NEW j \in Jobs, Fetch(w, j) PROVE Counted'
    BY <1>1 DEF Fetch, HandedRetryCount, AttemptCount, Goto
<1>2. ASSUME NEW w \in Handlers,
             \/ ReadDocument(w) \/ MarkDocument(w) \/ MarkJob(w) \/ Download(w)
             \/ (\E v \in ReviewStatus : Commit(w, v))
             \/ FailUnrecorded(w) \/ HandleRetryableFailure(w) \/ HandleFinalFailure(w)
      PROVE  Counted'
    BY <1>2 DEF ReadDocument, MarkDocument, MarkJob, Download, Commit, FailUnrecorded,
                HandleRetryableFailure, HandleFinalFailure, Goto
<1>3. ASSUME NEW w \in Handlers, Return(w) \/ Throw(w) \/ WorkerCrash(w) PROVE Counted'
    BY <1>3 DEF Return, Throw, WorkerCrash, Release, Goto, FailedState
<1>4. ASSUME NEW j \in Jobs, ExpireJob(j) PROVE Counted'
    BY <1>4 DEF ExpireJob, FailedState
<1>5. ASSUME NEW r \in Requests, EnqueuePublish(r) PROVE Counted'
    BY <1>5 DEF EnqueuePublish
<1>6. ASSUME UNCHANGED <<bossVars, handlerVars>> PROVE Counted'
    BY <1>6
<1> HIDE DEF IInv, Counted
<1>7. ASSUME Api PROVE UNCHANGED <<bossVars, handlerVars>> \/ \E r \in Requests : EnqueuePublish(r)
    BY <1>7 DEF Api, RequestStep, UploadDocument, RequestReprocess, RequestDelete, ReadStale,
                AskStaleQueue, ResetReview, EnqueueTouch, EnqueueInsert, DeleteDocument,
                RequestFails, Patch, ResolveReview
<1>8. ASSUME Reaper PROVE UNCHANGED <<bossVars, handlerVars>>
    BY <1>8 DEF Reaper, ReaperStep, Age, ReapScan, ReapCheck, ReapClaim, ReapSkip, ReapEnd
<1>9. ASSUME UNCHANGED vars PROVE UNCHANGED <<bossVars, handlerVars>>
    BY <1>9 DEF vars
<1> QED
    BY <1>1, <1>2, <1>3, <1>4, <1>5, <1>6, <1>7, <1>8, <1>9 DEF Next, Worker, HandlerStep

\* A document's row may precede the job of it that is published, so a step that only
\* inserts or closes rows does not show in the life of the document.
LEMMA SameJobs ==
    ASSUME UNCHANGED <<boss, retries>>,
           \A j \in Jobs : boss[j] # "none" => jobDoc'[j] = jobDoc[j]
    PROVE  UNCHANGED Lifecycle!jobVars
<1>1. UNCHANGED OrderedFor
    BY DEF OrderedFor
<1>2. UNCHANGED <<JobState, Attempts>>
    BY DEF JobState, Attempts
<1> QED
    BY <1>1, <1>2 DEF Lifecycle!jobVars

\* What a handler shows of its document: it still waits for the outcome of an attempt
\* that has started, or the document was disturbed.
LEMMA HandlerWorks ==
    ASSUME IInv, Reported, Counted, NEW w \in Handlers, hpc[w] # "idle"
    PROVE  /\ jobDoc[hjob[w]] \in Docs /\ hjob[w] \in Jobs
           /\ Lifecycle!Working(hjob[w], jobDoc[hjob[w]])
           /\ IsFinalFailure(w) => Attempts[hjob[w]] = RetryLimit + 1
<1> DEFINE j == hjob[w]
<1>1. j \in Jobs /\ boss[j] \notin {"none", "created"} /\ jobDoc[j] \in Docs
    BY DEF IInv, HandlerJobs, QueueRows, Counted
<1>2. retries[j] \in 0..RetryLimit /\ hretry[w] \in 0..RetryLimit /\ hretry[w] <= retries[j]
    BY <1>1 DEF IInv, TypeOK, Counted
<1>3. Attempts[j] = retries[j] + 1 /\ OrderedFor[j] = jobDoc[j]
    BY <1>1 DEF Attempts, OrderedFor
<1>4. jobDoc[j] \in disrupted \/ JobState[j] = "open"
    BY <1>1 DEF IInv, AttemptOwnership, Reported, ListenedTo, JobState, LiveState
<1>5. Attempts[j] > 0 /\ (IsFinalFailure(w) => Attempts[j] = RetryLimit + 1)
    BY <1>2, <1>3, RetryLimitAssumption DEF IsFinalFailure
<1> QED
    BY <1>1, <1>3, <1>4, <1>5 DEF Lifecycle!Working

\* An attempt starts with its fetch, if the queue allows one more.
LEMMA FetchAttempts ==
    ASSUME IInv, Counted, NEW w \in Handlers, NEW j \in Jobs, Fetch(w, j)
    PROVE  Lifecycle!Attempt(j)
<1> USE RetryLimitAssumption DEF IInv, TypeOK
<1>1. boss[j] \in {"created", "retry"} /\ boss' = [boss EXCEPT ![j] = "active"]
      /\ retries' = [retries EXCEPT ![j] = AttemptCount(j)]
    BY DEF Fetch
<1>2. JobState[j] = "open" /\ UNCHANGED <<JobState, OrderedFor, status>>
    BY <1>1 DEF JobState, OrderedFor, LiveState, Fetch, docVars, rowVars
<1>3. Attempts[j] < RetryLimit + 1 /\ AttemptCount(j) = Attempts[j]
    BY <1>1 DEF Attempts, AttemptCount, RetryRoom, Counted
<1>4. Attempts' = [Attempts EXCEPT ![j] = @ + 1]
    BY <1>1, <1>3 DEF Attempts
<1> QED
    BY <1>2, <1>3, <1>4 DEF Lifecycle!Attempt

\* pg-boss ends an active job: it is over, or open for the retries it has left.
LEMMA EndOfAttempt ==
    ASSUME IInv, Counted, NEW j \in Jobs, boss[j] = "active",
           boss' = [boss EXCEPT ![j] = "completed"] \/ boss' = [boss EXCEPT ![j] = FailedState(j)],
           UNCHANGED <<status, jobDoc, retries>>
    PROVE  \/ Lifecycle!Finish(j)
           \/ Lifecycle!GiveUp(j)
           \/ UNCHANGED <<status, Lifecycle!jobVars>>
<1> USE RetryLimitAssumption DEF IInv, TypeOK
<1>1. UNCHANGED <<OrderedFor, Attempts, status>>
    BY DEF OrderedFor, Attempts, FailedState
<1>2. JobState[j] = "open" /\ Attempts[j] = retries[j] + 1
    BY DEF JobState, Attempts, LiveState
<1>3. CASE boss' = [boss EXCEPT ![j] = "completed"]
  <2>1. JobState' = [JobState EXCEPT ![j] = "completed"]
      BY <1>3 DEF JobState, LiveState
  <2>2. Attempts[j] > 0
      BY <1>2
  <2> QED
      BY <1>1, <1>2, <2>1, <2>2 DEF Lifecycle!Finish, Lifecycle!Enter
<1>4. CASE boss' = [boss EXCEPT ![j] = "failed"] /\ retries[j] = RetryLimit
  <2>1. JobState' = [JobState EXCEPT ![j] = "failed"]
      BY <1>4 DEF JobState, LiveState
  <2> QED
      BY <1>1, <1>2, <1>4, <2>1 DEF Lifecycle!GiveUp, Lifecycle!Enter
<1>5. CASE boss' = [boss EXCEPT ![j] = "retry"]
  <2>1. UNCHANGED JobState
      BY <1>5 DEF JobState, LiveState
  <2> QED
      BY <1>1, <2>1 DEF Lifecycle!jobVars
<1> QED
    BY <1>3, <1>4, <1>5 DEF FailedState

LEMMA PublishOrders ==
    ASSUME IInv, Counted, NEW r \in Requests, EnqueuePublish(r)
    PROVE  Lifecycle!Order(rjob[r], rdoc[r]) /\ rjob[r] \in Jobs /\ rdoc[r] \in Docs
<1> DEFINE j == rjob[r]
<1>1. j \in Jobs /\ rdoc[r] \in Docs /\ boss[j] = "none" /\ jobDoc[j] = rdoc[r]
    BY DEF IInv, Publishing, EnqueuePublish
<1>2. boss' = [boss EXCEPT ![j] = "created"] /\ UNCHANGED <<status, jobDoc, retries>>
    BY DEF EnqueuePublish, docVars, rowVars
<1>3. JobState[j] = "none" /\ JobState' = [JobState EXCEPT ![j] = "open"]
    BY <1>1, <1>2 DEF JobState, LiveState, IInv, TypeOK
<1>4. OrderedFor' = [OrderedFor EXCEPT ![j] = rdoc[r]]
    BY <1>1, <1>2 DEF OrderedFor, IInv, TypeOK
<1>5. UNCHANGED Attempts
    BY <1>1, <1>2 DEF Attempts, IInv, TypeOK
<1> QED
    BY <1>1, <1>2, <1>3, <1>4, <1>5 DEF Lifecycle!Order, Lifecycle!Enter

\* What the statements of a handler show: an attempt goes on, or the last one failed.
LEMMA HandlerProgress ==
    ASSUME IInv, Reported, Counted, NEW w \in Handlers, NEW v,
           UNCHANGED <<boss, retries, jobDoc>>,
           LET d == jobDoc[hjob[w]] IN
               /\ hpc[w] # "idle"
               /\ \/ UpdateDoc(d, "processing", v) \/ UpdateDoc(d, "ready", v)
                  \/ UpdateDoc(d, "failed", v) /\ IsFinalFailure(w)
    PROVE  \/ UNCHANGED <<status, Lifecycle!jobVars>>
           \/ \E j \in Jobs, d \in Docs : Lifecycle!Progress(j, d) \/ Lifecycle!Fail(j, d)
<1> DEFINE j == hjob[w]
           d == jobDoc[j]
<1>1. UNCHANGED Lifecycle!jobVars
    BY SameJobs
<1>2. d \in Docs /\ j \in Jobs /\ Lifecycle!Working(j, d)
      /\ (IsFinalFailure(w) => Attempts[j] = RetryLimit + 1)
    BY HandlerWorks
<1>3. CASE status[d] = "absent"
    BY <1>1, <1>3 DEF UpdateDoc, Exists
<1>4. CASE status[d] # "absent"
  <2>1. Lifecycle!Exists(d)
      BY <1>4 DEF Lifecycle!Exists
  <2>2. Lifecycle!Progress(j, d) \/ Lifecycle!Fail(j, d)
      BY <1>1, <1>2, <1>4, <2>1 DEF Lifecycle!Progress, Lifecycle!Fail, Lifecycle!Show,
                                     UpdateDoc, Exists
  <2> QED
      BY <1>2, <2>2
<1> QED
    BY <1>3, <1>4

\* No job is open for the document that a reaper claims, and only a disturbed one
\* has come to that.
LEMMA ClaimRescues ==
    ASSUME IInv, ProcessingIsWorkedOn, NEW p \in Reapers, ReapClaim(p)
    PROVE  Lifecycle!Rescue(cand[p]) /\ cand[p] \in Docs
<1> DEFINE d == cand[p]
<1>1. d \in Docs /\ ~HasActiveJob(d)
    BY DEF IInv, ClaimSafe, ReapClaim, ClaimGuard
<1>2. status[d] = "processing" /\ status' = [status EXCEPT ![d] = "failed"]
    BY <1>1 DEF ReapClaim, ClaimGuard, UpdateDoc, Exists
<1>3. \A j \in Jobs : OrderedFor[j] = d => JobState[j] # "open"
  <2> SUFFICES ASSUME NEW j \in Jobs, OrderedFor[j] = d PROVE JobState[j] # "open"
      OBVIOUS
  <2>1. jobDoc[j] = d /\ boss[j] \notin LiveState
      BY <1>1, NullAssumption DEF OrderedFor, HasActiveJob
  <2> QED
      BY <2>1 DEF JobState, IInv, TypeOK, BossState
<1>4. UNCHANGED Lifecycle!jobVars
    BY SameJobs DEF ReapClaim, bossVars
<1>5. d \in disrupted
  <2> SUFFICES ASSUME WorkedOn(d) PROVE FALSE
      BY <1>1, <1>2 DEF ProcessingIsWorkedOn
  <2>1. PICK j \in Jobs : jobDoc[j] = d /\ (boss[j] = "retry" \/ \E w \in attached : hjob[w] = j)
      BY DEF WorkedOn
  <2>2. boss[j] \in LiveState
      BY <2>1 DEF IInv, AttemptOwnership, LiveState
  <2> QED
      BY <1>1, <2>1, <2>2 DEF HasActiveJob
<1> QED
    BY <1>1, <1>2, <1>3, <1>4, <1>5 DEF Lifecycle!Rescue, Lifecycle!Show

LEMMA UploadCreates ==
    ASSUME NEW r \in Requests, NEW d \in Docs, UploadDocument(r, d)
    PROVE  Lifecycle!Upload(d)
<1>1. \A j \in Jobs : OrderedFor[j] # d
    BY NullAssumption DEF UploadDocument, OrderedFor
<1>2. UNCHANGED Lifecycle!jobVars
    BY SameJobs DEF UploadDocument, rowVars, bossVars
<1> QED
    BY <1>1, <1>2 DEF UploadDocument, Lifecycle!Upload, Lifecycle!Show

LEMMA PatchSets ==
    ASSUME IInv, NEW d \in Docs, NEW s, Patch(d, s)
    PROVE  \/ UNCHANGED <<status, Lifecycle!jobVars>>
           \/ s \in PatchStatuses /\ Lifecycle!SetByHand(d, s)
<1>1. UNCHANGED Lifecycle!jobVars
    BY SameJobs DEF Patch, rowVars, bossVars
<1>2. status' = [status EXCEPT ![d] = s] /\ Lifecycle!Exists(d)
    BY DEF Patch, UpdateDoc, Exists, Lifecycle!Exists
<1>3. CASE s = status[d]
  <2>1. status \in [Docs -> DocumentStatus \union {"absent"}]
      BY DEF IInv, TypeOK
  <2>2. status' = status
      BY <1>2, <1>3, <2>1
  <2> QED
      BY <1>1, <2>2
<1>4. CASE s # status[d]
    BY <1>1, <1>2, <1>4 DEF Patch, Lifecycle!SetByHand, Lifecycle!Show
<1> QED
    BY <1>3, <1>4

LEMMA DisruptedGrows == [Next]_vars => disrupted \subseteq disrupted'
BY DEF vars, Next, Worker, Api, Reaper, HandlerStep, RequestStep, ReaperStep, Disrupt,
       Fetch, ReadDocument, MarkDocument, MarkJob, Download, Commit, FailUnrecorded,
       HandleRetryableFailure, HandleFinalFailure, Return, Throw, WorkerCrash, ExpireJob,
       UploadDocument, RequestReprocess, RequestDelete, ReadStale, AskStaleQueue,
       ResetReview, EnqueueTouch, EnqueueInsert, EnqueuePublish, DeleteDocument,
       RequestFails, Patch, ResolveReview, Age, ReapScan, ReapCheck, ReapClaim, ReapSkip,
       ReapEnd

\* Every step is a step of the document's life or does not show in it.
LEMMA StepImplements ==
    IInv /\ Reported /\ Counted /\ ProcessingIsWorkedOn /\ [Next]_vars =>
        [Lifecycle!Next]_Lifecycle!vars
<1> SUFFICES ASSUME IInv, Reported, Counted, ProcessingIsWorkedOn, [Next]_vars
             PROVE  Lifecycle!Next
    OBVIOUS
<1> DEFINE Quiet == UNCHANGED <<status, Lifecycle!jobVars>>
           OfJobs == \E j \in Jobs : Lifecycle!Attempt(j) \/ Lifecycle!Finish(j) \/ Lifecycle!GiveUp(j)
           OfBoth == \E j \in Jobs, d \in Docs :
                        Lifecycle!Order(j, d) \/ Lifecycle!Progress(j, d) \/ Lifecycle!Fail(j, d)
           OfDocs == \E d \in Docs : \/ Lifecycle!Upload(d) \/ Lifecycle!Delete(d) \/ Lifecycle!Rescue(d)
                                     \/ \E s \in PatchStatuses : Lifecycle!SetByHand(d, s)
<1> SUFFICES Quiet \/ OfDocs \/ OfJobs \/ OfBoth
    BY DisruptedGrows DEF Lifecycle!Next
<1>1. ASSUME NEW w \in Handlers, NEW j \in Jobs, Fetch(w, j) PROVE OfJobs
    BY <1>1, FetchAttempts
<1>2. ASSUME NEW w \in Handlers,
             \/ MarkDocument(w) \/ (\E v \in ReviewStatus : Commit(w, v))
             \/ HandleRetryableFailure(w) \/ HandleFinalFailure(w)
      PROVE  Quiet \/ OfBoth
  <2>1. UNCHANGED <<boss, retries, jobDoc>> /\ hpc[w] # "idle"
      BY <1>2 DEF MarkDocument, Commit, HandleRetryableFailure, HandleFinalFailure,
                  bossVars, rowVars
  <2>2. \E v : LET d == jobDoc[hjob[w]] IN
            \/ UpdateDoc(d, "processing", v) \/ UpdateDoc(d, "ready", v)
            \/ UpdateDoc(d, "failed", v) /\ IsFinalFailure(w)
      BY <1>2 DEF MarkDocument, Commit, HandleRetryableFailure, HandleFinalFailure
  <2> HIDE DEF Quiet
  <2>3. Quiet \/ \E j \in Jobs, d \in Docs : Lifecycle!Progress(j, d) \/ Lifecycle!Fail(j, d)
      BY <2>1, <2>2, HandlerProgress DEF Quiet
  <2> QED
      BY <2>3
<1>3. ASSUME NEW w \in Handlers, Return(w) \/ Throw(w) PROVE Quiet \/ OfJobs
  <2>1. hpc[w] # "idle" /\ UNCHANGED <<status, jobDoc, retries>>
      BY <1>3 DEF Return, Throw, Release, docVars, rowVars
  <2>2. CASE w \in attached
    <3>1. hjob[w] \in Jobs /\ boss[hjob[w]] = "active"
        BY <2>1, <2>2 DEF IInv, HandlerJobs, AttemptOwnership
    <3>2. \/ boss' = [boss EXCEPT ![hjob[w]] = "completed"]
          \/ boss' = [boss EXCEPT ![hjob[w]] = FailedState(hjob[w])]
        BY <1>3, <2>2 DEF Return, Throw
    <3> QED
        BY <2>1, <3>1, <3>2, EndOfAttempt
  <2>3. CASE w \notin attached
    <3>1. UNCHANGED boss
        BY <1>3, <2>3 DEF Return, Throw
    <3> QED
        BY <2>1, <3>1, SameJobs
  <2> QED
      BY <2>2, <2>3
<1>4. ASSUME NEW j \in Jobs, ExpireJob(j) PROVE Quiet \/ OfJobs
  <2>1. boss[j] = "active" /\ boss' = [boss EXCEPT ![j] = FailedState(j)]
        /\ UNCHANGED <<status, jobDoc, retries>>
      BY <1>4 DEF ExpireJob, docVars, rowVars
  <2> QED
      BY <2>1, EndOfAttempt
<1>5. ASSUME NEW w \in Handlers,
             \/ ReadDocument(w) \/ MarkJob(w) \/ Download(w) \/ FailUnrecorded(w) \/ WorkerCrash(w)
      PROVE  Quiet
  <2>1. UNCHANGED <<status, jobDoc, boss, retries>>
      BY <1>5 DEF ReadDocument, MarkJob, Download, FailUnrecorded, WorkerCrash, Release,
                  docVars, rowVars, bossVars
  <2> QED
      BY <2>1, SameJobs
<1>6. ASSUME NEW r \in Requests, NEW d \in Docs, UploadDocument(r, d) PROVE OfDocs
    BY <1>6, UploadCreates
<1>7. ASSUME NEW r \in Requests, EnqueuePublish(r) PROVE OfBoth
    BY <1>7, PublishOrders
<1>8. ASSUME NEW r \in Requests, NEW j \in Jobs, EnqueueInsert(r, j) PROVE Quiet
  <2>1. /\ boss[j] = "none" /\ UNCHANGED <<status, boss, retries>>
        /\ \A k \in Jobs \ {j} : jobDoc'[k] = jobDoc[k]
      BY <1>8 DEF EnqueueInsert, docVars, bossVars, IInv, QueueRows, TypeOK
  <2> QED
      BY <2>1, SameJobs
<1>9. ASSUME NEW r \in Requests, DeleteDocument(r) PROVE Quiet \/ OfDocs
  <2> DEFINE d == rdoc[r]
  <2>1. /\ d \in Docs /\ status' = [status EXCEPT ![d] = "absent"]
        /\ UNCHANGED <<jobDoc, boss, retries>>
      BY <1>9 DEF DeleteDocument, IInv, Publishing, bossVars
  <2>2. UNCHANGED Lifecycle!jobVars
      BY <2>1, SameJobs
  <2>3. CASE status[d] = "absent"
      BY <2>1, <2>2, <2>3 DEF IInv, TypeOK
  <2>4. CASE status[d] # "absent"
      BY <2>1, <2>2, <2>4 DEF Lifecycle!Delete, Lifecycle!Exists, Lifecycle!Show
  <2> QED
      BY <2>3, <2>4
<1>10. ASSUME NEW d \in Docs, NEW s \in DocumentStatus, Patch(d, s) PROVE Quiet \/ OfDocs
    BY <1>10, PatchSets
<1>11. ASSUME NEW r \in Requests, ResetReview(r) PROVE Quiet
  <2>1. UNCHANGED <<status, jobDoc, boss, retries>>
      BY <1>11 DEF ResetReview, UpdateDoc, rowVars, bossVars, IInv, TypeOK
  <2> QED
      BY <2>1, SameJobs
<1>12. ASSUME NEW d \in Docs, ResolveReview(d) PROVE Quiet
  <2>1. UNCHANGED <<status, jobDoc, boss, retries>>
      BY <1>12 DEF ResolveReview, UpdateDoc, rowVars, bossVars, IInv, TypeOK
  <2> QED
      BY <2>1, SameJobs
<1>13. ASSUME NEW r \in Requests,
              \/ ReadStale(r) \/ AskStaleQueue(r) \/ EnqueueTouch(r) \/ RequestFails(r)
              \/ (\E d \in Docs : RequestDelete(r, d) \/ \E op : RequestReprocess(r, d, op))
       PROVE  Quiet
  <2>1. UNCHANGED <<status, jobDoc, boss, retries>>
      BY <1>13 DEF ReadStale, AskStaleQueue, EnqueueTouch, RequestFails, RequestDelete,
                   RequestReprocess, docVars, rowVars, bossVars
  <2> QED
      BY <2>1, SameJobs
<1>14. ASSUME NEW p \in Reapers, ReapClaim(p) PROVE OfDocs
    BY <1>14, ClaimRescues
<1>15. ASSUME NEW p \in Reapers,
              ReapScan(p) \/ ReapSkip(p) \/ ReapEnd(p) \/ (\E d \in Docs : ReapCheck(p, d))
       PROVE  Quiet
  <2>1. UNCHANGED <<status, jobDoc, boss, retries>>
      BY <1>15 DEF ReapScan, ReapSkip, ReapEnd, ReapCheck, docVars, rowVars, bossVars
  <2> QED
      BY <2>1, SameJobs
<1>16. ASSUME UNCHANGED vars \/ (\E d \in Docs : Age(d)) PROVE Quiet
  <2>1. UNCHANGED <<status, jobDoc, boss, retries>>
      BY <1>16 DEF Age, vars, docVars, rowVars, bossVars
  <2> QED
      BY <2>1, SameJobs
<1> HIDE DEF Quiet, OfDocs, OfJobs, OfBoth
<1> QED
    BY <1>1, <1>2, <1>3, <1>4, <1>5, <1>6, <1>7, <1>8, <1>9, <1>10, <1>11, <1>12,
       <1>13, <1>14, <1>15, <1>16
       DEF Next, Worker, Api, Reaper, HandlerStep, RequestStep, ReaperStep

\* With any number of documents, jobs, handlers, requests and reapers, whatever
\* crashes, fails or expires, what becomes of the documents is a behaviour of
\* DocumentLifecycle.
THEOREM PipelineImplementsLifecycle == Spec => ImplementsLifecycle
<1>1. Init => Reported /\ Counted /\ ProcessingIsWorkedOn
      BY NullAssumption
      DEF Init, Reported, RowsFollow, ListenedTo, LastIsReported, ExhaustedIsReported, Counted,
          ProcessingIsWorkedOn
<1>2. Init => Lifecycle!Init
      BY DEF Init, Lifecycle!Init, JobState, OrderedFor, Attempts, LiveState
<1> QED
      BY <1>1, <1>2, Invariance, NextReported, NextCounted, NextWorkedOn, StepImplements, PTL
      DEF Spec, ImplementsLifecycle, Lifecycle!Spec

-----------------------------------------------------------------------------
(* What the life of a document promises holds of the pipeline through the   *)
(* refinement, without a look at handlers, requests and reapers.            *)

LifeTyped ==
    /\ DOMAIN status = Docs
    /\ JobState \in [Jobs -> {"none", "open", "completed", "failed"}]
    /\ DOMAIN OrderedFor = Jobs
    /\ Attempts \in [Jobs -> 0..(RetryLimit + 1)]
    /\ \A j \in Jobs : JobState[j] = "none" => Attempts[j] = 0

LEMMA NextFailedWasTried ==
    LifeTyped /\ Lifecycle!FailedWasTried /\ [Lifecycle!Next]_Lifecycle!vars
        => Lifecycle!FailedWasTried'
<1> SUFFICES ASSUME LifeTyped, Lifecycle!FailedWasTried, [Lifecycle!Next]_Lifecycle!vars
             PROVE  Lifecycle!FailedWasTried'
    OBVIOUS
<1> DEFINE Last == RetryLimit + 1
<1> USE DEF LifeTyped, Lifecycle!FailedWasTried, Lifecycle!jobVars, Lifecycle!Show,
            Lifecycle!Enter, Lifecycle!Exists
<1>1. CASE UNCHANGED Lifecycle!vars
    BY <1>1 DEF Lifecycle!vars
<1>2. CASE Lifecycle!Next
  <2>1. disrupted \subseteq disrupted'
      BY <1>2 DEF Lifecycle!Next
  <2> QED
      BY <1>2, <2>1, RetryLimitAssumption
      DEF Lifecycle!Next, Lifecycle!Upload, Lifecycle!Delete, Lifecycle!Rescue,
          Lifecycle!SetByHand, Lifecycle!Attempt, Lifecycle!Finish, Lifecycle!GiveUp,
          Lifecycle!Order, Lifecycle!Progress, Lifecycle!Fail, Lifecycle!Working
<1> QED
    BY <1>1, <1>2

\* A document that nothing disturbed and that shows "processing" has a handler that
\* will write its status again, or a retry due: it needs no request and no reaper.
THEOREM ProcessingWorkedOn == Spec => []ProcessingIsWorkedOn
<1>1. Init => Reported /\ ProcessingIsWorkedOn
      BY NullAssumption
      DEF Init, Reported, RowsFollow, ListenedTo, LastIsReported, ExhaustedIsReported,
          ProcessingIsWorkedOn
<1> QED
      BY <1>1, Invariance, NextReported, NextWorkedOn, PTL DEF Spec

\* A document that nothing disturbed shows "failed" only after pg-boss started every
\* attempt a job of it has, RetryLimit + 1 of them.
THEOREM FailuresWereTried == Spec => []Lifecycle!FailedWasTried
<1>1. Init => Lifecycle!FailedWasTried
      BY DEF Init, Lifecycle!FailedWasTried
<1>2. IInv /\ Counted => LifeTyped
      BY RetryLimitAssumption
      DEF IInv, TypeOK, Counted, LifeTyped, JobState, OrderedFor, Attempts, LiveState, BossState
<1>3. Init => Counted
      BY DEF Init, Counted
<1> QED
      BY <1>1, <1>2, <1>3, Invariance, NextCounted, NextFailedWasTried,
         PipelineImplementsLifecycle, PTL
      DEF Spec, ImplementsLifecycle, Lifecycle!Spec
=============================================================================
