------------------------ MODULE EmbeddingIndexProofs ------------------------
(* A document whose index is pending has a job, and one whose index is     *)
(* settled has the vectors of its text, for any number of jobs, requests,  *)
(* commits and chunks.                                                     *)
EXTENDS EmbeddingIndex, TLAPS

\* Plans are made for one pass of the handler, and a job that waits for a retry has
\* one left; a document is processed within the bound.
IInv ==
    /\ TypeOK
    /\ \A j \in Jobs : pc[j] # "embed" => todo[j] = {} /\ removed[j] = {}
    /\ \A j \in Jobs : pc[j] = "retry" => retries[j] < RetryLimit
    /\ \A j \in Jobs : late[j] => Running(j)
    /\ epc[Worker] = "parse" => commits < MaxCommits

Waiting ==
    \/ \E j \in Jobs : Alive(j)
    \/ epc[Worker] \in {"announce", "publish"}
    \/ epc[Worker] = "enqueue" /\ DOMAIN chunks # {}
    \/ \E u \in Users : epc[u] = "publish"

\* A pending document is owed a job by name: one that is alive, the worker's for
\* its commit, or that of a request past its announcement. A request that has
\* announced nothing owes none, so its failure leaves no debt.
Served == ready /\ Pending /\ ~abandoned /\ ~byHand => Waiting

\* FreeJob is what its name says.
LEMMA FreeJobIsFree ==
    ASSUME \E j \in Jobs : pc[j] = "none"
    PROVE  FreeJob \in Jobs /\ pc[FreeJob] = "none"
BY DEF FreeJob

\* A chunking has its chunks in the slots there are, and hashes in them.
LEMMA ChunkingTypes ==
    ASSUME NEW c \in Chunkings
    PROVE  DOMAIN c \subseteq Slots /\ \A i \in DOMAIN c : c[i] \in Hashes
<1>1. PICK n \in 0..MaxChunks : c \in [1..n -> Hashes] BY DEF Chunkings
<1> QED BY <1>1, BoundsAssumption DEF Slots

\* The empty chunking is one.
LEMMA NoChunksTypes == NoChunks \in Chunkings /\ DOMAIN NoChunks = {}
<1>1. NoChunks \in [1..0 -> Hashes] BY DEF NoChunks
<1>2. 0 \in 0..MaxChunks BY BoundsAssumption
<1> QED BY <1>1, <1>2 DEF Chunkings, NoChunks

LEMMA InitIInv == Init => IInv
<1> SUFFICES ASSUME Init PROVE IInv
  OBVIOUS
<1>1. 0 \in 0..RetryLimit /\ 0 \in 0..MaxCommits
  BY BoundsAssumption
<1>2. chunks \in Chunkings /\ seen \in [Jobs -> Chunkings]
  BY NoChunksTypes DEF Init
<1>3. /\ todo \in [Jobs -> SUBSET Slots] /\ removed \in [Jobs -> SUBSET Slots]
      /\ \A j \in Jobs : todo[j] = {} /\ removed[j] = {}
  BY DEF Init
<1>4. /\ epc \in [Enqueuers -> EnqueueSteps] /\ epc[Worker] = "idle"
      /\ pc \in [Jobs -> JobSteps] /\ \A j \in Jobs : pc[j] = "none"
  BY DEF Init, EnqueueSteps, JobSteps, Enqueuers
<1>5. retries \in [Jobs -> 0..RetryLimit] /\ commits \in 0..MaxCommits
  BY <1>1 DEF Init
<1> QED BY <1>2, <1>3, <1>4, <1>5 DEF Init, IInv, TypeOK, Slots

\* A handler that ends or gives up forgets its plan.
LEMMA ForgetKeeps ==
    ASSUME IInv, NEW j \in Jobs, Forget(j),
           \/ Goto(j, "none")
           \/ Goto(j, "retry") /\ retries[j] < RetryLimit,
           UNCHANGED <<docVars, enqueueVars, force, retries>>,
           vectors' \in [Slots -> Hashes \union {None}],
           status' \in {"not_configured", "queued", "indexing", "ready", "failed"},
           abandoned' \in BOOLEAN, unserved' \in BOOLEAN, byHand' \in BOOLEAN,
           met' \in BOOLEAN, written' \in BOOLEAN
    PROVE  IInv'
<1>1. /\ seen' \in [Jobs -> Chunkings] /\ sawReady' \in [Jobs -> BOOLEAN]
      /\ late' \in [Jobs -> BOOLEAN]
      /\ todo' \in [Jobs -> SUBSET Slots] /\ removed' \in [Jobs -> SUBSET Slots]
  BY NoChunksTypes DEF IInv, TypeOK, Forget
<1>2. \A k \in Jobs : todo'[k] \subseteq DOMAIN seen'[k]
                       /\ removed'[k] \intersect DOMAIN seen'[k] = {}
  BY DEF IInv, TypeOK, Forget
<1>3. pc' \in [Jobs -> JobSteps]
  BY DEF IInv, TypeOK, Goto, JobSteps
<1>4. /\ \A k \in Jobs : pc'[k] # "embed" => todo'[k] = {} /\ removed'[k] = {}
      /\ \A k \in Jobs : pc'[k] = "retry" => retries'[k] < RetryLimit
      /\ \A k \in Jobs : late'[k] => Running(k)'
  BY DEF IInv, TypeOK, Goto, Forget, Running
<1> QED BY <1>1, <1>2, <1>3, <1>4 DEF IInv, TypeOK, docVars, enqueueVars

LEMMA EnqueueIInv ==
    ASSUME IInv, NEW e \in Enqueuers, EnqueueStep(e) \/ EnqueueFails(e) \/ EnqueueCrashes(e)
    PROVE  IInv'
<1> USE DEF Running
<1>1. CASE CheckDocument(e)
  BY <1>1 DEF IInv, TypeOK, CheckDocument, EGoto, EnqueueSteps, docVars, jobVars, handlerVars,
              historyVars
<1>2. CASE Announce(e)
  BY <1>2 DEF IInv, TypeOK, Announce, EGoto, EnqueueSteps, docVars, jobVars, handlerVars,
              historyVars
<1>3. CASE Publish(e)
  <2>1. FreeJob \in Jobs /\ pc[FreeJob] = "none" BY <1>3, FreeJobIsFree DEF Publish
  <2>2. 0 \in 0..RetryLimit BY BoundsAssumption
  <2>3. /\ epc' \in [Enqueuers -> EnqueueSteps] /\ forced' \in [Enqueuers -> BOOLEAN]
        /\ epc'[Worker] = "parse" => epc[Worker] = "parse"
    BY <1>3 DEF Enqueuers, IInv, TypeOK, Publish, EGoto, EnqueueSteps
  <2>4. pc' \in [Jobs -> JobSteps] /\ retries' \in [Jobs -> 0..RetryLimit]
        /\ force' \in [Jobs -> BOOLEAN]
    BY <1>3, <2>1, <2>2 DEF IInv, TypeOK, Publish, JobSteps
  <2> QED
    BY <1>3, <2>1, <2>3, <2>4 DEF IInv, TypeOK, Publish, Running, docVars, handlerVars
<1>4. CASE EnqueueFails(e)
  BY <1>4 DEF IInv, TypeOK, EnqueueFails, EGoto, EnqueueSteps, docVars, jobVars, handlerVars
<1>5. CASE EnqueueCrashes(e)
  BY <1>5 DEF IInv, TypeOK, EnqueueCrashes, EGoto, EnqueueSteps, docVars, jobVars, handlerVars
<1> QED BY <1>1, <1>2, <1>3, <1>4, <1>5 DEF EnqueueStep

LEMMA HandlerIInv ==
    ASSUME IInv, NEW j \in Jobs, HandlerStep(j) \/ Fails(j) \/ Dies(j) \/ Expire(j)
    PROVE  IInv'
<1> USE DEF IInv, TypeOK, Running
<1>1. CASE Start(j)
  <2>1. retries' \in [Jobs -> 0..RetryLimit]
    BY <1>1, BoundsAssumption DEF Start
  <2>2. pc' \in [Jobs -> JobSteps] /\ pc'[j] = "document"
        /\ \A k \in Jobs : k # j => pc'[k] = pc[k] /\ retries'[k] = retries[k]
    BY <1>1 DEF Start, Goto, JobSteps
  <2> QED BY <1>1, <2>1, <2>2 DEF Start, docVars, enqueueVars, handlerVars
<1>2. CASE ReadDocument(j)
  BY <1>2 DEF ReadDocument, Goto, JobSteps, docVars, enqueueVars, historyVars
<1>3. CASE ReadChunks(j)
  BY <1>3 DEF ReadChunks, Goto, JobSteps, docVars, enqueueVars, historyVars
<1>4. CASE MarkIndexing(j)
  BY <1>4 DEF MarkIndexing, Goto, JobSteps, docVars, enqueueVars, handlerVars, historyVars
<1>5. CASE ReadVectors(j)
  <2>1. todo' \in [Jobs -> SUBSET Slots] /\ removed' \in [Jobs -> SUBSET Slots]
    BY <1>5, ChunkingTypes DEF ReadVectors, Gone
  <2>2. \A k \in Jobs : todo'[k] \subseteq DOMAIN seen'[k]
                         /\ removed'[k] \intersect DOMAIN seen'[k] = {}
    BY <1>5 DEF ReadVectors, Gone
  <2> QED
    BY <1>5, <2>1, <2>2 DEF ReadVectors, Goto, JobSteps, docVars, enqueueVars, historyVars
<1>6. CASE CompleteWithoutChanges(j)
  BY <1>6, ForgetKeeps DEF CompleteWithoutChanges, historyVars
<1>7. CASE Write(j)
  <2>1. \A i \in todo[j] : seen[j][i] \in Hashes
    BY ChunkingTypes
  <2>2. vectors' \in [Slots -> Hashes \union {None}]
    BY <1>7, <2>1 DEF Write, Slots
  <2> QED BY <1>7, <2>2, ForgetKeeps DEF Write
<1>8. CASE Fails(j)
  <2>2. Goto(j, "none") \/ (Goto(j, "retry") /\ retries[j] < RetryLimit)
    BY <1>8 DEF Fails, End
  <2>3. status' \in {"not_configured", "queued", "indexing", "ready", "failed"}
    BY <1>8 DEF Fails
  <2>4. abandoned' \in BOOLEAN
    BY <1>8 DEF Fails
  <2> QED BY ONLY <1>8, <2>2, <2>3, <2>4, ForgetKeeps, IInv DEF Fails, End, IInv, TypeOK
<1>9. CASE Dies(j)
  <2>2. Goto(j, "none") \/ (Goto(j, "retry") /\ retries[j] < RetryLimit)
    BY <1>9 DEF Dies, End
  <2>3. abandoned' \in BOOLEAN
    BY <1>9 DEF Dies
  <2> QED BY ONLY <1>9, <2>2, <2>3, ForgetKeeps, IInv DEF Dies, End, IInv, TypeOK
<1>10. CASE Expire(j)
  <2>1. CASE retries[j] < RetryLimit
    <3>1. FreeJob \in Jobs /\ pc[FreeJob] = "none"
      BY <1>10, <2>1, FreeJobIsFree DEF Expire
    <3>2. /\ pc' = [pc EXCEPT ![FreeJob] = "retry"]
          /\ retries' = [retries EXCEPT ![FreeJob] = retries[j]]
          /\ force' = [force EXCEPT ![FreeJob] = force[j]]
          /\ late' = [late EXCEPT ![j] = TRUE]
      BY <1>10, <2>1 DEF Expire
    <3>3. \A k \in Jobs : late'[k] => Running(k)'
      BY <1>10, <3>1, <3>2 DEF Expire
    <3> QED
      BY <1>10, <2>1, <3>1, <3>2, <3>3 DEF Expire, JobSteps, docVars, enqueueVars, handlerVars,
                                           historyVars
  <2>2. CASE ~(retries[j] < RetryLimit)
    BY <1>10, <2>2 DEF Expire, docVars, enqueueVars, handlerVars, historyVars
  <2> QED BY <2>1, <2>2
<1> QED BY <1>1, <1>2, <1>3, <1>4, <1>5, <1>6, <1>7, <1>8, <1>9, <1>10 DEF HandlerStep

LEMMA NextIInv == IInv /\ [Next]_vars => IInv'
<1> SUFFICES ASSUME IInv, [Next]_vars PROVE IInv'
  OBVIOUS
<1> USE DEF Running
<1>1. ASSUME NEW f \in BOOLEAN, StartProcessing(f) PROVE IInv'
  BY <1>1 DEF IInv, TypeOK, StartProcessing, EGoto, EnqueueSteps, jobVars, handlerVars,
              historyVars
<1>2. ASSUME NEW new \in Texts, Commit(new) PROVE IInv'
  <2>1. commits' \in 0..MaxCommits
    BY <1>2, BoundsAssumption DEF IInv, TypeOK, Commit
  <2> QED
    BY <1>2, <2>1, TextsAssumption
    DEF IInv, TypeOK, Commit, EGoto, EnqueueSteps, Enqueuers, jobVars, handlerVars, historyVars
<1>3. CASE ProcessingFails
  BY <1>3 DEF IInv, TypeOK, ProcessingFails, EGoto, EnqueueSteps, jobVars, handlerVars,
              historyVars
<1>4. ASSUME NEW u \in Users, Reembed(u) PROVE IInv'
  BY <1>4 DEF IInv, TypeOK, Reembed, EGoto, EnqueueSteps, Enqueuers, docVars, jobVars,
              handlerVars, historyVars
<1>5. CASE UNCHANGED vars
  BY <1>5 DEF IInv, TypeOK, vars, docVars, enqueueVars, jobVars, handlerVars, historyVars
<1>6. CASE SetStatus
  BY <1>6 DEF IInv, TypeOK, SetStatus, enqueueVars, jobVars, handlerVars
<1> QED BY <1>1, <1>2, <1>3, <1>4, <1>5, <1>6, EnqueueIInv, HandlerIInv DEF Next

\* TypeOK for any number of jobs, requests and chunks.
THEOREM TypeCorrect == Spec => []TypeOK
<1>1. IInv => TypeOK
  BY DEF IInv
<1> QED
  BY InitIInv, NextIInv, <1>1, PTL DEF Spec

-----------------------------------------------------------------------------
LEMMA InitServed == Init => Served
BY DEF Init, Served

\* An announced job is published, fails with a record, or is abandoned.
LEMMA EnqueueServed ==
    ASSUME IInv, Served, NEW e \in Enqueuers, EnqueueStep(e) \/ EnqueueFails(e) \/ EnqueueCrashes(e)
    PROVE  Served'
<1> USE DEF IInv, TypeOK, Served, Waiting, Pending, Alive, Running, Enqueuers
<1>1. CASE CheckDocument(e)
  <2>1. /\ \A d \in Enqueuers : d # e => epc'[d] = epc[d]
        /\ epc[e] = "enqueue" /\ epc'[e] = IF ready /\ DOMAIN chunks # {} THEN "announce" ELSE "idle"
    BY <1>1 DEF CheckDocument, EGoto
  <2>2. UNCHANGED <<ready, chunks, status, abandoned, byHand, pc>>
    BY <1>1 DEF CheckDocument, docVars, jobVars, historyVars
  <2>3. SUFFICES ASSUME ready, Pending, ~abandoned, ~byHand PROVE Waiting'
    BY <2>2
  <2>4. CASE \E j \in Jobs : Alive(j)
    BY <2>2, <2>4
  <2>5. CASE \/ epc[Worker] \in {"announce", "publish"}
             \/ epc[Worker] = "enqueue" /\ DOMAIN chunks # {}
    <3>1. DOMAIN chunks' = DOMAIN chunks
      BY <2>2
    <3>2. CASE e = Worker
      BY <2>1, <2>3, <2>5, <3>2
    <3>3. CASE e # Worker
      BY <2>1, <2>5, <3>1, <3>3
    <3> QED BY <3>2, <3>3
  <2>6. CASE \E u \in Users : epc[u] = "publish"
    BY <2>1, <2>6
  <2>7. Waiting
    BY <2>3
  <2> QED BY ONLY <2>4, <2>5, <2>6, <2>7 DEF Waiting
<1>2. CASE Announce(e)
  <2>1. epc'[e] = "publish" /\ UNCHANGED chunks
    BY <1>2 DEF Announce, EGoto, docVars
  <2>2. CASE e \in Users
    BY <2>1, <2>2
  <2>3. CASE e = Worker
    <3>1. epc[Worker] = "announce" /\ UNCHANGED <<ready, abandoned, byHand, pc>>
          /\ \A u \in Users : epc'[u] = epc[u]
      BY <1>2, <2>3, WorkerAssumption DEF Announce, EGoto, docVars, jobVars, historyVars
    <3> QED BY <2>1, <2>3, <3>1
  <2> QED BY <2>2, <2>3
<1>3. CASE Publish(e)
  <2>1. FreeJob \in Jobs BY <1>3, FreeJobIsFree DEF Publish
  <2>2. pc'[FreeJob] = "created" BY <1>3, <2>1 DEF Publish
  <2> QED BY <2>1, <2>2
<1>4. CASE EnqueueFails(e)
  BY <1>4, WorkerAssumption DEF EnqueueFails, EGoto, docVars, jobVars
<1>5. CASE EnqueueCrashes(e)
  BY <1>5, WorkerAssumption DEF EnqueueCrashes, EGoto, docVars, jobVars
<1> QED BY <1>1, <1>2, <1>3, <1>4, <1>5 DEF EnqueueStep

\* A job that ends leaves a record, or is abandoned.
LEMMA HandlerServed ==
    ASSUME IInv, Served, NEW j \in Jobs, HandlerStep(j) \/ Fails(j) \/ Dies(j) \/ Expire(j)
    PROVE  Served'
<1> USE DEF IInv, TypeOK, Served, Waiting, Pending, Alive, Running
<1>1. ASSUME NEW step \in {"document", "chunks", "mark", "unchanged", "vectors", "embed", "retry"},
             Goto(j, step)
      PROVE  Served'
  <2>1. pc'[j] = step BY <1>1 DEF Goto
  <2> QED BY <2>1
<1>2. CASE Start(j)
  BY <1>1, <1>2 DEF Start
<1>3. CASE ReadDocument(j)
  BY <1>1, <1>3 DEF ReadDocument
<1>4. CASE ReadChunks(j)
  BY <1>1, <1>4 DEF ReadChunks
<1>5. CASE MarkIndexing(j)
  BY <1>1, <1>5 DEF MarkIndexing
<1>6. CASE ReadVectors(j)
  BY <1>1, <1>6 DEF ReadVectors
<1>7. CASE CompleteWithoutChanges(j) \/ Write(j)
  BY <1>7 DEF CompleteWithoutChanges, Write
<1>8. CASE Fails(j) \/ Dies(j)
  <2>1. CASE retries[j] < RetryLimit /\ ~late[j]
    BY <1>1, <1>8, <2>1 DEF Fails, Dies, End
  <2>2. CASE ~(retries[j] < RetryLimit)
    <3>1. retries[j] >= RetryLimit
      BY <2>2, BoundsAssumption
    <3>2. status' = "failed" \/ abandoned'
      BY <1>8, <3>1 DEF Fails, Dies, Exhausted
    <3> QED BY <3>2
  <2>3. CASE retries[j] < RetryLimit /\ late[j]
    \* Another job is there, or the last one has ended late.
    <3>1. abandoned' \/ ~LastOne(j)
      BY <1>8, <2>3 DEF Fails, Dies
    <3>2. \A k \in Jobs \ {j} : Alive(k)' <=> Alive(k)
      BY <1>8 DEF Fails, Dies, End, Goto
    <3> QED BY <3>1, <3>2 DEF LastOne
  <2> QED BY <2>1, <2>2, <2>3
<1>9. CASE Expire(j)
  <2>1. Running(j) /\ Running(j)'
    <3>1. CASE retries[j] < RetryLimit
      BY <1>9, <3>1, FreeJobIsFree DEF Expire
    <3>2. CASE ~(retries[j] < RetryLimit)
      BY <1>9, <3>2 DEF Expire
    <3> QED BY <3>1, <3>2
  <2> QED BY <2>1
<1> QED BY <1>2, <1>3, <1>4, <1>5, <1>6, <1>7, <1>8, <1>9 DEF HandlerStep

LEMMA NextServed == IInv /\ Served /\ [Next]_vars => Served'
<1> SUFFICES ASSUME IInv, Served, [Next]_vars PROVE Served'
  OBVIOUS
<1>1. ASSUME NEW f \in BOOLEAN, StartProcessing(f) PROVE Served'
  BY <1>1 DEF Served, StartProcessing
<1>2. ASSUME NEW new \in Texts, Commit(new) PROVE Served'
  BY <1>2 DEF IInv, TypeOK, Served, Waiting, Pending, Commit, EGoto, Enqueuers
<1>3. CASE ProcessingFails
  BY <1>3 DEF Served, ProcessingFails
<1>4. ASSUME NEW u \in Users, Reembed(u) PROVE Served'
  BY <1>4, WorkerAssumption
  DEF IInv, TypeOK, Served, Waiting, Pending, Alive, Running, Reembed, EGoto, Enqueuers, docVars,
      jobVars, historyVars
<1>5. CASE UNCHANGED vars
  BY <1>5 DEF Served, Waiting, Pending, Alive, Running, vars, docVars, enqueueVars, jobVars,
              historyVars
<1>6. CASE SetStatus
  BY <1>6 DEF Served, SetStatus
<1> QED BY <1>1, <1>2, <1>3, <1>4, <1>5, <1>6, EnqueueServed, HandlerServed DEF Next

\* PendingHasJob for any number of jobs, requests, commits and retries, whatever
\* fails: nothing an index waits for is lost without a record but in a crash.
THEOREM PendingIsServed == Spec => []PendingHasJob
<1>1. Served => PendingHasJob
  BY DEF Served, Waiting, PendingHasJob, Enqueuers
<1> QED
  BY InitIInv, NextIInv, InitServed, NextServed, <1>1, PTL DEF Spec
-----------------------------------------------------------------------------
(* SettledIsIndexed. Either a job is owed that will read the present chunks, *)
(* or the one handler that runs has read them and nothing it knows is out of *)
(* date, or nothing runs and the index is complete or shown as failed. A     *)
(* handler that still knows an earlier text always has an owed job behind it.*)

OneRuns == ~met => \A j, k \in Jobs : Running(j) /\ Running(k) => j = k

Owed ==
    \/ epc[Worker] \in {"enqueue", "announce", "publish"}
    \/ \E e \in Enqueuers : epc[e] = "publish"
    \/ \E j \in Jobs : pc[j] \in {"created", "retry"}

UpToDate(j) ==
    \/ pc[j] = "document"
    \/ pc[j] = "chunks" /\ sawReady[j]
    \/ pc[j] \in {"mark", "vectors"} /\ sawReady[j] /\ seen[j] = chunks
    \/ pc[j] = "embed" /\ seen[j] = chunks
          /\ \A i \in DOMAIN chunks : i \in todo[j] \/ vectors[i] = chunks[i]

Indexed == \A i \in DOMAIN chunks : vectors[i] = chunks[i]

Progress ==
    \/ Owed
    \/ \E j \in Jobs : UpToDate(j)
    \/ (\A j \in Jobs : ~Running(j)) /\ (status = "failed" \/ Indexed)

Disturbed == abandoned \/ unserved \/ byHand \/ met
IndexServed == ready /\ ~Disturbed /\ DOMAIN chunks # {} => Progress

(* Once vectors of the present text are written, whoever has read chunks has *)
(* read that text; and a plan to delete is complete for as long as nobody    *)
(* else runs.                                                                *)
KnowsText(j) == pc[j] \in {"mark", "unchanged", "vectors", "embed"} => seen[j] = chunks
NoOldVectors == \A i \in Slots \ DOMAIN chunks : vectors[i] = None
WrittenIsClean == ~met /\ written => NoOldVectors /\ \A j \in Jobs : KnowsText(j)
PlansAreComplete ==
    ~met => \A j \in Jobs : pc[j] = "embed" =>
        \A i \in Slots \ DOMAIN seen[j] : i \in removed[j] \/ vectors[i] = None

\* While no other handler has started, the retry of an expired job still waits.
LateIsOwed ==
    ~met => \A j \in Jobs : late[j] /\ retries[j] < RetryLimit => \E k \in Jobs : pc[k] = "retry"

Index == OneRuns /\ IndexServed /\ WrittenIsClean /\ PlansAreComplete /\ LateIsOwed

\* A step outside the handlers leaves what they know, and what they have written.
LEMMA HandlersIdle ==
    ASSUME \A j \in Jobs : late[j] => Running(j), Index,
           UNCHANGED <<chunks, vectors, seen, removed, late, met>>,
           written' => written,
           \A j \in Jobs : pc'[j] = pc[j] \/ (pc[j] = "none" /\ pc'[j] = "created"),
           \A j \in Jobs : pc[j] = "none" \/ retries'[j] = retries[j]
    PROVE  OneRuns' /\ WrittenIsClean' /\ PlansAreComplete' /\ LateIsOwed'
<1>1. \A j \in Jobs : Running(j)' <=> Running(j)
  BY DEF Running
<1>2. OneRuns'
  BY <1>1 DEF Index, OneRuns
<1>3. WrittenIsClean'
  BY DEF Index, WrittenIsClean, NoOldVectors, KnowsText
<1>4. PlansAreComplete'
  BY DEF Index, PlansAreComplete
<1>5. LateIsOwed'
  <2>1. \A j \in Jobs : late[j] => retries'[j] = retries[j]
    BY DEF Running
  <2> QED BY <2>1 DEF Index, LateIsOwed
<1> QED BY <1>2, <1>3, <1>4, <1>5

\* An enqueuer that gives up without publishing owes nothing, or is recorded.
LEMMA EnqueueIndex ==
    ASSUME IInv, Index, NEW e \in Enqueuers, EnqueueStep(e) \/ EnqueueFails(e) \/ EnqueueCrashes(e)
    PROVE  Index'
<1> USE DEF IInv, TypeOK
<1>0. \A j \in Jobs : late[j] => Running(j)
  BY DEF IInv
<1>1. CASE Publish(e)
  <2>1. FreeJob \in Jobs /\ pc[FreeJob] = "none" BY <1>1, FreeJobIsFree DEF Publish
  <2>2. pc'[FreeJob] = "created" /\ \A j \in Jobs : pc'[j] = pc[j] \/ j = FreeJob
    BY <1>1, <2>1 DEF Publish
  <2>3. Owed' BY <2>1, <2>2 DEF Owed
  <2>4. OneRuns' /\ WrittenIsClean' /\ PlansAreComplete' /\ LateIsOwed'
    <3>1. UNCHANGED <<chunks, vectors, seen, removed, late, met>>
      BY <1>1 DEF Publish, docVars, handlerVars
    <3>2. (written' => written) /\ \A j \in Jobs \ {FreeJob} : retries'[j] = retries[j]
      BY <1>1 DEF Publish
    <3> QED BY ONLY <2>1, <2>2, <3>1, <3>2, <1>0, HandlersIdle, Index
  <2> QED BY <2>3, <2>4 DEF Index, IndexServed, Progress
<1>2. CASE ~Publish(e)
  <2>1. /\ UNCHANGED <<ready, chunks, vectors, pc, retries, late, seen, todo, removed, sawReady,
                       byHand, met, written>>
        /\ abandoned => abandoned'
    BY <1>2 DEF EnqueueStep, CheckDocument, Announce, EnqueueFails, EnqueueCrashes, docVars,
                jobVars, handlerVars, historyVars
  <2>2. OneRuns' /\ WrittenIsClean' /\ PlansAreComplete' /\ LateIsOwed'
    <3>1. UNCHANGED <<chunks, vectors, seen, removed, late, met>>
      BY <2>1
    <3>2. (written' => written) /\ \A j \in Jobs : pc'[j] = pc[j] /\ retries'[j] = retries[j]
      BY <2>1
    <3> QED BY ONLY <3>1, <3>2, <1>0, HandlersIdle, Index
  <2>3. IndexServed'
    <3>1. SUFFICES ASSUME ready, ~Disturbed', DOMAIN chunks # {} PROVE Progress'
      BY <2>1 DEF IndexServed
    <3>2. CASE Announce(e)
      <4>1. epc'[e] = "publish" BY <3>2 DEF Announce, EGoto
      <4> QED BY <4>1 DEF Progress, Owed
    <3>3. CASE ~Announce(e)
      <4>1. UNCHANGED <<status, abandoned, unserved>>
        <5>1. CASE CheckDocument(e)
          BY <5>1 DEF CheckDocument, historyVars
        <5>2. CASE EnqueueFails(e)
          BY <2>1, <3>1, <5>2 DEF EnqueueFails, Disturbed
        <5>3. CASE EnqueueCrashes(e)
          BY <2>1, <3>1, <5>3 DEF EnqueueCrashes, Disturbed
        <5> QED BY <1>2, <3>3, <5>1, <5>2, <5>3 DEF EnqueueStep
      <4>2. Owed => Owed'
        <5>1. \A d \in Enqueuers : d # e => epc'[d] = epc[d]
          BY <1>2, <3>3
          DEF EnqueueStep, CheckDocument, EnqueueFails, EnqueueCrashes, EGoto
        <5>2. /\ epc[e] = "publish" => FALSE
              /\ e = Worker /\ epc[e] \in {"enqueue", "announce"} => epc'[e] = "announce"
          <6>1. CASE CheckDocument(e)
            BY <3>1, <6>1 DEF CheckDocument, EGoto
          <6>2. CASE EnqueueFails(e)
            BY <3>1, <6>2 DEF EnqueueFails, Disturbed
          <6>3. CASE EnqueueCrashes(e)
            BY <3>1, <6>3 DEF EnqueueCrashes, Disturbed
          <6> QED BY <1>2, <3>3, <6>1, <6>2, <6>3 DEF EnqueueStep
        <5> QED BY <2>1, <5>1, <5>2 DEF Owed, Enqueuers
      <4>3. Progress
        BY <2>1, <3>1, <4>1 DEF Index, IndexServed, Disturbed
      <4>4. \A j \in Jobs : (UpToDate(j)' <=> UpToDate(j)) /\ (Running(j)' <=> Running(j))
        BY <2>1 DEF UpToDate, Running
      <4>5. Indexed' <=> Indexed
        BY <2>1 DEF Indexed
      <4> QED BY <4>1, <4>2, <4>3, <4>4, <4>5 DEF Progress
    <3> QED BY <3>2, <3>3
  <2> QED BY <2>2, <2>3 DEF Index
<1> QED BY <1>1, <1>2

\* What the steps of a handler have in common: the others stand still, and while
\* nobody met another, none of them runs.
LEMMA Alone ==
    ASSUME IInv, Index, NEW j \in Jobs, Running(j), NEW step, Goto(j, step), ~met
    PROVE  /\ pc'[j] = step
           /\ \A k \in Jobs : k # j => pc'[k] = pc[k] /\ ~Running(k) /\ (Running(k)' <=> Running(k))
<1>1. pc'[j] = step /\ \A k \in Jobs : k # j => pc'[k] = pc[k]
  BY DEF IInv, TypeOK, Goto
<1>2. \A k \in Jobs : k # j => ~Running(k)
  BY DEF Index, OneRuns
<1> QED BY <1>1, <1>2 DEF Running

\* A step of a handler owes what was owed: it starts a job, or leaves the rest alone.
LEMMA StillOwed ==
    ASSUME IInv, NEW j \in Jobs, Running(j), Owed, UNCHANGED epc,
           \A k \in Jobs : k # j => pc'[k] = pc[k]
    PROVE  Owed'
BY DEF Owed, Running

\* What a handler's step does to the promises about old vectors.
LEMMA HandlerClean ==
    ASSUME IInv, Index, NEW j \in Jobs, Running(j), HandlerStep(j) \/ Fails(j) \/ Dies(j),
           ~met, ~met',
           \A k \in Jobs : k # j => pc'[k] = pc[k] /\ ~Running(k)
    PROVE  WrittenIsClean' /\ PlansAreComplete'
<1> USE DEF IInv, TypeOK
<1>1. \A k \in Jobs : k # j => pc'[k] \notin {"mark", "unchanged", "vectors", "embed"}
  BY DEF Running
<1>2. UNCHANGED chunks
  BY DEF HandlerStep, Start, ReadDocument, ReadChunks, MarkIndexing, CompleteWithoutChanges,
         ReadVectors, Write, Fails, Dies, docVars
<1>3. CASE Write(j)
  <2>1. pc'[j] = "none"
    BY <1>3 DEF Write, Goto
  <2>2. PlansAreComplete' /\ \A k \in Jobs : KnowsText(k)'
    BY <1>1, <2>1 DEF PlansAreComplete, KnowsText
  <2>3. ASSUME written' PROVE NoOldVectors'
    <3>1. CASE todo[j] = {}
      <4>1. vectors' = vectors /\ written
        BY <1>3, <2>3, <3>1 DEF Write
      <4> QED BY <1>2, <4>1 DEF Index, WrittenIsClean, NoOldVectors
    <3>2. CASE todo[j] # {}
      <4>1. seen[j] = chunks
        <5>1. CASE written
          BY <1>3, <5>1 DEF Index, WrittenIsClean, KnowsText, Write
        <5>2. CASE ~written
          BY <1>3, <2>3, <5>2 DEF Write
        <5> QED BY <5>1, <5>2
      <4>2. \A i \in Slots \ DOMAIN chunks : i \in removed[j] \/ vectors[i] = None
        BY <1>3, <4>1 DEF Index, PlansAreComplete, Write
      <4>3. todo[j] \subseteq DOMAIN chunks
        BY <4>1
      <4>4. vectors' = [i \in Slots |->
                          IF i \in removed[j] THEN None
                          ELSE IF i \in todo[j] THEN seen[j][i] ELSE vectors[i]]
        BY <1>3, <3>2 DEF Write, Slots
      <4> QED BY <1>2, <4>2, <4>3, <4>4 DEF NoOldVectors
    <3> QED BY <3>1, <3>2
  <2> QED BY <2>2, <2>3 DEF WrittenIsClean
<1>4. CASE ~Write(j)
  <2>1. UNCHANGED <<vectors, written>>
    BY <1>4 DEF HandlerStep, Start, ReadDocument, ReadChunks, MarkIndexing,
                CompleteWithoutChanges, ReadVectors, Fails, Dies, historyVars
  <2>2. ASSUME written, KnowsText(j) PROVE KnowsText(j)'
    <3>1. CASE ReadChunks(j)
      BY <1>2, <3>1 DEF ReadChunks, KnowsText
    <3>2. CASE MarkIndexing(j) \/ ReadVectors(j)
      BY <1>2, <2>2, <3>2 DEF MarkIndexing, ReadVectors, KnowsText, handlerVars
    <3>3. CASE ~ReadChunks(j) /\ ~MarkIndexing(j) /\ ~ReadVectors(j)
      <4>1. pc'[j] \in {"document", "chunks", "none", "retry"}
        BY <1>4, <3>3 DEF HandlerStep, Start, ReadDocument, CompleteWithoutChanges, Fails, Dies,
                          End, Goto
      <4> QED BY <4>1 DEF KnowsText
    <3> QED BY <3>1, <3>2, <3>3
  <2>3. WrittenIsClean'
    <3>1. \A k \in Jobs : k # j => KnowsText(k)'
      BY <1>1 DEF KnowsText
    <3> QED BY <1>2, <2>1, <2>2, <3>1 DEF Index, WrittenIsClean, NoOldVectors
  <2>4. PlansAreComplete'
    <3>1. CASE ReadVectors(j)
      BY <1>1, <2>1, <3>1 DEF ReadVectors, Gone, PlansAreComplete
    <3>2. CASE ~ReadVectors(j)
      <4>1. pc'[j] # "embed"
        BY <1>4, <3>2 DEF HandlerStep, Start, ReadDocument, ReadChunks, MarkIndexing,
                          CompleteWithoutChanges, Fails, Dies, End, Goto
      <4> QED BY <1>1, <4>1 DEF PlansAreComplete
    <3> QED BY <3>1, <3>2
  <2> QED BY <2>3, <2>4
<1> QED BY <1>3, <1>4

\* A handler that is up to date stays so, and completes the index, is recorded as
\* failed, or owes a retry.
LEMMA HandlerProgress ==
    ASSUME IInv, Index, NEW j \in Jobs, UpToDate(j), HandlerStep(j) \/ Fails(j) \/ Dies(j),
           ready, ~met, ~Disturbed', DOMAIN chunks # {},
           \A k \in Jobs : k # j => pc'[k] = pc[k] /\ ~Running(k)
    PROVE  Progress'
<1> USE DEF IInv, TypeOK
<1>0. \A k \in Jobs : k # j => ~Running(k)'
  BY DEF Running
<1>1. CASE ReadDocument(j) \/ ReadChunks(j)
  <2>1. UpToDate(j)'
    BY <1>1 DEF ReadDocument, ReadChunks, UpToDate, Goto, docVars
  <2> QED BY <2>1 DEF Progress
<1>2. CASE MarkIndexing(j)
  <2>1. DOMAIN seen[j] # {} /\ sawReady[j] /\ seen[j] = chunks
    BY <1>2 DEF MarkIndexing, UpToDate
  <2>2. UpToDate(j)'
    BY <1>2, <2>1 DEF MarkIndexing, UpToDate, Goto, docVars, handlerVars
  <2> QED BY <2>2 DEF Progress
<1>3. CASE ReadVectors(j)
  <2>1. UpToDate(j)'
    BY <1>3 DEF ReadVectors, Stale, UpToDate, Goto, docVars
  <2> QED BY <2>1 DEF Progress
<1>4. CASE Write(j)
  <2>1. /\ seen[j] = chunks /\ chunks' = chunks
        /\ \A i \in DOMAIN chunks : i \in todo[j] \/ vectors[i] = chunks[i]
    BY <1>4 DEF Write, UpToDate, docVars
  <2>2. DOMAIN chunks \subseteq Slots /\ removed[j] \intersect DOMAIN chunks = {}
    BY <2>1, ChunkingTypes
  <2>3. Indexed'
    <3>1. CASE todo[j] = {}
      BY <1>4, <2>1, <3>1 DEF Write, Indexed
    <3>2. CASE todo[j] # {}
      BY <1>4, <2>1, <2>2, <3>2 DEF Write, Indexed, Slots
    <3> QED BY <3>1, <3>2
  <2>4. ~Running(j)'
    BY <1>4 DEF Write, Goto, Running
  <2> QED BY <1>0, <2>3, <2>4 DEF Progress
<1>5. CASE Fails(j) \/ Dies(j)
  <2>1. CASE ~(retries[j] < RetryLimit)
    <3>1. retries[j] >= RetryLimit
      BY <2>1, BoundsAssumption
    <3>3. Fails(j) /\ Exhausted(j)
      BY <1>5, <3>1 DEF Dies, Disturbed, Exhausted
    <3>2. status' = "failed" /\ ~Running(j)'
      BY <2>1, <3>3 DEF Fails, End, Goto, Running
    <3> QED BY <1>0, <3>2 DEF Progress
  <2>2. CASE retries[j] < RetryLimit /\ ~late[j]
    <3>1. pc'[j] = "retry"
      BY <1>5, <2>2 DEF Fails, Dies, End, Goto
    <3> QED BY <3>1 DEF Progress, Owed
  <2>3. CASE retries[j] < RetryLimit /\ late[j]
    \* Its retry was there before it ended.
    <3>1. PICK k \in Jobs : pc[k] = "retry"
      BY <2>3 DEF Index, LateIsOwed
    <3>2. k # j
      BY <3>1 DEF UpToDate
    <3> QED BY <3>1, <3>2 DEF Progress, Owed
  <2> QED BY <2>1, <2>2, <2>3
<1>6. CASE Start(j) \/ CompleteWithoutChanges(j)
  BY <1>6 DEF Start, CompleteWithoutChanges, UpToDate
<1> QED BY <1>1, <1>2, <1>3, <1>4, <1>5, <1>6 DEF HandlerStep

\* An expired job has its retry, or none left; its handler knows what it knew.
LEMMA ExpireIndex ==
    ASSUME IInv, Index, NEW j \in Jobs, Expire(j)
    PROVE  Index'
<1> USE DEF IInv, TypeOK
<1>1. UNCHANGED <<ready, chunks, vectors, status, epc, sawReady, seen, todo, removed, historyVars>>
  BY DEF Expire, docVars, enqueueVars, handlerVars
<1>2. \A k \in Jobs : (Running(k)' <=> Running(k)) /\ (pc'[k] = pc[k] \/ pc'[k] = "retry")
  <2>1. CASE retries[j] < RetryLimit
    BY <2>1, FreeJobIsFree DEF Expire, Running
  <2>2. CASE ~(retries[j] < RetryLimit)
    BY <2>2 DEF Expire, Running
  <2> QED BY <2>1, <2>2
<1>3. OneRuns' /\ WrittenIsClean' /\ PlansAreComplete'
  BY <1>1, <1>2
  DEF Index, OneRuns, WrittenIsClean, NoOldVectors, KnowsText, PlansAreComplete, historyVars
<1>4. CASE retries[j] < RetryLimit
  <2>1. FreeJob \in Jobs /\ pc'[FreeJob] = "retry"
    BY <1>4, FreeJobIsFree DEF Expire
  <2>2. IndexServed' /\ LateIsOwed'
    BY <2>1 DEF IndexServed, Progress, Owed, LateIsOwed
  <2> QED BY <1>3, <2>2 DEF Index
<1>5. CASE ~(retries[j] < RetryLimit)
  <2>1. UNCHANGED <<pc, retries>> /\ late' = [late EXCEPT ![j] = TRUE]
    BY <1>5 DEF Expire
  <2>2. LateIsOwed'
    BY <1>1, <1>5, <2>1 DEF Index, LateIsOwed, historyVars
  <2>3. IndexServed'
    BY <1>1, <2>1
    DEF Index, IndexServed, Progress, Owed, UpToDate, Indexed, Disturbed, Running, historyVars
  <2> QED BY <1>3, <2>2, <2>3 DEF Index
<1> QED BY <1>4, <1>5

LEMMA HandlerIndex ==
    ASSUME IInv, Index, NEW j \in Jobs, HandlerStep(j) \/ Fails(j) \/ Dies(j)
    PROVE  Index'
<1>1. CASE met'
  BY <1>1 DEF Index, OneRuns, IndexServed, Disturbed, WrittenIsClean, PlansAreComplete, LateIsOwed
<1>2. CASE ~met'
  <2>1. (Start(j) \/ ~met) /\ UNCHANGED <<ready, chunks, epc>>
    <3>1. CASE Start(j)
      BY <1>2, <3>1 DEF Start, docVars, enqueueVars
    <3>2. CASE ReadDocument(j) \/ ReadChunks(j) \/ MarkIndexing(j) \/ CompleteWithoutChanges(j)
      BY <1>2, <3>2 DEF ReadDocument, ReadChunks, MarkIndexing, CompleteWithoutChanges, docVars,
                        enqueueVars, historyVars
    <3>3. CASE ReadVectors(j) \/ Write(j) \/ Fails(j) \/ Dies(j)
      BY <1>2, <3>3 DEF ReadVectors, Write, Fails, Dies, docVars, enqueueVars, historyVars
    <3> QED BY <3>1, <3>2, <3>3 DEF HandlerStep
  <2>2. CASE Start(j)
    <3>1. \A k \in Jobs : ~Running(k)
      BY <1>2, <2>2 DEF Start
    <3>2. pc'[j] = "document" /\ \A k \in Jobs : k # j => pc'[k] = pc[k]
      BY <2>2 DEF IInv, TypeOK, Start, Goto
    <3>3. \A k \in Jobs : Running(k)' => k = j
      BY <3>1, <3>2 DEF Running
    <3>4. OneRuns'
      BY <3>3 DEF OneRuns
    <3>5. IndexServed'
      BY <3>2 DEF IndexServed, Progress, UpToDate
    <3>6. \A k \in Jobs : pc'[k] \notin {"mark", "unchanged", "vectors", "embed"}
      BY <3>2, <3>3 DEF Running
    <3>7. PlansAreComplete' /\ \A k \in Jobs : KnowsText(k)'
      BY <3>6 DEF PlansAreComplete, KnowsText
    <3>8. WrittenIsClean'
      BY <2>1, <2>2, <3>7 DEF Index, WrittenIsClean, NoOldVectors, Start, docVars
    <3>9. LateIsOwed'
      BY <2>2, <3>1 DEF IInv, LateIsOwed, Start
    <3> QED BY <3>4, <3>5, <3>7, <3>8, <3>9 DEF Index
  <2>3. CASE ~Start(j)
    <3> USE <2>1, <2>3
    <3>1. Running(j) /\ \E step : Goto(j, step)
      BY <2>3 DEF HandlerStep, ReadDocument, ReadChunks, MarkIndexing, CompleteWithoutChanges,
                  ReadVectors, Write, Fails, Dies, End, Running
    <3>2. PICK step : Goto(j, step)
      BY <3>1
    <3>3. \A k \in Jobs : k # j => pc'[k] = pc[k] /\ ~Running(k) /\ (Running(k)' <=> Running(k))
      BY <2>1, <3>1, <3>2, Alone
    <3>4. OneRuns'
      BY <3>3 DEF OneRuns
    <3>5. WrittenIsClean' /\ PlansAreComplete'
      BY <1>2, <2>1, <3>1, <3>3, HandlerClean
    <3>6. ASSUME ready, ~Disturbed', DOMAIN chunks # {} PROVE Progress'
      <4>1. ~Disturbed
        BY <2>1, <2>3, <3>6
        DEF IInv, TypeOK, HandlerStep, ReadDocument, ReadChunks, MarkIndexing,
            CompleteWithoutChanges, ReadVectors, Write, Fails, Dies, Disturbed, historyVars
      <4>2. Progress
        BY <3>6, <4>1 DEF Index, IndexServed
      <4>3. CASE Owed
        BY <2>1, <3>1, <3>3, <4>3, StillOwed DEF Progress
      <4>4. CASE \E k \in Jobs : UpToDate(k)
        <5>1. \A k \in Jobs : UpToDate(k) => Running(k)
          BY DEF UpToDate, Running
        <5>2. UpToDate(j)
          BY <3>3, <4>4, <5>1
        <5> QED BY <3>3, <3>6, <5>2, HandlerProgress
      <4> QED BY <3>1, <4>2, <4>3, <4>4 DEF Progress
    <3>7. IndexServed'
      BY <2>1, <3>6 DEF IndexServed
    <3>8. LateIsOwed'
      <4>1. \A k \in Jobs : (late'[k] => late[k]) /\ retries'[k] = retries[k]
        BY DEF HandlerStep, ReadDocument, ReadChunks, MarkIndexing, CompleteWithoutChanges,
               ReadVectors, Write, Fails, Dies, End, Forget, IInv, TypeOK
      <4>2. \A k \in Jobs : pc[k] = "retry" => pc'[k] = "retry"
        BY <3>1, <3>3 DEF Running
      <4> QED BY <4>1, <4>2 DEF Index, LateIsOwed
    <3> QED BY <3>4, <3>5, <3>7, <3>8 DEF Index
  <2> QED BY <2>2, <2>3
<1> QED BY <1>1, <1>2

LEMMA NextIndex == IInv /\ Index /\ [Next]_vars => Index'
<1> SUFFICES ASSUME IInv, Index, [Next]_vars PROVE Index'
  OBVIOUS
<1>0. \A j \in Jobs : late[j] => Running(j)
  BY DEF IInv
<1>1. ASSUME NEW f \in BOOLEAN, StartProcessing(f) PROVE Index'
  <2>1. /\ ~ready' /\ UNCHANGED <<chunks, vectors, seen, removed, late, met>>
        /\ (written' => written) /\ \A j \in Jobs : pc'[j] = pc[j] /\ retries'[j] = retries[j]
    BY <1>1 DEF StartProcessing, jobVars, handlerVars, historyVars
  <2> QED BY ONLY <2>1, <1>0, HandlersIdle, Index DEF Index, IndexServed
<1>2. ASSUME NEW new \in Texts, Commit(new) PROVE Index'
  <2>1. epc'[Worker] = "enqueue"
    BY <1>2 DEF IInv, TypeOK, Commit, EGoto, Enqueuers
  <2>2. IndexServed'
    BY <2>1 DEF IndexServed, Progress, Owed
  <2>3. /\ ~written' /\ UNCHANGED <<vectors, pc, retries, late, seen, removed, met>>
    BY <1>2 DEF Commit, jobVars, handlerVars
  <2>4. OneRuns' /\ WrittenIsClean' /\ PlansAreComplete' /\ LateIsOwed'
    BY <2>3 DEF Index, OneRuns, Running, WrittenIsClean, PlansAreComplete, LateIsOwed
  <2> QED BY <2>2, <2>4 DEF Index
<1>3. CASE ProcessingFails
  <2>1. /\ ~ready' /\ UNCHANGED <<chunks, vectors, seen, removed, late, met>>
        /\ (written' => written) /\ \A j \in Jobs : pc'[j] = pc[j] /\ retries'[j] = retries[j]
    BY <1>3 DEF ProcessingFails, jobVars, handlerVars, historyVars
  <2> QED BY ONLY <2>1, <1>0, HandlersIdle, Index DEF Index, IndexServed
<1>4. ASSUME NEW u \in Users, Reembed(u) PROVE Index'
  <2>1. /\ UNCHANGED <<chunks, vectors, seen, removed, late, met>>
        /\ (written' => written) /\ \A j \in Jobs : pc'[j] = pc[j] /\ retries'[j] = retries[j]
    BY <1>4 DEF Reembed, docVars, jobVars, handlerVars, historyVars
  <2>2. OneRuns' /\ WrittenIsClean' /\ PlansAreComplete' /\ LateIsOwed'
    BY ONLY <2>1, <1>0, HandlersIdle, Index
  <2>3. Owed => Owed'
    BY <1>4, WorkerAssumption DEF IInv, TypeOK, Reembed, EGoto, Owed, Enqueuers, jobVars
  <2>4. UNCHANGED <<ready, status, pc, sawReady, todo, abandoned, unserved, byHand>>
    BY <1>4 DEF Reembed, docVars, jobVars, handlerVars, historyVars
  <2>5. IndexServed'
    BY <2>1, <2>3, <2>4
    DEF Index, IndexServed, Progress, UpToDate, Indexed, Disturbed, Running
  <2> QED BY <2>2, <2>5 DEF Index
<1>5. CASE UNCHANGED vars
  BY <1>5
  DEF vars, docVars, enqueueVars, jobVars, handlerVars, historyVars, Index, OneRuns, Running,
      IndexServed, Progress, Owed, UpToDate, Indexed, Disturbed, WrittenIsClean, NoOldVectors,
      KnowsText, PlansAreComplete, LateIsOwed
<1>6. CASE SetStatus
  <2>1. /\ byHand' /\ UNCHANGED <<chunks, vectors, seen, removed, late, met>>
        /\ (written' => written) /\ \A j \in Jobs : pc'[j] = pc[j] /\ retries'[j] = retries[j]
    BY <1>6 DEF SetStatus, jobVars, handlerVars
  <2> QED BY ONLY <2>1, <1>0, HandlersIdle, Index DEF Index, IndexServed, Disturbed
<1> QED BY <1>1, <1>2, <1>3, <1>4, <1>5, <1>6, EnqueueIndex, HandlerIndex, ExpireIndex DEF Next

\* SettledIsIndexed for any number of jobs, requests, commits and retries, and any
\* texts: when the work on a document is done and nothing that went wrong is hidden,
\* each chunk has the vector of its text, and a write has left no other.
THEOREM SettledDocuments == Spec => []SettledIsIndexed
<1>1. Init => Index
  BY NoChunksTypes
  DEF Init, Index, OneRuns, Running, IndexServed, WrittenIsClean, PlansAreComplete,
      LateIsOwed
<1>2. IInv /\ Index => SettledIsIndexed
  <2> SUFFICES ASSUME IInv, Index, Settled
               PROVE  /\ \A i \in DOMAIN chunks : vectors[i] = chunks[i]
                      /\ written => \A i \in Slots \ DOMAIN chunks : vectors[i] = None
    BY DEF SettledIsIndexed
  <2>1. ~Disturbed /\ ~Owed /\ status = "ready" /\ ready
    BY DEF Settled, Disturbed, Owed, Alive, Enqueuers
  <2>2. \A j \in Jobs : ~UpToDate(j)
    BY DEF Settled, Alive, Running, UpToDate
  <2>3. DOMAIN chunks # {} => Indexed
    BY <2>1, <2>2 DEF Index, IndexServed, Progress
  <2>4. written => NoOldVectors
    BY DEF Settled, Index, WrittenIsClean
  <2> QED BY <2>3, <2>4 DEF Indexed, NoOldVectors
<1> QED
  BY InitIInv, NextIInv, <1>1, <1>2, NextIndex, PTL DEF Spec

=============================================================================
