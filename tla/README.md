# OpenKeep, specified

TLA+ modules, TLC models and TLAPS proofs for OpenKeep, a self-hosted document
archive. The modules are translated from the TypeScript sources (paths below are
relative to the repository root); each definition carries its source lines in
`PROJECT.json`, under `map`.

OpenKeep's core is small in lines of control and large in interleavings. A
document is uploaded over HTTP, its bytes go to an object store, a row goes to
PostgreSQL, a job goes to pg-boss; a worker reads it, parses it, extracts its
fields, publishes them in one transaction, and then a second job embeds its text.
A user can edit, requeue, reprocess or delete the document at any moment. A
reaper cleans up after workers that died. Around this core stand a mailbox
poller, deadline notifications with a daily digest, rotating sessions, and
clients (web, mobile, desktop) that keep state of their own: offline caches, an
outbox of review decisions, watched folders. None of them shares a lock; they
meet in database rows read in one statement and written in another.

## 1. Inventory

### 1.1 API and worker (`apps/api/src`, run by `apps/worker`)

| Component | State | Operations | What makes it hard | What makes it correct |
|---|---|---|---|---|
| Processing pipeline: `processing/processing.service.ts`, `boss.service.ts`, `processing.worker.ts` | `documents.status`, `review_status`, `updated_at`; `processing_jobs` rows; pg-boss jobs and retry counts | enqueue, `processDocument` (read, mark, download, parse, commit, follow-ups, failure handlers), the stale reaper | every statement is its own transaction; a worker may die anywhere; pg-boss may start a second handler when a job expires; failures outside the `try` are recorded nowhere; the reaper races with requeueing | one listened-to attempt per job with a true retry count; a failed row is final; the reaper never fails a document with a live job; nothing stays in "processing" |
| Documents API: `documents/documents.service.ts` | the same rows, `metadata.manual`, tags, files | upload, update, bulk edits, delete, resolve and requeue review, (batch) reprocess, reembed, reindex | checks and writes are separate statements; the whole `metadata` column is rewritten from a copy read earlier | a manual edit survives reprocessing; a document that is processing is not deleted |
| Correspondent resolution: `processing/correspondent-resolution.service.ts` | correspondents, aliases, `metadata` of unresolved documents | resolve a name, learn an alias, apply an alias to unresolved documents | third writer of the whole `metadata` column | no user lock is lost |
| Embeddings: `enqueueDocumentEmbedding`, `processDocumentEmbedding` | `document_chunks`, `document_chunk_embeddings`, `embedding_status` | mark indexing, read chunks, embed, replace vectors | chunks change while the provider is called; two jobs of one document | "ready" means the vectors are those of the current text |
| Files: `uploadDocument`, `persistSearchablePdf`, `deleteDocument`, `common/storage/storage.service.ts` | `document_files` rows (unique checksum), objects in S3, `searchable_pdf_storage_key` | deduplicate, put, get, delete | database and object store commit separately; a row can be seen before its object exists, an object deleted after its row came back | a document's file can be read |
| E-mail ingest: `email-ingest/*` | mailbox flags, `ingested_emails` (unique Message-ID) | poll, upload attachments, record, mark seen, prune the log | a crash between upload, ledger and mailbox | no message is lost; none is imported twice |
| Notifications: `notifications/*` | `notifications` rows: `due_date`, `window`, `invalidated_at`, `read_at`, `email_delivered_at`, `desktop_delivered_at` | hourly scan (arm, invalidate), claim by a desktop relay, daily digest | several clients claim; the digest sends before it marks | each deadline announced once on the desktop, mailed once, unless something crashes |
| Sessions: `auth/auth.service.ts` | users, refresh tokens and their families, API tokens, TOTP and recovery codes | setup, login, refresh, logout, two-factor | find, revoke and issue are separate statements | a refresh token is used once; a replay revokes its family |
| Archive transfer: `archive/archive.service.ts` | the whole database and bucket; watch folder checksums | export, import (replace, merge), scan a watch folder | an import replaces objects before its transaction commits | a failed import leaves the archive as it was |
| Taxonomies and category assignment: `taxonomies/*` | tags, categories, document types, correspondents and their merges | create, rename, delete, merge | merge moves rows of several tables | no reference to a merged row is left |
| Intelligence: `explorer/correspondent-intelligence.service.ts` | cached summaries per correspondent | request a refresh, generate | generation races with new documents | a newer summary is not replaced by an older |
| Health: `health/heartbeat.service.ts`, `readiness.service.ts` | worker heartbeat rows | beat, readiness | staleness thresholds | - |
| Parsing, extraction, LLM and search: `processing/*provider*.ts`, `llm.service.ts`, `agentic-document-intelligence.service.ts`, `search/*`, `explorer/explorer.service.ts`, `taxes/*` | none of their own (reads) | text to fields, text to vectors, query to answer | content of external models | quality of text, not of state |

### 1.2 Clients

| Component | State | Operations | What makes it hard | What makes it correct |
|---|---|---|---|---|
| Desktop watch folders: `apps/desktop/src/main/watch-folder-*.ts` | checkpoints per file, abandoned files, attempts | scan, settle, upload, record, pause, remove | upload and checkpoint are not atomic; profile and folder change during a scan | a file is uploaded once and announced before it is recorded |
| Desktop session and profiles: `archive-session.ts`, `storage/*`, `offline/*` | profiles, encrypted tokens, offline cache | sign in, refresh, switch archive, read through, forget | a late answer of one archive arrives after a switch | nothing of one archive is shown under another |
| Desktop shell: `tray-lifecycle.ts`, `lifecycle-state.ts`, `updates/*`, `deadline-relay.ts`, `import-*.ts`, `protocol.ts` | window, tray, update and import queues | open, hide, quit, update, import, relay deadlines | order of Electron events | an import is never lost between launch and sign-in |
| Mobile: `apps/mobile/src/auth.tsx`, `review-outbox.ts`, `offline-*.ts(x)` | tokens, outbox of review decisions, SQLite metadata, file cache | refresh, queue a decision, flush, sync, materialise | answers that arrive late; a flush that fails half way; sign-out during a sync | a decision made offline reaches the server once and in order |
| Web: `apps/web/src` | React state, tokens in memory | screens over the API | - | - |
| `packages/*` | none: types, generated client, schema, configuration, design tokens | - | - | - |

## 2. The modules

| Module | Models | Proofs | Model checking |
|---|---|---|---|
| `DocumentLifecycle` | what a user may rely on about a document's status, abstractly | - | through `DocumentPipeline` |
| `DocumentPipeline` | jobs, attempts, failure handlers, upload/requeue/reprocess/delete requests, the stale reaper; implements `DocumentLifecycle` | `DocumentPipelineProofs` | `MCDocumentPipeline` |
| `DocumentMetadata` | the fields of a document and the `metadata` column its writers replace | `DocumentMetadataProofs` | `MCDocumentMetadata` |
| `PrivateOriginals` | what a user may rely on about the originals, abstractly | - | through `FileStore` |
| `FileStore` | file rows, objects and the documents that share them; implements `PrivateOriginals` | `FileStoreProofs` | `MCFileStore` |
| `Inbox` | what the mailbox poller promises, abstractly | - | through `EmailIngest` |
| `EmailIngest` | the mailbox poller and its ledger; implements `Inbox` | `EmailIngestProofs` | `MCEmailIngest` |
| `DeadlineReminders` | scan, digest and desktop relay | `DeadlineRemindersProofs` | `MCDeadlineReminders` |
| `EmbeddingIndex` | chunks, vectors, embedding jobs and their status, beside commits | `EmbeddingIndexProofs` | `MCEmbeddingIndex` |
| `RefreshSessions` | refresh tokens at the server and in the tabs of a browser | `RefreshSessionsProofs` | `MCRefreshSessions` |
| `WatchFolder` | a folder the desktop application imports from | `WatchFolderProofs` | `MCWatchFolder` |

The grain is the same everywhere: one action is one database statement, one
transaction, or one call to the outside (object store, mailbox, mail server,
pg-boss). Between two of them anything of any other actor may happen. A
transaction is split only where another connection can act in the middle of it
(the delete of `FileStore`, under READ COMMITTED). Loops over rows that a single
statement handles are sets; loops of several statements keep their statements.

### DocumentPipeline

| State | Code |
|---|---|
| `status`, `review`, `aged` | `documents.status`, `review_status`, and whether `updated_at` is older than `PROCESSING_STALE_MINUTES` |
| `row`, `jobDoc` | `processing_jobs.status` and `document_id`; "gone" after the delete cascaded |
| `boss`, `retries`, `attached` | pg-boss: state, retry count, and which handlers it still listens to |
| `hpc`, `hjob`, `hretry` | a `processDocument` invocation: next statement, job, the retry count it was given |
| `rpc`, `rdoc`, `rop`, `rjob` | an API request: next statement, document, kind, job row |
| `ppc`, `old`, `todo`, `cand` | a reaper pass: next statement, documents beyond its cutoff, candidates left, the one being claimed |

A handler runs `ReadDocument`, `MarkDocument`, `MarkJob`, `Download`, `Commit`,
`Return`; in the `try` it may end in `HandleRetryableFailure` or
`HandleFinalFailure`, and everywhere in `FailUnrecorded` (a failure before the
`try`, or of a failure handler), `WorkerCrash`, and, with its job taken away by
`ExpireJob`, unheard. Requests enqueue by `EnqueueTouch`, `EnqueueInsert`,
`EnqueuePublish`, after the staleness check of a document that is processing.
Time is abstracted to two facts. `Age(d)` makes the row old; every write makes it
young and younger than any cutoff in use. A request that has refreshed a row
publishes its job before the row is old again (the stale limit is minutes, the
gap one insert): that is the guard of `Age`, and `ReaperSafe` rests on it.

`DocumentLifecycle` is the same seen by a user: a status, the jobs ordered for each
document, how often each was attempted, and whether something disturbed the
document. There are no statements, handlers, requests, rows or reapers. In
`Lifecycle` a job is open while pg-boss has it in one of its live states
(`JobState`), it is ordered for the document it was inserted for (`OrderedFor`), its
attempts are the retry count plus one once fetched (`Attempts`), and a document is
disturbed when `disrupted` says so. A status then changes only by hand, by a job that
was attempted and is not over, or by the rescue of a disturbed document nothing
works on (the reaper); a job fails its document only in its last attempt.

pg-boss is external. It is modelled from how `boss.service.ts` configures and
calls it: retry limit, retry count given to the handler, expiry.

### DocumentMetadata

`column` holds the fields and `metadata` the overrides (`lockedFields`, `values`).
A writer (`Editors` for `updateDocument`, `Handlers`
for `processDocument`, `Aliasers` for `applyAliasToUnresolvedDocuments`) reads
it in one statement into `snapshot`, and replaces the whole column in a later one,
whoever has written meanwhile. Extraction is arbitrary: `Commit(h, x)` for every `x`.
`WithOverrides` and `Rebuilt` say what a commit makes of the fields and of the
column, `ManualOverrides`, `Unlocked` and `EditedColumn` what a PATCH does,
including the two odd cases of the code: a correspondent set to null gives its
lock up, and a text field set to null is locked but not written. Writers overlap as
they like. `want` is the lock the user last asked for and `said` every lock ever
asked for. `Stale(w)` are the fields whose override has changed since `w` read it:
writing puts the older one back, and `undone` keeps the fields this happened to until
the user edits them again. `apart` keeps the fields of which column and override were
written one without the other (a bulk edit, a cleared text field, an override put
back) until a commit writes both.

### FileStore

`checksum` is `document_files`, `stored` the bucket, `fileOf` the reference of
each document. An upload goes `FindFile`, `InsertFile`, `PutObject`,
`InsertDocument`, `Enqueue`, or `LookupFile` if it lost the insert. A delete goes
`DeleteRow`, `CountReferences`, then `DeleteFile` or `KeepFile`, which commit, and
`DeleteObject` after the commit. What fails: the put, with the bytes stored or not
(`PutFails`); the delete of the object, whose error is swallowed and which a process
that ends after its commit never reaches (`DeleteObjectFails`); any other statement,
which rolls a transaction back and leaves what an upload has already stored
(`CutShort`). The unique index is the guard in `InsertFile`; the
foreign key is in `InsertDocument` and `DeleteFile`. Row locks appear as waiting
(`BeingDeleted`). `clashes` is a history of what has gone wrong around a content:
a failed put, an object kept by a failed delete, a row or object made for a document
that was then not inserted, an upload that met a delete, two deletes that met.

`PrivateOriginals` is the same without rows, checksums and requests: every document
has a copy of its own. `Private` maps a document to the checksum of its row
(`Original`), calls it readable if that object is stored (`Readable`), on its way while
somebody is about to put those bytes (`Coming`), and its bytes troubled once a put
of them failed or an upload of them met a delete (`Troubled`). A put lets the
documents that share the object arrive together; a delete touches no other document.

### EmailIngest

Each poll fetches the first `Limit` unseen copies and for each looks up the ledger,
uploads attachment by attachment, records and flags. `UploadFails` and
`RecordFails` are the `catch` (on to the next message), except for a forbidden
sender, whose record is outside it; `MarkFails` and `Crash` end the poll. The
mailbox (external) keeps uids, `\Seen` flags and delivers a Message-ID twice if it
likes. `MarkProcessed` flags the last fetched uid of the Message-ID, as
`uidByMessageId` does. `disturbed` records the messages whose import stopped half
way or met another poll's.

`Inbox` is the same without polls, batches, ledger, log and faults: a copy is
delivered, parts of its message become documents, and a copy is put away when all
of them have. `Abstract` in `EmailIngest` maps `handled` to the flags and `filed` to
the attachments with at least one document; a second import of an attachment is a
stutter there, which is why `OnceUnlessDisturbed` is a property of its own.

### DeadlineReminders

A record is a document, a window and a due date, the unique key of
`notifications`; each timestamp of a row is a set of records. `Arm` is one statement
per window, `Invalidate` the statement after them; the digest reads, sends and
marks; a relay lists, claims and shows. A job or an installation may stop between any
two of them; a mail may arrive though sending it failed (`SendUnconfirmed`), and then
the retry sends it again; a claim may be answered with an error whether or not it was
made (`ClaimFails`); and a claimed record may have no page to open (`NoPage`): the relay
then goes on to its next record. Documents change their due date and task
at any time, tasks are completed and reopened, days pass. `undisturbed` and `scanned`
record that a scan has seen one state of the documents from beginning to end,
`returned` the records whose deadline had gone and come back.

### EmbeddingIndex

One document: `chunks` is what its last commit wrote, `vectors` what
`document_chunk_embeddings` holds for the active provider and model, both by index
and content hash; `status` is `documents.embedding_status`. An enqueuer (the
`processDocument` handler after its commit, or a reembed or reindex request) goes
`CheckDocument`, `Announce` (the job row and "queued"), `Publish`; `EnqueueFails` is
the `catch` of the worker, which writes "failed", or the error a request passes on.
A job goes `Start`, `ReadDocument`, `ReadChunks`, `MarkIndexing`, `ReadVectors`, and
then `Write`, `CompleteWithoutChanges`, `Fails` (recorded) or `Dies` (not). A job may
`Expire` while its handler runs: pg-boss retries it, as a job of its own here, and the
handler goes on, `late`; nothing it returns or throws reaches pg-boss, but what it writes
is written, at any time, also after the retry has completed. `SetStatus` is a PATCH that
sets the document's status by hand. `Write`
replaces what was stale and deletes vectors of chunks that are gone, and does
neither when nothing was stale. The histories say what was not recorded:
`abandoned` (since the last publish, an announced job was not published, or the last job
there was ended without a final record: it died for good, or its late handler announced
a retry that was over), `unserved` (the worker's publish failed), `byHand` (the status
was set by hand since the last commit), `met` (two handlers at a time), `written`.

### RefreshSessions

`rows` is `refresh_sessions`, each with the login it descends from; a token is the
number of its row. `exchange` is a refresh at the server: `Find`, `Rotate`, `Issue`,
each a statement of its own, or `RevokeAllSessions` for a token found revoked.
Tabs (`waiting`, `held`, `stored`) model `apps/web/src/lib/api.ts` and `auth.tsx`: one
exchange in flight per tab, a token in memory and one in the local storage they
share, read when a page is opened. Answers are lost by `Disconnect`, `Open` and
`Crash`. `raced`, `shared`, `lost` and `ended` record when two exchanges of a token
overlapped, two tabs held one token, an answer was lost, and which logins a replay
ended while no exchange was under way.

### WatchFolder

`file` is the folder, `memory` and `saved` are the store in memory and on disk
(checkpoints by path, checksums, each trimmed to the newest), `observed`, `attempts`
and `abandoned` the maps of the service, `pass` the pass under way, one action for
what happens between two awaits: `StartPass`, `TakeEntry`, `Stat`, `Read`, the upload
(`Accept` at the server, `Confirm` of its answer), `Checkpoint`, `Retry`, `Reject`,
`EndPass`. Files are written and deleted, the session ends, begins or changes
profile (`Switch`, whose signal aborts an upload; a file that exists and cannot be read
counts as an upload that failed), a profile is pointed at another
server (`Repoint`, `main.ts`), the application quits (`Crash`) between any two of
them. `docs` counts the documents of each archive. `moved` records profiles whose
checkpoints are of another server, `unrecorded` the contents an archive has and the
profile does not remember.

### Histories

`disrupted`, `clashes`, `disturbed`, `undisturbed`, `scanned`, `returned`, `want`, `said`,
`undone`, `apart`, `mails`, `shows`, `abandoned` (of `EmbeddingIndex`), `unserved`, `byHand`, `met`, `written`, `raced`,
`shared`, `lost`, `ended`, `moved`, `unrecorded` and `faults` are histories: no guard of
a modelled operation reads them, except `faults`, which bounds the failures of a
behaviour. They make a property
say exactly when it holds, in the same run that explores the behaviours for which
it does not.

## 3. What the runs show

Every run is exhaustive for its bounds. Each property of a passing run has a
mutant in `PROJECT.json`: a plausible bug of the code for which the same run
finds the property violated.

| Run | Bounds | Distinct states | Shows |
|---|---|---|---|
| `pipeline_faults` | 1 document, 2 jobs, 2 handlers, 1 request, 1 reaper, 1 retry; crashes, unrecorded failures and expiry; PATCH of the status to processing, resolve | 1.3M | `TypeOK`; `AttemptOwnership`: an attempt pg-boss listens to is the only one of its job and has its true retry count; `FailedRowIsGivenUp`: a failed row is final; `NeverReapLiveJob`: the reaper's check still holds when it claims; `ExhaustedIsReported` and `FailedIsVisible`: what fails is recorded and in the review queue, for documents nothing has disrupted; `ImplementsLifecycle`: every change of a status is one the lifecycle allows |
| `pipeline_liveness` | 1 document, 2 jobs, 1 handler, 1 request, 1 reaper, 1 retry; all faults; fairness | 115k | `Settles`: once users are quiet every document leaves "processing" |
| `metadata` | 3 fields (title, correspondent, type), 1 value, 2 editors, 1 handler, 1 alias writer, all overlapping; every kind of edit | 716k | `LocksAreHuman`: no writer invents an override; `LocksRecordEdits`: the locks are what the user last asked for, but for those put back to older ones; `LockedIsShown`; `EditsLostOnlyToStaleWrites`: no reprocessing or alias undoes an edit whose override was not put back |
| `files` | 3 documents, 3 file rows, 1 content, 3 requests; every put, delete and statement may fail or be the last of its process | 131k | `TypeOK`; `OneRowPerContent`; `NothingLeftBehind` and `ImplementsPrivateOriginals`: nothing is left over, and sharing is invisible and no original lost, unless a clash recorded in the history explains it |
| `email_polls` | 2 polls, 3 copies (one message twice with 2 attachments, one forbidden), batches of 2, log of 0, at most 2 faults of every kind; fairness | 322k | `NothingLost`: what is flagged is recorded and filed; `OnceUnlessDisturbed`; `EveryMessageHandled`; `ImplementsInbox`: every step is one of the inbox or none |
| `reminders` | 1 document, 2 days, a window of 1 day, 1 scan, 1 digest, 2 relays, tasks that reopen, at most 2 faults of every kind | 1.7M | `DeadlinesArmed` (but for deadlines that had gone and come back), `RemindersCleared`, `ShownAtMostOnce`; `ExtraMailsAreFaults`: a record is mailed once per digest that may be in flight, and once more per fault; `LostClaimsAreFaults`: at most one record per fault is claimed and never shown |
| `sessions` | 2 tabs, 2 exchanges, 3 sessions, 2 logins, 1 expiry | 785k | `OneSessionPerLogin`: a login has one live session, unless two exchanges of one token overlapped; `ReplayEndsFamily`: a replay ends every session; `TokenWorks`: a tab's token is live, unless an answer was lost or tabs shared it |
| `embeddings` | 2 hashes, up to 2 chunks, 2 commits, 2 jobs, 1 retry; failing providers, statements, publishes and processing, jobs that expire under their handlers, edits of the status | 321k | `SettledIsIndexed`: done means the vectors are those of the text |
| `embedding_requests` | the same with 1 commit and 1 re-embed request beside the worker; fairness | 529k | `PendingHasJob`: a ready document that shows "queued" or "indexing" has a job or a publisher; `PendingEnds` |
| `watch_folder` | 1 profile, 2 paths, 2 contents, 2 writes, 1 checkpoint and 1 checksum kept, 2 attempts, 1 quit or repoint; unreadable files, failing requests, lost answers, rejections, failing saves; fairness | 919k | `SkippedIsFiled`: what a pass skips is in the archive as it is; `OneDocumentPerContent`, unless the first import was not remembered; `FileSettles`: a file that stays is imported or given up on: for good while every file has room for a checkpoint, again and again when there are more |
| `metadata_edits_survive`, `watch_folder_repoint` | the smallest that show it | | two places where the code does something else than a document or comment says (section 5) |

### Why these bounds are enough

- *Pipeline.* Documents meet only in a reaper's pass, which looks at them one at a
  time; one document with two jobs has every conflict between attempts, requests
  and reaper. Two handlers give an expired handler beside its successor, and
  handlers of two jobs. One retry gives a first and a last attempt and both
  failure handlers. Two jobs bound the enqueues of a
  behaviour (`RowBudget`) to an upload and one requeue or reprocess, beside it or
  after it. The single request and reaper are a real bound; the proved
  properties hold for any number of them.
- *Metadata.* A lock concerns one field; title, correspondent and type are three of the
  four ways the code treats a field. The fourth, a text field that is cleared, is in
  `metadata_edits_survive` and in the proofs, which hold for any fields and values.
  Values are compared for equality only; with null one value tells old from new. Two
  editors, a handler and an alias writer are a pair of each kind of writers that can
  take an override from each other.
- *Files.* Contents do not meet: every statement concerns one checksum. Three
  documents are needed for two last references and a re-upload, three requests for two
  of them to meet while a third is half way. The proofs hold for any number.
- *E-mail.* A batch of two out of three copies holds both copies of the twice
  delivered message, or one of them; a log limit of 0 prunes at every poll; two
  faults are a failure and a failure of its retry.
- *Reminders.* Two days cross every window boundary (upcoming, due, overdue); two
  relays race for a claim; two faults are one and one of its retry. Records of different
  documents meet only in sets. A due date is set once here: dates that move or are
  cleared (`Ops`) multiply the states beyond what a run can finish, and `DeadlinesArmed`
  and `RemindersCleared` of moved dates are proved only.
- *Sessions.* Three rows are a login, its rotation and either a rotation of that or a
  second login; two exchanges overlap on one token, or on tokens of two logins; two
  tabs share a storage. The proofs hold for any number of each.
- *Embeddings.* Two commits give a text that is replaced while a job holds it, longer,
  shorter or equal; two jobs run one beside the other or wait behind it; a user's
  request competes with the worker's, in a run of its own because both bounds together
  are too many states. A job's slot is free again when it ends, so behaviours have more
  than two jobs; a handler that outlives its job keeps its slot, and the retry takes
  the other.
- *Watch folder.* Two writes rewrite one file, copy it or fill two paths; a checksum
  limit of 1 below two contents, and a checkpoint limit of 1 below two files, make files
  take each other's memory, at every pass; one file at a time has room, so both halves
  of `FileSettles` are exercised. Two attempts are a first and a last. Profiles
  share the maps keyed by path only; one is checked, any number proved.

### Fairness

`FairSpec` of the pipeline assumes weak fairness of a handler's next step (each waits
for a call that answers or times out), of an expiry (pg-boss maintains its jobs), of
a request in flight (carried out or failed), of time, and of a reaper starting and
ending its passes. It assumes strong fairness of `Fetch`, which competes with other
handlers for a job; of `ReapCheck` for each document and of `ReapClaim`, since an
error may end a pass at any step, but not every pass. No fairness is given to users,
to success (a step may fail for ever) or to the absence of faults. `Settles` is
stated under "users are quiet", and its run has no PATCH of the status: a client may
set a document to processing by hand as often as it likes.

`FairSpec` of the poller assumes weak fairness of each poll's next step: the cron
keeps polling. Faults are bounded by `MaxFaults`: a mailbox that always fails is
never emptied.

`FairSpec` of `EmbeddingIndex` assumes weak fairness of each enqueuer's and each job's
next step: workers poll the queue and a call that does not fail goes on. Failures
are unbounded, but pg-boss counts retries, and commits and jobs end. A late
handler goes on like any other. `PendingEnds` excepts a document whose job was
abandoned without a record, and one whose status a user has set by hand: nothing in the
code ends those.

`FairSpec` of `WatchFolder` assumes weak fairness of a pass's next step: the timer keeps
starting passes and each call answers. Uploads may fail for ever; that the file is
then given up on is what `FileSettles` says. It is stated under a session and a file that
stay, and promises rest only where checkpoints have room: with more files than
`MAX_FINGERPRINTS_PER_PROFILE` it is false, in this run too.

Deadlock is not checked where a system may rest: everything uploaded, every
message seen, the bounds used up.

## 4. What is proved

TLAPS checks every theorem below for all values of the constants, from the
`ASSUME`s of the module (which TLC evaluates in the runs): bounds are numbers,
kinds of edits and faults are the known ones, and null values differ from the values
they stand in for. Every invariant, action property and refinement of the passing
runs is among them.

| Module | Theorem and property | For any |
|---|---|---|
| `DocumentPipelineProofs` | `TypeCorrect`: `TypeOK`; `AttemptsOwned`: `AttemptOwnership`; `FailedRowsGivenUp`: `FailedRowIsGivenUp`; `ReaperSafe`: `NeverReapLiveJob`; `ExhaustedReported`: `ExhaustedIsReported`; `FailedVisible`: `FailedIsVisible`; `PipelineImplementsLifecycle`: `ImplementsLifecycle`; `ProcessingWorkedOn`; `FailuresWereTried` | documents, jobs, handlers, requests, reapers, retry limit and faults |
| `DocumentMetadataProofs` | `TypeCorrect`: `TypeOK`; `LocksHuman`: `LocksAreHuman`; `LocksExact`: `LocksRecordEdits`; `LocksShown`: `LockedIsShown`; `EditsKept`: `EditsLostOnlyToStaleWrites` | fields, values, edits and overlapping writers |
| `FileStoreProofs` | `TypeCorrect`: `TypeOK`; `OneRow`: `OneRowPerContent`; `StoreImplementsOriginals`: `ImplementsPrivateOriginals`; `OriginalsAtHand`; `OriginalsKept`: `OriginalsAreStored`; `NothingLeft`: `NothingLeftBehind` | documents, contents, rows, overlapping requests and failures |
| `EmailIngestProofs` | `TypeCorrect`: `TypeOK`; `NoMessageLost`: `NothingLost`; `ImportedAtMostOnce`: `OnceUnlessDisturbed`; `PollerImplementsInbox`: `ImplementsInbox` | mailbox, limits, polls and faults |
| `DeadlineRemindersProofs` | `TypeCorrect`: `TypeOK`; `ArmedDeadlines`: `DeadlinesArmed`; `ClearedReminders`: `RemindersCleared`; `ClaimsShown`: `LostClaimsAreFaults`; `ShownOnce`: `ShownAtMostOnce` | documents, calendar, due dates that move, jobs, installations and faults |
| | `MailedOnce`: `ExtraMailsAreFaults` | the same, with any finite number of digests |
| `RefreshSessionsProofs` | `TypeCorrect`: `TypeOK`; `SessionsAreSingle`: `OneSessionPerLogin`; `FamiliesEnd`: `ReplayEndsFamily`; `TokensWork`: `TokenWorks` | tabs, requests, logins and sessions |
| `EmbeddingIndexProofs` | `TypeCorrect`: `TypeOK`; `PendingIsServed`: `PendingHasJob`; `SettledDocuments`: `SettledIsIndexed` | texts, jobs, requests, commits, retry limit and faults, with handlers that outlive their jobs |
| `WatchFolderProofs` | `TypeCorrect`: `TypeOK`; `SkipsAreFiled`: `SkippedIsFiled`; `ContentsAreSingle`: `OneDocumentPerContent` | profiles, paths, contents, limits and faults |

*Pipeline.* The properties are not inductive. `IInv` adds the order of an enqueue
(`QueueRows`, `Publishing`: a row is inserted before its job is published, and only
its own request publishes it), what a busy handler runs (`HandlerJobs`), that a job
waiting for a retry has one left (`RetryRoom`), and that an attempt started with the
last retry has no successor (`LastAttempt`). `FailedRowIsGivenUp` follows from the
last two, also for handlers that outlived their expiry and for rows the reaper
closes. `ReaperSafe` needs two more: a document whose request has refreshed it and
not yet published is younger than every cutoff in use (`YoungWhileEnqueuing`), hence
between a reaper's queue check and its claim either no job appeared or the cutoff
test of the claim fails (`ClaimSafe`). For a document nothing has disrupted, `Reported`
adds that every handler of its jobs is one pg-boss listens to and that the last
attempt records its failure before pg-boss hears of it; `Visible` adds that a failed
document whose review is cleared is between the requeue that cleared it and the
attempt that will mark it as processing. `Counted` says that a job
without a started attempt has no retry behind it and no handler, and that a handler
knows no more retries than there were; `WorkedOn` says that an undisturbed document
that shows "processing" has a handler that will write its status or a retry due
(`ProcessingWorkedOn`). These carry the refinement: each action of the pipeline is a
step of `DocumentLifecycle` or a stutter; the
reaper's claim is a rescue because no job of its candidate is live and, by
`WorkedOn`, the candidate was disturbed. `FailedWasTried` is proved of
`DocumentLifecycle` and comes down the refinement (`FailuresWereTried`).

*Metadata.* `LocksAreHuman` is inductive together with types, because it speaks of the
snapshots as well as of the column. `IInv` adds that an alias writer found its
document without a lock of the correspondent (`AliasersFoundItFree`) and that nobody asks
for a lock of a title or of an empty correspondent (`Askable`); no theorem assumes
anything of how writers overlap. Each writer puts back the whole column, so the proof
asks of each field whether its override is the one the writer has read (`AsRead`).
Where it is (`NotStale`), the write changes nothing but the field edited, and the locks
stay what the user asked for; where it is not, the field is `undone` until it is edited
again. Hence the edits the code loses (`metadata_edits_survive`) are lost in stale
writes of the column and nowhere else, and an update that compared the column before
replacing it would lose none.

*Files.* `TypeOK` (a request past its lookups holds a file row) and
`OneRowPerContent` are inductive together; the unique index and the foreign key
are the two guards the proof uses. `Owners` adds whose a row and a document are:
the row a request holds is of its bytes or gone, the document of a delete has the
file the delete read, one being uploaded is nobody else's. On it stand `CleanInv`, for
bytes whose puts succeed and whose uploads meet no delete (the row has its object, or
its put is pending), and `PureInv`, for bytes nothing has gone wrong with (a row has a
document or an upload on its way to one, an object a row or the delete about to remove
it). A transaction that is cut short is no exception of either: it rolls back.
The refinement of `PrivateOriginals` goes action by action from `CleanInv`: while the
bytes of a document are not troubled, every statement that touches their row or object
either adds or removes a document, lets originals arrive, or changes nothing. `AtHand`
is proved of `PrivateOriginals` and comes down the refinement (`OriginalsAtHand`); it
speaks of every moment, `OriginalsAreStored` of the moments without a request.

*E-mail.* `PollKnows` says what a poll knows at each statement (attachments already
uploaded, all of them at the record, a true ledger row at the flag), `LedgerIsTrue`
what a ledger row stands for, and `LogIsPrunable` that pruning removes no imported
row. Other polls only add documents and never remove an imported row, so what a
poll knows stays true. The refinement follows: each step of the poller files one
attachment, puts one copy away or is a stutter of `Inbox`, and a copy put away has
nothing left to file. `UndisturbedOnce` says of a message nothing has disturbed
that one poll at most imports it, that it has no ledger row meanwhile, and no
document for the attachments that poll has yet to upload.

*Reminders.* The timestamp is the claim: a record shown, or held by a relay, has its
timestamp; no two relays hold the same record; a record held has not been shown.
`ScansArm` says what a scan has done when it is at a window: the windows behind it are
armed, unless the documents or the day have changed since. `LostClaimsAreFaults` counts
records claimed that nobody will show (`Unshown`): the set grows only when a relay
stops, is answered with an error or has no page, by the one record it has claimed. `MailsCounted` counts for each record the digests
that cannot mail it again because it is mailed or marked (`Spent`): a mail needs
a digest that is not yet spent, and only a crash makes one unspent again; a mail that
arrives though sending it failed spends none and is a fault itself.

*Sessions.* An exchange that has found its token live is alone with its login and
knows its only session (`RotatingHasTheSession`); between rotating and issuing there is
none (`IssuingHasNone`); no exchange of an ended login is under way (`EndedIsQuiet`). For
`TokenWorks` the proof follows who knows a token (`Known`): one tab holds it, only
that tab presents it, an answer is of a token nobody holds yet; so nobody
else can have rotated it, and no token is ever taken for replayed.

*Embeddings.* `Served` names the debt of a pending document: a job, or a caller on its
way to publishing one. `IndexServed` names the three states an undisturbed ready document
can be in: somebody owes it a job, or its one running handler works on the present
text (`UpToDate`), or nothing runs and the vectors are complete or the status says
"failed". `LateIsOwed` carries this through an expiry: as long as no second handler has
started, the retry of a job whose handler is late is still waiting. `WrittenIsClean` and `PlansAreComplete` add when vectors of chunks that are gone
are gone, too.

*Watch folder.* `Filed`: what a store remembers, in memory or on disk, the archive
has, and what an upload has read is the content of the stamp its checkpoint will
carry, so long as the file has that stamp. `Accounted`: what the archive has, the
store remembers, or is about to, or the history says that it does not; and only what
the store does not remember is uploaded.

Only model-checked: the four liveness properties `Settles`, `EveryMessageHandled`,
`PendingEnds` and `FileSettles`, which need fairness and `ENABLED`, both out of the proof
system's reach. No module declares a `RECURSIVE` operator, so that all of them can be
proved about; induction over data is not needed.

## 5. Where code and documents differ

Two runs end in a counterexample; `PROJECT.json` quotes the lines.

- `metadata_edits_survive`: an attempt writes the overrides it read before parsing; an edit
  saved meanwhile is undone, with its lock (`processing.service.ts:262`;
  `api-and-data-flows.md:80`).
- `watch_folder_repoint`: a profile pointed at another server while it has no active
  session keeps the checkpoints of the old one, and files the new archive has never
  received are skipped as imported (`main.ts:262`; `main.ts:268-269`).

Further divergences met while modelling, each in the behaviours of a module; where
a property concerns one, it names it as an exception.

Pipeline and documents:

- What follows the commit runs in the same `try`, so a failing alias or refresh turns
  a ready document back to processing, at the last attempt to failed
  (`processing.service.ts:423`; `architecture-overview.md:268`).
- A delete checks for "processing" in one statement and deletes in another; an
  attempt may start in between (`documents.service.ts:966`).
- A new title and a bulk document type leave no lock, so the next reprocess
  overwrites them (`documents.service.ts:3011`; `review-and-corrections.md:110`).
- A cleared reference number, holder or authority is shown until the next
  reprocess (`documents.service.ts:875`; `review-and-corrections.md:131`).
- A bulk document type leaves a lock of another type standing, which the next commit
  shows again.
- The e-mail provenance in `metadata.email` is gone after the first commit, which
  rebuilds the column (`processing.service.ts:1732`; `api-and-data-flows.md:226-227`). Read
  from the code; the model leaves that part of the column out.

Files:

- An upload that lost the insert enqueues without waiting for the winner's put, as its
  comment says it does (`documents.service.ts:204`).
- A failed put leaves the file row; later uploads of the bytes trust it
  (`documents.service.ts:206`; `backend.md:99`).
- A delete removes the object after its transaction, also from under an upload that
  has just stored it again (`documents.service.ts:993`; `faq.md:44`).
- The object's delete may fail, which is swallowed, or never be reached: the object stays
  without a row and nobody tries again (`documents.service.ts:993`). An upload whose
  document is not inserted after its put leaves row and object (`documents.service.ts:236`).
- Two deletes of the last two documents of a file each count the other and leave
  row and object behind (`documents.service.ts:975`; `core-workflows.md:197`).

E-mail and deadlines:

- A crash between upload and record imports an attachment again; known bytes share
  a file row, not a document (`email-ingest.service.ts:111-112`).
- Overlapping polls import a message twice; the unique index is on the ledger row,
  written last (`email-ingest.service.ts:147`; `schema.ts:483-484`).
- A task reopened, or a date moved away and back, finds its invalidated record and
  is never announced (`notifications.service.ts:81`; `settings-and-admin.md:118-119`).
- A digest that dies between sending and marking, or whose mail was taken by a server
  that then answered with an error, is mailed again
  (`email-digest.service.ts:152`; `api-and-data-flows.md:208-211`).
- A claim whose answer is lost or an error, whose installation stops, or whose record has
  no page is never shown
  (`deadline-relay.ts:98`; `desktop-app.md:311-312`).
- A record one channel has delivered is not invalidated any more and stays pending on
  the other after its task is done (`notifications.service.ts:96`;
  `settings-and-admin.md:119-120`).

Embeddings:

- A publish that fails in the worker writes "failed", and an older job still
  running may write "ready" over it, with the vectors of the older text (`unserved`).
- A pass with nothing to write deletes nothing: vectors of chunks that are gone stay
  until a later pass writes some, and the semantic search reads vectors without
  their chunks (`documents.service.ts:1338`). A text without chunks gets no job at all.
- A process that dies between announcing and publishing, or a job that fails before its
  `try` for the last time, leaves "queued" or "indexing" behind; there is no reaper of
  embeddings (`abandoned`).
- A handler whose job has expired writes what it would have written in time: "queued" for
  a retry that has already completed, and then no job ends it
  (`processing.service.ts:1164`; `abandoned`), or the vectors of an older text (`met`).
- A document made ready by a PATCH of its status gets no embedding job, whatever its
  embedding status says (`documents.service.ts:884`; `byHand`).

Sessions:

- An answer lost after the rotation leaves its tab with the old token; presenting it
  counts as a replay and ends every session of the user.
- A replay revokes what is there; an exchange that has rotated and not yet inserted
  issues a session afterwards. Two exchanges that both find a token live both issue one.

Watch folders:

- "Nothing is imported twice" (`desktop-app.md:348`; `watch-folder-service.ts:80`) does not
  hold for a quit, an aborted or lost answer, or a failing save between the server's
  insert and the checkpoint.
- Each profile keeps its newest checkpoints and checksums only (`watch-folder-state.ts`):
  in a folder beyond the limit files are read again at every pass, for ever, and beyond
  the checksum limit uploaded again (`watch-folder-state.ts:15`; `FileSettles` says what is
  left of settling then).
- A file whose upload failed a few times in a row is given up on until it changes or
  the application restarts, also when the reason was temporary (`desktop-app.md:355-357`).
- Attempts, observations and files given up on are kept by path, not by profile: what
  one archive rejected the other is not offered.
- An upload aborted while its successful answer is read counts as imported.
- A sign-out removes the profile, and the next sign-in creates another one: the folders that
  are "waiting for the next sign-in" (`watch-folder-service.ts:429-430`) wait for a profile
  that does not come back (`archive-session.ts:619`, `:491`).

## 6. Plan

The order was the order of importance to a user: a document is processed once and
not lost in "processing"; edits are not lost; originals are not lost; mail and
deadlines are not lost; then what a user notices later: search, sessions, imports of
the desktop. The modules of section 2 are written, checked and proved. What is left:

| Step | Module | Question | Composes with |
|---|---|---|---|
| 1 | `ReviewOutbox` | decisions made offline on a phone, one slot, flushed after sign-in | - |
| 2 | `FileStore`, extended | the searchable PDF: uploaded before the commit, the replaced one deleted after it, overlapping attempts | `DocumentPipeline` |
| 3 | `ArchiveImport` | objects overwritten around a transaction, with their compensation | `FileStore` |
| 4 | `TagLinks` | tags of a PATCH beside those of a commit, batch tags and merges | `DocumentMetadata` |
| 5 | desktop session and offline copy | nothing of one archive is shown under another after a switch | `WatchFolder`, `RefreshSessions` |
| 6 | correspondent intelligence | a newer summary is not replaced by an older one | - |

Runs stay one passing run per component with everything it promises, at bounds that
finish in minutes; histories instead of separate environments; a violating run only
for a divergence that matters more than one shown already.

## 7. What is not modelled

Whole components:

- *Parsing, extraction, search, answers, tax reports*: content of external models and
  reads; the modules use their results as arbitrary values.
- *Archive transfer*: an import is one administrator's request that replaces the
  database in one transaction; only its compensation of overwritten objects has
  a protocol (section 6).
- *Taxonomies*: every operation, merges included, is a single transaction.
- *Correspondent intelligence*: a cache of generated text nothing else depends on.
- *Health*: reads and a periodic upsert.
- *Desktop shell*: windows, tray, updates and links follow the order of Electron's
  events, which the sources do not determine.
- *Mobile*: its outbox is next; its offline copy is a mirror of reads.
- *Web screens, shared packages*: no state that outlives a page; types and schema are
  used by every module.

In the modelled components:

- *Documents*: the searchable PDF, tag links and batch tags, and the extraction report a
  PATCH writes back (`documents.service.ts:885`, the same lost update as the overrides'),
  and the e-mail provenance in `metadata.email`.
- *Originals*: an object's delete that is carried out although its answer is an error; it
  leaves what a delete that succeeds leaves.
- *Correspondent resolution*: which correspondent a name resolves to is arbitrary.
- *E-mail*: the guard's verdict on a message is a constant; copies and
  messages have identities of their own. The client searches without asking for uids, so
  its numbers are the library's sequence numbers (`mailbox-client.ts:67-72`, `:99`), which
  another client's expunge renumbers, and a message without a Message-ID gets an id made
  from such a number (`:75`), which may be that of an earlier one. What `EmailIngest`
  promises is for messages with a Message-ID in a mailbox nobody expunges during a poll.
  The record of the last poll in `app_state` (`email-ingest.service.ts:186`), which only
  the settings screen reads, is left out.
- *Reminders*: read marks, several users, the cascade of a deleted document.
- *Embeddings*: a change of provider or model, the values of vectors, search.
- *Sessions*: setup, second factors, API tokens, the mobile and desktop holders of tokens,
  and the logout endpoint, which no client calls.
- *Watch folders*: adding, pausing and removing folders, several folders of a profile,
  entries that are not supported, history and conditions, the rescan flag, a stat that
  fails for a file that exists (its next pass tries again), a read torn
  by a write, two contents with one stamp, a server that inserts after the request
  was aborted, users who delete documents in the archive. The settling time is one
  pass (passes are 5 s apart, a file settles in 4 s).

## 8. Running it

```
tlasany DocumentPipeline.tla
tlc -workers 2 -config MCPipelineFaults.cfg MCDocumentPipeline
tlapm DocumentPipelineProofs.tla
```

`PROJECT.json` lists for each run its module and configuration.
