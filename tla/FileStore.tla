----------------------------- MODULE FileStore ------------------------------
(***************************************************************************)
(* Where the bytes of documents live: document_files rows, one per         *)
(* checksum, in PostgreSQL; objects, one per checksum, in the object       *)
(* store; documents that reference a row. An upload finds or creates the   *)
(* row, stores the object, then inserts and enqueues its document. A       *)
(* delete removes the document in a transaction, with the file row if no   *)
(* document references it, and the object after the transaction.           *)
(*                                                                         *)
(* Statements are READ COMMITTED: a transaction sees what others have      *)
(* committed, and what a delete removes stays visible to them until then.  *)
(***************************************************************************)
CONSTANTS
    Docs,        \* documents.id
    Files,       \* document_files.id
    Contents,    \* checksums
    Requests,    \* API requests that may be in flight
    Ops,         \* which operations clients use
    Faults,      \* what may fail: storing an object ("put"), deleting one
                 \* ("delete"), any other statement ("statement")
    None

ASSUME OpsAssumption == Ops \subseteq {"upload", "delete"} /\ Faults \subseteq {"put", "delete", "statement"}
ASSUME NoneAssumption == None \notin Docs \union Files \union Contents

FindingPc == {"find", "insertFile", "lookup"}
UploadPc == FindingPc \union {"put", "insertDocument", "enqueue"}
TransactionPc == {"count", "deleteFile", "commit"}
DeletePc == {"deleteRow", "deleteObject"} \union TransactionPc

VARIABLES
    checksum,  \* the checksum of each file row; None where there is no row
    stored,    \* contents with an object in the bucket
    fileOf,    \* the file row each document references; None: no such document
    queued,    \* documents with a processing job
    pc, doc, file, content,  \* each request's next statement and its arguments
    clashes    \* history: what has gone wrong around which content

requestVars == <<pc, doc, file, content>>
vars == <<checksum, stored, fileOf, queued, requestVars, clashes>>

Init ==
    /\ checksum = [f \in Files |-> None]
    /\ stored = {}
    /\ fileOf = [d \in Docs |-> None]
    /\ queued = {}
    /\ pc = [r \in Requests |-> "idle"]
    /\ doc = [r \in Requests |-> None]
    /\ file = [r \in Requests |-> None]
    /\ content = [r \in Requests |-> None]
    /\ clashes = {}

-----------------------------------------------------------------------------
RowOf(k) == {f \in Files : checksum[f] = k}
Exists(d) == d \in Docs /\ fileOf[d] # None

\* Requests whose transaction has deleted their document and not committed.
InTransaction == {r \in Requests : pc[r] \in TransactionPc}
BeingDeleted(d) == \E r \in InTransaction : doc[r] = d

Goto(r, step) == pc' = [pc EXCEPT ![r] = step]
With(r, f) == file' = [file EXCEPT ![r] = f]

End(r) ==
    /\ Goto(r, "idle")
    /\ doc' = [doc EXCEPT ![r] = None]
    /\ file' = [file EXCEPT ![r] = None]
    /\ content' = [content EXCEPT ![r] = None]

\* History: what failed around content k, or a request about it met others in flight.
ClashKinds == {"put failed", "object kept", "never filed", "upload and delete", "two deletes"}
Meets(k, other) == \E r \in Requests : content[r] = k /\ pc[r] \in other
UploadClashes(k) == IF Meets(k, DeletePc) THEN {<<"upload and delete", k>>} ELSE {}
DeleteClashes(k) ==
    (IF Meets(k, UploadPc) THEN {<<"upload and delete", k>>} ELSE {})
        \union (IF Meets(k, DeletePc) THEN {<<"two deletes", k>>} ELSE {})

-----------------------------------------------------------------------------
(* uploadDocument                                                          *)

RequestUpload(r, d, k) ==
    /\ "upload" \in Ops
    /\ pc[r] = "idle"
    /\ ~Exists(d)
    /\ \A q \in Requests : doc[q] # d
    /\ clashes' = clashes \union UploadClashes(k)
    /\ Goto(r, "find")
    /\ doc' = [doc EXCEPT ![r] = d]
    /\ content' = [content EXCEPT ![r] = k]
    /\ UNCHANGED <<checksum, stored, fileOf, queued, file>>

\* findFileByChecksum
FindFile(r) ==
    /\ pc[r] = "find"
    /\ IF RowOf(content[r]) # {}
       THEN Goto(r, "insertDocument") /\ \E f \in RowOf(content[r]) : With(r, f)
       ELSE Goto(r, "insertFile") /\ UNCHANGED file
    /\ UNCHANGED <<checksum, stored, fileOf, queued, doc, content, clashes>>

NewFile(r, f) ==
    /\ checksum' = [checksum EXCEPT ![f] = content[r]]
    /\ With(r, f)
    /\ Goto(r, "put")

\* INSERT ... ON CONFLICT (checksum) DO NOTHING. Row ids are never used again.
InsertFileNoConflict(r, f) ==  \* mutant: no unique index on the checksum
    /\ pc[r] = "insertFile"
    /\ checksum[f] = None
    /\ \A q \in Requests : file[q] # f
    /\ NewFile(r, f)
    /\ UNCHANGED <<stored, fileOf, queued, doc, content, clashes>>

InsertFile(r, f) ==
    /\ pc[r] = "insertFile"
    /\ checksum[f] = None
    /\ \A q \in Requests : file[q] # f
    /\ IF RowOf(content[r]) = {}
       THEN NewFile(r, f)
       ELSE Goto(r, "lookup") /\ UNCHANGED <<checksum, file>>
    /\ UNCHANGED <<stored, fileOf, queued, doc, content, clashes>>

\* The request that created the row stores the object.
PutObject(r) ==
    /\ pc[r] = "put"
    /\ stored' = stored \union {content[r]}
    /\ Goto(r, "insertDocument")
    /\ UNCHANGED <<checksum, fileOf, queued, doc, file, content, clashes>>

\* The put throws or the process ends in it, before or after the bytes are there.
PutFails(r) ==
    /\ "put" \in Faults
    /\ pc[r] = "put"
    /\ stored' \in {stored, stored \union {content[r]}}
    /\ End(r)
    /\ clashes' = clashes \union {<<"put failed", content[r]>>}
    /\ UNCHANGED <<checksum, fileOf, queued>>

LookupUnchecked(r) ==  \* mutant: no ConflictException
    /\ pc[r] = "lookup"
    /\ Goto(r, "insertDocument")
    /\ IF RowOf(content[r]) # {} THEN \E f \in RowOf(content[r]) : With(r, f) ELSE UNCHANGED file
    /\ UNCHANGED <<checksum, stored, fileOf, queued, doc, content, clashes>>

\* The request that lost the insert looks the winner's row up and goes on.
LookupFile(r) ==
    /\ pc[r] = "lookup"
    /\ IF RowOf(content[r]) # {}
       THEN /\ Goto(r, "insertDocument")
            /\ \E f \in RowOf(content[r]) : With(r, f)
            /\ UNCHANGED <<doc, content>>
       ELSE End(r)
    /\ UNCHANGED <<checksum, stored, fileOf, queued, clashes>>

\* The insert fails if the row is gone; its foreign key check waits for a
\* transaction that is about to delete the row.
InsertDocument(r) ==
    /\ pc[r] = "insertDocument"
    /\ IF checksum[file[r]] # None
       THEN /\ fileOf' = [fileOf EXCEPT ![doc[r]] = file[r]]
            /\ Goto(r, "enqueue")
            /\ UNCHANGED <<doc, file, content>>
       ELSE End(r) /\ UNCHANGED fileOf
    /\ UNCHANGED <<checksum, stored, queued, clashes>>

Enqueue(r) ==
    /\ pc[r] = "enqueue"
    /\ ~BeingDeleted(doc[r])
    /\ queued' = IF Exists(doc[r]) THEN queued \union {doc[r]} ELSE queued
    /\ End(r)
    /\ UNCHANGED <<checksum, stored, fileOf, clashes>>

-----------------------------------------------------------------------------
(* deleteDocument                                                          *)

RequestDelete(r, d) ==
    /\ "delete" \in Ops
    /\ pc[r] = "idle"
    /\ Exists(d)
    /\ clashes' = clashes \union DeleteClashes(checksum[fileOf[d]])
    /\ Goto(r, "deleteRow")
    /\ doc' = [doc EXCEPT ![r] = d]
    /\ With(r, fileOf[d])
    /\ content' = [content EXCEPT ![r] = checksum[fileOf[d]]]
    /\ UNCHANGED <<checksum, stored, fileOf, queued>>

\* DELETE FROM documents waits for a transaction that deletes the same row.
DeleteRow(r) ==
    /\ pc[r] = "deleteRow"
    /\ ~BeingDeleted(doc[r])
    /\ Goto(r, "count")
    /\ UNCHANGED <<checksum, stored, fileOf, queued, doc, file, content, clashes>>

\* Documents that reference r's file, as r's transaction sees them.
ReferencesOwn(r) == {d \in Docs : fileOf[d] = file[r]}  \* mutant: counts before the delete
References(r) == {d \in Docs \ {doc[r]} : fileOf[d] = file[r]}

CountReferences(r) ==
    /\ pc[r] = "count"
    /\ Goto(r, IF References(r) = {} THEN "deleteFile" ELSE "commit")
    /\ UNCHANGED <<checksum, stored, fileOf, queued, doc, file, content, clashes>>

Commit(r) ==
    /\ fileOf' = [fileOf EXCEPT ![doc[r]] = None]
    /\ queued' = queued \ {doc[r]}

\* DELETE FROM document_files and the commit. A document inserted since the
\* count breaks the foreign key, and the whole transaction is rolled back.
DeleteFileUnrestricted(r) ==  \* mutant: no foreign key
    /\ pc[r] = "deleteFile"
    /\ checksum' = [checksum EXCEPT ![file[r]] = None]
    /\ Commit(r)
    /\ Goto(r, "deleteObject")
    /\ UNCHANGED <<stored, doc, file, content, clashes>>

DeleteFile(r) ==
    /\ pc[r] = "deleteFile"
    /\ IF \E d \in Docs \ {doc[r]} : fileOf[d] = file[r]
       THEN End(r) /\ UNCHANGED <<checksum, fileOf, queued>>
       ELSE /\ checksum' = [checksum EXCEPT ![file[r]] = None]
            /\ Commit(r)
            /\ Goto(r, "deleteObject")
            /\ UNCHANGED <<doc, file, content>>
    /\ UNCHANGED <<stored, clashes>>

KeepFileOnly(r) ==  \* mutant: the object goes with the first of its documents
    /\ pc[r] = "commit"
    /\ Commit(r)
    /\ Goto(r, "deleteObject")
    /\ UNCHANGED <<checksum, stored, doc, file, content, clashes>>

KeepFile(r) ==
    /\ pc[r] = "commit"
    /\ Commit(r)
    /\ End(r)
    /\ UNCHANGED <<checksum, stored, clashes>>

\* After the transaction; the key is the checksum, whoever uses it by now.
DeleteObject(r) ==
    /\ pc[r] = "deleteObject"
    /\ stored' = stored \ {content[r]}
    /\ End(r)
    /\ UNCHANGED <<checksum, fileOf, queued, clashes>>

\* The error is swallowed; the process may also have ended since the commit.
DeleteObjectFails(r) ==
    /\ "delete" \in Faults
    /\ pc[r] = "deleteObject"
    /\ End(r)
    /\ clashes' = clashes \union {<<"object kept", content[r]>>}
    /\ UNCHANGED <<checksum, stored, fileOf, queued>>

-----------------------------------------------------------------------------
\* A statement throws or the process ends before it. A transaction is rolled
\* back; what an upload has already stored stays, without the document.
CutShort(r) ==
    /\ "statement" \in Faults
    /\ pc[r] \notin {"idle", "put", "deleteObject"}
    /\ End(r)
    /\ clashes' = clashes \union
          (IF pc[r] = "insertDocument" THEN {<<"never filed", content[r]>>} ELSE {})
    /\ UNCHANGED <<checksum, stored, fileOf, queued>>

UploadStep(r) ==
    \/ FindFile(r) \/ (\E f \in Files : InsertFile(r, f)) \/ PutObject(r) \/ PutFails(r)
    \/ LookupFile(r) \/ InsertDocument(r) \/ Enqueue(r)

DeleteStep(r) ==
    \/ DeleteRow(r) \/ CountReferences(r) \/ DeleteFile(r) \/ KeepFile(r)
    \/ DeleteObject(r) \/ DeleteObjectFails(r)

Next ==
    \E r \in Requests :
        \/ \E d \in Docs, k \in Contents : RequestUpload(r, d, k)
        \/ \E d \in Docs : RequestDelete(r, d)
        \/ UploadStep(r)
        \/ DeleteStep(r)
        \/ CutShort(r)

Spec == Init /\ [][Next]_vars

-----------------------------------------------------------------------------
\* Types, and a request past its lookups always holds a document, its bytes and
\* their file row.
TypeOK ==
    /\ checksum \in [Files -> Contents \union {None}]
    /\ stored \subseteq Contents
    /\ fileOf \in [Docs -> Files \union {None}]
    /\ queued \subseteq Docs
    /\ pc \in [Requests -> {"idle"} \union UploadPc \union DeletePc]
    /\ doc \in [Requests -> Docs \union {None}]
    /\ file \in [Requests -> Files \union {None}]
    /\ content \in [Requests -> Contents \union {None}]
    /\ clashes \subseteq ClashKinds \X Contents
    /\ \A r \in Requests :
          /\ pc[r] # "idle" => doc[r] \in Docs /\ content[r] \in Contents
          /\ pc[r] \notin {"idle"} \union FindingPc => file[r] \in Files

\* The same bytes have one file row, and every document has the row of its
\* bytes, whatever uploads and deletes overlap.
OneRowPerContent ==
    /\ \A f, g \in Files : checksum[f] = checksum[g] /\ checksum[f] # None => f = g
    /\ \A d \in Docs : Exists(d) => checksum[fileOf[d]] # None

Quiet == \A r \in Requests : pc[r] = "idle"

\* Whenever no request is in flight, the original of every document can be read,
\* unless a put of its bytes failed or an upload of them met a delete of them.
OriginalsAreStored ==
    Quiet => \A d \in Docs : Exists(d) =>
        \/ checksum[fileOf[d]] \in stored
        \/ \E kind \in {"put failed", "upload and delete"} :
              <<kind, checksum[fileOf[d]]>> \in clashes

\* Whenever no request is in flight, what is stored or has a row belongs to a
\* document: the last delete leaves nothing behind, also after transactions that were
\* cut short. Exempt are bytes whose put or whose object's delete failed (the code
\* never tries either again), whose row was found or made for a document that was
\* then not inserted, or whose delete met another request.
NothingLeftBehind ==
    Quiet => \A k \in Contents : ClashKinds \X {k} \intersect clashes = {} =>
        /\ \A f \in RowOf(k) : \E d \in Docs : fileOf[d] = f
        /\ k \in stored => RowOf(k) # {}

\* To its users a document has an original of its own: what happens to the documents
\* is a behaviour of PrivateOriginals, though they share rows and objects.
Original == [d \in Docs |-> IF Exists(d) THEN checksum[fileOf[d]] ELSE None]
Readable == {d \in Docs : Original[d] \in stored}
Coming == {d \in Docs : Original[d] # None /\ Meets(Original[d], {"put"})}
Troubled == {k \in Contents : <<"put failed", k>> \in clashes \/ <<"upload and delete", k>> \in clashes}

Private ==
    INSTANCE PrivateOriginals WITH
        original <- Original, readable <- Readable, coming <- Coming, troubled <- Troubled

ImplementsPrivateOriginals == Private!Spec
=============================================================================
