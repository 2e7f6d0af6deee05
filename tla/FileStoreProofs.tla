--------------------------- MODULE FileStoreProofs ---------------------------
(***************************************************************************)
(* Proofs about FileStore, for any number of documents, rows, contents and *)
(* requests. What a request holds past its lookups is part of TypeOK; with *)
(* it the unique checksum and the foreign key make OneRowPerContent        *)
(* inductive, and a delete finds the checksum of the row it read.          *)
(* OriginalsAreStored and NothingLeftBehind are about contents around      *)
(* which nothing failed and nothing met: for those the rows that requests  *)
(* hold are of their bytes, a row has its object or a put to come, and     *)
(* what a delete removes is nobody else's. A transaction that is cut short *)
(* is no exception: it is rolled back.                                     *)
(***************************************************************************)
EXTENDS FileStore, TLAPS

IInv == TypeOK /\ OneRowPerContent

LEMMA InitIInv == Init => IInv
  BY NoneAssumption DEF Init, IInv, TypeOK, OneRowPerContent, Exists

LEMMA ClashTypes ==
  ASSUME NEW k \in Contents
  PROVE  /\ UploadClashes(k) \subseteq ClashKinds \X Contents
         /\ DeleteClashes(k) \subseteq ClashKinds \X Contents
         /\ \A kind \in {"put failed", "object kept", "never filed"} :
               {<<kind, k>>} \subseteq ClashKinds \X Contents
<1>1. \A kind \in ClashKinds : {<<kind, k>>} \subseteq ClashKinds \X Contents
  OBVIOUS
<1>2. {"put failed", "object kept", "never filed", "upload and delete", "two deletes"}
        \subseteq ClashKinds
  BY DEF ClashKinds
<1> QED
  BY <1>1, <1>2 DEF UploadClashes, DeleteClashes

LEMMA NextTypeOK == IInv /\ [Next]_vars => TypeOK'
<1> SUFFICES ASSUME IInv, [Next]_vars PROVE TypeOK'
  OBVIOUS
<1> USE NoneAssumption
    DEF IInv, TypeOK, FindingPc, UploadPc, TransactionPc, DeletePc, Goto, With, End, Exists, RowOf
<1>1. ASSUME NEW r \in Requests, NEW d \in Docs, NEW k \in Contents, RequestUpload(r, d, k)
      PROVE TypeOK'
  BY <1>1, ClashTypes DEF RequestUpload
<1>2. ASSUME NEW r \in Requests, NEW d \in Docs, RequestDelete(r, d) PROVE TypeOK'
  <2>1. checksum[fileOf[d]] \in Contents
    BY <1>2 DEF RequestDelete, OneRowPerContent
  <2> QED
    BY <1>2, <2>1, ClashTypes DEF RequestDelete
<1>3. ASSUME NEW r \in Requests, FindFile(r) PROVE TypeOK'
  BY <1>3 DEF FindFile
<1>4. ASSUME NEW r \in Requests, NEW f \in Files, InsertFile(r, f) PROVE TypeOK'
  BY <1>4 DEF InsertFile, NewFile
<1>5. ASSUME NEW r \in Requests, PutObject(r) PROVE TypeOK'
  BY <1>5 DEF PutObject
<1>6. ASSUME NEW r \in Requests, PutFails(r) PROVE TypeOK'
  BY <1>6, ClashTypes DEF PutFails
<1>7. ASSUME NEW r \in Requests, LookupFile(r) PROVE TypeOK'
  BY <1>7 DEF LookupFile
<1>8. ASSUME NEW r \in Requests, InsertDocument(r) PROVE TypeOK'
  BY <1>8 DEF InsertDocument
<1>9. ASSUME NEW r \in Requests, Enqueue(r) PROVE TypeOK'
  BY <1>9 DEF Enqueue
<1>10. ASSUME NEW r \in Requests, DeleteRow(r) PROVE TypeOK'
  BY <1>10 DEF DeleteRow
<1>11. ASSUME NEW r \in Requests, CountReferences(r) PROVE TypeOK'
  BY <1>11 DEF CountReferences
<1>12. ASSUME NEW r \in Requests, DeleteFile(r) PROVE TypeOK'
  BY <1>12 DEF DeleteFile, Commit
<1>13. ASSUME NEW r \in Requests, KeepFile(r) PROVE TypeOK'
  BY <1>13 DEF KeepFile, Commit
<1>14. ASSUME NEW r \in Requests, DeleteObject(r) PROVE TypeOK'
  BY <1>14 DEF DeleteObject
<1>15. ASSUME NEW r \in Requests, DeleteObjectFails(r) PROVE TypeOK'
  BY <1>15, ClashTypes DEF DeleteObjectFails
<1>16. ASSUME NEW r \in Requests, CutShort(r) PROVE TypeOK'
  BY <1>16, ClashTypes DEF CutShort
<1>17. CASE UNCHANGED vars
  BY <1>17 DEF vars, requestVars
<1> QED
  BY <1>1, <1>2, <1>3, <1>4, <1>5, <1>6, <1>7, <1>8, <1>9, <1>10, <1>11, <1>12, <1>13,
     <1>14, <1>15, <1>16, <1>17 DEF Next, UploadStep, DeleteStep

(* Rows and references change in four statements; the rest leave both be.   *)
LEMMA NextOneRow == IInv /\ [Next]_vars => OneRowPerContent'
<1> SUFFICES ASSUME IInv, [Next]_vars PROVE OneRowPerContent'
  OBVIOUS
<1> USE NoneAssumption DEF IInv, TypeOK, OneRowPerContent, Exists
<1>1. ASSUME NEW r \in Requests, NEW f \in Files, InsertFile(r, f) PROVE OneRowPerContent'
  <2>1. CASE RowOf(content[r]) = {}
    \* The new row is the only one of its checksum.
    <3>1. checksum' = [checksum EXCEPT ![f] = content[r]] /\ fileOf' = fileOf
      BY <1>1, <2>1 DEF InsertFile, NewFile
    <3>2. checksum[f] = None /\ content[r] \in Contents
      BY <1>1 DEF InsertFile
    <3>3. \A g \in Files : checksum[g] # content[r]
      BY <2>1 DEF RowOf
    <3> QED
      BY <3>1, <3>2, <3>3
  <2>2. CASE RowOf(content[r]) # {}
    BY <1>1, <2>2 DEF InsertFile
  <2> QED
    BY <2>1, <2>2
<1>2. ASSUME NEW r \in Requests, InsertDocument(r) PROVE OneRowPerContent'
  \* The foreign key: the row is there when its document comes.
  <2>1. doc[r] \in Docs /\ file[r] \in Files
    BY <1>2 DEF InsertDocument, FindingPc
  <2>2. CASE checksum[file[r]] # None
    BY <1>2, <2>1, <2>2 DEF InsertDocument
  <2>3. CASE checksum[file[r]] = None
    BY <1>2, <2>3 DEF InsertDocument
  <2> QED
    BY <2>2, <2>3
<1>3. ASSUME NEW r \in Requests, DeleteFile(r) PROVE OneRowPerContent'
  <2>1. doc[r] \in Docs /\ file[r] \in Files
    BY <1>3 DEF DeleteFile, FindingPc
  <2>2. CASE \E d \in Docs \ {doc[r]} : fileOf[d] = file[r]
    BY <1>3, <2>2 DEF DeleteFile
  <2>3. CASE ~\E d \in Docs \ {doc[r]} : fileOf[d] = file[r]
    \* The row goes with its last document.
    BY <1>3, <2>1, <2>3 DEF DeleteFile, Commit
  <2> QED
    BY <2>2, <2>3
<1>4. ASSUME NEW r \in Requests, KeepFile(r) PROVE OneRowPerContent'
  BY <1>4 DEF KeepFile, Commit
<1>5. CASE UNCHANGED <<checksum, fileOf>>
  BY <1>5
<1>6. UNCHANGED <<checksum, fileOf>> \/ \E r \in Requests :
        (\E f \in Files : InsertFile(r, f)) \/ InsertDocument(r) \/ DeleteFile(r) \/ KeepFile(r)
  BY DEF Next, UploadStep, DeleteStep, RequestUpload, RequestDelete, FindFile, PutObject,
         PutFails, LookupFile, Enqueue, DeleteRow, CountReferences, DeleteObject,
         DeleteObjectFails, CutShort, vars
<1> QED
  BY <1>1, <1>2, <1>3, <1>4, <1>5, <1>6

-----------------------------------------------------------------------------
(* What every request in flight can rely on, clashes or not.                *)

\* The row a request holds is of its bytes, or gone.
RowsAreTheirs ==
    \A r \in Requests : pc[r] \notin {"idle"} \union FindingPc =>
        checksum[file[r]] \in {content[r], None}

\* A document being deleted has the file its delete has read, or is gone.
DeletesOwnFile ==
    \A r \in Requests : pc[r] \in DeletePc => fileOf[doc[r]] \in {file[r], None}

\* A document yet to be inserted is nobody else's.
InsertsAlone ==
    \A r \in Requests : pc[r] \in UploadPc \ {"enqueue"} =>
        fileOf[doc[r]] = None /\ \A q \in Requests \ {r} : doc[q] # doc[r]

Owners == RowsAreTheirs /\ DeletesOwnFile /\ InsertsAlone

LEMMA NextOwners == IInv /\ Owners /\ [Next]_vars => Owners'
<1> SUFFICES ASSUME IInv, Owners, [Next]_vars PROVE Owners'
  OBVIOUS
<1> USE NoneAssumption
    DEF IInv, TypeOK, Owners, RowsAreTheirs, DeletesOwnFile, InsertsAlone, FindingPc, UploadPc,
        TransactionPc, DeletePc, Goto, With, End, Exists, RowOf
<1>1. ASSUME NEW r \in Requests, NEW d \in Docs, NEW l \in Contents, RequestUpload(r, d, l)
      PROVE Owners'
  BY <1>1 DEF RequestUpload
<1>2. ASSUME NEW r \in Requests, NEW d \in Docs, RequestDelete(r, d) PROVE Owners'
  BY <1>2 DEF RequestDelete
<1>3. ASSUME NEW r \in Requests, FindFile(r) PROVE Owners'
  BY <1>3 DEF FindFile
<1>4. ASSUME NEW r \in Requests, NEW f \in Files, InsertFile(r, f) PROVE Owners'
  BY <1>4 DEF InsertFile, NewFile
<1>5. ASSUME NEW r \in Requests, PutObject(r) PROVE Owners'
  BY <1>5 DEF PutObject
<1>6. ASSUME NEW r \in Requests, PutFails(r) PROVE Owners'
  <2>1. End(r) /\ UNCHANGED <<checksum, fileOf>>
    BY <1>6 DEF PutFails
  <2> QED
    BY <2>1
<1>7. ASSUME NEW r \in Requests, LookupFile(r) PROVE Owners'
  BY <1>7 DEF LookupFile
<1>8. ASSUME NEW r \in Requests, InsertDocument(r) PROVE Owners'
  BY <1>8 DEF InsertDocument
<1>9. ASSUME NEW r \in Requests, Enqueue(r) PROVE Owners'
  BY <1>9 DEF Enqueue
<1>10. ASSUME NEW r \in Requests, DeleteRow(r) PROVE Owners'
  BY <1>10 DEF DeleteRow
<1>11. ASSUME NEW r \in Requests, CountReferences(r) PROVE Owners'
  BY <1>11 DEF CountReferences
<1>12. ASSUME NEW r \in Requests, DeleteFile(r) PROVE Owners'
  BY <1>12 DEF DeleteFile, Commit
<1>13. ASSUME NEW r \in Requests, KeepFile(r) PROVE Owners'
  BY <1>13 DEF KeepFile, Commit
<1>14. ASSUME NEW r \in Requests, DeleteObject(r) PROVE Owners'
  BY <1>14 DEF DeleteObject
<1>15. ASSUME NEW r \in Requests, DeleteObjectFails(r) \/ CutShort(r) PROVE Owners'
  <2>1. End(r) /\ UNCHANGED <<checksum, fileOf>>
    BY <1>15 DEF DeleteObjectFails, CutShort
  <2> QED
    BY <2>1
<1>16. CASE UNCHANGED vars
  BY <1>16 DEF vars, requestVars
<1> QED
  BY <1>1, <1>2, <1>3, <1>4, <1>5, <1>6, <1>7, <1>8, <1>9, <1>10, <1>11, <1>12, <1>13,
     <1>14, <1>15, <1>16 DEF Next, UploadStep, DeleteStep

LEMMA ClashesStay == [Next]_vars => clashes \subseteq clashes'
  BY DEF Next, UploadStep, DeleteStep, RequestUpload, RequestDelete, FindFile, InsertFile,
         PutObject, PutFails, LookupFile, InsertDocument, Enqueue, DeleteRow,
         CountReferences, DeleteFile, KeepFile, DeleteObject, DeleteObjectFails, CutShort,
         vars

(* Contents no put of which has failed and no upload has met a delete.      *)
Clean(k) == \A kind \in {"put failed", "upload and delete"} : <<kind, k>> \notin clashes

NoMix(k) == ~(Meets(k, UploadPc) /\ Meets(k, DeletePc))
\* A row has its object, or the request that is about to put it.
RowStored(k) ==
    RowOf(k) # {} => k \in stored \/ \E r \in Requests : pc[r] = "put" /\ content[r] = k
DeletesKnowRow(k) ==
    \A r \in Requests : pc[r] \in DeletePc /\ content[r] = k =>
        checksum[file[r]] = k \/ RowOf(k) = {}
ObjectsGoLast(k) ==
    \A r \in Requests : pc[r] = "deleteObject" /\ content[r] = k => RowOf(k) = {}

CleanInv ==
    \A k \in Contents :
        Clean(k) => NoMix(k) /\ RowStored(k) /\ DeletesKnowRow(k) /\ ObjectsGoLast(k)

LEMMA NextClean == IInv /\ Owners /\ CleanInv /\ [Next]_vars => CleanInv'
<1> SUFFICES ASSUME IInv, Owners, CleanInv, [Next]_vars, NEW k \in Contents, Clean(k)'
             PROVE  (NoMix(k) /\ RowStored(k) /\ DeletesKnowRow(k) /\ ObjectsGoLast(k))'
  BY DEF CleanInv
<1> DEFINE Goal == (NoMix(k) /\ RowStored(k) /\ DeletesKnowRow(k) /\ ObjectsGoLast(k))'
<1>0. NoMix(k) /\ RowStored(k) /\ DeletesKnowRow(k) /\ ObjectsGoLast(k)
  BY ClashesStay DEF CleanInv, Clean
<1> USE NoneAssumption
    DEF IInv, TypeOK, OneRowPerContent, Owners, RowsAreTheirs, NoMix, RowStored, DeletesKnowRow,
        ObjectsGoLast, Meets, FindingPc, UploadPc, TransactionPc, DeletePc, Goto, With, End,
        RowOf
<1>1. ASSUME NEW r \in Requests, NEW d \in Docs, NEW l \in Contents, RequestUpload(r, d, l)
      PROVE Goal
  <2>1. l # k \/ ~\E q \in Requests : content[q] = k /\ pc[q] \in DeletePc
    BY <1>1 DEF RequestUpload, Clean, UploadClashes
  <2>2. /\ UNCHANGED <<checksum, stored, fileOf, file>>
        /\ pc[r] = "idle" /\ Goto(r, "find")
        /\ content' = [content EXCEPT ![r] = l]
    BY <1>1 DEF RequestUpload
  <2> QED
    BY <1>0, <2>1, <2>2
<1>2. ASSUME NEW r \in Requests, NEW d \in Docs, RequestDelete(r, d) PROVE Goal
  <2>1. checksum[fileOf[d]] # k \/ ~\E q \in Requests : content[q] = k /\ pc[q] \in UploadPc
    BY <1>2 DEF RequestDelete, Clean, DeleteClashes
  <2>2. /\ UNCHANGED <<checksum, stored, fileOf>>
        /\ pc[r] = "idle" /\ Goto(r, "deleteRow") /\ With(r, fileOf[d])
        /\ content' = [content EXCEPT ![r] = checksum[fileOf[d]]]
    BY <1>2 DEF RequestDelete
  <2> QED
    BY <1>0, <2>1, <2>2
<1>3. ASSUME NEW r \in Requests, FindFile(r) PROVE Goal
  BY <1>0, <1>3 DEF FindFile
<1>4. ASSUME NEW r \in Requests, NEW f \in Files, InsertFile(r, f) PROVE Goal
  BY <1>0, <1>4 DEF InsertFile, NewFile
<1>5. ASSUME NEW r \in Requests, PutObject(r) PROVE Goal
  BY <1>0, <1>5 DEF PutObject
<1>6. ASSUME NEW r \in Requests, PutFails(r) PROVE Goal
  <2>1. content[r] # k
    BY <1>6 DEF PutFails, Clean
  <2>2. pc[r] = "put" /\ End(r) /\ UNCHANGED <<checksum, fileOf>>
        /\ (k \in stored' <=> k \in stored)
    BY <1>6, <2>1 DEF PutFails
  <2> QED
    BY <1>0, <2>1, <2>2
<1>7. ASSUME NEW r \in Requests, LookupFile(r) PROVE Goal
  BY <1>0, <1>7 DEF LookupFile
<1>8. ASSUME NEW r \in Requests, InsertDocument(r) PROVE Goal
  BY <1>0, <1>8 DEF InsertDocument
<1>9. ASSUME NEW r \in Requests, Enqueue(r) PROVE Goal
  BY <1>0, <1>9 DEF Enqueue
<1>10. ASSUME NEW r \in Requests, DeleteRow(r) PROVE Goal
  BY <1>0, <1>10 DEF DeleteRow
<1>11. ASSUME NEW r \in Requests, CountReferences(r) PROVE Goal
  BY <1>0, <1>11 DEF CountReferences
<1>12. ASSUME NEW r \in Requests, DeleteFile(r) PROVE Goal
  BY <1>0, <1>12 DEF DeleteFile, Commit
<1>13. ASSUME NEW r \in Requests, KeepFile(r) PROVE Goal
  BY <1>0, <1>13 DEF KeepFile, Commit
<1>14. ASSUME NEW r \in Requests, DeleteObject(r) PROVE Goal
  BY <1>0, <1>14 DEF DeleteObject
<1>15. ASSUME NEW r \in Requests, DeleteObjectFails(r) \/ CutShort(r) PROVE Goal
  <2>1. End(r) /\ pc[r] # "put" /\ UNCHANGED <<checksum, stored, fileOf>>
    BY <1>15 DEF DeleteObjectFails, CutShort
  <2> QED
    BY <1>0, <2>1
<1>16. CASE UNCHANGED vars
  BY <1>0, <1>16 DEF vars, requestVars
<1> QED
  BY <1>1, <1>2, <1>3, <1>4, <1>5, <1>6, <1>7, <1>8, <1>9, <1>10, <1>11, <1>12, <1>13,
     <1>14, <1>15, <1>16 DEF Next, UploadStep, DeleteStep

(* Contents around which nothing has gone wrong.                            *)
Pure(k) == ClashKinds \X {k} \intersect clashes = {}

OneDelete(k) ==
    \A q, r \in Requests :
        pc[q] \in DeletePc /\ pc[r] \in DeletePc /\ content[q] = k /\ content[r] = k => q = r
HeldRows(k) ==
    \A r \in Requests :
        pc[r] \in {"put", "insertDocument"} /\ content[r] = k => checksum[file[r]] = k
StillReferenced(k) ==
    \A r \in Requests : pc[r] = "commit" /\ content[r] = k => References(r) # {}
\* A row belongs to a document, or to an upload that is about to insert one.
RowOwned(k) ==
    \A f \in RowOf(k) :
        \/ \E d \in Docs : fileOf[d] = f
        \/ \E r \in Requests : pc[r] \in {"put", "insertDocument"} /\ file[r] = f
\* An object belongs to a row, or to a delete that is about to remove it.
ObjectOwned(k) ==
    k \in stored =>
        RowOf(k) # {} \/ \E r \in Requests : pc[r] = "deleteObject" /\ content[r] = k

PureInv ==
    \A k \in Contents : Pure(k) =>
        OneDelete(k) /\ HeldRows(k) /\ StillReferenced(k) /\ RowOwned(k) /\ ObjectOwned(k)

LEMMA NextPure == IInv /\ Owners /\ CleanInv /\ PureInv /\ [Next]_vars => PureInv'
<1> SUFFICES ASSUME IInv, Owners, CleanInv, PureInv, [Next]_vars, NEW k \in Contents, Pure(k)'
             PROVE  (OneDelete(k) /\ HeldRows(k) /\ StillReferenced(k) /\ RowOwned(k) /\ ObjectOwned(k))'
  BY DEF PureInv
<1> DEFINE Goal ==
      (OneDelete(k) /\ HeldRows(k) /\ StillReferenced(k) /\ RowOwned(k) /\ ObjectOwned(k))'
<1>0. /\ OneDelete(k) /\ HeldRows(k) /\ StillReferenced(k) /\ RowOwned(k) /\ ObjectOwned(k)
      /\ NoMix(k)
  BY ClashesStay DEF CleanInv, PureInv, Clean, Pure, ClashKinds
<1> USE NoneAssumption
    DEF IInv, TypeOK, OneRowPerContent, Owners, RowsAreTheirs, DeletesOwnFile, InsertsAlone,
        NoMix, OneDelete, HeldRows, StillReferenced, RowOwned, ObjectOwned, References, Meets,
        FindingPc, UploadPc, TransactionPc, DeletePc, Goto, With, End, RowOf, Exists
<1>1. ASSUME NEW r \in Requests, NEW d \in Docs, NEW l \in Contents, RequestUpload(r, d, l)
      PROVE Goal
  <2>1. l # k \/ ~\E q \in Requests : content[q] = k /\ pc[q] \in DeletePc
    BY <1>1 DEF RequestUpload, Pure, UploadClashes, ClashKinds
  <2>2. /\ UNCHANGED <<checksum, stored, fileOf, file>>
        /\ pc[r] = "idle" /\ Goto(r, "find")
        /\ doc' = [doc EXCEPT ![r] = d]
        /\ content' = [content EXCEPT ![r] = l]
    BY <1>1 DEF RequestUpload
  <2> QED
    BY <1>0, <2>1, <2>2
<1>2. ASSUME NEW r \in Requests, NEW d \in Docs, RequestDelete(r, d) PROVE Goal
  <2>1. checksum[fileOf[d]] # k \/ ~\E q \in Requests :
          content[q] = k /\ (pc[q] \in UploadPc \/ pc[q] \in DeletePc)
    BY <1>2 DEF RequestDelete, Pure, DeleteClashes, ClashKinds
  <2>2. /\ UNCHANGED <<checksum, stored, fileOf>>
        /\ pc[r] = "idle" /\ Goto(r, "deleteRow") /\ With(r, fileOf[d])
        /\ doc' = [doc EXCEPT ![r] = d]
        /\ content' = [content EXCEPT ![r] = checksum[fileOf[d]]]
    BY <1>2 DEF RequestDelete
  <2> QED
    BY <1>0, <2>1, <2>2
<1>3. ASSUME NEW r \in Requests, FindFile(r) PROVE Goal
  BY <1>0, <1>3 DEF FindFile
<1>4. ASSUME NEW r \in Requests, NEW f \in Files, InsertFile(r, f) PROVE Goal
  BY <1>0, <1>4 DEF InsertFile, NewFile
<1>5. ASSUME NEW r \in Requests, PutObject(r) PROVE Goal
  BY <1>0, <1>5 DEF PutObject
<1>6. ASSUME NEW r \in Requests, PutFails(r) PROVE Goal
  <2>1. content[r] # k
    BY <1>6 DEF PutFails, Pure, ClashKinds
  <2>2. pc[r] = "put" /\ End(r) /\ UNCHANGED <<checksum, fileOf>>
        /\ (k \in stored' <=> k \in stored)
    BY <1>6, <2>1 DEF PutFails
  <2> QED
    BY <1>0, <2>1, <2>2
<1>7. ASSUME NEW r \in Requests, LookupFile(r) PROVE Goal
  BY <1>0, <1>7 DEF LookupFile
<1>8. ASSUME NEW r \in Requests, InsertDocument(r) PROVE Goal
  BY <1>0, <1>8 DEF InsertDocument
<1>9. ASSUME NEW r \in Requests, Enqueue(r) PROVE Goal
  BY <1>0, <1>9 DEF Enqueue
<1>10. ASSUME NEW r \in Requests, DeleteRow(r) PROVE Goal
  BY <1>0, <1>10 DEF DeleteRow
<1>11. ASSUME NEW r \in Requests, CountReferences(r) PROVE Goal
  BY <1>0, <1>11 DEF CountReferences
<1>12. ASSUME NEW r \in Requests, DeleteFile(r) PROVE Goal
  BY <1>0, <1>12 DEF DeleteFile, Commit
<1>13. ASSUME NEW r \in Requests, KeepFile(r) PROVE Goal
  BY <1>0, <1>13 DEF KeepFile, Commit
<1>14. ASSUME NEW r \in Requests, DeleteObject(r) PROVE Goal
  BY <1>0, <1>14 DEF DeleteObject
<1>15. ASSUME NEW r \in Requests, DeleteObjectFails(r) \/ CutShort(r) PROVE Goal
  \* A request that fails with something of k in its hands counts.
  <2>1. pc[r] \in {"deleteObject", "insertDocument"} => content[r] # k
    BY <1>15 DEF DeleteObjectFails, CutShort, Pure, ClashKinds
  <2>2. pc[r] # "put" /\ End(r) /\ UNCHANGED <<checksum, stored, fileOf>>
    BY <1>15 DEF DeleteObjectFails, CutShort
  <2> QED
    BY <1>0, <2>1, <2>2
<1>16. CASE UNCHANGED vars
  BY <1>0, <1>16 DEF vars, requestVars
<1> QED
  BY <1>1, <1>2, <1>3, <1>4, <1>5, <1>6, <1>7, <1>8, <1>9, <1>10, <1>11, <1>12, <1>13,
     <1>14, <1>15, <1>16 DEF Next, UploadStep, DeleteStep

-----------------------------------------------------------------------------
LEMMA Invariant == ASSUME NoneAssumption PROVE Spec => []IInv
<1>1. IInv /\ [Next]_vars => IInv'
  BY NextTypeOK, NextOneRow DEF IInv
<1> QED
  BY InitIInv, <1>1, PTL DEF Spec

LEMMA CleanInvariant ==
  ASSUME NoneAssumption PROVE Spec => [](IInv /\ Owners /\ CleanInv /\ PureInv)
<1>1. Init => Owners /\ CleanInv /\ PureInv
  BY NoneAssumption
  DEF Init, Owners, RowsAreTheirs, DeletesOwnFile, InsertsAlone, CleanInv, NoMix, RowStored,
      DeletesKnowRow, ObjectsGoLast, PureInv, OneDelete, HeldRows, StillReferenced, RowOwned,
      ObjectOwned, Meets, RowOf, FindingPc, UploadPc, TransactionPc, DeletePc
<1>2. IInv /\ Owners /\ CleanInv /\ PureInv /\ [Next]_vars => Owners' /\ CleanInv' /\ PureInv'
  BY NextOwners, NextClean, NextPure
<1> QED
  BY Invariant, <1>1, <1>2, PTL DEF Spec

\* Rows, references and what every request holds keep their types; a request
\* past its lookups holds a file row.
THEOREM TypeCorrect == ASSUME NoneAssumption PROVE Spec => []TypeOK
<1>1. IInv => TypeOK
  BY DEF IInv
<1> QED
  BY Invariant, <1>1, PTL

\* However uploads and deletes of the same bytes overlap, and whichever puts
\* fail, the bytes have one row and no document loses its row.
THEOREM OneRow == ASSUME NoneAssumption PROVE Spec => []OneRowPerContent
<1>1. IInv => OneRowPerContent
  BY DEF IInv
<1> QED
  BY Invariant, <1>1, PTL

\* When no request is in flight, a document's original is stored, unless a put of
\* its bytes has failed or an upload of them has met a delete.
THEOREM OriginalsKept == ASSUME NoneAssumption PROVE Spec => []OriginalsAreStored
<1>1. IInv /\ CleanInv => OriginalsAreStored
  <2> SUFFICES ASSUME IInv, CleanInv, Quiet, NEW d \in Docs, Exists(d),
                      Clean(checksum[fileOf[d]])
               PROVE  checksum[fileOf[d]] \in stored
    BY DEF OriginalsAreStored, Clean
  <2>1. fileOf[d] \in Files /\ checksum[fileOf[d]] \in Contents
    BY DEF IInv, TypeOK, OneRowPerContent, Exists
  <2>2. RowStored(checksum[fileOf[d]]) /\ RowOf(checksum[fileOf[d]]) # {}
    BY <2>1 DEF CleanInv, RowOf
  <2> QED
    BY <2>2 DEF RowStored, Quiet
<1> QED
  BY CleanInvariant, <1>1, PTL

\* When no request is in flight, rows and objects belong to documents, also after
\* transactions that were cut short, but for bytes whose put or whose object's delete
\* failed, whose document was not inserted, or about which a delete met a request.
THEOREM NothingLeft == ASSUME NoneAssumption PROVE Spec => []NothingLeftBehind
<1>1. PureInv => NothingLeftBehind
  BY DEF PureInv, Pure, NothingLeftBehind, RowOwned, ObjectOwned, Quiet, RowOf
<1> QED
  BY CleanInvariant, <1>1, PTL
-----------------------------------------------------------------------------
(* The refinement of PrivateOriginals. A step that leaves the rows and the  *)
(* documents alone shows at most in the documents of one content.           *)

LEMMA TroubledGrows == [Next]_vars => Troubled \subseteq Troubled'
  BY ClashesStay DEF Troubled

LEMMA Originals ==
  ASSUME IInv
  PROVE  /\ Original \in [Docs -> Contents \union {None}]
         /\ \A d \in Docs : Original[d] = None <=> fileOf[d] = None
  BY NoneAssumption DEF IInv, TypeOK, OneRowPerContent, Original, Exists

\* Only what is put or deleted, and who puts it, is seen of a request.
LEMMA SameOriginals ==
  ASSUME UNCHANGED <<checksum, fileOf, stored>>,
         \A k : Meets(k, {"put"})' <=> Meets(k, {"put"})
  PROVE  UNCHANGED <<Original, Readable, Coming>>
<1>1. Original' = Original
  BY DEF Original, Exists
<1> QED
  BY <1>1 DEF Readable, Coming

\* Requests that are not at their put say nothing about puts.
LEMMA NotPutting ==
  ASSUME IInv, NEW r \in Requests, pc[r] # "put", NEW step, step # "put",
         \/ Goto(r, step) /\ (UNCHANGED content \/ \E k : content' = [content EXCEPT ![r] = k])
         \/ End(r)
  PROVE  \A k : Meets(k, {"put"})' <=> Meets(k, {"put"})
  BY DEF IInv, TypeOK, Goto, End, Meets

\* A document of untroubled bytes comes with its object, or finds it on its way.
LEMMA InsertAdds ==
  ASSUME IInv, Owners, CleanInv, NEW r \in Requests, InsertDocument(r), checksum[file[r]] # None
  PROVE  Private!Add(doc[r], content[r]) /\ doc[r] \in Docs /\ content[r] \in Contents
<1> DEFINE d == doc[r]
           k == content[r]
<1>1. d \in Docs /\ k \in Contents /\ file[r] \in Files /\ k # None
  BY NoneAssumption DEF InsertDocument, IInv, TypeOK, FindingPc
<1>2. checksum[file[r]] = k /\ fileOf[d] = None
  BY DEF InsertDocument, Owners, RowsAreTheirs, InsertsAlone, FindingPc, UploadPc
<1>3. /\ fileOf' = [fileOf EXCEPT ![d] = file[r]] /\ UNCHANGED <<checksum, stored, content>>
      /\ pc[r] = "insertDocument" /\ Goto(r, "enqueue")
  BY DEF InsertDocument
<1>4. \A l : Meets(l, {"put"})' <=> Meets(l, {"put"})
  BY <1>3, NotPutting
<1>5. Original[d] = None /\ Original' = [Original EXCEPT ![d] = k]
  BY <1>1, <1>2, <1>3, NoneAssumption DEF Original, Exists, IInv, TypeOK
<1>6. Readable' = IF k \in stored THEN Readable \union {d} ELSE Readable
  BY <1>1, <1>3, <1>5, Originals, NoneAssumption DEF Readable, IInv, TypeOK
<1>7. Coming' = IF Meets(k, {"put"}) THEN Coming \union {d} ELSE Coming
  BY <1>1, <1>4, <1>5, Originals DEF Coming
<1>8. k \in Troubled \/ k \in stored \/ Meets(k, {"put"})
  <2>1. RowOf(k) # {}
    BY <1>1, <1>2 DEF RowOf
  <2> QED
    BY <1>1, <2>1 DEF CleanInv, Clean, Troubled, RowStored, Meets
<1> QED
  BY <1>1, <1>5, <1>6, <1>7, <1>8 DEF Private!Add

\* A commit that removes one document, and its row only if it was the last.
LEMMA CommitRemoves ==
  ASSUME IInv, Owners, NEW r \in Requests, pc[r] \in {"deleteFile", "commit"}, Commit(r), UNCHANGED stored,
         \/ UNCHANGED checksum
         \/ /\ checksum' = [checksum EXCEPT ![file[r]] = None]
            /\ \A d \in Docs \ {doc[r]} : fileOf[d] # file[r],
         \A k : Meets(k, {"put"})' <=> Meets(k, {"put"})
  PROVE  Private!Remove(doc[r]) \/ UNCHANGED <<Original, Readable, Coming>>
<1> DEFINE d == doc[r]
<1>1. d \in Docs /\ file[r] \in Files
  BY DEF IInv, TypeOK, FindingPc
<1>2. fileOf' = [fileOf EXCEPT ![d] = None] /\ fileOf[d] \in {file[r], None}
  BY DEF Commit, Owners, DeletesOwnFile, DeletePc, TransactionPc
<1>3. Original' = [Original EXCEPT ![d] = None]
  BY <1>1, <1>2, NoneAssumption DEF Original, Exists, IInv, TypeOK, OneRowPerContent
<1>4. Readable' = Readable \ {d} /\ Coming' = Coming \ {d}
  BY <1>1, <1>3, Originals, NoneAssumption DEF Readable, Coming, IInv, TypeOK
<1>5. CASE Original[d] = None
  BY <1>1, <1>3, <1>4, <1>5, Originals, NoneAssumption DEF Readable, Coming, IInv, TypeOK
<1>6. CASE Original[d] # None
  BY <1>3, <1>4, <1>6 DEF Private!Remove
<1> QED
  BY <1>5, <1>6

\* The object arrives for all its documents, none of which had to come first.
LEMMA PutArrives ==
  ASSUME IInv, NEW r \in Requests, PutObject(r)
  PROVE  /\ content[r] \in Contents
         /\ Private!Arrive({d \in Docs : Original[d] = content[r]})
<1> DEFINE k == content[r]
           same == {d \in Docs : Original[d] = k}
<1>1. k \in Contents /\ k # None /\ pc[r] = "put"
  BY NoneAssumption DEF PutObject, IInv, TypeOK, FindingPc
<1>2. stored' = stored \union {k} /\ UNCHANGED <<checksum, fileOf, content>> /\ Goto(r, "insertDocument")
  BY DEF PutObject
<1>3. Original' = Original
  BY <1>2 DEF Original, Exists
<1>4. same \subseteq Coming
  BY <1>1 DEF Coming, Meets
<1>5. Readable' = Readable \union same
  BY <1>2, <1>3 DEF Readable
<1>6. \A l : l # k => (Meets(l, {"put"})' <=> Meets(l, {"put"}))
  BY <1>1, <1>2 DEF Goto, Meets, IInv, TypeOK
<1>7. CASE Meets(k, {"put"})'
  <2>1. Coming' = Coming
    BY <1>1, <1>2, <1>3, <1>4, <1>6, <1>7 DEF Coming
  <2> QED
    BY <1>1, <1>3, <1>4, <1>5, <2>1 DEF Private!Arrive
<1>8. CASE ~Meets(k, {"put"})'
  <2>1. Coming' = Coming \ same
    BY <1>2, <1>3, <1>6, <1>8 DEF Coming
  <2> QED
    BY <1>1, <1>3, <1>4, <1>5, <2>1 DEF Private!Arrive
<1> QED
  BY <1>7, <1>8

\* A put that fails, or an object that is deleted, shows in documents of its bytes
\* only, and only of troubled ones.
LEMMA ObjectLost ==
  ASSUME IInv, Owners, CleanInv, [Next]_vars, NEW r \in Requests, PutFails(r) \/ DeleteObject(r)
  PROVE  /\ content[r] \in Contents
         /\ \/ Private!Confuse({d \in Docs : Original[d] = content[r]})
            \/ UNCHANGED <<Original, Readable, Coming>>
<1> DEFINE k == content[r]
           same == {d \in Docs : Original[d] = k}
<1>1. k \in Contents /\ k # None /\ pc[r] \in {"put", "deleteObject"}
  BY NoneAssumption DEF PutFails, DeleteObject, IInv, TypeOK, FindingPc
<1>2. /\ End(r) /\ UNCHANGED <<checksum, fileOf>>
      /\ stored' \ {k} = stored \ {k}
  BY DEF PutFails, DeleteObject
<1>3. Original' = Original
  BY <1>2 DEF Original, Exists
<1>4. \A l : l # k /\ l # None => (Meets(l, {"put"})' <=> Meets(l, {"put"}))
  BY <1>1, <1>2 DEF End, Goto, Meets, IInv, TypeOK
<1>5. Readable' \ same = Readable \ same
  BY <1>2, <1>3 DEF Readable
<1>6. Coming' \ same = Coming \ same
  BY <1>3, <1>4, NoneAssumption DEF Coming
<1>7. k \in Troubled' \/ same = {}
  <2>1. CASE PutFails(r)
    BY <1>1, <2>1 DEF PutFails, Troubled
  <2>2. CASE DeleteObject(r) /\ Clean(k)
    <3>1. RowOf(k) = {}
      BY <1>1, <2>2 DEF CleanInv, ObjectsGoLast, DeleteObject
    <3> QED
      BY <1>1, <3>1 DEF RowOf, Original, Exists, IInv, TypeOK
  <2>3. CASE ~Clean(k)
    BY <1>1, <2>3, TroubledGrows DEF Troubled, Clean
  <2> QED
    BY <2>1, <2>2, <2>3
<1>8. CASE k \in Troubled'
  BY <1>1, <1>3, <1>5, <1>6, <1>8 DEF Private!Confuse
<1>9. CASE same = {}
  BY <1>1, <1>3, <1>5, <1>6, <1>9
<1> QED
  BY <1>1, <1>7, <1>8, <1>9

\* Every step is one of the private originals or does not show in them.
LEMMA StepImplements ==
  IInv /\ Owners /\ CleanInv /\ [Next]_vars => [Private!Next]_Private!vars
<1> SUFFICES ASSUME IInv, Owners, CleanInv, [Next]_vars PROVE Private!Next
  OBVIOUS
<1> DEFINE Quietly == UNCHANGED <<Original, Readable, Coming>>
           OfDocs == \E d \in Docs : Private!Remove(d) \/ \E k \in Contents : Private!Add(d, k)
           OfBytes == \E k \in Contents :
              LET same == {d \in Docs : Original[d] = k} IN Private!Arrive(same) \/ Private!Confuse(same)
<1> SUFFICES Quietly \/ OfDocs \/ OfBytes
  BY TroubledGrows DEF Private!Next
<1>1. ASSUME NEW r \in Requests,
             \/ (\E d \in Docs, k \in Contents : RequestUpload(r, d, k))
             \/ (\E d \in Docs : RequestDelete(r, d))
             \/ FindFile(r) \/ LookupFile(r) \/ Enqueue(r) \/ DeleteRow(r) \/ CountReferences(r)
             \/ DeleteObjectFails(r) \/ CutShort(r)
      PROVE  Quietly
  <2>1. UNCHANGED <<checksum, fileOf, stored>> /\ pc[r] # "put"
    BY <1>1 DEF RequestUpload, RequestDelete, FindFile, LookupFile, Enqueue, DeleteRow,
                CountReferences, DeleteObjectFails, CutShort
  <2>2. \/ End(r)
        \/ \E step : /\ step # "put" /\ Goto(r, step)
                     /\ UNCHANGED content \/ \E k : content' = [content EXCEPT ![r] = k]
    BY <1>1 DEF RequestUpload, RequestDelete, FindFile, LookupFile, Enqueue, DeleteRow,
                CountReferences, DeleteObjectFails, CutShort
  <2> QED
    BY <2>1, <2>2, NotPutting, SameOriginals
<1>2. ASSUME NEW r \in Requests, NEW f \in Files, InsertFile(r, f) PROVE Quietly
  <2> DEFINE k == content[r]
  <2>1. UNCHANGED <<fileOf, stored, content>> /\ pc[r] = "insertFile" /\ k \in Contents /\ k # None
    BY <1>2, NoneAssumption DEF InsertFile, NewFile, IInv, TypeOK
  <2>2. CASE RowOf(k) # {}
    BY <1>2, <2>1, <2>2, NotPutting, SameOriginals DEF InsertFile
  <2>3. CASE RowOf(k) = {}
    \* There is no document of these bytes yet.
    <3>1. checksum[f] = None /\ checksum' = [checksum EXCEPT ![f] = k] /\ Goto(r, "put")
      BY <1>2, <2>3 DEF InsertFile, NewFile
    <3>2. Original' = Original
      BY <2>1, <3>1 DEF Original, Exists, IInv, TypeOK, OneRowPerContent
    <3>3. \A d \in Docs : Original[d] # k
      BY <2>1, <2>3 DEF Original, RowOf, Exists, IInv, TypeOK
    <3>4. \A l : l # k => (Meets(l, {"put"})' <=> Meets(l, {"put"}))
      BY <2>1, <3>1 DEF Goto, Meets, IInv, TypeOK
    <3> QED
      BY <2>1, <3>2, <3>3, <3>4 DEF Readable, Coming
  <2> QED
    BY <2>2, <2>3
<1>3. ASSUME NEW r \in Requests, InsertDocument(r) PROVE Quietly \/ OfDocs
  <2>1. CASE checksum[file[r]] # None
    BY <1>3, <2>1, InsertAdds
  <2>2. CASE checksum[file[r]] = None
    BY <1>3, <2>2, NotPutting, SameOriginals DEF InsertDocument
  <2> QED
    BY <2>1, <2>2
<1>4. ASSUME NEW r \in Requests, PutObject(r) PROVE OfBytes
  BY <1>4, PutArrives
<1>5. ASSUME NEW r \in Requests, PutFails(r) \/ DeleteObject(r) PROVE Quietly \/ OfBytes
  BY <1>5, ObjectLost
<1>6. ASSUME NEW r \in Requests, DeleteFile(r) PROVE Quietly \/ OfDocs
  <2>1. CASE \E d \in Docs \ {doc[r]} : fileOf[d] = file[r]
    BY <1>6, <2>1, NotPutting, SameOriginals DEF DeleteFile
  <2>2. CASE ~\E d \in Docs \ {doc[r]} : fileOf[d] = file[r]
    <3>1. /\ pc[r] = "deleteFile" /\ Commit(r) /\ Goto(r, "deleteObject") /\ UNCHANGED <<stored, content>>
          /\ checksum' = [checksum EXCEPT ![file[r]] = None]
      BY <1>6, <2>2 DEF DeleteFile
    <3>2. \A k : Meets(k, {"put"})' <=> Meets(k, {"put"})
      BY <3>1, NotPutting
    <3>3. doc[r] \in Docs
      BY <3>1 DEF IInv, TypeOK
    <3> QED
      BY <2>2, <3>1, <3>2, <3>3, CommitRemoves
  <2> QED
    BY <2>1, <2>2
<1>7. ASSUME NEW r \in Requests, KeepFile(r) PROVE Quietly \/ OfDocs
  <2>1. pc[r] = "commit" /\ Commit(r) /\ End(r) /\ UNCHANGED <<stored, checksum>>
    BY <1>7 DEF KeepFile
  <2>2. \A k : Meets(k, {"put"})' <=> Meets(k, {"put"})
    BY <2>1, NotPutting
  <2>3. doc[r] \in Docs
    BY <2>1 DEF IInv, TypeOK
  <2> QED
    BY <2>1, <2>2, <2>3, CommitRemoves
<1>8. CASE UNCHANGED vars
  BY <1>8, SameOriginals DEF vars, requestVars, Meets
<1> HIDE DEF Quietly, OfDocs, OfBytes
<1> QED
  BY <1>1, <1>2, <1>3, <1>4, <1>5, <1>6, <1>7, <1>8 DEF Next, UploadStep, DeleteStep

\* However uploads and deletes of the same bytes overlap, and whichever puts fail,
\* the documents are those of PrivateOriginals: sharing is not seen.
THEOREM StoreImplementsOriginals == ASSUME NoneAssumption PROVE Spec => ImplementsPrivateOriginals
<1>1. Init => Private!Init
  BY NoneAssumption DEF Init, Private!Init, Original, Readable, Coming, Troubled, Exists
<1> QED
  BY <1>1, CleanInvariant, StepImplements, PTL DEF Spec, ImplementsPrivateOriginals, Private!Spec

LEMMA NextAtHand ==
    DOMAIN Original = Docs /\ Private!AtHand /\ [Private!Next]_Private!vars => Private!AtHand'
<1> SUFFICES ASSUME DOMAIN Original = Docs, Private!AtHand, [Private!Next]_Private!vars
             PROVE  Private!AtHand'
    OBVIOUS
<1> USE DEF Private!AtHand
<1>1. CASE UNCHANGED Private!vars
    BY <1>1 DEF Private!vars
<1>2. CASE Private!Next
  <2>1. Troubled \subseteq Troubled'
      BY <1>2 DEF Private!Next
  <2> QED
      BY <1>2, <2>1
      DEF Private!Next, Private!Add, Private!Remove, Private!Arrive, Private!Confuse
<1> QED
    BY <1>1, <1>2

\* At every moment, also while requests are under way, each document has its object or a
\* put that has yet to end, unless a put of its bytes failed or an upload of them met a
\* delete: it holds of PrivateOriginals, and so of the store.
THEOREM OriginalsAtHand == ASSUME NoneAssumption PROVE Spec => []Private!AtHand
<1>1. Init => Private!AtHand
    BY DEF Init, Private!AtHand, Original, Exists
<1>2. DOMAIN Original = Docs
    BY DEF Original
<1> QED
    BY <1>1, <1>2, NextAtHand, StoreImplementsOriginals, PTL
    DEF Spec, ImplementsPrivateOriginals, Private!Spec
=============================================================================
