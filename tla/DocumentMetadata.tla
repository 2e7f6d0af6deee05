-------------------------- MODULE DocumentMetadata --------------------------
(***************************************************************************)
(* The fields of one document and its metadata column, which holds the     *)
(* user's manual overrides. PATCH requests, processDocument handlers and   *)
(* the alias writer all read the whole column in one statement and replace *)
(* the whole column in a later one. Bulk edits touch a field and not the   *)
(* column.                                                                 *)
(*                                                                         *)
(* What else the column holds (parse and extraction reports, where an      *)
(* e-mailed document came from) is left out.                               *)
(***************************************************************************)
EXTENDS Naturals, FiniteSets

CONSTANTS
    Fields,          \* fields of a document a user can edit
    Title,           \* the field that has no lock
    Correspondent,   \* the field aliases fill in
    TextFields,      \* referenceNumber, holderName, issuingAuthority
    BulkFields,      \* documentTypeId
    Values, Null,    \* values of a field; NULL
    Editors,         \* PATCH requests that may be in flight
    Handlers,        \* processDocument invocations that may be in flight
    Aliasers,        \* applyAliasToUnresolvedDocuments that may be in flight
    Edits,           \* which kinds of user edit occur
    Free             \* the user has no say about a field

EditKinds == {"set", "unlock", "title", "bulk"}

ASSUME FieldsAssumption ==
    /\ {Title, Correspondent} \union TextFields \union BulkFields \subseteq Fields
    /\ Title # Correspondent
    /\ {Title, Correspondent} \intersect (TextFields \union BulkFields) = {}
ASSUME ValuesAssumption == Null \notin Values /\ Free \notin Values /\ Free # Null
ASSUME WritersAssumption ==
    /\ Editors \intersect Handlers = {}
    /\ (Editors \union Handlers) \intersect Aliasers = {}
ASSUME EditsAssumption == Edits \subseteq EditKinds

Writers == Editors \union Handlers \union Aliasers
Nullable == Values \union {Null}
Metadata == [lockedFields : SUBSET Fields, values : [Fields -> Nullable]]

VARIABLES
    column,      \* the columns of the document
    metadata,    \* documents.metadata; a field without a lock has the value Null
    busy,        \* writers that have read and not yet written
    snapshot,    \* the metadata each of them has read
    readTitle,   \* the title each handler among them has read
    want,        \* history: what the user last asked each field to be locked to
    said,        \* history: every lock the user ever asked for
    undone,      \* history: fields whose override a writer put back to an older one
    apart        \* history: fields of which one of column and override was written alone

writerVars == <<busy, snapshot, readTitle>>
historyVars == <<want, said, undone, apart>>
vars == <<column, metadata, writerVars, historyVars>>

Blank == [lockedFields |-> {}, values |-> [f \in Fields |-> Null]]

Init ==
    /\ column = [f \in Fields |-> Null]
    /\ metadata = Blank
    /\ busy = {}
    /\ snapshot = [w \in Writers |-> Blank]
    /\ readTitle = [h \in Handlers |-> Null]
    /\ want = [f \in Fields |-> Free]
    /\ said = {}
    /\ undone = {} /\ apart = {}

-----------------------------------------------------------------------------
Read(w) ==
    /\ w \notin busy
    /\ busy' = busy \union {w}
    /\ snapshot' = [snapshot EXCEPT ![w] = metadata]

Wrote(w) ==
    /\ busy' = busy \ {w}
    /\ snapshot' = [snapshot EXCEPT ![w] = Blank]

\* The overrides that were changed after w had read them.
Stale(w) ==
    {f \in Fields : \/ (f \in snapshot[w].lockedFields) # (f \in metadata.lockedFields)
                   \/ snapshot[w].values[f] # metadata.values[f]}

\* w writes the overrides as it read them but for those of the fields edited, and
\* leaves the columns of hidden ones as they were.
PutsBack(w, edited, hidden) ==
    /\ undone' = (undone \union Stale(w)) \ edited
    /\ apart' = ((apart \union Stale(w)) \ edited) \union hidden

Locked(m, f, v) ==
    [m EXCEPT !.lockedFields = @ \union {f}, !.values[f] = v]
UnlockedUndefined(m, f) ==  \* mutant: the value becomes undefined
    [m EXCEPT !.lockedFields = @ \ {f}, !.values[f] = Free]
Unlocked(m, f) ==
    [m EXCEPT !.lockedFields = @ \ {f}, !.values[f] = Null]

-----------------------------------------------------------------------------
(* updateDocument: read the document, then write it in a transaction.      *)

EditRead(e) ==
    /\ Read(e)
    /\ UNCHANGED <<column, metadata, readTitle, historyVars>>

\* buildManualOverrides. A correspondent set to null gives its lock up.
ManualOverridesAnyNull(m, f, v) == Locked(m, f, v)  \* mutant: null locks it too
ManualOverrides(m, f, v) ==
    IF f = Correspondent /\ v = Null THEN Unlocked(m, f) ELSE Locked(m, f, v)

\* "?? undefined" leaves a text column alone when it is set to null.
EditedColumn(f, v) ==
    IF f \in TextFields /\ v = Null THEN column ELSE [column EXCEPT ![f] = v]

SetField(e, f, v) ==
    /\ "set" \in Edits
    /\ e \in busy
    /\ f # Title
    /\ column' = EditedColumn(f, v)
    /\ metadata' = ManualOverrides(snapshot[e], f, v)
    /\ Wrote(e)
    /\ LET kept == ~(f = Correspondent /\ v = Null) IN
       /\ want' = [want EXCEPT ![f] = IF kept THEN v ELSE Free]
       /\ said' = IF kept THEN said \union {<<f, v>>} ELSE said
    /\ PutsBack(e, {f}, IF f \in TextFields /\ v = Null THEN {f} ELSE {})
    /\ UNCHANGED readTitle

\* clearLockedFields
ClearLock(e, f) ==
    /\ "unlock" \in Edits
    /\ e \in busy
    /\ f # Title
    /\ metadata' = Unlocked(snapshot[e], f)
    /\ Wrote(e)
    /\ want' = [want EXCEPT ![f] = Free]
    /\ PutsBack(e, {f}, {})
    /\ UNCHANGED <<column, readTitle, said>>

\* A title is written to its column and locked nowhere; the rest of the
\* metadata goes back as it was read.
Retitle(e, v) ==
    /\ "title" \in Edits
    /\ e \in busy
    /\ column' = [column EXCEPT ![Title] = v]
    /\ metadata' = snapshot[e]
    /\ Wrote(e)
    /\ PutsBack(e, {}, {})
    /\ UNCHANGED <<readTitle, want, said>>

\* bulkSetDocumentType: one statement, no override.
BulkSet(f, v) ==
    /\ "bulk" \in Edits
    /\ column' = [column EXCEPT ![f] = v]
    /\ apart' = apart \union {f}
    /\ UNCHANGED <<metadata, writerVars, want, said, undone>>

-----------------------------------------------------------------------------
(* processDocument: the first statement reads the column, the transaction  *)
(* at the end writes the fields and replaces the column.                   *)

HandlerRead(h) ==
    /\ Read(h)
    /\ readTitle' = [readTitle EXCEPT ![h] = column[Title]]
    /\ UNCHANGED <<column, metadata, historyVars>>

\* Without an extracted title the title that was read is written back.
WithOverridesTruthy(m, title, x) ==  \* mutant: an override of null is none
    [f \in Fields |->
        IF m.values[f] # Null THEN m.values[f]
        ELSE IF f = Title /\ x[f] = Null THEN title ELSE x[f]]
WithOverrides(m, title, x) ==
    [f \in Fields |->
        IF f \in m.lockedFields
        THEN IF f = Correspondent /\ m.values[f] = Null THEN x[f] ELSE m.values[f]
        ELSE IF f = Title /\ x[f] = Null THEN title ELSE x[f]]

\* buildDocumentMetadata keeps "manual" of the column it replaces, nothing else.
RebuiltFromExtraction(m, x) ==  \* mutant: locks record what was extracted
    [m EXCEPT !.values = [f \in Fields |-> IF f \in m.lockedFields THEN x[f] ELSE Null]]
Rebuilt(m, x) == m

Commit(h, x) ==
    /\ h \in busy
    /\ column' = WithOverrides(snapshot[h], readTitle[h], x)
    /\ metadata' = Rebuilt(snapshot[h], x)
    /\ Wrote(h)
    /\ readTitle' = [readTitle EXCEPT ![h] = Null]
    /\ undone' = undone \union Stale(h)
    /\ apart' = {}
    /\ UNCHANGED <<want, said>>

\* The attempt fails; its failure handlers leave fields and metadata alone.
Abandon(h) ==
    /\ h \in busy
    /\ Wrote(h)
    /\ readTitle' = [readTitle EXCEPT ![h] = Null]
    /\ UNCHANGED <<column, metadata, historyVars>>

-----------------------------------------------------------------------------
(* applyAliasToUnresolvedDocuments selects documents without correspondent *)
(* whose correspondent is not locked, and then updates each by id.         *)

AliasCandidate ==
    column[Correspondent] = Null /\ Correspondent \notin metadata.lockedFields

AliasRead(a) ==
    /\ AliasCandidate
    /\ Read(a)
    /\ UNCHANGED <<column, metadata, readTitle, historyVars>>

AliasWrite(a, v) ==
    /\ a \in busy
    /\ column' = [column EXCEPT ![Correspondent] = v]
    /\ metadata' = snapshot[a]
    /\ Wrote(a)
    /\ PutsBack(a, {}, {})
    /\ UNCHANGED <<readTitle, want, said>>

-----------------------------------------------------------------------------
UserStep ==
    \/ \E e \in Editors :
          \/ EditRead(e)
          \/ \E f \in Fields : ClearLock(e, f) \/ \E v \in Nullable : SetField(e, f, v)
          \/ \E v \in Values : Retitle(e, v)
    \/ \E f \in BulkFields, v \in Nullable : BulkSet(f, v)

MachineStep ==
    \/ \E h \in Handlers :
          HandlerRead(h) \/ Abandon(h) \/ \E x \in [Fields -> Nullable] : Commit(h, x)
    \/ \E a \in Aliasers : AliasRead(a) \/ \E v \in Values : AliasWrite(a, v)

Next == UserStep \/ MachineStep

Spec == Init /\ [][Next]_vars

-----------------------------------------------------------------------------
TypeOK ==
    /\ column \in [Fields -> Nullable]
    /\ metadata \in Metadata
    /\ busy \subseteq Writers
    /\ snapshot \in [Writers -> Metadata]
    /\ readTitle \in [Handlers -> Nullable]
    /\ want \in [Fields -> Nullable \union {Free}]
    /\ said \subseteq Fields \X Nullable
    /\ undone \subseteq Fields /\ apart \subseteq Fields

\* However requests, handlers and alias writers overlap, a lock and its value
\* are ones the user asked for at some time: no writer invents an override.
LocksAreHuman ==
    \A m \in {metadata} \union {snapshot[w] : w \in busy} :
        \A f \in m.lockedFields : <<f, m.values[f]>> \in said

\* The locks are what the user last asked for, through any sequence of edits,
\* unlocks, reprocessing and aliases, but for those a writer that had read older
\* ones put back.
LocksRecordEdits ==
    \A f \in Fields \ ({Title} \union undone) :
        IF want[f] = Free THEN f \notin metadata.lockedFields
        ELSE f \in metadata.lockedFields /\ metadata.values[f] = want[f]

\* What a handler or an alias writer changes of a field the user has locked it
\* changes to what the user set, unless its override was put back to an older one,
\* by this step or before: there is no other way to lose an edit.
EditsLostOnlyToStaleWrites ==
    [][\A f \in Fields \ undone' :
          want[f] # Free /\ column'[f] \notin {column[f], want[f]} => ~MachineStep]_vars

\* "locked override fields survive reprocessing": no exception.
EditsSurvive ==
    [][\A f \in Fields :
          want[f] # Free /\ column'[f] \notin {column[f], want[f]} => ~MachineStep]_vars

\* The document shows the value of every lock after each commit, and from then on
\* but for a field edited in bulk, a text field the user has cleared, which shows its
\* old value, and one whose override an older one replaced.
LockedIsShown ==
    \A f \in metadata.lockedFields \ apart : column[f] = metadata.values[f]
=============================================================================
