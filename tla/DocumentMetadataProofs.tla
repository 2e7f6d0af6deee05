----------------------- MODULE DocumentMetadataProofs -----------------------
(***************************************************************************)
(* Proofs about DocumentMetadata, for any fields, values, edits and any    *)
(* number of writers, however they overlap.                                *)
(*                                                                         *)
(* A writer replaces the overrides by those it has read. Where the two     *)
(* agree (AsRead) its write changes what the user asks for and nothing     *)
(* else; every other field it puts back is in "undone" from then on.       *)
(***************************************************************************)
EXTENDS DocumentMetadata, TLAPS

\* The override of f is as w has read it.
AsRead(w, f) ==
    /\ f \in snapshot[w].lockedFields <=> f \in metadata.lockedFields
    /\ snapshot[w].values[f] = metadata.values[f]

\* An alias writer in flight found the correspondent unlocked.
AliasersFoundItFree ==
    \A a \in Aliasers \intersect busy : Correspondent \notin snapshot[a].lockedFields

\* The user never asks for a lock of a title or of an empty correspondent.
Askable ==
    /\ want[Title] = Free /\ want[Correspondent] # Null
    /\ \A v \in Nullable : <<Title, v>> \notin said
    /\ <<Correspondent, Null>> \notin said

IInv ==
    /\ TypeOK /\ LocksAreHuman
    /\ AliasersFoundItFree /\ Askable
    /\ LocksRecordEdits /\ LockedIsShown

LEMMA InitIInv == Init => IInv
  BY FieldsAssumption, ValuesAssumption
  DEF Init, IInv, TypeOK, LocksAreHuman, AliasersFoundItFree, Askable, LocksRecordEdits, LockedIsShown, Blank, Metadata, Nullable, Writers

LEMMA NextTypeOK == TypeOK /\ [Next]_vars => TypeOK'
<1> SUFFICES ASSUME TypeOK, [Next]_vars PROVE TypeOK'
  OBVIOUS
<1> USE FieldsAssumption, ValuesAssumption
    DEF TypeOK, Metadata, Nullable, Writers, Blank, Wrote, Read, PutsBack, Stale, writerVars,
        historyVars
<1>1. ASSUME NEW e \in Editors, EditRead(e) PROVE TypeOK'
  BY <1>1 DEF EditRead
<1>2. ASSUME NEW e \in Editors, NEW f \in Fields, ClearLock(e, f) PROVE TypeOK'
  BY <1>2 DEF ClearLock, Unlocked
<1>3. ASSUME NEW e \in Editors, NEW f \in Fields, NEW v \in Nullable, SetField(e, f, v)
      PROVE TypeOK'
  <2>1. ManualOverrides(snapshot[e], f, v) \in Metadata
    BY <1>3 DEF SetField, ManualOverrides, Locked, Unlocked
  <2>2. EditedColumn(f, v) \in [Fields -> Nullable]
    BY DEF EditedColumn
  <2>3. CASE f = Correspondent /\ v = Null
    BY <1>3, <2>1, <2>2, <2>3 DEF SetField
  <2>4. CASE ~(f = Correspondent /\ v = Null)
    <3>1. want' = [want EXCEPT ![f] = v] /\ said' = said \union {<<f, v>>}
      BY <1>3, <2>4 DEF SetField
    <3>2. want' \in [Fields -> Nullable \union {Free}] /\ said' \subseteq Fields \X Nullable
      BY <3>1
    <3> QED
      BY <1>3, <2>1, <2>2, <3>2 DEF SetField
  <2> QED
    BY <2>3, <2>4
<1>4. ASSUME NEW e \in Editors, NEW v \in Values, Retitle(e, v) PROVE TypeOK'
  BY <1>4 DEF Retitle
<1>5. ASSUME NEW f \in BulkFields, NEW v \in Nullable, BulkSet(f, v) PROVE TypeOK'
  BY <1>5 DEF BulkSet
<1>6. ASSUME NEW h \in Handlers, HandlerRead(h) \/ Abandon(h) PROVE TypeOK'
  <2>1. CASE HandlerRead(h)
    BY <2>1 DEF HandlerRead
  <2>2. CASE Abandon(h)
    BY <2>2 DEF Abandon
  <2> QED
    BY <1>6, <2>1, <2>2
<1>7. ASSUME NEW h \in Handlers, NEW x \in [Fields -> Nullable], Commit(h, x) PROVE TypeOK'
  <2>1. snapshot[h] \in Metadata /\ readTitle[h] \in Nullable
    OBVIOUS
  <2>2. WithOverrides(snapshot[h], readTitle[h], x) \in [Fields -> Nullable]
    BY <2>1 DEF WithOverrides
  <2>3. Rebuilt(snapshot[h], x) \in Metadata
    BY <2>1 DEF Rebuilt
  <2> QED
    BY <1>7, <2>2, <2>3 DEF Commit
<1>8. ASSUME NEW a \in Aliasers, AliasRead(a) PROVE TypeOK'
  BY <1>8 DEF AliasRead
<1>9. ASSUME NEW a \in Aliasers, NEW v \in Values, AliasWrite(a, v) PROVE TypeOK'
  BY <1>9 DEF AliasWrite
<1>10. CASE UNCHANGED vars
  BY <1>10 DEF vars
<1> QED
  BY <1>1, <1>2, <1>3, <1>4, <1>5, <1>6, <1>7, <1>8, <1>9, <1>10
  DEF Next, UserStep, MachineStep

\* A metadata value holds only locks the user asked for.
Human(m, asked) == \A f \in m.lockedFields : <<f, m.values[f]>> \in asked

LEMMA NextLocksAreHuman ==
  TypeOK /\ LocksAreHuman /\ [Next]_vars => LocksAreHuman'
<1> SUFFICES ASSUME TypeOK, LocksAreHuman, [Next]_vars
             PROVE  Human(metadata', said') /\ \A w \in busy' : Human(snapshot'[w], said')
  BY DEF LocksAreHuman, Human
<1> DEFINE Goal == Human(metadata', said') /\ \A w \in busy' : Human(snapshot'[w], said')
<1>0. Human(metadata, said) /\ \A w \in busy : Human(snapshot[w], said)
  BY DEF LocksAreHuman, Human
<1>a. /\ metadata \in Metadata
      /\ snapshot \in [Writers -> Metadata]
      /\ busy \subseteq Writers
  BY DEF TypeOK
<1>b. ASSUME NEW w \in Writers, Read(w), metadata' = metadata, said' = said PROVE Goal
  BY <1>0, <1>a, <1>b DEF Read, Human
<1>c. ASSUME NEW w \in Writers, Wrote(w), Human(metadata', said'), said \subseteq said' PROVE Goal
  BY <1>0, <1>a, <1>c DEF Wrote, Human
<1>1. ASSUME NEW e \in Editors, EditRead(e) PROVE Goal
  BY <1>1, <1>b DEF EditRead, Writers, historyVars
<1>2. ASSUME NEW e \in Editors, NEW f \in Fields, ClearLock(e, f) PROVE Goal
  <2>1. Human(metadata', said')
    BY <1>0, <1>a, <1>2 DEF ClearLock, Unlocked, Human, Metadata, Writers
  <2> QED
    BY <1>2, <1>c, <2>1 DEF ClearLock, Writers
<1>3. ASSUME NEW e \in Editors, NEW f \in Fields, NEW v \in Nullable, SetField(e, f, v)
      PROVE Goal
  <2>1. CASE f = Correspondent /\ v = Null
    <3>1. said' = said /\ metadata' = Unlocked(snapshot[e], f)
      BY <1>3, <2>1 DEF SetField, ManualOverrides
    <3>2. Human(metadata', said')
      BY <1>0, <1>a, <1>3, <3>1 DEF SetField, Unlocked, Human, Metadata, Writers
    <3> QED
      BY <1>3, <1>c, <3>1, <3>2 DEF SetField, Writers
  <2>2. CASE ~(f = Correspondent /\ v = Null)
    <3>1. said' = said \union {<<f, v>>} /\ metadata' = Locked(snapshot[e], f, v)
      BY <1>3, <2>2 DEF SetField, ManualOverrides
    <3>2. Human(metadata', said')
      BY <1>0, <1>a, <1>3, <3>1 DEF SetField, Locked, Human, Metadata, Writers
    <3> QED
      BY <1>3, <1>c, <3>1, <3>2 DEF SetField, Writers
  <2> QED
    BY <2>1, <2>2
<1>4. ASSUME NEW e \in Editors, NEW v \in Values, Retitle(e, v) PROVE Goal
  BY <1>0, <1>4, <1>c DEF Retitle, Writers
<1>5. ASSUME NEW f \in BulkFields, NEW v \in Nullable, BulkSet(f, v) PROVE Goal
  BY <1>0, <1>5 DEF BulkSet, writerVars
<1>6. ASSUME NEW h \in Handlers, HandlerRead(h) PROVE Goal
  BY <1>6, <1>b DEF HandlerRead, Writers, historyVars
<1>7. ASSUME NEW h \in Handlers, NEW x \in [Fields -> Nullable], Commit(h, x) PROVE Goal
  <2>1. Human(metadata', said')
    BY <1>0, <1>a, <1>7 DEF Commit, Rebuilt, Human, Metadata, Writers
  <2> QED
    BY <1>7, <1>c, <2>1 DEF Commit, Writers
<1>8. ASSUME NEW h \in Handlers, Abandon(h) PROVE Goal
  BY <1>0, <1>8, <1>c DEF Abandon, Writers, historyVars
<1>9. ASSUME NEW a \in Aliasers, AliasRead(a) PROVE Goal
  BY <1>9, <1>b DEF AliasRead, Writers, historyVars
<1>10. ASSUME NEW a \in Aliasers, NEW v \in Values, AliasWrite(a, v) PROVE Goal
  BY <1>0, <1>10, <1>c DEF AliasWrite, Writers
<1>11. CASE UNCHANGED vars
  BY <1>0, <1>11 DEF vars, writerVars, historyVars
<1> QED
  BY <1>1, <1>2, <1>3, <1>4, <1>5, <1>6, <1>7, <1>8, <1>9, <1>10, <1>11
  DEF Next, UserStep, MachineStep

-----------------------------------------------------------------------------
LEMMA NextAskable == TypeOK /\ Askable /\ [Next]_vars => Askable'
<1> SUFFICES ASSUME TypeOK, Askable, [Next]_vars PROVE Askable'
  OBVIOUS
<1> USE FieldsAssumption, ValuesAssumption DEF Askable
<1>1. CASE UNCHANGED <<want, said>>
  BY <1>1
<1>2. ASSUME NEW e \in Editors, NEW f \in Fields, NEW v \in Nullable, SetField(e, f, v)
      PROVE  Askable'
  <2>1. f # Title /\ want \in [Fields -> Nullable \union {Free}]
    BY <1>2 DEF SetField, TypeOK
  <2>2. CASE f = Correspondent /\ v = Null
    BY <1>2, <2>1, <2>2 DEF SetField
  <2>3. CASE ~(f = Correspondent /\ v = Null)
    BY <1>2, <2>1, <2>3 DEF SetField
  <2> QED
    BY <2>2, <2>3
<1>3. ASSUME NEW e \in Editors, NEW f \in Fields, ClearLock(e, f) PROVE Askable'
  BY <1>3 DEF ClearLock, TypeOK
<1> QED
  BY <1>1, <1>2, <1>3
  DEF Next, UserStep, MachineStep, EditRead, Retitle, BulkSet, HandlerRead, Commit, Abandon,
      AliasRead, AliasWrite, vars, historyVars

LEMMA NextAliasers ==
  TypeOK /\ AliasersFoundItFree /\ [Next]_vars => AliasersFoundItFree'
<1> SUFFICES ASSUME TypeOK, AliasersFoundItFree, [Next]_vars PROVE AliasersFoundItFree'
  OBVIOUS
<1>a. snapshot \in [Writers -> Metadata] /\ busy \subseteq Writers
  BY DEF TypeOK
<1>1. ASSUME NEW w \in Writers, Read(w), w \in Aliasers => Correspondent \notin metadata.lockedFields
      PROVE  AliasersFoundItFree'
  BY <1>a, <1>1 DEF Read, AliasersFoundItFree, Writers
<1>2. ASSUME NEW w \in Writers, Wrote(w) PROVE AliasersFoundItFree'
  BY <1>a, <1>2 DEF Wrote, AliasersFoundItFree, Writers
<1>3. ASSUME NEW e \in Editors, EditRead(e) PROVE AliasersFoundItFree'
  BY <1>1, <1>3, WritersAssumption DEF EditRead, Writers
<1>4. ASSUME NEW h \in Handlers, HandlerRead(h) PROVE AliasersFoundItFree'
  BY <1>1, <1>4, WritersAssumption DEF HandlerRead, Writers
<1>5. ASSUME NEW a \in Aliasers, AliasRead(a) PROVE AliasersFoundItFree'
  BY <1>1, <1>5 DEF AliasRead, AliasCandidate, Writers
<1>6. CASE UNCHANGED writerVars
  BY <1>6 DEF writerVars, AliasersFoundItFree
<1>7. ASSUME NEW w \in Editors,
             \/ \E f \in Fields : ClearLock(w, f) \/ \E v \in Nullable : SetField(w, f, v)
             \/ \E v \in Values : Retitle(w, v)
      PROVE  AliasersFoundItFree'
  BY <1>2, <1>7 DEF ClearLock, SetField, Retitle, Writers
<1>8. ASSUME NEW w \in Handlers, Abandon(w) \/ \E x \in [Fields -> Nullable] : Commit(w, x)
      PROVE  AliasersFoundItFree'
  BY <1>2, <1>8 DEF Abandon, Commit, Writers
<1>9. ASSUME NEW w \in Aliasers, NEW v \in Values, AliasWrite(w, v) PROVE AliasersFoundItFree'
  BY <1>2, <1>9 DEF AliasWrite, Writers
<1> QED
  BY <1>3, <1>4, <1>5, <1>6, <1>7, <1>8, <1>9 DEF Next, UserStep, MachineStep, BulkSet, vars

-----------------------------------------------------------------------------
\* An override that is not put back to an older one is as the writer has read it.
LEMMA NotStale ==
  ASSUME NEW w \in Writers, NEW f \in Fields, f \notin Stale(w)
  PROVE  AsRead(w, f)
BY DEF Stale, AsRead

\* A lock and its value in one copy of the overrides are those in another.
Agree(m, n, f) == (f \in m.lockedFields <=> f \in n.lockedFields) /\ m.values[f] = n.values[f]

\* Each write changes the overrides of the fields edited and those put back.
LEMMA NextLocksRecordEdits ==
  TypeOK /\ Askable /\ LocksRecordEdits /\ [Next]_vars => LocksRecordEdits'
<1> SUFFICES ASSUME TypeOK, Askable, LocksRecordEdits, [Next]_vars,
                    NEW f \in Fields \ ({Title} \union undone')
             PROVE  IF want'[f] = Free THEN f \notin metadata'.lockedFields
                    ELSE f \in metadata'.lockedFields /\ metadata'.values[f] = want'[f]
  BY DEF LocksRecordEdits
<1> DEFINE Goal == IF want'[f] = Free THEN f \notin metadata'.lockedFields
                   ELSE f \in metadata'.lockedFields /\ metadata'.values[f] = want'[f]
<1>a. /\ metadata \in Metadata /\ snapshot \in [Writers -> Metadata]
      /\ want \in [Fields -> Nullable \union {Free}] /\ Free \notin Nullable
  BY ValuesAssumption DEF TypeOK, Nullable
<1>1. ASSUME f \notin undone, want'[f] = want[f], Agree(metadata', metadata, f) PROVE Goal
  BY <1>1 DEF LocksRecordEdits, Agree
<1>2. ASSUME NEW w \in Writers, f \notin undone \union Stale(w), want'[f] = want[f],
             Agree(metadata', snapshot[w], f)
      PROVE  Goal
  BY <1>1, <1>2, NotStale DEF AsRead, Agree
<1>3. CASE UNCHANGED <<metadata, want, undone>>
  BY <1>1, <1>3 DEF Agree
<1>4. ASSUME NEW e \in Editors, NEW g \in Fields, ClearLock(e, g) PROVE Goal
  <2>1. /\ metadata' = Unlocked(snapshot[e], g) /\ want' = [want EXCEPT ![g] = Free]
        /\ undone' = (undone \union Stale(e)) \ {g} /\ e \in Writers
    BY <1>4 DEF ClearLock, PutsBack, Writers
  <2>2. CASE f = g
    BY <1>a, <2>1, <2>2 DEF Unlocked, Metadata
  <2>3. CASE f # g
    BY <1>2, <1>a, <2>1, <2>3 DEF Unlocked, Metadata, Agree
  <2> QED
    BY <2>2, <2>3
<1>5. ASSUME NEW e \in Editors, NEW g \in Fields, NEW v \in Nullable, SetField(e, g, v) PROVE Goal
  <2>1. undone' = (undone \union Stale(e)) \ {g} /\ e \in Writers
    BY <1>5 DEF SetField, PutsBack, Writers
  <2>2. CASE g = Correspondent /\ v = Null
    <3>1. metadata' = Unlocked(snapshot[e], g) /\ want' = [want EXCEPT ![g] = Free]
      BY <1>5, <2>2 DEF SetField, ManualOverrides
    <3>2. CASE f = g
      BY <1>a, <2>1, <3>1, <3>2 DEF Unlocked, Metadata
    <3>3. CASE f # g
      BY <1>2, <1>a, <2>1, <3>1, <3>3 DEF Unlocked, Metadata, Agree
    <3> QED
      BY <3>2, <3>3
  <2>3. CASE ~(g = Correspondent /\ v = Null)
    <3>1. metadata' = Locked(snapshot[e], g, v) /\ want' = [want EXCEPT ![g] = v]
      BY <1>5, <2>3 DEF SetField, ManualOverrides
    <3>2. CASE f = g
      BY <1>a, <2>1, <3>1, <3>2 DEF Locked, Metadata
    <3>3. CASE f # g
      BY <1>2, <1>a, <2>1, <3>1, <3>3 DEF Locked, Metadata, Agree
    <3> QED
      BY <3>2, <3>3
  <2> QED
    BY <2>2, <2>3
<1>6. ASSUME NEW e \in Editors, NEW v \in Values, Retitle(e, v) PROVE Goal
  BY <1>2, <1>6 DEF Retitle, PutsBack, Agree, Writers
<1>7. ASSUME NEW h \in Handlers, NEW x \in [Fields -> Nullable], Commit(h, x) PROVE Goal
  BY <1>2, <1>7 DEF Commit, Rebuilt, Agree, Writers
<1>8. ASSUME NEW a \in Aliasers, NEW v \in Values, AliasWrite(a, v) PROVE Goal
  BY <1>2, <1>8 DEF AliasWrite, PutsBack, Agree, Writers
<1> QED
  BY <1>3, <1>4, <1>5, <1>6, <1>7, <1>8
  DEF Next, UserStep, MachineStep, EditRead, BulkSet, HandlerRead, Abandon, AliasRead, vars,
      historyVars

\* The user's locks are never of a title, and none of a correspondent is empty.
LEMMA LocksAreAskable ==
  ASSUME TypeOK, LocksAreHuman, Askable, NEW m \in {metadata} \union {snapshot[w] : w \in busy}
  PROVE  /\ Title \notin m.lockedFields
         /\ Correspondent \in m.lockedFields => m.values[Correspondent] # Null
<1>1. m \in Metadata
  BY DEF TypeOK
<1>2. \A f \in m.lockedFields : <<f, m.values[f]>> \in said /\ m.values[f] \in Nullable
  BY <1>1 DEF LocksAreHuman, Metadata
<1> QED
  BY <1>2 DEF Askable

LEMMA NextLockedIsShown ==
  ASSUME TypeOK, LocksAreHuman, Askable, AliasersFoundItFree, LockedIsShown, [Next]_vars
  PROVE  LockedIsShown'
<1> SUFFICES ASSUME NEW f \in metadata'.lockedFields \ apart'
             PROVE  column'[f] = metadata'.values[f]
  BY DEF LockedIsShown
<1> DEFINE Goal == column'[f] = metadata'.values[f]
<1>a. /\ metadata \in Metadata /\ snapshot \in [Writers -> Metadata]
      /\ column \in [Fields -> Nullable] /\ busy \subseteq Writers
      /\ {Title, Correspondent} \subseteq Fields
  BY FieldsAssumption DEF TypeOK
<1>1. ASSUME f \notin apart, column'[f] = column[f], Agree(metadata', metadata, f) PROVE Goal
  BY <1>1 DEF LockedIsShown, Agree
<1>2. ASSUME NEW w \in Writers, f \in Fields, f \notin apart \union Stale(w),
             column'[f] = column[f], Agree(metadata', snapshot[w], f)
      PROVE  Goal
  BY <1>1, <1>2, NotStale DEF AsRead, Agree
<1>3. CASE UNCHANGED <<column, metadata, apart>>
  BY <1>1, <1>3 DEF Agree
<1>4. ASSUME NEW e \in Editors, NEW g \in Fields, ClearLock(e, g) PROVE Goal
  <2>1. /\ metadata' = Unlocked(snapshot[e], g) /\ column' = column
        /\ apart' = ((apart \union Stale(e)) \ {g}) \union {} /\ e \in Writers
    BY <1>4 DEF ClearLock, PutsBack, Writers
  <2>2. f \in Fields /\ f # g
    BY <1>a, <2>1 DEF Unlocked, Metadata
  <2> QED
    BY <1>2, <1>a, <2>1, <2>2 DEF Unlocked, Metadata, Agree
<1>5. ASSUME NEW e \in Editors, NEW g \in Fields, NEW v \in Nullable, SetField(e, g, v) PROVE Goal
  <2>1. /\ apart' = ((apart \union Stale(e)) \ {g})
                      \union (IF g \in TextFields /\ v = Null THEN {g} ELSE {})
        /\ e \in Writers /\ column' = EditedColumn(g, v)
    BY <1>5 DEF SetField, PutsBack, Writers
  <2>2. \A k \in Fields \ {g} : column'[k] = column[k]
    BY <1>a, <2>1 DEF EditedColumn
  <2>3. CASE g = Correspondent /\ v = Null
    <3>1. metadata' = Unlocked(snapshot[e], g)
      BY <1>5, <2>3 DEF SetField, ManualOverrides
    <3>2. f \in Fields /\ f # g
      BY <1>a, <2>1, <3>1 DEF Unlocked, Metadata
    <3> QED
      BY <1>2, <1>a, <2>1, <2>2, <3>1, <3>2 DEF Unlocked, Metadata, Agree
  <2>4. CASE ~(g = Correspondent /\ v = Null)
    <3>1. metadata' = Locked(snapshot[e], g, v)
      BY <1>5, <2>4 DEF SetField, ManualOverrides
    <3>2. f \in Fields
      BY <1>a, <2>1, <3>1 DEF Locked, Metadata
    <3>3. CASE f = g
      BY <1>a, <2>1, <3>1, <3>3 DEF Locked, Metadata, EditedColumn
    <3>4. CASE f # g
      BY <1>2, <1>a, <2>1, <2>2, <3>1, <3>2, <3>4 DEF Locked, Metadata, Agree
    <3> QED
      BY <3>3, <3>4
  <2> QED
    BY <2>3, <2>4
<1>6. ASSUME NEW e \in Editors, NEW v \in Values, Retitle(e, v) PROVE Goal
  <2>1. /\ metadata' = snapshot[e] /\ column' = [column EXCEPT ![Title] = v]
        /\ apart' = ((apart \union Stale(e)) \ {}) \union {} /\ e \in Writers /\ e \in busy
    BY <1>6 DEF Retitle, PutsBack, Writers
  <2>2. f \in Fields /\ f # Title
    BY <1>a, <2>1, LocksAreAskable DEF Metadata
  <2> QED
    BY <1>2, <1>a, <2>1, <2>2 DEF Agree
<1>7. ASSUME NEW g \in BulkFields, NEW v \in Nullable, BulkSet(g, v) PROVE Goal
  BY <1>1, <1>7, <1>a DEF BulkSet, Agree, Metadata
<1>8. ASSUME NEW h \in Handlers, NEW x \in [Fields -> Nullable], Commit(h, x) PROVE Goal
  <2>1. /\ metadata' = snapshot[h] /\ column' = WithOverrides(snapshot[h], readTitle[h], x)
        /\ h \in busy
    BY <1>8 DEF Commit, Rebuilt
  <2>2. f \in Fields /\ ~(f = Correspondent /\ snapshot[h].values[f] = Null)
    BY <1>a, <2>1, LocksAreAskable DEF Metadata
  <2> QED
    BY <2>1, <2>2 DEF WithOverrides
<1>9. ASSUME NEW a \in Aliasers, NEW v \in Values, AliasWrite(a, v) PROVE Goal
  <2>1. /\ metadata' = snapshot[a] /\ column' = [column EXCEPT ![Correspondent] = v]
        /\ apart' = ((apart \union Stale(a)) \ {}) \union {} /\ a \in Writers /\ a \in busy
    BY <1>9 DEF AliasWrite, PutsBack, Writers
  <2>2. f \in Fields /\ f # Correspondent
    BY <1>a, <2>1 DEF AliasersFoundItFree, Metadata
  <2> QED
    BY <1>2, <1>a, <2>1, <2>2 DEF Agree
<1> QED
  BY <1>3, <1>4, <1>5, <1>6, <1>7, <1>8, <1>9
  DEF Next, UserStep, MachineStep, EditRead, HandlerRead, Abandon, AliasRead, vars, historyVars

\* A commit writes the user's value, an alias writer leaves a locked correspondent.
LEMMA MachineKeepsEdits ==
  ASSUME TypeOK, AliasersFoundItFree, Askable, LocksRecordEdits, MachineStep,
         NEW f \in Fields \ undone', want[f] # Free, column'[f] \notin {column[f], want[f]}
  PROVE  FALSE
<1>1. f # Title
  BY DEF Askable
<1>2. ASSUME NEW w \in Writers, f \notin undone \union Stale(w)
      PROVE  f \in snapshot[w].lockedFields /\ snapshot[w].values[f] = want[f]
  BY <1>1, <1>2, NotStale DEF LocksRecordEdits, AsRead
<1>3. ASSUME NEW h \in Handlers, NEW x \in [Fields -> Nullable], Commit(h, x) PROVE FALSE
  <2>1. column' = WithOverrides(snapshot[h], readTitle[h], x)
    BY <1>3 DEF Commit
  <2>2. f \in snapshot[h].lockedFields /\ snapshot[h].values[f] = want[f]
    BY <1>2, <1>3 DEF Commit, Writers
  <2> QED
    BY <2>1, <2>2 DEF WithOverrides, Askable
<1>4. ASSUME NEW a \in Aliasers, NEW v \in Values, AliasWrite(a, v) PROVE FALSE
  <2>1. column' = [column EXCEPT ![Correspondent] = v] /\ a \in busy
    BY <1>4 DEF AliasWrite
  <2>2. f \in snapshot[a].lockedFields
    BY <1>2, <1>4 DEF AliasWrite, PutsBack, Writers
  <2> QED
    BY <2>1, <2>2 DEF AliasersFoundItFree, TypeOK
<1> QED
  BY <1>3, <1>4 DEF MachineStep, HandlerRead, Abandon, AliasRead

-----------------------------------------------------------------------------
LEMMA Invariance == Spec => []IInv
<1>1. IInv /\ [Next]_vars => IInv'
  BY NextTypeOK, NextLocksAreHuman, NextAskable, NextAliasers, NextLocksRecordEdits,
     NextLockedIsShown DEF IInv
<1> QED
  BY InitIInv, <1>1, PTL DEF Spec

\* Every variable keeps its type: metadata never gets a shape it cannot be read in.
THEOREM TypeCorrect == Spec => []TypeOK
<1>1. IInv => TypeOK
  BY DEF IInv
<1> QED
  BY Invariance, <1>1, PTL

\* However many writers overlap, no override exists that the user did not ask for.
THEOREM LocksHuman == Spec => []LocksAreHuman
<1>1. IInv => LocksAreHuman
  BY DEF IInv
<1> QED
  BY Invariance, <1>1, PTL

\* However many writers overlap, the locks are at all times what the user last asked
\* for, but for those a writer that had read older ones put back.
THEOREM LocksExact == Spec => []LocksRecordEdits
<1>1. IInv => LocksRecordEdits
  BY DEF IInv
<1> QED
  BY Invariance, <1>1, PTL

\* However many writers overlap, a document shows its locks after each commit, and
\* until a bulk edit, a cleared text field or a writer with older overrides.
THEOREM LocksShown == Spec => []LockedIsShown
<1>1. IInv => LockedIsShown
  BY DEF IInv
<1> QED
  BY Invariance, <1>1, PTL

\* However many writers overlap, reprocessing and learned aliases change a field the
\* user has locked to nothing else, unless its override was put back to an older one.
THEOREM EditsKept == Spec => EditsLostOnlyToStaleWrites
<1>1. IInv => [\A f \in Fields \ undone' :
         want[f] # Free /\ column'[f] \notin {column[f], want[f]} => ~MachineStep]_vars
  BY MachineKeepsEdits DEF IInv
<1> QED
  BY Invariance, <1>1, PTL DEF EditsLostOnlyToStaleWrites
=============================================================================
