-------------------------- MODULE WatchFolderProofs --------------------------
(* Proofs about WatchFolder, for any profiles, paths, contents and bounds. *)
EXTENDS WatchFolder, TLAPS

USE NoneAssumption, BoundsAssumption DEF Never

-----------------------------------------------------------------------------
(* Types.                                                                  *)

(* trimByAge leaves an age for each key. *)
LEMMA TouchType ==
    ASSUME NEW S, NEW ages \in [S -> Nat], NEW k \in S, NEW n \in Nat
    PROVE  Touch(ages, k, n) \in [S -> Nat]
BY DEF Touch

(* What trimByAge keeps was there before, or is what was just added. *)
LEMMA TouchKeeps ==
    ASSUME NEW S, NEW ages \in [S -> Nat], NEW k \in S, NEW n \in Nat
    PROVE  \A j \in S : Touch(ages, k, n)[j] # Never => j = k \/ ages[j] # Never
BY DEF Touch

(* A store without checkpoints. *)
LEMMA ForgottenIsStore == Forgotten \in Stores
BY DEF Forgotten, Stores

(* The entry being over, the pass goes to the next with its profile. *)
LEMMA NextEntryType ==
    ASSUME TypeOK, pass.at # "idle"
    PROVE  /\ NextEntry \in Passes
           /\ NextEntry.at = "next" /\ NextEntry.profile = pass.profile
BY DEF TypeOK, NextEntry, Passes, PassSteps

(* Giving up keeps the maps of the paths in their types. *)
LEMMA GiveUpType ==
    ASSUME TypeOK, NEW f \in Paths, GiveUp(f)
    PROVE  attempts' \in [Paths -> 0..(MaxAttempts - 1)] /\ abandoned' \in [Paths -> Nat]
<1>1. 0 \in 0..(MaxAttempts - 1)
  OBVIOUS
<1>2. pass.stamp \in Nat
  BY DEF TypeOK, Passes
<1> QED
  BY <1>1, <1>2 DEF TypeOK, GiveUp

(* A checkpoint leaves stores of the profiles. *)
LEMMA CheckpointType ==
    ASSUME TypeOK, Checkpoint
    PROVE  memory' \in [Profiles -> Stores]
<1> DEFINE p == pass.profile
           f == pass.path
           ages == Touch(memory[p].ages, f, MaxPrints)
           sums == Touch(memory[p].sums, pass.content, MaxSums)
           stamps == [g \in Paths |-> IF g = f THEN pass.stamp
                                      ELSE IF ages[g] = Never THEN Never
                                      ELSE memory[p].stamps[g]]
<1>1. p \in Profiles /\ f \in Paths /\ pass.content \in Contents /\ pass.stamp \in Nat
  BY DEF TypeOK, Checkpoint, CheckpointAs, Passes, PassSteps
<1>2. memory[p] \in Stores
  BY <1>1 DEF TypeOK
<1>3. memory[p].ages \in [Paths -> Nat] /\ memory[p].sums \in [Contents -> Nat]
          /\ memory[p].stamps \in [Paths -> Nat]
  BY <1>2 DEF Stores
<1>4. ages \in [Paths -> Nat] /\ sums \in [Contents -> Nat]
  BY <1>1, <1>3, TouchType
<1>5. stamps \in [Paths -> Nat]
  BY <1>1, <1>3, <1>4
<1>6. [ages |-> ages, stamps |-> stamps, sums |-> sums] \in Stores
  BY <1>4, <1>5 DEF Stores
<1>7. memory' = [memory EXCEPT ![p] = [ages |-> ages, stamps |-> stamps, sums |-> sums]]
  BY DEF Checkpoint, CheckpointAs
<1> QED
  BY <1>6, <1>7 DEF TypeOK

(* The types of what a step of the pass leaves alone, or changes only by Save. *)
LEMMA StartPassType == TypeOK /\ StartPass => TypeOK'
<1> SUFFICES ASSUME TypeOK, StartPass PROVE TypeOK'
  OBVIOUS
<1>1. NoPass \in Passes
  BY DEF NoPass, Passes, PassSteps
<1>2. {f \in Paths : file[f] # NoFile} \in SUBSET Paths /\ connected \in Profiles
  BY DEF TypeOK, StartPass
<1>3. pass' \in Passes /\ pass'.at = "next" /\ pass'.profile \in Profiles
  BY <1>1, <1>2 DEF StartPass, Passes, PassSteps
<1> QED
  BY <1>3 DEF TypeOK, StartPass, OutsideStore, storeVars, pathVars

LEMMA TakeEntryType == TypeOK /\ TakeEntry => TypeOK'
<1> SUFFICES ASSUME TypeOK, TakeEntry PROVE TypeOK'
  OBVIOUS
<1>1. PICK f \in pass.left :
        pass' = [pass EXCEPT !.at = "stat", !.path = f, !.left = @ \ {f}]
  BY DEF TakeEntry
<1>2. f \in Paths /\ pass.left \ {f} \in SUBSET Paths /\ pass \in Passes
          /\ pass.profile \in Profiles
  BY DEF TypeOK, TakeEntry, Passes
<1>3. pass' \in Passes /\ pass'.at = "stat" /\ pass'.profile \in Profiles /\ pass'.path \in Paths
  BY <1>1, <1>2 DEF Passes, PassSteps
<1> QED
  BY <1>3 DEF TypeOK, TakeEntry, OutsideStore, storeVars, pathVars

LEMMA EndPassType == TypeOK /\ EndPass => TypeOK'
BY DEF TypeOK, EndPass, Passes, PassSteps, NoPass, OutsideStore, storeVars, pathVars

LEMMA StatType == TypeOK /\ Stat => TypeOK'
<1> SUFFICES ASSUME TypeOK, Stat PROVE TypeOK'
  OBVIOUS
<1>1. pass.path \in Paths /\ pass.profile \in Profiles /\ pass \in Passes
  BY DEF TypeOK, Stat
<1>2. NextEntry \in Passes /\ NextEntry.at = "next" /\ NextEntry.profile = pass.profile
  BY NextEntryType DEF Stat
<1>3. observed' \in [Paths -> Nat]
  <2>1. observed \in [Paths -> Nat] /\ file[pass.path].stamp \in Nat
    BY <1>1 DEF TypeOK
  <2>2. \/ observed' = observed
        \/ observed' = [observed EXCEPT ![pass.path] = Never]
        \/ observed' = [observed EXCEPT ![pass.path] = file[pass.path].stamp]
    BY DEF Stat
  <2> QED
    BY <1>1, <2>1, <2>2 DEF Never
<1>4. /\ pass' \in Passes
      /\ pass'.at # "idle" => pass'.profile \in Profiles
      /\ pass'.at \notin {"idle", "next"} => pass'.path \in Paths
      /\ pass'.at \notin {"post", "created", "checkpoint"}
  <2>1. CASE pass' = NextEntry
    BY <1>1, <1>2, <2>1
  <2>2. CASE pass' # NextEntry
    <3>1. file[pass.path].stamp \in Nat
      BY <1>1 DEF TypeOK
    <3>2. pass' = [pass EXCEPT !.stamp = file[pass.path].stamp,
                               !.live = (connected = pass.profile),
                               !.at = IF connected = pass.profile THEN "read" ELSE "retry"]
      BY <2>2 DEF Stat
    <3> QED
      BY <1>1, <3>1, <3>2 DEF Passes, PassSteps
  <2> QED
    BY <2>1, <2>2
<1> QED
  BY <1>3, <1>4 DEF TypeOK, Stat, OutsideStore, storeVars

LEMMA ReadType == TypeOK /\ Read => TypeOK'
<1> SUFFICES ASSUME TypeOK, Read PROVE TypeOK'
  OBVIOUS
<1>1. pass.path \in Paths /\ pass.profile \in Profiles /\ pass \in Passes
  BY DEF TypeOK, Read
<1>2. file[pass.path] # NoFile => file[pass.path].content \in Contents
  BY <1>1 DEF TypeOK
<1>3. /\ pass' \in Passes
      /\ pass'.profile = pass.profile /\ pass'.path = pass.path
      /\ pass'.at \in {"post", "created", "checkpoint"} => pass'.content \in Contents
  BY <1>1, <1>2 DEF Read, Goto, Passes, PassSteps
<1> QED
  BY <1>1, <1>3 DEF TypeOK, Read, OutsideStore, storeVars, pathVars

LEMMA AcceptType == TypeOK /\ Accept => TypeOK'
<1> SUFFICES ASSUME TypeOK, Accept PROVE TypeOK'
  OBVIOUS
<1>1. docs' \in [Profiles -> [Contents -> 0..Many]]
  BY DEF TypeOK, Accept
<1>2. /\ pass' \in Passes /\ pass'.profile = pass.profile /\ pass'.path = pass.path
      /\ pass'.content = pass.content
  BY DEF TypeOK, Accept, Goto, Passes, PassSteps
<1> QED
  BY <1>1, <1>2 DEF TypeOK, Accept, storeVars, pathVars

LEMMA ConfirmType == TypeOK /\ Confirm => TypeOK'
BY DEF TypeOK, Confirm, Goto, Passes, PassSteps, OutsideStore, storeVars, pathVars

LEMMA UploadFailsType == TypeOK /\ UploadFails => TypeOK'
<1> SUFFICES ASSUME TypeOK, UploadFails PROVE TypeOK'
  OBVIOUS
<1>1. /\ pass' \in Passes /\ pass'.at \in {"retry", "rejected"}
      /\ pass'.profile = pass.profile /\ pass'.path = pass.path
      /\ pass.profile \in Profiles /\ pass.path \in Paths
  BY DEF TypeOK, UploadFails, Goto, Passes, PassSteps
<1>2. unrecorded' \subseteq Profiles \X Contents
  BY DEF TypeOK, UploadFails
<1> QED
  BY <1>1, <1>2 DEF TypeOK, UploadFails, OutsideStore, storeVars, pathVars

LEMMA RetryType == TypeOK /\ Retry => TypeOK'
<1> SUFFICES ASSUME TypeOK, Retry PROVE TypeOK'
  OBVIOUS
<1>1. pass.path \in Paths /\ pass.profile \in Profiles /\ pass.stamp \in Nat
  BY DEF TypeOK, Retry, Passes
<1>2. /\ NextEntry \in Passes /\ NextEntry.at = "next" /\ NextEntry.profile = pass.profile
  BY NextEntryType DEF Retry
<1>3. attempts' \in [Paths -> 0..(MaxAttempts - 1)] /\ abandoned' \in [Paths -> Nat]
  <2>1. CASE GiveUp(pass.path)
    BY <1>1, <2>1, GiveUpType
  <2>2. CASE ~GiveUp(pass.path)
    BY <1>1, <2>2 DEF TypeOK, Retry
  <2> QED
    BY <2>1, <2>2
<1>4. memory' \in [Profiles -> Stores] /\ saved' \in [Profiles -> Stores]
  BY DEF TypeOK, Retry, Save
<1> QED
  BY <1>1, <1>2, <1>3, <1>4 DEF TypeOK, Retry, OutsideStore

LEMMA RejectType == TypeOK /\ Reject => TypeOK'
<1> SUFFICES ASSUME TypeOK, Reject PROVE TypeOK'
  OBVIOUS
<1>1. pass.path \in Paths /\ pass.profile \in Profiles
  BY DEF TypeOK, Reject
<1>2. NextEntry \in Passes /\ NextEntry.at = "next" /\ NextEntry.profile = pass.profile
  BY NextEntryType DEF Reject
<1>3. attempts' \in [Paths -> 0..(MaxAttempts - 1)] /\ abandoned' \in [Paths -> Nat]
  BY <1>1, GiveUpType DEF Reject
<1>4. memory' \in [Profiles -> Stores] /\ saved' \in [Profiles -> Stores]
  BY DEF TypeOK, Reject, Save
<1> QED
  BY <1>1, <1>2, <1>3, <1>4 DEF TypeOK, Reject, OutsideStore

LEMMA CheckpointTypeOK == TypeOK /\ Checkpoint => TypeOK'
<1> SUFFICES ASSUME TypeOK, Checkpoint PROVE TypeOK'
  OBVIOUS
<1>1. memory' \in [Profiles -> Stores] /\ saved' \in [Profiles -> Stores]
  BY CheckpointType DEF TypeOK, Checkpoint, CheckpointAs, Save
<1>2. NextEntry \in Passes /\ NextEntry.at = "next" /\ NextEntry.profile = pass.profile
          /\ pass.profile \in Profiles /\ pass' = NextEntry
  BY NextEntryType DEF TypeOK, Checkpoint, CheckpointAs
<1>3. 0 \in 0..(MaxAttempts - 1)
  OBVIOUS
<1>4. attempts' \in [Paths -> 0..(MaxAttempts - 1)] /\ abandoned' \in [Paths -> Nat]
  BY <1>3 DEF TypeOK, Checkpoint, CheckpointAs
<1>5. unrecorded' \subseteq Profiles \X Contents
  BY DEF TypeOK, Checkpoint, CheckpointAs, UnrecordedBy
<1> QED
  BY <1>1, <1>2, <1>4, <1>5 DEF TypeOK, Checkpoint, CheckpointAs, OutsideStore

LEMMA WriteType == ASSUME NEW f \in Paths, NEW c \in Contents PROVE TypeOK /\ Write(f, c) => TypeOK'
<1> SUFFICES ASSUME TypeOK, Write(f, c) PROVE TypeOK'
  OBVIOUS
<1>1. /\ file' \in [Paths -> [stamp : Nat, content : Contents \union {None}]]
      /\ \A g \in Paths : file'[g] # NoFile => file'[g].content \in Contents
  BY DEF TypeOK, Write
<1> QED
  BY <1>1 DEF TypeOK, Write, storeVars, pathVars

LEMMA DeleteType == ASSUME NEW f \in Paths PROVE TypeOK /\ Delete(f) => TypeOK'
<1> SUFFICES ASSUME TypeOK, Delete(f) PROVE TypeOK'
  OBVIOUS
<1>1. NoFile \in [stamp : Nat, content : Contents \union {None}]
  BY DEF NoFile
<1>2. /\ file' \in [Paths -> [stamp : Nat, content : Contents \union {None}]]
      /\ \A g \in Paths : file'[g] # NoFile => file'[g].content \in Contents
  BY <1>1 DEF TypeOK, Delete
<1> QED
  BY <1>2 DEF TypeOK, Delete, storeVars, pathVars

(* An aborted upload is still the entry it was of the pass it was. *)
LEMMA AbortedType ==
    ASSUME TypeOK, Aborted
    PROVE  /\ pass' \in Passes
           /\ pass'.profile = pass.profile /\ pass'.path = pass.path
           /\ pass'.content = pass.content /\ pass'.stamp = pass.stamp
           /\ pass'.at = pass.at \/ (pass.at \in {"post", "created"} /\ pass'.at = "retry")
                  \/ (pass.at = "created" /\ pass'.at = "checkpoint")
           /\ pass'.at \notin {"post", "created"}
           /\ Unconfirmed \subseteq Profiles \X Contents
<1>1. pass \in Passes
  BY DEF TypeOK
<1>2. CASE pass.at = "read" /\ pass' = [pass EXCEPT !.live = FALSE]
  BY <1>1, <1>2 DEF Passes, PassSteps, Unconfirmed
<1>3. CASE pass.at \in {"post", "created"} /\ Goto("retry")
  <2>1. pass' = [pass EXCEPT !.at = "retry"]
    BY <1>3 DEF Goto
  <2>2. /\ pass' \in Passes /\ pass'.at = "retry"
        /\ pass'.profile = pass.profile /\ pass'.path = pass.path
        /\ pass'.content = pass.content /\ pass'.stamp = pass.stamp
    BY <1>1, <2>1 DEF Passes, PassSteps
  <2>3. Unconfirmed \subseteq Profiles \X Contents
    BY <1>3 DEF TypeOK, Unconfirmed
  <2> QED
    BY <1>3, <2>2, <2>3
<1>4. CASE pass.at = "created" /\ Goto("checkpoint")
  BY <1>1, <1>4 DEF TypeOK, Goto, Passes, PassSteps, Unconfirmed
<1>5. CASE pass.at \notin {"read", "post", "created"} /\ UNCHANGED pass
  BY <1>1, <1>5 DEF Unconfirmed
<1> QED
  BY <1>2, <1>3, <1>4, <1>5 DEF Aborted

LEMMA SwitchType ==
    ASSUME NEW p \in Profiles \union {None}
    PROVE  TypeOK /\ Switch(p) => TypeOK'
<1> SUFFICES ASSUME TypeOK, Switch(p) PROVE TypeOK'
  OBVIOUS
<1> QED
  BY AbortedType DEF TypeOK, Switch, storeVars, pathVars

LEMMA RepointType == ASSUME NEW p \in Profiles PROVE TypeOK /\ Repoint(p) => TypeOK'
<1> SUFFICES ASSUME TypeOK, Repoint(p) PROVE TypeOK'
  OBVIOUS
<1>1. memory' \in [Profiles -> Stores] /\ saved' \in [Profiles -> Stores]
  <2>1. ASSUME memory' = [memory EXCEPT ![p] = Forgotten], Save
        PROVE  memory' \in [Profiles -> Stores] /\ saved' \in [Profiles -> Stores]
    BY <2>1, ForgottenIsStore DEF TypeOK, Save
  <2>2. ASSUME UNCHANGED storeVars
        PROVE  memory' \in [Profiles -> Stores] /\ saved' \in [Profiles -> Stores]
    BY <2>2 DEF TypeOK, storeVars
  <2>3. \/ memory' = [memory EXCEPT ![p] = Forgotten] /\ Save
        \/ UNCHANGED storeVars
    BY DEF Repoint
  <2> QED
    BY <2>1, <2>2, <2>3
<1>2. docs' \in [Profiles -> [Contents -> 0..Many]]
  <2>1. [c \in Contents |-> 0] \in [Contents -> 0..Many]
    OBVIOUS
  <2> QED
    BY <2>1 DEF TypeOK, Repoint
<1>3. moved' \subseteq Profiles /\ unrecorded' \subseteq Profiles \X Contents
  BY AbortedType DEF TypeOK, Repoint
<1> QED
  BY <1>1, <1>2, <1>3, AbortedType DEF TypeOK, Repoint, pathVars

LEMMA CrashType == TypeOK /\ Crash => TypeOK'
<1> SUFFICES ASSUME TypeOK, Crash PROVE TypeOK'
  OBVIOUS
<1>1. 0 \in 0..(MaxAttempts - 1)
  OBVIOUS
<1>2. NoPass \in Passes /\ NoPass.at = "idle"
  BY DEF NoPass, Passes, PassSteps
<1>3. unrecorded' \subseteq Profiles \X Contents
  BY DEF TypeOK, Crash, UnrecordedBy
<1> QED
  BY <1>1, <1>2, <1>3 DEF TypeOK, Crash, ForgetPaths

LEMMA TypeStep == TypeOK /\ [Next]_vars => TypeOK'
<1> SUFFICES ASSUME TypeOK, [Next]_vars PROVE TypeOK'
  OBVIOUS
<1>1. CASE PassStep
  BY <1>1, StartPassType, TakeEntryType, EndPassType, StatType, ReadType, AcceptType,
     ConfirmType, UploadFailsType, RetryType, RejectType, CheckpointTypeOK DEF PassStep
<1>2. CASE Environment
  <2>1. ASSUME NEW f \in Paths, Delete(f) PROVE TypeOK'
    BY <2>1, DeleteType
  <2>2. ASSUME NEW f \in Paths, NEW c \in Contents, Write(f, c) PROVE TypeOK'
    BY <2>2, WriteType
  <2>3. ASSUME NEW p \in Profiles \union {None}, Switch(p) PROVE TypeOK'
    BY <2>3, SwitchType
  <2>4. ASSUME NEW p \in Profiles, Repoint(p) PROVE TypeOK'
    BY <2>4, RepointType
  <2> QED
    BY <1>2, <2>1, <2>2, <2>3, <2>4, CrashType DEF Environment
<1>3. CASE UNCHANGED vars
  BY <1>3 DEF TypeOK, vars, storeVars, pathVars
<1> QED
  BY <1>1, <1>2, <1>3 DEF Next

LEMMA TypeInit == Init => TypeOK
<1> SUFFICES ASSUME Init PROVE TypeOK
  OBVIOUS
<1>1. NoPass \in Passes /\ NoPass.at = "idle"
  BY DEF NoPass, Passes, PassSteps
<1>2. 0 \in 0..(MaxAttempts - 1) /\ 0 \in 0..Many
  OBVIOUS
<1>3. NoFile \in [stamp : Nat, content : Contents \union {None}]
  BY DEF NoFile
<1> QED
  BY <1>1, <1>2, <1>3, ForgottenIsStore DEF Init, TypeOK

(* Every state is of the types. *)
THEOREM TypeCorrect == Spec => []TypeOK
BY TypeInit, TypeStep, PTL DEF Spec

-----------------------------------------------------------------------------
(* A file that is skipped is in the archive.                               *)

\* A stamp is of a write there was.
StampsBounded ==
    /\ \A f \in Paths : file[f].stamp <= writes
    /\ \A p \in Profiles, f \in Paths :
          memory[p].stamps[f] <= writes /\ saved[p].stamps[f] <= writes
    /\ pass.stamp <= writes

\* What a store remembers is in the archive.
Remembers(store, p) ==
    /\ \A f \in Paths :
          file[f] # NoFile /\ store[p].ages[f] # Never /\ store[p].stamps[f] = file[f].stamp
              => docs[p][file[f].content] > 0
    /\ \A c \in Contents : store[p].sums[c] # Never => docs[p][c] > 0

\* What is about to be remembered is there, too, and the content read is that of
\* the stamp, as long as the file has it.
UploadIsFiled ==
    pass.at \in {"created", "checkpoint"} /\ pass.profile \notin moved
        => docs[pass.profile][pass.content] > 0

UploadIsOfStamp ==
    pass.at \in {"post", "created", "checkpoint"} /\ file[pass.path] # NoFile
            /\ file[pass.path].stamp = pass.stamp
        => file[pass.path].content = pass.content

Filed ==
    /\ TypeOK /\ StampsBounded
    /\ \A p \in Profiles \ moved : Remembers(memory, p) /\ Remembers(saved, p)
    /\ UploadIsFiled /\ UploadIsOfStamp

LEMMA FiledInit == Init => Filed
<1> SUFFICES ASSUME Init PROVE Filed
  OBVIOUS
<1>1. NoPass.at = "idle" /\ NoPass.stamp = Never
  BY DEF NoPass
<1>2. NoFile.stamp = Never
  BY DEF NoFile
<1>3. /\ \A f \in Paths : Forgotten.ages[f] = Never /\ Forgotten.stamps[f] = Never
      /\ \A c \in Contents : Forgotten.sums[c] = Never
  BY DEF Forgotten
<1> QED
  BY <1>1, <1>2, <1>3, TypeInit
     DEF Init, Filed, StampsBounded, Remembers, UploadIsFiled, UploadIsOfStamp

(* A step of the pass that leaves the memory alone has to look after the pass. *)
LEMMA FiledKept ==
    ASSUME Filed, TypeOK', UNCHANGED <<file, writes, docs, moved, memory>>,
           saved' = saved \/ saved' = memory, pass'.stamp <= writes,
           UploadIsFiled', UploadIsOfStamp'
    PROVE  Filed'
<1>1. StampsBounded'
  BY DEF Filed, StampsBounded
<1>2. ASSUME NEW p \in Profiles \ moved
      PROVE  Remembers(memory, p)' /\ Remembers(saved, p)'
  BY DEF Filed, Remembers
<1> QED
  BY <1>1, <1>2 DEF Filed

(* A pass that is not at an upload has nothing to look after. *)
LEMMA FiledNext ==
    ASSUME Filed, TypeOK', UNCHANGED <<file, writes, docs, moved, memory>>,
           saved' = saved \/ saved' = memory, pass'.stamp <= writes,
           pass'.at \notin {"post", "created", "checkpoint"}
    PROVE  Filed'
BY FiledKept DEF UploadIsFiled, UploadIsOfStamp

LEMMA NextEntryFacts == NextEntry.at = "next" /\ NextEntry.stamp = Never
BY DEF NextEntry

LEMMA FiledStart == Filed /\ (StartPass \/ EndPass) => Filed'
<1> SUFFICES ASSUME Filed, StartPass \/ EndPass PROVE Filed'
  OBVIOUS
<1>1. TypeOK'
  BY StartPassType, EndPassType DEF Filed
<1>2. writes \in Nat /\ NoPass \in Passes /\ NoPass.stamp = 0 /\ NoPass.at = "idle"
  BY DEF Filed, TypeOK, NoPass, Passes, PassSteps
<1>3. pass'.stamp = 0 /\ pass'.at \in {"next", "idle"}
  BY <1>2 DEF StartPass, EndPass, Passes
<1> QED
  BY <1>1, <1>2, <1>3, FiledNext DEF StartPass, EndPass, OutsideStore, storeVars

LEMMA FiledTakeEntry == Filed /\ TakeEntry => Filed'
<1> SUFFICES ASSUME Filed, TakeEntry PROVE Filed'
  OBVIOUS
<1>1. TypeOK' /\ pass \in Passes
  BY TakeEntryType DEF Filed, TypeOK
<1>2. pass'.stamp = pass.stamp /\ pass'.at = "stat"
  BY <1>1 DEF TakeEntry, Passes
<1> QED
  BY <1>1, <1>2, FiledNext DEF TakeEntry, OutsideStore, storeVars, Filed, StampsBounded

LEMMA FiledStat == Filed /\ Stat => Filed'
<1> SUFFICES ASSUME Filed, Stat PROVE Filed'
  OBVIOUS
<1>1. TypeOK' /\ pass \in Passes /\ pass.path \in Paths /\ writes \in Nat
  BY StatType DEF Filed, TypeOK, Stat
<1>2. pass'.stamp <= writes /\ pass'.at \in {"next", "read", "retry"}
  <2>1. CASE pass' = NextEntry
    BY <1>1, <2>1, NextEntryFacts
  <2>2. CASE pass' # NextEntry
    <3>1. pass' = [pass EXCEPT !.stamp = file[pass.path].stamp,
                               !.live = (connected = pass.profile),
                               !.at = IF connected = pass.profile THEN "read" ELSE "retry"]
      BY <2>2 DEF Stat
    <3>2. file[pass.path].stamp <= writes
      BY <1>1 DEF Filed, StampsBounded
    <3> QED
      BY <1>1, <3>1, <3>2 DEF Passes
  <2> QED
    BY <2>1, <2>2
<1> QED
  BY <1>1, <1>2, FiledNext DEF Stat, OutsideStore, storeVars

LEMMA FiledRead == Filed /\ Read => Filed'
<1> SUFFICES ASSUME Filed, Read PROVE Filed'
  OBVIOUS
<1>1. TypeOK' /\ pass \in Passes /\ pass.path \in Paths /\ pass.profile \in Profiles
  BY ReadType DEF Filed, TypeOK, Read
<1>2. pass'.stamp = pass.stamp /\ pass'.profile = pass.profile /\ pass'.path = pass.path
  BY <1>1 DEF Read, Goto, Passes
<1>3. /\ UNCHANGED <<file, writes, docs, moved, memory, saved>>
      /\ pass'.stamp <= writes
  BY <1>2 DEF Read, OutsideStore, storeVars, Filed, StampsBounded
<1>4. CASE pass'.at \in {"retry", "rejected"}
  BY <1>1, <1>3, <1>4, FiledNext
<1>5. CASE pass'.at \notin {"retry", "rejected"}
  <2> DEFINE c == file[pass.path].content
  <2>1. pass' = [pass EXCEPT !.content = c,
                             !.at = IF Knows(pass.profile, c) THEN "checkpoint"
                                    ELSE IF pass.live THEN "post" ELSE "retry"]
    BY <1>1, <1>5 DEF Read, Goto, Passes
  <2>2. file[pass.path] # NoFile
    BY <1>1, <1>5 DEF Read, Goto, Passes
  <2>3. c \in Contents
    BY <1>1, <2>2 DEF Filed, TypeOK
  <2>4. pass'.content = c /\ (pass'.at = "checkpoint" => Knows(pass.profile, c))
            /\ pass'.at # "created"
    BY <1>1, <2>1, <2>3 DEF Passes
  <2>5. UploadIsFiled'
    BY <1>1, <1>2, <1>3, <2>3, <2>4 DEF UploadIsFiled, Filed, Remembers, Knows
  <2>6. UploadIsOfStamp'
    BY <1>2, <1>3, <2>4 DEF UploadIsOfStamp
  <2> QED
    BY <1>1, <1>3, <2>5, <2>6, FiledKept
<1> QED
  BY <1>4, <1>5

LEMMA FiledConfirm == Filed /\ (Confirm \/ UploadFails) => Filed'
<1> SUFFICES ASSUME Filed, Confirm \/ UploadFails PROVE Filed'
  OBVIOUS
<1>1. TypeOK' /\ pass \in Passes
  BY ConfirmType, UploadFailsType DEF Filed, TypeOK
<1>2. /\ pass'.stamp = pass.stamp /\ pass'.profile = pass.profile
      /\ pass'.path = pass.path /\ pass'.content = pass.content
      /\ pass'.at \in {"retry", "rejected"}
             \/ (pass'.at = "checkpoint" /\ pass.at = "created")
  <2>1. \E step \in {"retry", "rejected", "checkpoint"} :
          pass' = [pass EXCEPT !.at = step] /\ (step = "checkpoint" => pass.at = "created")
    BY DEF Confirm, UploadFails, Goto
  <2> QED
    BY <1>1, <2>1 DEF Passes
<1>3. /\ UNCHANGED <<file, writes, docs, moved, memory, saved>>
      /\ pass'.stamp <= writes
  BY <1>2 DEF Confirm, UploadFails, OutsideStore, storeVars, Filed, StampsBounded
<1>4. UploadIsFiled' /\ UploadIsOfStamp'
  BY <1>2, <1>3 DEF Filed, UploadIsFiled, UploadIsOfStamp
<1> QED
  BY <1>1, <1>3, <1>4, FiledKept

LEMMA FiledGiveUp == Filed /\ (Retry \/ Reject) => Filed'
<1> SUFFICES ASSUME Filed, Retry \/ Reject PROVE Filed'
  OBVIOUS
<1>1. TypeOK' /\ writes \in Nat
  BY RetryType, RejectType DEF Filed, TypeOK
<1>2. pass'.at = "next" /\ pass'.stamp <= writes
  BY <1>1, NextEntryFacts DEF Retry, Reject
<1>3. UNCHANGED <<file, writes, docs, moved, memory>> /\ (saved' = saved \/ saved' = memory)
  BY DEF Retry, Reject, Save, OutsideStore
<1> QED
  BY <1>1, <1>2, <1>3, FiledNext

LEMMA FiledAccept == Filed /\ Accept => Filed'
<1> SUFFICES ASSUME Filed, Accept PROVE Filed'
  OBVIOUS
<1>1. TypeOK' /\ TypeOK /\ pass \in Passes
  BY AcceptType DEF Filed, TypeOK
<1>2. pass.profile \in Profiles /\ pass.content \in Contents
  BY <1>1 DEF TypeOK, Accept
<1>3. /\ pass'.stamp = pass.stamp /\ pass'.profile = pass.profile
      /\ pass'.path = pass.path /\ pass'.content = pass.content
  BY <1>1 DEF Accept, Goto, Passes
<1>4. docs'[pass.profile][pass.content] > 0
  BY <1>1, <1>2 DEF TypeOK, Accept
<1>5. \A p \in Profiles, c \in Contents : docs[p][c] > 0 => docs'[p][c] > 0
  BY <1>1, <1>2 DEF TypeOK, Accept
<1>6. UNCHANGED <<file, writes, moved, memory, saved>>
  BY DEF Accept, storeVars
<1>7. StampsBounded'
  BY <1>3, <1>6 DEF Filed, StampsBounded
<1>8. ASSUME NEW p \in Profiles \ moved
      PROVE  Remembers(memory, p)' /\ Remembers(saved, p)'
  BY <1>1, <1>5, <1>6 DEF Filed, Remembers, TypeOK
<1>9. UploadIsFiled'
  BY <1>3, <1>4 DEF UploadIsFiled
<1>10. UploadIsOfStamp'
  BY <1>3, <1>6 DEF Filed, UploadIsOfStamp, Accept
<1> QED
  BY <1>1, <1>6, <1>7, <1>8, <1>9, <1>10 DEF Filed

(* recordImported: the stamp was the file's before the content was read. *)
LEMMA FiledCheckpoint == Filed /\ Checkpoint => Filed'
<1> SUFFICES ASSUME Filed, Checkpoint PROVE Filed'
  OBVIOUS
<1> DEFINE p == pass.profile
           f == pass.path
           ages == Touch(memory[p].ages, f, MaxPrints)
           sums == Touch(memory[p].sums, pass.content, MaxSums)
           stamps == [g \in Paths |-> IF g = f THEN pass.stamp
                                      ELSE IF ages[g] = Never THEN Never
                                      ELSE memory[p].stamps[g]]
           new == [ages |-> ages, stamps |-> stamps, sums |-> sums]
<1>1. TypeOK' /\ TypeOK /\ pass \in Passes /\ pass.at = "checkpoint"
  BY CheckpointTypeOK DEF Filed, TypeOK, Checkpoint, CheckpointAs
<1>2. p \in Profiles /\ f \in Paths /\ pass.content \in Contents /\ writes \in Nat
  BY <1>1 DEF TypeOK
<1>3. memory[p].ages \in [Paths -> Nat] /\ memory[p].sums \in [Contents -> Nat]
          /\ memory[p].stamps \in [Paths -> Nat]
  BY <1>1, <1>2 DEF TypeOK, Stores
<1>4. /\ \A g \in Paths : ages[g] # Never => g = f \/ memory[p].ages[g] # Never
      /\ \A c \in Contents : sums[c] # Never => c = pass.content \/ memory[p].sums[c] # Never
  <2>1. MaxPrints \in Nat /\ MaxSums \in Nat
    OBVIOUS
  <2>2. \A g \in Paths : ages[g] # Never => g = f \/ memory[p].ages[g] # Never
    BY <1>2, <1>3, <2>1, TouchKeeps, Zenon
  <2>3. \A c \in Contents : sums[c] # Never => c = pass.content \/ memory[p].sums[c] # Never
    BY <1>2, <1>3, <2>1, TouchKeeps, Zenon
  <2> QED
    BY <2>2, <2>3
<1>5. memory' = [memory EXCEPT ![p] = new]
  BY DEF Checkpoint, CheckpointAs
<1>6. /\ memory'[p].ages = ages /\ memory'[p].stamps = stamps /\ memory'[p].sums = sums
      /\ \A q \in Profiles \ {p} : memory'[q] = memory[q]
  BY <1>1, <1>2, <1>5 DEF TypeOK
<1>7. /\ UNCHANGED <<file, writes, docs, moved>> /\ (saved' = saved \/ saved' = memory')
      /\ pass'.at = "next" /\ pass'.stamp = Never
  BY NextEntryFacts DEF Checkpoint, CheckpointAs, OutsideStore, Save
<1>8. \A q \in Profiles, g \in Paths : memory'[q].stamps[g] <= writes
  BY <1>2, <1>6 DEF Filed, StampsBounded
<1>9. StampsBounded'
  BY <1>2, <1>7, <1>8 DEF Filed, StampsBounded
<1>10. ASSUME NEW q \in Profiles \ moved PROVE Remembers(memory, q)'
  <2>1. CASE q = p
    <3>1. docs[p][pass.content] > 0
      BY <1>1, <2>1 DEF Filed, UploadIsFiled
    <3>2. ASSUME NEW g \in Paths, file[g] # NoFile, ages[g] # Never, stamps[g] = file[g].stamp
          PROVE  docs[p][file[g].content] > 0
      <4>1. CASE g = f
        BY <1>1, <1>2, <3>1, <3>2, <4>1 DEF Filed, UploadIsOfStamp
      <4>2. CASE g # f
        BY <1>2, <1>4, <2>1, <3>2, <4>2 DEF Filed, Remembers
      <4> QED
        BY <4>1, <4>2
    <3>3. ASSUME NEW c \in Contents, sums[c] # Never PROVE docs[p][c] > 0
      BY <1>2, <1>4, <2>1, <3>1, <3>3 DEF Filed, Remembers
    <3> QED
      BY <1>6, <1>7, <2>1, <3>2, <3>3 DEF Remembers
  <2>2. CASE q # p
    BY <1>6, <1>7, <2>2 DEF Filed, Remembers
  <2> QED
    BY <2>1, <2>2
<1>11. ASSUME NEW q \in Profiles \ moved PROVE Remembers(saved, q)'
  <2>1. CASE saved' = saved
    BY <1>7, <2>1 DEF Filed, Remembers
  <2>2. CASE saved' = memory'
    BY <1>10, <2>2 DEF Remembers
  <2> QED
    BY <1>7, <2>1, <2>2
<1> QED
  BY <1>1, <1>7, <1>9, <1>10, <1>11 DEF Filed, UploadIsFiled, UploadIsOfStamp

LEMMA FiledWrite ==
    ASSUME NEW f \in Paths, NEW c \in Contents
    PROVE  Filed /\ Write(f, c) => Filed'
<1> SUFFICES ASSUME Filed, Write(f, c) PROVE Filed'
  OBVIOUS
<1>1. TypeOK' /\ TypeOK /\ writes \in Nat /\ writes' = writes + 1
  BY WriteType DEF Filed, TypeOK, Write
<1>2. UNCHANGED <<memory, saved, pass, docs, moved>>
  BY DEF Write, storeVars
<1>3. file'[f].stamp = writes + 1 /\ \A g \in Paths \ {f} : file'[g] = file[g]
  BY <1>1 DEF Write, TypeOK
<1>4. /\ \A p \in Profiles, g \in Paths :
            /\ memory[p].stamps[g] \in Nat /\ saved[p].stamps[g] \in Nat
            /\ memory[p].stamps[g] <= writes /\ saved[p].stamps[g] <= writes
      /\ pass.stamp \in Nat /\ pass.stamp <= writes
      /\ \A g \in Paths : file[g].stamp \in Nat /\ file[g].stamp <= writes
  BY <1>1 DEF Filed, StampsBounded, TypeOK, Stores, Passes
<1>5. StampsBounded'
  BY <1>1, <1>2, <1>3, <1>4 DEF StampsBounded
<1>6. ASSUME NEW p \in Profiles \ moved
      PROVE  Remembers(memory, p)' /\ Remembers(saved, p)'
  BY <1>1, <1>2, <1>3, <1>4 DEF Filed, Remembers
<1>7. UploadIsFiled'
  BY <1>2 DEF Filed, UploadIsFiled
<1>8. UploadIsOfStamp'
  <2>1. pass.at \in {"post", "created", "checkpoint"} => pass.path \in Paths
    BY <1>1 DEF TypeOK
  <2> QED
    BY <1>1, <1>2, <1>3, <1>4, <2>1 DEF Filed, UploadIsOfStamp
<1> QED
  BY <1>1, <1>2, <1>5, <1>6, <1>7, <1>8 DEF Filed

LEMMA FiledDelete == ASSUME NEW f \in Paths PROVE Filed /\ Delete(f) => Filed'
<1> SUFFICES ASSUME Filed, Delete(f) PROVE Filed'
  OBVIOUS
<1>1. TypeOK' /\ TypeOK /\ writes \in Nat
  BY DeleteType DEF Filed, TypeOK
<1>2. UNCHANGED <<writes, memory, saved, pass, docs, moved>>
  BY DEF Delete, storeVars
<1>3. /\ file'[f] = NoFile /\ NoFile.stamp = 0
      /\ \A g \in Paths \ {f} : file'[g] = file[g]
  BY <1>1 DEF Delete, TypeOK, NoFile
<1>4. StampsBounded'
  BY <1>1, <1>2, <1>3 DEF Filed, StampsBounded
<1>5. ASSUME NEW p \in Profiles \ moved
      PROVE  Remembers(memory, p)' /\ Remembers(saved, p)'
  BY <1>2, <1>3 DEF Filed, Remembers
<1>6. UploadIsFiled'
  BY <1>2 DEF Filed, UploadIsFiled
<1>7. UploadIsOfStamp'
  <2>1. pass.at \in {"post", "created", "checkpoint"} => pass.path \in Paths
    BY <1>1 DEF TypeOK
  <2> QED
    BY <1>2, <1>3, <2>1 DEF Filed, UploadIsOfStamp
<1> QED
  BY <1>1, <1>2, <1>4, <1>5, <1>6, <1>7 DEF Filed

(* An upload that outlives its session was accepted, and is what it was. *)
LEMMA FiledSwitch ==
    ASSUME NEW p \in Profiles \union {None}
    PROVE  Filed /\ Switch(p) => Filed'
<1> SUFFICES ASSUME Filed, Switch(p) PROVE Filed'
  OBVIOUS
<1>1. TypeOK /\ TypeOK' /\ Aborted
  BY SwitchType DEF Filed, Switch
<1>2. UNCHANGED <<file, writes, docs, moved, memory, saved>>
  BY DEF Switch, storeVars
<1>3. pass'.stamp <= writes
  BY <1>1, AbortedType DEF Filed, StampsBounded
<1>4. UploadIsFiled' /\ UploadIsOfStamp'
  BY <1>1, <1>2, AbortedType DEF Filed, UploadIsFiled, UploadIsOfStamp
<1> QED
  BY <1>1, <1>2, <1>3, <1>4, FiledKept

(* The archive of the profile is empty now: either nothing is remembered of it, or
   it is a moved profile. *)
LEMMA FiledRepoint == ASSUME NEW p \in Profiles PROVE Filed /\ Repoint(p) => Filed'
<1> SUFFICES ASSUME Filed, Repoint(p) PROVE Filed'
  OBVIOUS
<1>1. TypeOK /\ TypeOK' /\ Aborted /\ writes \in Nat
  BY RepointType DEF Filed, Repoint, TypeOK
<1>2. UNCHANGED <<file, writes>> /\ moved \subseteq moved'
  BY DEF Repoint
<1>3. \A q \in Profiles \ {p} : docs'[q] = docs[q]
  BY <1>1 DEF Repoint, TypeOK
<1>4. /\ \A f \in Paths : Forgotten.ages[f] = Never /\ Forgotten.stamps[f] = Never
      /\ \A c \in Contents : Forgotten.sums[c] = Never
  BY DEF Forgotten
<1>5. \/ memory' = [memory EXCEPT ![p] = Forgotten] /\ (saved' = memory' \/ saved' = saved)
      \/ memory' = memory /\ saved' = saved
  BY DEF Repoint, Save, storeVars
<1>6. \A q \in Profiles \ {p} : memory'[q] = memory[q] /\ saved'[q] \in {memory[q], saved[q]}
  BY <1>1, <1>5 DEF TypeOK
<1>7. memory'[p] \in {memory[p], Forgotten} /\ saved'[p] \in {saved[p], Forgotten}
  BY <1>1, <1>5 DEF TypeOK
<1>8. p \notin moved' =>
        memory'[p] = Forgotten /\ saved'[p] = Forgotten
          /\ ~(pass'.profile = p /\ pass'.at = "checkpoint")
  BY DEF Repoint
<1>9. StampsBounded'
  <2>1. \A q \in Profiles, f \in Paths :
          memory'[q].stamps[f] <= writes /\ saved'[q].stamps[f] <= writes
    BY <1>1, <1>4, <1>6, <1>7 DEF Filed, StampsBounded
  <2>2. pass'.stamp <= writes
    BY <1>1, AbortedType DEF Filed, StampsBounded
  <2> QED
    BY <1>2, <2>1, <2>2 DEF Filed, StampsBounded
<1>10. ASSUME NEW q \in Profiles \ moved'
       PROVE  Remembers(memory, q)' /\ Remembers(saved, q)'
  <2>1. CASE q = p
    BY <1>4, <1>8, <2>1 DEF Remembers
  <2>2. CASE q # p
    BY <1>2, <1>3, <1>6, <2>2 DEF Filed, Remembers
  <2> QED
    BY <2>1, <2>2
<1>11. UploadIsFiled'
  <2> SUFFICES ASSUME pass'.at \in {"created", "checkpoint"}, pass'.profile \notin moved'
               PROVE  docs'[pass'.profile][pass'.content] > 0
    BY DEF UploadIsFiled
  <2>1. pass'.at = "checkpoint" /\ pass.at \in {"created", "checkpoint"}
            /\ pass'.profile = pass.profile /\ pass'.content = pass.content
            /\ pass.profile \in Profiles
    BY <1>1, AbortedType DEF TypeOK
  <2>2. pass.profile # p /\ pass.profile \notin moved
    BY <1>2, <1>8, <2>1
  <2> QED
    BY <1>3, <2>1, <2>2 DEF Filed, UploadIsFiled
<1>12. UploadIsOfStamp'
  BY <1>1, <1>2, AbortedType DEF Filed, UploadIsOfStamp
<1> QED
  BY <1>1, <1>9, <1>10, <1>11, <1>12 DEF Filed

(* What the next start reads is what was saved. *)
LEMMA FiledCrash == Filed /\ Crash => Filed'
<1> SUFFICES ASSUME Filed, Crash PROVE Filed'
  OBVIOUS
<1>1. TypeOK' /\ writes \in Nat
  BY CrashType DEF Filed, TypeOK
<1>2. pass'.at = "idle" /\ pass'.stamp = 0
  BY DEF Crash, NoPass
<1>3. UNCHANGED <<file, writes, docs, moved, saved>> /\ memory' = saved
  BY DEF Crash
<1>4. StampsBounded'
  BY <1>1, <1>2, <1>3 DEF Filed, StampsBounded
<1>5. ASSUME NEW p \in Profiles \ moved
      PROVE  Remembers(memory, p)' /\ Remembers(saved, p)'
  BY <1>3 DEF Filed, Remembers
<1>6. UploadIsFiled' /\ UploadIsOfStamp'
  BY <1>2 DEF UploadIsFiled, UploadIsOfStamp
<1> QED
  BY <1>1, <1>3, <1>4, <1>5, <1>6 DEF Filed

LEMMA FiledStep == Filed /\ [Next]_vars => Filed'
<1> SUFFICES ASSUME Filed, [Next]_vars PROVE Filed'
  OBVIOUS
<1>1. CASE PassStep
  BY <1>1, FiledStart, FiledTakeEntry, FiledStat, FiledRead, FiledAccept, FiledConfirm,
     FiledGiveUp, FiledCheckpoint DEF PassStep
<1>2. CASE Environment
  <2>1. ASSUME NEW f \in Paths, Delete(f) PROVE Filed'
    BY <2>1, FiledDelete
  <2>2. ASSUME NEW f \in Paths, NEW c \in Contents, Write(f, c) PROVE Filed'
    BY <2>2, FiledWrite
  <2>3. ASSUME NEW p \in Profiles \union {None}, Switch(p) PROVE Filed'
    BY <2>3, FiledSwitch
  <2>4. ASSUME NEW p \in Profiles, Repoint(p) PROVE Filed'
    BY <2>4, FiledRepoint
  <2> QED
    BY <1>2, <2>1, <2>2, <2>3, <2>4, FiledCrash DEF Environment
<1>3. CASE UNCHANGED vars
  <2>1. TypeOK'
    BY <1>3, TypeStep DEF Filed
  <2>2. UNCHANGED <<file, writes, docs, moved, memory, saved, pass>>
    BY <1>3 DEF vars, storeVars
  <2> QED
    BY <2>1, <2>2, FiledKept DEF Filed, StampsBounded, UploadIsFiled, UploadIsOfStamp
<1> QED
  BY <1>1, <1>2, <1>3 DEF Next

(* A skipped file is in the archive it is skipped for, whatever the bounds. *)
THEOREM SkipsAreFiled == Spec => []SkippedIsFiled
<1>1. Filed => SkippedIsFiled
  BY DEF Filed, Remembers, SkippedIsFiled, SkippedIsFiledFor, Checkpointed
<1> QED
  BY <1>1, FiledInit, FiledStep, PTL DEF Spec

-----------------------------------------------------------------------------
(* One document for a content.                                             *)

AboutToBeKnown(p, c) ==
    pass.at \in {"created", "checkpoint"} /\ pass.profile = p /\ pass.content = c

\* What the archive has, the store knows, or will, or it is known not to; and only
\* what the store does not know is uploaded.
Accounted ==
    \A p \in Profiles, c \in Contents :
        docs[p][c] > 0 =>
            <<p, c>> \in unrecorded \/ memory[p].sums[c] # Never \/ AboutToBeKnown(p, c)

UploadIsNew == pass.at = "post" => memory[pass.profile].sums[pass.content] = Never

Recorded == TypeOK /\ OneDocumentPerContent /\ Accounted /\ UploadIsNew

LEMMA RecordedInit == Init => Recorded
<1> SUFFICES ASSUME Init PROVE Recorded
  OBVIOUS
<1>1. \A p \in Profiles, c \in Contents : docs[p][c] = 0
  BY DEF Init
<1>2. pass.at = "idle"
  BY DEF Init, NoPass
<1> QED
  BY <1>1, <1>2, TypeInit DEF Recorded, OneDocumentPerContent, Accounted, UploadIsNew

(* Where no document is made and no checkpoint written, what counts is whether the
   pass still holds an upload that was accepted. *)
LEMMA RecordedKept ==
    ASSUME Recorded, TypeOK', UNCHANGED <<docs, memory>>, unrecorded \subseteq unrecorded',
           UploadIsNew',
           \A p \in Profiles, c \in Contents :
               AboutToBeKnown(p, c) => AboutToBeKnown(p, c)' \/ <<p, c>> \in unrecorded'
    PROVE  Recorded'
<1>1. OneDocumentPerContent'
  BY DEF Recorded, OneDocumentPerContent
<1>2. Accounted'
  <2> SUFFICES ASSUME NEW p \in Profiles, NEW c \in Contents, docs[p][c] > 0
               PROVE  <<p, c>> \in unrecorded' \/ memory[p].sums[c] # Never
                          \/ AboutToBeKnown(p, c)'
    BY DEF Accounted
  <2> QED
    BY DEF Recorded, Accounted
<1> QED
  BY <1>1, <1>2 DEF Recorded

(* Steps between uploads. *)
LEMMA RecordedBetween ==
    Recorded /\ (StartPass \/ TakeEntry \/ EndPass \/ Stat \/ Retry \/ Reject) => Recorded'
<1> SUFFICES ASSUME Recorded, StartPass \/ TakeEntry \/ EndPass \/ Stat \/ Retry \/ Reject
             PROVE  Recorded'
  OBVIOUS
<1>1. TypeOK' /\ TypeOK /\ pass \in Passes
  BY StartPassType, TakeEntryType, EndPassType, StatType, RetryType, RejectType
     DEF Recorded, TypeOK
<1>2. UNCHANGED <<docs, memory, unrecorded>>
  BY DEF StartPass, TakeEntry, EndPass, Stat, Retry, Reject, OutsideStore, storeVars
<1>3. pass.at \notin {"created", "checkpoint"}
  BY DEF StartPass, TakeEntry, EndPass, Stat, Retry, Reject
<1>4. pass'.at # "post"
  <2>1. CASE StartPass \/ EndPass
    <3>1. NoPass \in Passes /\ NoPass.at = "idle"
      BY DEF NoPass, Passes, PassSteps
    <3> QED
      BY <2>1, <3>1 DEF StartPass, EndPass, Passes
  <2>2. CASE TakeEntry
    BY <1>1, <2>2 DEF TakeEntry, Passes
  <2>3. CASE Stat
    BY <1>1, <2>3, NextEntryFacts DEF Stat, Passes
  <2>4. CASE Retry \/ Reject
    BY <2>4, NextEntryFacts DEF Retry, Reject
  <2> QED
    BY <2>1, <2>2, <2>3, <2>4
<1> QED
  BY <1>1, <1>2, <1>3, <1>4, RecordedKept DEF AboutToBeKnown, UploadIsNew

LEMMA RecordedRead == Recorded /\ Read => Recorded'
<1> SUFFICES ASSUME Recorded, Read PROVE Recorded'
  OBVIOUS
<1>1. TypeOK' /\ TypeOK /\ pass \in Passes /\ pass.path \in Paths
  BY ReadType DEF Recorded, TypeOK, Read
<1>2. UNCHANGED <<docs, memory, unrecorded>> /\ pass.at = "read"
  BY DEF Read, OutsideStore, storeVars
<1>3. UploadIsNew'
  <2> SUFFICES ASSUME pass'.at = "post"
               PROVE  memory[pass'.profile].sums[pass'.content] = Never
    BY <1>2 DEF UploadIsNew
  <2> DEFINE c == file[pass.path].content
  <2>1. pass' = [pass EXCEPT !.content = c,
                             !.at = IF Knows(pass.profile, c) THEN "checkpoint"
                                    ELSE IF pass.live THEN "post" ELSE "retry"]
    BY <1>1 DEF Read, Goto, Passes
  <2>2. file[pass.path] # NoFile
    BY <1>1 DEF Read, Goto, Passes
  <2>3. c \in Contents
    BY <1>1, <2>2 DEF TypeOK
  <2> QED
    BY <1>1, <2>1, <2>3 DEF Passes, Knows
<1> QED
  BY <1>1, <1>2, <1>3, RecordedKept DEF AboutToBeKnown

LEMMA RecordedAccept == Recorded /\ Accept => Recorded'
<1> SUFFICES ASSUME Recorded, Accept PROVE Recorded'
  OBVIOUS
<1>1. TypeOK' /\ TypeOK /\ pass \in Passes /\ pass.at = "post"
  BY AcceptType DEF Recorded, TypeOK, Accept
<1>2. pass.profile \in Profiles /\ pass.content \in Contents
  BY <1>1 DEF TypeOK
<1>3. pass'.at = "created" /\ pass'.profile = pass.profile /\ pass'.content = pass.content
  BY <1>1 DEF Accept, Goto, Passes
<1>4. UNCHANGED <<memory, unrecorded>>
  BY DEF Accept, storeVars
<1>5. \A p \in Profiles, c \in Contents :
        ~(p = pass.profile /\ c = pass.content) => docs'[p][c] = docs[p][c]
  BY <1>1, <1>2 DEF Accept, TypeOK
<1>6. docs[pass.profile][pass.content] = 0 => docs'[pass.profile][pass.content] = 1
  BY <1>1, <1>2 DEF Accept, TypeOK
<1>7. docs[pass.profile][pass.content] > 0 => <<pass.profile, pass.content>> \in unrecorded
  BY <1>1, <1>2 DEF Recorded, Accounted, UploadIsNew, AboutToBeKnown
<1>8. OneDocumentPerContent'
  <2> SUFFICES ASSUME NEW p \in Profiles, NEW c \in Contents, docs'[p][c] > 1
               PROVE  <<p, c>> \in unrecorded
    BY <1>4 DEF OneDocumentPerContent
  <2>1. CASE p = pass.profile /\ c = pass.content
    <3>1. docs[p][c] \in Nat
      BY <1>1 DEF TypeOK
    <3> QED
      BY <1>6, <1>7, <2>1, <3>1
  <2>2. CASE ~(p = pass.profile /\ c = pass.content)
    BY <1>5, <2>2 DEF Recorded, OneDocumentPerContent
  <2> QED
    BY <2>1, <2>2
<1>9. Accounted'
  <2> SUFFICES ASSUME NEW p \in Profiles, NEW c \in Contents, docs'[p][c] > 0
               PROVE  <<p, c>> \in unrecorded \/ memory[p].sums[c] # Never
                          \/ AboutToBeKnown(p, c)'
    BY <1>4 DEF Accounted
  <2>1. CASE p = pass.profile /\ c = pass.content
    BY <1>3, <2>1 DEF AboutToBeKnown
  <2>2. CASE ~(p = pass.profile /\ c = pass.content)
    BY <1>1, <1>5, <2>2 DEF Recorded, Accounted, AboutToBeKnown
  <2> QED
    BY <2>1, <2>2
<1> QED
  BY <1>1, <1>3, <1>8, <1>9 DEF Recorded, UploadIsNew

LEMMA RecordedAnswer == Recorded /\ (Confirm \/ UploadFails) => Recorded'
<1> SUFFICES ASSUME Recorded, Confirm \/ UploadFails PROVE Recorded'
  OBVIOUS
<1>1. TypeOK' /\ TypeOK /\ pass \in Passes
  BY ConfirmType, UploadFailsType DEF Recorded, TypeOK
<1>2. UNCHANGED <<docs, memory>> /\ unrecorded \subseteq unrecorded'
  BY DEF Confirm, UploadFails, OutsideStore, storeVars
<1>3. \/ /\ Goto("checkpoint") /\ pass.at = "created"
      \/ /\ Goto("retry") \/ Goto("rejected")
         /\ pass.at = "post" \/ <<pass.profile, pass.content>> \in unrecorded'
         /\ pass.at \in {"post", "created"}
  BY DEF Confirm, UploadFails
<1>4. /\ pass'.profile = pass.profile /\ pass'.content = pass.content
      /\ pass'.at \in {"checkpoint", "retry", "rejected"}
      /\ pass'.at = "checkpoint" \/ pass.at = "post"
             \/ <<pass.profile, pass.content>> \in unrecorded'
  BY <1>1, <1>3 DEF Goto, Passes
<1> QED
  BY <1>1, <1>2, <1>4, RecordedKept DEF AboutToBeKnown, UploadIsNew

(* recordImported: what falls out of the checksums is accounted for. *)
LEMMA RecordedCheckpoint == Recorded /\ Checkpoint => Recorded'
<1> SUFFICES ASSUME Recorded, Checkpoint PROVE Recorded'
  OBVIOUS
<1>1. TypeOK'
  BY CheckpointTypeOK DEF Recorded
<1>2. UNCHANGED docs /\ unrecorded' = UnrecordedBy(memory') /\ pass'.at = "next"
  BY NextEntryFacts DEF Checkpoint, CheckpointAs, OutsideStore
<1>3. OneDocumentPerContent'
  BY <1>2 DEF Recorded, OneDocumentPerContent, UnrecordedBy
<1>4. Accounted'
  BY <1>2 DEF Accounted, UnrecordedBy
<1> QED
  BY <1>1, <1>2, <1>3, <1>4 DEF Recorded, UploadIsNew

LEMMA RecordedSwitch ==
    ASSUME NEW p \in Profiles \union {None}
    PROVE  Recorded /\ Switch(p) => Recorded'
<1> SUFFICES ASSUME Recorded, Switch(p) PROVE Recorded'
  OBVIOUS
<1>1. TypeOK /\ TypeOK' /\ Aborted
  BY SwitchType DEF Recorded, Switch
<1>2. UNCHANGED <<docs, memory>> /\ unrecorded' = unrecorded \union Unconfirmed
  BY DEF Switch, storeVars
<1>3. UploadIsNew'
  BY <1>1, AbortedType DEF UploadIsNew
<1>4. ASSUME NEW q \in Profiles, NEW c \in Contents, AboutToBeKnown(q, c)
      PROVE  AboutToBeKnown(q, c)' \/ <<q, c>> \in unrecorded'
  BY <1>1, <1>2, <1>4, AbortedType DEF AboutToBeKnown, Unconfirmed
<1> QED
  BY <1>1, <1>2, <1>3, <1>4, RecordedKept

LEMMA RecordedRepoint ==
    ASSUME NEW p \in Profiles
    PROVE  Recorded /\ Repoint(p) => Recorded'
<1> SUFFICES ASSUME Recorded, Repoint(p) PROVE Recorded'
  OBVIOUS
<1>1. TypeOK /\ TypeOK' /\ Aborted
  BY RepointType DEF Recorded, Repoint
<1>2. /\ \A c \in Contents : docs'[p][c] = 0
      /\ \A q \in Profiles \ {p} : docs'[q] = docs[q] /\ memory'[q] = memory[q]
  BY <1>1 DEF Repoint, TypeOK, storeVars
<1>3. \A q \in Profiles \ {p}, c \in Contents :
        <<q, c>> \in unrecorded \union Unconfirmed => <<q, c>> \in unrecorded'
  BY DEF Repoint
<1>4. OneDocumentPerContent'
  BY <1>2, <1>3 DEF Recorded, OneDocumentPerContent
<1>5. Accounted'
  <2> SUFFICES ASSUME NEW q \in Profiles, NEW c \in Contents, docs'[q][c] > 0
               PROVE  <<q, c>> \in unrecorded' \/ memory'[q].sums[c] # Never
                          \/ AboutToBeKnown(q, c)'
    BY DEF Accounted
  <2>1. q # p /\ docs[q][c] > 0 /\ memory'[q] = memory[q]
    BY <1>2
  <2>2. CASE AboutToBeKnown(q, c)
    BY <1>1, <1>3, <2>1, <2>2, AbortedType DEF AboutToBeKnown, Unconfirmed
  <2>3. CASE ~AboutToBeKnown(q, c)
    BY <1>3, <2>1, <2>3 DEF Recorded, Accounted
  <2> QED
    BY <2>2, <2>3
<1>6. UploadIsNew'
  BY <1>1, AbortedType DEF UploadIsNew
<1> QED
  BY <1>1, <1>4, <1>5, <1>6 DEF Recorded

LEMMA RecordedCrash == Recorded /\ Crash => Recorded'
<1> SUFFICES ASSUME Recorded, Crash PROVE Recorded'
  OBVIOUS
<1>1. TypeOK'
  BY CrashType DEF Recorded
<1>2. UNCHANGED docs /\ unrecorded' = UnrecordedBy(memory') /\ pass'.at = "idle"
  BY DEF Crash, NoPass, UnrecordedBy
<1>3. OneDocumentPerContent'
  BY <1>2 DEF Recorded, OneDocumentPerContent, UnrecordedBy
<1>4. Accounted'
  BY <1>2 DEF Accounted, UnrecordedBy
<1> QED
  BY <1>1, <1>2, <1>3, <1>4 DEF Recorded, UploadIsNew

LEMMA RecordedStep == Recorded /\ [Next]_vars => Recorded'
<1> SUFFICES ASSUME Recorded, [Next]_vars PROVE Recorded'
  OBVIOUS
<1>1. CASE PassStep
  BY <1>1, RecordedBetween, RecordedRead, RecordedAccept, RecordedAnswer,
     RecordedCheckpoint DEF PassStep
<1>2. CASE Environment
  <2>1. ASSUME NEW f \in Paths, Delete(f) \/ \E c \in Contents : Write(f, c) PROVE Recorded'
    <3>1. TypeOK'
      BY <2>1, DeleteType, WriteType DEF Recorded
    <3>2. UNCHANGED <<docs, memory, pass, unrecorded>>
      BY <2>1 DEF Delete, Write, storeVars
    <3> QED
      BY <3>1, <3>2, RecordedKept DEF Recorded, AboutToBeKnown, UploadIsNew
  <2>2. ASSUME NEW p \in Profiles \union {None}, Switch(p) PROVE Recorded'
    BY <2>2, RecordedSwitch
  <2>3. ASSUME NEW p \in Profiles, Repoint(p) PROVE Recorded'
    BY <2>3, RecordedRepoint
  <2> QED
    BY <1>2, <2>1, <2>2, <2>3, RecordedCrash DEF Environment
<1>3. CASE UNCHANGED vars
  <2>1. TypeOK'
    BY <1>3, TypeStep DEF Recorded
  <2>2. UNCHANGED <<docs, memory, pass, unrecorded>>
    BY <1>3 DEF vars, storeVars
  <2> QED
    BY <2>1, <2>2, RecordedKept DEF Recorded, AboutToBeKnown, UploadIsNew
<1> QED
  BY <1>1, <1>2, <1>3 DEF Next

(* An archive gets a content once, unless the import was not confirmed, not saved
   or forgotten. *)
THEOREM ContentsAreSingle == Spec => []OneDocumentPerContent
<1>1. Recorded => OneDocumentPerContent
  BY DEF Recorded
<1> QED
  BY <1>1, RecordedInit, RecordedStep, PTL DEF Spec
=============================================================================
