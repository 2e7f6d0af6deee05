----------------------------- MODULE WatchFolder -----------------------------
(***************************************************************************)
(* A folder on the workstation that the desktop application imports from.  *)
(* A pass lists the folder, stats each file, reads it once it is settled   *)
(* and uploads it to the archive of the connected profile; a checkpoint    *)
(* then says that the path, at the size and modification time it had       *)
(* before it was read, is in that archive. Files are written, sessions     *)
(* change and the application quits while a pass is under way.             *)
(*                                                                         *)
(* A stamp is a size and a modification time: a path never has the same    *)
(* one for two contents. One folder, watched for every profile.            *)
(***************************************************************************)
EXTENDS Naturals, FiniteSets

CONSTANTS
    Profiles, None,  \* archive profiles; no session
    Paths,           \* paths of files in the folder
    Contents,        \* what a file may contain
    MaxWrites,       \* bound on writes to the folder
    MaxPrints,       \* MAX_FINGERPRINTS_PER_PROFILE
    MaxSums,         \* MAX_CHECKSUMS_PER_PROFILE
    MaxAttempts,     \* MAX_UPLOAD_ATTEMPTS
    MaxMishaps,      \* bound on quits, crashes and profiles pointed at another server
    Many,            \* bound on the documents of one content that are told apart
    Faults           \* which failures occur

ASSUME NoneAssumption == None \notin Profiles \union Contents \union Paths
ASSUME BoundsAssumption ==
    /\ {MaxWrites, MaxMishaps} \subseteq Nat
    /\ {MaxPrints, MaxSums, MaxAttempts} \subseteq Nat \ {0}
    /\ Many \in Nat \ {0, 1}
ASSUME FaultsAssumption == Faults \subseteq {"read", "net", "answer", "reject", "write", "elsewhere"}

Never == 0  \* no stamp, and the age of what is not remembered

VARIABLES
    file,       \* each path: its stamp and content
    writes,     \* how many files were written
    connected,  \* the profile of the active session
    memory,     \* the store's profiles: checkpoints by path, checksums
    saved,      \* desktop-watch-folders.json
    observed,   \* each path: the stamp last observed
    attempts,   \* each path: uploads that may be tried again
    abandoned,  \* each path: the stamp given up on
    pass,       \* the pass under way
    docs,       \* how many documents of a content the archive of a profile has
    mishaps,    \* how many quits, crashes and repoints there were
    moved,      \* history: profiles whose checkpoints are of another server
    unrecorded  \* history: documents the profile does not remember importing

pathVars == <<observed, attempts, abandoned>>
storeVars == <<memory, saved>>
vars == <<file, writes, connected, storeVars, pathVars, pass, docs, mishaps, moved, unrecorded>>

NoFile == [stamp |-> Never, content |-> None]
NoPass == [at |-> "idle", profile |-> None, left |-> {}, path |-> None, live |-> FALSE,
           stamp |-> Never, content |-> None]

\* What is remembered has an age: 1 for the newest, Never for what is not.
Forgotten == [ages |-> [f \in Paths |-> Never], stamps |-> [f \in Paths |-> Never],
              sums |-> [c \in Contents |-> Never]]

ForgetPaths ==
    /\ observed' = [f \in Paths |-> Never]
    /\ attempts' = [f \in Paths |-> 0]
    /\ abandoned' = [f \in Paths |-> Never]

Init ==
    /\ file = [f \in Paths |-> NoFile] /\ writes = 0
    /\ connected = None
    /\ memory = [p \in Profiles |-> Forgotten] /\ saved = memory
    /\ observed = [f \in Paths |-> Never]
    /\ attempts = [f \in Paths |-> 0]
    /\ abandoned = [f \in Paths |-> Never]
    /\ pass = NoPass
    /\ docs = [p \in Profiles |-> [c \in Contents |-> 0]]
    /\ mishaps = 0
    /\ moved = {} /\ unrecorded = {}

-----------------------------------------------------------------------------
(* The store.                                                              *)

\* trimByAge: k becomes the newest of at most n.
Touch(ages, k, n) ==
    [j \in DOMAIN ages |->
        IF j = k THEN 1
        ELSE IF ages[j] = Never \/ (ages[k] # Never /\ ages[k] < ages[j]) THEN ages[j]
        ELSE IF ages[j] < n THEN ages[j] + 1 ELSE Never]

Checkpointed(p, f, s) == memory[p].ages[f] # Never /\ memory[p].stamps[f] = s
KnowsSaved(p, c) == saved[p].sums[c] # Never  \* mutant: each pass asks the file
Knows(p, c) == memory[p].sums[c] # Never

\* A write that fails leaves the memory changed and the file as it was.
Save == saved' = memory' \/ ("write" \in Faults /\ UNCHANGED saved)

\* Documents that a profile with these checkpoints does not remember importing.
UnrecordedBy(store) ==
    unrecorded \union
        {pc \in Profiles \X Contents : docs[pc[1]][pc[2]] > 0 /\ store[pc[1]].sums[pc[2]] = Never}

-----------------------------------------------------------------------------
(* A pass, one action for what happens between two awaits.                  *)

Goto(step) == pass' = [pass EXCEPT !.at = step]
OutsideStore == <<file, writes, connected, docs, mishaps, moved>>

\* scan and the start of runScan; there is one pass at a time.
StartPass ==
    /\ pass.at = "idle"
    /\ connected # None
    /\ pass' = [NoPass EXCEPT !.at = "next", !.profile = connected,
                              !.left = {f \in Paths : file[f] # NoFile}]
    /\ UNCHANGED <<OutsideStore, storeVars, pathVars, unrecorded>>

TakeEntry ==
    /\ pass.at = "next" /\ pass.left # {} /\ connected = pass.profile
    /\ \E f \in pass.left :
         pass' = [pass EXCEPT !.at = "stat", !.path = f, !.left = @ \ {f}]
    /\ UNCHANGED <<OutsideStore, storeVars, pathVars, unrecorded>>

EndPass ==
    /\ pass.at = "next" /\ (pass.left = {} \/ connected # pass.profile)
    /\ pass' = NoPass
    /\ UNCHANGED <<OutsideStore, storeVars, pathVars, unrecorded>>

NextEntry == [pass EXCEPT !.at = "next", !.path = None, !.live = FALSE,
                          !.stamp = Never, !.content = None]

\* considerEntry up to the upload. The timer's interval is longer than settleMs:
\* a file is settled if the pass before saw the same stamp.
Stat ==
    /\ pass.at = "stat"
    /\ LET f == pass.path IN
       \/ /\ file[f] = NoFile
          /\ observed' = [observed EXCEPT ![f] = Never]
          /\ pass' = NextEntry
       \/ /\ file[f] # NoFile /\ Checkpointed(pass.profile, f, file[f].stamp)
          /\ pass' = NextEntry
          /\ UNCHANGED observed
       \/ /\ file[f] # NoFile /\ ~Checkpointed(pass.profile, f, file[f].stamp)
          /\ observed' = [observed EXCEPT ![f] = file[f].stamp]
          /\ pass' = IF observed[f] # file[f].stamp \/ abandoned[f] = file[f].stamp THEN NextEntry
                     ELSE [pass EXCEPT !.stamp = file[f].stamp,
                                       !.live = (connected = pass.profile),
                                       !.at = IF connected = pass.profile
                                              THEN "read" ELSE "retry"]
    /\ UNCHANGED <<OutsideStore, storeVars, attempts, abandoned, unrecorded>>

\* upload: the content read is the file's now, whatever it was at the stat. A file
\* that is gone, locked or being resized may be read later.
Read ==
    /\ pass.at = "read"
    /\ LET c == file[pass.path].content IN
       \/ (file[pass.path] = NoFile \/ "read" \in Faults) /\ Goto("retry")
       \/ file[pass.path] # NoFile /\ "reject" \in Faults /\ Goto("rejected")
       \/ /\ file[pass.path] # NoFile
          /\ pass' = [pass EXCEPT !.content = c,
                                  !.at = IF Knows(pass.profile, c) THEN "checkpoint"
                                         ELSE IF pass.live THEN "post" ELSE "retry"]
    /\ UNCHANGED <<OutsideStore, storeVars, pathVars, unrecorded>>

\* The server makes a document of every upload, also of a content it has.
Accept ==
    /\ pass.at = "post"
    /\ docs' = [docs EXCEPT ![pass.profile][pass.content] = IF @ < Many THEN @ + 1 ELSE @]
    /\ Goto("created")
    /\ UNCHANGED <<file, writes, connected, mishaps, moved, storeVars, pathVars, unrecorded>>

Confirm ==
    /\ pass.at = "created"
    /\ Goto("checkpoint")
    /\ UNCHANGED <<OutsideStore, storeVars, pathVars, unrecorded>>

\* The request does not arrive, is refused for now or for good, or its answer is lost.
UploadFails ==
    /\ \/ pass.at = "post" /\ "net" \in Faults /\ Goto("retry") /\ UNCHANGED unrecorded
       \/ pass.at = "post" /\ "reject" \in Faults /\ Goto("rejected") /\ UNCHANGED unrecorded
       \/ /\ pass.at = "created" /\ "answer" \in Faults /\ Goto("retry")
          /\ unrecorded' = unrecorded \union {<<pass.profile, pass.content>>}
    /\ UNCHANGED <<OutsideStore, storeVars, pathVars>>

GiveUp(f) ==
    /\ attempts' = [attempts EXCEPT ![f] = 0]
    /\ abandoned' = [abandoned EXCEPT ![f] = pass.stamp]

RetryForever ==  \* mutant: nothing counts the attempts
    /\ pass.at = "retry"
    /\ UNCHANGED memory /\ Save
    /\ pass' = NextEntry
    /\ UNCHANGED <<OutsideStore, pathVars, unrecorded>>

RetryOnceMore ==  \* mutant: off by one, and the count is never reset
    /\ pass.at = "retry"
    /\ attempts' = [attempts EXCEPT ![pass.path] = @ + 1]
    /\ abandoned' = [abandoned EXCEPT ![pass.path] =
                        IF attempts[pass.path] >= MaxAttempts THEN pass.stamp ELSE @]
    /\ UNCHANGED memory /\ Save
    /\ pass' = NextEntry
    /\ UNCHANGED <<OutsideStore, observed, unrecorded>>

\* The event is recorded with the first attempt and the last.
Retry ==
    /\ pass.at = "retry"
    /\ LET attempt == attempts[pass.path] + 1 IN
       \/ /\ attempt >= MaxAttempts
          /\ GiveUp(pass.path) /\ UNCHANGED memory /\ Save
       \/ /\ attempt < MaxAttempts
          /\ attempts' = [attempts EXCEPT ![pass.path] = attempt]
          /\ UNCHANGED <<abandoned, memory>>
          /\ IF attempt = 1 THEN Save ELSE UNCHANGED saved
    /\ pass' = NextEntry
    /\ UNCHANGED <<OutsideStore, observed, unrecorded>>

Reject ==
    /\ pass.at = "rejected"
    /\ GiveUp(pass.path) /\ UNCHANGED memory /\ Save
    /\ pass' = NextEntry
    /\ UNCHANGED <<OutsideStore, observed, unrecorded>>

\* recordImported and the event after it, which saves nothing more: if the first
\* write fails, the entry ends there.
CheckpointAs(stamp) ==
    LET p == pass.profile
        f == pass.path
        ages == Touch(memory[p].ages, f, MaxPrints)
    IN  /\ pass.at = "checkpoint"
        /\ attempts' = [attempts EXCEPT ![f] = 0]
        /\ abandoned' = [abandoned EXCEPT ![f] = Never]
        /\ memory' = [memory EXCEPT ![p] =
              [ages |-> ages,
               stamps |-> [g \in Paths |-> IF g = f THEN stamp
                                           ELSE IF ages[g] = Never THEN Never
                                           ELSE memory[p].stamps[g]],
               sums |-> Touch(memory[p].sums, pass.content, MaxSums)]]
        /\ Save
        /\ unrecorded' = UnrecordedBy(memory')
        /\ pass' = NextEntry
        /\ UNCHANGED <<OutsideStore, observed>>

CheckpointRestated ==  \* mutant: the file is examined after the upload
    pass.at = "checkpoint" /\ CheckpointAs(file[pass.path].stamp)

Checkpoint == CheckpointAs(pass.stamp)

PassStep ==
    \/ StartPass \/ TakeEntry \/ EndPass \/ Stat \/ Read
    \/ Accept \/ Confirm \/ UploadFails \/ Retry \/ Reject \/ Checkpoint

-----------------------------------------------------------------------------
(* The folder, the clock, the session and the application.                 *)

Write(f, c) ==
    /\ writes < MaxWrites
    /\ writes' = writes + 1
    /\ file' = [file EXCEPT ![f] = [stamp |-> writes + 1, content |-> c]]
    /\ UNCHANGED <<connected, storeVars, pathVars, pass, docs, mishaps, moved, unrecorded>>

Delete(f) ==
    /\ file[f] # NoFile
    /\ file' = [file EXCEPT ![f] = NoFile]
    /\ UNCHANGED <<writes, connected, storeVars, pathVars, pass, docs, mishaps, moved,
                   unrecorded>>

\* The signal of the old session ends an upload; an upload whose answer has begun
\* to arrive counts as accepted.
Aborted ==
    \/ pass.at = "read" /\ pass' = [pass EXCEPT !.live = FALSE]
    \/ pass.at \in {"post", "created"} /\ Goto("retry")
    \/ pass.at = "created" /\ Goto("checkpoint")
    \/ pass.at \notin {"read", "post", "created"} /\ UNCHANGED pass

Unconfirmed ==
    IF pass.at = "created" /\ pass'.at = "retry" THEN {<<pass.profile, pass.content>>} ELSE {}

Switch(p) ==
    /\ connected # p
    /\ connected' = p
    /\ Aborted
    /\ unrecorded' = unrecorded \union Unconfirmed
    /\ UNCHANGED <<file, writes, storeVars, pathVars, docs, mishaps, moved>>

\* connect with another server for the profile, whose archive has nothing from
\* here. Its checkpoints are forgotten if it was the profile connected.
Repoint(p) ==
    /\ mishaps < MaxMishaps /\ mishaps' = mishaps + 1
    /\ connected = p \/ "elsewhere" \in Faults
    /\ connected' = p
    /\ Aborted
    /\ docs' = [docs EXCEPT ![p] = [c \in Contents |-> 0]]
    /\ unrecorded' = {pc \in unrecorded \union Unconfirmed : pc[1] # p}
    /\ IF connected = p
       THEN memory' = [memory EXCEPT ![p] = Forgotten] /\ Save
       ELSE UNCHANGED storeVars
    /\ moved' = IF memory'[p] # Forgotten \/ saved'[p] # Forgotten
                     \/ (pass'.profile = p /\ pass'.at = "checkpoint")
                THEN moved \union {p} ELSE moved
    /\ UNCHANGED <<file, writes, pathVars>>

\* The application quits, in the middle of a pass or not, and is started again.
Crash ==
    /\ mishaps < MaxMishaps /\ mishaps' = mishaps + 1
    /\ connected' = None
    /\ pass' = NoPass
    /\ memory' = saved
    /\ unrecorded' = UnrecordedBy(saved)
    /\ ForgetPaths
    /\ UNCHANGED <<file, writes, saved, docs, moved>>

Environment ==
    \/ \E f \in Paths : Delete(f) \/ \E c \in Contents : Write(f, c)
    \/ \E p \in Profiles \union {None} : Switch(p)
    \/ \E p \in Profiles : Repoint(p)
    \/ Crash

Next == PassStep \/ Environment

Spec == Init /\ [][Next]_vars

FairSpec == Spec /\ WF_vars(PassStep)

-----------------------------------------------------------------------------
Stores == [ages : [Paths -> Nat], stamps : [Paths -> Nat], sums : [Contents -> Nat]]
PassSteps ==
    {"idle", "next", "stat", "read", "post", "created", "retry", "rejected", "checkpoint"}
Passes == [at : PassSteps, profile : Profiles \union {None}, left : SUBSET Paths,
           path : Paths \union {None}, live : BOOLEAN, stamp : Nat,
           content : Contents \union {None}]

\* Types; an upload has a path and a profile, and from "post" on a content.
TypeOK ==
    /\ file \in [Paths -> [stamp : Nat, content : Contents \union {None}]]
    /\ \A f \in Paths : file[f] # NoFile => file[f].content \in Contents
    /\ writes \in Nat
    /\ connected \in Profiles \union {None}
    /\ memory \in [Profiles -> Stores] /\ saved \in [Profiles -> Stores]
    /\ observed \in [Paths -> Nat]
    /\ attempts \in [Paths -> 0..(MaxAttempts - 1)]
    /\ abandoned \in [Paths -> Nat]
    /\ pass \in Passes
    /\ pass.at # "idle" => pass.profile \in Profiles
    /\ pass.at \notin {"idle", "next"} => pass.path \in Paths
    /\ pass.at \in {"post", "created", "checkpoint"} => pass.content \in Contents
    /\ docs \in [Profiles -> [Contents -> 0..Many]]
    /\ mishaps \in Nat
    /\ moved \subseteq Profiles /\ unrecorded \subseteq Profiles \X Contents

SkippedIsFiledFor(p) ==
    \A f \in Paths : file[f] # NoFile /\ Checkpointed(p, f, file[f].stamp)
                        => docs[p][file[f].content] > 0

\* A file that a pass skips as imported is in the archive it is skipped for, with
\* the content it has now, however writes to it and the upload interleaved; except
\* for a profile whose checkpoints came from another server.
SkippedIsFiled == \A p \in Profiles \ moved : SkippedIsFiledFor(p)

\* "a profile pointed at a different server is a different archive, so its import
\* checkpoints no longer apply": no exception.
CheckpointsApply == \A p \in Profiles : SkippedIsFiledFor(p)

\* "renaming or copying a document you already imported does not create a second
\* one": an archive gets a content twice only if the first time was not confirmed
\* and saved, or was forgotten for newer ones.
OneDocumentPerContent ==
    \A p \in Profiles, c \in Contents : docs[p][c] > 1 => <<p, c>> \in unrecorded

Settled(p, f) == Checkpointed(p, f, file[f].stamp) \/ abandoned[f] = file[f].stamp

\* Every file there can have a checkpoint.
Room == Cardinality({f \in Paths : file[f] # NoFile}) <= MaxPrints

\* A file that is there, while one session stays, is in the end remembered as
\* imported or given up on as it is, however uploads of it fail. Files that are more
\* than the checkpoints kept take them from each other: then each is settled again
\* and again, but need not stay so.
FileSettles ==
    \A p \in Profiles, f \in Paths :
        <>[](connected = p /\ file[f] # NoFile)
            => []<>Settled(p, f) /\ (<>[]Room => <>[]Settled(p, f))
=============================================================================
