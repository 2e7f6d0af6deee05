----------------------------- MODULE EmailIngest -----------------------------
(***************************************************************************)
(* The mailbox poller. A poll fetches the oldest unseen copies, and for    *)
(* each one looks its Message-ID up in the ledger (ingested_emails),       *)
(* uploads its attachments one by one, records the outcome and flags the   *)
(* copy seen. A failure while importing leaves the message for the next    *)
(* poll; a failure anywhere else, or a crash, ends the poll where it is.   *)
(***************************************************************************)
EXTENDS Integers, FiniteSets, Sequences

CONSTANTS
    Copies,       \* mailbox uids, increasing; a message may be delivered twice
    Messages,     \* Message-IDs
    MessageOf,    \* the Message-ID of each copy
    Outcome,      \* what the guard makes of each message
    Attachments,  \* how many supported attachments it has
    Limit,        \* MESSAGES_PER_POLL
    LogLimit,     \* EMAIL_INGEST_LOG_LIMIT
    Polls,        \* polls that may be in flight: one per worker
    Faults,       \* which steps may fail
    MaxFaults,    \* bound on failures in a behaviour
    None

ASSUME CopiesAssumption ==
    /\ Copies \subseteq Nat
    /\ MessageOf \in [Copies -> Messages]
ASSUME OutcomeAssumption ==
    /\ Outcome \in [Messages -> {"forbidden", "rejected", "skipped", "imported"}]
    /\ Attachments \in [Messages -> Nat]
    /\ \A m \in Messages : Outcome[m] = "imported" <=> Attachments[m] > 0
ASSUME BoundsAssumption == Limit \in Nat \ {0} /\ LogLimit \in Nat /\ MaxFaults \in Nat
ASSUME FaultsAssumption == Faults \subseteq {"upload", "record", "flag", "crash"}
ASSUME NoneAssumption == None \notin Copies /\ None \notin {"rejected", "skipped", "imported"}

PartsOf(m) == {<<m, i>> : i \in 1..Attachments[m]}
AllParts == UNION {PartsOf(m) : m \in Messages}

VARIABLES
    arrived,   \* copies delivered so far
    seen,      \* copies flagged \Seen
    ledger,    \* the status recorded for each Message-ID
    log,       \* the Message-IDs of rows that are not "imported", oldest first
    created,   \* how many documents each attachment has become
    pc, fetched, todo, current, next,  \* each poll's place, batch and message
    disturbed, \* history: messages whose import failed half way or met another one
    faults

pollVars == <<pc, fetched, todo, current, next>>
vars == <<arrived, seen, ledger, log, created, pollVars, disturbed, faults>>

Init ==
    /\ arrived = {} /\ seen = {}
    /\ ledger = [m \in Messages |-> None]
    /\ log = <<>>
    /\ created = [part \in AllParts |-> 0]
    /\ pc = [p \in Polls |-> "idle"]
    /\ fetched = [p \in Polls |-> {}]
    /\ todo = [p \in Polls |-> {}]
    /\ current = [p \in Polls |-> None]
    /\ next = [p \in Polls |-> 1]
    /\ disturbed = {} /\ faults = 0

-----------------------------------------------------------------------------
Unseen == arrived \ seen
Message(p) == MessageOf[current[p]]
Goto(p, step) == pc' = [pc EXCEPT ![p] = step]

EndPoll(p) ==
    /\ Goto(p, "idle")
    /\ fetched' = [fetched EXCEPT ![p] = {}]
    /\ todo' = [todo EXCEPT ![p] = {}]
    /\ current' = [current EXCEPT ![p] = None]
    /\ next' = [next EXCEPT ![p] = 1]

\* On to the next message of the batch, or to the end of the poll.
NextMessage(p) ==
    /\ next' = [next EXCEPT ![p] = 1]
    /\ UNCHANGED fetched
    /\ IF todo[p] = {}
       THEN /\ Goto(p, "prune")
            /\ current' = [current EXCEPT ![p] = None]
            /\ UNCHANGED todo
       ELSE \E c \in todo[p] :
            /\ \A d \in todo[p] : c <= d
            /\ Goto(p, "lookup")
            /\ current' = [current EXCEPT ![p] = c]
            /\ todo' = [todo EXCEPT ![p] = @ \ {c}]

\* History: the message of p that p, or another poll, is about to import.
Importing(p) == IF pc[p] \in {"upload", "record"} THEN {Message(p)} ELSE {}
ImportedElsewhere(p) == {Message(p)} \intersect UNION {Importing(q) : q \in Polls \ {p}}

Fault(kind) == kind \in Faults /\ faults < MaxFaults /\ faults' = faults + 1

-----------------------------------------------------------------------------
Deliver(c) ==
    /\ c \notin arrived
    /\ arrived' = arrived \union {c}
    /\ UNCHANGED <<seen, ledger, log, created, pollVars, disturbed, faults>>

\* fetchUnprocessed: the first Limit unseen uids.
Fetch(p) ==
    /\ pc[p] = "idle"
    /\ \E batch \in SUBSET Unseen :
        /\ batch # {}
        /\ Cardinality(batch) <= Limit
        /\ Cardinality(batch) < Limit => batch = Unseen
        /\ \A c \in batch, d \in Unseen \ batch : c < d
        /\ fetched' = [fetched EXCEPT ![p] = batch]
        /\ todo' = [todo EXCEPT ![p] = batch]
    /\ Goto(p, "batch")
    /\ UNCHANGED <<arrived, seen, ledger, log, created, current, next, disturbed, faults>>

FirstMessage(p) ==
    /\ pc[p] = "batch"
    /\ NextMessage(p)
    /\ UNCHANGED <<arrived, seen, ledger, log, created, disturbed, faults>>

\* A message already in the ledger is flagged and nothing else.
LookupSkipsFlag(p) ==  \* mutant: a recorded message is only skipped
    /\ pc[p] = "lookup"
    /\ IF ledger[Message(p)] # None
       THEN NextMessage(p)
       ELSE /\ Goto(p, IF Outcome[Message(p)] = "imported" THEN "upload" ELSE "record")
            /\ UNCHANGED <<fetched, todo, current, next>>
    /\ UNCHANGED <<arrived, seen, ledger, log, created, disturbed, faults>>

LookupNothing(p) ==  \* mutant: the flag is trusted, the ledger is not read
    /\ pc[p] = "lookup"
    /\ Goto(p, IF Outcome[Message(p)] = "imported" THEN "upload" ELSE "record")
    /\ UNCHANGED <<arrived, seen, ledger, log, created, fetched, todo, current, next, disturbed, faults>>

Lookup(p) ==
    /\ pc[p] = "lookup"
    /\ Goto(p, IF ledger[Message(p)] # None THEN "flag"
               ELSE IF Outcome[Message(p)] = "imported" THEN "upload"
               ELSE "record")
    /\ disturbed' = disturbed \union ImportedElsewhere(p)
    /\ UNCHANGED <<arrived, seen, ledger, log, created, fetched, todo, current, next, faults>>

\* uploadDocument and the provenance of one attachment: always a new document.
UploadPastEnd(p) ==  \* mutant: off by one
    /\ pc[p] = "upload"
    /\ created' = [created EXCEPT ![<<Message(p), next[p]>>] = @ + 1]
    /\ next' = [next EXCEPT ![p] = @ + 1]
    /\ Goto(p, IF next[p] > Attachments[Message(p)] THEN "record" ELSE "upload")
    /\ UNCHANGED <<arrived, seen, ledger, log, fetched, todo, current, disturbed, faults>>

Upload(p) ==
    /\ pc[p] = "upload"
    /\ created' = [created EXCEPT ![<<Message(p), next[p]>>] = @ + 1]
    /\ next' = [next EXCEPT ![p] = @ + 1]
    /\ Goto(p, IF next[p] = Attachments[Message(p)] THEN "record" ELSE "upload")
    /\ UNCHANGED <<arrived, seen, ledger, log, fetched, todo, current, disturbed, faults>>

\* Any statement of it may fail, before or after the document was inserted.
\* No record and no flag: the next poll retries the message.
UploadFailsFlagged(p) ==  \* mutant: the catch falls through to markProcessed
    /\ Fault("upload")
    /\ pc[p] = "upload"
    /\ Goto(p, "flag")
    /\ UNCHANGED <<arrived, seen, ledger, log, created, fetched, todo, current, next, disturbed>>

UploadFails(p) ==
    /\ Fault("upload")
    /\ pc[p] = "upload"
    /\ \E n \in {0, 1} : created' = [created EXCEPT ![<<Message(p), next[p]>>] = @ + n]
    /\ NextMessage(p)
    /\ disturbed' = disturbed \union Importing(p)
    /\ UNCHANGED <<arrived, seen, ledger, log>>

Status(m) == IF Outcome[m] = "forbidden" THEN "rejected" ELSE Outcome[m]

\* INSERT ... ON CONFLICT DO NOTHING, by Message-ID.
Record(p) ==
    /\ pc[p] = "record"
    /\ IF ledger[Message(p)] = None
       THEN /\ ledger' = [ledger EXCEPT ![Message(p)] = Status(Message(p))]
            /\ log' = IF Outcome[Message(p)] = "imported" THEN log ELSE Append(log, Message(p))
       ELSE UNCHANGED <<ledger, log>>
    /\ Goto(p, "flag")
    /\ UNCHANGED <<arrived, seen, created, fetched, todo, current, next, disturbed, faults>>

\* The record of a forbidden sender is outside the try: its failure ends the poll.
RecordFails(p) ==
    /\ Fault("record")
    /\ pc[p] = "record"
    /\ IF Outcome[Message(p)] = "forbidden" THEN EndPoll(p) ELSE NextMessage(p)
    /\ disturbed' = disturbed \union Importing(p)
    /\ UNCHANGED <<arrived, seen, ledger, log, created>>

MarkBatch(p) ==  \* mutant: the whole batch is flagged with its first message
    /\ pc[p] = "flag"
    /\ seen' = seen \union fetched[p]
    /\ NextMessage(p)
    /\ UNCHANGED <<arrived, ledger, log, created, disturbed, faults>>

\* uidByMessageId keeps the last uid of a Message-ID that was fetched twice.
MarkProcessed(p) ==
    /\ pc[p] = "flag"
    /\ \E c \in fetched[p] :
        /\ MessageOf[c] = Message(p)
        /\ \A d \in fetched[p] : MessageOf[d] = Message(p) => d <= c
        /\ seen' = seen \union {c}
    /\ NextMessage(p)
    /\ UNCHANGED <<arrived, ledger, log, created, disturbed, faults>>

MarkFails(p) ==
    /\ Fault("flag")
    /\ pc[p] = "flag"
    /\ EndPoll(p)
    /\ UNCHANGED <<arrived, seen, ledger, log, created, disturbed>>

\* pruneLog keeps the newest LogLimit rows that are not "imported".
PruneAll(p) ==  \* mutant: imported rows are pruned too
    /\ pc[p] = "prune"
    /\ ledger' = [m \in Messages |-> None]
    /\ log' = <<>>
    /\ EndPoll(p)
    /\ UNCHANGED <<arrived, seen, created, disturbed, faults>>

PruneLog(p) ==
    /\ pc[p] = "prune"
    /\ LET excess == IF Len(log) > LogLimit THEN Len(log) - LogLimit ELSE 0
           old == {log[i] : i \in 1..excess}
       IN  /\ log' = SubSeq(log, excess + 1, Len(log))
           /\ ledger' = [m \in Messages |-> IF m \in old THEN None ELSE ledger[m]]
    /\ EndPoll(p)
    /\ UNCHANGED <<arrived, seen, created, disturbed, faults>>

Crash(p) ==
    /\ Fault("crash")
    /\ pc[p] # "idle"
    /\ EndPoll(p)
    /\ disturbed' = disturbed \union Importing(p)
    /\ UNCHANGED <<arrived, seen, ledger, log, created>>

-----------------------------------------------------------------------------
PollStep(p) ==
    \/ Fetch(p) \/ FirstMessage(p) \/ Lookup(p) \/ Upload(p)
    \/ Record(p) \/ MarkProcessed(p) \/ PruneLog(p)

FaultStep(p) == UploadFails(p) \/ RecordFails(p) \/ MarkFails(p) \/ Crash(p)

Next ==
    \/ \E c \in Copies : Deliver(c)
    \/ \E p \in Polls : PollStep(p) \/ FaultStep(p)

Spec == Init /\ [][Next]_vars

\* The cron keeps polling, and a poll that does not fail goes on to its end.
FairSpec == Spec /\ \A p \in Polls : WF_vars(PollStep(p))

-----------------------------------------------------------------------------
Steps == {"batch", "lookup", "upload", "record", "flag", "prune"}

\* Types; a poll past its lookup has a message, and while it uploads, one of
\* that message's attachments.
TypeOK ==
    /\ arrived \subseteq Copies /\ seen \subseteq arrived
    /\ ledger \in [Messages -> {None, "rejected", "skipped", "imported"}]
    /\ log \in Seq(Messages)
    /\ created \in [AllParts -> Nat]
    /\ pc \in [Polls -> {"idle"} \union Steps]
    /\ fetched \in [Polls -> SUBSET arrived] /\ todo \in [Polls -> SUBSET arrived]
    /\ \A p \in Polls : todo[p] \subseteq fetched[p]
    /\ current \in [Polls -> Copies \union {None}]
    /\ next \in [Polls -> Nat \ {0}]
    /\ disturbed \subseteq Messages /\ faults \in 0..MaxFaults
    /\ \A p \in Polls :
        /\ pc[p] \in {"lookup", "upload", "record", "flag"} => current[p] \in fetched[p]
        /\ pc[p] = "lookup" => next[p] = 1
        /\ pc[p] = "upload" => next[p] \in 1..Attachments[Message(p)]

\* A message the poller will not look at again has been dealt with: if it has
\* supported attachments, each of them became a document and the ledger says so.
NothingLost ==
    \A c \in seen : Outcome[MessageOf[c]] = "imported" =>
        /\ ledger[MessageOf[c]] = "imported"
        /\ \A part \in PartsOf(MessageOf[c]) : created[part] > 0

\* "A message is processed at most once, no matter how often the poller sees it":
\* through lost flags, duplicate deliveries, pruning, and crashes at any other time,
\* unless its own import fails half way or meets another poll's.
OnceUnlessDisturbed ==
    \A m \in Messages \ disturbed : \A part \in PartsOf(m) : created[part] <= 1

\* Batches, retries, duplicate deliveries, pruning and crashes all come down to
\* filing the parts of delivered messages and putting a copy away after the last:
\* the poller implements the inbox a user thinks of.
Abstract ==
    INSTANCE Inbox WITH
        handled <- seen,
        filed <- {part \in AllParts : created[part] > 0},
        Parts <- [m \in Messages |-> PartsOf(m)]

ImplementsInbox == Abstract!Spec

\* Every delivered copy is handled in the end: failures delay a message and
\* never strand it or the messages behind it.
EveryMessageHandled == \A c \in Copies : c \in arrived ~> c \in seen
=============================================================================
