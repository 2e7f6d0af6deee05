-------------------------- MODULE EmailIngestProofs --------------------------
(***************************************************************************)
(* NothingLost for any mailbox, guard, limits, number of polls and faults. *)
(* What makes it inductive is what a poll knows at each statement          *)
(* (PollKnows) and what a ledger row stands for (LedgerIsTrue); pruning    *)
(* keeps that because the log holds no imported message (LogIsPrunable).   *)
(* Then at most one document for each attachment of a message that is not  *)
(* disturbed, and the implementation of the inbox.                         *)
(***************************************************************************)
EXTENDS EmailIngest, TLAPS

Importable(m) == Outcome[m] = "imported"

Filed(m) == \A part \in PartsOf(m) : created[part] > 0

LedgerIsTrue ==
    \A m \in Messages : Importable(m) /\ ledger[m] # None => ledger[m] = "imported" /\ Filed(m)

LogIsPrunable == \A i \in 1..Len(log) : ~Importable(log[i])

Knows(p) ==
    /\ pc[p] = "upload" => \A i \in 1..(next[p] - 1) : created[<<Message(p), i>>] > 0
    /\ pc[p] = "record" /\ Importable(Message(p)) => Filed(Message(p))
    /\ pc[p] = "flag" /\ Importable(Message(p)) =>
           ledger[Message(p)] = "imported" /\ Filed(Message(p))

PollKnows == \A p \in Polls : Knows(p)

IInv == TypeOK /\ LedgerIsTrue /\ LogIsPrunable /\ PollKnows /\ NothingLost

LEMMA InitIInv == Init => IInv
  BY NoneAssumption, BoundsAssumption
  DEF Init, IInv, TypeOK, LedgerIsTrue, LogIsPrunable, PollKnows, Knows, NothingLost, Steps

(* Steps of the poll share two ways on, to the next message and to the end. *)
LEMMA NextMessageTypeOK ==
  ASSUME TypeOK, NEW p \in Polls, NextMessage(p), seen' \subseteq arrived,
         seen \subseteq seen', UNCHANGED <<arrived, ledger, log>>,
         created' \in [AllParts -> Nat], disturbed' \subseteq Messages,
         faults' \in 0..MaxFaults
  PROVE  TypeOK'
<1>1. CASE todo[p] = {}
  <2>1. /\ pc' = [pc EXCEPT ![p] = "prune"] /\ current' = [current EXCEPT ![p] = None]
        /\ next' = [next EXCEPT ![p] = 1] /\ UNCHANGED <<fetched, todo>>
    BY <1>1 DEF NextMessage, Goto
  <2>2. pc' \in [Polls -> {"idle"} \union Steps] /\ current' \in [Polls -> Copies \union {None}]
    BY <2>1 DEF TypeOK, Steps
  <2>3. \A q \in Polls : pc'[q] \in {"lookup", "upload", "record", "flag"} =>
           q # p /\ pc'[q] = pc[q] /\ current'[q] = current[q] /\ next'[q] = next[q]
    BY <2>1 DEF TypeOK
  <2> QED
    BY <2>1, <2>2, <2>3 DEF TypeOK, Message
<1>2. ASSUME NEW c \in todo[p], Goto(p, "lookup"),
             current' = [current EXCEPT ![p] = c], todo' = [todo EXCEPT ![p] = @ \ {c}]
      PROVE  TypeOK'
  <2>1. c \in fetched[p] /\ c \in Copies
    BY DEF TypeOK
  <2>2. todo' \in [Polls -> SUBSET arrived] /\ \A q \in Polls : todo'[q] \subseteq fetched[q]
    BY <1>2 DEF TypeOK
  <2>3. current' \in [Polls -> Copies \union {None}]
    BY <1>2, <2>1 DEF TypeOK
  <2>4. next' = [next EXCEPT ![p] = 1] /\ fetched' = fetched
    BY DEF NextMessage
  <2> QED
    BY <1>2, <2>1, <2>2, <2>3, <2>4 DEF TypeOK, Goto, Steps, Message
<1> QED
  BY <1>1, <1>2 DEF NextMessage

LEMMA EndPollTypeOK ==
  ASSUME TypeOK, NEW p \in Polls, EndPoll(p), UNCHANGED <<arrived, seen>>,
         ledger' \in [Messages -> {None, "rejected", "skipped", "imported"}],
         log' \in Seq(Messages), created' \in [AllParts -> Nat], disturbed' \subseteq Messages,
         faults' \in 0..MaxFaults
  PROVE  TypeOK'
  BY NoneAssumption DEF TypeOK, EndPoll, Goto, Steps, Message

LEMMA PartIsPart ==
  ASSUME TypeOK, NEW p \in Polls, pc[p] = "upload"
  PROVE  /\ Message(p) \in Messages
         /\ <<Message(p), next[p]>> \in PartsOf(Message(p))
         /\ <<Message(p), next[p]>> \in AllParts
<1>1. Message(p) \in Messages
  BY CopiesAssumption DEF TypeOK, Message
<1>2. <<Message(p), next[p]>> \in PartsOf(Message(p))
  BY DEF TypeOK, PartsOf
<1> QED
  BY <1>1, <1>2 DEF AllParts

LEMMA ImportingTypes ==
  ASSUME TypeOK, NEW p \in Polls
  PROVE  /\ Importing(p) \subseteq Messages
         /\ ImportedElsewhere(p) \subseteq Messages
<1>1. ASSUME NEW q \in Polls PROVE Importing(q) \subseteq Messages
  BY CopiesAssumption DEF TypeOK, Importing, Message
<1> QED
  BY <1>1 DEF ImportedElsewhere

LEMMA NextTypeOK == TypeOK /\ [Next]_vars => TypeOK'
<1> SUFFICES ASSUME TypeOK, [Next]_vars PROVE TypeOK'
  OBVIOUS
<1>1. ASSUME NEW c \in Copies, Deliver(c) PROVE TypeOK'
  BY <1>1 DEF Deliver, TypeOK, pollVars, Message
<1>2. ASSUME NEW p \in Polls, Fetch(p) PROVE TypeOK'
  BY <1>2 DEF Fetch, TypeOK, Goto, Unseen, Steps, Message
<1>3. ASSUME NEW p \in Polls, FirstMessage(p) PROVE TypeOK'
  BY <1>3, NextMessageTypeOK DEF FirstMessage, TypeOK
<1>4. ASSUME NEW p \in Polls, Lookup(p) PROVE TypeOK'
  <2>1. current[p] \in Copies /\ Message(p) \in Messages
    BY <1>4, CopiesAssumption DEF Lookup, TypeOK, Message
  <2>2. Outcome[Message(p)] = "imported" => 1 \in 1..Attachments[Message(p)]
    BY <2>1, OutcomeAssumption
  <2>3. disturbed' \subseteq Messages
    BY <1>4, ImportingTypes DEF Lookup, TypeOK
  <2> QED
    BY <1>4, <2>1, <2>2, <2>3 DEF Lookup, TypeOK, Goto, Steps, Message
<1>5. ASSUME NEW p \in Polls, Upload(p) PROVE TypeOK'
  <2>1. <<Message(p), next[p]>> \in AllParts /\ Attachments[Message(p)] \in Nat
    BY <1>5, PartIsPart, OutcomeAssumption DEF Upload
  <2>2. created' \in [AllParts -> Nat]
    BY <1>5, <2>1 DEF Upload, TypeOK
  <2> QED
    BY <1>5, <2>1, <2>2 DEF Upload, TypeOK, Goto, Steps, Message
<1>6. ASSUME NEW p \in Polls, Record(p) PROVE TypeOK'
  <2>1. Message(p) \in Messages
    BY <1>6, CopiesAssumption DEF Record, TypeOK, Message
  <2>2. ledger' \in [Messages -> {None, "rejected", "skipped", "imported"}]
    BY <1>6, <2>1, OutcomeAssumption DEF Record, TypeOK, Status
  <2>3. log' \in Seq(Messages)
    <3>1. Append(log, Message(p)) \in Seq(Messages)
      BY <2>1 DEF TypeOK
    <3> QED
      BY <1>6, <3>1 DEF Record, TypeOK
  <2> QED
    BY <1>6, <2>2, <2>3 DEF Record, TypeOK, Goto, Steps, Message
<1>7. ASSUME NEW p \in Polls, MarkProcessed(p) PROVE TypeOK'
  <2>1. seen' \subseteq arrived /\ seen \subseteq seen'
    BY <1>7 DEF MarkProcessed, TypeOK
  <2> QED
    BY <1>7, <2>1, NextMessageTypeOK DEF MarkProcessed, TypeOK
<1>8. ASSUME NEW p \in Polls, PruneLog(p) PROVE TypeOK'
  <2>1. log' \in Seq(Messages)
    BY <1>8, BoundsAssumption DEF PruneLog, TypeOK
  <2>2. ledger' \in [Messages -> {None, "rejected", "skipped", "imported"}]
    BY <1>8 DEF PruneLog, TypeOK
  <2> QED
    BY <1>8, <2>1, <2>2, EndPollTypeOK DEF PruneLog, TypeOK
<1>9. ASSUME NEW p \in Polls, UploadFails(p) PROVE TypeOK'
  <2>1. created' \in [AllParts -> Nat]
    <3>1. PICK n \in {0, 1} : created' = [created EXCEPT ![<<Message(p), next[p]>>] = @ + n]
      BY <1>9 DEF UploadFails
    <3>2. <<Message(p), next[p]>> \in AllParts
      BY <1>9, PartIsPart DEF UploadFails
    <3> QED
      BY <3>1, <3>2 DEF TypeOK
  <2>2. NextMessage(p) /\ UNCHANGED <<arrived, seen, ledger, log>> /\ faults' \in 0..MaxFaults
    BY <1>9, BoundsAssumption DEF UploadFails, Fault, TypeOK
  <2>3. seen \subseteq arrived /\ disturbed' \subseteq Messages
    BY <1>9, ImportingTypes DEF UploadFails, TypeOK
  <2> QED
    BY <2>1, <2>2, <2>3, NextMessageTypeOK
<1>10. ASSUME NEW p \in Polls, RecordFails(p) PROVE TypeOK'
  <2>1. NextMessage(p) \/ EndPoll(p)
    BY <1>10 DEF RecordFails
  <2>2. faults' \in 0..MaxFaults /\ UNCHANGED <<arrived, seen, ledger, log, created>>
    BY <1>10, BoundsAssumption DEF RecordFails, Fault, TypeOK
  <2>3. /\ seen' \subseteq arrived /\ seen \subseteq seen' /\ log' \in Seq(Messages)
        /\ ledger' \in [Messages -> {None, "rejected", "skipped", "imported"}]
        /\ created' \in [AllParts -> Nat] /\ disturbed' \subseteq Messages
    BY <1>10, <2>2, ImportingTypes DEF RecordFails, TypeOK
  <2> QED
    BY <2>1, <2>2, <2>3, NextMessageTypeOK, EndPollTypeOK
<1>11. ASSUME NEW p \in Polls, MarkFails(p) \/ Crash(p) PROVE TypeOK'
  <2>1. disturbed' \subseteq Messages
    BY <1>11, ImportingTypes DEF MarkFails, Crash, TypeOK
  <2>2. EndPoll(p) /\ faults' \in 0..MaxFaults /\ UNCHANGED <<arrived, seen, ledger, log, created>>
    BY <1>11, BoundsAssumption DEF MarkFails, Crash, Fault, TypeOK
  <2>3. /\ log' \in Seq(Messages) /\ created' \in [AllParts -> Nat]
        /\ ledger' \in [Messages -> {None, "rejected", "skipped", "imported"}]
    BY <2>2 DEF TypeOK
  <2> QED
    BY <2>1, <2>2, <2>3, EndPollTypeOK
<1>12. CASE UNCHANGED vars
  BY <1>12 DEF vars, pollVars, TypeOK, Message
<1> QED
  BY <1>1, <1>2, <1>3, <1>4, <1>5, <1>6, <1>7, <1>8, <1>9, <1>10, <1>11, <1>12
  DEF Next, PollStep, FaultStep

(* Documents are only added, and no imported row goes: what was true stays. *)
Grows ==
    /\ \A part \in AllParts : created'[part] >= created[part]
    /\ \A m \in Messages : Importable(m) /\ ledger[m] = "imported" => ledger'[m] = "imported"

LEMMA FiledStays == ASSUME TypeOK, TypeOK', Grows, NEW m \in Messages, Filed(m) PROVE Filed(m)'
<1>1. PartsOf(m) \subseteq AllParts
  BY DEF AllParts
<1>2. \A part \in AllParts : created[part] \in Nat /\ created'[part] \in Nat
  BY DEF TypeOK
<1> QED
  BY <1>1, <1>2 DEF Grows, Filed, PartsOf

LEMMA OthersKnow ==
  ASSUME IInv, TypeOK', Grows, NEW p \in Polls, NEW q \in Polls,
         pc'[q] = pc[q], current'[q] = current[q], next'[q] = next[q]
  PROVE  Knows(q)'
<1>1. Knows(q) /\ Message(q)' = Message(q)
  BY DEF IInv, PollKnows, Message
<1>2. CASE pc[q] = "upload"
  <2>1. \A i \in 1..(next[q] - 1) : <<Message(q), i>> \in AllParts
    <3>1. Message(q) \in Messages
      BY <1>2, CopiesAssumption DEF IInv, TypeOK, Message
    <3>2. next[q] \in 1..Attachments[Message(q)] /\ Attachments[Message(q)] \in Nat
      BY <1>2, <3>1, OutcomeAssumption DEF IInv, TypeOK
    <3>3. \A i \in 1..(next[q] - 1) : i \in 1..Attachments[Message(q)]
      BY <3>2
    <3>4. \A i \in 1..(next[q] - 1) : <<Message(q), i>> \in PartsOf(Message(q))
      BY <3>3 DEF PartsOf
    <3> QED
      BY <3>1, <3>4 DEF AllParts
  <2>2. \A i \in 1..(next[q] - 1) : created[<<Message(q), i>>] > 0
    BY <1>1, <1>2 DEF Knows
  <2>3. \A part \in AllParts : created[part] \in Nat /\ created'[part] \in Nat
    BY DEF IInv, TypeOK
  <2>4. \A i \in 1..(next[q] - 1) : created'[<<Message(q), i>>] > 0
    BY <2>1, <2>2, <2>3 DEF Grows
  <2> QED
    BY <1>1, <1>2, <2>4 DEF Knows
<1>3. CASE pc[q] \in {"record", "flag"}
  <2>1. Message(q) \in Messages
    BY <1>3, CopiesAssumption DEF IInv, TypeOK, Message
  <2>2. Filed(Message(q)) => Filed(Message(q))'
    <3> DEFINE m == Message(q)
    <3>1. m \in Messages /\ m' = m
      BY <2>1, <1>1
    <3>2. PartsOf(m) \subseteq AllParts /\ PartsOf(m)' = PartsOf(m)
      BY <3>1 DEF AllParts, PartsOf
    <3>3. \A part \in AllParts : created[part] \in Nat /\ created'[part] \in Nat
      BY DEF IInv, TypeOK
    <3> QED
      BY <1>1, <2>1, <3>2, <3>3 DEF Grows, Filed, PartsOf
  <2> QED
    BY <1>1, <1>3, <2>1, <2>2 DEF Knows, Grows, Importable
<1>4. CASE pc[q] \notin {"upload", "record", "flag"}
  BY <1>4 DEF Knows
<1> QED
  BY <1>2, <1>3, <1>4

LEMMA LedgerStays ==
  ASSUME IInv, TypeOK', Grows, UNCHANGED <<ledger, log, seen>>
  PROVE  LedgerIsTrue' /\ LogIsPrunable' /\ NothingLost'
<1>1. LedgerIsTrue'
  BY FiledStays DEF IInv, LedgerIsTrue, Importable
<1>2. LogIsPrunable'
  BY DEF IInv, LogIsPrunable, Importable
<1>3. NothingLost'
  <2> SUFFICES ASSUME NEW c \in seen, Importable(MessageOf[c])
               PROVE  ledger[MessageOf[c]] = "imported" /\ Filed(MessageOf[c])'
    BY DEF NothingLost, Importable, Filed, PartsOf
  <2>1. MessageOf[c] \in Messages
    BY CopiesAssumption DEF IInv, TypeOK
  <2>2. ledger[MessageOf[c]] = "imported" /\ Filed(MessageOf[c])
    BY DEF IInv, NothingLost, Importable, Filed
  <2> QED
    BY <2>1, <2>2, FiledStays DEF IInv
<1> QED
  BY <1>1, <1>2, <1>3

LEMMA CreatedGrows ==
  ASSUME TypeOK, NEW one \in AllParts, NEW n \in {0, 1},
         created' = [created EXCEPT ![one] = @ + n]
  PROVE  \A part \in AllParts : created'[part] >= created[part]
<1>1. \A part \in AllParts : created[part] \in Nat
  BY DEF TypeOK
<1>2. \A part \in AllParts :
        created'[part] = IF part = one THEN created[part] + n ELSE created[part]
  BY DEF TypeOK
<1> QED
  BY <1>1, <1>2

LEMMA NextIInv == IInv /\ [Next]_vars => IInv'
<1> SUFFICES ASSUME IInv, [Next]_vars PROVE IInv'
  OBVIOUS
<1> DEFINE OthersKeep(p) == \A q \in Polls \ {p} :
               pc'[q] = pc[q] /\ current'[q] = current[q] /\ next'[q] = next[q]
<1>0. TypeOK'
  BY NextTypeOK DEF IInv
<1> USE DEF IInv
<1>c. UNCHANGED created => \A part \in AllParts : created'[part] >= created[part]
  BY DEF TypeOK
<1>1. ASSUME NEW c \in Copies, Deliver(c) PROVE IInv'
  <2>1. Grows /\ UNCHANGED <<ledger, log, seen, pollVars>>
    BY <1>1, <1>c DEF Deliver, Grows
  <2> QED
    BY <1>0, <2>1, OthersKnow, LedgerStays DEF PollKnows, pollVars
<1>2. ASSUME NEW p \in Polls, Fetch(p) \/ FirstMessage(p) \/ RecordFails(p) \/ MarkFails(p) \/ Crash(p)
      PROVE  IInv'
  <2>1. Grows /\ UNCHANGED <<ledger, log, seen>>
    BY <1>2, <1>c DEF Fetch, FirstMessage, RecordFails, MarkFails, Crash, Grows
  <2>2. OthersKeep(p) /\ pc'[p] \in {"batch", "lookup", "prune", "idle"}
    BY <1>2 DEF Fetch, FirstMessage, RecordFails, MarkFails, Crash, NextMessage, EndPoll, Goto,
                TypeOK
  <2>3. Knows(p)'
    BY <2>2 DEF Knows
  <2> QED
    BY <1>0, <2>1, <2>2, <2>3, OthersKnow, LedgerStays DEF PollKnows
<1>3. ASSUME NEW p \in Polls, Lookup(p) PROVE IInv'
  <2>1. Grows /\ UNCHANGED <<ledger, log, seen, created, current, next>>
    BY <1>3, <1>c DEF Lookup, Grows
  <2>2. OthersKeep(p)
    BY <1>3 DEF Lookup, Goto, TypeOK
  <2>3. Message(p) \in Messages /\ Message(p)' = Message(p) /\ next[p] = 1
    BY <1>3, CopiesAssumption DEF Lookup, TypeOK, Message
  <2>4. Knows(p)'
    BY <1>3, <2>1, <2>3 DEF Lookup, Goto, Knows, LedgerIsTrue, Filed, Importable, TypeOK
  <2> QED
    BY <1>0, <2>1, <2>2, <2>4, OthersKnow, LedgerStays DEF PollKnows
<1>4. ASSUME NEW p \in Polls, Upload(p) PROVE IInv'
  <2>1. /\ <<Message(p), next[p]>> \in AllParts /\ Message(p) \in Messages
        /\ next[p] \in 1..Attachments[Message(p)] /\ Attachments[Message(p)] \in Nat
    BY <1>4, PartIsPart, OutcomeAssumption DEF Upload, TypeOK
  <2>2. /\ created' = [created EXCEPT ![<<Message(p), next[p]>>] = @ + 1]
        /\ next' = [next EXCEPT ![p] = @ + 1] /\ UNCHANGED <<ledger, log, seen, current>>
        /\ pc[p] = "upload"
        /\ pc' = [pc EXCEPT ![p] = IF next[p] = Attachments[Message(p)] THEN "record" ELSE "upload"]
    BY <1>4 DEF Upload, Goto
  <2>3. Grows
    <3>1. \A part \in AllParts : created'[part] >= created[part]
      BY <2>1, <2>2, CreatedGrows
    <3> QED
      BY <2>2, <3>1 DEF Grows
  <2>4. OthersKeep(p)
    BY <2>2 DEF TypeOK
  <2>5. \A i \in 1..next[p] : created'[<<Message(p), i>>] > 0
    <3> SUFFICES ASSUME NEW i \in 1..next[p] PROVE created'[<<Message(p), i>>] > 0
      OBVIOUS
    <3>1. <<Message(p), i>> \in PartsOf(Message(p))
      BY <2>1 DEF PartsOf
    <3>2. <<Message(p), i>> \in AllParts
      BY <2>1, <3>1 DEF AllParts
    <3>3. CASE i = next[p]
      BY <2>1, <2>2, <3>3 DEF TypeOK
    <3>4. CASE i # next[p]
      BY <2>1, <2>2, <3>2, <3>4 DEF PollKnows, Knows, TypeOK
    <3> QED
      BY <3>3, <3>4
  <2>6. Message(p)' = Message(p) /\ next'[p] = next[p] + 1
    BY <2>2 DEF Message, TypeOK
  <2>7. CASE next[p] = Attachments[Message(p)]
    <3>1. Filed(Message(p))'
      BY <2>5, <2>6, <2>7 DEF Filed, PartsOf
    <3> QED
      BY <1>0, <2>2, <2>3, <2>4, <2>7, <3>1, OthersKnow, LedgerStays DEF PollKnows, Knows, TypeOK
  <2>8. CASE next[p] # Attachments[Message(p)]
    <3>1. Knows(p)'
      BY <2>1, <2>2, <2>5, <2>6, <2>8 DEF Knows, TypeOK
    <3> QED
      BY <1>0, <2>2, <2>3, <2>4, <3>1, OthersKnow, LedgerStays DEF PollKnows
  <2> QED
    BY <2>7, <2>8
<1>5. ASSUME NEW p \in Polls, UploadFails(p) PROVE IInv'
  <2>1. PICK n \in {0, 1} : created' = [created EXCEPT ![<<Message(p), next[p]>>] = @ + n]
    BY <1>5 DEF UploadFails
  <2>2. <<Message(p), next[p]>> \in AllParts
    BY <1>5, PartIsPart DEF UploadFails
  <2>3. Grows /\ UNCHANGED <<ledger, log, seen>>
    <3>1. \A part \in AllParts : created'[part] >= created[part]
      BY <2>1, <2>2, CreatedGrows
    <3> QED
      BY <1>5, <3>1 DEF UploadFails, Grows
  <2>4. OthersKeep(p) /\ pc'[p] \in {"lookup", "prune"}
    BY <1>5 DEF UploadFails, NextMessage, Goto, TypeOK
  <2> QED
    BY <1>0, <2>3, <2>4, OthersKnow, LedgerStays DEF PollKnows, Knows
<1>6. ASSUME NEW p \in Polls, Record(p) PROVE IInv'
  <2> DEFINE m == Message(p)
  <2>1. m \in Messages
    BY <1>6, CopiesAssumption DEF Record, TypeOK, Message
  <2>2. UNCHANGED <<seen, created, current, next>> /\ pc' = [pc EXCEPT ![p] = "flag"] /\ m' = m
    BY <1>6 DEF Record, Goto, Message
  <2>3. Importable(m) => Filed(m)
    BY <1>6 DEF Record, PollKnows, Knows
  <2>4. Importable(m) => Status(m) = "imported"
    BY DEF Importable, Status
  <2>5. ledger'[m] = IF ledger[m] = None THEN Status(m) ELSE ledger[m]
    BY <1>6, <2>1 DEF Record, TypeOK
  <2>6. \A k \in Messages \ {m} : ledger'[k] = ledger[k]
    BY <1>6 DEF Record, TypeOK
  <2>7. Grows
    BY <1>c, <2>2, <2>5, <2>6, NoneAssumption DEF Grows
  <2>8. OthersKeep(p)
    BY <2>2 DEF TypeOK
  <2>9. Knows(p)'
    BY <2>1, <2>2, <2>3, <2>4, <2>5 DEF Knows, Filed, LedgerIsTrue, Importable, TypeOK
  <2>10. LedgerIsTrue'
    BY <2>2, <2>3, <2>4, <2>5, <2>6 DEF LedgerIsTrue, Filed, Importable
  <2>11. LogIsPrunable'
    <3>1. CASE log' = log
      BY <3>1 DEF LogIsPrunable, Importable
    <3>2. CASE log' = Append(log, m) /\ ~Importable(m)
      BY <2>1, <3>2 DEF LogIsPrunable, Importable, TypeOK
    <3> QED
      BY <1>6, <3>1, <3>2 DEF Record, Importable
  <2>12. NothingLost'
    <3> SUFFICES ASSUME NEW c \in seen, Importable(MessageOf[c])
                 PROVE  ledger'[MessageOf[c]] = "imported" /\ Filed(MessageOf[c])'
      BY <2>2 DEF NothingLost, Importable, Filed
    <3>1. MessageOf[c] \in Messages
      BY CopiesAssumption DEF TypeOK
    <3>2. ledger[MessageOf[c]] = "imported" /\ Filed(MessageOf[c])
      BY DEF NothingLost, Importable, Filed
    <3> QED
      BY <1>0, <2>7, <3>1, <3>2, FiledStays DEF Grows
  <2> QED
    BY <1>0, <2>7, <2>8, <2>9, <2>10, <2>11, <2>12, OthersKnow DEF PollKnows
<1>7. ASSUME NEW p \in Polls, MarkProcessed(p) PROVE IInv'
  <2>1. Grows /\ UNCHANGED <<ledger, log, created>>
    BY <1>7, <1>c DEF MarkProcessed, Grows
  <2>2. OthersKeep(p) /\ pc'[p] \in {"lookup", "prune"}
    BY <1>7 DEF MarkProcessed, NextMessage, Goto, TypeOK
  <2>3. Knows(p)'
    BY <2>2 DEF Knows
  <2>4. LedgerIsTrue' /\ LogIsPrunable'
    BY <2>1 DEF LedgerIsTrue, LogIsPrunable, Filed, Importable
  <2>5. PICK c \in fetched[p] : MessageOf[c] = Message(p) /\ seen' = seen \union {c}
    BY <1>7 DEF MarkProcessed
  <2>6. NothingLost'
    BY <1>7, <2>1, <2>5 DEF MarkProcessed, NothingLost, PollKnows, Knows, Filed, Importable
  <2> QED
    BY <1>0, <2>1, <2>2, <2>3, <2>4, <2>6, OthersKnow DEF PollKnows
<1>8. ASSUME NEW p \in Polls, PruneLog(p) PROVE IInv'
  <2> DEFINE excess == IF Len(log) > LogLimit THEN Len(log) - LogLimit ELSE 0
             old == {log[i] : i \in 1..excess}
  <2>1. /\ log' = SubSeq(log, excess + 1, Len(log))
        /\ ledger' = [m \in Messages |-> IF m \in old THEN None ELSE ledger[m]]
        /\ UNCHANGED <<seen, created>>
    BY <1>8 DEF PruneLog
  <2>2. excess \in 0..Len(log) /\ Len(log) \in Nat
    BY BoundsAssumption DEF TypeOK
  <2>3. \A m \in Messages : Importable(m) => ledger'[m] = ledger[m]
    <3>1. \A m \in old : ~Importable(m)
      BY <2>2 DEF LogIsPrunable
    <3> HIDE DEF old
    <3> QED
      BY <2>1, <3>1
  <2>4. Grows
    BY <1>c, <2>1, <2>3 DEF Grows
  <2>5. OthersKeep(p) /\ pc'[p] = "idle"
    BY <1>8 DEF PruneLog, EndPoll, Goto, TypeOK
  <2>6. Knows(p)'
    BY <2>5 DEF Knows
  <2>7. LedgerIsTrue'
    BY <2>1, <2>3 DEF LedgerIsTrue, Filed, Importable
  <2>8. LogIsPrunable'
    <3>0. log \in Seq(Messages)
      BY DEF TypeOK
    <3> HIDE DEF excess
    <3>1. \A i \in 1..Len(log') : i + excess \in 1..Len(log) /\ log'[i] = log[i + excess]
      BY <2>1, <2>2, <3>0, SMTT(30)
    <3> QED
      BY <3>1 DEF LogIsPrunable, Importable
  <2>9. NothingLost'
    <3> SUFFICES ASSUME NEW c \in seen, Importable(MessageOf[c])
                 PROVE  ledger'[MessageOf[c]] = "imported" /\ Filed(MessageOf[c])'
      BY <2>1 DEF NothingLost, Importable, Filed
    <3>1. MessageOf[c] \in Messages
      BY CopiesAssumption DEF TypeOK
    <3>2. ledger[MessageOf[c]] = "imported" /\ Filed(MessageOf[c])
      BY DEF NothingLost, Importable, Filed
    <3> QED
      BY <1>0, <2>3, <2>4, <3>1, <3>2, FiledStays
  <2> QED
    BY <1>0, <2>4, <2>5, <2>6, <2>7, <2>8, <2>9, OthersKnow DEF PollKnows
<1>9. CASE UNCHANGED vars
  BY <1>0, <1>9
  DEF vars, pollVars, LedgerIsTrue, LogIsPrunable, NothingLost, PollKnows, Knows, Filed,
      Importable, Message
<1> QED
  BY <1>1, <1>2, <1>3, <1>4, <1>5, <1>6, <1>7, <1>8, <1>9 DEF Next, PollStep, FaultStep

LEMMA Invariant ==
  ASSUME CopiesAssumption, OutcomeAssumption, BoundsAssumption, NoneAssumption
  PROVE  Spec => []IInv
  BY InitIInv, NextIInv, PTL DEF Spec

\* A poll past its lookup has a message, and while it uploads one of that
\* message's attachments, whatever fails in whatever other poll.
THEOREM TypeCorrect ==
  ASSUME CopiesAssumption, OutcomeAssumption, BoundsAssumption, NoneAssumption
  PROVE  Spec => []TypeOK
<1>1. IInv => TypeOK
  BY DEF IInv
<1> QED
  BY Invariant, <1>1, PTL

\* Whatever fails and however polls overlap, a message that is flagged seen and
\* has supported attachments is in the ledger with a document for each of them.
THEOREM NoMessageLost ==
  ASSUME CopiesAssumption, OutcomeAssumption, BoundsAssumption, NoneAssumption
  PROVE  Spec => []NothingLost
<1>1. IInv => NothingLost
  BY DEF IInv
<1> QED
  BY Invariant, <1>1, PTL

-----------------------------------------------------------------------------
(* OnceUnlessDisturbed. An undisturbed message has at most one importer, no *)
(* row in the ledger while it has one, and no document before it has one:   *)
(* the importer creates what is not there yet, and its row ends the matter. *)

Imports(p, m) == pc[p] \in {"upload", "record"} /\ Message(p) = m

ImportedOnce(m) ==
    /\ \A p, q \in Polls : Imports(p, m) /\ Imports(q, m) => p = q
    /\ \A p \in Polls : Imports(p, m) => ledger[m] = None
    /\ ledger[m] = None /\ (\A p \in Polls : ~Imports(p, m)) =>
           \A i \in 1..Attachments[m] : created[<<m, i>>] = 0
    /\ \A p \in Polls : Imports(p, m) /\ pc[p] = "upload" =>
           \A i \in next[p]..Attachments[m] : created[<<m, i>>] = 0
    /\ \A i \in 1..Attachments[m] : created[<<m, i>>] <= 1

UndisturbedOnce == \A m \in Messages \ disturbed : Importable(m) => ImportedOnce(m)

(* A step of a poll that imports m neither before nor after it. *)
LEMMA Elsewhere ==
  ASSUME TypeOK, NEW m \in Messages, ImportedOnce(m), NEW p \in Polls,
         ~Imports(p, m), ~Imports(p, m)',
         \A q \in Polls \ {p} :
             pc'[q] = pc[q] /\ current'[q] = current[q] /\ next'[q] = next[q],
         ledger'[m] = ledger[m],
         \A i \in 1..Attachments[m] : created'[<<m, i>>] = created[<<m, i>>]
  PROVE  ImportedOnce(m)'
<1>1. \A q \in Polls : Imports(q, m)' <=> Imports(q, m)
  BY DEF Imports, Message
<1>2. \A q \in Polls : Imports(q, m) => q # p /\ pc'[q] = pc[q] /\ next'[q] = next[q]
  OBVIOUS
<1>3. ASSUME NEW q \in Polls, Imports(q, m)', pc'[q] = "upload"
      PROVE  \A i \in next'[q]..Attachments[m] : created'[<<m, i>>] = 0
  <2>1. Imports(q, m) /\ pc[q] = "upload" /\ next'[q] = next[q]
    BY <1>1, <1>2, <1>3
  <2>2. next[q] >= 1 /\ Attachments[m] \in Nat /\ next[q] \in Nat
    BY <2>1, OutcomeAssumption DEF TypeOK
  <2>3. next[q]..Attachments[m] \subseteq 1..Attachments[m]
    BY <2>2
  <2> QED
    BY <2>1, <2>3 DEF ImportedOnce
<1> QED
  BY <1>1, <1>3 DEF ImportedOnce

LEMMA NextOnce == IInv /\ UndisturbedOnce /\ [Next]_vars => UndisturbedOnce'
<1> SUFFICES ASSUME IInv, UndisturbedOnce, [Next]_vars,
                    NEW m \in Messages \ disturbed', Importable(m)
             PROVE  ImportedOnce(m)'
  BY DEF UndisturbedOnce, Importable
<1>0. TypeOK /\ m \in Messages /\ Attachments[m] \in Nat
  BY OutcomeAssumption DEF IInv
<1>1. disturbed \subseteq disturbed' => ImportedOnce(m)
  BY DEF UndisturbedOnce
<1> DEFINE OthersKeep(p) == \A q \in Polls \ {p} :
               pc'[q] = pc[q] /\ current'[q] = current[q] /\ next'[q] = next[q]
<1>2. CASE UNCHANGED <<pc, current, next, ledger, created, disturbed>>
  BY <1>1, <1>2 DEF ImportedOnce, Imports, Message
<1>3. ASSUME NEW p \in Polls,
             Fetch(p) \/ FirstMessage(p) \/ MarkProcessed(p) \/ MarkFails(p)
      PROVE  ImportedOnce(m)'
  <2>1. /\ pc[p] \notin {"upload", "record"} /\ pc'[p] \notin {"upload", "record"}
        /\ OthersKeep(p) /\ UNCHANGED <<ledger, created, disturbed>>
    BY <1>0, <1>3
    DEF Fetch, FirstMessage, MarkProcessed, MarkFails, NextMessage, EndPoll, Goto, TypeOK
  <2>2. ~Imports(p, m) /\ ~Imports(p, m)'
    BY <2>1 DEF Imports
  <2> QED
    BY <1>0, <1>1, <2>1, <2>2, Elsewhere
<1>4. ASSUME NEW p \in Polls, PruneLog(p) PROVE ImportedOnce(m)'
  <2> DEFINE excess == IF Len(log) > LogLimit THEN Len(log) - LogLimit ELSE 0
             old == {log[i] : i \in 1..excess}
  <2>1. ledger' = [k \in Messages |-> IF k \in old THEN None ELSE ledger[k]]
    BY <1>4 DEF PruneLog
  <2>2. m \notin old
    <3>1. excess \in 0..Len(log) /\ Len(log) \in Nat
      BY <1>0, BoundsAssumption DEF TypeOK
    <3> QED
      BY <3>1 DEF IInv, LogIsPrunable
  <2>3. ledger'[m] = ledger[m]
    <3> HIDE DEF old
    <3> QED
      BY <1>0, <2>1, <2>2
  <2>4. /\ pc[p] \notin {"upload", "record"} /\ pc'[p] \notin {"upload", "record"}
        /\ OthersKeep(p) /\ UNCHANGED <<created, disturbed>>
    BY <1>0, <1>4 DEF PruneLog, EndPoll, Goto, TypeOK
  <2>5. ~Imports(p, m) /\ ~Imports(p, m)'
    BY <2>4 DEF Imports
  <2> QED
    BY <1>0, <1>1, <2>3, <2>4, <2>5, Elsewhere
<1>5. ASSUME NEW p \in Polls, UploadFails(p) \/ RecordFails(p) \/ Crash(p)
      PROVE  ImportedOnce(m)'
  <2>1. disturbed' = disturbed \union Importing(p) /\ UNCHANGED ledger
    BY <1>5 DEF UploadFails, RecordFails, Crash
  <2>2. ~Imports(p, m)
    BY <2>1 DEF Imports, Importing
  <2>3. OthersKeep(p) /\ pc'[p] \notin {"upload", "record"}
    BY <1>0, <1>5 DEF UploadFails, RecordFails, Crash, NextMessage, EndPoll, Goto, TypeOK
  <2>4. ~Imports(p, m)'
    BY <2>3 DEF Imports
  <2>5. \A i \in 1..Attachments[m] : created'[<<m, i>>] = created[<<m, i>>]
    <3>1. CASE UNCHANGED created
      BY <3>1
    <3>2. CASE UploadFails(p)
      <4>1. PICK n \in {0, 1} : created' = [created EXCEPT ![<<Message(p), next[p]>>] = @ + n]
        BY <3>2 DEF UploadFails
      <4>2. Message(p) # m
        BY <2>2, <3>2 DEF UploadFails, Imports
      <4>3. \A i \in 1..Attachments[m] : <<m, i>> \in AllParts
        BY <1>0 DEF AllParts, PartsOf
      <4> QED
        BY <1>0, <4>1, <4>2, <4>3 DEF TypeOK
    <3> QED
      BY <1>5, <3>1, <3>2 DEF RecordFails, Crash
  <2> QED
    BY <1>0, <1>1, <2>1, <2>2, <2>3, <2>4, <2>5, Elsewhere
<1>6. ASSUME NEW p \in Polls, Lookup(p) PROVE ImportedOnce(m)'
  <2>1. /\ pc[p] = "lookup" /\ OthersKeep(p) /\ UNCHANGED <<ledger, created, current, next>>
        /\ disturbed' = disturbed \union ImportedElsewhere(p)
        /\ pc'[p] = IF ledger[Message(p)] # None THEN "flag"
                    ELSE IF Outcome[Message(p)] = "imported" THEN "upload" ELSE "record"
    BY <1>0, <1>6 DEF Lookup, Goto, TypeOK
  <2>2. ~Imports(p, m) /\ ImportedOnce(m)
    BY <1>1, <2>1 DEF Imports
  <2>3. CASE Message(p) # m \/ ledger[m] # None
    <3>1. ~Imports(p, m)'
      BY <2>1, <2>3 DEF Imports, Message
    <3> QED
      BY <1>0, <2>1, <2>2, <3>1, Elsewhere
  <2>4. CASE Message(p) = m /\ ledger[m] = None
    <3>1. \A q \in Polls : ~Imports(q, m)
      BY <2>1, <2>2, <2>4 DEF ImportedElsewhere, Importing, Imports
    <3>2. \A i \in 1..Attachments[m] : created[<<m, i>>] = 0
      BY <2>2, <2>4, <3>1 DEF ImportedOnce
    <3>3. \A q \in Polls : Imports(q, m)' <=> q = p
      BY <2>1, <2>4, <3>1 DEF Imports, Message, Importable
    <3>4. next'[p] = 1
      BY <1>0, <2>1 DEF TypeOK
    <3> QED
      BY <1>0, <2>1, <2>4, <3>2, <3>3, <3>4 DEF ImportedOnce
  <2> QED
    BY <2>3, <2>4
<1>7. ASSUME NEW p \in Polls, Upload(p) PROVE ImportedOnce(m)'
  <2> DEFINE last == next[p] = Attachments[Message(p)]
  <2>1. /\ pc[p] = "upload" /\ OthersKeep(p) /\ UNCHANGED <<ledger, current, disturbed>>
        /\ pc'[p] = IF last THEN "record" ELSE "upload"
        /\ next'[p] = next[p] + 1
        /\ created' = [created EXCEPT ![<<Message(p), next[p]>>] = @ + 1]
    BY <1>0, <1>7 DEF Upload, Goto, TypeOK
  <2>2. ImportedOnce(m) /\ Message(p)' = Message(p)
    BY <1>1, <2>1 DEF Message
  <2>3. \A i \in 1..Attachments[m] : <<m, i>> \in AllParts /\ created[<<m, i>>] \in Nat
    <3>1. \A i \in 1..Attachments[m] : <<m, i>> \in AllParts
      BY <1>0 DEF AllParts, PartsOf
    <3> QED
      BY <1>0, <3>1 DEF TypeOK
  <2>4. CASE Message(p) # m
    <3>1. ~Imports(p, m) /\ ~Imports(p, m)'
      BY <2>2, <2>4 DEF Imports
    <3>2. \A i \in 1..Attachments[m] : created'[<<m, i>>] = created[<<m, i>>]
      BY <1>0, <2>1, <2>3, <2>4 DEF TypeOK
    <3> QED
      BY <1>0, <2>1, <2>2, <3>1, <3>2, Elsewhere
  <2>5. CASE Message(p) = m
    <3>1. Imports(p, m) /\ Imports(p, m)' /\ next[p] \in 1..Attachments[m]
      BY <1>0, <2>1, <2>2, <2>5 DEF Imports, TypeOK
    <3>2. \A q \in Polls : Imports(q, m)' <=> q = p
      BY <2>1, <2>2, <3>1 DEF Imports, ImportedOnce, Message
    <3>3. \A i \in next[p]..Attachments[m] : created[<<m, i>>] = 0
      BY <2>1, <2>2, <3>1 DEF ImportedOnce
    <3>4. \A i \in 1..Attachments[m] :
            created'[<<m, i>>] = IF i = next[p] THEN 1 ELSE created[<<m, i>>]
      BY <1>0, <2>1, <2>3, <2>5, <3>1, <3>3 DEF TypeOK
    <3>5. \A i \in 1..Attachments[m] : created'[<<m, i>>] <= 1
      BY <2>2, <3>4 DEF ImportedOnce
    <3>6. \A i \in next'[p]..Attachments[m] : created'[<<m, i>>] = 0
      BY <1>0, <2>1, <3>1, <3>3, <3>4
    <3>7. ledger'[m] = None
      BY <2>1, <2>2, <3>1 DEF ImportedOnce
    <3> QED
      BY <3>1, <3>2, <3>5, <3>6, <3>7 DEF ImportedOnce
  <2> QED
    BY <2>4, <2>5
<1>8. ASSUME NEW p \in Polls, Record(p) PROVE ImportedOnce(m)'
  <2>1. /\ pc[p] = "record" /\ pc'[p] = "flag" /\ OthersKeep(p)
        /\ UNCHANGED <<created, current, next, disturbed>>
    BY <1>0, <1>8 DEF Record, Goto, TypeOK
  <2>2. ImportedOnce(m) /\ ~Imports(p, m)'
    BY <1>1, <2>1 DEF Imports
  <2>3. CASE Message(p) # m
    <3>1. ledger'[m] = ledger[m] /\ ~Imports(p, m)
      BY <1>0, <1>8, <2>3 DEF Record, Imports, TypeOK
    <3> QED
      BY <1>0, <2>1, <2>2, <3>1, Elsewhere
  <2>4. CASE Message(p) = m
    <3>1. Imports(p, m) /\ ledger[m] = None
      BY <2>1, <2>2, <2>4 DEF Imports, ImportedOnce
    <3>2. \A q \in Polls : ~Imports(q, m)'
      BY <2>1, <2>2, <3>1 DEF Imports, ImportedOnce, Message
    <3>3. ledger'[m] # None
      BY <1>0, <1>8, <2>4, <3>1, NoneAssumption DEF Record, Status, Importable, TypeOK
    <3> QED
      BY <2>1, <2>2, <3>2, <3>3 DEF ImportedOnce
  <2> QED
    BY <2>3, <2>4
<1>9. ASSUME NEW c \in Copies, Deliver(c)
      PROVE  UNCHANGED <<pc, current, next, ledger, created, disturbed>>
  BY <1>9 DEF Deliver, pollVars
<1>10. CASE UNCHANGED vars
  BY <1>2, <1>10 DEF vars, pollVars
<1> QED
  BY <1>2, <1>3, <1>4, <1>5, <1>6, <1>7, <1>8, <1>9, <1>10 DEF Next, PollStep, FaultStep

\* However often a message is delivered and seen, whatever is pruned, and wherever
\* polls crash, each of its attachments becomes one document at most, unless its own
\* import fails half way or meets another.
THEOREM ImportedAtMostOnce ==
  ASSUME CopiesAssumption, OutcomeAssumption, BoundsAssumption, NoneAssumption
  PROVE  Spec => []OnceUnlessDisturbed
<1>1. Init => UndisturbedOnce
  <2> SUFFICES ASSUME Init, NEW m \in Messages PROVE ImportedOnce(m)
    BY DEF UndisturbedOnce
  <2>1. \A p \in Polls : ~Imports(p, m)
    BY DEF Init, Imports
  <2>2. \A i \in 1..Attachments[m] : created[<<m, i>>] = 0
    <3>1. \A i \in 1..Attachments[m] : <<m, i>> \in AllParts
      BY DEF AllParts, PartsOf
    <3> QED
      BY <3>1 DEF Init
  <2> QED
    BY <2>1, <2>2 DEF ImportedOnce
<1>2. UndisturbedOnce => OnceUnlessDisturbed
  <2> SUFFICES ASSUME UndisturbedOnce, NEW m \in Messages \ disturbed,
                      NEW i \in 1..Attachments[m]
               PROVE  created[<<m, i>>] <= 1
    BY DEF OnceUnlessDisturbed, PartsOf
  <2>1. Attachments[m] \in Nat /\ Attachments[m] > 0
    BY OutcomeAssumption
  <2>2. Importable(m)
    BY <2>1, OutcomeAssumption DEF Importable
  <2> QED
    BY <2>2 DEF UndisturbedOnce, ImportedOnce
<1> QED
  BY Invariant, NextOnce, <1>1, <1>2, PTL DEF Spec

-----------------------------------------------------------------------------
(* The implementation of the inbox. Every step of the poller leaves what    *)
(* the inbox knows alone, files one part, or puts one copy away: the         *)
(* invariant says that there is nothing left to file for that copy.          *)

LEMMA Stutter ==
  ASSUME UNCHANGED <<arrived, seen, created>>
  PROVE  UNCHANGED Abstract!vars
  BY DEF Abstract!vars

LEMMA FilesOnePart ==
  ASSUME TypeOK, NEW p \in Polls, pc[p] = "upload", NEW n \in {0, 1},
         created' = [created EXCEPT ![<<Message(p), next[p]>>] = @ + n],
         UNCHANGED <<arrived, seen>>
  PROVE  [Abstract!Next]_Abstract!vars
<1> DEFINE before == {one \in AllParts : created[one] > 0}
           after == {one \in AllParts : created'[one] > 0}
<1>1. PICK c \in Copies, part \in AllParts : c = current[p] /\ part = <<Message(p), next[p]>>
  BY PartIsPart DEF TypeOK
<1>2. MessageOf[c] \in Messages /\ part \in PartsOf(MessageOf[c]) /\ c \in arrived
  BY <1>1, PartIsPart DEF TypeOK, Message
<1>3. \A one \in AllParts :
        /\ created[one] \in Nat
        /\ created'[one] = IF one = part THEN created[one] + n ELSE created[one]
  BY <1>1 DEF TypeOK
<1>4. CASE n = 0 \/ created[part] > 0
  <2>1. \A one \in AllParts : created'[one] > 0 <=> created[one] > 0
    BY <1>3, <1>4
  <2>2. after = before
    BY <2>1
  <2> QED
    BY <2>2 DEF Abstract!vars
<1>5. CASE n = 1 /\ ~(created[part] > 0)
  <2>1. \A one \in AllParts : created'[one] > 0 <=> created[one] > 0 \/ one = part
    BY <1>3, <1>5
  <2>2. after = before \union {part} /\ part \notin before
    BY <1>5, <2>1
  <2>3. part \in [m \in Messages |-> PartsOf(m)][MessageOf[c]]
    BY <1>2
  <2>4. Abstract!File(c, part)
    BY <1>2, <2>2, <2>3 DEF Abstract!File
  <2> QED
    BY <2>3, <2>4 DEF Abstract!Next
<1> QED
  BY <1>4, <1>5

LEMMA PutsOneAway ==
  ASSUME IInv, NEW p \in Polls, MarkProcessed(p)
  PROVE  [Abstract!Next]_Abstract!vars
<1>1. PICK c \in fetched[p] : MessageOf[c] = Message(p) /\ seen' = seen \union {c}
  BY DEF MarkProcessed
<1>2. c \in arrived /\ c \in Copies /\ MessageOf[c] \in Messages
  BY CopiesAssumption DEF IInv, TypeOK
<1>3. \A part \in PartsOf(MessageOf[c]) : created[part] > 0
  <2>1. CASE Importable(MessageOf[c])
    BY <1>1, <2>1 DEF MarkProcessed, IInv, PollKnows, Knows, Filed
  <2>2. CASE ~Importable(MessageOf[c])
    <3>1. Attachments[MessageOf[c]] = 0
      BY <1>2, <2>2, OutcomeAssumption DEF Importable
    <3> QED
      BY <3>1 DEF PartsOf
  <2> QED
    BY <2>1, <2>2
<1>4. [m \in Messages |-> PartsOf(m)][MessageOf[c]] \subseteq {part \in AllParts : created[part] > 0}
  BY <1>2, <1>3 DEF AllParts
<1>5. UNCHANGED <<arrived, created>>
  BY DEF MarkProcessed
<1>6. CASE c \in seen
  BY <1>1, <1>5, <1>6 DEF Abstract!vars
<1>7. CASE c \notin seen
  <2>1. Abstract!Handle(c)
    BY <1>1, <1>2, <1>4, <1>5, <1>7 DEF Abstract!Handle
  <2> QED
    BY <1>2, <2>1 DEF Abstract!Next
<1> QED
  BY <1>6, <1>7

LEMMA StepImplements == IInv /\ [Next]_vars => [Abstract!Next]_Abstract!vars
<1> SUFFICES ASSUME IInv, [Next]_vars PROVE [Abstract!Next]_Abstract!vars
  OBVIOUS
<1>1. ASSUME NEW c \in Copies, Deliver(c) PROVE Abstract!Next
  <2>1. Abstract!Deliver(c)
    BY <1>1 DEF Deliver, Abstract!Deliver
  <2> QED
    BY <2>1 DEF Abstract!Next
<1>2. ASSUME NEW p \in Polls, Upload(p) \/ UploadFails(p)
      PROVE  [Abstract!Next]_Abstract!vars
  <2>1. \E n \in {0, 1} : created' = [created EXCEPT ![<<Message(p), next[p]>>] = @ + n]
    BY <1>2 DEF Upload, UploadFails
  <2>2. pc[p] = "upload" /\ UNCHANGED <<arrived, seen>>
    BY <1>2 DEF Upload, UploadFails
  <2> QED
    BY <2>1, <2>2, FilesOnePart DEF IInv
<1>3. ASSUME NEW p \in Polls, MarkProcessed(p) PROVE [Abstract!Next]_Abstract!vars
  BY <1>3, PutsOneAway
<1>4. ASSUME NEW p \in Polls,
             \/ Fetch(p) \/ FirstMessage(p) \/ Lookup(p) \/ Record(p) \/ PruneLog(p)
             \/ RecordFails(p) \/ MarkFails(p) \/ Crash(p)
      PROVE  UNCHANGED Abstract!vars
  BY <1>4, Stutter
  DEF Fetch, FirstMessage, Lookup, Record, PruneLog, RecordFails, MarkFails, Crash
<1>5. CASE UNCHANGED vars
  BY <1>5, Stutter DEF vars
<1> QED
  BY <1>1, <1>2, <1>3, <1>4, <1>5 DEF Next, PollStep, FaultStep

\* With any number of polls and faults, what the poller does to the mailbox and
\* the archive is a behaviour of the inbox.
THEOREM PollerImplementsInbox ==
  ASSUME CopiesAssumption, OutcomeAssumption, BoundsAssumption, NoneAssumption
  PROVE  Spec => ImplementsInbox
<1>1. Init => Abstract!Init
  <2>1. Init => {part \in AllParts : created[part] > 0} = {}
    BY DEF Init
  <2> QED
    BY <2>1 DEF Init, Abstract!Init
<1> QED
  BY Invariant, StepImplements, <1>1, PTL DEF Spec, ImplementsInbox, Abstract!Spec
=============================================================================
