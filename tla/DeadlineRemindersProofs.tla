----------------------- MODULE DeadlineRemindersProofs -----------------------
(***************************************************************************)
(* Reminders for any documents, calendar, jobs and installations. The      *)
(* timestamp is the claim: a record that was shown or is about to be has   *)
(* it, and no two relays hold the claim to one record. A scan nobody has   *)
(* disturbed has armed what is due in the windows behind it.               *)
(***************************************************************************)
EXTENDS DeadlineReminders, FiniteSetTheorems, TLAPS

IInv ==
    /\ due \in [Docs -> Days \union {NoDate}]
    /\ scanAt \in [Scans -> {"idle", "invalidate"} \union Windows]
    /\ armed \subseteq Records
    /\ list \in [Relays -> SUBSET Records]
    /\ claimed \in [Relays -> Records \union {None}]
    /\ shows \in [Records -> {0, 1}]
    /\ \A k \in Records \ relayed : shows[k] = 0
    /\ \A r \in Relays : claimed[r] # None => claimed[r] \in relayed /\ shows[claimed[r]] = 0
    /\ \A r, q \in Relays : claimed[r] = claimed[q] /\ claimed[r] # None => r = q

LEMMA InitIInv == Init => IInv
  BY NoneAssumption DEF Init, IInv

LEMMA NextIInv == IInv /\ [Next]_vars => IInv'
<1> SUFFICES ASSUME IInv, [Next]_vars PROVE IInv'
  OBVIOUS
<1> USE NoneAssumption DEF IInv
<1>1. ASSUME NEW r \in Relays, Poll(r) PROVE IInv'
  BY <1>1 DEF Poll, PendingForDesktop, recordVars, docVars, scanVars
<1>2. ASSUME NEW r \in Relays, NEW k \in list[r], Claim(r, k) PROVE IInv'
  BY <1>2 DEF Claim, docVars, scanVars
<1>3. ASSUME NEW r \in Relays, Show(r) PROVE IInv'
  BY <1>3 DEF Show, recordVars, docVars, scanVars
<1>4. ASSUME NEW r \in Relays, RelayCrash(r) \/ NoPage(r) PROVE IInv'
  BY <1>4 DEF RelayCrash, NoPage, recordVars, docVars, scanVars
<1>9. ASSUME NEW r \in Relays, NEW k \in list[r], ClaimFails(r, k) PROVE IInv'
  BY <1>9 DEF ClaimFails, docVars, scanVars
<1>5. ASSUME NEW s \in Scans, ScanStep(s) PROVE IInv'
  <2>1. CASE Arm(s)
    \* New rows without timestamps.
    <3>1. \A d \in Docs : Open(d) => due[d] \in Days
      BY DEF Open
    <3>2. armed' \subseteq Records
      BY <2>1, <3>1 DEF Arm, Records
    <3>3. scanAt' \in [Scans -> {"idle", "invalidate"} \union Windows]
      BY <2>1 DEF Arm, AfterWindow, Windows
    <3> QED
      BY <2>1, <3>2, <3>3 DEF Arm, docVars, relayVars
  <2>2. CASE StartScan(s) \/ Invalidate(s) \/ ScanCrash(s)
    BY <2>2 DEF StartScan, Invalidate, ScanCrash, Windows, docVars, recordVars, relayVars
  <2> QED
    BY <1>5, <2>1, <2>2 DEF ScanStep
<1>6. ASSUME NEW g \in Digests, DigestStep(g) PROVE IInv'
  BY <1>6 DEF DigestStep, ReadPending, SendMail, SendFails, SendUnconfirmed, MarkEmailed, DigestCrash,
              EndDigest, docVars, recordVars, scanVars, relayVars
<1>7. CASE DocumentStep
  <2>1. due' \in [Docs -> Days \union {NoDate}]
    BY <1>7 DEF DocumentStep, Tick, SetTaskCompleted, SetDueDate
  <2> QED
    BY <1>7, <2>1
    DEF DocumentStep, Tick, SetTaskCompleted, SetDueDate, recordVars, relayVars
<1>8. CASE UNCHANGED vars
  BY <1>8 DEF vars, docVars, recordVars, scanVars, relayVars
<1> QED
  BY <1>1, <1>2, <1>3, <1>4, <1>5, <1>6, <1>7, <1>8, <1>9 DEF Next, RelayStep

\* Whatever crashes and however many installations poll, no record is announced
\* twice on the desktop.
THEOREM ShownOnce == Spec => []ShownAtMostOnce
<1>1. IInv => ShownAtMostOnce
  BY DEF IInv, ShownAtMostOnce
<1> QED
  BY InitIInv, NextIInv, <1>1, PTL DEF Spec

-----------------------------------------------------------------------------
(* Types.                                                                   *)

\* A row that is armed is one of a date in the calendar.
LEMMA ArmedRecords ==
  ASSUME TypeOK, NEW s \in Scans, Arm(s)
  PROVE  armed \subseteq armed' /\ armed' \subseteq Records
<1>1. \A d \in Docs : Open(d) => due[d] \in Days
  BY DEF Open, TypeOK
<1> QED
  BY <1>1 DEF Arm, Records, TypeOK

\* Scans only move between their statements.
LEMMA ScanTypes ==
  ASSUME TypeOK, NEW s \in Scans, ScanStep(s)
  PROVE  TypeOK'
<1> USE DEF TypeOK
<1>1. CASE Arm(s)
  <2>1. scanAt' \in [Scans -> {"idle", "invalidate"} \union Windows]
    BY <1>1 DEF Arm, AfterWindow, Windows
  <2>2. armed \subseteq armed' /\ armed' \subseteq Records
    BY <1>1, ArmedRecords
  <2> QED
    BY <1>1, <2>1, <2>2 DEF Arm, docVars, digestVars, relayVars
<1>2. CASE StartScan(s)
  BY <1>2 DEF StartScan, docVars, recordVars, digestVars, relayVars, Windows
<1>3. CASE Invalidate(s)
  BY <1>3 DEF Invalidate, docVars, digestVars, relayVars
<1>4. CASE ScanCrash(s)
  BY <1>4, OpsAssumption DEF ScanCrash, Fault, docVars, recordVars, digestVars, relayVars
<1> QED
  BY <1>1, <1>2, <1>3, <1>4 DEF ScanStep

\* A digest mails rows that exist.
LEMMA DigestTypes ==
  ASSUME TypeOK, NEW g \in Digests, DigestStep(g)
  PROVE  TypeOK'
<1> USE DEF TypeOK
<1>1. CASE ReadPending(g)
  BY <1>1 DEF ReadPending, PendingForEmail, docVars, recordVars, scanVars, relayVars
<1>2. CASE SendMail(g)
  BY <1>2 DEF SendMail, docVars, recordVars, scanVars, relayVars
<1>3. CASE SendFails(g)
  BY <1>3 DEF SendFails, EndDigest, docVars, recordVars, scanVars, relayVars
<1>4. CASE MarkEmailed(g)
  BY <1>4 DEF MarkEmailed, EndDigest, docVars, scanVars, relayVars
<1>5. CASE DigestCrash(g)
  BY <1>5, OpsAssumption DEF DigestCrash, Fault, EndDigest, docVars, recordVars, scanVars, relayVars
<1>6. CASE SendUnconfirmed(g)
  BY <1>6, OpsAssumption DEF SendUnconfirmed, Fault, docVars, recordVars, scanVars, relayVars
<1> QED
  BY <1>1, <1>2, <1>3, <1>4, <1>5, <1>6 DEF DigestStep

\* A relay claims and shows rows that exist.
LEMMA RelayTypes ==
  ASSUME TypeOK, NEW r \in Relays, RelayStep(r)
  PROVE  TypeOK'
<1> USE DEF TypeOK
<1>1. CASE Poll(r)
  BY <1>1 DEF Poll, PendingForDesktop, docVars, recordVars, scanVars, digestVars
<1>2. ASSUME NEW k \in list[r], Claim(r, k) PROVE TypeOK'
  BY <1>2 DEF Claim, docVars, scanVars, digestVars
<1>3. CASE Show(r)
  BY <1>3, NoneAssumption DEF Show, docVars, recordVars, scanVars, digestVars
<1>4. CASE RelayCrash(r)
  BY <1>4, OpsAssumption DEF RelayCrash, Fault, docVars, recordVars, scanVars, digestVars
<1>5. CASE NoPage(r)
  BY <1>5, OpsAssumption DEF NoPage, Fault, docVars, recordVars, scanVars, digestVars
<1>6. ASSUME NEW k \in list[r], ClaimFails(r, k) PROVE TypeOK'
  <2>1. relayed' \subseteq armed /\ relayed \subseteq relayed' /\ faults' \in 0..MaxFaults
    BY <1>6, OpsAssumption DEF ClaimFails, Fault
  <2> QED
    BY <1>6, <2>1 DEF ClaimFails, docVars, scanVars, digestVars
<1> QED
  BY <1>1, <1>2, <1>3, <1>4, <1>5, <1>6 DEF RelayStep

\* Days pass and documents change; records do not.
LEMMA DocumentTypes ==
  ASSUME TypeOK, DocumentStep
  PROVE  TypeOK'
<1> USE DEF TypeOK
<1>1. CASE Tick
  <2>1. today' \in Nat
    BY <1>1 DEF Tick
  <2>2. UNCHANGED <<due, completed, returned, recordVars, scanAt, scanDay, digestVars, relayVars, faults>>
    BY <1>1 DEF Tick
  <2>3. undisturbed' = {} /\ scanned' = FALSE
    BY <1>1 DEF Tick, Disturb
  <2> QED
    BY <2>1, <2>2, <2>3 DEF recordVars, digestVars, relayVars
<1>2. ASSUME NEW d \in Docs, SetTaskCompleted(d) PROVE TypeOK'
  BY <1>2 DEF SetTaskCompleted, Disturb, Return, recordVars, digestVars, relayVars
<1>3. ASSUME NEW d \in Docs, NEW date \in Days \union {NoDate}, SetDueDate(d, date) PROVE TypeOK'
  BY <1>3 DEF SetDueDate, Disturb, Return, recordVars, digestVars, relayVars
<1> QED
  BY <1>1, <1>2, <1>3 DEF DocumentStep

LEMMA NextTypeOK == TypeOK /\ [Next]_vars => TypeOK'
<1> SUFFICES ASSUME TypeOK, [Next]_vars PROVE TypeOK'
  OBVIOUS
<1>1. CASE UNCHANGED vars
  BY <1>1 DEF TypeOK, vars, docVars, recordVars, scanVars, digestVars, relayVars
<1> QED
  BY <1>1, DocumentTypes, ScanTypes, DigestTypes, RelayTypes DEF Next

\* Records, timestamps, jobs and relays keep their types; a timestamp is on a row
\* that exists, a digest that has mailed has rows, and a record that came back was
\* invalidated before.
THEOREM TypeCorrect == Spec => []TypeOK
<1>1. Init => TypeOK
  <2> SUFFICES ASSUME Init PROVE TypeOK
    OBVIOUS
  <2>1. today \in Nat /\ faults \in 0..MaxFaults
    BY OpsAssumption DEF Init
  <2>2. due \in [Docs -> Days \union {NoDate}] /\ completed \in [Docs -> BOOLEAN]
    BY DEF Init
  <2>3. armed = {} /\ invalidated = {} /\ emailed = {} /\ relayed = {} /\ returned = {}
    BY DEF Init
  <2>4. /\ scanAt \in [Scans -> {"idle", "invalidate"} \union Windows]
        /\ scanDay \in [Scans -> Nat] /\ undisturbed = {} /\ scanned = FALSE
    BY DEF Init
  <2>5. rows \in [Digests -> SUBSET armed] /\ mailed = [g \in Digests |-> FALSE]
    BY DEF Init
  <2>6. list \in [Relays -> SUBSET armed] /\ claimed \in [Relays -> relayed \union {None}]
    BY DEF Init
  <2>7. mails \in [Records -> Nat] /\ shows \in [Records -> Nat]
    BY DEF Init
  <2> QED
    BY <2>1, <2>2, <2>3, <2>4, <2>5, <2>6, <2>7 DEF TypeOK
<1> QED
  BY <1>1, NextTypeOK, PTL DEF Spec

-----------------------------------------------------------------------------
(* What a scan has seen.                                                    *)

\* Only documents and scans bear on a record's reason; the other actors leave
\* them alone, and only deliver records or end.
LEMMA DeliveriesOnly ==
  ASSUME TypeOK,
         (\E g \in Digests : DigestStep(g)) \/ (\E r \in Relays : RelayStep(r)) \/ UNCHANGED vars
  PROVE  /\ UNCHANGED <<docVars, scanVars, armed, invalidated>>
         /\ emailed \subseteq emailed' /\ relayed \subseteq relayed'
<1>1. ASSUME NEW g \in Digests, DigestStep(g)
      PROVE  UNCHANGED <<docVars, scanVars, armed, invalidated>>
             /\ emailed \subseteq emailed' /\ relayed \subseteq relayed'
  BY <1>1 DEF DigestStep, ReadPending, SendMail, SendFails, SendUnconfirmed, MarkEmailed, DigestCrash,
              EndDigest, recordVars
<1>2. ASSUME NEW r \in Relays, RelayStep(r)
      PROVE  UNCHANGED <<docVars, scanVars, armed, invalidated>>
             /\ emailed \subseteq emailed' /\ relayed \subseteq relayed'
  BY <1>2 DEF RelayStep, Poll, Claim, ClaimFails, Show, NoPage, RelayCrash, recordVars
<1>3. CASE UNCHANGED vars
  BY <1>3 DEF vars, recordVars
<1> QED
  BY <1>1, <1>2, <1>3

\* A change of the documents, or of the day, makes every scan one of the past.
LEMMA DocumentStepDisturbs ==
  ASSUME DocumentStep
  PROVE  Disturb /\ UNCHANGED <<recordVars, scanAt, scanDay, digestVars, relayVars, faults>>
  BY DEF DocumentStep, Tick, SetTaskCompleted, SetDueDate

\* A scan that ends leaves no record without a reason that can still be announced,
\* and one that arms makes none.
LEMMA NextCleared == TypeOK /\ RemindersCleared /\ [Next]_vars => RemindersCleared'
<1> SUFFICES ASSUME TypeOK, RemindersCleared, [Next]_vars PROVE RemindersCleared'
  OBVIOUS
<1>1. ASSUME NEW s \in Scans, Arm(s) PROVE RemindersCleared'
  BY <1>1 DEF Arm, Open, RemindersCleared, docVars
<1>2. ASSUME NEW s \in Scans, Invalidate(s) PROVE RemindersCleared'
  BY <1>2 DEF Invalidate, HasReason, RemindersCleared, docVars
<1>3. ASSUME NEW s \in Scans, StartScan(s) \/ ScanCrash(s) PROVE RemindersCleared'
  BY <1>3 DEF StartScan, ScanCrash, RemindersCleared, docVars, recordVars
<1>4. CASE DocumentStep
  BY <1>4, DocumentStepDisturbs DEF Disturb, RemindersCleared
<1>5. CASE (\E g \in Digests : DigestStep(g)) \/ (\E r \in Relays : RelayStep(r)) \/ UNCHANGED vars
  BY <1>5, DeliveriesOnly DEF RemindersCleared, docVars, scanVars
<1> QED
  BY <1>1, <1>2, <1>3, <1>4, <1>5 DEF Next, ScanStep

\* For any number of scans, digests, installations and documents: once a scan has
\* seen the documents as they are, what can still be announced has a reason.
THEOREM ClearedReminders == Spec => []RemindersCleared
<1>1. Init => RemindersCleared
  BY DEF Init, RemindersCleared
<1> QED
  BY <1>1, TypeCorrect, NextCleared, PTL DEF Spec

\* The windows a scan has behind it.
Passed(s) ==
    CASE scanAt[s] = "due" -> {"upcoming"}
      [] scanAt[s] = "overdue" -> {"upcoming", "due"}
      [] scanAt[s] = "invalidate" -> Windows
      [] OTHER -> {}

ArmedIn(w) ==
    \A d \in Docs : Open(d) /\ InWindow(w, due[d], today) => <<d, w, due[d]>> \in armed

\* A scan nobody disturbed has armed what is due in the windows behind it, for the
\* day it is; and a record with a reason is invalidated only if the reason is back.
ScansArm ==
    /\ \A s \in undisturbed : scanAt[s] # "idle" /\ scanDay[s] = today
    /\ \A s \in undisturbed : \A w \in Passed(s) : ArmedIn(w)
    /\ scanned => \A w \in Windows : ArmedIn(w)
    /\ \A k \in invalidated : HasReason(k) => k \in returned

\* Rows are never removed, so what was armed for unchanged documents stays armed.
LEMMA ArmedInStays ==
  ASSUME UNCHANGED docVars, armed \subseteq armed', NEW w, ArmedIn(w)
  PROVE  ArmedIn(w)'
  BY DEF ArmedIn, Open, InWindow, docVars

LEMMA NextScansArm == TypeOK /\ ScansArm /\ [Next]_vars => ScansArm'
<1> SUFFICES ASSUME TypeOK, ScansArm, [Next]_vars PROVE ScansArm'
  OBVIOUS
<1>1. ASSUME NEW s \in Scans, Arm(s) PROVE ScansArm'
  <2>1. UNCHANGED docVars /\ armed \subseteq armed' /\ UNCHANGED <<undisturbed, scanned, scanDay, invalidated>>
    BY <1>1 DEF Arm
  <2>2. \A w : ArmedIn(w) => ArmedIn(w)'
    BY <2>1, ArmedInStays
  <2>3. ASSUME s \in undisturbed, NEW w, w = scanAt[s] PROVE ArmedIn(w)'
    <3>1. scanDay[s] = today
      BY <2>3 DEF ScansArm
    <3>2. ASSUME NEW d \in Docs, Open(d), InWindow(w, due[d], today) PROVE <<d, w, due[d]>> \in armed'
      BY <1>1, <2>3, <3>1, <3>2 DEF Arm
    <3> QED
      BY <2>1, <3>2 DEF ArmedIn, Open, InWindow, docVars
  <2>4. ASSUME s \in undisturbed, NEW w \in Passed(s)' PROVE ArmedIn(w)'
    <3>1. w \in Passed(s) \union {scanAt[s]}
      <4>1. scanAt[s] \in Windows /\ scanAt'[s] = AfterWindow(scanAt[s])
        BY <1>1 DEF Arm, TypeOK
      <4>2. CASE scanAt[s] = "upcoming"
        BY <2>4, <4>1, <4>2 DEF AfterWindow, Passed
      <4>3. CASE scanAt[s] = "due"
        BY <2>4, <4>1, <4>3 DEF AfterWindow, Passed
      <4>4. CASE scanAt[s] = "overdue"
        BY <2>4, <4>1, <4>4 DEF AfterWindow, Passed, Windows
      <4> QED
        BY <4>1, <4>2, <4>3, <4>4 DEF Windows
    <3> QED
      BY <2>2, <2>3, <2>4, <3>1 DEF ScansArm
  <2>5. \A q \in undisturbed : q # s => scanAt'[q] = scanAt[q]
    BY <1>1 DEF Arm, TypeOK
  <2>6. scanAt'[s] # "idle"
    BY <1>1 DEF Arm, AfterWindow, Windows, TypeOK
  <2>7. \A q \in undisturbed' : \A w \in Passed(q)' : ArmedIn(w)'
    BY <2>1, <2>2, <2>4, <2>5 DEF ScansArm, Passed
  <2>8. \A q \in undisturbed' : scanAt'[q] # "idle" /\ scanDay'[q] = today'
    BY <2>1, <2>5, <2>6 DEF ScansArm, docVars
  <2>9. scanned' => \A w \in Windows : ArmedIn(w)'
    BY <2>1, <2>2 DEF ScansArm
  <2>10. \A k \in invalidated' : HasReason(k)' => k \in returned'
    BY <2>1 DEF ScansArm, HasReason, docVars
  <2> QED
    BY <2>7, <2>8, <2>9, <2>10 DEF ScansArm
<1>2. ASSUME NEW s \in Scans, StartScan(s) \/ ScanCrash(s) \/ Invalidate(s) PROVE ScansArm'
  <2>1. UNCHANGED docVars /\ armed' = armed
    BY <1>2 DEF StartScan, ScanCrash, Invalidate, recordVars
  <2>2. \A w : ArmedIn(w) => ArmedIn(w)'
    BY <2>1, ArmedInStays
  <2>3. \A q \in undisturbed' : q # s => q \in undisturbed /\ scanAt'[q] = scanAt[q] /\ scanDay'[q] = scanDay[q]
    BY <1>2 DEF StartScan, ScanCrash, Invalidate, TypeOK
  <2>4. s \in undisturbed' => scanAt'[s] = "upcoming" /\ scanDay'[s] = today'
    BY <1>2 DEF StartScan, ScanCrash, Invalidate, TypeOK, docVars
  <2>5. \A q \in undisturbed' : \A w \in Passed(q)' : ArmedIn(w)'
    BY <2>2, <2>3, <2>4 DEF ScansArm, Passed
  <2>6. \A q \in undisturbed' : scanAt'[q] # "idle" /\ scanDay'[q] = today'
    BY <2>1, <2>3, <2>4 DEF ScansArm, docVars
  <2>7. scanned' => \A w \in Windows : ArmedIn(w)'
    <3>1. ASSUME scanned' PROVE scanned \/ (s \in undisturbed /\ scanAt[s] = "invalidate")
      BY <1>2, <3>1 DEF StartScan, ScanCrash, Invalidate
    <3> QED
      BY <2>2, <3>1 DEF ScansArm, Passed
  <2>8. \A k \in invalidated' : HasReason(k)' => k \in returned'
    <3>1. CASE Invalidate(s)
      BY <3>1 DEF Invalidate, ScansArm, HasReason, docVars
    <3>2. CASE StartScan(s) \/ ScanCrash(s)
      BY <3>2 DEF StartScan, ScanCrash, ScansArm, HasReason, docVars, recordVars
    <3> QED
      BY <1>2, <3>1, <3>2
  <2> QED
    BY <2>5, <2>6, <2>7, <2>8 DEF ScansArm
<1>3. CASE DocumentStep
  <2>1. undisturbed' = {} /\ scanned' = FALSE /\ invalidated' = invalidated
    BY <1>3, DocumentStepDisturbs DEF Disturb, recordVars
  <2>2. \A k \in invalidated : HasReason(k)' => k \in returned'
    BY <1>3 DEF DocumentStep, Tick, SetTaskCompleted, SetDueDate, Return, HasReason, ScansArm
  <2> QED
    BY <2>1, <2>2 DEF ScansArm
<1>4. CASE (\E g \in Digests : DigestStep(g)) \/ (\E r \in Relays : RelayStep(r)) \/ UNCHANGED vars
  <2>1. UNCHANGED <<docVars, scanVars, armed, invalidated>>
    BY <1>4, DeliveriesOnly
  <2>2. \A w : ArmedIn(w) => ArmedIn(w)'
    BY <2>1, ArmedInStays
  <2>3. \A s \in undisturbed : Passed(s)' = Passed(s)
    BY <2>1 DEF Passed, scanVars
  <2>4. \A k \in invalidated' : HasReason(k)' => k \in returned'
    BY <2>1 DEF ScansArm, HasReason, docVars
  <2> QED
    BY <2>1, <2>2, <2>3, <2>4 DEF ScansArm, docVars, scanVars
<1> QED
  BY <1>1, <1>2, <1>3, <1>4 DEF Next, ScanStep

\* For any number of scans and documents: once a scan has seen the documents as they
\* are, every open deadline in a window has a record that was or can be delivered,
\* unless the deadline had gone and come back.
THEOREM ArmedDeadlines == Spec => []DeadlinesArmed
<1>1. Init => ScansArm
  BY DEF Init, ScansArm
<1>2. ScansArm => DeadlinesArmed
  BY DEF ScansArm, DeadlinesArmed, ArmedIn, HasReason, Open
<1> QED
  BY <1>1, <1>2, TypeCorrect, NextScansArm, PTL DEF Spec

-----------------------------------------------------------------------------
(* Claims and mails.                                                        *)

FewUnshown == IsFiniteSet(Unshown) /\ Cardinality(Unshown) <= faults

\* A relay has shown a record before it claims the next: only a fault can add to
\* what was claimed in vain, and adds the one record that was claimed.
LEMMA UnshownGrows ==
  ASSUME TypeOK, [Next]_vars
  PROVE  \/ Unshown' \subseteq Unshown /\ faults' >= faults
         \/ /\ faults' = faults + 1
            /\ \E k : Unshown' \subseteq Unshown \union {k}
<1> USE DEF Unshown
<1>1. ASSUME NEW r \in Relays, NEW k \in list[r], Claim(r, k)
      PROVE  Unshown' \subseteq Unshown /\ faults' >= faults
  <2>1. k \in Records /\ relayed \subseteq Records /\ faults' = faults /\ faults \in Nat
    BY <1>1 DEF TypeOK, Claim
  <2>2. ASSUME NEW j \in Unshown' PROVE j \in Unshown
    <3>1. CASE j \in relayed
      BY <1>1, <2>1, <2>2, <3>1, NoneAssumption DEF Claim, TypeOK
    <3>2. CASE j \notin relayed
      BY <1>1, <2>2, <3>2 DEF Claim, TypeOK
    <3> QED
      BY <3>1, <3>2
  <2> QED
    BY <2>1, <2>2
<1>2. ASSUME NEW r \in Relays, Show(r) PROVE Unshown' \subseteq Unshown /\ faults' >= faults
  <2>1. /\ claimed[r] \in Records /\ relayed \subseteq Records
        /\ relayed' = relayed /\ faults' = faults /\ faults \in Nat
    BY <1>2 DEF Show, TypeOK, recordVars
  <2>2. shows'[claimed[r]] > 0 /\ \A k \in Records \ {claimed[r]} : shows'[k] = shows[k]
    BY <1>2, <2>1 DEF Show, TypeOK
  <2>3. \A q \in Relays \ {r} : claimed'[q] = claimed[q]
    BY <1>2 DEF Show, TypeOK
  <2> QED
    BY <2>1, <2>2, <2>3
<1>3. ASSUME NEW r \in Relays, RelayCrash(r) \/ NoPage(r)
      PROVE  faults' = faults + 1 /\ Unshown' \subseteq Unshown \union {claimed[r]}
  <2>1. /\ faults' = faults + 1 /\ UNCHANGED <<relayed, shows>>
        /\ \A q \in Relays \ {r} : claimed'[q] = claimed[q]
    BY <1>3 DEF RelayCrash, NoPage, Fault, TypeOK, recordVars
  <2> QED
    BY <2>1
<1>4. ASSUME UNCHANGED <<relayed, claimed, shows>>, faults' \in {faults, faults + 1}
      PROVE  Unshown' \subseteq Unshown /\ faults' >= faults
  BY <1>4 DEF TypeOK
<1>5. ASSUME \/ DocumentStep \/ (\E s \in Scans : ScanStep(s)) \/ (\E g \in Digests : DigestStep(g))
             \/ (\E r \in Relays : Poll(r)) \/ UNCHANGED vars
      PROVE  UNCHANGED <<relayed, claimed, shows>> /\ faults' \in {faults, faults + 1}
  BY <1>5, DocumentStepDisturbs
  DEF ScanStep, StartScan, Arm, Invalidate, ScanCrash, DigestStep, ReadPending, SendMail,
      SendFails, SendUnconfirmed, MarkEmailed, DigestCrash, Poll, Fault, recordVars,
      relayVars, vars
<1>6. ASSUME NEW r \in Relays, NEW k \in list[r], ClaimFails(r, k)
      PROVE  faults' = faults + 1 /\ Unshown' \subseteq Unshown \union {k}
  BY <1>6 DEF ClaimFails, Fault
<1> QED
  BY <1>1, <1>2, <1>3, <1>4, <1>5, <1>6 DEF Next, RelayStep

LEMMA NextFewUnshown == TypeOK /\ FewUnshown /\ [Next]_vars => FewUnshown'
<1> SUFFICES ASSUME TypeOK, FewUnshown, [Next]_vars PROVE FewUnshown'
  OBVIOUS
<1>1. faults \in Nat /\ Cardinality(Unshown) \in Nat
  BY FS_CardinalityType DEF TypeOK, FewUnshown
<1>2. ASSUME NEW S, IsFiniteSet(S), Unshown' \subseteq S, Cardinality(S) <= faults'
      PROVE  FewUnshown'
  <2>1. IsFiniteSet(Unshown') /\ Cardinality(Unshown') <= Cardinality(S)
    BY <1>2, FS_Subset
  <2>2. Cardinality(Unshown') \in Nat /\ Cardinality(S) \in Nat /\ faults' \in Nat
    BY <1>2, <2>1, FS_CardinalityType, NextTypeOK DEF TypeOK
  <2> QED
    BY <1>2, <2>1, <2>2 DEF FewUnshown
<1>3. CASE Unshown' \subseteq Unshown /\ faults' >= faults
  <2>1. faults' \in Nat
    BY NextTypeOK DEF TypeOK
  <2>2. Cardinality(Unshown) <= faults'
    BY <1>1, <1>3, <2>1 DEF FewUnshown
  <2> QED
    BY <1>2, <1>3, <2>2 DEF FewUnshown
<1>4. ASSUME faults' = faults + 1, NEW k, Unshown' \subseteq Unshown \union {k} PROVE FewUnshown'
  <2>1. IsFiniteSet(Unshown \union {k})
        /\ Cardinality(Unshown \union {k}) \in {Cardinality(Unshown), Cardinality(Unshown) + 1}
    BY FS_AddElement DEF FewUnshown
  <2>2. Cardinality(Unshown \union {k}) <= faults'
    BY <1>1, <1>4, <2>1 DEF FewUnshown
  <2> QED
    BY <1>2, <1>4, <2>1, <2>2
<1> QED
  BY <1>3, <1>4, UnshownGrows

\* However many installations race for a record, the one that gets the claim shows
\* it; each fault costs one record at most.
THEOREM ClaimsShown == Spec => []LostClaimsAreFaults
<1>1. Init => FewUnshown
  <2> SUFFICES ASSUME Init PROVE FewUnshown
    OBVIOUS
  <2>1. Unshown = {} /\ faults = 0
    BY DEF Init, Unshown
  <2> QED
    BY <2>1, FS_EmptySet DEF FewUnshown
<1>2. FewUnshown => LostClaimsAreFaults
  BY DEF FewUnshown, LostClaimsAreFaults
<1> QED
  BY <1>1, <1>2, TypeCorrect, NextFewUnshown, PTL DEF Spec

\* The digests that can mail a record no more: while it is not marked, those that
\* have; once it is marked, all but those that have yet to send the rows they read.
Spent(k) ==
    IF k \in emailed
    THEN {g \in Digests : k \in rows[g] => mailed[g]}
    ELSE {g \in Digests : k \in rows[g] /\ mailed[g]}

MailsCounted == \A k \in Records : mails[k] <= Cardinality(Spent(k)) + faults

\* A mail spends its digest, or its sending is a fault. Else none is spent for less,
\* but for the one that crashes.
LEMMA Spending ==
  ASSUME TypeOK, NEW k \in Records, [Next]_vars
  PROVE  \/ mails'[k] = mails[k] /\ faults' = faults /\ Spent(k) \subseteq Spent(k)'
         \/ /\ mails'[k] = mails[k] /\ faults' = faults + 1
            /\ \E g : Spent(k) \ {g} \subseteq Spent(k)'
         \/ /\ mails'[k] = mails[k] + 1 /\ faults' = faults
            /\ \E g \in Digests \ Spent(k) : Spent(k) \union {g} \subseteq Spent(k)'
         \/ /\ mails'[k] = mails[k] + 1 /\ faults' = faults + 1
            /\ Spent(k) \subseteq Spent(k)'
<1> USE DEF Spent, TypeOK
<1>1. ASSUME NEW g \in Digests, ReadPending(g)
      PROVE  mails'[k] = mails[k] /\ faults' = faults /\ Spent(k) \subseteq Spent(k)'
  BY <1>1 DEF ReadPending, PendingForEmail, recordVars
<1>2. ASSUME NEW g \in Digests, SendMail(g)
      PROVE  \/ mails'[k] = mails[k] /\ faults' = faults /\ Spent(k) \subseteq Spent(k)'
             \/ /\ mails'[k] = mails[k] + 1 /\ faults' = faults
                /\ g \notin Spent(k) /\ Spent(k) \union {g} \subseteq Spent(k)'
  <2>1. /\ ~mailed[g] /\ mailed'[g] /\ \A h \in Digests : h # g => mailed'[h] = mailed[h]
        /\ UNCHANGED <<rows, emailed, faults>>
        /\ mails'[k] = IF k \in rows[g] THEN mails[k] + 1 ELSE mails[k]
    BY <1>2 DEF SendMail, recordVars
  <2> QED
    BY <2>1
<1>3. ASSUME NEW g \in Digests, SendFails(g) \/ MarkEmailed(g)
      PROVE  mails'[k] = mails[k] /\ faults' = faults /\ Spent(k) \subseteq Spent(k)'
  BY <1>3 DEF SendFails, MarkEmailed, EndDigest, recordVars
<1>4. ASSUME NEW g \in Digests, DigestCrash(g)
      PROVE  mails'[k] = mails[k] /\ faults' = faults + 1 /\ Spent(k) \ {g} \subseteq Spent(k)'
  BY <1>4 DEF DigestCrash, Fault, EndDigest, recordVars
<1>5. ASSUME UNCHANGED <<rows, mailed, mails, emailed>>
      PROVE  mails'[k] = mails[k] /\ Spent(k) \subseteq Spent(k)'
  BY <1>5
<1>6. ASSUME \/ DocumentStep \/ (\E s \in Scans : ScanStep(s)) \/ (\E r \in Relays : RelayStep(r))
             \/ UNCHANGED vars
      PROVE  UNCHANGED <<rows, mailed, mails, emailed>> /\ faults' \in {faults, faults + 1}
  BY <1>6, DocumentStepDisturbs
  DEF ScanStep, StartScan, Arm, Invalidate, ScanCrash, RelayStep, Poll, Claim, ClaimFails, Show, NoPage,
      RelayCrash, Fault, recordVars, digestVars, vars
<1>7. ASSUME NEW g \in Digests, SendUnconfirmed(g)
      PROVE  /\ mails'[k] \in {mails[k], mails[k] + 1} /\ faults' = faults + 1
             /\ Spent(k) \subseteq Spent(k)'
  BY <1>7 DEF SendUnconfirmed, Fault, recordVars
<1> QED
  BY <1>1, <1>2, <1>3, <1>4, <1>5, <1>6, <1>7 DEF Next, DigestStep

LEMMA SpentIsFinite ==
  ASSUME IsFiniteSet(Digests), NEW k
  PROVE  /\ IsFiniteSet(Spent(k)) /\ Cardinality(Spent(k)) \in Nat
         /\ Cardinality(Spent(k)) <= Cardinality(Digests)
<1>1. Spent(k) \subseteq Digests
  BY DEF Spent
<1> QED
  BY <1>1, FS_Subset, FS_CardinalityType

LEMMA NextMailsCounted ==
  ASSUME IsFiniteSet(Digests)
  PROVE  TypeOK /\ MailsCounted /\ [Next]_vars => MailsCounted'
<1> SUFFICES ASSUME TypeOK, MailsCounted, [Next]_vars, NEW k \in Records
             PROVE  mails'[k] <= Cardinality(Spent(k)') + faults'
  BY DEF MailsCounted
<1> DEFINE S == Spent(k)
           T == Spent(k)'
<1>1. IsFiniteSet(S) /\ Cardinality(S) \in Nat
  BY SpentIsFinite
<1>2. T \subseteq Digests
  BY DEF Spent
<1>3. IsFiniteSet(T) /\ Cardinality(T) \in Nat
  BY <1>2, FS_Subset, FS_CardinalityType
<1>4. /\ mails[k] \in Nat /\ faults \in Nat
      /\ mails[k] <= Cardinality(S) + faults
  BY DEF TypeOK, MailsCounted
<1> HIDE DEF S, T
<1>5. CASE mails'[k] = mails[k] /\ faults' = faults /\ S \subseteq T
  <2>1. Cardinality(S) <= Cardinality(T)
    BY <1>3, <1>5, FS_Subset
  <2> QED
    BY <1>1, <1>3, <1>4, <1>5, <2>1 DEF T
<1>6. ASSUME mails'[k] = mails[k], faults' = faults + 1, NEW g, S \ {g} \subseteq T
      PROVE  mails'[k] <= Cardinality(T) + faults'
  <2>1. /\ IsFiniteSet(S \ {g})
        /\ Cardinality(S \ {g}) = IF g \in S THEN Cardinality(S) - 1 ELSE Cardinality(S)
    BY <1>1, FS_RemoveElement
  <2>2. Cardinality(S \ {g}) <= Cardinality(T)
    BY <1>3, <1>6, FS_Subset
  <2> QED
    BY <1>1, <1>3, <1>4, <1>6, <2>1, <2>2
<1>7. ASSUME mails'[k] = mails[k] + 1, faults' = faults, NEW g \in Digests \ S,
             S \union {g} \subseteq T
      PROVE  mails'[k] <= Cardinality(T) + faults'
  <2>1. Cardinality(S \union {g}) = Cardinality(S) + 1
    BY <1>1, <1>7, FS_AddElement
  <2>2. Cardinality(S \union {g}) <= Cardinality(T)
    BY <1>3, <1>7, FS_Subset
  <2> QED
    BY <1>1, <1>3, <1>4, <1>7, <2>1, <2>2
<1>8. CASE mails'[k] = mails[k] + 1 /\ faults' = faults + 1 /\ S \subseteq T
  <2>1. Cardinality(S) <= Cardinality(T)
    BY <1>3, <1>8, FS_Subset
  <2> QED
    BY <1>1, <1>3, <1>4, <1>8, <2>1 DEF T
<1> QED
  BY <1>5, <1>6, <1>7, <1>8, Spending DEF S, T

\* For any number of digests in flight, no record is mailed more often than there are
\* of them, and once more for each fault.
THEOREM MailedOnce ==
  ASSUME IsFiniteSet(Digests)
  PROVE  Spec => []ExtraMailsAreFaults
<1>1. Init => MailsCounted
  <2> SUFFICES ASSUME Init, NEW k \in Records PROVE mails[k] <= Cardinality(Spent(k)) + faults
    BY DEF MailsCounted
  <2>1. mails[k] = 0 /\ faults = 0
    BY DEF Init
  <2> QED
    BY <2>1, SpentIsFinite
<1>2. TypeOK /\ MailsCounted => ExtraMailsAreFaults
  <2> SUFFICES ASSUME TypeOK, MailsCounted, NEW k \in Records
               PROVE  mails[k] <= Cardinality(Digests) + faults
    BY DEF ExtraMailsAreFaults
  <2>1. Cardinality(Digests) \in Nat
    BY FS_CardinalityType
  <2>2. mails[k] <= Cardinality(Spent(k)) + faults /\ mails[k] \in Nat /\ faults \in Nat
    BY DEF MailsCounted, TypeOK
  <2> QED
    BY <2>1, <2>2, SpentIsFinite
<1>3. TypeOK /\ MailsCounted /\ [Next]_vars => MailsCounted'
  BY NextMailsCounted
<1> QED
  BY <1>1, <1>2, <1>3, TypeCorrect, PTL DEF Spec
=============================================================================
