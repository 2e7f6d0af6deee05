-------------------------- MODULE DeadlineReminders --------------------------
(***************************************************************************)
(* Deadline notifications. A scan arms one record for each document,       *)
(* window and due date and invalidates records whose reason is gone; the   *)
(* daily digest mails what e-mail has not delivered, then marks it; each   *)
(* desktop relay claims what desktop has not delivered, then shows it.     *)
(* All three run beside each other and beside edits of the documents.      *)
(***************************************************************************)
EXTENDS Integers, FiniteSets

CONSTANTS
    Docs,
    LastDay,       \* bound on the calendar: days are 1..LastDay
    UpcomingDays,  \* DEADLINE_UPCOMING_DAYS
    Scans,         \* deadline.scan jobs that may be in flight: one per worker
    Digests,       \* deadline.digest jobs that may be in flight
    Relays,        \* desktop installations with reminders on
    Ops,           \* may a due date move or be cleared, a completed task reopen?
    Faults,        \* what may go wrong between two steps: see FaultKinds
    MaxFaults,     \* bound on faults in a behaviour
    None

\* A job or an installation stops, the server takes a mail and its answer is an
\* error, a claim is answered with an error, a record has no page to open.
FaultKinds == {"crash", "smtp", "claim", "page"}

ASSUME CalendarAssumption == LastDay \in Nat /\ UpcomingDays \in Nat
ASSUME OpsAssumption ==
    /\ Ops \subseteq {"move", "reopen"}
    /\ Faults \subseteq FaultKinds /\ MaxFaults \in Nat

Days == 1..LastDay
NoDate == 0
Windows == {"upcoming", "due", "overdue"}
Records == Docs \X Windows \X Days

ASSUME NoneAssumption == None \notin Records

VARIABLES
    today,
    due, completed,          \* documents.due_date, task_completed_at
    returned,                \* history: records whose reason came back once invalidated
    armed,                   \* notification rows
    invalidated, emailed, relayed,  \* rows with each timestamp set
    scanAt, scanDay,         \* each scan's next statement and its "today"
    rows, mailed,            \* each digest's rows, and whether it has sent them
    list, claimed,           \* each relay's items, and the one it claimed
    mails, shows,            \* how often each record was mailed and shown
    undisturbed, scanned,    \* history: scans that saw one state of the documents
    faults

docVars == <<today, due, completed, returned>>
recordVars == <<armed, invalidated, emailed, relayed>>
scanVars == <<scanAt, scanDay, undisturbed, scanned>>
digestVars == <<rows, mailed, mails>>
relayVars == <<list, claimed, shows>>
vars == <<docVars, recordVars, scanVars, digestVars, relayVars, faults>>

Init ==
    /\ today = 1
    /\ due = [d \in Docs |-> NoDate] /\ completed = [d \in Docs |-> FALSE]
    /\ armed = {} /\ invalidated = {} /\ emailed = {} /\ relayed = {}
    /\ scanAt = [s \in Scans |-> "idle"] /\ scanDay = [s \in Scans |-> 1]
    /\ rows = [g \in Digests |-> {}] /\ mailed = [g \in Digests |-> FALSE]
    /\ list = [r \in Relays |-> {}] /\ claimed = [r \in Relays |-> None]
    /\ mails = [k \in Records |-> 0] /\ shows = [k \in Records |-> 0]
    /\ undisturbed = {} /\ scanned = FALSE /\ returned = {}
    /\ faults = 0

-----------------------------------------------------------------------------
(* Days and documents                                                      *)

Disturb == undisturbed' = {} /\ scanned' = FALSE

\* A deadline comes back: its record stays invalidated.
Return ==
    returned' = returned \union
        {k \in invalidated : due'[k[1]] = k[3] /\ ~completed'[k[1]]}

Tick ==
    /\ today < LastDay
    /\ today' = today + 1
    /\ Disturb
    /\ UNCHANGED <<due, completed, returned, recordVars, scanAt, scanDay,
                   digestVars, relayVars, faults>>

\* A PATCH, or a processing attempt that extracts a due date.
SetDueDate(d, date) ==
    /\ date # due[d]
    /\ due[d] # NoDate => "move" \in Ops
    /\ due' = [due EXCEPT ![d] = date]
    /\ Disturb
    /\ UNCHANGED <<today, completed, recordVars, scanAt, scanDay, digestVars, relayVars, faults>>
    /\ Return

SetTaskCompleted(d) ==
    /\ completed[d] => "reopen" \in Ops
    /\ completed' = [completed EXCEPT ![d] = ~@]
    /\ Disturb
    /\ UNCHANGED <<today, due, recordVars, scanAt, scanDay, digestVars, relayVars, faults>>
    /\ Return

-----------------------------------------------------------------------------
(* scanDeadlines                                                           *)

InWindow(w, date, day) ==
    CASE w = "upcoming" -> date > day /\ date <= day + UpcomingDays
      [] w = "due"      -> date = day
      [] w = "overdue"  -> date < day

Open(d) == due[d] # NoDate /\ ~completed[d]

StartScan(s) ==
    /\ scanAt[s] = "idle"
    /\ scanAt' = [scanAt EXCEPT ![s] = "upcoming"]
    /\ scanDay' = [scanDay EXCEPT ![s] = today]
    /\ undisturbed' = undisturbed \union {s}
    /\ UNCHANGED <<docVars, recordVars, digestVars, relayVars, scanned, faults>>

AfterWindowNotDue(w) ==  \* mutant: a window is left out of the list
    CASE w = "upcoming" -> "overdue" [] w = "due" -> "overdue" [] w = "overdue" -> "invalidate"

AfterWindow(w) ==
    CASE w = "upcoming" -> "due" [] w = "due" -> "overdue" [] w = "overdue" -> "invalidate"

\* INSERT ... SELECT ... ON CONFLICT DO NOTHING: one statement per window.
Arm(s) ==
    /\ scanAt[s] \in Windows
    /\ armed' = armed \union
           {<<d, scanAt[s], due[d]>> :
               d \in {e \in Docs : Open(e) /\ InWindow(scanAt[s], due[e], scanDay[s])}}
    /\ scanAt' = [scanAt EXCEPT ![s] = AfterWindow(@)]
    /\ UNCHANGED <<docVars, invalidated, emailed, relayed, scanDay, undisturbed, scanned,
                   digestVars, relayVars, faults>>

\* A record is for a due date the document has, with its task open.
HasReasonDate(k) == due[k[1]] = k[3]  \* mutant: a completed task keeps its records
HasReason(k) == due[k[1]] = k[3] /\ ~completed[k[1]]

Invalidate(s) ==
    /\ scanAt[s] = "invalidate"
    /\ invalidated' = invalidated \union
           {k \in armed \ (emailed \union relayed) : ~HasReason(k)}
    /\ scanAt' = [scanAt EXCEPT ![s] = "idle"]
    /\ scanned' = (scanned \/ s \in undisturbed)
    /\ undisturbed' = undisturbed \ {s}
    /\ UNCHANGED <<docVars, armed, emailed, relayed, scanDay, digestVars, relayVars, faults>>

-----------------------------------------------------------------------------
\* Something goes wrong, of the kinds that may.
Fault(kind) == kind \in Faults /\ faults < MaxFaults /\ faults' = faults + 1

(* runDigest, for one user                                                 *)

PendingAll == armed \ invalidated  \* mutant: what was mailed is not left out
PendingForEmail == armed \ (invalidated \union emailed)

ReadPending(g) ==
    /\ rows[g] = {}
    /\ PendingForEmail # {}
    /\ rows' = [rows EXCEPT ![g] = PendingForEmail]
    /\ UNCHANGED <<docVars, recordVars, scanVars, mailed, mails, relayVars, faults>>

SendMailAlways(g) ==  \* mutant: a mail is sent though nothing is pending
    /\ ~mailed[g]
    /\ mails' = [k \in Records |-> IF k \in rows[g] THEN mails[k] + 1 ELSE mails[k]]
    /\ mailed' = [mailed EXCEPT ![g] = TRUE]
    /\ UNCHANGED <<docVars, recordVars, scanVars, rows, relayVars, faults>>

SendMail(g) ==
    /\ rows[g] # {} /\ ~mailed[g]
    /\ mails' = [k \in Records |-> IF k \in rows[g] THEN mails[k] + 1 ELSE mails[k]]
    /\ mailed' = [mailed EXCEPT ![g] = TRUE]
    /\ UNCHANGED <<docVars, recordVars, scanVars, rows, relayVars, faults>>

EndDigest(g) ==
    /\ rows' = [rows EXCEPT ![g] = {}]
    /\ mailed' = [mailed EXCEPT ![g] = FALSE]
    /\ UNCHANGED mails

\* Sending failed and sent nothing: nothing is marked, and the job is retried.
SendFails(g) ==
    /\ rows[g] # {} /\ ~mailed[g]
    /\ EndDigest(g)
    /\ UNCHANGED <<docVars, recordVars, scanVars, relayVars, faults>>

\* Sending failed once the server had the mail: it arrives, and so does the retry's.
SendUnconfirmed(g) ==
    /\ Fault("smtp")
    /\ rows[g] # {} /\ ~mailed[g]
    /\ mails' = [k \in Records |-> IF k \in rows[g] THEN mails[k] + 1 ELSE mails[k]]
    /\ rows' = [rows EXCEPT ![g] = {}]
    /\ UNCHANGED <<docVars, recordVars, scanVars, mailed, relayVars>>

MarkEmailed(g) ==
    /\ mailed[g]
    /\ emailed' = emailed \union rows[g]
    /\ EndDigest(g)
    /\ UNCHANGED <<docVars, armed, invalidated, relayed, scanVars, relayVars, faults>>

-----------------------------------------------------------------------------
(* The desktop relay                                                       *)

PendingForDesktop == armed \ (invalidated \union relayed)

Poll(r) ==
    /\ list[r] = {} /\ claimed[r] = None
    /\ PendingForDesktop # {}
    /\ list' = [list EXCEPT ![r] = PendingForDesktop]
    /\ UNCHANGED <<docVars, recordVars, scanVars, digestVars, claimed, shows, faults>>

\* markDelivered: only the first call for a record answers "delivered: true".
ClaimAny(r, k) ==  \* mutant: the update does not test the timestamp
    /\ claimed[r] = None
    /\ k \in list[r]
    /\ list' = [list EXCEPT ![r] = @ \ {k}]
    /\ relayed' = relayed \union {k}
    /\ claimed' = [claimed EXCEPT ![r] = k]
    /\ UNCHANGED <<docVars, armed, invalidated, emailed, scanVars, digestVars, shows, faults>>

ClaimAhead(r, k) ==  \* mutant: the next claim does not wait for the notification
    /\ k \in list[r]
    /\ list' = [list EXCEPT ![r] = @ \ {k}]
    /\ relayed' = relayed \union {k}
    /\ claimed' = [claimed EXCEPT ![r] = IF k \in relayed THEN None ELSE k]
    /\ UNCHANGED <<docVars, armed, invalidated, emailed, scanVars, digestVars, shows, faults>>

Claim(r, k) ==
    /\ claimed[r] = None
    /\ k \in list[r]
    /\ list' = [list EXCEPT ![r] = @ \ {k}]
    /\ relayed' = relayed \union {k}
    /\ claimed' = [claimed EXCEPT ![r] = IF k \in relayed THEN None ELSE k]
    /\ UNCHANGED <<docVars, armed, invalidated, emailed, scanVars, digestVars, shows, faults>>

\* A claim is answered with an error, whether or not it was made: on to the next record.
ClaimFails(r, k) ==
    /\ Fault("claim")
    /\ claimed[r] = None
    /\ k \in list[r]
    /\ list' = [list EXCEPT ![r] = @ \ {k}]
    /\ relayed' \in {relayed, relayed \union {k}}
    /\ UNCHANGED <<docVars, armed, invalidated, emailed, scanVars, digestVars, claimed, shows>>

\* The claim is made and there is no page to announce: on to the next record.
NoPage(r) ==
    /\ Fault("page")
    /\ claimed[r] # None
    /\ claimed' = [claimed EXCEPT ![r] = None]
    /\ UNCHANGED <<docVars, recordVars, scanVars, digestVars, list, shows>>

Show(r) ==
    /\ claimed[r] # None
    /\ shows' = [shows EXCEPT ![claimed[r]] = @ + 1]
    /\ claimed' = [claimed EXCEPT ![r] = None]
    /\ UNCHANGED <<docVars, recordVars, scanVars, digestVars, list, faults>>

-----------------------------------------------------------------------------
ScanCrash(s) ==
    /\ Fault("crash")
    /\ scanAt[s] # "idle"
    /\ scanAt' = [scanAt EXCEPT ![s] = "idle"]
    /\ undisturbed' = undisturbed \ {s}
    /\ UNCHANGED <<docVars, recordVars, scanDay, scanned, digestVars, relayVars>>

DigestCrash(g) ==
    /\ Fault("crash")
    /\ rows[g] # {}
    /\ EndDigest(g)
    /\ UNCHANGED <<docVars, recordVars, scanVars, relayVars>>

\* The installation quits, or the answer to its claim never comes: the pass ends.
RelayCrash(r) ==
    /\ Fault("crash")
    /\ list[r] # {} \/ claimed[r] # None
    /\ list' = [list EXCEPT ![r] = {}]
    /\ claimed' = [claimed EXCEPT ![r] = None]
    /\ UNCHANGED <<docVars, recordVars, scanVars, digestVars, shows>>

-----------------------------------------------------------------------------
DocumentStep ==
    \/ Tick
    \/ \E d \in Docs : SetTaskCompleted(d) \/ \E date \in Days \union {NoDate} : SetDueDate(d, date)

ScanStep(s) == StartScan(s) \/ Arm(s) \/ Invalidate(s) \/ ScanCrash(s)
DigestStep(g) == ReadPending(g) \/ SendMail(g) \/ SendFails(g) \/ SendUnconfirmed(g)
                 \/ MarkEmailed(g) \/ DigestCrash(g)
RelayStep(r) ==
    \/ Poll(r) \/ Show(r) \/ NoPage(r) \/ RelayCrash(r)
    \/ \E k \in list[r] : Claim(r, k) \/ ClaimFails(r, k)

Next ==
    \/ DocumentStep
    \/ \E s \in Scans : ScanStep(s)
    \/ \E g \in Digests : DigestStep(g)
    \/ \E r \in Relays : RelayStep(r)

Spec == Init /\ [][Next]_vars

-----------------------------------------------------------------------------
\* Types; timestamps are on rows that exist, and who has mailed has rows.
TypeOK ==
    /\ today \in Nat
    /\ due \in [Docs -> Days \union {NoDate}] /\ completed \in [Docs -> BOOLEAN]
    /\ armed \subseteq Records
    /\ invalidated \subseteq armed /\ emailed \subseteq armed /\ relayed \subseteq armed
    /\ scanAt \in [Scans -> {"idle", "invalidate"} \union Windows]
    /\ scanDay \in [Scans -> Nat]
    /\ rows \in [Digests -> SUBSET armed] /\ mailed \in [Digests -> BOOLEAN]
    /\ \A g \in Digests : mailed[g] => rows[g] # {}
    /\ list \in [Relays -> SUBSET armed] /\ claimed \in [Relays -> relayed \union {None}]
    /\ mails \in [Records -> Nat] /\ shows \in [Records -> Nat]
    /\ undisturbed \subseteq Scans /\ scanned \in BOOLEAN /\ returned \subseteq invalidated
    /\ faults \in 0..MaxFaults

\* However many installations poll and whatever stops between claim and
\* notification, no record is shown twice.
ShownAtMostOnce == \A k \in Records : shows[k] <= 1

\* A record is mailed once by each digest that can be in flight, so once if they take
\* turns, and once more at most for each job that dies between sending and marking and
\* for each mail that arrives though sending it failed.
ExtraMailsAreFaults == \A k \in Records : mails[k] <= Cardinality(Digests) + faults

\* A record marked delivered on the desktop was shown, or is about to be, but for one
\* at most for each installation that stops between its claim and its notification,
\* each claim answered with an error and each record without a page.
Unshown == {k \in relayed : shows[k] = 0 /\ \A r \in Relays : claimed[r] # k}
LostClaimsAreFaults == Cardinality(Unshown) <= faults

\* Once a scan has seen the documents as they are, every open deadline in a
\* window has a record that was delivered or can still be, unless the deadline had
\* gone and come back: its record stays invalidated.
DeadlinesArmed ==
    scanned => \A d \in Docs, w \in Windows :
        Open(d) /\ InWindow(w, due[d], today) =>
            \/ <<d, w, due[d]>> \in armed \ (invalidated \ (emailed \union relayed))
            \/ <<d, w, due[d]>> \in returned

\* Once a scan has seen the documents as they are, no deadline that was
\* completed, cleared or moved before any channel announced it is announced later.
RemindersCleared ==
    scanned => \A k \in armed \ (invalidated \union emailed \union relayed) :
        due[k[1]] = k[3] /\ ~completed[k[1]]
=============================================================================
