-------------------------- MODULE DocumentLifecycle --------------------------
(***************************************************************************)
(* What a user may rely on about the status of a document, without workers, *)
(* statements, requests or reapers. A status changes because the user asks, *)
(* because of a job ordered for the document that has been attempted, or,   *)
(* for a document that nothing works on any more, because it is rescued.    *)
(* A job has a limited number of attempts, and a document fails by a job    *)
(* only in the last of them. DocumentPipeline implements it.                *)
(***************************************************************************)
EXTENDS Naturals

CONSTANTS
    Docs, Jobs,
    MaxAttempts,    \* how often a job is attempted before it is given up
    UserStatuses,   \* what a user may set a status to by hand
    NoDoc

VARIABLES
    status,     \* what the user is shown; "absent" if there is no such document
    ordered,    \* the document each job was ordered for
    job,        \* "none", "open" while an attempt runs or is due, "completed", "failed"
    attempts,   \* how many attempts of each job were started
    disturbed   \* documents whose status was set by hand, or something of which died
                \* or was given up on while it ran

vars == <<status, ordered, job, attempts, disturbed>>
jobVars == <<ordered, job, attempts>>

Init ==
    /\ status = [d \in Docs |-> "absent"]
    /\ ordered = [j \in Jobs |-> NoDoc]
    /\ job = [j \in Jobs |-> "none"]
    /\ attempts = [j \in Jobs |-> 0]
    /\ disturbed = {}

Exists(d) == status[d] # "absent"
Show(d, s) == status' = [status EXCEPT ![d] = s]
Enter(j, state) == job' = [job EXCEPT ![j] = state]

\* A job of d has been attempted and is not over: only if d is disturbed may an
\* attempt go on that nobody waits for any more.
Working(j, d) ==
    /\ ordered[j] = d
    /\ attempts[j] > 0
    /\ job[j] = "open" \/ d \in disturbed

-----------------------------------------------------------------------------
\* A document has a life of its own: no job of an earlier one is left.
Upload(d) ==
    /\ status[d] = "absent"
    /\ \A j \in Jobs : ordered[j] # d
    /\ Show(d, "pending")
    /\ UNCHANGED jobVars

Delete(d) ==
    /\ Exists(d)
    /\ Show(d, "absent")
    /\ UNCHANGED jobVars

SetByHand(d, s) ==
    /\ Exists(d)
    /\ s \in UserStatuses
    /\ Show(d, s)
    /\ d \in disturbed'
    /\ UNCHANGED jobVars

Order(j, d) ==
    /\ job[j] = "none"
    /\ Enter(j, "open")
    /\ ordered' = [ordered EXCEPT ![j] = d]
    /\ UNCHANGED <<status, attempts>>

Attempt(j) ==
    /\ job[j] = "open"
    /\ attempts[j] < MaxAttempts
    /\ attempts' = [attempts EXCEPT ![j] = @ + 1]
    /\ UNCHANGED <<status, ordered, job>>

Finish(j) ==
    /\ job[j] = "open"
    /\ attempts[j] > 0
    /\ Enter(j, "completed")
    /\ UNCHANGED <<status, ordered, attempts>>

GiveUp(j) ==
    /\ job[j] = "open"
    /\ attempts[j] = MaxAttempts
    /\ Enter(j, "failed")
    /\ UNCHANGED <<status, ordered, attempts>>

\* An attempt starts, ends well, or ends badly with another one to come.
Progress(j, d) ==
    /\ Working(j, d)
    /\ Exists(d)
    /\ Show(d, "processing") \/ Show(d, "ready")
    /\ UNCHANGED jobVars

Fail(j, d) ==
    /\ Working(j, d)
    /\ attempts[j] = MaxAttempts
    /\ Exists(d)
    /\ Show(d, "failed")
    /\ UNCHANGED jobVars

\* Left to itself a document never gets stuck.
Rescue(d) ==
    /\ status[d] = "processing"
    /\ d \in disturbed
    /\ \A j \in Jobs : ordered[j] = d => job[j] # "open"
    /\ Show(d, "failed")
    /\ UNCHANGED jobVars

Next ==
    /\ disturbed \subseteq disturbed'
    /\ \/ UNCHANGED <<status, jobVars>>
       \/ \E d \in Docs : Upload(d) \/ Delete(d) \/ Rescue(d) \/ \E s \in UserStatuses : SetByHand(d, s)
       \/ \E j \in Jobs : Attempt(j) \/ Finish(j) \/ GiveUp(j)
       \/ \E j \in Jobs, d \in Docs : Order(j, d) \/ Progress(j, d) \/ Fail(j, d)

Spec == Init /\ [][Next]_vars

-----------------------------------------------------------------------------
\* A document that was left alone is shown as failed only after a job of it has had
\* every attempt there is.
FailedWasTried ==
    \A d \in Docs \ disturbed : status[d] = "failed" =>
        \E j \in Jobs : ordered[j] = d /\ attempts[j] = MaxAttempts
=============================================================================
