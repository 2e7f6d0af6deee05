-------------------------------- MODULE Inbox --------------------------------
(***************************************************************************)
(* What the mailbox poller promises, without polls, batches, a ledger or   *)
(* faults: every part of a message that was delivered becomes a document,  *)
(* and a copy is only put away when there is nothing left to do for it.    *)
(* EmailIngest implements it.                                              *)
(***************************************************************************)
CONSTANTS
    Copies,     \* what the mail server delivers; a message may come twice
    MessageOf,  \* the message each copy is a copy of
    Parts       \* the parts of each message that have to become documents

VARIABLES
    arrived,    \* copies delivered
    handled,    \* copies put away, never to be looked at again
    filed       \* parts there is a document of

vars == <<arrived, handled, filed>>

Init == arrived = {} /\ handled = {} /\ filed = {}

Deliver(c) ==
    /\ c \in Copies \ arrived
    /\ arrived' = arrived \union {c}
    /\ UNCHANGED <<handled, filed>>

File(c, part) ==
    /\ c \in arrived
    /\ part \in Parts[MessageOf[c]] \ filed
    /\ filed' = filed \union {part}
    /\ UNCHANGED <<arrived, handled>>

\* Every part comes first: a copy put away is a promise kept.
Handle(c) ==
    /\ c \in arrived \ handled
    /\ Parts[MessageOf[c]] \subseteq filed
    /\ handled' = handled \union {c}
    /\ UNCHANGED <<arrived, filed>>

Next ==
    \E c \in Copies :
        Deliver(c) \/ Handle(c) \/ \E part \in Parts[MessageOf[c]] : File(c, part)

Spec == Init /\ [][Next]_vars
=============================================================================
