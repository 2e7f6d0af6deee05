-------------------------- MODULE PrivateOriginals --------------------------
(***************************************************************************)
(* What users may rely on about the originals of their documents, without  *)
(* rows, checksums, an object store or requests: it is as if each document *)
(* had a copy of its own. What is uploaded and deleted beside a document,  *)
(* also of the same bytes, leaves it alone; its bytes never change; and    *)
(* they can be read or are still on their way, unless the upload of such   *)
(* bytes once failed or met a delete of them. FileStore implements it.     *)
(***************************************************************************)
CONSTANTS Docs, Contents, None

VARIABLES
    original,  \* the bytes of each document, None if there is no such document
    readable,  \* documents whose original can be read
    coming,    \* documents whose original is being stored
    troubled   \* bytes whose upload has failed or met a delete

vars == <<original, readable, coming, troubled>>

Init ==
    /\ original = [d \in Docs |-> None]
    /\ readable = {} /\ coming = {} /\ troubled = {}

Add(d, k) ==
    /\ original[d] = None
    /\ original' = [original EXCEPT ![d] = k]
    /\ readable' \in {readable, readable \union {d}}
    /\ coming' \in {coming, coming \union {d}}
    /\ d \in readable' \union coming' \/ k \in troubled

Remove(d) ==
    /\ original[d] # None
    /\ original' = [original EXCEPT ![d] = None]
    /\ readable' = readable \ {d}
    /\ coming' = coming \ {d}

\* One object may be the original of several documents.
Arrive(some) ==
    /\ some \subseteq coming
    /\ readable' = readable \union some
    /\ coming' \in {coming, coming \ some}
    /\ UNCHANGED original

\* Nothing is promised about some documents of troubled bytes.
Confuse(some) ==
    /\ \A d \in some : original[d] \in troubled'
    /\ readable' \ some = readable \ some
    /\ coming' \ some = coming \ some
    /\ UNCHANGED original

Next ==
    /\ troubled \subseteq troubled'
    /\ \/ UNCHANGED <<original, readable, coming>>
       \/ \E d \in Docs : Remove(d) \/ \E k \in Contents : Add(d, k)
       \/ \E k \in Contents :
             LET same == {d \in Docs : original[d] = k} IN Arrive(same) \/ Confuse(same)

Spec == Init /\ [][Next]_vars

-----------------------------------------------------------------------------
\* At every moment the original of a document can be read, or is on its way, unless
\* an upload of its bytes failed or met a delete.
AtHand == \A d \in Docs : original[d] # None => d \in readable \union coming \/ original[d] \in troubled
=============================================================================
