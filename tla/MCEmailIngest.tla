--------------------------- MODULE MCEmailIngest ---------------------------
(* Mailboxes for TLC. Message "a" has two supported attachments and is      *)
(* delivered twice; "x" comes from a forbidden sender.                       *)
EXTENDS EmailIngest

SmallMessages == {"a", "x"}
SmallCopies == 1..3
SmallMessageOf == <<"a", "x", "a">>
SmallOutcome == [m \in SmallMessages |-> IF m = "x" THEN "forbidden" ELSE "imported"]
SmallAttachments == [m \in SmallMessages |-> IF m = "a" THEN 2 ELSE 0]
=============================================================================
