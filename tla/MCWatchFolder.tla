--------------------------- MODULE MCWatchFolder ---------------------------
(* Two paths may hold one content, and one path several in turn; both may be there
   though the store keeps a checkpoint of one only. *)
EXTENDS WatchFolder
=============================================================================
