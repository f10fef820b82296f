--------------------------- MODULE MCMessageQueue ---------------------------
(* The processes are alike, and so are the files.                          *)
EXTENDS MessageQueue, TLC

Alike == Permutations(Proc) \cup Permutations(File)
=============================================================================
