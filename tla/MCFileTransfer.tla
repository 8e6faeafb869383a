--------------------------- MODULE MCFileTransfer ---------------------------
(* FileTransfer for TLC: two files, alike but for what may happen to them.      *)
EXTENDS FileTransfer

CONSTANTS f1, f2
=============================================================================
