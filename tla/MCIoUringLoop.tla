--------------------------- MODULE MCIoUringLoop ---------------------------
(* Small instances of IoUringLoop for TLC.                                 *)
EXTENDS IoUringLoop
=============================================================================
