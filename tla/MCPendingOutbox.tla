--------------------------- MODULE MCPendingOutbox ---------------------------
(* Small instances of PendingOutbox for TLC.                               *)
EXTENDS PendingOutbox

CONSTANTS l1, l2
=============================================================================
