---------------------------- MODULE MCMessageStore ----------------------------
(* Small instances of MessageStore for TLC.                                *)
EXTENDS MessageStore

CONSTANTS friend
=============================================================================
