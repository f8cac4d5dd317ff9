-------------------------- MODULE MCEventDispatcher --------------------------
(* Small instances of EventDispatcher for TLC.                             *)
EXTENDS EventDispatcher

CONSTANTS l1, l2, p1, p2
=============================================================================
