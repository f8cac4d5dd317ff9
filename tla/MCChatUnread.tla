----------------------------- MODULE MCChatUnread -----------------------------
(* Small instances of ChatUnread for TLC.                                  *)
EXTENDS ChatUnread

CONSTANTS loop, ui, c1, c2

(* Two messages for one chat, so that one may be late, and one for another.*)
MCChatOf == [m \in Msgs |-> IF m = 3 THEN c2 ELSE c1]
=============================================================================
