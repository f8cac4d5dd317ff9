--------------------------- MODULE MCEventPipeline ---------------------------
(* Small instances of EventPipeline for TLC.                               *)
EXTENDS EventPipeline

CONSTANTS app, helper

(* Batches small enough for a store that needs several of them: the        *)
(* application asks for the daemon's cap, the helper for less.             *)
MCBatchLimit == [c \in Consumers |-> IF c \in Once THEN 1 ELSE 2]

NoPoison == {}
ThirdIsPoison == {3}

(* Of each two events one is like a message and one like a receipt.        *)
EvenOnes == {2, 4}
=============================================================================
