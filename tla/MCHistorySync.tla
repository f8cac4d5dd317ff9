---------------------------- MODULE MCHistorySync ----------------------------
(* Small instances of HistorySync for TLC.                                 *)
EXTENDS HistorySync, TLC

Simple(part) == [parts |-> {part}, words |-> TRUE, link |-> FALSE, seconds |-> 0]

(* Two messages from the contact and one from the user.                    *)
Texts == (1 :> Simple("conversation")) @@ (2 :> Simple("image")) @@ (3 :> Simple("extended"))

Listing(msgs, unread) ==
  [msgs |-> msgs, unread |-> unread, status |-> 1, named |-> FALSE, time |-> 0]
Named(msgs, unread) ==
  [msgs |-> msgs, unread |-> unread, status |-> 3, named |-> TRUE, time |-> 3]

(* An older chunk, a newer one, more unread messages than it carries, two  *)
(* conversations of one contact, push names alone or with the rest, and    *)
(* conversations that carry no message, dated and not.                     *)
Events ==
  {[convs |-> <<Listing({1, 2}, 1)>>, push |-> FALSE],
   [convs |-> <<Named({2, 3}, 0)>>, push |-> FALSE],
   [convs |-> <<Listing({1}, 2)>>, push |-> TRUE],
   [convs |-> <<Listing({1}, 1), Named({3}, 0)>>, push |-> FALSE],
   [convs |-> <<Listing({1, 2}, 0)>>, push |-> TRUE],
   [convs |-> <<>>, push |-> TRUE],
   [convs |-> <<[Listing({}, 1) EXCEPT !.time = 2]>>, push |-> FALSE],
   [convs |-> <<Listing({}, 0)>>, push |-> FALSE]}
=============================================================================
