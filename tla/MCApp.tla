---------------------------------- MODULE MCApp ----------------------------------
(* A small instance of App for TLC.                                        *)
EXTENDS App, Sequences, TLC

(* Migration 1 removes nothing, 2 an image path, 3 the fields of the page. *)
RemovedFields == (1 :> {}) @@ (2 :> {"image"}) @@ (3 :> {"ui"})

Words == {<<"@", "a">>, <<"@", "E">>, <<"@", "5">>, <<" ">>, <<".">>, <<"E">>, <<"a">>, <<"i">>}

(* Texts of up to four words.                                              *)
SomeTexts ==
  LET pairs == {u \o v : u, v \in Words \cup {<<>>}} IN {u \o v : u, v \in pairs}

(* One message is queued, sent and deleted, one comes in within the same   *)
(* second and is edited, and one of another chat is queued with the same   *)
(* temporary id, and sent.                                                 *)
MessageStates == {"pending", "sent", "deleted", "received", "edited"}
ThreeLives ==
  << <<Change(1, 5, 5, 1, "pending"), Change(1, 3, 5, 2, "sent"), Change(1, 3, 0, 2, "deleted")>>,
     <<Change(1, 4, 0, 2, "received"), Change(1, 4, 0, 2, "edited")>>,
     <<Change(2, 5, 5, 1, "pending"), Change(2, 6, 5, 2, "sent")>> >>

(* Nothing loaded, an older message, or one that a clock ahead of this one *)
(* dates later as well.                                                    *)
LoadedPages ==
  {<<>>, <<Change(1, 8, 0, 1, "received")>>,
   <<Change(1, 8, 0, 1, "received"), Change(1, 2, 0, 3, "received")>>}
=============================================================================
