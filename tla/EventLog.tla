------------------------------ MODULE EventLog ------------------------------
(***************************************************************************)
(* What the daemon's event store promises the application, seen from       *)
(* outside: a log whose events are numbered 1, 2, 3, ... as WhatsApp       *)
(* delivers them, handed to the application at least once and for the      *)
(* first time in order, and forgotten only once they have been handed      *)
(* over.  EventPipeline implements it (EventPipeline!Log).                 *)
(***************************************************************************)
EXTENDS Naturals

VARIABLES
  produced,   \* how many events the daemon has stored so far
  delivered,  \* the events the application has dealt with at least once
  forgotten   \* the events the store no longer holds

logVars == <<produced, delivered, forgotten>>

Init ==
  /\ produced = 0
  /\ delivered = {}
  /\ forgotten = {}

Produce ==
  /\ produced' = produced + 1
  /\ UNCHANGED <<delivered, forgotten>>

(* First delivery of e.  Delivering it again changes nothing here.         *)
Deliver(e) ==
  /\ e \notin delivered
  /\ 1 .. e - 1 \subseteq delivered
  /\ delivered' = delivered \cup {e}
  /\ UNCHANGED <<produced, forgotten>>

(* Forget some events, none of which may still be waiting for delivery.    *)
Forget ==
  /\ forgotten \subseteq forgotten'
  /\ forgotten' \subseteq delivered
  /\ UNCHANGED <<produced, delivered>>

Next ==
  \/ Produce
  \/ \E e \in 1 .. produced : Deliver(e)
  \/ Forget

Spec == Init /\ [][Next]_logVars
=============================================================================
