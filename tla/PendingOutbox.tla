---------------------------- MODULE PendingOutbox ----------------------------
(***************************************************************************)
(* How an outgoing message gets from the composer to the daemon.           *)
(*                                                                         *)
(* queue_and_attempt_send runs on the worker thread of the QML side: it    *)
(* writes the message, its index and its outbox record, each a commit of   *)
(* its own, and schedules an event to send it.  The event loop runs that   *)
(* event, and every second one that tries every outbox record whose        *)
(* backoff is over.  An attempt looks the message up, calls the daemon,    *)
(* and then replaces the pending record by the sent one in five commits.   *)
(* Exceptions, crashes and lost replies fall between any two of them.      *)
(*                                                                         *)
(* Messages are numbered in the order the user sends them to one chat,     *)
(* which is the order of their "pending-<ms>" ids.  Two event loops run    *)
(* when the dispatcher was stopped and started again while an event was    *)
(* being handled (see EventDispatcher); then the in-flight tokens matter.  *)
(* The chat list and the emits are left out.                               *)
(***************************************************************************)
EXTENDS Naturals, Sequences

CONSTANTS
  Loops,        \* the event loops running in the process
  MaxMessages,  \* bound: messages the user sends
  MaxFaults     \* bound: failed calls, exceptions and crashes

ASSUME MaxMessagesAssumption == MaxMessages \in Nat
ASSUME MaxFaultsAssumption == MaxFaults \in Nat

Msgs == 1 .. MaxMessages
RetryEvent == 0     \* the queue entry of PendingMessageRetryEvent

VARIABLES
  \* kv.db
  entry,      \* send status of the message record under the pending id
  indexed,    \* pending ids with a message_index record
  outbox,     \* pending ids with a pending-outbox record
  waiting,    \* those whose next_attempt_at has not come
  sent,       \* how many records the message has under server ids
  sentIndex,  \* how many of those have an index record
  \* the daemon
  wire,       \* how often it transmitted the message
  \* memory of the process
  queue,      \* the dispatcher's queue
  inFlight,   \* _PENDING_SEND_IN_FLIGHT
  wpc, wmsg,  \* the worker thread: its next step, the message it is at
  pc,         \* what each loop does next
  todo,       \* messages the event of each loop has still to attempt
  \* history
  accepted,   \* messages whose outbox record was written
  hit,        \* messages whose way through a fault disturbed
  faults

kvVars     == <<entry, indexed, outbox, waiting, sent, sentIndex>>
workerVars == <<wpc, wmsg>>
loopVars   == <<inFlight, pc, todo>>
vars == <<kvVars, wire, queue, workerVars, loopVars, accepted, hit, faults>>

Sending   == {"lookup", "send", "backoff", "fail", "unqueue"}
Completing == {"dropEntry", "dropIndex", "dropOutbox", "putSent", "putIndex"}
LoopStates == {"idle", "begin"} \cup Sending \cup Completing

Init ==
  /\ entry = [m \in Msgs |-> "none"]
  /\ indexed = {}
  /\ outbox = {}
  /\ waiting = {}
  /\ sent = [m \in Msgs |-> 0]
  /\ sentIndex = [m \in Msgs |-> 0]
  /\ wire = [m \in Msgs |-> 0]
  /\ queue = <<RetryEvent>>
  /\ inFlight = {}
  /\ wpc = "idle"
  /\ wmsg = 1
  /\ pc = [l \in Loops |-> "idle"]
  /\ todo = [l \in Loops |-> {}]
  /\ accepted = {}
  /\ hit = {}
  /\ faults = 0

-----------------------------------------------------------------------------
(* The worker thread.                                                      *)

PutMessage ==
  /\ wpc = "idle" /\ wmsg \in Msgs
  /\ entry' = [entry EXCEPT ![wmsg] = "pending"]
  /\ wpc' = "index"
  /\ UNCHANGED <<indexed, outbox, waiting, sent, sentIndex, wire,
                 queue, wmsg, loopVars, accepted, hit, faults>>

PutIndex ==
  /\ wpc = "index"
  /\ indexed' = indexed \cup {wmsg}
  /\ wpc' = "outbox"
  /\ UNCHANGED <<entry, outbox, waiting, sent, sentIndex, wire,
                 queue, wmsg, loopVars, accepted, hit, faults>>

PutOutbox ==
  /\ wpc = "outbox"
  /\ outbox' = outbox \cup {wmsg}
  /\ accepted' = accepted \cup {wmsg}
  /\ wpc' = "schedule"
  /\ UNCHANGED <<entry, indexed, waiting, sent, sentIndex, wire,
                 queue, wmsg, loopVars, hit, faults>>

(* Mutation: the newest message is scheduled first.                        *)
ScheduleFirst ==
  /\ wpc = "schedule"
  /\ queue' = <<wmsg>> \o queue
  /\ wpc' = "idle"
  /\ wmsg' = wmsg + 1
  /\ UNCHANGED <<kvVars, wire, loopVars, accepted, hit, faults>>

ScheduleSend ==
  /\ wpc = "schedule"
  /\ queue' = Append(queue, wmsg)
  /\ wpc' = "idle"
  /\ wmsg' = wmsg + 1
  /\ UNCHANGED <<kvVars, wire, loopVars, accepted, hit, faults>>

-----------------------------------------------------------------------------
(* The event loop.                                                         *)

(* The periodic retry event falls due.                                     *)
RetryDue ==
  /\ \A i \in 1 .. Len(queue) : queue[i] # RetryEvent
  /\ queue' = Append(queue, RetryEvent)
  /\ UNCHANGED <<kvVars, wire, workerVars, loopVars, accepted, hit, faults>>

BackoffElapses(m) ==
  /\ m \in waiting
  /\ waiting' = waiting \ {m}
  /\ UNCHANGED <<entry, indexed, outbox, sent, sentIndex, wire,
                 queue, workerVars, loopVars, accepted, hit, faults>>

(* Mutation: the comparison with next_attempt_at is the wrong way round.   *)
DueInBackoff(event) == IF event = RetryEvent THEN outbox \cap waiting ELSE {event}

(* What the event at the head of the queue will attempt.                   *)
Due(event) == IF event = RetryEvent THEN outbox \ waiting ELSE {event}

TakeEvent(l) ==
  /\ pc[l] = "idle"
  /\ queue # <<>>
  /\ queue' = Tail(queue)
  /\ todo' = [todo EXCEPT ![l] = Due(Head(queue))]
  /\ pc' = [pc EXCEPT ![l] = IF Due(Head(queue)) = {} THEN "idle" ELSE "begin"]
  /\ UNCHANGED <<kvVars, wire, workerVars, inFlight, accepted, hit, faults>>

(* m is the message the loop is at: get_partial orders the records by      *)
(* their JSON text, hence by pending id.                                   *)
At(l, m, state) ==
  /\ pc[l] = state
  /\ m \in todo[l]
  /\ \A other \in todo[l] : m <= other

Goto(l, state) ==
  /\ pc' = [pc EXCEPT ![l] = state]
  /\ UNCHANGED <<inFlight, todo>>

(* The attempt for m is over; the token, if taken, is given back.          *)
NextMessage(l, m) ==
  /\ todo' = [todo EXCEPT ![l] = @ \ {m}]
  /\ pc' = [pc EXCEPT ![l] = IF todo[l] = {m} THEN "idle" ELSE "begin"]
Finish(l, m) == NextMessage(l, m) /\ inFlight' = inFlight \ {m}

(* Mutation: the token is not tested.                                      *)
BeginUnguarded(l, m) ==
  /\ At(l, m, "begin")
  /\ inFlight' = inFlight \cup {m}
  /\ pc' = [pc EXCEPT ![l] = "lookup"]
  /\ UNCHANGED <<kvVars, wire, queue, workerVars, todo, accepted, hit, faults>>

Begin(l, m) ==
  /\ At(l, m, "begin")
  /\ \/ /\ m \in inFlight
        /\ NextMessage(l, m)
        /\ UNCHANGED inFlight
     \/ /\ m \notin inFlight
        /\ inFlight' = inFlight \cup {m}
        /\ pc' = [pc EXCEPT ![l] = "lookup"]
        /\ UNCHANGED todo
  /\ UNCHANGED <<kvVars, wire, queue, workerVars, accepted, hit, faults>>

(* A message that is gone or no longer pending leaves the outbox; an index *)
(* record that leads nowhere is deleted on the way.                        *)
Lookup(l, m) ==
  LET found == m \in indexed /\ entry[m] # "none" IN
  /\ At(l, m, "lookup")
  /\ indexed' = IF found THEN indexed ELSE indexed \ {m}
  /\ \/ /\ found /\ entry[m] = "pending"
        /\ Goto(l, "send")
        /\ UNCHANGED outbox
     \/ /\ ~ (found /\ entry[m] = "pending")
        /\ outbox' = outbox \ {m}
        /\ Finish(l, m)
  /\ UNCHANGED <<entry, waiting, sent, sentIndex, wire, queue,
                 workerVars, accepted, hit, faults>>

(* The daemon transmits the message and its reply arrives.                 *)
Send(l, m) ==
  /\ At(l, m, "send")
  /\ wire' = [wire EXCEPT ![m] = @ + 1]
  /\ Goto(l, "dropEntry")
  /\ UNCHANGED <<kvVars, queue, workerVars, accepted, hit, faults>>

(* The cached media file is gone, or the message cannot be sent at all.    *)
Unsendable(l, m) ==
  /\ At(l, m, "send")
  /\ Goto(l, "fail")
  /\ UNCHANGED <<kvVars, wire, queue, workerVars, accepted, hit, faults>>

(* Mutation: any exception of the call is taken for a permanent failure.   *)
GiveUp(l, m) ==
  /\ At(l, m, "backoff")
  /\ outbox' = outbox \ {m}
  /\ Finish(l, m)
  /\ UNCHANGED <<entry, indexed, waiting, sent, sentIndex, wire, queue,
                 workerVars, accepted, hit, faults>>

(* _schedule_pending_retry                                                 *)
ScheduleRetry(l, m) ==
  /\ At(l, m, "backoff")
  /\ outbox' = outbox \cup {m}
  /\ waiting' = waiting \cup {m}
  /\ Finish(l, m)
  /\ UNCHANGED <<entry, indexed, sent, sentIndex, wire, queue, workerVars,
                 accepted, hit, faults>>

(* _mark_pending_message_failed, in two commits.                           *)
MarkFailed(l, m) ==
  /\ At(l, m, "fail")
  /\ entry' = [entry EXCEPT ![m] = "failed"]
  /\ Goto(l, "unqueue")
  /\ UNCHANGED <<indexed, outbox, waiting, sent, sentIndex, wire,
                 queue, workerVars, accepted, hit, faults>>

UnqueueFailed(l, m) ==
  /\ At(l, m, "unqueue")
  /\ outbox' = outbox \ {m}
  /\ Finish(l, m)
  /\ UNCHANGED <<entry, indexed, waiting, sent, sentIndex, wire,
                 queue, workerVars, accepted, hit, faults>>

(* Mutation: the sent record is written before the pending one goes.       *)
DropEntryLast(l, m) ==
  /\ At(l, m, "dropEntry")
  /\ sent' = [sent EXCEPT ![m] = @ + 1]
  /\ Goto(l, "dropIndex")
  /\ UNCHANGED <<entry, indexed, outbox, waiting, sentIndex, wire,
                 queue, workerVars, accepted, hit, faults>>

(* _complete_pending_send, in five commits.                                *)
DropEntry(l, m) ==
  /\ At(l, m, "dropEntry")
  /\ entry' = [entry EXCEPT ![m] = "none"]
  /\ Goto(l, "dropIndex")
  /\ UNCHANGED <<indexed, outbox, waiting, sent, sentIndex, wire,
                 queue, workerVars, accepted, hit, faults>>

DropIndex(l, m) ==
  /\ At(l, m, "dropIndex")
  /\ indexed' = indexed \ {m}
  /\ Goto(l, "dropOutbox")
  /\ UNCHANGED <<entry, outbox, waiting, sent, sentIndex, wire,
                 queue, workerVars, accepted, hit, faults>>

DropOutbox(l, m) ==
  /\ At(l, m, "dropOutbox")
  /\ outbox' = outbox \ {m}
  /\ Goto(l, "putSent")
  /\ UNCHANGED <<entry, indexed, waiting, sent, sentIndex, wire,
                 queue, workerVars, accepted, hit, faults>>

PutSent(l, m) ==
  /\ At(l, m, "putSent")
  /\ sent' = [sent EXCEPT ![m] = @ + 1]
  /\ Goto(l, "putIndex")
  /\ UNCHANGED <<entry, indexed, outbox, waiting, sentIndex, wire,
                 queue, workerVars, accepted, hit, faults>>

PutSentIndex(l, m) ==
  /\ At(l, m, "putIndex")
  /\ sentIndex' = [sentIndex EXCEPT ![m] = @ + 1]
  /\ Finish(l, m)
  /\ UNCHANGED <<entry, indexed, outbox, waiting, sent, wire,
                 queue, workerVars, accepted, hit, faults>>

-----------------------------------------------------------------------------
(* What goes wrong.                                                        *)

Fault == faults < MaxFaults /\ faults' = faults + 1

(* The call raises before the daemon transmits: it is not logged in, is    *)
(* rate limited, has timed out, or is not there.                           *)
SendFails(l, m) ==
  /\ At(l, m, "send")
  /\ Fault
  /\ hit' = hit \cup {m}
  /\ Goto(l, "backoff")
  /\ UNCHANGED <<kvVars, wire, queue, workerVars, accepted>>

(* The daemon transmits, and the reply is lost or fails validation.        *)
ReplyLost(l, m) ==
  /\ At(l, m, "send")
  /\ Fault
  /\ hit' = hit \cup {m}
  /\ wire' = [wire EXCEPT ![m] = @ + 1]
  /\ Goto(l, "backoff")
  /\ UNCHANGED <<kvVars, queue, workerVars, accepted>>

(* kv.db or the chat update raises: the exception ends the loop's event,   *)
(* with all it had still to attempt, `finally` gives the token back, and   *)
(* the loop goes on.                                                       *)
AttemptRaises(l, m) ==
  /\ \E state \in LoopStates \ {"idle", "begin", "send"} : At(l, m, state)
  /\ Fault
  /\ hit' = hit \cup todo[l]
  /\ inFlight' = inFlight \ {m}
  /\ todo' = [todo EXCEPT ![l] = {}]
  /\ pc' = [pc EXCEPT ![l] = "idle"]
  /\ UNCHANGED <<kvVars, wire, queue, workerVars, accepted>>

(* The same on the worker thread: the send is not scheduled.               *)
WorkerRaises ==
  /\ wpc # "idle"
  /\ Fault
  /\ hit' = hit \cup {wmsg}
  /\ wpc' = "idle"
  /\ wmsg' = wmsg + 1
  /\ UNCHANGED <<kvVars, wire, queue, loopVars, accepted>>

(* The process dies and is started again: the loop's first event is the    *)
(* retry, whose next_execution_date is not set.                            *)
Crash ==
  /\ Fault
  /\ queue' = <<RetryEvent>>
  /\ inFlight' = {}
  /\ pc' = [l \in Loops |-> "idle"]
  /\ todo' = [l \in Loops |-> {}]
  /\ wpc' = "idle"
  /\ wmsg' = IF wpc = "idle" THEN wmsg ELSE wmsg + 1
  /\ UNCHANGED <<kvVars, wire, accepted, hit>>

-----------------------------------------------------------------------------
Worker == PutMessage \/ PutIndex \/ PutOutbox \/ ScheduleSend

Attempt(l, m) ==
  \/ Begin(l, m) \/ Lookup(l, m)
  \/ Send(l, m) \/ Unsendable(l, m) \/ ScheduleRetry(l, m)
  \/ MarkFailed(l, m) \/ UnqueueFailed(l, m)
  \/ DropEntry(l, m) \/ DropIndex(l, m) \/ DropOutbox(l, m)
  \/ PutSent(l, m) \/ PutSentIndex(l, m)

LoopStep(l) == TakeEvent(l) \/ \E m \in todo[l] : Attempt(l, m)

Failure ==
  \/ \E l \in Loops : \E m \in todo[l] :
       SendFails(l, m) \/ ReplyLost(l, m) \/ AttemptRaises(l, m)
  \/ WorkerRaises
  \/ Crash

Next ==
  \/ Worker
  \/ RetryDue
  \/ \E m \in Msgs : BackoffElapses(m)
  \/ \E l \in Loops : LoopStep(l)
  \/ Failure

Spec == Init /\ [][Next]_vars

(* The loop runs on, the retry event falls due every second and a backoff  *)
(* ends.  Nothing makes the user send or a fault happen.                   *)
Fairness ==
  /\ \A l \in Loops : WF_vars(LoopStep(l))
  /\ WF_vars(RetryDue)
  /\ \A m \in Msgs : WF_vars(BackoffElapses(m))

FairSpec == Spec /\ Fairness

-----------------------------------------------------------------------------
(* Properties.                                                             *)

(* Every variable has its type.                                            *)
TypeOK ==
  /\ entry \in [Msgs -> {"none", "pending", "failed"}]
  /\ indexed \subseteq Msgs
  /\ outbox \subseteq Msgs
  /\ waiting \subseteq Msgs
  /\ sent \in [Msgs -> Nat]
  /\ sentIndex \in [Msgs -> Nat]
  /\ wire \in [Msgs -> Nat]
  /\ queue \in Seq(Msgs \cup {RetryEvent})
  /\ inFlight \subseteq Msgs
  /\ wpc \in {"idle", "index", "outbox", "schedule"}
  /\ wmsg \in Nat \ {0}
  /\ wpc # "idle" => wmsg \in Msgs
  /\ pc \in [Loops -> LoopStates]
  /\ todo \in [Loops -> SUBSET Msgs]
  /\ accepted \subseteq Msgs
  /\ hit \subseteq Msgs
  /\ faults \in 0 .. MaxFaults

(* A message whose outbox record was written is not forgotten: until the   *)
(* daemon has transmitted it or it is marked failed, it stays in the       *)
(* outbox, and its pending record and index stay with it, through crashes, *)
(* exceptions and the cleaning a retry does on its way.                    *)
NothingForgotten ==
  \A m \in accepted :
    \/ wire[m] > 0
    \/ entry[m] = "failed"
    \/ m \in outbox /\ m \in indexed /\ entry[m] = "pending"

(* The chat never shows a message twice, as pending and as sent or as sent *)
(* under two server ids, even when it was transmitted twice.               *)
OneCopy ==
  \A m \in Msgs : sent[m] + (IF entry[m] = "none" THEN 0 ELSE 1) <= 1

(* A message is transmitted again only because of a fault: never more      *)
(* often than there were faults, plus one, whichever events and loops      *)
(* attempt it.                                                             *)
ResentOnlyAfterFault == \A m \in Msgs : wire[m] <= faults + 1

(* Messages of a chat go out in the order they were sent: one that is      *)
(* transmitted overtakes only a message that failed, that a fault hit, or  *)
(* that another loop has already taken up.                                 *)
InOrder ==
  [][\A m \in Msgs : wire'[m] # wire[m] =>
       \A earlier \in accepted : earlier < m =>
         \/ wire[earlier] > 0 \/ entry[earlier] = "failed" \/ earlier \in hit
         \/ \E l \in Loops : earlier \in todo[l]]_vars

(* Every message in the outbox is eventually transmitted or marked failed, *)
(* and leaves the outbox.                                                  *)
Settles ==
  \A m \in Msgs :
    m \in accepted ~> m \notin outbox /\ (wire[m] > 0 \/ entry[m] = "failed")

(* The inductive invariant behind NothingForgotten, OneCopy and            *)
(* ResentOnlyAfterFault.  Busy(l, m): loop l is inside its attempt for m.  *)
Busy(l, m) ==
  /\ m \in todo[l]
  /\ \A other \in todo[l] : m <= other
  /\ pc[l] \notin {"idle", "begin"}

(* Until a message is accepted only the worker knows it.                   *)
Fresh ==
  \A m \in Msgs : m > wmsg \/ (m = wmsg /\ wpc # "schedule") => m \notin accepted
WorkerAt ==
  /\ wpc \in {"index", "outbox"} => entry[wmsg] = "pending"
  /\ wpc = "outbox" => wmsg \in indexed
  /\ wpc = "schedule" => wmsg \in accepted
OnlyAccepted ==
  /\ outbox \subseteq accepted
  /\ \A l \in Loops : todo[l] \subseteq accepted
  /\ \A i \in 1 .. Len(queue) : queue[i] # RetryEvent => queue[i] \in accepted
  /\ \A m \in Msgs : sent[m] > 0 \/ wire[m] > 0 => m \in accepted

(* The token keeps two loops from attempting the same message.             *)
TokenHeld == \A l \in Loops : \A m \in Msgs : Busy(l, m) => m \in inFlight
Exclusive ==
  \A l, k \in Loops : \A m \in Msgs : Busy(l, m) /\ Busy(k, m) => l = k

(* What an attempt looked up stays true while it acts on it.               *)
AttemptAt(l, m) ==
  /\ pc[l] = "send" => entry[m] = "pending" /\ m \in indexed
  /\ pc[l] \in {"fail", "dropEntry"} => entry[m] = "pending"
  /\ pc[l] = "unqueue" => entry[m] = "failed"
  /\ pc[l] \in Completing => wire[m] > 0
  /\ pc[l] \in {"dropIndex", "dropOutbox", "putSent"} => entry[m] = "none" /\ sent[m] = 0
AttemptsSound == \A l \in Loops : \A m \in Msgs : Busy(l, m) => AttemptAt(l, m)

(* While the pending record is there, every transmission but one about to  *)
(* be recorded cost a fault.                                               *)
PendingBound ==
  \A m \in Msgs :
    entry[m] = "pending" /\ (\A l \in Loops : ~ (Busy(l, m) /\ pc[l] = "dropEntry"))
      => wire[m] <= faults

IInv ==
  /\ TypeOK
  /\ Fresh
  /\ WorkerAt
  /\ OnlyAccepted
  /\ TokenHeld
  /\ Exclusive
  /\ AttemptsSound
  /\ NothingForgotten
  /\ OneCopy
  /\ ResentOnlyAfterFault
  /\ PendingBound

-----------------------------------------------------------------------------
(* The inductive invariant behind InOrder.                                 *)

(* Nothing has come of m yet, and no loop has taken it up.                 *)
Open(m) ==
  /\ m \in accepted \ hit
  /\ wire[m] = 0 /\ entry[m] # "failed"
  /\ \A l \in Loops : m \notin todo[l]

(* An event that will take m up is queued before any later message.        *)
Ahead(m) ==
  \E i \in 1 .. Len(queue) :
    queue[i] \in {m, RetryEvent} /\ \A j \in 1 .. i : queue[j] <= m

(* No loop has taken up a later message, and none will before m.           *)
Upcoming ==
  \A m \in Msgs : Open(m) =>
    /\ \A l \in Loops : \A n \in todo[l] : n <= m
    /\ (wpc = "schedule" /\ wmsg = m) \/ Ahead(m)

(* A token belongs to a loop, and only a fault makes a message wait.       *)
TokenOwned == \A m \in inFlight : \E l \in Loops : Busy(l, m)
BacksOffHit ==
  /\ waiting \subseteq hit
  /\ \A l \in Loops : \A m \in Msgs : Busy(l, m) /\ pc[l] = "backoff" => m \in hit

(* An idle loop has attempted all it had taken up.                         *)
IdleDone == \A l \in Loops : pc[l] = "idle" => todo[l] = {}

OrderInv == TokenOwned /\ BacksOffHit /\ IdleDone /\ Upcoming

(* Tests expect a pending message to have its outbox record.               *)
PendingIsQueued ==
  \A m \in Msgs : entry[m] = "pending" /\ m # wmsg => m \in outbox
=============================================================================
