------------------------- MODULE PendingOutboxProofs -------------------------
(***************************************************************************)
(* Proofs about PendingOutbox, for any number of event loops, messages and *)
(* faults.                                                                 *)
(*                                                                         *)
(* NothingForgotten, OneCopy and ResentOnlyAfterFault are not inductive on *)
(* their own: what an attempt does after its call is only safe because     *)
(* what it looked up before the call still holds.  IInv says so            *)
(* (AttemptsSound), and the in-flight token is why: it is held throughout  *)
(* the attempt (TokenHeld), so no other loop is at the same message        *)
(* (Exclusive), and the worker only writes messages nobody else knows yet  *)
(* (Fresh, OnlyAccepted).                                                  *)
(*                                                                         *)
(* The order of sending (InOrder) needs OrderInv on top of IInv: a message *)
(* no fault has touched is either ahead in the queue of everything newer,  *)
(* or already among the messages an event is working through.              *)
(***************************************************************************)
EXTENDS PendingOutbox, TLAPS

(* Two facts about Busy that every step of a loop uses: moving on inside   *)
(* an attempt changes nobody's message, and leaving it frees this loop.    *)
LEMMA GotoBusy ==
  ASSUME TypeOK, NEW l \in Loops, NEW state \in LoopStates \ {"idle", "begin"},
         pc[l] \notin {"idle", "begin"}, Goto(l, state)
  PROVE  /\ \A k \in Loops : \A x \in Msgs : Busy(k, x)' <=> Busy(k, x)
         /\ \A k \in Loops : k # l => pc'[k] = pc[k]
         /\ pc'[l] = state
         /\ pc' \in [Loops -> LoopStates]
  BY DEF TypeOK, Goto, Busy

LEMMA LeaveBusy ==
  ASSUME TypeOK, NEW l \in Loops, NEW state \in {"idle", "begin"}, NEW rest \in SUBSET Msgs,
         pc' = [pc EXCEPT ![l] = state], todo' = [todo EXCEPT ![l] = rest]
  PROVE  /\ \A k \in Loops : \A x \in Msgs : Busy(k, x)' <=> Busy(k, x) /\ k # l
         /\ \A k \in Loops : k # l => pc'[k] = pc[k]
         /\ pc' \in [Loops -> LoopStates]
         /\ todo' \in [Loops -> SUBSET Msgs]
  BY DEF TypeOK, Busy, LoopStates

LEMMA FinishBusy ==
  ASSUME TypeOK, NEW l \in Loops, NEW m \in todo[l], NextMessage(l, m)
  PROVE  /\ \A k \in Loops : \A x \in Msgs : Busy(k, x)' <=> Busy(k, x) /\ k # l
         /\ \A k \in Loops : k # l => pc'[k] = pc[k]
         /\ pc' \in [Loops -> LoopStates]
         /\ todo' \in [Loops -> SUBSET Msgs]
         /\ \A k \in Loops : todo'[k] \subseteq todo[k]
<1>1. todo[l] \in SUBSET Msgs
  BY DEF TypeOK
<1>2. \A k \in Loops : todo'[k] \subseteq todo[k]
  BY DEF TypeOK, NextMessage
<1> DEFINE rest == todo[l] \ {m}
<1>3. rest \in SUBSET Msgs /\ todo' = [todo EXCEPT ![l] = rest]
  BY <1>1 DEF NextMessage
<1>4. PICK state \in {"idle", "begin"} : pc' = [pc EXCEPT ![l] = state]
  BY DEF NextMessage
<1> HIDE DEF rest
<1>5. QED
  BY <1>2, <1>3, <1>4, LeaveBusy

(* A loop is at one message at a time.                                     *)
LEMMA OneMessage ==
  ASSUME TypeOK, NEW l \in Loops, NEW m \in Msgs, NEW n \in Msgs, Busy(l, m), Busy(l, n)
  PROVE  m = n
<1>1. m <= n /\ n <= m
  BY DEF Busy
<1>2. m \in Nat /\ n \in Nat
  BY MaxMessagesAssumption DEF Msgs
<1>3. QED
  BY <1>1, <1>2

LEMMA InitIInv == Init => IInv
  BY MaxMessagesAssumption, MaxFaultsAssumption
  DEF Init, IInv, TypeOK, Fresh, WorkerAt, OnlyAccepted, TokenHeld, Exclusive, AttemptsSound,
      NothingForgotten, OneCopy, ResentOnlyAfterFault, PendingBound, Busy, LoopStates, Sending,
      Completing, Msgs, RetryEvent


(* Every step keeps the types.                                             *)
LEMMA TypeStep ==
  ASSUME TypeOK, [Next]_vars
  PROVE  TypeOK'
<1> USE DEF TypeOK
<1>0. /\ RetryEvent \in Msgs \cup {RetryEvent}
      /\ faults' \in 0 .. MaxFaults
  <2>1. CASE faults' = faults
    BY <2>1
  <2>2. CASE Fault
    BY <2>2, MaxFaultsAssumption DEF Fault
  <2>3. QED
    BY <2>1, <2>2 DEF Next, Worker, LoopStep, Attempt, Failure, PutMessage, PutIndex, PutOutbox,
      ScheduleSend, RetryDue, BackoffElapses, TakeEvent, Begin, Lookup, Send, Unsendable, ScheduleRetry,
      MarkFailed, UnqueueFailed, DropEntry, DropIndex, DropOutbox, PutSent, PutSentIndex, SendFails,
      ReplyLost, AttemptRaises, WorkerRaises, Crash, vars
<1>1. CASE PutMessage \/ PutIndex \/ PutOutbox
  BY <1>0, <1>1 DEF PutMessage, PutIndex, PutOutbox, loopVars
<1>2. CASE ScheduleSend
  <2>1. wmsg \in Msgs /\ wmsg' \in Nat \ {0}
    BY <1>2 DEF ScheduleSend
  <2>2. queue' \in Seq(Msgs \cup {RetryEvent})
    BY <1>2, <2>1 DEF ScheduleSend
  <2>3. QED
    BY <1>0, <1>2, <2>1, <2>2 DEF ScheduleSend, loopVars, kvVars
<1>3. CASE RetryDue
  <2>1. queue' \in Seq(Msgs \cup {RetryEvent})
    BY <1>0, <1>3 DEF RetryDue
  <2>2. QED
    BY <1>0, <1>3, <2>1 DEF RetryDue, loopVars, kvVars, workerVars
<1>4. CASE WorkerRaises
  BY <1>0, <1>4 DEF WorkerRaises, loopVars, kvVars
<1>5. CASE Crash
  <2>1. queue' \in Seq(Msgs \cup {RetryEvent})
    BY <1>0, <1>5 DEF Crash
  <2>2. pc' \in [Loops -> LoopStates] /\ todo' \in [Loops -> SUBSET Msgs]
    BY <1>5 DEF Crash, LoopStates
  <2>3. wpc' = "idle" /\ wmsg' \in Nat \ {0}
    BY <1>5 DEF Crash
  <2>4. QED
    BY <1>0, <1>5, <2>1, <2>2, <2>3 DEF Crash, kvVars
<1>6. ASSUME NEW m \in Msgs, BackoffElapses(m)
      PROVE  TypeOK'
  BY <1>0, <1>6 DEF BackoffElapses, loopVars, workerVars
<1>7. ASSUME NEW l \in Loops, TakeEvent(l)
      PROVE  TypeOK'
  <2>1. Head(queue) \in Msgs \cup {RetryEvent} /\ queue' \in Seq(Msgs \cup {RetryEvent})
    BY <1>7 DEF TakeEvent
  <2>2. Due(Head(queue)) \in SUBSET Msgs
    BY <2>1 DEF Due
  <2>3. pc' \in [Loops -> LoopStates] /\ todo' \in [Loops -> SUBSET Msgs]
    BY <1>7, <2>2 DEF TakeEvent, LoopStates
  <2>4. QED
    BY <1>0, <1>7, <2>1, <2>3 DEF TakeEvent, kvVars, workerVars
<1>8. ASSUME NEW l \in Loops, NEW m \in todo[l],
             Attempt(l, m) \/ SendFails(l, m) \/ ReplyLost(l, m) \/ AttemptRaises(l, m)
      PROVE  TypeOK'
  <2> USE DEF LoopStates, Sending, Completing
  <2>0. m \in Msgs
    OBVIOUS
  <2>a. ASSUME NEW state \in LoopStates, Goto(l, state)
        PROVE  /\ pc' \in [Loops -> LoopStates] /\ todo' \in [Loops -> SUBSET Msgs]
               /\ inFlight' \subseteq Msgs
    BY <1>0, <2>a DEF Goto
  <2>b. ASSUME NextMessage(l, m)
        PROVE  pc' \in [Loops -> LoopStates] /\ todo' \in [Loops -> SUBSET Msgs]
    BY <2>b, FinishBusy
  <2>1. CASE Begin(l, m)
    <3>1. CASE NextMessage(l, m) /\ UNCHANGED inFlight
      BY <1>0, <2>1, <2>b, <3>1 DEF Begin, kvVars, workerVars
    <3>2. CASE /\ inFlight' = inFlight \cup {m}
               /\ pc' = [pc EXCEPT ![l] = "lookup"]
               /\ UNCHANGED todo
      <4>1. pc' \in [Loops -> LoopStates]
        BY <1>0, <3>2
      <4>2. QED
        BY <1>0, <2>0, <2>1, <3>2, <4>1 DEF Begin, kvVars, workerVars
    <3>3. QED
      BY <2>1, <3>1, <3>2 DEF Begin
  <2>2. CASE Lookup(l, m)
    <3>1. /\ pc' \in [Loops -> LoopStates] /\ todo' \in [Loops -> SUBSET Msgs]
          /\ inFlight' \subseteq Msgs
      <4>1. CASE Goto(l, "send")
        BY <2>a, <4>1
      <4>2. CASE Finish(l, m)
        BY <1>0, <2>b, <4>2 DEF Finish
      <4>3. QED
        BY <2>2, <4>1, <4>2 DEF Lookup
    <3>2. indexed' \subseteq Msgs /\ outbox' \subseteq Msgs
      BY <1>0, <2>2 DEF Lookup
    <3>3. QED
      BY <1>0, <2>2, <3>1, <3>2 DEF Lookup, workerVars
  <2>3. CASE Send(l, m) \/ ReplyLost(l, m)
    <3>1. wire' \in [Msgs -> Nat]
      <4>1. wire \in [Msgs -> Nat] /\ wire[m] + 1 \in Nat
        BY <1>0, <2>0
      <4>2. wire' = [wire EXCEPT ![m] = wire[m] + 1]
        BY <2>3 DEF Send, ReplyLost
      <4>3. QED
        BY <4>1, <4>2
    <3>2. /\ pc' \in [Loops -> LoopStates] /\ todo' \in [Loops -> SUBSET Msgs]
          /\ inFlight' \subseteq Msgs
      BY <2>3, <2>a DEF Send, ReplyLost
    <3>3. CASE Send(l, m)
      BY <1>0, <3>1, <3>2, <3>3 DEF Send, kvVars, workerVars
    <3>4. CASE ReplyLost(l, m)
      BY <1>0, <2>0, <3>1, <3>2, <3>4 DEF ReplyLost, kvVars, workerVars
    <3>5. QED
      BY <2>3, <3>3, <3>4
  <2>4. CASE Unsendable(l, m) \/ SendFails(l, m)
    <3>1. /\ pc' \in [Loops -> LoopStates] /\ todo' \in [Loops -> SUBSET Msgs]
          /\ inFlight' \subseteq Msgs
      BY <2>4, <2>a DEF Unsendable, SendFails
    <3>2. CASE Unsendable(l, m)
      BY <1>0, <3>1, <3>2 DEF Unsendable, kvVars, workerVars
    <3>3. CASE SendFails(l, m)
      BY <1>0, <2>0, <3>1, <3>3 DEF SendFails, kvVars, workerVars
    <3>4. QED
      BY <2>4, <3>2, <3>3
  <2>5. CASE AttemptRaises(l, m)
    <3>1. pc' \in [Loops -> LoopStates] /\ todo' \in [Loops -> SUBSET Msgs]
      BY <1>0, <2>5 DEF AttemptRaises
    <3>2. QED
      BY <1>0, <2>0, <2>5, <3>1 DEF AttemptRaises, kvVars, workerVars
  <2>6. CASE ScheduleRetry(l, m) \/ UnqueueFailed(l, m)
    <3>1. /\ pc' \in [Loops -> LoopStates] /\ todo' \in [Loops -> SUBSET Msgs]
          /\ inFlight' \subseteq Msgs
      BY <1>0, <2>6, <2>b DEF ScheduleRetry, UnqueueFailed, Finish
    <3>2. CASE ScheduleRetry(l, m)
      BY <1>0, <2>0, <3>1, <3>2 DEF ScheduleRetry, workerVars
    <3>3. CASE UnqueueFailed(l, m)
      BY <1>0, <3>1, <3>3 DEF UnqueueFailed, workerVars
    <3>4. QED
      BY <2>6, <3>2, <3>3
  <2>7. CASE MarkFailed(l, m) \/ DropEntry(l, m)
    <3>1. /\ pc' \in [Loops -> LoopStates] /\ todo' \in [Loops -> SUBSET Msgs]
          /\ inFlight' \subseteq Msgs
      BY <2>7, <2>a DEF MarkFailed, DropEntry
    <3>2. entry' \in [Msgs -> {"none", "pending", "failed"}]
      BY <1>0, <2>7 DEF MarkFailed, DropEntry
    <3>3. CASE MarkFailed(l, m)
      BY <1>0, <3>1, <3>2, <3>3 DEF MarkFailed, workerVars
    <3>4. CASE DropEntry(l, m)
      BY <1>0, <3>1, <3>2, <3>4 DEF DropEntry, workerVars
    <3>5. QED
      BY <2>7, <3>3, <3>4
  <2>8. CASE DropIndex(l, m) \/ DropOutbox(l, m)
    <3>1. /\ pc' \in [Loops -> LoopStates] /\ todo' \in [Loops -> SUBSET Msgs]
          /\ inFlight' \subseteq Msgs
      BY <2>8, <2>a DEF DropIndex, DropOutbox
    <3>2. CASE DropIndex(l, m)
      BY <1>0, <3>1, <3>2 DEF DropIndex, workerVars
    <3>3. CASE DropOutbox(l, m)
      BY <1>0, <3>1, <3>3 DEF DropOutbox, workerVars
    <3>4. QED
      BY <2>8, <3>2, <3>3
  <2>9. CASE PutSent(l, m)
    <3>1. sent' \in [Msgs -> Nat]
      BY <1>0, <2>0, <2>9 DEF PutSent
    <3>2. /\ pc' \in [Loops -> LoopStates] /\ todo' \in [Loops -> SUBSET Msgs]
          /\ inFlight' \subseteq Msgs
      BY <2>9, <2>a DEF PutSent
    <3>3. QED
      BY <1>0, <2>9, <3>1, <3>2 DEF PutSent, workerVars
  <2>10. CASE PutSentIndex(l, m)
    <3>1. sentIndex' \in [Msgs -> Nat]
      BY <1>0, <2>0, <2>10 DEF PutSentIndex
    <3>2. /\ pc' \in [Loops -> LoopStates] /\ todo' \in [Loops -> SUBSET Msgs]
          /\ inFlight' \subseteq Msgs
      BY <1>0, <2>10, <2>b DEF PutSentIndex, Finish
    <3>3. QED
      BY <1>0, <2>10, <3>1, <3>2 DEF PutSentIndex, workerVars
  <2>11. QED
    BY <1>8, <2>1, <2>2, <2>3, <2>4, <2>5, <2>6, <2>7, <2>8, <2>9, <2>10 DEF Attempt
<1>9. CASE UNCHANGED vars
  BY <1>9 DEF vars, kvVars, workerVars, loopVars
<1> QED
  BY <1>1, <1>2, <1>3, <1>4, <1>5, <1>6, <1>7, <1>8, <1>9 DEF Next, Worker, LoopStep, Failure

-----------------------------------------------------------------------------
(* The steps of the worker thread.                                         *)

LEMMA PutMessageKeeps ==
  ASSUME IInv, TypeOK', PutMessage
  PROVE  IInv'
<1> USE DEF IInv
<1>1. wmsg \in Msgs /\ wmsg \notin accepted
  BY DEF PutMessage, Fresh
<1>2. /\ \A l \in Loops : \A x \in Msgs : Busy(l, x)' <=> Busy(l, x)
      /\ \A l \in Loops : \A x \in Msgs : Busy(l, x) => x # wmsg
  BY <1>1 DEF PutMessage, loopVars, Busy, OnlyAccepted
<1>3. Fresh' /\ WorkerAt' /\ OnlyAccepted' /\ ResentOnlyAfterFault'
  BY <1>1 DEF PutMessage, loopVars, TypeOK, Fresh, WorkerAt, OnlyAccepted, ResentOnlyAfterFault
<1>4. TokenHeld' /\ Exclusive'
  BY <1>2 DEF PutMessage, loopVars, TokenHeld, Exclusive
<1>5. AttemptsSound'
  BY <1>2 DEF PutMessage, loopVars, TypeOK, AttemptsSound, AttemptAt
<1>6. NothingForgotten'
  BY <1>1 DEF PutMessage, TypeOK, NothingForgotten
<1>7. OneCopy'
  BY <1>1 DEF PutMessage, TypeOK, OneCopy, OnlyAccepted
<1>8. PendingBound'
  <2>1. wire[wmsg] = 0
    BY <1>1 DEF OnlyAccepted, TypeOK
  <2>2. QED
    BY <1>1, <1>2, <2>1 DEF PutMessage, loopVars, TypeOK, PendingBound
<1> QED
  BY <1>3, <1>4, <1>5, <1>6, <1>7, <1>8

LEMMA WorkerKeeps ==
  ASSUME IInv, TypeOK', PutIndex \/ PutOutbox \/ ScheduleSend
  PROVE  IInv'
<1> USE DEF IInv
<1>1. \A l \in Loops : \A x \in Msgs : Busy(l, x)' <=> Busy(l, x)
  BY DEF PutIndex, PutOutbox, ScheduleSend, loopVars, Busy
<1>2. TokenHeld' /\ Exclusive' /\ ResentOnlyAfterFault' /\ OneCopy' /\ PendingBound'
  BY <1>1 DEF PutIndex, PutOutbox, ScheduleSend, loopVars, kvVars, TokenHeld, Exclusive,
              ResentOnlyAfterFault, OneCopy, PendingBound
<1>3. AttemptsSound'
  BY <1>1 DEF PutIndex, PutOutbox, ScheduleSend, loopVars, kvVars, AttemptsSound, AttemptAt
<1>4. CASE PutIndex
  <2>1. Fresh' /\ WorkerAt' /\ OnlyAccepted' /\ NothingForgotten'
    BY <1>4 DEF PutIndex, loopVars, TypeOK, Fresh, WorkerAt, OnlyAccepted, NothingForgotten
  <2>2. QED
    BY <1>2, <1>3, <2>1
<1>5. CASE PutOutbox
  <2>1. wmsg \in Msgs
    BY <1>5 DEF PutOutbox, TypeOK
  <2>2. Fresh' /\ WorkerAt' /\ NothingForgotten'
    <3>1. Fresh'
      BY <1>5, <2>1, MaxMessagesAssumption DEF PutOutbox, TypeOK, Fresh, Msgs
    <3>2. WorkerAt'
      BY <1>5, <2>1 DEF PutOutbox, TypeOK, WorkerAt
    <3>3. NothingForgotten'
      BY <1>5, <2>1 DEF PutOutbox, TypeOK, WorkerAt, NothingForgotten
    <3>4. QED
      BY <3>1, <3>2, <3>3
  <2>3. OnlyAccepted'
    BY <1>5, <2>1 DEF PutOutbox, loopVars, OnlyAccepted
  <2>4. QED
    BY <1>2, <1>3, <2>2, <2>3
<1>6. CASE ScheduleSend
  <2>1. wmsg \in Msgs /\ wmsg \in accepted /\ wmsg' = wmsg + 1 /\ wpc' = "idle"
    BY <1>6 DEF ScheduleSend, TypeOK, WorkerAt
  <2>2. Fresh' /\ WorkerAt' /\ NothingForgotten'
    BY <1>6, <2>1, MaxMessagesAssumption
    DEF ScheduleSend, kvVars, TypeOK, Fresh, WorkerAt, NothingForgotten, Msgs
  <2>3. \A i \in 1 .. Len(queue') : queue'[i] = wmsg \/ (i \in 1 .. Len(queue) /\ queue'[i] = queue[i])
    BY <1>6 DEF ScheduleSend, TypeOK
  <2>4. OnlyAccepted'
    BY <1>6, <2>1, <2>3 DEF ScheduleSend, kvVars, loopVars, OnlyAccepted
  <2>5. QED
    BY <1>2, <1>3, <2>2, <2>4
<1> QED
  BY <1>4, <1>5, <1>6

-----------------------------------------------------------------------------
(* Timers, and the worker's and the process's failures.                    *)

LEMMA TimersKeep ==
  ASSUME IInv, TypeOK', RetryDue \/ WorkerRaises \/ \E m \in Msgs : BackoffElapses(m)
  PROVE  IInv'
<1> USE DEF IInv
<1>1. /\ UNCHANGED <<entry, indexed, outbox, sent, wire, inFlight, pc, todo, accepted>>
      /\ faults' >= faults /\ faults \in Nat /\ faults' \in Nat
      /\ \/ wpc' = wpc /\ wmsg' = wmsg
         \/ wpc' = "idle" /\ wmsg' = wmsg + 1
  BY MaxFaultsAssumption
  DEF RetryDue, WorkerRaises, BackoffElapses, Fault, kvVars, loopVars, workerVars, TypeOK
<1>2. \A l \in Loops : \A x \in Msgs : Busy(l, x)' <=> Busy(l, x)
  BY <1>1 DEF Busy
<1>3. TokenHeld' /\ Exclusive' /\ OneCopy' /\ NothingForgotten'
  BY <1>1, <1>2 DEF TokenHeld, Exclusive, OneCopy, NothingForgotten
<1>4. AttemptsSound'
  BY <1>1, <1>2 DEF AttemptsSound, AttemptAt
<1>5. ResentOnlyAfterFault' /\ PendingBound'
  <2>1. \A x \in Msgs : wire'[x] = wire[x] /\ wire[x] \in Nat
    BY <1>1 DEF TypeOK
  <2>2. ResentOnlyAfterFault'
    BY <1>1, <2>1 DEF ResentOnlyAfterFault
  <2>3. PendingBound'
    BY <1>1, <1>2, <2>1 DEF PendingBound
  <2>4. QED
    BY <2>2, <2>3
<1>6. Fresh' /\ WorkerAt'
  <2>1. wmsg \in Nat /\ \A x \in Msgs : x \in Nat
    BY MaxMessagesAssumption DEF TypeOK, Msgs
  <2>2. Fresh'
    BY <1>1, <2>1 DEF Fresh
  <2>3. WorkerAt'
    BY <1>1 DEF WorkerAt
  <2>4. QED
    BY <2>2, <2>3
<1>7. OnlyAccepted'
  <2>1. \A i \in 1 .. Len(queue') : queue'[i] = RetryEvent \/ (i \in 1 .. Len(queue) /\ queue'[i] = queue[i])
    <3>1. CASE RetryDue
      BY <3>1 DEF RetryDue, TypeOK
    <3>2. CASE queue' = queue
      BY <3>2
    <3>3. QED
      BY <3>1, <3>2 DEF WorkerRaises, BackoffElapses
  <2>2. QED
    BY <1>1, <2>1 DEF OnlyAccepted
<1> QED
  BY <1>3, <1>4, <1>5, <1>6, <1>7

LEMMA CrashKeeps ==
  ASSUME IInv, TypeOK', Crash
  PROVE  IInv'
<1> USE DEF IInv
<1>1. \A l \in Loops : \A x \in Msgs : ~ Busy(l, x)'
  BY DEF Crash, Busy
<1>2. TokenHeld' /\ Exclusive' /\ AttemptsSound'
  BY <1>1 DEF TokenHeld, Exclusive, AttemptsSound
<1>3. OneCopy' /\ NothingForgotten'
  BY DEF Crash, kvVars, OneCopy, NothingForgotten
<1>4. faults' = faults + 1 /\ faults \in Nat
  BY MaxFaultsAssumption DEF Crash, Fault, TypeOK
<1>5. ResentOnlyAfterFault' /\ PendingBound'
  BY <1>4 DEF Crash, kvVars, TypeOK, ResentOnlyAfterFault, PendingBound
<1>6. Fresh' /\ WorkerAt'
  BY MaxMessagesAssumption DEF Crash, kvVars, TypeOK, Fresh, WorkerAt, Msgs
<1>7. OnlyAccepted'
  BY DEF Crash, kvVars, OnlyAccepted, RetryEvent
<1> QED
  BY <1>2, <1>3, <1>5, <1>6, <1>7

-----------------------------------------------------------------------------
(* The steps of a loop.                                                    *)

LEMMA TakeEventKeeps ==
  ASSUME IInv, TypeOK', NEW l \in Loops, TakeEvent(l)
  PROVE  IInv'
<1> USE DEF IInv
<1>1. queue # <<>> /\ Head(queue) = queue[1] /\ 1 \in 1 .. Len(queue)
  BY DEF TakeEvent, TypeOK
<1>2. Due(Head(queue)) \in SUBSET Msgs /\ Due(Head(queue)) \subseteq accepted
  BY <1>1 DEF Due, OnlyAccepted, TypeOK
<1>3. pc[l] = "idle" /\ \E state \in {"idle", "begin"} : pc' = [pc EXCEPT ![l] = state]
  BY DEF TakeEvent
<1>4. /\ \A k \in Loops : \A x \in Msgs : Busy(k, x)' <=> Busy(k, x) /\ k # l
      /\ \A k \in Loops : k # l => pc'[k] = pc[k]
  BY <1>2, <1>3, LeaveBusy DEF TakeEvent
<1>5. \A k \in Loops : \A x \in Msgs : Busy(k, x) => k # l
  BY <1>3 DEF Busy
<1>6. Fresh' /\ WorkerAt' /\ NothingForgotten' /\ OneCopy' /\ ResentOnlyAfterFault'
  BY DEF TakeEvent, kvVars, workerVars, Fresh, WorkerAt, NothingForgotten, OneCopy, ResentOnlyAfterFault
<1>7. TokenHeld' /\ Exclusive'
  BY <1>4, <1>5 DEF TakeEvent, TokenHeld, Exclusive
<1>8. AttemptsSound'
  BY <1>4, <1>5 DEF TakeEvent, kvVars, AttemptsSound, AttemptAt
<1>9. PendingBound'
  BY <1>4, <1>5 DEF TakeEvent, kvVars, PendingBound
<1>10. OnlyAccepted'
  <2>1. \A i \in 1 .. Len(queue') : i + 1 \in 1 .. Len(queue) /\ queue'[i] = queue[i + 1]
    BY <1>1 DEF TakeEvent, TypeOK
  <2>2. \A k \in Loops : todo'[k] = IF k = l THEN Due(Head(queue)) ELSE todo[k]
    BY DEF TakeEvent, TypeOK
  <2>3. QED
    BY <1>2, <2>1, <2>2 DEF TakeEvent, kvVars, OnlyAccepted
<1> QED
  BY <1>6, <1>7, <1>8, <1>9, <1>10

LEMMA BeginKeeps ==
  ASSUME IInv, TypeOK', NEW l \in Loops, NEW m \in todo[l], Begin(l, m)
  PROVE  IInv'
<1> USE DEF IInv
<1>1. m \in Msgs /\ pc[l] = "begin" /\ \A x \in Msgs : ~ Busy(l, x)
  BY DEF Begin, At, Busy, TypeOK
<1>2. Fresh' /\ WorkerAt' /\ NothingForgotten' /\ OneCopy' /\ ResentOnlyAfterFault'
  BY DEF Begin, kvVars, workerVars, Fresh, WorkerAt, NothingForgotten, OneCopy, ResentOnlyAfterFault
<1>3. CASE m \in inFlight
  <2>1. /\ \A k \in Loops : \A x \in Msgs : Busy(k, x)' <=> Busy(k, x)
        /\ \A k \in Loops : k # l => pc'[k] = pc[k]
        /\ \A k \in Loops : todo'[k] \subseteq todo[k]
    BY <1>1, <1>3, FinishBusy DEF Begin
  <2>2. OnlyAccepted' /\ TokenHeld' /\ Exclusive'
    BY <1>3, <2>1 DEF Begin, kvVars, OnlyAccepted, TokenHeld, Exclusive
  <2>3. AttemptsSound'
    BY <1>1, <2>1 DEF Begin, kvVars, AttemptsSound, AttemptAt
  <2>4. PendingBound'
    BY <1>1, <2>1 DEF Begin, kvVars, PendingBound
  <2>5. QED
    BY <1>2, <2>2, <2>3, <2>4
<1>4. CASE m \notin inFlight
  <2>1. /\ \A k \in Loops : \A x \in Msgs : Busy(k, x)' => Busy(k, x) \/ (k = l /\ x = m)
        /\ \A k \in Loops : \A x \in Msgs : Busy(k, x) => Busy(k, x)' /\ k # l /\ x # m
    <3>1. \A k \in Loops : pc'[k] = IF k = l THEN "lookup" ELSE pc[k]
      BY <1>4 DEF Begin, TypeOK
    <3>2. \A x \in Msgs : Busy(l, x)' => x = m
      <4> SUFFICES ASSUME NEW x \in Msgs, Busy(l, x)'
                   PROVE  x = m
        OBVIOUS
      <4>1. m <= x /\ x <= m
        BY <1>4 DEF Begin, At, Busy
      <4>2. m \in Nat /\ x \in Nat
        BY <1>1, MaxMessagesAssumption DEF Msgs
      <4>3. QED
        BY <4>1, <4>2
    <3>3. \A k \in Loops : k # l => \A x \in Msgs : Busy(k, x)' <=> Busy(k, x)
      BY <1>4, <3>1 DEF Begin, Busy
    <3>4. QED
      BY <1>1, <1>4, <3>2, <3>3 DEF TokenHeld
  <2>2. \A k \in Loops : pc'[k] = IF k = l THEN "lookup" ELSE pc[k]
    BY <1>4 DEF Begin, TypeOK
  <2>3. OnlyAccepted' /\ TokenHeld'
    BY <1>4, <2>1 DEF Begin, kvVars, OnlyAccepted, TokenHeld
  <2>4. Exclusive'
    BY <2>1 DEF Exclusive
  <2>5. AttemptsSound'
    BY <1>4, <2>1, <2>2 DEF Begin, kvVars, AttemptsSound, AttemptAt, Completing
  <2>6. PendingBound'
    BY <2>1, <2>2 DEF Begin, kvVars, PendingBound
  <2>7. QED
    BY <1>2, <2>3, <2>4, <2>5, <2>6
<1> QED
  BY <1>3, <1>4

(* Inside an attempt for m, no other loop is at m and l is at nothing      *)
(* else; m is accepted, so the worker is not at it either.                 *)
LEMMA Alone ==
  ASSUME IInv, NEW l \in Loops, NEW m \in todo[l],
         \E state \in LoopStates \ {"idle", "begin"} : At(l, m, state)
  PROVE  /\ m \in Msgs /\ m \in accepted /\ Busy(l, m)
         /\ \A k \in Loops : \A x \in Msgs : Busy(k, x) => (k = l <=> x = m)
         /\ wpc \in {"index", "outbox"} => wmsg # m
<1>1. m \in Msgs /\ m \in accepted
  BY DEF IInv, TypeOK, OnlyAccepted
<1>2. Busy(l, m)
  BY DEF At, Busy
<1>3. \A k \in Loops : \A x \in Msgs : Busy(k, x) => (k = l <=> x = m)
  BY <1>1, <1>2, OneMessage DEF IInv, Exclusive
<1>4. wpc \in {"index", "outbox"} => wmsg # m
  BY <1>1 DEF IInv, Fresh
<1> QED
  BY <1>1, <1>2, <1>3, <1>4

(* What every step to another point of the same attempt keeps.             *)
LEMMA GotoFrame ==
  ASSUME IInv, NEW l \in Loops, NEW m \in todo[l],
         \E state \in LoopStates \ {"idle", "begin"} : At(l, m, state),
         NEW to \in LoopStates \ {"idle", "begin"}, Goto(l, to),
         UNCHANGED <<workerVars, accepted, queue>>,
         \A x \in Msgs : x # m => sent'[x] = sent[x] /\ wire'[x] = wire[x],
         outbox' \subseteq outbox
  PROVE  /\ Fresh' /\ TokenHeld' /\ Exclusive' /\ OnlyAccepted'
         /\ \A k \in Loops : \A x \in Msgs : Busy(k, x)' <=> Busy(k, x)
         /\ \A k \in Loops : k # l => pc'[k] = pc[k]
         /\ pc'[l] = to
<1> USE DEF IInv
<1>1. /\ \A k \in Loops : \A x \in Msgs : Busy(k, x)' <=> Busy(k, x)
      /\ \A k \in Loops : k # l => pc'[k] = pc[k]
      /\ pc'[l] = to
  BY GotoBusy DEF At
<1>2. Fresh' /\ TokenHeld' /\ Exclusive'
  BY <1>1 DEF workerVars, Fresh, TokenHeld, Exclusive, Goto
<1>3. OnlyAccepted'
  BY Alone DEF OnlyAccepted, Goto
<1> QED
  BY <1>1, <1>2, <1>3

LEMMA LeaveFrame ==
  ASSUME IInv, NEW l \in Loops, NEW m \in todo[l],
         \E state \in LoopStates \ {"idle", "begin"} : At(l, m, state),
         \/ Finish(l, m)
         \/ /\ pc' = [pc EXCEPT ![l] = "idle"] /\ todo' = [todo EXCEPT ![l] = {}]
            /\ inFlight' = inFlight \ {m},
         UNCHANGED <<workerVars, accepted, queue, entry, sent, wire>>,
         outbox' \subseteq accepted,
         faults' >= faults /\ faults' \in Nat,
         pc[l] = "dropEntry" => faults' > faults
  PROVE  /\ Fresh' /\ TokenHeld' /\ Exclusive' /\ OnlyAccepted'
         /\ OneCopy' /\ ResentOnlyAfterFault' /\ PendingBound'
         /\ \A k \in Loops : \A x \in Msgs : Busy(k, x)' <=> Busy(k, x) /\ k # l
         /\ \A k \in Loops : k # l => pc'[k] = pc[k]
<1> USE DEF IInv
<1>1. /\ \A k \in Loops : \A x \in Msgs : Busy(k, x)' <=> Busy(k, x) /\ k # l
      /\ \A k \in Loops : k # l => pc'[k] = pc[k]
      /\ \A k \in Loops : todo'[k] \subseteq todo[k]
  <2>1. CASE Finish(l, m)
    BY <2>1, FinishBusy DEF Finish
  <2>2. CASE pc' = [pc EXCEPT ![l] = "idle"] /\ todo' = [todo EXCEPT ![l] = {}]
    <3>1. \A k \in Loops : todo'[k] \subseteq todo[k]
      BY <2>2 DEF TypeOK
    <3>2. "idle" \in {"idle", "begin"} /\ {} \in SUBSET Msgs
      OBVIOUS
    <3>3. /\ \A k \in Loops : \A x \in Msgs : Busy(k, x)' <=> Busy(k, x) /\ k # l
          /\ \A k \in Loops : k # l => pc'[k] = pc[k]
      BY <2>2, <3>2, LeaveBusy
    <3>4. QED
      BY <3>1, <3>3
  <2>3. QED
    BY <2>1, <2>2
<1>2. inFlight' = inFlight \ {m}
  BY DEF Finish
<1>3. Fresh' /\ OneCopy' /\ Exclusive'
  BY <1>1 DEF workerVars, Fresh, OneCopy, Exclusive
<1>4. TokenHeld'
  BY <1>1, <1>2, Alone DEF TokenHeld
<1>5. OnlyAccepted'
  BY <1>1 DEF OnlyAccepted
<1>6. faults \in Nat /\ \A x \in Msgs : wire[x] \in Nat
  BY MaxFaultsAssumption DEF TypeOK
<1>7. ResentOnlyAfterFault'
  BY <1>6 DEF ResentOnlyAfterFault
<1>8. PendingBound'
  <2> SUFFICES ASSUME NEW x \in Msgs, entry[x] = "pending",
                      \A k \in Loops : ~ (Busy(k, x)' /\ pc'[k] = "dropEntry")
               PROVE  wire[x] <= faults'
    BY DEF PendingBound
  <2>1. CASE pc[l] = "dropEntry"
    BY <1>6, <2>1 DEF ResentOnlyAfterFault
  <2>2. CASE pc[l] # "dropEntry"
    BY <1>1, <1>6, <2>2 DEF PendingBound
  <2>3. QED
    BY <2>1, <2>2
<1> QED
  BY <1>1, <1>3, <1>4, <1>5, <1>7, <1>8

LEMMA SendKeeps ==
  ASSUME IInv, TypeOK', NEW l \in Loops, NEW m \in todo[l], Send(l, m)
  PROVE  IInv'
<1> USE DEF IInv
<1>1. /\ m \in Msgs /\ m \in accepted /\ Busy(l, m) /\ pc[l] = "send"
      /\ \A k \in Loops : \A x \in Msgs : Busy(k, x) => (k = l <=> x = m)
      /\ wpc \in {"index", "outbox"} => wmsg # m
  BY Alone DEF Send, At, LoopStates, Sending, Completing
<1>2. /\ Fresh' /\ TokenHeld' /\ Exclusive' /\ OnlyAccepted'
      /\ \A k \in Loops : \A x \in Msgs : Busy(k, x)' <=> Busy(k, x)
      /\ \A k \in Loops : k # l => pc'[k] = pc[k]
      /\ pc'[l] = "dropEntry"
  <2>1. /\ "dropEntry" \in LoopStates \ {"idle", "begin"}
        /\ At(l, m, "send") /\ "send" \in LoopStates \ {"idle", "begin"}
    BY DEF Send, LoopStates, Sending, Completing
  <2>2. /\ Goto(l, "dropEntry")
        /\ UNCHANGED <<workerVars, accepted, queue>>
        /\ outbox' \subseteq outbox
        /\ \A x \in Msgs : x # m => sent'[x] = sent[x] /\ wire'[x] = wire[x]
    BY DEF Send, kvVars, TypeOK
  <2>3. QED
    BY <2>1, <2>2, GotoFrame
<1>3. AttemptsSound'
  <2> SUFFICES ASSUME NEW k \in Loops, NEW x \in Msgs, Busy(k, x)
               PROVE  AttemptAt(k, x)'
    BY <1>2 DEF AttemptsSound
  <2>1. AttemptAt(k, x) /\ AttemptAt(l, m)
    BY <1>1 DEF AttemptsSound
  <2>2. CASE k = l
    BY <1>1, <1>2, <2>1, <2>2 DEF Send, kvVars, AttemptAt, Completing, TypeOK
  <2>3. CASE k # l
    BY <1>1, <1>2, <2>1, <2>3 DEF Send, kvVars, AttemptAt, Completing, TypeOK
  <2>4. QED
    BY <2>2, <2>3
<1>4. WorkerAt' /\ NothingForgotten' /\ OneCopy'
  <2>1. WorkerAt' /\ OneCopy'
    BY DEF Send, kvVars, workerVars, WorkerAt, OneCopy
  <2>2. NothingForgotten'
    BY <1>1 DEF Send, kvVars, NothingForgotten, TypeOK
  <2>3. QED
    BY <2>1, <2>2
<1>5. ResentOnlyAfterFault'
  <2>1. wire[m] <= faults
    BY <1>1 DEF PendingBound, AttemptsSound, AttemptAt
  <2>2. /\ \A x \in Msgs : wire'[x] = IF x = m THEN wire[x] + 1 ELSE wire[x]
        /\ faults' = faults /\ faults \in Nat /\ \A x \in Msgs : wire[x] \in Nat
    BY MaxFaultsAssumption DEF Send, TypeOK
  <2>3. QED
    BY <2>1, <2>2 DEF ResentOnlyAfterFault
<1>6. PendingBound'
  BY <1>1, <1>2 DEF Send, kvVars, PendingBound, TypeOK
<1> QED
  BY <1>2, <1>3, <1>4, <1>5, <1>6

LEMMA UnsendableKeeps ==
  ASSUME IInv, TypeOK', NEW l \in Loops, NEW m \in todo[l], Unsendable(l, m)
  PROVE  IInv'
<1> USE DEF IInv
<1>1. /\ m \in Msgs /\ m \in accepted /\ Busy(l, m) /\ pc[l] = "send"
      /\ \A k \in Loops : \A x \in Msgs : Busy(k, x) => (k = l <=> x = m)
      /\ wpc \in {"index", "outbox"} => wmsg # m
  BY Alone DEF Unsendable, At, LoopStates, Sending, Completing
<1>2. /\ Fresh' /\ TokenHeld' /\ Exclusive' /\ OnlyAccepted'
      /\ \A k \in Loops : \A x \in Msgs : Busy(k, x)' <=> Busy(k, x)
      /\ \A k \in Loops : k # l => pc'[k] = pc[k]
      /\ pc'[l] = "fail"
  <2>1. /\ "fail" \in LoopStates \ {"idle", "begin"}
        /\ At(l, m, "send") /\ "send" \in LoopStates \ {"idle", "begin"}
    BY DEF Unsendable, LoopStates, Sending, Completing
  <2>2. /\ Goto(l, "fail")
        /\ UNCHANGED <<workerVars, accepted, queue>>
        /\ outbox' \subseteq outbox
        /\ \A x \in Msgs : x # m => sent'[x] = sent[x] /\ wire'[x] = wire[x]
    BY DEF Unsendable, kvVars, TypeOK
  <2>3. QED
    BY <2>1, <2>2, GotoFrame
<1>3. AttemptsSound'
  <2> SUFFICES ASSUME NEW k \in Loops, NEW x \in Msgs, Busy(k, x)
               PROVE  AttemptAt(k, x)'
    BY <1>2 DEF AttemptsSound
  <2>1. AttemptAt(k, x) /\ AttemptAt(l, m)
    BY <1>1 DEF AttemptsSound
  <2>2. CASE k = l
    BY <1>1, <1>2, <2>1, <2>2 DEF Unsendable, kvVars, AttemptAt, Completing, TypeOK
  <2>3. CASE k # l
    BY <1>1, <1>2, <2>1, <2>3 DEF Unsendable, kvVars, AttemptAt, Completing, TypeOK
  <2>4. QED
    BY <2>2, <2>3
<1>4. WorkerAt' /\ NothingForgotten' /\ OneCopy'
  BY DEF Unsendable, kvVars, workerVars, WorkerAt, NothingForgotten, OneCopy
<1>5. ResentOnlyAfterFault'
  BY MaxFaultsAssumption DEF Unsendable, ResentOnlyAfterFault, TypeOK
<1>6. PendingBound'
  BY <1>1, <1>2, MaxFaultsAssumption DEF Unsendable, kvVars, PendingBound, TypeOK
<1> QED
  BY <1>2, <1>3, <1>4, <1>5, <1>6

LEMMA SendFailsKeeps ==
  ASSUME IInv, TypeOK', NEW l \in Loops, NEW m \in todo[l], SendFails(l, m)
  PROVE  IInv'
<1> USE DEF IInv
<1>1. /\ m \in Msgs /\ m \in accepted /\ Busy(l, m) /\ pc[l] = "send"
      /\ \A k \in Loops : \A x \in Msgs : Busy(k, x) => (k = l <=> x = m)
      /\ wpc \in {"index", "outbox"} => wmsg # m
  BY Alone DEF SendFails, At, LoopStates, Sending, Completing
<1>2. /\ Fresh' /\ TokenHeld' /\ Exclusive' /\ OnlyAccepted'
      /\ \A k \in Loops : \A x \in Msgs : Busy(k, x)' <=> Busy(k, x)
      /\ \A k \in Loops : k # l => pc'[k] = pc[k]
      /\ pc'[l] = "backoff"
  <2>1. /\ "backoff" \in LoopStates \ {"idle", "begin"}
        /\ At(l, m, "send") /\ "send" \in LoopStates \ {"idle", "begin"}
    BY DEF SendFails, LoopStates, Sending, Completing
  <2>2. /\ Goto(l, "backoff")
        /\ UNCHANGED <<workerVars, accepted, queue>>
        /\ outbox' \subseteq outbox
        /\ \A x \in Msgs : x # m => sent'[x] = sent[x] /\ wire'[x] = wire[x]
    BY DEF SendFails, kvVars, TypeOK
  <2>3. QED
    BY <2>1, <2>2, GotoFrame
<1>3. AttemptsSound'
  <2> SUFFICES ASSUME NEW k \in Loops, NEW x \in Msgs, Busy(k, x)
               PROVE  AttemptAt(k, x)'
    BY <1>2 DEF AttemptsSound
  <2>1. AttemptAt(k, x) /\ AttemptAt(l, m)
    BY <1>1 DEF AttemptsSound
  <2>2. CASE k = l
    BY <1>1, <1>2, <2>1, <2>2 DEF SendFails, kvVars, AttemptAt, Completing, TypeOK
  <2>3. CASE k # l
    BY <1>1, <1>2, <2>1, <2>3 DEF SendFails, kvVars, AttemptAt, Completing, TypeOK
  <2>4. QED
    BY <2>2, <2>3
<1>4. WorkerAt' /\ NothingForgotten' /\ OneCopy'
  BY DEF SendFails, kvVars, workerVars, WorkerAt, NothingForgotten, OneCopy
<1>5. ResentOnlyAfterFault'
  BY MaxFaultsAssumption DEF SendFails, Fault, ResentOnlyAfterFault, TypeOK
<1>6. PendingBound'
  <2>1. wire' = wire /\ faults' = faults + 1 /\ faults \in Nat /\ \A x \in Msgs : wire[x] \in Nat
    BY MaxFaultsAssumption DEF SendFails, Fault, TypeOK
  <2>2. QED
    BY <1>1, <1>2, <2>1 DEF SendFails, kvVars, PendingBound
<1> QED
  BY <1>2, <1>3, <1>4, <1>5, <1>6

LEMMA ReplyLostKeeps ==
  ASSUME IInv, TypeOK', NEW l \in Loops, NEW m \in todo[l], ReplyLost(l, m)
  PROVE  IInv'
<1> USE DEF IInv
<1>1. /\ m \in Msgs /\ m \in accepted /\ Busy(l, m) /\ pc[l] = "send"
      /\ \A k \in Loops : \A x \in Msgs : Busy(k, x) => (k = l <=> x = m)
      /\ wpc \in {"index", "outbox"} => wmsg # m
  BY Alone DEF ReplyLost, At, LoopStates, Sending, Completing
<1>2. /\ Fresh' /\ TokenHeld' /\ Exclusive' /\ OnlyAccepted'
      /\ \A k \in Loops : \A x \in Msgs : Busy(k, x)' <=> Busy(k, x)
      /\ \A k \in Loops : k # l => pc'[k] = pc[k]
      /\ pc'[l] = "backoff"
  <2>1. /\ "backoff" \in LoopStates \ {"idle", "begin"}
        /\ At(l, m, "send") /\ "send" \in LoopStates \ {"idle", "begin"}
    BY DEF ReplyLost, LoopStates, Sending, Completing
  <2>2. /\ Goto(l, "backoff")
        /\ UNCHANGED <<workerVars, accepted, queue>>
        /\ outbox' \subseteq outbox
        /\ \A x \in Msgs : x # m => sent'[x] = sent[x] /\ wire'[x] = wire[x]
    BY DEF ReplyLost, kvVars, TypeOK
  <2>3. QED
    BY <2>1, <2>2, GotoFrame
<1>3. AttemptsSound'
  <2> SUFFICES ASSUME NEW k \in Loops, NEW x \in Msgs, Busy(k, x)
               PROVE  AttemptAt(k, x)'
    BY <1>2 DEF AttemptsSound
  <2>1. AttemptAt(k, x) /\ AttemptAt(l, m)
    BY <1>1 DEF AttemptsSound
  <2>2. CASE k = l
    BY <1>1, <1>2, <2>1, <2>2 DEF ReplyLost, kvVars, AttemptAt, Completing, TypeOK
  <2>3. CASE k # l
    BY <1>1, <1>2, <2>1, <2>3 DEF ReplyLost, kvVars, AttemptAt, Completing, TypeOK
  <2>4. QED
    BY <2>2, <2>3
<1>4. WorkerAt' /\ NothingForgotten' /\ OneCopy'
  <2>1. WorkerAt' /\ OneCopy'
    BY DEF ReplyLost, kvVars, workerVars, WorkerAt, OneCopy
  <2>2. NothingForgotten'
    BY <1>1 DEF ReplyLost, kvVars, NothingForgotten, TypeOK
  <2>3. QED
    BY <2>1, <2>2
<1>5. ResentOnlyAfterFault'
  <2>1. /\ \A x \in Msgs : wire'[x] = IF x = m THEN wire[x] + 1 ELSE wire[x]
        /\ faults' = faults + 1 /\ faults \in Nat /\ \A x \in Msgs : wire[x] \in Nat
    BY MaxFaultsAssumption DEF ReplyLost, Fault, TypeOK
  <2>2. QED
    BY <2>1 DEF ResentOnlyAfterFault
<1>6. PendingBound'
  <2>1. wire[m] <= faults
    BY <1>1 DEF PendingBound, AttemptsSound, AttemptAt
  <2>2. /\ \A x \in Msgs : wire'[x] = IF x = m THEN wire[x] + 1 ELSE wire[x]
        /\ faults' = faults + 1 /\ faults \in Nat /\ \A x \in Msgs : wire[x] \in Nat
    BY MaxFaultsAssumption DEF ReplyLost, Fault, TypeOK
  <2>3. QED
    BY <1>1, <1>2, <2>1, <2>2 DEF ReplyLost, kvVars, PendingBound
<1> QED
  BY <1>2, <1>3, <1>4, <1>5, <1>6

LEMMA MarkFailedKeeps ==
  ASSUME IInv, TypeOK', NEW l \in Loops, NEW m \in todo[l], MarkFailed(l, m)
  PROVE  IInv'
<1> USE DEF IInv
<1>1. /\ m \in Msgs /\ m \in accepted /\ Busy(l, m) /\ pc[l] = "fail"
      /\ \A k \in Loops : \A x \in Msgs : Busy(k, x) => (k = l <=> x = m)
      /\ wpc \in {"index", "outbox"} => wmsg # m
  BY Alone DEF MarkFailed, At, LoopStates, Sending, Completing
<1>2. /\ Fresh' /\ TokenHeld' /\ Exclusive' /\ OnlyAccepted'
      /\ \A k \in Loops : \A x \in Msgs : Busy(k, x)' <=> Busy(k, x)
      /\ \A k \in Loops : k # l => pc'[k] = pc[k]
      /\ pc'[l] = "unqueue"
  <2>1. /\ "unqueue" \in LoopStates \ {"idle", "begin"}
        /\ At(l, m, "fail") /\ "fail" \in LoopStates \ {"idle", "begin"}
    BY DEF MarkFailed, LoopStates, Sending, Completing
  <2>2. /\ Goto(l, "unqueue")
        /\ UNCHANGED <<workerVars, accepted, queue>>
        /\ outbox' \subseteq outbox
        /\ \A x \in Msgs : x # m => sent'[x] = sent[x] /\ wire'[x] = wire[x]
    BY DEF MarkFailed, kvVars, TypeOK
  <2>3. QED
    BY <2>1, <2>2, GotoFrame
<1>3. AttemptsSound'
  <2> SUFFICES ASSUME NEW k \in Loops, NEW x \in Msgs, Busy(k, x)
               PROVE  AttemptAt(k, x)'
    BY <1>2 DEF AttemptsSound
  <2>1. AttemptAt(k, x) /\ AttemptAt(l, m)
    BY <1>1 DEF AttemptsSound
  <2>2. CASE k = l
    BY <1>1, <1>2, <2>1, <2>2 DEF MarkFailed, AttemptAt, Completing, TypeOK
  <2>3. CASE k # l
    BY <1>1, <1>2, <2>1, <2>3 DEF MarkFailed, AttemptAt, Completing, TypeOK
  <2>4. QED
    BY <2>2, <2>3
<1>4. WorkerAt' /\ NothingForgotten' /\ ResentOnlyAfterFault'
  BY <1>1 DEF MarkFailed, workerVars, WorkerAt, NothingForgotten, ResentOnlyAfterFault, TypeOK
<1>5. OneCopy'
  <2>1. entry[m] = "pending"
    BY <1>1 DEF AttemptsSound, AttemptAt
  <2>2. QED
    BY <1>1, <2>1 DEF MarkFailed, OneCopy, TypeOK
<1>6. PendingBound'
  BY <1>1, <1>2 DEF MarkFailed, PendingBound, TypeOK
<1> QED
  BY <1>2, <1>3, <1>4, <1>5, <1>6

LEMMA DropEntryKeeps ==
  ASSUME IInv, TypeOK', NEW l \in Loops, NEW m \in todo[l], DropEntry(l, m)
  PROVE  IInv'
<1> USE DEF IInv
<1>1. /\ m \in Msgs /\ m \in accepted /\ Busy(l, m) /\ pc[l] = "dropEntry"
      /\ \A k \in Loops : \A x \in Msgs : Busy(k, x) => (k = l <=> x = m)
      /\ wpc \in {"index", "outbox"} => wmsg # m
  BY Alone DEF DropEntry, At, LoopStates, Sending, Completing
<1>2. /\ Fresh' /\ TokenHeld' /\ Exclusive' /\ OnlyAccepted'
      /\ \A k \in Loops : \A x \in Msgs : Busy(k, x)' <=> Busy(k, x)
      /\ \A k \in Loops : k # l => pc'[k] = pc[k]
      /\ pc'[l] = "dropIndex"
  <2>1. /\ "dropIndex" \in LoopStates \ {"idle", "begin"}
        /\ At(l, m, "dropEntry") /\ "dropEntry" \in LoopStates \ {"idle", "begin"}
    BY DEF DropEntry, LoopStates, Sending, Completing
  <2>2. /\ Goto(l, "dropIndex")
        /\ UNCHANGED <<workerVars, accepted, queue>>
        /\ outbox' \subseteq outbox
        /\ \A x \in Msgs : x # m => sent'[x] = sent[x] /\ wire'[x] = wire[x]
    BY DEF DropEntry, kvVars, TypeOK
  <2>3. QED
    BY <2>1, <2>2, GotoFrame
<1>3. AttemptsSound'
  <2> SUFFICES ASSUME NEW k \in Loops, NEW x \in Msgs, Busy(k, x)
               PROVE  AttemptAt(k, x)'
    BY <1>2 DEF AttemptsSound
  <2>1. AttemptAt(k, x) /\ AttemptAt(l, m)
    BY <1>1 DEF AttemptsSound
  <2>2. CASE k = l
    <3>1. x = m /\ entry[m] = "pending" /\ wire[m] > 0
      BY <1>1, <2>1, <2>2 DEF AttemptAt, Completing
    <3>2. sent[m] \in Nat /\ sent[m] + 1 <= 1
      BY <1>1, <3>1 DEF OneCopy, TypeOK
    <3>3. sent[m] = 0
      BY <3>2
    <3>4. entry'[m] = "none" /\ sent' = sent /\ wire' = wire
      BY <1>1 DEF DropEntry, TypeOK
    <3>5. QED
      BY <1>2, <2>2, <3>1, <3>3, <3>4 DEF AttemptAt
  <2>3. CASE k # l
    BY <1>1, <1>2, <2>1, <2>3 DEF DropEntry, OneCopy, AttemptAt, Completing, TypeOK
  <2>4. QED
    BY <2>2, <2>3
<1>4. WorkerAt' /\ OneCopy' /\ ResentOnlyAfterFault'
  BY <1>1 DEF DropEntry, workerVars, WorkerAt, OneCopy, ResentOnlyAfterFault, TypeOK
<1>5. NothingForgotten'
  BY <1>1 DEF DropEntry, NothingForgotten, AttemptsSound, AttemptAt, Completing, TypeOK
<1>6. PendingBound'
  BY <1>1, <1>2 DEF DropEntry, PendingBound, TypeOK
<1> QED
  BY <1>2, <1>3, <1>4, <1>5, <1>6

LEMMA DropIndexKeeps ==
  ASSUME IInv, TypeOK', NEW l \in Loops, NEW m \in todo[l], DropIndex(l, m)
  PROVE  IInv'
<1> USE DEF IInv
<1>1. /\ m \in Msgs /\ m \in accepted /\ Busy(l, m) /\ pc[l] = "dropIndex"
      /\ \A k \in Loops : \A x \in Msgs : Busy(k, x) => (k = l <=> x = m)
      /\ wpc \in {"index", "outbox"} => wmsg # m
  BY Alone DEF DropIndex, At, LoopStates, Sending, Completing
<1>2. /\ Fresh' /\ TokenHeld' /\ Exclusive' /\ OnlyAccepted'
      /\ \A k \in Loops : \A x \in Msgs : Busy(k, x)' <=> Busy(k, x)
      /\ \A k \in Loops : k # l => pc'[k] = pc[k]
      /\ pc'[l] = "dropOutbox"
  <2>1. /\ "dropOutbox" \in LoopStates \ {"idle", "begin"}
        /\ At(l, m, "dropIndex") /\ "dropIndex" \in LoopStates \ {"idle", "begin"}
    BY DEF DropIndex, LoopStates, Sending, Completing
  <2>2. /\ Goto(l, "dropOutbox")
        /\ UNCHANGED <<workerVars, accepted, queue>>
        /\ outbox' \subseteq outbox
        /\ \A x \in Msgs : x # m => sent'[x] = sent[x] /\ wire'[x] = wire[x]
    BY DEF DropIndex, kvVars, TypeOK
  <2>3. QED
    BY <2>1, <2>2, GotoFrame
<1>3. AttemptsSound'
  <2> SUFFICES ASSUME NEW k \in Loops, NEW x \in Msgs, Busy(k, x)
               PROVE  AttemptAt(k, x)'
    BY <1>2 DEF AttemptsSound
  <2>1. AttemptAt(k, x) /\ AttemptAt(l, m)
    BY <1>1 DEF AttemptsSound
  <2>2. CASE k = l
    BY <1>1, <1>2, <2>1, <2>2 DEF DropIndex, AttemptAt, Completing, TypeOK
  <2>3. CASE k # l
    BY <1>1, <1>2, <2>1, <2>3 DEF DropIndex, AttemptAt, Completing, TypeOK
  <2>4. QED
    BY <2>2, <2>3
<1>4. WorkerAt' /\ OneCopy' /\ ResentOnlyAfterFault'
  BY <1>1 DEF DropIndex, workerVars, WorkerAt, OneCopy, ResentOnlyAfterFault, TypeOK
<1>5. NothingForgotten'
  BY <1>1 DEF DropIndex, NothingForgotten, AttemptsSound, AttemptAt, Completing, TypeOK
<1>6. PendingBound'
  BY <1>1, <1>2 DEF DropIndex, PendingBound
<1> QED
  BY <1>2, <1>3, <1>4, <1>5, <1>6

LEMMA DropOutboxKeeps ==
  ASSUME IInv, TypeOK', NEW l \in Loops, NEW m \in todo[l], DropOutbox(l, m)
  PROVE  IInv'
<1> USE DEF IInv
<1>1. /\ m \in Msgs /\ m \in accepted /\ Busy(l, m) /\ pc[l] = "dropOutbox"
      /\ \A k \in Loops : \A x \in Msgs : Busy(k, x) => (k = l <=> x = m)
      /\ wpc \in {"index", "outbox"} => wmsg # m
  BY Alone DEF DropOutbox, At, LoopStates, Sending, Completing
<1>2. /\ Fresh' /\ TokenHeld' /\ Exclusive' /\ OnlyAccepted'
      /\ \A k \in Loops : \A x \in Msgs : Busy(k, x)' <=> Busy(k, x)
      /\ \A k \in Loops : k # l => pc'[k] = pc[k]
      /\ pc'[l] = "putSent"
  <2>1. /\ "putSent" \in LoopStates \ {"idle", "begin"}
        /\ At(l, m, "dropOutbox") /\ "dropOutbox" \in LoopStates \ {"idle", "begin"}
    BY DEF DropOutbox, LoopStates, Sending, Completing
  <2>2. /\ Goto(l, "putSent")
        /\ UNCHANGED <<workerVars, accepted, queue>>
        /\ outbox' \subseteq outbox
        /\ \A x \in Msgs : x # m => sent'[x] = sent[x] /\ wire'[x] = wire[x]
    BY DEF DropOutbox, kvVars, TypeOK
  <2>3. QED
    BY <2>1, <2>2, GotoFrame
<1>3. AttemptsSound'
  <2> SUFFICES ASSUME NEW k \in Loops, NEW x \in Msgs, Busy(k, x)
               PROVE  AttemptAt(k, x)'
    BY <1>2 DEF AttemptsSound
  <2>1. AttemptAt(k, x) /\ AttemptAt(l, m)
    BY <1>1 DEF AttemptsSound
  <2>2. CASE k = l
    BY <1>1, <1>2, <2>1, <2>2 DEF DropOutbox, AttemptAt, Completing, TypeOK
  <2>3. CASE k # l
    BY <1>1, <1>2, <2>1, <2>3 DEF DropOutbox, AttemptAt, Completing, TypeOK
  <2>4. QED
    BY <2>2, <2>3
<1>4. WorkerAt' /\ OneCopy' /\ ResentOnlyAfterFault'
  BY <1>1 DEF DropOutbox, workerVars, WorkerAt, OneCopy, ResentOnlyAfterFault, TypeOK
<1>5. NothingForgotten'
  BY <1>1 DEF DropOutbox, NothingForgotten, AttemptsSound, AttemptAt, Completing, TypeOK
<1>6. PendingBound'
  BY <1>1, <1>2 DEF DropOutbox, PendingBound
<1> QED
  BY <1>2, <1>3, <1>4, <1>5, <1>6

LEMMA PutSentKeeps ==
  ASSUME IInv, TypeOK', NEW l \in Loops, NEW m \in todo[l], PutSent(l, m)
  PROVE  IInv'
<1> USE DEF IInv
<1>1. /\ m \in Msgs /\ m \in accepted /\ Busy(l, m) /\ pc[l] = "putSent"
      /\ \A k \in Loops : \A x \in Msgs : Busy(k, x) => (k = l <=> x = m)
      /\ wpc \in {"index", "outbox"} => wmsg # m
  BY Alone DEF PutSent, At, LoopStates, Sending, Completing
<1>2. /\ Fresh' /\ TokenHeld' /\ Exclusive' /\ OnlyAccepted'
      /\ \A k \in Loops : \A x \in Msgs : Busy(k, x)' <=> Busy(k, x)
      /\ \A k \in Loops : k # l => pc'[k] = pc[k]
      /\ pc'[l] = "putIndex"
  <2>1. /\ "putIndex" \in LoopStates \ {"idle", "begin"}
        /\ At(l, m, "putSent") /\ "putSent" \in LoopStates \ {"idle", "begin"}
    BY DEF PutSent, LoopStates, Sending, Completing
  <2>2. /\ Goto(l, "putIndex")
        /\ UNCHANGED <<workerVars, accepted, queue>>
        /\ outbox' \subseteq outbox
        /\ \A x \in Msgs : x # m => sent'[x] = sent[x] /\ wire'[x] = wire[x]
    BY DEF PutSent, kvVars, TypeOK
  <2>3. QED
    BY <2>1, <2>2, GotoFrame
<1>3. AttemptsSound'
  <2> SUFFICES ASSUME NEW k \in Loops, NEW x \in Msgs, Busy(k, x)
               PROVE  AttemptAt(k, x)'
    BY <1>2 DEF AttemptsSound
  <2>1. AttemptAt(k, x) /\ AttemptAt(l, m)
    BY <1>1 DEF AttemptsSound
  <2>2. CASE k = l
    BY <1>1, <1>2, <2>1, <2>2 DEF PutSent, AttemptAt, Completing, TypeOK
  <2>3. CASE k # l
    BY <1>1, <1>2, <2>1, <2>3 DEF PutSent, AttemptAt, Completing, TypeOK
  <2>4. QED
    BY <2>2, <2>3
<1>4. WorkerAt' /\ NothingForgotten' /\ ResentOnlyAfterFault'
  BY <1>1 DEF PutSent, workerVars, WorkerAt, NothingForgotten, ResentOnlyAfterFault, TypeOK
<1>5. OneCopy'
  <2>1. entry[m] = "none" /\ sent[m] = 0
    BY <1>1 DEF AttemptsSound, AttemptAt
  <2>2. \A x \in Msgs : sent'[x] = IF x = m THEN sent[x] + 1 ELSE sent[x]
    BY <1>1 DEF PutSent, TypeOK
  <2>3. QED
    BY <1>1, <2>1, <2>2 DEF PutSent, OneCopy
<1>6. PendingBound'
  BY <1>1, <1>2 DEF PutSent, PendingBound
<1> QED
  BY <1>2, <1>3, <1>4, <1>5, <1>6

LEMMA ScheduleRetryKeeps ==
  ASSUME IInv, TypeOK', NEW l \in Loops, NEW m \in todo[l], ScheduleRetry(l, m)
  PROVE  IInv'
<1> USE DEF IInv
<1>0. /\ pc[l] = "backoff"
      /\ \E state \in LoopStates \ {"idle", "begin"} : At(l, m, state)
  BY DEF ScheduleRetry, At, LoopStates, Sending, Completing
<1>1. /\ m \in Msgs /\ m \in accepted /\ Busy(l, m)
      /\ \A k \in Loops : \A x \in Msgs : Busy(k, x) => (k = l <=> x = m)
  BY <1>0, Alone
<1>2. /\ Fresh' /\ TokenHeld' /\ Exclusive' /\ OnlyAccepted'
      /\ OneCopy' /\ ResentOnlyAfterFault' /\ PendingBound'
      /\ \A k \in Loops : \A x \in Msgs : Busy(k, x)' <=> Busy(k, x) /\ k # l
      /\ \A k \in Loops : k # l => pc'[k] = pc[k]
  <2>1. outbox' \subseteq accepted
    BY <1>1 DEF ScheduleRetry, OnlyAccepted
  <2>2. /\ faults' >= faults /\ faults' \in Nat
        /\ pc[l] = "dropEntry" => faults' > faults
    BY <1>0, MaxFaultsAssumption DEF ScheduleRetry, TypeOK
  <2>3. /\ Finish(l, m)
        /\ UNCHANGED <<workerVars, accepted, queue, entry, sent, wire>>
    BY DEF ScheduleRetry
  <2>4. QED
    BY <1>0, <2>1, <2>2, <2>3, LeaveFrame
<1>3. AttemptsSound'
  <2> SUFFICES ASSUME NEW k \in Loops, NEW x \in Msgs, Busy(k, x), k # l
               PROVE  AttemptAt(k, x)'
    BY <1>2 DEF AttemptsSound
  <2>1. AttemptAt(k, x) /\ x # m
    BY <1>1 DEF AttemptsSound
  <2>2. QED
    BY <1>2, <2>1 DEF ScheduleRetry, AttemptAt
<1>4. WorkerAt' /\ NothingForgotten'
  BY <1>1 DEF ScheduleRetry, workerVars, WorkerAt, NothingForgotten
<1> QED
  BY <1>2, <1>3, <1>4

LEMMA UnqueueFailedKeeps ==
  ASSUME IInv, TypeOK', NEW l \in Loops, NEW m \in todo[l], UnqueueFailed(l, m)
  PROVE  IInv'
<1> USE DEF IInv
<1>0. /\ pc[l] = "unqueue"
      /\ \E state \in LoopStates \ {"idle", "begin"} : At(l, m, state)
  BY DEF UnqueueFailed, At, LoopStates, Sending, Completing
<1>1. /\ m \in Msgs /\ m \in accepted /\ Busy(l, m)
      /\ \A k \in Loops : \A x \in Msgs : Busy(k, x) => (k = l <=> x = m)
  BY <1>0, Alone
<1>2. /\ Fresh' /\ TokenHeld' /\ Exclusive' /\ OnlyAccepted'
      /\ OneCopy' /\ ResentOnlyAfterFault' /\ PendingBound'
      /\ \A k \in Loops : \A x \in Msgs : Busy(k, x)' <=> Busy(k, x) /\ k # l
      /\ \A k \in Loops : k # l => pc'[k] = pc[k]
  <2>1. outbox' \subseteq accepted
    BY <1>1 DEF UnqueueFailed, OnlyAccepted
  <2>2. /\ faults' >= faults /\ faults' \in Nat
        /\ pc[l] = "dropEntry" => faults' > faults
    BY <1>0, MaxFaultsAssumption DEF UnqueueFailed, TypeOK
  <2>3. /\ Finish(l, m)
        /\ UNCHANGED <<workerVars, accepted, queue, entry, sent, wire>>
    BY DEF UnqueueFailed
  <2>4. QED
    BY <1>0, <2>1, <2>2, <2>3, LeaveFrame
<1>3. AttemptsSound'
  <2> SUFFICES ASSUME NEW k \in Loops, NEW x \in Msgs, Busy(k, x), k # l
               PROVE  AttemptAt(k, x)'
    BY <1>2 DEF AttemptsSound
  <2>1. AttemptAt(k, x) /\ x # m
    BY <1>1 DEF AttemptsSound
  <2>2. QED
    BY <1>2, <2>1 DEF UnqueueFailed, AttemptAt
<1>4. WorkerAt' /\ NothingForgotten'
  <2>1. entry[m] = "failed"
    BY <1>0, <1>1 DEF AttemptsSound, AttemptAt
  <2>2. QED
    BY <1>1, <2>1 DEF UnqueueFailed, workerVars, WorkerAt, NothingForgotten
<1> QED
  BY <1>2, <1>3, <1>4

LEMMA PutSentIndexKeeps ==
  ASSUME IInv, TypeOK', NEW l \in Loops, NEW m \in todo[l], PutSentIndex(l, m)
  PROVE  IInv'
<1> USE DEF IInv
<1>0. /\ pc[l] = "putIndex"
      /\ \E state \in LoopStates \ {"idle", "begin"} : At(l, m, state)
  BY DEF PutSentIndex, At, LoopStates, Sending, Completing
<1>1. /\ m \in Msgs /\ m \in accepted /\ Busy(l, m)
      /\ \A k \in Loops : \A x \in Msgs : Busy(k, x) => (k = l <=> x = m)
  BY <1>0, Alone
<1>2. /\ Fresh' /\ TokenHeld' /\ Exclusive' /\ OnlyAccepted'
      /\ OneCopy' /\ ResentOnlyAfterFault' /\ PendingBound'
      /\ \A k \in Loops : \A x \in Msgs : Busy(k, x)' <=> Busy(k, x) /\ k # l
      /\ \A k \in Loops : k # l => pc'[k] = pc[k]
  <2>1. outbox' \subseteq accepted
    BY <1>1 DEF PutSentIndex, OnlyAccepted
  <2>2. /\ faults' >= faults /\ faults' \in Nat
        /\ pc[l] = "dropEntry" => faults' > faults
    BY <1>0, MaxFaultsAssumption DEF PutSentIndex, TypeOK
  <2>3. /\ Finish(l, m)
        /\ UNCHANGED <<workerVars, accepted, queue, entry, sent, wire>>
    BY DEF PutSentIndex
  <2>4. QED
    BY <1>0, <2>1, <2>2, <2>3, LeaveFrame
<1>3. AttemptsSound'
  <2> SUFFICES ASSUME NEW k \in Loops, NEW x \in Msgs, Busy(k, x), k # l
               PROVE  AttemptAt(k, x)'
    BY <1>2 DEF AttemptsSound
  <2>1. AttemptAt(k, x) /\ x # m
    BY <1>1 DEF AttemptsSound
  <2>2. QED
    BY <1>2, <2>1 DEF PutSentIndex, AttemptAt
<1>4. WorkerAt' /\ NothingForgotten'
  BY DEF PutSentIndex, workerVars, WorkerAt, NothingForgotten
<1> QED
  BY <1>2, <1>3, <1>4

LEMMA AttemptRaisesKeeps ==
  ASSUME IInv, TypeOK', NEW l \in Loops, NEW m \in todo[l], AttemptRaises(l, m)
  PROVE  IInv'
<1> USE DEF IInv
<1>0. /\ pc[l] \notin {"idle", "begin"}
      /\ \E state \in LoopStates \ {"idle", "begin"} : At(l, m, state)
  BY DEF AttemptRaises, At, LoopStates, Sending, Completing
<1>1. /\ m \in Msgs /\ m \in accepted /\ Busy(l, m)
      /\ \A k \in Loops : \A x \in Msgs : Busy(k, x) => (k = l <=> x = m)
  BY <1>0, Alone
<1>2. /\ Fresh' /\ TokenHeld' /\ Exclusive' /\ OnlyAccepted'
      /\ OneCopy' /\ ResentOnlyAfterFault' /\ PendingBound'
      /\ \A k \in Loops : \A x \in Msgs : Busy(k, x)' <=> Busy(k, x) /\ k # l
      /\ \A k \in Loops : k # l => pc'[k] = pc[k]
  <2>1. outbox' \subseteq accepted
    BY <1>1 DEF AttemptRaises, kvVars, OnlyAccepted
  <2>2. /\ faults' >= faults /\ faults' \in Nat
        /\ pc[l] = "dropEntry" => faults' > faults
    BY <1>0, MaxFaultsAssumption DEF AttemptRaises, Fault, TypeOK
  <2>3. /\ /\ pc' = [pc EXCEPT ![l] = "idle"] /\ todo' = [todo EXCEPT ![l] = {}]
           /\ inFlight' = inFlight \ {m}
        /\ UNCHANGED <<workerVars, accepted, queue, entry, sent, wire>>
    BY DEF AttemptRaises, kvVars
  <2>4. QED
    BY <1>0, <2>1, <2>2, <2>3, LeaveFrame
<1>3. AttemptsSound'
  <2> SUFFICES ASSUME NEW k \in Loops, NEW x \in Msgs, Busy(k, x), k # l
               PROVE  AttemptAt(k, x)'
    BY <1>2 DEF AttemptsSound
  <2>1. AttemptAt(k, x) /\ x # m
    BY <1>1 DEF AttemptsSound
  <2>2. QED
    BY <1>2, <2>1 DEF AttemptRaises, kvVars, AttemptAt
<1>4. WorkerAt' /\ NothingForgotten'
  BY DEF AttemptRaises, kvVars, workerVars, WorkerAt, NothingForgotten
<1> QED
  BY <1>2, <1>3, <1>4

LEMMA LookupKeeps ==
  ASSUME IInv, TypeOK', NEW l \in Loops, NEW m \in todo[l], Lookup(l, m)
  PROVE  IInv'
<1> USE DEF IInv
<1> DEFINE found == m \in indexed /\ entry[m] # "none"
<1>0. /\ pc[l] = "lookup"
      /\ At(l, m, "lookup") /\ "lookup" \in LoopStates \ {"idle", "begin"}
  BY DEF Lookup, At, LoopStates, Sending
<1>1. /\ m \in Msgs /\ m \in accepted /\ Busy(l, m)
      /\ \A k \in Loops : \A x \in Msgs : Busy(k, x) => (k = l <=> x = m)
      /\ wpc \in {"index", "outbox"} => wmsg # m
  BY <1>0, Alone
<1>2. /\ UNCHANGED <<entry, sent, wire, queue, workerVars, accepted, faults>>
      /\ \A x \in Msgs : x # m => (x \in indexed' <=> x \in indexed)
      /\ indexed' = IF found THEN indexed ELSE indexed \ {m}
  BY DEF Lookup
<1>3. CASE found /\ entry[m] = "pending"
  <2>1. Goto(l, "send") /\ outbox' = outbox /\ indexed' = indexed
    BY <1>3 DEF Lookup
  <2>2. /\ Fresh' /\ TokenHeld' /\ Exclusive' /\ OnlyAccepted'
        /\ \A k \in Loops : \A x \in Msgs : Busy(k, x)' <=> Busy(k, x)
        /\ \A k \in Loops : k # l => pc'[k] = pc[k]
        /\ pc'[l] = "send"
    <3>1. "send" \in LoopStates \ {"idle", "begin"}
      BY DEF LoopStates, Sending
    <3>2. /\ UNCHANGED <<workerVars, accepted, queue>>
          /\ outbox' \subseteq outbox
          /\ \A x \in Msgs : x # m => sent'[x] = sent[x] /\ wire'[x] = wire[x]
      BY <1>2, <2>1
    <3>3. QED
      BY <1>0, <2>1, <3>1, <3>2, GotoFrame
  <2>3. AttemptsSound'
    BY <1>1, <1>2, <1>3, <2>1, <2>2 DEF AttemptsSound, AttemptAt, Completing
  <2>4. WorkerAt' /\ NothingForgotten' /\ OneCopy' /\ ResentOnlyAfterFault'
    BY <1>2, <2>1 DEF workerVars, WorkerAt, NothingForgotten, OneCopy, ResentOnlyAfterFault
  <2>5. PendingBound'
    BY <1>0, <1>2, <2>2 DEF PendingBound
  <2>6. QED
    BY <2>2, <2>3, <2>4, <2>5
<1>4. CASE ~ (found /\ entry[m] = "pending")
  <2>1. Finish(l, m) /\ outbox' = outbox \ {m}
    BY <1>4 DEF Lookup
  <2>2. /\ Fresh' /\ TokenHeld' /\ Exclusive' /\ OnlyAccepted'
        /\ OneCopy' /\ ResentOnlyAfterFault' /\ PendingBound'
        /\ \A k \in Loops : \A x \in Msgs : Busy(k, x)' <=> Busy(k, x) /\ k # l
        /\ \A k \in Loops : k # l => pc'[k] = pc[k]
    <3>1. outbox' \subseteq accepted
      BY <2>1 DEF OnlyAccepted
    <3>2. faults' >= faults /\ faults' \in Nat /\ pc[l] # "dropEntry"
      BY <1>0, <1>2, MaxFaultsAssumption DEF TypeOK
    <3>3. QED
      BY <1>0, <1>2, <2>1, <3>1, <3>2, LeaveFrame
  <2>3. AttemptsSound'
    <3> SUFFICES ASSUME NEW k \in Loops, NEW x \in Msgs, Busy(k, x), k # l
                 PROVE  AttemptAt(k, x)'
      BY <2>2 DEF AttemptsSound
    <3>1. AttemptAt(k, x) /\ x # m
      BY <1>1 DEF AttemptsSound
    <3>2. QED
      BY <1>2, <2>2, <3>1 DEF AttemptAt
  <2>4. WorkerAt' /\ NothingForgotten'
    BY <1>1, <1>2, <1>4, <2>1 DEF workerVars, WorkerAt, NothingForgotten, TypeOK
  <2>5. QED
    BY <2>2, <2>3, <2>4
<1> QED
  BY <1>3, <1>4

-----------------------------------------------------------------------------
LEMMA NextIInv == IInv /\ [Next]_vars => IInv'
<1> SUFFICES ASSUME IInv, [Next]_vars
             PROVE  IInv'
  OBVIOUS
<1>0. TypeOK'
  BY TypeStep DEF IInv
<1>1. CASE Worker
  BY <1>0, <1>1, PutMessageKeeps, WorkerKeeps DEF Worker
<1>2. CASE RetryDue \/ \E m \in Msgs : BackoffElapses(m)
  BY <1>0, <1>2, TimersKeep
<1>3. ASSUME NEW l \in Loops, LoopStep(l)
      PROVE  IInv'
  <2>1. CASE TakeEvent(l)
    BY <1>0, <2>1, TakeEventKeeps
  <2>2. ASSUME NEW m \in todo[l], Attempt(l, m)
        PROVE  IInv'
    BY <1>0, <2>2, BeginKeeps, LookupKeeps, SendKeeps, UnsendableKeeps, ScheduleRetryKeeps,
       MarkFailedKeeps, UnqueueFailedKeeps, DropEntryKeeps, DropIndexKeeps, DropOutboxKeeps,
       PutSentKeeps, PutSentIndexKeeps
    DEF Attempt
  <2>3. QED
    BY <1>3, <2>1, <2>2 DEF LoopStep
<1>4. CASE Failure
  BY <1>0, <1>4, SendFailsKeeps, ReplyLostKeeps, AttemptRaisesKeeps, TimersKeep, CrashKeeps DEF Failure
<1>5. CASE UNCHANGED vars
  BY <1>5 DEF vars, kvVars, workerVars, loopVars, IInv, TypeOK, Fresh, WorkerAt, OnlyAccepted,
              TokenHeld, Exclusive, AttemptsSound, AttemptAt, NothingForgotten, OneCopy,
              ResentOnlyAfterFault, PendingBound, Busy
<1> QED
  BY <1>1, <1>2, <1>3, <1>4, <1>5 DEF Next

(* IInv holds in every reachable state.                                    *)
THEOREM Invariance == Spec => []IInv
  BY InitIInv, NextIInv, PTL DEF Spec

(* Every variable keeps its type.                                          *)
THEOREM Typing == Spec => []TypeOK
<1>1. IInv => TypeOK
  BY DEF IInv
<1> QED
  BY <1>1, Invariance, PTL

(* No message whose outbox record was written is forgotten before the      *)
(* daemon has transmitted it or it is marked failed, whatever crashes,     *)
(* exceptions and concurrent loops come between its commits.               *)
THEOREM Durable == Spec => []NothingForgotten
<1>1. IInv => NothingForgotten
  BY DEF IInv
<1> QED
  BY <1>1, Invariance, PTL

(* The chat never holds two records of one message.                        *)
THEOREM NeverShownTwice == Spec => []OneCopy
<1>1. IInv => OneCopy
  BY DEF IInv
<1> QED
  BY <1>1, Invariance, PTL

(* A message is transmitted at most once more than there were faults.      *)
THEOREM BoundedResends == Spec => []ResentOnlyAfterFault
<1>1. IInv => ResentOnlyAfterFault
  BY DEF IInv
<1> QED
  BY <1>1, Invariance, PTL

(* No two loops are ever inside an attempt for the same message.           *)
THEOREM OneAttemptAtATime == Spec => []Exclusive
<1>1. IInv => Exclusive
  BY DEF IInv
<1> QED
  BY <1>1, Invariance, PTL

-----------------------------------------------------------------------------
(* The order of the messages.                                              *)

(* What makes a message Open only wears off.                               *)
LEMMA OrderFrame ==
  ASSUME TypeOK, TypeOK', Upcoming,
         queue' = queue, \A l \in Loops : todo'[l] \subseteq todo[l],
         \A m \in Msgs : Open(m)' => Open(m),
         wpc = "schedule" => (wpc' = "schedule" /\ wmsg' = wmsg) \/ wmsg \in hit'
  PROVE  Upcoming'
<1> SUFFICES ASSUME NEW m \in Msgs, Open(m)'
             PROVE  /\ \A l \in Loops : \A n \in todo'[l] : n <= m
                    /\ (wpc' = "schedule" /\ wmsg' = m) \/ Ahead(m)'
  BY DEF Upcoming
<1>1. /\ \A l \in Loops : \A n \in todo[l] : n <= m
      /\ (wpc = "schedule" /\ wmsg = m) \/ Ahead(m)
  BY DEF Upcoming
<1>2. m \notin hit'
  BY DEF Open
<1>3. Ahead(m)' <=> Ahead(m)
  BY DEF Ahead
<1>. QED
  BY <1>1, <1>2, <1>3

(* A message a loop lets go of has come to something.                      *)
LEMMA OrderLoop ==
  ASSUME TypeOK, TypeOK', Upcoming, NEW l \in Loops,
         UNCHANGED <<queue, workerVars, accepted>>, hit \subseteq hit',
         \A x \in Msgs : wire[x] # 0 => wire'[x] # 0,
         \A x \in Msgs : entry[x] = "failed" => entry'[x] = "failed" \/ wire'[x] # 0,
         \A k \in Loops : k # l => todo'[k] = todo[k],
         todo'[l] \subseteq todo[l],
         \A x \in todo[l] \ todo'[l] :
           \/ x \in hit' \/ wire'[x] # 0 \/ entry'[x] = "failed"
           \/ \E k \in Loops : k # l /\ x \in todo[k]
  PROVE  Upcoming'
<1>1. ASSUME NEW m \in Msgs, Open(m)'
      PROVE  Open(m)
  <2>1. m \in accepted \ hit /\ wire[m] = 0 /\ entry[m] # "failed"
    BY <1>1 DEF Open
  <2>2. ASSUME NEW k \in Loops, m \in todo[k] PROVE FALSE
    <3>1. m \notin todo'[k] /\ m \notin todo'[l]
      BY <1>1 DEF Open
    <3>2. k = l
      BY <2>2, <3>1
    <3>3. PICK j \in Loops : j # l /\ m \in todo[j]
      BY <1>1, <2>2, <3>1, <3>2 DEF Open
    <3>4. m \in todo'[j]
      BY <3>3
    <3>. QED
      BY <1>1, <3>4 DEF Open
  <2>. QED
    BY <2>1, <2>2 DEF Open
<1>2. \A k \in Loops : todo'[k] \subseteq todo[k]
  OBVIOUS
<1>. QED
  BY <1>1, <1>2, OrderFrame DEF workerVars

(* A step inside an attempt.                                               *)
LEMMA OrderGoto ==
  ASSUME IInv, TypeOK', OrderInv, NEW l \in Loops, NEW m \in todo[l],
         NEW state \in LoopStates \ {"idle", "begin"}, pc[l] \notin {"idle", "begin"},
         At(l, m, pc[l]), Goto(l, state),
         UNCHANGED <<queue, workerVars, accepted, waiting>>, hit \subseteq hit',
         \A x \in Msgs : wire[x] # 0 => wire'[x] # 0,
         \A x \in Msgs : entry[x] = "failed" => entry'[x] = "failed" \/ wire'[x] # 0,
         state = "backoff" => m \in hit'
  PROVE  OrderInv'
<1>1. TypeOK /\ TokenOwned /\ BacksOffHit /\ IdleDone /\ Upcoming
  BY DEF IInv, OrderInv
<1>2. inFlight' = inFlight /\ todo' = todo
  BY DEF Goto
<1>3. /\ \A k \in Loops : \A x \in Msgs : Busy(k, x)' <=> Busy(k, x)
      /\ \A k \in Loops : k # l => pc'[k] = pc[k]
      /\ pc'[l] = state
  BY <1>1, GotoBusy
<1>4. \A x \in Msgs : Busy(l, x) => x = m
  <2>1. At(l, m, pc[l]) /\ pc[l] \in LoopStates \ {"idle", "begin"}
    BY <1>1 DEF TypeOK
  <2>. QED
    BY <2>1, Alone
<1>5. TokenOwned'
  BY <1>1, <1>2, <1>3 DEF TokenOwned, TypeOK
<1>6. BacksOffHit'
  BY <1>1, <1>3, <1>4 DEF BacksOffHit
<1>7. IdleDone'
  BY <1>1, <1>2, <1>3 DEF IdleDone
<1>8. Upcoming'
  BY <1>1, <1>2, OrderLoop
<1>. QED
  BY <1>5, <1>6, <1>7, <1>8 DEF OrderInv

(* The end of an attempt.                                                  *)
LEMMA OrderLeave ==
  ASSUME IInv, TypeOK', OrderInv, NEW l \in Loops, NEW m \in todo[l],
         NEW state \in {"idle", "begin"}, NEW rest \in SUBSET todo[l],
         pc[l] \notin {"idle", "begin"}, At(l, m, pc[l]),
         pc' = [pc EXCEPT ![l] = state], todo' = [todo EXCEPT ![l] = rest],
         inFlight' = inFlight \ {m},
         UNCHANGED <<queue, workerVars, accepted, entry, wire>>, hit \subseteq hit',
         waiting' \subseteq waiting \cup {m}, m \in waiting' => m \in hit',
         \A x \in todo[l] \ rest : x \in hit' \/ wire[x] # 0 \/ entry[x] = "failed",
         state = "idle" => rest = {}
  PROVE  OrderInv'
<1>1. TypeOK /\ TokenOwned /\ BacksOffHit /\ IdleDone /\ Upcoming
  BY DEF IInv, OrderInv
<1>2. rest \in SUBSET Msgs
  BY <1>1 DEF TypeOK
<1>3. /\ \A k \in Loops : \A x \in Msgs : Busy(k, x)' <=> Busy(k, x) /\ k # l
      /\ \A k \in Loops : k # l => pc'[k] = pc[k]
  BY <1>1, <1>2, LeaveBusy
<1>4. \A x \in Msgs : Busy(l, x) => x = m
  <2>1. At(l, m, pc[l]) /\ pc[l] \in LoopStates \ {"idle", "begin"}
    BY <1>1 DEF TypeOK
  <2>. QED
    BY <2>1, Alone
<1>5. TokenOwned'
  BY <1>1, <1>3, <1>4 DEF TokenOwned, TypeOK
<1>6. BacksOffHit'
  BY <1>1, <1>3 DEF BacksOffHit
<1>7. \A k \in Loops : todo'[k] = IF k = l THEN rest ELSE todo[k]
  BY <1>1 DEF TypeOK
<1>8. IdleDone'
  <2>1. pc'[l] = state
    BY <1>1 DEF TypeOK
  <2>. QED
    BY <1>1, <1>3, <1>7, <2>1 DEF IdleDone
<1>9. Upcoming'
  BY <1>1, <1>7, OrderLoop
<1>. QED
  BY <1>5, <1>6, <1>8, <1>9 DEF OrderInv

LEMMA OrderFinish ==
  ASSUME IInv, TypeOK', OrderInv, NEW l \in Loops, NEW m \in todo[l],
         pc[l] \notin {"idle", "begin"}, At(l, m, pc[l]), Finish(l, m),
         UNCHANGED <<queue, workerVars, accepted, entry, wire>>, hit' = hit,
         waiting' \subseteq waiting \cup {m}, m \in waiting' => m \in hit,
         m \in hit \/ wire[m] # 0 \/ entry[m] = "failed"
  PROVE  OrderInv'
<1>1. PICK rest : rest = todo[l] \ {m}
  OBVIOUS
<1>2. rest \in SUBSET todo[l] /\ todo' = [todo EXCEPT ![l] = rest]
  BY <1>1 DEF Finish, NextMessage
<1>3. PICK state \in {"idle", "begin"} :
        pc' = [pc EXCEPT ![l] = state] /\ (state = "idle" => rest = {})
  BY <1>1 DEF Finish, NextMessage
<1>4. inFlight' = inFlight \ {m} /\ hit \subseteq hit'
  BY DEF Finish
<1>5. /\ m \in waiting' => m \in hit'
      /\ \A x \in todo[l] \ rest : x \in hit' \/ wire[x] # 0 \/ entry[x] = "failed"
  BY <1>1
<1>. QED
  BY <1>2, <1>3, <1>4, <1>5, OrderLeave

(* A loop takes up what the head of the queue stands for.                  *)
LEMMA OrderTake ==
  ASSUME IInv, TypeOK', OrderInv, NEW l \in Loops, TakeEvent(l)
  PROVE  OrderInv'
<1> DEFINE due == Due(Head(queue))
<1>0. TypeOK /\ TokenOwned /\ BacksOffHit /\ IdleDone /\ Upcoming
  BY DEF IInv, OrderInv
<1>1. /\ queue # <<>> /\ Head(queue) = queue[1] /\ 1 \in 1 .. Len(queue)
      /\ Len(queue) \in Nat /\ Len(queue') = Len(queue) - 1
      /\ \A i \in 1 .. Len(queue) - 1 : i + 1 \in 1 .. Len(queue) /\ queue'[i] = queue[i + 1]
  BY <1>0 DEF TakeEvent, TypeOK
<1>2. /\ Head(queue) \in Msgs \cup {RetryEvent}
      /\ due \subseteq Msgs
      /\ pc[l] = "idle"
      /\ UNCHANGED <<kvVars, wire, workerVars, inFlight, accepted, hit, faults>>
  BY <1>0, <1>1 DEF TakeEvent, Due, TypeOK
<1>3. /\ \A k \in Loops : todo'[k] = IF k = l THEN due ELSE todo[k]
      /\ \A k \in Loops : k # l => pc'[k] = pc[k]
      /\ pc'[l] \in {"idle", "begin"}
  BY <1>0 DEF TakeEvent, TypeOK
<1> HIDE DEF due
<1>4. \A k \in Loops : \A x \in Msgs : Busy(k, x)' <=> Busy(k, x)
  BY <1>2, <1>3 DEF Busy
<1>5. TokenOwned' /\ BacksOffHit'
  BY <1>0, <1>2, <1>3, <1>4 DEF TokenOwned, BacksOffHit, kvVars, TypeOK
<1>6. Upcoming'
  <2> SUFFICES ASSUME NEW m \in Msgs, Open(m)'
               PROVE  /\ \A k \in Loops : \A n \in todo'[k] : n <= m
                      /\ (wpc' = "schedule" /\ wmsg' = m) \/ Ahead(m)'
    BY DEF Upcoming
  <2>1. m \in Nat
    BY MaxMessagesAssumption DEF Msgs
  <2>2. m \notin due
    BY <1>3 DEF Open
  <2>3. m \in outbox \ waiting
    BY <1>0, <1>2 DEF Open, IInv, NothingForgotten, BacksOffHit, kvVars, TypeOK
  <2>4. Head(queue) # RetryEvent /\ due = {Head(queue)}
    BY <2>2, <2>3 DEF due, Due
  <2>5. Open(m)
    <3>1. todo[l] = {}
      BY <1>0, <1>2 DEF IdleDone
    <3>2. \A k \in Loops : m \notin todo[k]
      BY <1>3, <3>1 DEF Open
    <3>. QED
      BY <1>2, <3>2 DEF Open, kvVars
  <2>6. /\ \A k \in Loops : \A n \in todo[k] : n <= m
        /\ (wpc = "schedule" /\ wmsg = m) \/ Ahead(m)
    BY <1>0, <2>5 DEF Upcoming
  <2>7. queue[1] \in Msgs /\ queue[1] # m /\ queue[1] # RetryEvent /\ due = {queue[1]}
    BY <1>1, <1>2, <2>2, <2>4
  <2>8. CASE wpc = "schedule" /\ wmsg = m
    <3>1. queue[1] \in accepted
      BY <1>1, <2>7 DEF IInv, OnlyAccepted
    <3>2. queue[1] <= m
      <4>1. ~(queue[1] > wmsg)
        BY <2>7, <3>1 DEF IInv, Fresh
      <4>2. queue[1] \in Nat
        BY <2>7, MaxMessagesAssumption DEF Msgs
      <4>. QED
        BY <2>1, <2>8, <4>1, <4>2
    <3>. QED
      BY <1>2, <1>3, <2>6, <2>7, <2>8, <3>2 DEF workerVars
  <2>9. CASE Ahead(m)
    <3>1. PICK i \in 1 .. Len(queue) :
            queue[i] \in {m, RetryEvent} /\ \A j \in 1 .. i : queue[j] <= m
      BY <2>9 DEF Ahead
    <3>2. i # 1 /\ i \in Nat
      BY <1>1, <2>7, <3>1
    <3>3. queue[1] <= m
      BY <3>1, <3>2
    <3>4. i - 1 \in 1 .. Len(queue') /\ queue'[i - 1] = queue[i]
      BY <1>1, <3>1, <3>2
    <3>5. \A j \in 1 .. i - 1 : queue'[j] <= m
      <4> SUFFICES ASSUME NEW j \in 1 .. i - 1 PROVE queue'[j] <= m
        OBVIOUS
      <4>1. j \in 1 .. Len(queue) - 1 /\ j + 1 \in 1 .. i
        BY <1>1, <3>1, <3>2
      <4>2. queue'[j] = queue[j + 1]
        BY <1>1, <4>1
      <4>. QED
        BY <3>1, <4>1, <4>2
    <3>6. Ahead(m)'
      BY <3>1, <3>4, <3>5 DEF Ahead
    <3>. QED
      BY <1>3, <2>6, <2>7, <3>3, <3>6
  <2>. QED
    BY <2>6, <2>8, <2>9
<1>7. IdleDone'
  BY <1>0, <1>3 DEF IdleDone, TakeEvent, due, TypeOK
<1>. QED
  BY <1>5, <1>6, <1>7 DEF OrderInv

(* A message whose token is taken is left to the loop that holds it.       *)
LEMMA OrderBegin ==
  ASSUME IInv, TypeOK', OrderInv, NEW l \in Loops, NEW m \in todo[l], Begin(l, m)
  PROVE  OrderInv'
<1>0. TypeOK /\ TokenOwned /\ BacksOffHit /\ IdleDone /\ Upcoming
  BY DEF IInv, OrderInv
<1>1. /\ m \in Msgs /\ pc[l] = "begin" /\ \A x \in Msgs : ~ Busy(l, x)
      /\ UNCHANGED <<queue, workerVars, accepted, entry, wire, waiting, hit>>
  BY <1>0 DEF Begin, At, Busy, kvVars, TypeOK
<1>2. CASE m \in inFlight
  <2>1. NextMessage(l, m) /\ inFlight' = inFlight
    BY <1>2 DEF Begin
  <2>2. /\ \A k \in Loops : \A x \in Msgs : Busy(k, x)' <=> Busy(k, x)
        /\ \A k \in Loops : k # l => pc'[k] = pc[k]
    BY <1>0, <1>1, <2>1, FinishBusy
  <2>3. /\ \A k \in Loops : todo'[k] = IF k = l THEN todo[l] \ {m} ELSE todo[k]
        /\ pc'[l] \in {"idle", "begin"}
        /\ pc'[l] = "idle" => todo[l] = {m}
    BY <1>0, <2>1 DEF NextMessage, TypeOK
  <2>4. PICK k \in Loops : k # l /\ m \in todo[k]
    BY <1>0, <1>1, <1>2 DEF TokenOwned, Busy
  <2>5. TokenOwned' /\ BacksOffHit'
    BY <1>0, <1>1, <2>1, <2>2 DEF TokenOwned, BacksOffHit, TypeOK
  <2>6. IdleDone'
    BY <1>0, <2>2, <2>3 DEF IdleDone
  <2>7. Upcoming'
    BY <1>0, <1>1, <2>3, <2>4, OrderLoop
  <2>. QED
    BY <2>5, <2>6, <2>7 DEF OrderInv
<1>3. CASE m \notin inFlight
  <2>1. inFlight' = inFlight \cup {m} /\ todo' = todo /\ pc' = [pc EXCEPT ![l] = "lookup"]
    BY <1>3 DEF Begin
  <2>2. \A k \in Loops : pc'[k] = IF k = l THEN "lookup" ELSE pc[k]
    BY <1>0, <2>1 DEF TypeOK
  <2>3. /\ Busy(l, m)'
        /\ \A k \in Loops : \A x \in Msgs : Busy(k, x) => Busy(k, x)'
        /\ \A k \in Loops : \A x \in Msgs : k # l => Busy(k, x)' = Busy(k, x)
    BY <1>1, <2>1, <2>2 DEF Busy, Begin, At
  <2>4. TokenOwned'
    BY <1>0, <2>1, <2>3 DEF TokenOwned, TypeOK
  <2>5. BacksOffHit' /\ IdleDone'
    BY <1>0, <1>1, <2>1, <2>2, <2>3 DEF BacksOffHit, IdleDone
  <2>6. Upcoming'
    BY <1>0, <1>1, <2>1, OrderLoop
  <2>. QED
    BY <2>4, <2>5, <2>6 DEF OrderInv
<1>. QED
  BY <1>2, <1>3

(* The other steps of an attempt.                                          *)
LEMMA OrderAttempt ==
  ASSUME IInv, TypeOK', OrderInv, NEW l \in Loops, NEW m \in todo[l],
         Attempt(l, m) \/ SendFails(l, m) \/ ReplyLost(l, m) \/ AttemptRaises(l, m),
         ~Begin(l, m)
  PROVE  OrderInv'
<1> USE DEF LoopStates, Sending, Completing
<1>0. TypeOK /\ m \in Msgs /\ m \in accepted /\ NothingForgotten /\ BacksOffHit
  BY DEF IInv, TypeOK, OnlyAccepted, OrderInv
<1>1. pc[l] \in LoopStates \ {"idle", "begin"} /\ At(l, m, pc[l])
  BY DEF Attempt, SendFails, ReplyLost, AttemptRaises, Lookup, Send, Unsendable, ScheduleRetry,
         MarkFailed, UnqueueFailed, DropEntry, DropIndex, DropOutbox, PutSent, PutSentIndex, At
<1>2. Busy(l, m) /\ AttemptAt(l, m)
  BY <1>0, <1>1, Alone DEF IInv, AttemptsSound
<1>3. CASE Send(l, m) \/ ReplyLost(l, m)
  <2>1. wire' = [wire EXCEPT ![m] = @ + 1] /\ entry' = entry
    BY <1>3 DEF Send, ReplyLost, kvVars
  <2>2. \A x \in Msgs : wire[x] # 0 => wire'[x] # 0
    BY <1>0, <2>1 DEF TypeOK
  <2>3. CASE Send(l, m)
    BY <1>1, <2>1, <2>2, <2>3, OrderGoto DEF Send, kvVars
  <2>4. CASE ReplyLost(l, m)
    BY <1>1, <2>1, <2>2, <2>4, OrderGoto DEF ReplyLost, kvVars
  <2>. QED
    BY <1>3, <2>3, <2>4
<1>4. CASE Unsendable(l, m)
  BY <1>1, <1>4, OrderGoto DEF Unsendable, kvVars
<1>5. CASE SendFails(l, m)
  BY <1>1, <1>5, OrderGoto DEF SendFails, kvVars
<1>6. CASE MarkFailed(l, m)
  <2>1. \A x \in Msgs : entry[x] = "failed" => entry'[x] = "failed"
    BY <1>0, <1>6 DEF MarkFailed, TypeOK
  <2>. QED
    BY <1>1, <1>6, <2>1, OrderGoto DEF MarkFailed
<1>7. CASE DropEntry(l, m)
  <2>1. entry[m] = "pending"
    BY <1>2, <1>7 DEF AttemptAt, DropEntry, At
  <2>2. \A x \in Msgs : entry[x] = "failed" => entry'[x] = "failed"
    BY <1>0, <1>7, <2>1 DEF DropEntry, TypeOK
  <2>. QED
    BY <1>1, <1>7, <2>2, OrderGoto DEF DropEntry
<1>8. CASE DropIndex(l, m)
  BY <1>1, <1>8, OrderGoto DEF DropIndex
<1>9. CASE DropOutbox(l, m)
  BY <1>1, <1>9, OrderGoto DEF DropOutbox
<1>10. CASE PutSent(l, m)
  BY <1>1, <1>10, OrderGoto DEF PutSent
<1>11. CASE Lookup(l, m)
  <2>1. CASE Goto(l, "send")
    BY <1>1, <1>11, <2>1, OrderGoto DEF Lookup
  <2>2. CASE /\ ~ (m \in indexed /\ entry[m] # "none" /\ entry[m] = "pending")
             /\ Finish(l, m)
    <3>1. wire[m] # 0 \/ entry[m] = "failed"
      BY <1>0, <2>2 DEF NothingForgotten, TypeOK
    <3>2. m \in waiting => m \in hit
      BY <1>0 DEF BacksOffHit
    <3>. QED
      BY <1>1, <1>11, <2>2, <3>1, <3>2, OrderFinish DEF Lookup
  <2>. QED
    BY <1>11, <2>1, <2>2 DEF Lookup
<1>12. CASE UnqueueFailed(l, m)
  <2>1. entry[m] = "failed" /\ (m \in waiting => m \in hit)
    BY <1>0, <1>2, <1>12 DEF AttemptAt, UnqueueFailed, At, BacksOffHit
  <2>. QED
    BY <1>1, <1>12, <2>1, OrderFinish DEF UnqueueFailed
<1>13. CASE PutSentIndex(l, m)
  <2>1. wire[m] # 0 /\ (m \in waiting => m \in hit)
    BY <1>0, <1>2, <1>13 DEF AttemptAt, PutSentIndex, At, BacksOffHit, TypeOK
  <2>. QED
    BY <1>1, <1>13, <2>1, OrderFinish DEF PutSentIndex
<1>14. CASE ScheduleRetry(l, m)
  <2>1. m \in hit
    BY <1>0, <1>2, <1>14 DEF BacksOffHit, ScheduleRetry, At
  <2>. QED
    BY <1>1, <1>14, <2>1, OrderFinish DEF ScheduleRetry
<1>15. CASE AttemptRaises(l, m)
  <2>1. /\ {} \in SUBSET todo[l]
        /\ pc' = [pc EXCEPT ![l] = "idle"] /\ todo' = [todo EXCEPT ![l] = {}]
        /\ inFlight' = inFlight \ {m} /\ hit' = hit \cup todo[l]
        /\ UNCHANGED <<queue, workerVars, accepted, entry, wire, waiting>>
    BY <1>15 DEF AttemptRaises, kvVars
  <2>. QED
    BY <1>1, <2>1, OrderLeave
<1>. QED
  BY <1>3, <1>4, <1>5, <1>6, <1>7, <1>8, <1>9, <1>10, <1>11, <1>12, <1>13, <1>14, <1>15
  DEF Attempt

(* The worker adds messages behind those it sent before.                   *)
LEMMA OrderWorker ==
  ASSUME IInv, TypeOK', OrderInv, Worker
  PROVE  OrderInv'
<1>0. TypeOK /\ TokenOwned /\ BacksOffHit /\ IdleDone /\ Upcoming /\ Fresh /\ OnlyAccepted
  BY DEF IInv, OrderInv
<1>1. UNCHANGED <<waiting, inFlight, pc, todo, hit, wire>>
  BY DEF Worker, PutMessage, PutIndex, PutOutbox, ScheduleSend, loopVars, kvVars
<1>2. TokenOwned' /\ BacksOffHit' /\ IdleDone'
  BY <1>0, <1>1 DEF TokenOwned, BacksOffHit, IdleDone, Busy
<1>3. CASE PutMessage \/ PutIndex
  <2>1. UNCHANGED <<queue, accepted>> /\ wpc # "schedule"
    BY <1>3 DEF PutMessage, PutIndex
  <2>2. \A m \in accepted : entry'[m] = entry[m]
    BY <1>0, <1>3 DEF PutMessage, PutIndex, Fresh, TypeOK
  <2>3. \A m \in Msgs : Open(m)' => Open(m)
    BY <1>1, <2>1, <2>2 DEF Open
  <2>4. Upcoming'
    BY <1>0, <1>1, <2>1, <2>3, OrderFrame
  <2>. QED
    BY <1>2, <2>4 DEF OrderInv
<1>4. CASE PutOutbox
  <2>1. /\ UNCHANGED <<queue, entry, wmsg>> /\ accepted' = accepted \cup {wmsg}
        /\ wpc = "outbox" /\ wpc' = "schedule"
    BY <1>4 DEF PutOutbox
  <2> SUFFICES ASSUME NEW m \in Msgs, Open(m)'
               PROVE  /\ \A l \in Loops : \A n \in todo'[l] : n <= m
                      /\ (wpc' = "schedule" /\ wmsg' = m) \/ Ahead(m)'
    BY <1>2 DEF Upcoming, OrderInv
  <2>2. CASE m = wmsg
    <3>1. \A n \in accepted : n <= m
      <4> SUFFICES ASSUME NEW n \in accepted PROVE n <= m
        OBVIOUS
      <4>1. n \in Msgs /\ n \in Nat /\ m \in Nat
        BY <1>0, MaxMessagesAssumption DEF TypeOK, Msgs
      <4>2. ~(n > wmsg)
        BY <1>0, <4>1 DEF Fresh
      <4>. QED
        BY <2>2, <4>1, <4>2
    <3>. QED
      BY <1>0, <1>1, <2>1, <2>2, <3>1 DEF OnlyAccepted
  <2>3. CASE m # wmsg
    <3>1. Open(m)
      BY <1>1, <2>1, <2>3 DEF Open
    <3>. QED
      BY <1>0, <1>1, <2>1, <2>3, <3>1 DEF Upcoming, Ahead
  <2>. QED
    BY <2>2, <2>3
<1>5. CASE ScheduleSend
  <2>1. /\ UNCHANGED <<entry, accepted>> /\ queue' = Append(queue, wmsg) /\ wpc = "schedule"
        /\ wmsg \in Msgs /\ Len(queue) \in Nat
    BY <1>0, <1>5 DEF ScheduleSend, kvVars, TypeOK
  <2>2. /\ Len(queue') = Len(queue) + 1 /\ queue'[Len(queue) + 1] = wmsg
        /\ \A i \in 1 .. Len(queue) : queue'[i] = queue[i] /\ i \in 1 .. Len(queue')
    BY <1>0, <2>1 DEF TypeOK
  <2> SUFFICES ASSUME NEW m \in Msgs, Open(m)'
               PROVE  (\A l \in Loops : \A n \in todo'[l] : n <= m) /\ Ahead(m)'
    BY <1>2 DEF Upcoming, OrderInv
  <2>3. Open(m)
    BY <1>1, <2>1 DEF Open
  <2>4. \A l \in Loops : \A n \in todo'[l] : n <= m
    BY <1>0, <1>1, <2>3 DEF Upcoming
  <2>5. CASE Ahead(m)
    <3>1. PICK i \in 1 .. Len(queue) :
            queue[i] \in {m, RetryEvent} /\ \A j \in 1 .. i : queue[j] <= m
      BY <2>5 DEF Ahead
    <3>2. \A j \in 1 .. i : queue'[j] <= m
      <4> SUFFICES ASSUME NEW j \in 1 .. i PROVE queue'[j] <= m
        OBVIOUS
      <4>1. j \in 1 .. Len(queue)
        BY <2>1, <3>1
      <4>. QED
        BY <2>2, <3>1, <4>1
    <3>. QED
      BY <2>2, <2>4, <3>1, <3>2 DEF Ahead
  <2>6. CASE wmsg = m
    <3>1. m \in Nat /\ \A n \in Msgs : n \in Nat /\ (n > m => n \notin accepted)
      BY <1>0, <2>6, MaxMessagesAssumption DEF Fresh, Msgs
    <3>2. \A j \in 1 .. Len(queue) : queue[j] <= m
      <4> SUFFICES ASSUME NEW j \in 1 .. Len(queue) PROVE queue[j] <= m
        OBVIOUS
      <4>1. CASE queue[j] = RetryEvent
        BY <3>1, <4>1 DEF RetryEvent
      <4>2. CASE queue[j] # RetryEvent
        <5>1. queue[j] \in Msgs /\ queue[j] \in accepted
          BY <1>0, <4>2 DEF OnlyAccepted, TypeOK
        <5>2. queue[j] \in Nat /\ ~(queue[j] > m)
          BY <3>1, <5>1
        <5>. QED
          BY <3>1, <5>2
      <4>. QED
        BY <4>1, <4>2
    <3>3. \A j \in 1 .. Len(queue) + 1 : queue'[j] <= m
      <4> SUFFICES ASSUME NEW j \in 1 .. Len(queue) + 1 PROVE queue'[j] <= m
        OBVIOUS
      <4>1. CASE j = Len(queue) + 1
        BY <2>2, <2>6, <3>1, <4>1
      <4>2. CASE j \in 1 .. Len(queue)
        BY <2>2, <3>2, <4>2
      <4>. QED
        BY <2>1, <4>1, <4>2
    <3>4. Len(queue) + 1 \in 1 .. Len(queue')
      BY <2>1, <2>2
    <3>. QED
      BY <2>2, <2>4, <2>6, <3>3, <3>4 DEF Ahead
  <2>7. wmsg = m \/ Ahead(m)
    BY <1>0, <2>3 DEF Upcoming
  <2>. QED
    BY <2>5, <2>6, <2>7
<1>. QED
  BY <1>3, <1>4, <1>5 DEF Worker

(* The timers, and an exception on the worker thread.                      *)
LEMMA OrderTimers ==
  ASSUME IInv, TypeOK', OrderInv,
         RetryDue \/ WorkerRaises \/ \E m \in Msgs : BackoffElapses(m)
  PROVE  OrderInv'
<1>0. TypeOK /\ TokenOwned /\ BacksOffHit /\ IdleDone /\ Upcoming
  BY DEF IInv, OrderInv
<1>1. /\ UNCHANGED <<inFlight, pc, todo, wire, entry, accepted>>
      /\ hit \subseteq hit' /\ waiting' \subseteq waiting
  BY DEF RetryDue, WorkerRaises, BackoffElapses, loopVars, kvVars
<1>2. TokenOwned' /\ BacksOffHit' /\ IdleDone'
  BY <1>0, <1>1 DEF TokenOwned, BacksOffHit, IdleDone, Busy
<1>3. \A m \in Msgs : Open(m)' => Open(m)
  BY <1>1 DEF Open
<1>4. CASE RetryDue
  <2>1. queue' = Append(queue, RetryEvent) /\ UNCHANGED workerVars
    BY <1>4 DEF RetryDue
  <2>2. \A i \in 1 .. Len(queue) : queue'[i] = queue[i] /\ i \in 1 .. Len(queue')
    BY <1>0, <2>1 DEF TypeOK
  <2>3. ASSUME NEW m \in Msgs, Ahead(m) PROVE Ahead(m)'
    <3>1. PICK i \in 1 .. Len(queue) :
            queue[i] \in {m, RetryEvent} /\ \A j \in 1 .. i : queue[j] <= m
      BY <2>3 DEF Ahead
    <3>2. \A j \in 1 .. i : j \in 1 .. Len(queue)
      BY <1>0, <3>1 DEF TypeOK
    <3>. QED
      BY <2>2, <3>1, <3>2 DEF Ahead
  <2>4. Upcoming'
    BY <1>0, <1>1, <1>3, <2>1, <2>3 DEF Upcoming, workerVars
  <2>. QED
    BY <1>2, <2>4 DEF OrderInv
<1>5. CASE WorkerRaises \/ \E m \in Msgs : BackoffElapses(m)
  <2>1. queue' = queue /\ (UNCHANGED workerVars \/ wmsg \in hit')
    BY <1>5 DEF WorkerRaises, BackoffElapses
  <2>2. Upcoming'
    BY <1>0, <1>1, <1>3, <2>1, OrderFrame DEF workerVars
  <2>. QED
    BY <1>2, <2>2 DEF OrderInv
<1>. QED
  BY <1>4, <1>5

(* After a crash the retry event comes before anything sent since.         *)
LEMMA OrderCrash ==
  ASSUME IInv, TypeOK', OrderInv, Crash
  PROVE  OrderInv'
<1>0. TypeOK /\ BacksOffHit
  BY DEF IInv, OrderInv
<1>1. /\ queue' = <<RetryEvent>> /\ inFlight' = {} /\ waiting' = waiting /\ hit' = hit
      /\ \A l \in Loops : pc'[l] = "idle" /\ todo'[l] = {}
  BY DEF Crash, kvVars
<1>2. TokenOwned' /\ BacksOffHit' /\ IdleDone'
  BY <1>0, <1>1 DEF TokenOwned, BacksOffHit, IdleDone
<1>3. ASSUME NEW m \in Msgs PROVE Ahead(m)'
  <2>1. Len(queue') = 1 /\ queue'[1] = RetryEvent
    BY <1>1
  <2>2. m \in Nat /\ RetryEvent <= m
    BY MaxMessagesAssumption DEF Msgs, RetryEvent
  <2>. QED
    BY <2>1, <2>2 DEF Ahead
<1>4. Upcoming'
  BY <1>1, <1>3 DEF Upcoming
<1>. QED
  BY <1>2, <1>4 DEF OrderInv

(* OrderInv is inductive beside IInv.                                      *)
THEOREM OrderInvariance == Spec => [](IInv /\ OrderInv)
<1>1. Init => IInv /\ OrderInv
  <2> SUFFICES ASSUME Init PROVE OrderInv
    BY InitIInv
  <2>. QED
    BY DEF Init, OrderInv, TokenOwned, BacksOffHit, IdleDone, Upcoming, Open, Busy
<1>2. IInv /\ OrderInv /\ [Next]_vars => (IInv /\ OrderInv)'
  <2> SUFFICES ASSUME IInv, OrderInv, [Next]_vars
               PROVE  OrderInv'
    BY NextIInv
  <2>1. TypeOK'
    BY TypeStep DEF IInv
  <2>2. CASE Worker
    BY <2>1, <2>2, OrderWorker
  <2>3. CASE RetryDue \/ WorkerRaises \/ \E m \in Msgs : BackoffElapses(m)
    BY <2>1, <2>3, OrderTimers
  <2>4. CASE Crash
    BY <2>1, <2>4, OrderCrash
  <2>5. ASSUME NEW l \in Loops, TakeEvent(l) PROVE OrderInv'
    BY <2>1, <2>5, OrderTake
  <2>6. ASSUME NEW l \in Loops, NEW m \in todo[l],
               Attempt(l, m) \/ SendFails(l, m) \/ ReplyLost(l, m) \/ AttemptRaises(l, m)
        PROVE  OrderInv'
    BY <2>1, <2>6, OrderBegin, OrderAttempt
  <2>7. CASE UNCHANGED vars
    BY <2>7 DEF vars, kvVars, workerVars, loopVars, OrderInv, TokenOwned, BacksOffHit, IdleDone,
                Upcoming, Open, Ahead, Busy
  <2>. QED
    BY <2>2, <2>3, <2>4, <2>5, <2>6, <2>7 DEF Next, LoopStep, Failure
<1>. QED
  BY <1>1, <1>2, PTL DEF Spec

(* Messages go out in the order they were sent, through crashes, backoff,  *)
(* retries and any number of loops, but for those a fault hit or another   *)
(* loop has taken up.                                                      *)
THEOREM SentInOrder == Spec => InOrder
<1> DEFINE Step ==
      \A m \in Msgs : wire'[m] # wire[m] =>
        \A earlier \in accepted : earlier < m =>
          \/ wire[earlier] > 0 \/ entry[earlier] = "failed" \/ earlier \in hit
          \/ \E l \in Loops : earlier \in todo[l]
<1>1. IInv /\ OrderInv /\ [Next]_vars => [Step]_vars
  <2> SUFFICES ASSUME IInv, OrderInv, [Next]_vars PROVE Step
    OBVIOUS
  <2> SUFFICES ASSUME NEW m \in Msgs, wire'[m] # wire[m],
                      NEW earlier \in accepted, earlier < m, wire[earlier] = 0,
                      entry[earlier] # "failed", earlier \notin hit,
                      \A l \in Loops : earlier \notin todo[l]
               PROVE  FALSE
    BY DEF IInv, TypeOK
  <2>1. PICK l \in Loops : m \in todo[l]
    <3>1. CASE wire' = wire
      BY <3>1
    <3>2. ASSUME NEW l \in Loops, NEW n \in todo[l], Send(l, n) \/ ReplyLost(l, n)
          PROVE  m \in todo[l]
      BY <3>2 DEF Send, ReplyLost, IInv, TypeOK
    <3>. QED
      BY <3>1, <3>2 DEF Next, Worker, LoopStep, Attempt, Failure, PutMessage, PutIndex, PutOutbox,
        ScheduleSend, RetryDue, BackoffElapses, TakeEvent, Begin, Lookup, Unsendable,
        ScheduleRetry, MarkFailed, UnqueueFailed, DropEntry, DropIndex, DropOutbox, PutSent,
        PutSentIndex, SendFails, AttemptRaises, WorkerRaises, Crash, vars
  <2>2. earlier \in Msgs /\ Open(earlier)
    BY DEF Open, IInv, TypeOK
  <2>3. m <= earlier
    BY <2>1, <2>2 DEF OrderInv, Upcoming
  <2>4. m \in Nat /\ earlier \in Nat
    BY <2>2, MaxMessagesAssumption DEF Msgs
  <2>. QED
    BY <2>3, <2>4
<1>. QED
  BY <1>1, OrderInvariance, PTL DEF Spec, InOrder
=============================================================================
