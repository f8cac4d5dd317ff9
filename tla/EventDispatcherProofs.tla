------------------------ MODULE EventDispatcherProofs ------------------------
(***************************************************************************)
(* Proofs about EventDispatcher, for any loops, periodic events and        *)
(* bounds: its typing, the order messages are taken up in, and how many    *)
(* entries of a periodic event wait.                                       *)
(***************************************************************************)
EXTENDS EventDispatcher, FiniteSetTheorems, TLAPS

-----------------------------------------------------------------------------
(* Typing.                                                                 *)

(* What an entry schedule pushes, and what an exception leaves behind.     *)
LEMMA NewEntryType ==
  ASSUME TypeOK, NEW t \in Threads, NEW e \in Events
  PROVE  NewEntry(e, t) \in Entry
BY DEF TypeOK, NewEntry, Entry

LEMMA CaughtType ==
  ASSUME TypeOK, NEW l \in Loops, Caught(l)
  PROVE  /\ pc' \in [Threads -> LoopStates \cup {"idle"}]
         /\ pc'[Worker] = pc[Worker]
         /\ visit' \in [Loops -> SUBSET Periodic]
         /\ job' \in [Loops -> Periodic \cup {ErrorEvent}]
         /\ held' \in [Loops -> SUBSET Entry]
         /\ \A k \in Loops : held'[k] # {} <=> pc'[k] \in {"trigger", "putback"}
         /\ \A k \in Loops : \A x, y \in held'[k] : x = y
<1>1. l \in Threads /\ l # Worker
  BY NamesAssumption DEF Threads
<1>2. /\ pc' = [pc EXCEPT ![l] = "push"]
      /\ held' = [held EXCEPT ![l] = {}]
  BY DEF Caught, Goto
<1>3. \A k \in Loops : /\ pc'[k] = IF k = l THEN "push" ELSE pc[k]
                       /\ held'[k] = IF k = l THEN {} ELSE held[k]
  BY <1>2 DEF TypeOK, Threads
<1>. QED
  BY <1>1, <1>2, <1>3 DEF TypeOK, LoopStates, Caught, Goto

(* Every step keeps the types.                                             *)
LEMMA TypeStep ==
  ASSUME TypeOK, [Next]_vars
  PROVE  TypeOK'
<1> USE NamesAssumption, TimeAssumption, BoundAssumption DEF TypeOK
<1>1. CASE ScheduleSend
  <2>1. sent + 1 \in Events /\ Worker \in Threads
    BY <1>1 DEF ScheduleSend, Events, Sends, Threads
  <2>2. queue' \subseteq Entry
    BY <1>1, <2>1, NewEntryType DEF ScheduleSend
  <2>3. /\ clashes' \in Nat
        /\ raises + setBacks + clashes' <= MaxFaults
    BY <1>1 DEF ScheduleSend, Clash, FaultLeft
  <2>4. ran' \subseteq Sends /\ sent' \in 0 .. MaxSends
    BY <1>1 DEF ScheduleSend
  <2>. QED
    BY <1>1, <2>2, <2>3, <2>4 DEF ScheduleSend, Goto, LoopStates, Threads, loopVars
<1>2. CASE BumpWorker
  BY <1>2 DEF BumpWorker, Goto, LoopStates, Threads, loopVars
<1>3. CASE Start
  BY <1>3 DEF Start, Goto, LoopStates, Threads, loopVars
<1>4. CASE Stop
  BY <1>4 DEF Stop, loopVars
<1>5. ASSUME NEW l \in Loops, LoopStep(l)
      PROVE  TypeOK'
  <2>0. l \in Threads /\ l # Worker
    BY DEF Threads
  <2>1. CASE Boot(l)
    BY <2>0, <2>1 DEF Boot, Goto, LoopStates, Threads, loopVars
  <2>2. CASE Check(l)
    BY <2>0, <2>2 DEF Check, Goto, LoopStates, Threads, objectVars
  <2>3. CASE Push(l)
    <3>1. queue' \subseteq Entry
      BY <2>0, <2>3, NewEntryType DEF Push, Events
    <3>2. /\ clashes' \in Nat
          /\ raises + setBacks + clashes' <= MaxFaults
      BY <2>3 DEF Push, Clash, FaultLeft
    <3>3. CASE Caught(l)
      BY <2>3, <3>1, <3>2, <3>3, CaughtType DEF Push
    <3>4. CASE UNCHANGED loopVars /\ \E s \in {"bump", "dead"} : Goto(l, s)
      <4>1. PICK s \in {"bump", "dead"} : Goto(l, s)
        BY <3>4
      <4>2. /\ pc' \in [Threads -> LoopStates \cup {"idle"}]
            /\ pc'[Worker] = pc[Worker]
            /\ \A k \in Loops : held'[k] # {} <=> pc'[k] \in {"trigger", "putback"}
        BY <2>0, <2>3, <3>4, <4>1 DEF Push, Goto, LoopStates, Threads, loopVars
      <4>. QED
        BY <2>3, <3>1, <3>2, <3>4, <4>2 DEF Push, loopVars
    <3>. QED
      BY <2>3, <3>3, <3>4 DEF Push
  <2>4. CASE Bump(l)
    BY <2>0, <2>4 DEF Bump, Goto, LoopStates, Threads
  <2>5. CASE ProcessEmpty(l)
    BY <2>0, <2>5 DEF ProcessEmpty, Processing, Goto, LoopStates, Threads, objectVars, loopVars
  <2>6. ASSUME NEW p \in visit[l], Look(l, p)
        PROVE  TypeOK'
    <3>1. p \in Periodic
      OBVIOUS
    <3>. QED
      BY <2>0, <2>6, <3>1 DEF Look, Goto, LoopStates, Threads
  <2>7. ASSUME NEW e \in queue, Pop(l, e)
        PROVE  TypeOK'
    <3>1. /\ clashes' \in Nat
          /\ raises + setBacks + clashes' <= MaxFaults
      BY <2>7 DEF Pop, Clash, FaultLeft
    <3>2. CASE Caught(l)
      BY <2>7, <3>1, <3>2, CaughtType DEF Pop
    <3>3. CASE ~Caught(l)
      <4>1. \A k \in Loops : held'[k] = IF k = l THEN {e} ELSE held[k]
        BY <2>7, <3>3 DEF Pop
      <4>2. /\ pc' \in [Threads -> LoopStates \cup {"idle"}]
            /\ pc'[Worker] = pc[Worker]
            /\ \A k \in Loops : pc'[k] \in IF k = l THEN {"trigger", "putback"} ELSE {pc[k]}
        BY <2>0, <2>7, <3>3 DEF Pop, Goto, LoopStates, Threads
      <4>3. held' \in [Loops -> SUBSET Entry] /\ queue' \subseteq Entry
        BY <2>7, <3>3 DEF Pop
      <4>4. /\ \A k \in Loops : held'[k] # {} <=> pc'[k] \in {"trigger", "putback"}
            /\ \A k \in Loops : \A x, y \in held'[k] : x = y
        <5>1. pc'[l] \in {"trigger", "putback"} /\ l \in Loops
          BY <4>2
        <5>2. \A k \in Loops : k # l => pc'[k] = pc[k] /\ held'[k] = held[k]
          BY <4>1, <4>2
        <5>. QED
          BY <4>1, <5>1, <5>2
      <4>5. /\ visit' = visit /\ job' = job /\ counter' = counter /\ next' = next
            /\ running' = running /\ clock' = clock /\ sent' = sent /\ ran' = ran
            /\ stopped' = stopped /\ raises' = raises /\ setBacks' = setBacks
        BY <2>7, <3>3 DEF Pop
      <4>. QED
        BY <3>1, <4>2, <4>3, <4>4, <4>5
    <3>. QED
      BY <3>2, <3>3
  <2>8. ASSUME NEW e \in held[l], PutBack(l, e)
        PROVE  TypeOK'
    <3>1. /\ clashes' \in Nat
          /\ raises + setBacks + clashes' <= MaxFaults
          /\ queue' \subseteq Entry
      BY <2>8 DEF PutBack, Clash, FaultLeft
    <3>2. CASE Caught(l)
      BY <2>8, <3>1, <3>2, CaughtType DEF PutBack
    <3>3. CASE ~Caught(l)
      BY <2>0, <2>8, <3>1, <3>3 DEF PutBack, Goto, LoopStates, Threads
    <3>. QED
      BY <3>2, <3>3
  <2>9. ASSUME NEW e \in held[l], Trigger(l, e)
        PROVE  TypeOK'
    <3>1. /\ raises' \in Nat
          /\ raises' + setBacks + clashes <= MaxFaults
      BY <2>9 DEF Trigger, FaultLeft
    <3>2. CASE Caught(l)
      BY <2>9, <3>1, <3>2, CaughtType DEF Trigger, objectVars
    <3>3. CASE ~Caught(l)
      BY <2>0, <2>9, <3>1, <3>3 DEF Trigger, Goto, LoopStates, Threads, objectVars
    <3>. QED
      BY <3>2, <3>3
  <2>. QED
    BY <1>5, <2>1, <2>2, <2>3, <2>4, <2>5, <2>6, <2>7, <2>8, <2>9 DEF LoopStep
<1>6. CASE Tick
  BY <1>6 DEF Tick, objectVars, loopVars
<1>7. CASE SetBack
  BY <1>7 DEF SetBack, FaultLeft, objectVars, loopVars
<1>8. CASE UNCHANGED vars
  BY <1>8 DEF vars, objectVars, loopVars
<1>. QED
  BY <1>1, <1>2, <1>3, <1>4, <1>5, <1>6, <1>7, <1>8 DEF Next

(* The initial states are typed.                                           *)
LEMMA InitTypes ==
  ASSUME Init
  PROVE  TypeOK
<1>1. /\ \A t \in Threads : pc[t] = IF t = Worker THEN "idle" ELSE "none"
      /\ pc \in [Threads -> LoopStates \cup {"idle"}]
      /\ pc[Worker] \in {"idle", "bump"}
  BY DEF Init, Threads, LoopStates
<1>2. \A l \in Loops : l \in Threads /\ l # Worker
  BY NamesAssumption DEF Threads
<1>3. \A l \in Loops : held[l] = {} /\ pc[l] = "none"
  BY <1>1, <1>2 DEF Init
<1>4. clock \in 1 .. MaxTime /\ sent \in 0 .. MaxSends /\ raises + setBacks + clashes <= MaxFaults
  BY TimeAssumption, BoundAssumption DEF Init
<1>. QED
  BY <1>1, <1>3, <1>4 DEF Init, TypeOK

(* Every variable has its type in every reachable state.                   *)
THEOREM Typing == Spec => []TypeOK
<1>1. Init => TypeOK
  BY InitTypes
<1>2. TypeOK /\ [Next]_vars => TypeOK'
  BY TypeStep
<1>. QED
  BY <1>1, <1>2, PTL DEF Spec

-----------------------------------------------------------------------------
(* The order of the messages.                                              *)

(* Once the clock was set back or a comparison raised, nothing is claimed. *)
LEMMA Untamed ==
  ASSUME TypeOK', ~Tame'
  PROVE  IInv'
BY DEF IInv, SendsInOrder

(* A step that moves no message, and only lets time pass or the counter    *)
(* grow, keeps the order.                                                  *)
LEMMA Frame ==
  ASSUME IInv, TypeOK', Tame, Tame',
         queue' = queue, held' = held, ran' = ran, sent' = sent,
         clock' >= clock, counter' >= counter,
         pc'[Worker] = pc[Worker] \/ counter' > counter,
         \A l \in Loops : pc'[l] = "putback" => pc[l] = "putback"
  PROVE  IInv'
<1> USE DEF IInv, TypeOK
<1>1. QueuedSends'
  BY DEF QueuedSends, Entry
<1>2. RankedAsSent'
  BY DEF RankedAsSent, Before
<1>3. Taken' = Taken
  BY DEF Taken, Held
<1>4. NoSendMissing'
  BY <1>3 DEF NoSendMissing
<1>5. PutsBackOthers'
  BY DEF PutsBackOthers
<1>6. SendsInOrder'
  BY <1>3 DEF SendsInOrder
<1>. QED
  BY <1>1, <1>2, <1>4, <1>5, <1>6

(* What an entry of the queue says of the message it carries.              *)
LEMMA NewEntryFields ==
  ASSUME NEW t, NEW e
  PROVE  /\ NewEntry(e, t).key = clock
         /\ NewEntry(e, t).seq = counter
         /\ NewEntry(e, t).event = e
BY DEF NewEntry

(* The worker's message ranks after every message in the queue.            *)
LEMMA ScheduleStep ==
  ASSUME IInv, TypeOK', ScheduleSend, Tame, Tame'
  PROVE  IInv'
<1> DEFINE new == NewEntry(sent + 1, Worker)
<1>0. /\ queue' = queue \cup {new}
      /\ sent' = sent + 1 /\ sent < MaxSends
      /\ pc[Worker] = "idle"
      /\ UNCHANGED <<counter, clock, held, ran>>
      /\ pc' = [pc EXCEPT ![Worker] = "bump"]
  BY DEF ScheduleSend, Goto, loopVars, Tame, Clash, IInv, TypeOK
<1>1. new.key = clock /\ new.seq = counter /\ new.event = sent + 1 /\ new.event \in Sends
  BY <1>0, NewEntryFields, BoundAssumption DEF Sends, IInv, TypeOK
<1>2. pc'[Worker] = "bump"
  BY <1>0 DEF IInv, TypeOK, Threads
<1>3. \A e \in queue : /\ e.key \in Nat /\ e.seq \in Nat
                       /\ e.event \in Sends => e.event <= sent /\ e.key <= clock /\ e.seq < counter
  BY <1>0 DEF IInv, TypeOK, QueuedSends, Entry
<1>4. counter \in Nat /\ clock \in Nat /\ sent \in Nat
  BY DEF IInv, TypeOK
<1> HIDE DEF new
<1>5. QueuedSends'
  <2> SUFFICES ASSUME NEW e \in queue', e.event \in Sends
               PROVE  /\ e.event <= sent' /\ e.key <= clock'
                      /\ e.seq < counter' \/ (pc'[Worker] = "bump" /\ e.seq = counter')
    BY DEF QueuedSends, Sends
  <2>1. e.event \in Nat
    BY DEF Sends
  <2>. QED
    BY <1>0, <1>1, <1>2, <1>3, <1>4, <2>1
<1>6. RankedAsSent'
  <2> SUFFICES ASSUME NEW x \in queue', NEW y \in queue',
                      x.event \in Sends, y.event \in Sends, x.event < y.event
               PROVE  Before(x, y)
    BY DEF RankedAsSent, Sends, Before
  <2>1. CASE x \in queue /\ y \in queue
    BY <2>1 DEF IInv, RankedAsSent
  <2>2. CASE x \in queue /\ y = new
    BY <1>1, <1>3, <1>4, <2>2 DEF Before
  <2>3. CASE x = new
    <3>1. y.event <= sent + 1
      BY <1>0, <1>1, <1>3, <1>4 DEF Sends
    <3>. QED
      BY <1>1, <1>4, <2>3, <3>1 DEF Sends
  <2>. QED
    BY <1>0, <2>1, <2>2, <2>3
<1>7. Taken' = Taken
  BY <1>0 DEF Taken, Held, Sends
<1>8. NoSendMissing'
  <2> SUFFICES ASSUME NEW i \in 1 .. sent', i \notin Taken
               PROVE  \E e \in queue' : e.event = i
    BY <1>7 DEF NoSendMissing
  <2>1. CASE i \in 1 .. sent
    BY <1>0, <2>1 DEF IInv, NoSendMissing
  <2>2. CASE i = sent + 1
    BY <1>0, <1>1, <2>2
  <2>. QED
    BY <1>0, <1>4, <2>1, <2>2
<1>9. PutsBackOthers'
  <2>1. \A l \in Loops : pc'[l] = pc[l]
    BY <1>0, NamesAssumption DEF IInv, TypeOK, Threads
  <2>. QED
    BY <1>0, <2>1 DEF IInv, PutsBackOthers, Sends
<1>10. SendsInOrder'
  BY <1>7 DEF IInv, SendsInOrder
<1>. QED
  BY <1>5, <1>6, <1>8, <1>9, <1>10 DEF IInv

(* An entry that carries no message moves into the queue.                  *)
LEMMA OtherStep ==
  ASSUME IInv, TypeOK', Tame, Tame',
         NEW e, e.event \notin Sends,
         queue' = queue \cup {e}, ran' = ran, sent' = sent, clock' = clock,
         counter' = counter, pc'[Worker] = pc[Worker],
         \A l \in Loops : held'[l] = held[l] \/ (held'[l] = {} /\ held[l] = {e}),
         \A l \in Loops : pc'[l] = "putback" => pc[l] = "putback"
  PROVE  IInv'
<1> USE DEF IInv, TypeOK
<1>1. QueuedSends'
  BY DEF QueuedSends, Sends
<1>2. RankedAsSent'
  BY DEF RankedAsSent, Before, Sends
<1>3. Taken' = Taken
  BY DEF Taken, Held, Sends
<1>4. NoSendMissing'
  BY <1>3 DEF NoSendMissing
<1>5. PutsBackOthers'
  BY DEF PutsBackOthers, Sends
<1>6. SendsInOrder'
  BY <1>3 DEF SendsInOrder
<1>. QED
  BY <1>1, <1>2, <1>4, <1>5, <1>6

(* The head of the heap is the oldest message, if it is a message.         *)
LEMMA PopStep ==
  ASSUME IInv, TypeOK', Tame, Tame', NEW l \in Loops, NEW e \in queue, Pop(l, e)
  PROVE  IInv'
<1> USE DEF IInv
<1>0. /\ queue' = queue \ {e}
      /\ held' = [held EXCEPT ![l] = {e}]
      /\ pc' = [pc EXCEPT ![l] = IF e.key <= clock THEN "trigger" ELSE "putback"]
      /\ UNCHANGED <<counter, clock, sent, ran>>
      /\ pc[l] = "run"
  BY DEF Pop, Goto, Tame, Clash, TypeOK, Processing
<1>1. /\ held[l] = {}
      /\ pc'[Worker] = pc[Worker]
      /\ \A k \in Loops : held'[k] = IF k = l THEN {e} ELSE held[k]
      /\ \A k \in Loops : pc'[k] = IF k = l THEN IF e.key <= clock THEN "trigger" ELSE "putback"
                                   ELSE pc[k]
  BY <1>0, NamesAssumption DEF TypeOK, Threads
<1>2. Taken' = Taken \cup ({e.event} \cap Sends)
  BY <1>0, <1>1 DEF Taken, Held, Sends
<1>3. QueuedSends'
  BY <1>0, <1>1 DEF QueuedSends, Sends
<1>4. RankedAsSent'
  BY <1>0 DEF RankedAsSent, Before, Sends
<1>5. NoSendMissing'
  <2> SUFFICES ASSUME NEW i \in 1 .. sent, i \notin Taken'
               PROVE  \E x \in queue' : x.event = i
    BY <1>0 DEF NoSendMissing
  <2>1. PICK x \in queue : x.event = i
    BY <1>2 DEF NoSendMissing
  <2>2. i \in Sends
    BY BoundAssumption DEF TypeOK, Sends
  <2>3. x # e
    BY <1>2, <2>1, <2>2
  <2>. QED
    BY <1>0, <2>1, <2>3
<1>6. PutsBackOthers'
  BY <1>0, <1>1 DEF PutsBackOthers, QueuedSends, Sends, TypeOK, Entry
<1>7. SendsInOrder'
  <2> SUFFICES ASSUME NEW j \in Taken', NEW i \in 1 .. j - 1
               PROVE  i \in Taken'
    BY DEF SendsInOrder
  <2>1. CASE j \in Taken
    BY <1>2, <2>1 DEF SendsInOrder
  <2>2. CASE j = e.event /\ j \in Sends
    <3>1. i \in 1 .. sent /\ i \in Sends /\ i < j
      BY <2>2, BoundAssumption DEF QueuedSends, Sends, TypeOK
    <3>2. \A x \in queue : ~Before(x, e)
      BY DEF Pop, IsHead, Tame, TypeOK
    <3>3. ~\E x \in queue : x.event = i
      BY <2>2, <3>1, <3>2 DEF RankedAsSent
    <3>4. i \in Taken
      BY <3>1, <3>3 DEF NoSendMissing
    <3>. QED
      BY <1>2, <3>4
  <2>. QED
    BY <1>2, <2>1, <2>2
<1>. QED
  BY <1>3, <1>4, <1>5, <1>6, <1>7

(* A message triggered stays taken up, whether its trigger returns or      *)
(* raises.                                                                 *)
LEMMA TriggerStep ==
  ASSUME IInv, TypeOK', Tame, Tame', NEW l \in Loops, NEW e \in held[l], Trigger(l, e)
  PROVE  IInv'
<1> USE DEF IInv
<1>0. /\ held' = [held EXCEPT ![l] = {}]
      /\ ran' = ran \cup ({e.event} \cap Sends)
      /\ UNCHANGED <<queue, counter, clock, sent>>
      /\ pc' = [pc EXCEPT ![l] = "run"] \/ pc' = [pc EXCEPT ![l] = "push"]
  BY DEF Trigger, Caught, Goto, objectVars
<1>1. /\ held[l] = {e}
      /\ pc'[Worker] = pc[Worker]
      /\ \A k \in Loops : held'[k] = IF k = l THEN {} ELSE held[k]
      /\ \A k \in Loops : pc'[k] = "putback" => pc[k] = "putback" /\ k # l
  BY <1>0, NamesAssumption DEF TypeOK, Threads
<1>2. Taken' = Taken
  BY <1>0, <1>1 DEF Taken, Held, Sends
<1>3. QueuedSends'
  BY <1>0, <1>1 DEF QueuedSends, Sends
<1>4. RankedAsSent'
  BY <1>0 DEF RankedAsSent, Before, Sends
<1>5. NoSendMissing'
  BY <1>0, <1>2 DEF NoSendMissing
<1>6. PutsBackOthers'
  BY <1>0, <1>1 DEF PutsBackOthers, Sends
<1>7. SendsInOrder'
  BY <1>2 DEF SendsInOrder
<1>. QED
  BY <1>3, <1>4, <1>5, <1>6, <1>7

(* IInv is inductive: for any loops, started and stopped in any order, and *)
(* threads that read the counter before the other has incremented it.      *)
THEOREM Invariance == Spec => []IInv
<1>1. Init => IInv
  <2> SUFFICES ASSUME Init PROVE IInv
    OBVIOUS
  <2>1. TypeOK
    BY InitTypes
  <2>2. Taken = {}
    BY <2>1 DEF Init, Taken, Held, TypeOK
  <2>3. PutsBackOthers
    BY <2>1 DEF Init, PutsBackOthers, TypeOK
  <2>. QED
    BY <2>1, <2>2, <2>3 DEF Init, IInv, QueuedSends, RankedAsSent, NoSendMissing, SendsInOrder
<1>2. IInv /\ [Next]_vars => IInv'
  <2> SUFFICES ASSUME IInv, [Next]_vars PROVE IInv'
    OBVIOUS
  <2>0. TypeOK /\ TypeOK'
    BY TypeStep DEF IInv
  <2>a. CASE ~Tame'
    BY <2>0, <2>a, Untamed
  <2>b. CASE Tame'
    <3>0. Tame
      BY <2>0, <2>b DEF Next, ScheduleSend, BumpWorker, Start, Stop, LoopStep, Boot, Check, Push, Bump,
        ProcessEmpty, Look, Pop, PutBack, Trigger, Tick, SetBack, Clash, Tame, TypeOK, vars
    <3>1. CASE ScheduleSend
      BY <2>0, <2>b, <3>0, <3>1, ScheduleStep
    <3>2. CASE BumpWorker \/ Start \/ Stop \/ Tick \/ UNCHANGED vars
      <4>1. /\ UNCHANGED <<queue, held, ran, sent>>
            /\ clock' >= clock /\ counter' >= counter
        BY <2>0, <3>2 DEF BumpWorker, Start, Stop, Tick, vars, objectVars, loopVars, TypeOK
      <4>2. /\ pc'[Worker] = pc[Worker] \/ counter' > counter
            /\ \A l \in Loops : pc'[l] = "putback" => pc[l] = "putback"
        BY <2>0, <3>2, NamesAssumption
        DEF BumpWorker, Start, Stop, Tick, vars, TypeOK, Goto, Threads
      <4>. QED
        BY <2>0, <2>b, <3>0, <4>1, <4>2, Frame
    <3>3. ASSUME NEW l \in Loops, LoopStep(l)
          PROVE  IInv'
      <4>0. /\ l \in Threads /\ l # Worker
            /\ \A k \in Loops : k \in Threads /\ k # Worker
        BY NamesAssumption DEF Threads
      <4>1. CASE Boot(l) \/ Check(l) \/ Bump(l) \/ ProcessEmpty(l) \/ \E p \in visit[l] : Look(l, p)
        <5>1. /\ UNCHANGED <<queue, held, ran, sent>>
              /\ clock' >= clock /\ counter' >= counter
          BY <2>0, <4>1 DEF Boot, Check, Bump, ProcessEmpty, Look, objectVars, loopVars, TypeOK
        <5>2. /\ pc'[Worker] = pc[Worker]
              /\ \A k \in Loops : pc'[k] = "putback" => pc[k] = "putback"
          <6>1. \/ UNCHANGED pc
                \/ \E st \in {"check", "run", "dead", "push"} : pc' = [pc EXCEPT ![l] = st]
            BY <4>1 DEF Boot, Check, Bump, ProcessEmpty, Look, Goto
          <6>2. ASSUME NEW st \in {"check", "run", "dead", "push"}, pc' = [pc EXCEPT ![l] = st]
                PROVE  \A t \in Threads : pc'[t] = IF t = l THEN st ELSE pc[t]
            BY <2>0, <6>2 DEF TypeOK
          <6>. QED
            BY <4>0, <6>1, <6>2 DEF Threads
        <5>. QED
          BY <2>0, <2>b, <3>0, <5>1, <5>2, Frame
      <4>2. CASE Push(l)
        <5> DEFINE new == NewEntry(job[l], l)
        <5>1. /\ queue' = queue \cup {new}
              /\ UNCHANGED <<ran, sent, clock, counter, held>>
              /\ pc' = [pc EXCEPT ![l] = "bump"]
          BY <2>0, <2>b, <3>0, <4>2 DEF Push, Goto, loopVars, Tame, Clash, TypeOK
        <5>2. new.event \notin Sends
          BY <2>0, NewEntryFields, NamesAssumption DEF TypeOK, Sends
        <5>3. /\ pc'[Worker] = pc[Worker]
              /\ \A k \in Loops : pc'[k] = "putback" => pc[k] = "putback"
          BY <2>0, <4>0, <5>1 DEF TypeOK
        <5> HIDE DEF new
        <5>. QED
          BY <2>0, <2>b, <3>0, <5>1, <5>2, <5>3, OtherStep
      <4>3. ASSUME NEW e \in queue, Pop(l, e)
            PROVE  IInv'
        BY <2>0, <2>b, <3>0, <4>3, PopStep
      <4>4. ASSUME NEW e \in held[l], PutBack(l, e)
            PROVE  IInv'
        <5>1. /\ queue' = queue \cup {e}
              /\ UNCHANGED <<ran, sent, clock, counter>>
              /\ pc' = [pc EXCEPT ![l] = "check"]
              /\ held' = [held EXCEPT ![l] = {}]
          BY <2>0, <2>b, <3>0, <4>4 DEF PutBack, Goto, Tame, Clash, TypeOK
        <5>2. e.event \notin Sends
          BY <3>0, <4>4 DEF IInv, PutBack, PutsBackOthers
        <5>3. /\ pc'[Worker] = pc[Worker]
              /\ \A k \in Loops : pc'[k] = "putback" => pc[k] = "putback"
              /\ \A k \in Loops : held'[k] = held[k] \/ (held'[k] = {} /\ held[k] = {e})
          BY <2>0, <4>0, <5>1 DEF TypeOK
        <5>. QED
          BY <2>0, <2>b, <3>0, <5>1, <5>2, <5>3, OtherStep
      <4>5. ASSUME NEW e \in held[l], Trigger(l, e)
            PROVE  IInv'
        BY <2>0, <2>b, <3>0, <4>5, TriggerStep
      <4>. QED
        BY <3>3, <4>1, <4>2, <4>3, <4>4, <4>5 DEF LoopStep
    <3>4. CASE SetBack
      BY <2>0, <2>b, <3>4 DEF SetBack, Tame, TypeOK
    <3>. QED
      BY <3>1, <3>2, <3>3, <3>4 DEF Next
  <2>. QED
    BY <2>a, <2>b
<1>. QED
  BY <1>1, <1>2, PTL DEF Spec

(* Messages are taken up in the order they were scheduled, with any number *)
(* of loops.                                                               *)
THEOREM InOrder == Spec => []SendsInOrder
<1>1. IInv => SendsInOrder
  BY DEF IInv
<1>. QED
  BY <1>1, Invariance, PTL

(* No message is lost between the schedule and its trigger, through raised *)
(* exceptions and restarted loops.                                         *)
THEOREM NoneMissing == Spec => [](Tame => NoSendMissing)
<1>1. IInv => (Tame => NoSendMissing)
  BY DEF IInv
<1>. QED
  BY <1>1, Invariance, PTL

-----------------------------------------------------------------------------
(* The entries of a periodic event that wait.                              *)

(* Sets that hold one thing each: together they hold no more things than   *)
(* there are sets.                                                         *)
LEMMA OneEach ==
  ASSUME NEW S, NEW T, NEW h, IsFiniteSet(T),
         \A x \in S : \E t \in T : x \in h[t],
         \A t \in T : \A x, y \in h[t] : x = y
  PROVE  IsFiniteSet(S) /\ Cardinality(S) <= Cardinality(T)
<1> DEFINE U == {t \in T : \E x \in S : x \in h[t]}
           f == [t \in U |-> CHOOSE x \in S : x \in h[t]]
<1>1. IsFiniteSet(U) /\ Cardinality(U) <= Cardinality(T)
  BY FS_Subset
<1>2. \A t \in U : f[t] \in S /\ f[t] \in h[t]
  OBVIOUS
<1>3. \A x \in S : \E t \in U : f[t] = x
  <2> SUFFICES ASSUME NEW x \in S PROVE \E t \in U : f[t] = x
    OBVIOUS
  <2>1. PICK t \in T : x \in h[t]
    OBVIOUS
  <2>. QED
    BY <1>2, <2>1
<1>4. f \in Surjection(U, S)
  BY <1>2, <1>3 DEF Surjection
<1>5. IsFiniteSet(S) /\ Cardinality(S) <= Cardinality(U)
  BY <1>1, <1>4, FS_Surjection
<1>. QED
  BY <1>1, <1>5, FS_CardinalityType

LEMMA AtMostOneMore ==
  ASSUME NEW S, NEW x, IsFiniteSet(S)
  PROVE  /\ IsFiniteSet(S \cup {x})
         /\ Cardinality(S \cup {x}) <= Cardinality(S) + 1
<1>1. Cardinality(S) \in Nat
  BY FS_CardinalityType
<1>2. CASE x \in S
  BY <1>1, <1>2, FS_AddElement
<1>3. CASE x \notin S
  BY <1>1, <1>3, FS_AddElement
<1>. QED
  BY <1>2, <1>3

(* The rounds in progress are rounds of loops that were started.           *)
LEMMA RoundsStarted ==
  ASSUME IsFiniteSet(Started), NEW p
  PROVE  IsFiniteSet(Rounds(p)) /\ Rounds(p) \subseteq Started
<1>1. Rounds(p) \subseteq Started
  BY DEF Rounds, InRound, Started
<1>. QED
  BY <1>1, FS_Subset

LEMMA RoundsStartedNext ==
  ASSUME IsFiniteSet(Started'), NEW p
  PROVE  IsFiniteSet(Rounds(p)') /\ Rounds(p)' \subseteq Started'
<1>1. Rounds(p)' \subseteq Started'
  BY DEF Rounds, InRound, Started
<1>. QED
  BY <1>1, FS_Subset

(* The entries said to be left over need not wait: those that do suffice.  *)
LEMMA Narrow ==
  ASSUME NEW p, NEW old, IsFiniteSet(old), IsFiniteSet(Waiting(p)'),
         IsFiniteSet(Started'), raises' \in Nat, setBacks' \in Nat,
         Cardinality(old) <= raises' + Cardinality(Started') * setBacks',
         \A e \in queue' : e.event = p => (e \in old \/ e.key <= clock'),
         \A l \in Loops : \A e \in held'[l] :
           pc'[l] = "putback" /\ e.event = p => e \in old,
         Cardinality(Waiting(p)' \ old) <= Cardinality(Rounds(p)')
  PROVE  \E o \in SUBSET Waiting(p)' : LeftOver(p, o)'
<1>1. PICK w : w = Waiting(p)'
  OBVIOUS
<1>2. PICK o : o = old \cap w
  OBVIOUS
<1>3. PICK n : n = raises' + Cardinality(Started') * setBacks'
  OBVIOUS
<1>4. n \in Nat
  BY <1>3, FS_CardinalityType
<1>5. Cardinality(o) <= n
  <2>1. Cardinality(o) <= Cardinality(old) /\ IsFiniteSet(o)
    BY <1>2, FS_Subset
  <2>. QED
    BY <1>3, <1>4, <2>1, FS_CardinalityType
<1>6. \A e \in queue' : e.event = p => (e \in o \/ e.key <= clock')
  BY <1>1, <1>2 DEF Waiting
<1>7. \A l \in Loops : \A e \in held'[l] :
        pc'[l] = "putback" /\ e.event = p => e \in o
  BY <1>1, <1>2 DEF Waiting, Held
<1>8. Waiting(p)' \ o = Waiting(p)' \ old
  BY <1>1, <1>2
<1>9. Cardinality(Waiting(p)' \ o) <= Cardinality(Rounds(p)')
  BY <1>8
<1>10. LeftOver(p, o)'
  BY <1>3, <1>5, <1>6, <1>7, <1>9 DEF LeftOver
<1>. QED
  BY <1>1, <1>2, <1>10

(* A step that lets no new entry wait, ends no round, and puts back only   *)
(* what was not due.                                                       *)
LEMMA CountFrame ==
  ASSUME NEW p, TypeOK, TypeOK', Accounted(p), IsFiniteSet(Started),
         IsFiniteSet(Started'), Started \subseteq Started',
         raises' = raises, setBacks' = setBacks, clock' >= clock,
         Waiting(p)' \subseteq Waiting(p), Rounds(p) \subseteq Rounds(p)',
         \A e \in queue' : e.event = p =>
           (e \in queue \/ \E l \in Loops : pc[l] = "putback" /\ e \in held[l]),
         \A l \in Loops : \A e \in held'[l] : pc'[l] = "putback" /\ e.event = p =>
           \/ pc[l] = "putback" /\ e \in held[l]
           \/ e \in queue /\ e.key > clock
  PROVE  Accounted(p)'
<1>1. PICK o \in SUBSET Waiting(p) : LeftOver(p, o)
  BY DEF Accounted
<1>2. IsFiniteSet(Waiting(p)) /\ IsFiniteSet(Waiting(p)') /\ IsFiniteSet(o)
  BY FS_Subset DEF Accounted
<1>3. Cardinality(Started) <= Cardinality(Started')
  BY FS_Subset
<1>4. /\ Cardinality(Started) \in Nat /\ Cardinality(Started') \in Nat
      /\ Cardinality(o) \in Nat
  BY <1>2, FS_CardinalityType
<1>5. Cardinality(o) <= raises' + Cardinality(Started') * setBacks'
  <2>1. setBacks \in Nat /\ raises \in Nat
    BY DEF TypeOK
  <2>2. Cardinality(Started) * setBacks <= Cardinality(Started') * setBacks
    BY <1>3, <1>4, <2>1
  <2>. QED
    BY <1>1, <1>4, <2>1, <2>2 DEF LeftOver
<1>6. \A e \in queue' : e.event = p => (e \in o \/ e.key <= clock')
  <2> SUFFICES ASSUME NEW e \in queue', e.event = p PROVE e \in o \/ e.key <= clock'
    OBVIOUS
  <2>1. e.key \in Nat /\ clock \in Nat /\ clock' \in Nat
    BY DEF TypeOK, Entry
  <2>2. CASE e \in queue
    BY <1>1, <2>1, <2>2 DEF LeftOver
  <2>3. CASE \E l \in Loops : pc[l] = "putback" /\ e \in held[l]
    BY <1>1, <2>3 DEF LeftOver
  <2>. QED
    BY <2>2, <2>3
<1>7. \A l \in Loops : \A e \in held'[l] :
        pc'[l] = "putback" /\ e.event = p => e \in o
  <2> SUFFICES ASSUME NEW l \in Loops, NEW e \in held'[l], pc'[l] = "putback", e.event = p
               PROVE  e \in o
    OBVIOUS
  <2>1. CASE pc[l] = "putback" /\ e \in held[l]
    BY <1>1, <2>1 DEF LeftOver
  <2>2. CASE e \in queue /\ e.key > clock
    <3>1. e.key \in Nat /\ clock \in Nat
      BY <2>2 DEF TypeOK, Entry
    <3>. QED
      BY <1>1, <2>2, <3>1 DEF LeftOver
  <2>. QED
    BY <2>1, <2>2
<1>8. Cardinality(Waiting(p)' \ o) <= Cardinality(Rounds(p)')
  <2>1. /\ IsFiniteSet(Waiting(p) \ o)
        /\ Cardinality(Waiting(p)' \ o) <= Cardinality(Waiting(p) \ o)
    <3>1. IsFiniteSet(Waiting(p) \ o)
      BY <1>2, FS_Subset
    <3>. QED
      BY <3>1, FS_Subset
  <2>2. /\ IsFiniteSet(Rounds(p)) /\ IsFiniteSet(Rounds(p)')
        /\ Cardinality(Rounds(p)) <= Cardinality(Rounds(p)')
    BY RoundsStarted, RoundsStartedNext, FS_Subset
  <2>3. IsFiniteSet(Waiting(p)' \ o)
    BY <1>2, FS_Subset
  <2>4. Cardinality(Waiting(p) \ o) <= Cardinality(Rounds(p))
    BY <1>1 DEF LeftOver
  <2>. QED
    BY <2>1, <2>2, <2>3, <2>4, FS_CardinalityType
<1>9. \E x \in SUBSET Waiting(p)' : LeftOver(p, x)'
  BY <1>2, <1>5, <1>6, <1>7, <1>8, Narrow DEF TypeOK
<1>. QED
  BY <1>2, <1>9 DEF Accounted

(* A loop that pushes an entry of p begins to account for it.              *)
LEMMA CountPush ==
  ASSUME NEW p, NEW l \in Loops, NEW e, TypeOK, TypeOK', Accounted(p),
         IsFiniteSet(Started), Started' = Started,
         raises' = raises, setBacks' = setBacks, clock' = clock,
         queue' = queue \cup {e}, e.key = clock, held' = held,
         l \notin Rounds(p), Rounds(p)' = Rounds(p) \cup {l},
         \A k \in Loops : pc'[k] = "putback" => pc[k] = "putback"
  PROVE  Accounted(p)'
<1>1. PICK o \in SUBSET Waiting(p) : LeftOver(p, o)
  BY DEF Accounted
<1>2. Waiting(p)' \subseteq Waiting(p) \cup {e}
  BY DEF Waiting, Held
<1>3. IsFiniteSet(Waiting(p)) /\ IsFiniteSet(Waiting(p)') /\ IsFiniteSet(o)
  <2>1. IsFiniteSet(Waiting(p)) /\ IsFiniteSet(Waiting(p) \cup {e})
    BY FS_AddElement DEF Accounted
  <2>. QED
    BY <1>2, <2>1, FS_Subset
<1>4. Cardinality(o) <= raises' + Cardinality(Started') * setBacks'
  BY <1>1 DEF LeftOver
<1>5. \A x \in queue' : x.event = p => (x \in o \/ x.key <= clock')
  BY <1>1 DEF LeftOver, TypeOK
<1>6. \A k \in Loops : \A x \in held'[k] :
        pc'[k] = "putback" /\ x.event = p => x \in o
  BY <1>1 DEF LeftOver
<1>7. Cardinality(Waiting(p)' \ o) <= Cardinality(Rounds(p)')
  <2>1. /\ IsFiniteSet(Waiting(p) \ o)
        /\ IsFiniteSet((Waiting(p) \ o) \cup {e})
        /\ Cardinality((Waiting(p) \ o) \cup {e}) <= Cardinality(Waiting(p) \ o) + 1
    <3>1. IsFiniteSet(Waiting(p) \ o)
      BY <1>3, FS_Subset
    <3>. QED
      BY <3>1, AtMostOneMore
  <2>2. /\ IsFiniteSet(Waiting(p)' \ o)
        /\ Cardinality(Waiting(p)' \ o) <= Cardinality((Waiting(p) \ o) \cup {e})
    <3>1. Waiting(p)' \ o \subseteq (Waiting(p) \ o) \cup {e}
      BY <1>2
    <3>. QED
      BY <2>1, <3>1, FS_Subset
  <2>3. /\ IsFiniteSet(Rounds(p))
        /\ Cardinality(Rounds(p)') = Cardinality(Rounds(p)) + 1
    BY RoundsStarted, FS_AddElement
  <2>4. Cardinality(Waiting(p) \ o) <= Cardinality(Rounds(p))
    BY <1>1 DEF LeftOver
  <2>. QED
    BY <2>1, <2>2, <2>3, <2>4, FS_CardinalityType
<1>8. \E x \in SUBSET Waiting(p)' : LeftOver(p, x)'
  BY <1>3, <1>4, <1>5, <1>6, <1>7, Narrow DEF TypeOK
<1>. QED
  BY <1>3, <1>8 DEF Accounted

(* A loop ends its round when no entry is due: those of p that are not     *)
(* left over are the ones other loops are about to trigger.                *)
LEMMA CountEnd ==
  ASSUME NEW p, NEW l \in Loops, TypeOK, TypeOK', Accounted(p), VisitsFit,
         IsFiniteSet(Started), Started' = Started,
         raises' = raises, setBacks' = setBacks, clock' = clock, visit' = visit,
         \A e \in queue : e.event = p => e.key > clock,
         Waiting(p)' \subseteq Waiting(p), queue' \subseteq queue,
         \A k \in Loops : k # l => pc'[k] = pc[k] /\ held'[k] = held[k],
         pc[l] = "run", \A e \in held'[l] : e \in queue
  PROVE  Accounted(p)'
<1>1. PICK o \in SUBSET Waiting(p) : LeftOver(p, o)
  BY DEF Accounted
<1>2. IsFiniteSet(Waiting(p)) /\ IsFiniteSet(Waiting(p)') /\ IsFiniteSet(o)
  BY FS_Subset DEF Accounted
<1>3. Cardinality(o) <= raises' + Cardinality(Started') * setBacks'
  BY <1>1 DEF LeftOver
<1>4. \A e \in queue : e.event = p => e \in o
  <2> SUFFICES ASSUME NEW e \in queue, e.event = p PROVE e \in o
    OBVIOUS
  <2>1. e.key \in Nat /\ clock \in Nat
    BY DEF TypeOK, Entry
  <2>. QED
    BY <1>1, <2>1 DEF LeftOver
<1>5. \A e \in queue' : e.event = p => (e \in o \/ e.key <= clock')
  BY <1>4
<1>6. \A k \in Loops : \A x \in held'[k] :
        pc'[k] = "putback" /\ x.event = p => x \in o
  BY <1>1, <1>4 DEF LeftOver
<1>7. Cardinality(Waiting(p)' \ o) <= Cardinality(Rounds(p)')
  <2> DEFINE T == {k \in Loops : k # l /\ pc[k] = "trigger"}
  <2>1. T \subseteq Rounds(p)'
    BY DEF Rounds, InRound, VisitsFit
  <2>2. IsFiniteSet(T) /\ Cardinality(T) <= Cardinality(Rounds(p)')
    BY <2>1, RoundsStartedNext, FS_Subset
  <2>3. \A e \in Waiting(p)' \ o : \E k \in T : e \in held[k]
    <3> SUFFICES ASSUME NEW e \in Waiting(p), e \notin o
                 PROVE  \E k \in T : e \in held[k]
      OBVIOUS
    <3>1. PICK k \in Loops : e \in held[k]
      BY <1>4 DEF Waiting, Held
    <3>2. e.event = p
      BY DEF Waiting
    <3>3. pc[k] = "trigger"
      BY <1>1, <3>1, <3>2 DEF LeftOver, TypeOK
    <3>. QED
      BY <3>1, <3>3
  <2>4. \A k \in T : \A x, y \in held[k] : x = y
    BY DEF TypeOK
  <2> HIDE DEF T
  <2>5. PICK w : w = Waiting(p)' \ o
    OBVIOUS
  <2>6. IsFiniteSet(w) /\ Cardinality(w) <= Cardinality(T)
    BY <2>2, <2>3, <2>4, <2>5, OneEach
  <2>7. IsFiniteSet(Rounds(p)')
    BY RoundsStartedNext
  <2>. QED
    BY <2>2, <2>5, <2>6, <2>7, FS_CardinalityType
<1>8. \E x \in SUBSET Waiting(p)' : LeftOver(p, x)'
  BY <1>2, <1>3, <1>5, <1>6, <1>7, Narrow DEF TypeOK
<1>. QED
  BY <1>2, <1>8 DEF Accounted

(* An exception ends the round of a loop: what the loop accounted for is   *)
(* left over.                                                              *)
LEMMA CountRaise ==
  ASSUME NEW p, NEW l \in Loops, TypeOK, TypeOK', Accounted(p),
         IsFiniteSet(Started), Started' = Started,
         raises' = raises + 1, setBacks' = setBacks, clock' = clock,
         Waiting(p)' \subseteq Waiting(p), queue' \subseteq queue,
         \A k \in Loops : \A e \in held'[k] :
           pc'[k] = "putback" => pc[k] = "putback" /\ e \in held[k],
         Rounds(p) \subseteq Rounds(p)' \cup {l}
  PROVE  Accounted(p)'
<1>1. PICK o \in SUBSET Waiting(p) : LeftOver(p, o)
  BY DEF Accounted
<1>2. IsFiniteSet(Waiting(p)) /\ IsFiniteSet(Waiting(p)') /\ IsFiniteSet(o)
  BY FS_Subset DEF Accounted
<1>3. PICK v : v = Waiting(p)' \ o
  OBVIOUS
<1>4. IsFiniteSet(v) /\ Cardinality(v) <= Cardinality(Waiting(p) \ o)
  <2>1. IsFiniteSet(Waiting(p) \ o)
    BY <1>2, FS_Subset
  <2>. QED
    BY <1>3, <2>1, FS_Subset
<1>5. PICK x : v # {} => x \in v
  OBVIOUS
<1>6. PICK q : q = o \cup {x}
  OBVIOUS
<1>7. IsFiniteSet(q) /\ Cardinality(q) <= Cardinality(o) + 1
  BY <1>2, <1>6, AtMostOneMore
<1>8. Cardinality(q) <= raises' + Cardinality(Started') * setBacks'
  <2>1. PICK m : m = Cardinality(Started) * setBacks
    OBVIOUS
  <2>2. m \in Nat /\ raises \in Nat
    BY <2>1, FS_CardinalityType DEF TypeOK
  <2>3. Cardinality(o) <= raises + m
    BY <1>1, <2>1 DEF LeftOver
  <2>4. Cardinality(Started') * setBacks' = m
    BY <2>1
  <2>. QED
    BY <1>2, <1>7, <2>2, <2>3, <2>4, FS_CardinalityType
<1>9. \A e \in queue' : e.event = p => (e \in q \/ e.key <= clock')
  BY <1>1, <1>6 DEF LeftOver
<1>10. \A k \in Loops : \A e \in held'[k] :
         pc'[k] = "putback" /\ e.event = p => e \in q
  BY <1>1, <1>6 DEF LeftOver
<1>11. Cardinality(Waiting(p)' \ q) <= Cardinality(Rounds(p)')
  <2>1. Waiting(p)' \ q = v \ {x}
    BY <1>3, <1>6
  <2>2. /\ IsFiniteSet(Rounds(p)) /\ IsFiniteSet(Rounds(p)')
        /\ Cardinality(Rounds(p)) <= Cardinality(Rounds(p)') + 1
    <3>1. IsFiniteSet(Rounds(p)) /\ IsFiniteSet(Rounds(p)')
      BY RoundsStarted, RoundsStartedNext
    <3>2. /\ IsFiniteSet(Rounds(p)' \cup {l})
          /\ Cardinality(Rounds(p)' \cup {l}) <= Cardinality(Rounds(p)') + 1
      BY <3>1, AtMostOneMore
    <3>3. Cardinality(Rounds(p)) <= Cardinality(Rounds(p)' \cup {l})
      BY <3>2, FS_Subset
    <3>. QED
      BY <3>1, <3>2, <3>3, FS_CardinalityType
  <2>3. Cardinality(Waiting(p) \ o) <= Cardinality(Rounds(p))
    BY <1>1 DEF LeftOver
  <2>4. IsFiniteSet(Waiting(p) \ o)
    BY <1>2, FS_Subset
  <2>5. /\ Cardinality(Rounds(p)) \in Nat /\ Cardinality(Rounds(p)') \in Nat
        /\ Cardinality(Waiting(p) \ o) \in Nat /\ Cardinality(v) \in Nat
    BY <1>4, <2>2, <2>4, FS_CardinalityType
  <2>6. Cardinality(v \ {x}) <= Cardinality(Rounds(p)')
    <3>1. CASE v = {}
      <4>1. v \ {x} = {}
        BY <3>1
      <4>2. Cardinality({}) = 0
        BY FS_EmptySet
      <4>3. Cardinality(v \ {x}) = 0
        BY <4>1, <4>2
      <4>. QED
        BY <2>5, <4>3
    <3>2. CASE v # {}
      <4>1. Cardinality(v \ {x}) = Cardinality(v) - 1
        BY <1>4, <1>5, <3>2, FS_RemoveElement
      <4>. QED
        BY <1>4, <2>2, <2>3, <2>5, <4>1
    <3>. QED
      BY <3>1, <3>2
  <2>. QED
    BY <2>1, <2>6
<1>12. \E y \in SUBSET Waiting(p)' : LeftOver(p, y)'
  BY <1>2, <1>7, <1>8, <1>9, <1>10, <1>11, Narrow DEF TypeOK
<1>. QED
  BY <1>2, <1>12 DEF Accounted

(* When the clock is set back, everything that waits is left over: the     *)
(* rounds in progress may end before it is due again.                      *)
LEMMA CountSetBack ==
  ASSUME NEW p, TypeOK, TypeOK', Accounted(p), IsFiniteSet(Started), SetBack
  PROVE  Accounted(p)'
<1>0. /\ UNCHANGED <<queue, held, pc, visit, job, raises>>
      /\ setBacks' = setBacks + 1
  BY DEF SetBack, objectVars, loopVars
<1>1. PICK o \in SUBSET Waiting(p) : LeftOver(p, o)
  BY DEF Accounted
<1>2. PICK w : w = Waiting(p)
  OBVIOUS
<1>3. Waiting(p)' = w /\ Started' = Started /\ Rounds(p)' = Rounds(p)
  BY <1>0, <1>2 DEF Waiting, Held, Started, Rounds, InRound
<1>4. IsFiniteSet(w) /\ IsFiniteSet(o) /\ IsFiniteSet(w \ o)
  BY <1>2, FS_Subset DEF Accounted
<1>5. Cardinality(w) <= Cardinality(o) + Cardinality(w \ o)
  <2>1. w \cap o = o
    BY <1>2
  <2>2. Cardinality(w \ o) = Cardinality(w) - Cardinality(o)
    BY <1>4, <2>1, FS_Difference
  <2>. QED
    BY <1>4, <2>2, FS_CardinalityType
<1>6. Cardinality(w \ o) <= Cardinality(Started)
  <2>1. Cardinality(w \ o) <= Cardinality(Rounds(p))
    BY <1>1, <1>2 DEF LeftOver
  <2>2. /\ IsFiniteSet(Rounds(p))
        /\ Cardinality(Rounds(p)) <= Cardinality(Started)
    BY RoundsStarted, FS_Subset
  <2>. QED
    BY <1>4, <2>1, <2>2, FS_CardinalityType
<1>7. Cardinality(w) <= raises' + Cardinality(Started') * setBacks'
  <2>1. PICK c, m, s : c = Cardinality(Started) /\ s = setBacks /\ m = c * s
    OBVIOUS
  <2>2. c \in Nat /\ s \in Nat /\ m \in Nat /\ raises \in Nat
    <3>1. c \in Nat /\ s \in Nat /\ raises \in Nat
      BY <2>1, FS_CardinalityType DEF TypeOK
    <3>. QED
      BY <2>1, <3>1
  <2>3. Cardinality(Started') * setBacks' = m + c
    <3>1. Cardinality(Started') * setBacks' = c * (s + 1)
      BY <1>0, <1>3, <2>1
    <3>2. c * (s + 1) = c * s + c
      BY <2>2
    <3>. QED
      BY <2>1, <3>1, <3>2
  <2>4. Cardinality(o) <= raises + m
    BY <1>1, <2>1 DEF LeftOver
  <2>5. Cardinality(w) \in Nat /\ Cardinality(o) \in Nat /\ Cardinality(w \ o) \in Nat
    BY <1>4, FS_CardinalityType
  <2>6. Cardinality(w) <= (raises + m) + c
    BY <1>5, <1>6, <2>1, <2>2, <2>4, <2>5
  <2>. QED
    BY <1>0, <2>2, <2>3, <2>5, <2>6
<1>8. \A e \in queue' : e.event = p => (e \in w \/ e.key <= clock')
  BY <1>0, <1>2 DEF Waiting
<1>9. \A k \in Loops : \A e \in held'[k] :
        pc'[k] = "putback" /\ e.event = p => e \in w
  BY <1>0, <1>2 DEF Waiting, Held
<1>10. Cardinality(Waiting(p)' \ w) <= Cardinality(Rounds(p)')
  <2>1. Waiting(p)' \ w = {}
    BY <1>3
  <2>2. Cardinality(Rounds(p)') \in Nat
    BY <1>3, RoundsStarted, FS_CardinalityType
  <2>. QED
    BY <2>1, <2>2, FS_EmptySet
<1>11. IsFiniteSet(Waiting(p)') /\ IsFiniteSet(Started')
  BY <1>3, <1>4
<1>12. \E y \in SUBSET Waiting(p)' : LeftOver(p, y)'
  BY <1>4, <1>7, <1>8, <1>9, <1>10, <1>11, Narrow DEF TypeOK
<1>. QED
  BY <1>11, <1>12 DEF Accounted

(* Only the worker starts a loop, and none is forgotten.                   *)
LEMMA StartedStep ==
  ASSUME TypeOK, IsFiniteSet(Started), [Next]_vars
  PROVE  /\ IsFiniteSet(Started') /\ Started \subseteq Started'
         /\ (\E l \in Loops : LoopStep(l)) => Started' = Started
<1>1. \A l \in Loops : l \in Threads /\ l # Worker
  BY NamesAssumption DEF Threads
<1>2. ASSUME Start
      PROVE  IsFiniteSet(Started') /\ Started \subseteq Started'
  <2>1. PICK l \in Loops : pc' = [pc EXCEPT ![l] = "boot"]
    BY <1>2 DEF Start, Goto
  <2>2. Started' = Started \cup {l}
    BY <1>1, <2>1 DEF Started, TypeOK
  <2>. QED
    BY <2>2, FS_AddElement
<1>3. ASSUME NEW l \in Loops, LoopStep(l)
      PROVE  Started' = Started
  <2>1. \E s \in LoopStates \ {"none"} : Goto(l, s) \/ UNCHANGED pc
    BY <1>3 DEF LoopStep, LoopStates, Boot, Check, Push, Bump, ProcessEmpty, Look, Pop,
                PutBack, Trigger, Caught
  <2>2. pc[l] # "none"
    BY <1>3 DEF LoopStep, Boot, Check, Push, Bump, ProcessEmpty, Processing, Look, Pop,
                PutBack, Trigger
  <2>3. \A k \in Loops : pc'[k] # "none" <=> pc[k] # "none"
    BY <1>1, <2>1, <2>2 DEF Goto, TypeOK
  <2>. QED
    BY <2>3 DEF Started
<1>4. CASE ScheduleSend \/ BumpWorker \/ Stop \/ Tick \/ SetBack \/ UNCHANGED vars
  <2>1. \A k \in Loops : pc'[k] = pc[k]
    BY <1>1, <1>4 DEF ScheduleSend, BumpWorker, Stop, Tick, SetBack, vars, Goto, TypeOK
  <2>. QED
    BY <1>3, <2>1 DEF Started
<1>. QED
  BY <1>2, <1>3, <1>4 DEF Next

(* What a loop is doing goes on agreeing with the events it has to visit.  *)
LEMMA VisitsStep ==
  ASSUME TypeOK, VisitsFit, [Next]_vars
  PROVE  VisitsFit'
<1> USE NamesAssumption DEF VisitsFit, TypeOK
<1>1. \A l \in Loops : l \in Threads /\ l # Worker
  BY DEF Threads
<1>2. CASE ScheduleSend \/ BumpWorker \/ Stop \/ Tick \/ SetBack \/ UNCHANGED vars
  BY <1>1, <1>2 DEF ScheduleSend, BumpWorker, Stop, Tick, SetBack, vars, objectVars,
                    loopVars, Goto
<1>3. CASE Start
  BY <1>1, <1>3 DEF Start, Goto, loopVars
<1>4. ASSUME NEW l \in Loops, LoopStep(l)
      PROVE  VisitsFit'
  <2>1. \A k \in Loops : k # l => pc'[k] = pc[k] /\ visit'[k] = visit[k] /\ job'[k] = job[k]
    BY <1>1, <1>4 DEF LoopStep, Boot, Check, Push, Bump, ProcessEmpty, Look, Pop, PutBack,
                      Trigger, Caught, Goto, loopVars
  <2>2. CASE Caught(l)
    BY <1>1, <2>1, <2>2 DEF Caught, Goto
  <2>3. CASE Boot(l) \/ Check(l) \/ Push(l) \/ Bump(l) \/ ProcessEmpty(l)
    BY <1>1, <2>1, <2>2, <2>3 DEF Boot, Check, Push, Bump, ProcessEmpty, Goto
  <2>4. CASE \E p \in visit[l] : Look(l, p)
    BY <1>1, <2>1, <2>4 DEF Look, Goto
  <2>5. CASE \E e \in queue : Pop(l, e)
    BY <1>1, <2>1, <2>2, <2>5 DEF Pop, Processing, Goto
  <2>6. CASE \E e \in held[l] : PutBack(l, e) \/ Trigger(l, e)
    BY <1>1, <2>1, <2>2, <2>6 DEF PutBack, Trigger, Goto
  <2>. QED
    BY <1>4, <2>3, <2>4, <2>5, <2>6 DEF LoopStep
<1>. QED
  BY <1>2, <1>3, <1>4 DEF Next

(* The round of a loop that does not move goes on as it was.               *)
LEMMA RoundsFrame ==
  ASSUME NEW p, NEW l \in Loops,
         \A k \in Loops : k # l => InRound(k, p)' = InRound(k, p),
         InRound(l, p) => InRound(l, p)'
  PROVE  Rounds(p) \subseteq Rounds(p)'
BY DEF Rounds

(* A loop moves alone.                                                     *)
LEMMA LoopFrame ==
  ASSUME TypeOK, NEW l \in Loops, LoopStep(l)
  PROVE  \A k \in Loops : k # l => /\ pc'[k] = pc[k] /\ visit'[k] = visit[k]
                                   /\ job'[k] = job[k] /\ held'[k] = held[k]
<1> USE DEF TypeOK
<1>0. l \in Threads /\ l # Worker /\ Loops \subseteq Threads
  BY NamesAssumption DEF Threads
<1>1. CASE Boot(l) \/ Check(l) \/ Bump(l) \/ ProcessEmpty(l)
  BY <1>0, <1>1 DEF Boot, Check, Bump, ProcessEmpty, Goto, objectVars, loopVars
<1>2. CASE Push(l)
  BY <1>0, <1>2 DEF Push, Caught, Goto, loopVars
<1>3. CASE \E q \in visit[l] : Look(l, q)
  BY <1>0, <1>3 DEF Look, Goto
<1>4. CASE \E e \in queue : Pop(l, e)
  BY <1>0, <1>4 DEF Pop, Caught, Goto
<1>5. CASE \E e \in held[l] : PutBack(l, e)
  BY <1>0, <1>5 DEF PutBack, Caught, Goto
<1>6. CASE \E e \in held[l] : Trigger(l, e)
  BY <1>0, <1>6 DEF Trigger, Caught, Goto
<1>. QED
  BY <1>1, <1>2, <1>3, <1>4, <1>5, <1>6 DEF LoopStep

(* Every step of a loop leaves the entries of p accounted for.             *)
LEMMA CountLoop ==
  ASSUME NEW p \in Periodic, NEW l \in Loops, LoopStep(l), TypeOK, TypeOK', VisitsFit,
         Accounted(p), IsFiniteSet(Started), Started' = Started,
         clashes = 0, clashes' = 0
  PROVE  Accounted(p)'
<1> USE DEF TypeOK
<1>a. l \in Threads /\ l # Worker /\ p # ErrorEvent
  BY NamesAssumption DEF Threads
<1>b. \A k \in Loops : k # l => /\ pc'[k] = pc[k] /\ visit'[k] = visit[k]
                                /\ job'[k] = job[k] /\ held'[k] = held[k]
  BY LoopFrame
<1>c. \A k \in Loops : k # l => InRound(k, p)' = InRound(k, p)
  BY <1>b, Zenon DEF InRound
<1>d. clock' = clock /\ setBacks' = setBacks /\ clock' >= clock
  BY DEF LoopStep, Boot, Check, Push, Bump, ProcessEmpty, Look, Pop, PutBack, Trigger
<1>e. ~Clash
  BY DEF Clash
<1>f. l \in Loops /\ l \in DOMAIN pc
  BY <1>a
<1>1. CASE Boot(l) \/ Check(l) \/ Bump(l) \/ \E q \in visit[l] : Look(l, q)
  <2>1. queue' = queue /\ held' = held /\ raises' = raises
    BY <1>1 DEF Boot, Check, Bump, Look, objectVars, loopVars
  <2>2. Waiting(p)' = Waiting(p)
    BY <2>1 DEF Waiting, Held
  <2>3. InRound(l, p) => InRound(l, p)'
    <3>1. CASE Boot(l) \/ Check(l)
      BY <3>1 DEF Boot, Check, InRound
    <3>2. CASE Bump(l)
      BY <1>a, <3>2 DEF Bump, InRound, Goto
    <3>3. ASSUME NEW q \in visit[l], Look(l, q), InRound(l, p)
          PROVE  InRound(l, p)'
      <4>1. q \in Periodic /\ q # ErrorEvent /\ p \notin visit[l] /\ q # p
        BY <3>3, NamesAssumption DEF InRound
      <4>2. /\ p \notin visit'[l] /\ pc[l] = "run"
            /\ \/ pc'[l] = "push" /\ job'[l] = q
               \/ pc' = pc
        BY <1>a, <3>3, <4>1 DEF Look, Goto
      <4>. QED
        BY <4>1, <4>2 DEF InRound
    <3>. QED
      BY <1>1, <3>1, <3>2, <3>3
  <2>4. \A k \in Loops : pc'[k] = "putback" => pc[k] = "putback"
    BY <1>1, <1>a, <1>b DEF Boot, Check, Bump, Look, Goto
  <2>5. Rounds(p) \subseteq Rounds(p)'
    BY <1>c, <2>3, RoundsFrame
  <2>. QED
    BY <1>d, <2>1, <2>2, <2>4, <2>5, CountFrame
<1>2. CASE Push(l)
  <2>1. /\ queue' = queue \cup {NewEntry(job[l], l)}
        /\ pc[l] = "push" /\ pc' = [pc EXCEPT ![l] = "bump"]
        /\ UNCHANGED <<loopVars, raises>>
    BY <1>2, <1>e DEF Push, Goto
  <2>2. /\ visit' = visit /\ job' = job /\ held' = held
        /\ pc'[l] = "bump"
        /\ \A k \in Loops : pc'[k] = "putback" => pc[k] = "putback"
    BY <1>a, <1>b, <2>1 DEF loopVars
  <2>3. CASE job[l] = p
    <3>1. l \notin Rounds(p)
      BY <2>1, <2>3 DEF Rounds, InRound
    <3>2. InRound(l, p)'
      BY <1>a, <2>1, <2>2, <2>3 DEF InRound, VisitsFit
    <3>3. Rounds(p)' = Rounds(p) \cup {l}
      BY <1>c, <3>2 DEF Rounds
    <3>4. NewEntry(job[l], l).key = clock
      BY NewEntryFields
    <3>. QED
      BY <1>d, <2>1, <2>2, <3>1, <3>3, <3>4, CountPush
  <2>4. CASE job[l] # p
    <3>1. NewEntry(job[l], l).event # p
      BY <2>4, NewEntryFields
    <3>2. /\ Waiting(p)' \subseteq Waiting(p)
          /\ \A e \in queue' : e.event = p => e \in queue
      BY <2>1, <2>2, <3>1 DEF Waiting, Held
    <3>3. InRound(l, p) => InRound(l, p)'
      BY <2>1, <2>2 DEF InRound
    <3>4. Rounds(p) \subseteq Rounds(p)'
      BY <1>c, <3>3, RoundsFrame
    <3>. QED
      BY <1>d, <2>1, <2>2, <3>2, <3>4, CountFrame
  <2>. QED
    BY <2>3, <2>4
<1>3. CASE ProcessEmpty(l)
  <2>1. /\ queue = {} /\ queue' = {} /\ pc[l] = "run" /\ pc' = [pc EXCEPT ![l] = "check"]
        /\ UNCHANGED <<visit, held, raises>>
    BY <1>3 DEF ProcessEmpty, Processing, Goto, objectVars, loopVars
  <2>2. Waiting(p)' = Waiting(p) /\ \A e \in held'[l] : e \in queue
    BY <2>1 DEF Waiting, Held
  <2>. QED
    BY <1>b, <1>d, <2>1, <2>2, CountEnd
<1>4. ASSUME NEW e \in queue, Pop(l, e)
      PROVE  Accounted(p)'
  <2>1. /\ queue' = queue \ {e}
        /\ held' = [held EXCEPT ![l] = {e}]
        /\ pc[l] = "run" /\ visit[l] = {} /\ UNCHANGED <<visit, job, raises>>
        /\ pc' = [pc EXCEPT ![l] = IF e.key <= clock THEN "trigger" ELSE "putback"]
        /\ \A x \in queue : ~Before(x, e)
    BY <1>4, <1>e DEF Pop, Processing, Goto, IsHead
  <2>2. /\ held'[l] = {e} /\ held[l] = {}
        /\ pc'[l] = IF e.key <= clock THEN "trigger" ELSE "putback"
    BY <1>a, <2>1
  <2>3. Waiting(p)' \subseteq Waiting(p)
    <3>1. Held' \subseteq Held \cup {e}
      BY <1>b, <2>2 DEF Held
    <3>. QED
      BY <2>1, <3>1 DEF Waiting
  <2>4. CASE e.key <= clock
    <3>1. InRound(l, p)'
      BY <2>1, <2>2, <2>4 DEF InRound
    <3>2. Rounds(p) \subseteq Rounds(p)'
      BY <1>c, <3>1, RoundsFrame
    <3>3. \A k \in Loops : pc'[k] = "putback" => pc[k] = "putback" /\ k # l
      BY <1>b, <2>2, <2>4
    <3>. QED
      BY <1>b, <1>d, <2>1, <2>3, <3>2, <3>3, CountFrame
  <2>5. CASE ~(e.key <= clock)
    <3>1. \A x \in queue : x.key > clock
      <4> SUFFICES ASSUME NEW x \in queue PROVE x.key > clock
        OBVIOUS
      <4>1. x.key \in Nat /\ e.key \in Nat /\ clock \in Nat
        BY DEF Entry
      <4>2. ~(x.key < e.key)
        BY <2>1 DEF Before
      <4>. QED
        BY <2>5, <4>1, <4>2
    <3>2. queue' \subseteq queue /\ \A x \in held'[l] : x \in queue
      BY <2>1, <2>2
    <3>. QED
      BY <1>b, <1>d, <2>1, <2>3, <3>1, <3>2, CountEnd
  <2>. QED
    BY <2>4, <2>5
<1>5. ASSUME NEW e \in held[l], PutBack(l, e)
      PROVE  Accounted(p)'
  <2>1. /\ queue' = queue \cup {e} /\ held' = [held EXCEPT ![l] = {}]
        /\ pc[l] = "putback" /\ pc' = [pc EXCEPT ![l] = "check"]
        /\ UNCHANGED <<visit, job, raises>>
    BY <1>5, <1>e DEF PutBack, Goto
  <2>2. Waiting(p)' \subseteq Waiting(p)
    <3>1. Held' \subseteq Held /\ e \in Held
      BY <1>b, <2>1 DEF Held
    <3>. QED
      BY <2>1, <3>1 DEF Waiting
  <2>3. ~InRound(l, p)
    BY <2>1 DEF InRound
  <2>4. Rounds(p) \subseteq Rounds(p)'
    BY <1>c, <2>3, RoundsFrame
  <2>5. \A k \in Loops : pc'[k] = "putback" => pc[k] = "putback" /\ k # l
    BY <1>a, <1>b, <2>1
  <2>. QED
    BY <1>b, <1>d, <2>1, <2>2, <2>4, <2>5, CountFrame
<1>6. ASSUME NEW e \in held[l], Trigger(l, e)
      PROVE  Accounted(p)'
  <2>1. /\ queue' = queue /\ held' = [held EXCEPT ![l] = {}]
        /\ pc[l] = "trigger"
    BY <1>6 DEF Trigger, Caught, objectVars
  <2>2. Waiting(p)' \subseteq Waiting(p)
    <3>1. Held' \subseteq Held
      BY <1>b, <2>1 DEF Held
    <3>. QED
      BY <2>1, <3>1 DEF Waiting
  <2>3. CASE pc' = [pc EXCEPT ![l] = "run"] /\ UNCHANGED <<visit, job, raises>>
    <3>1. InRound(l, p)'
      BY <1>a, <2>1, <2>3 DEF InRound, VisitsFit
    <3>2. Rounds(p) \subseteq Rounds(p)'
      BY <1>c, <3>1, RoundsFrame
    <3>3. \A k \in Loops : pc'[k] = "putback" => pc[k] = "putback" /\ k # l
      BY <1>a, <1>b, <2>3
    <3>. QED
      BY <1>b, <1>d, <2>1, <2>2, <2>3, <3>2, <3>3, CountFrame
  <2>4. CASE raises' = raises + 1 /\ pc' = [pc EXCEPT ![l] = "push"]
    <3>1. Rounds(p) \subseteq Rounds(p)' \cup {l}
      BY <1>c DEF Rounds
    <3>2. \A k \in Loops : pc'[k] = "putback" => pc[k] = "putback" /\ k # l
      BY <1>a, <1>b, <2>4
    <3>3. \A k \in Loops : \A x \in held'[k] :
            pc'[k] = "putback" => pc[k] = "putback" /\ x \in held[k]
      BY <1>b, <3>2
    <3>. QED
      BY <1>d, <2>1, <2>2, <2>4, <3>1, <3>3, CountRaise
  <2>. QED
    BY <1>6, <2>3, <2>4 DEF Trigger, Caught, Goto
<1>. QED
  BY <1>1, <1>2, <1>3, <1>4, <1>5, <1>6 DEF LoopStep

(* CoalescedInv is inductive: however many loops are started, and whoever  *)
(* holds the clock.                                                        *)
THEOREM CoalescedInvariance == Spec => [](TypeOK /\ CoalescedInv)
<1>1. Init => TypeOK /\ CoalescedInv
  <2> SUFFICES ASSUME Init PROVE TypeOK /\ CoalescedInv
    OBVIOUS
  <2>1. TypeOK
    BY InitTypes
  <2>2. Started = {} /\ VisitsFit
    BY NamesAssumption DEF Init, Started, VisitsFit, Threads
  <2>3. ASSUME NEW p \in Periodic PROVE Accounted(p)
    <3>1. Waiting(p) = {}
      BY DEF Init, Waiting, Held
    <3>2. Rounds(p) = {}
      BY NamesAssumption DEF Init, Rounds, InRound, Threads
    <3>3. IsFiniteSet({}) /\ Cardinality({}) = 0
      BY FS_EmptySet
    <3>4. LeftOver(p, {})
      BY <2>2, <3>1, <3>2, <3>3 DEF Init, LeftOver
    <3>. QED
      BY <3>1, <3>3, <3>4 DEF Accounted
  <2>. QED
    BY <2>1, <2>2, <2>3, FS_EmptySet DEF CoalescedInv
<1>2. TypeOK /\ CoalescedInv /\ [Next]_vars => (TypeOK /\ CoalescedInv)'
  <2> SUFFICES ASSUME TypeOK, CoalescedInv, [Next]_vars PROVE (TypeOK /\ CoalescedInv)'
    OBVIOUS
  <2>1. TypeOK'
    BY TypeStep
  <2>2. /\ IsFiniteSet(Started') /\ Started \subseteq Started'
        /\ (\E l \in Loops : LoopStep(l)) => Started' = Started
    BY StartedStep DEF CoalescedInv
  <2>3. VisitsFit'
    BY VisitsStep DEF CoalescedInv
  <2>4. ASSUME clashes' = 0, NEW p \in Periodic PROVE Accounted(p)'
    <3>0. clashes = 0
      BY <2>4 DEF Next, LoopStep, Boot, Check, Push, Bump, ProcessEmpty, Look, Pop, PutBack,
                  Trigger, Clash, ScheduleSend, BumpWorker, Start, Stop, Tick, SetBack, vars,
                  TypeOK
    <3>1. Accounted(p) /\ IsFiniteSet(Started) /\ VisitsFit
      BY <3>0 DEF CoalescedInv
    <3>2. \A l \in Loops : l \in Threads /\ l # Worker
      BY NamesAssumption DEF Threads
    <3>3. CASE BumpWorker \/ Start \/ Stop \/ Tick \/ ScheduleSend \/ UNCHANGED vars
      <4>1. /\ held' = held /\ visit' = visit /\ job' = job
            /\ raises' = raises /\ setBacks' = setBacks /\ clock' >= clock
        BY <3>3 DEF BumpWorker, Start, Stop, Tick, ScheduleSend, vars, objectVars, loopVars, TypeOK
      <4>2. \A e \in queue' : e.event = p => e \in queue
        <5>1. CASE ScheduleSend
          <6>1. sent + 1 \in Nat /\ p \notin Nat
            BY NamesAssumption DEF TypeOK
          <6>2. NewEntry(sent + 1, Worker).event # p
            BY <6>1, NewEntryFields
          <6>. QED
            BY <5>1, <6>2 DEF ScheduleSend
        <5>. QED
          BY <3>3, <5>1 DEF BumpWorker, Start, Stop, Tick, vars, objectVars
      <4>3. Waiting(p)' \subseteq Waiting(p)
        BY <4>1, <4>2 DEF Waiting, Held
      <4>4. \A l \in Loops : pc'[l] = pc[l] \/ (pc[l] = "none" /\ pc'[l] = "boot")
        BY <3>2, <3>3 DEF BumpWorker, Start, Stop, Tick, ScheduleSend, vars, Goto, TypeOK
      <4>5. Rounds(p) \subseteq Rounds(p)'
        BY <4>1, <4>4 DEF Rounds, InRound
      <4>6. \A l \in Loops : pc'[l] = "putback" => pc[l] = "putback"
        BY <4>4
      <4>. QED
        BY <2>1, <2>2, <3>1, <4>1, <4>2, <4>3, <4>5, <4>6, CountFrame
    <3>4. CASE SetBack
      BY <2>1, <3>1, <3>4, CountSetBack
    <3>5. ASSUME NEW l \in Loops, LoopStep(l)
          PROVE  Accounted(p)'
      BY <2>1, <2>2, <2>4, <3>0, <3>1, <3>5, CountLoop
    <3>. QED
      BY <3>3, <3>4, <3>5 DEF Next
  <2>. QED
    BY <2>1, <2>2, <2>3, <2>4 DEF CoalescedInv
<1>. QED
  BY <1>1, <1>2, PTL DEF Spec

(* Missed intervals are not made up for, with any number of loops.         *)
THEOREM Coalescing == Spec => []Coalesced
<1>1. TypeOK /\ CoalescedInv => Coalesced
  <2> SUFFICES ASSUME TypeOK, CoalescedInv, clashes = 0, NEW p \in Periodic
               PROVE  Cardinality(Waiting(p)) <= Cardinality(Started) * (1 + setBacks) + raises
    BY DEF Coalesced, TypeOK
  <2>1. IsFiniteSet(Started) /\ IsFiniteSet(Waiting(p))
    BY DEF CoalescedInv, Accounted
  <2>2. PICK o \in SUBSET Waiting(p) : LeftOver(p, o)
    BY DEF CoalescedInv, Accounted
  <2>3. PICK w : w = Waiting(p)
    OBVIOUS
  <2>4. IsFiniteSet(o) /\ IsFiniteSet(w \ o) /\ IsFiniteSet(w)
    BY <2>1, <2>3, FS_Subset
  <2>5. Cardinality(w \ o) = Cardinality(w) - Cardinality(o)
    <3>1. w \cap o = o
      BY <2>3
    <3>. QED
      BY <2>4, <3>1, FS_Difference
  <2>6. Cardinality(w \ o) <= Cardinality(Started)
    <3>1. IsFiniteSet(Rounds(p)) /\ Cardinality(Rounds(p)) <= Cardinality(Started)
      BY <2>1, RoundsStarted, FS_Subset
    <3>2. Cardinality(w \ o) <= Cardinality(Rounds(p))
      BY <2>2, <2>3 DEF LeftOver
    <3>. QED
      BY <2>1, <2>4, <3>1, <3>2, FS_CardinalityType
  <2>7. PICK c, m : c = Cardinality(Started) /\ m = c * setBacks
    OBVIOUS
  <2>8. c \in Nat /\ m \in Nat /\ c * (1 + setBacks) = m + c
    <3>1. c \in Nat /\ setBacks \in Nat
      BY <2>1, <2>7, FS_CardinalityType DEF TypeOK
    <3>. QED
      BY <2>7, <3>1
  <2>9. Cardinality(o) <= raises + m
    BY <2>2, <2>7 DEF LeftOver
  <2>10. Cardinality(w) \in Nat /\ Cardinality(o) \in Nat /\ Cardinality(w \ o) \in Nat
    BY <2>4, FS_CardinalityType
  <2>11. Cardinality(w) <= (m + c) + raises
    BY <2>5, <2>6, <2>7, <2>8, <2>9, <2>10 DEF TypeOK
  <2>. QED
    BY <2>3, <2>7, <2>8, <2>11
<1>. QED
  BY <1>1, CoalescedInvariance, PTL
=============================================================================
