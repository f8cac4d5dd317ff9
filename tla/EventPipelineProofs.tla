------------------------- MODULE EventPipelineProofs -------------------------
(***************************************************************************)
(* Proofs about EventPipeline, for any number of consumers, any batch      *)
(* limits, any events that fail validation and any bounds.                 *)
(***************************************************************************)
EXTENDS EventPipeline, FiniteSetTheorems, TLAPS

-----------------------------------------------------------------------------
(* What ListEvents answers.                                                *)

(* The rows a list returns are an initial segment of the rows it selects   *)
(* from: LIMIT never leaves out a row before one it returns.               *)
LEMMA SmallestIsInitial ==
  ASSUME NEW S, \A m \in S : m \in Nat, NEW n \in Nat,
         NEW i \in Smallest(S, n), NEW j \in S, j < i
  PROVE  j \in Smallest(S, n)
<1>1. i \in S /\ i \in Nat /\ j \in Nat /\ Cardinality({m \in S : m < i}) < n
  BY DEF Smallest
<1>2. IsFiniteSet({m \in S : m < i})
  <2>1. IsFiniteSet(0 .. i)
    BY <1>1, FS_Interval
  <2>2. {m \in S : m < i} \subseteq 0 .. i
    <3> SUFFICES ASSUME NEW m \in S, m < i PROVE m \in 0 .. i
      OBVIOUS
    <3>1. m \in Nat
      OBVIOUS
    <3>. QED  BY <1>1, <3>1
  <2>. QED  BY <2>1, <2>2, FS_Subset
<1>3. {m \in S : m < j} \subseteq {m \in S : m < i}
  <2> SUFFICES ASSUME NEW m \in S, m < j PROVE m < i
    OBVIOUS
  <2>1. m \in Nat
    OBVIOUS
  <2>. QED  BY <1>1, <2>1
<1>4. /\ IsFiniteSet({m \in S : m < j})
      /\ Cardinality({m \in S : m < j}) <= Cardinality({m \in S : m < i})
  BY <1>2, <1>3, FS_Subset
<1>5. /\ Cardinality({m \in S : m < j}) \in Nat
      /\ Cardinality({m \in S : m < i}) \in Nat
  BY <1>2, <1>4, FS_CardinalityType
<1>6. Cardinality({m \in S : m < j}) < n
  BY <1>1, <1>4, <1>5
<1>. QED  BY <1>6 DEF Smallest

(* A reply holds stored rows after the cursor, and between the cursor and  *)
(* a row of the reply no stored row is missing.                            *)
LEMMA ReplyHasNoGap ==
  ASSUME store \subseteq Nat, NEW after \in Nat, NEW limit \in Nat
  PROVE  /\ ListReply(after, limit) \subseteq {i \in store : i > after}
         /\ \A i \in ListReply(after, limit) : \A j \in store :
              j > after /\ j < i => j \in ListReply(after, limit)
<1>1. ClampLimit(limit) \in Nat
  BY LimitAssumption DEF ClampLimit
<1>2. \A m \in {i \in store : i > after} : m \in Nat
  OBVIOUS
<1>3. ListReply(after, limit) \subseteq {i \in store : i > after}
  BY DEF ListReply, Smallest
<1>. QED  BY <1>1, <1>2, <1>3, SmallestIsInitial DEF ListReply

-----------------------------------------------------------------------------
(* Every variable keeps its type.                                          *)
THEOREM Typing == Spec => []TypeOK
<1>1. Init => TypeOK
  BY BoundAssumption DEF Init, TypeOK, Ids, PollStates
<1>2. TypeOK /\ [Next]_vars => TypeOK'
  <2> SUFFICES ASSUME TypeOK, [Next]_vars PROVE TypeOK'
    OBVIOUS
  <2> USE DEF TypeOK, Ids, PollStates, Goto, Unwind, EndPoll, Fault, daemonVars, recordVars, uiVars, pollVars
  <2>1. CASE Insert
    <3>1. nextId' \in Nat \ {0} /\ Ids \subseteq Ids'
      BY <2>1 DEF Insert
    <3>2. store' \subseteq Ids'
      BY <2>1 DEF Insert
    <3>3. SUBSET Ids \subseteq SUBSET Ids'
      BY <3>1
    <3>4. listed' \in [Consumers -> SUBSET Ids'] /\ todo' \in [Consumers -> SUBSET Ids']
      BY <2>1, <3>3 DEF Insert
    <3>. QED  BY <2>1, <3>1, <3>2, <3>4 DEF Insert
  <2>2. ASSUME NEW c \in Consumers, BeginPoll(c) PROVE TypeOK'
    BY <2>2 DEF BeginPoll
  <2>3. ASSUME NEW c \in Consumers, ListEvents(c) PROVE TypeOK'
    <3>1. ListReply(lastId[c], BatchLimit[c]) \subseteq Ids
      BY DEF ListReply, Smallest
    <3>2. CASE ListReply(lastId[c], BatchLimit[c]) = {}
      BY <2>3, <3>2 DEF ListEvents
    <3>3. CASE ListReply(lastId[c], BatchLimit[c]) # {}
      <4>1. listed' \in [Consumers -> SUBSET Ids] /\ todo' \in [Consumers -> SUBSET Ids]
        BY <2>3, <3>1, <3>3 DEF ListEvents
      <4>. QED  BY <2>3, <3>3, <4>1 DEF ListEvents
    <3>. QED  BY <3>2, <3>3
  <2>4. ASSUME NEW c \in Consumers, NEW e \in todo[c], Dispatch(c, e) PROVE TypeOK'
    <3>1. e \in Nat /\ e \in Ids
      OBVIOUS
    <3>2. todo' \in [Consumers -> SUBSET Ids]
      BY <2>4 DEF Dispatch
    <3>3. maxId' \in [Consumers -> Nat] /\ pc' \in [Consumers -> PollStates]
      BY <2>4, <3>1 DEF Dispatch
    <3>4. updates' \in [Consumers -> SUBSET Ids]
      BY <2>4, <3>1 DEF Dispatch
    <3>. QED  BY <2>4, <3>1, <3>2, <3>3, <3>4 DEF Dispatch
  <2>5. ASSUME NEW c \in Consumers, NEW e \in todo[c], DispatchPoison(c, e) PROVE TypeOK'
    BY <2>5 DEF DispatchPoison
  <2>6. ASSUME NEW c \in Consumers, EmitUpdates(c) PROVE TypeOK'
    BY <2>6 DEF EmitUpdates
  <2>7. ASSUME NEW c \in Consumers, DeleteEvents(c) PROVE TypeOK'
    BY <2>7 DEF DeleteEvents, AfterDelete
  <2>8. ASSUME NEW c \in Consumers, SaveCursor(c) PROVE TypeOK'
    BY <2>8 DEF SaveCursor
  \* A poll that fails: what it leaves behind, and the fault counted.
  <2>0. ASSUME NEW c \in Consumers, Unwind(c), UNCHANGED <<nextId, cursor, parked>>, Fault,
               store' \subseteq store, handled' \subseteq Ids, shown' \subseteq Ids,
               unsaid' \subseteq Ids
        PROVE  TypeOK'
    <3>1. faults' \in 0 .. MaxFaults
      BY <2>0, BoundAssumption
    <3>2. Ids' = Ids /\ store' \subseteq Ids
      BY <2>0
    <3>. QED  BY <2>0, <3>1, <3>2
  <2>9. ASSUME NEW c \in Consumers, Interrupted(c) PROVE TypeOK'
    <3>1. unsaid' \subseteq Ids
      BY <2>9 DEF Interrupted
    <3>. QED  BY <2>0, <2>9, <3>1 DEF Interrupted
  <2>10. ASSUME NEW c \in Consumers, DeleteReplyLost(c) PROVE TypeOK'
    <3>1. unsaid' \subseteq Ids /\ store' \subseteq store
      BY <2>10 DEF DeleteReplyLost, AfterDelete
    <3>. QED  BY <2>0, <2>10, <3>1 DEF DeleteReplyLost
  <2>11. ASSUME NEW c \in Consumers, NEW e \in todo[c], DispatchFailsLate(c, e) PROVE TypeOK'
    <3>1. unsaid' \subseteq Ids /\ handled' \subseteq Ids
      BY <2>11 DEF DispatchFailsLate
    <3>. QED  BY <2>0, <2>11, <3>1 DEF DispatchFailsLate
  <2>12. ASSUME NEW c \in Consumers, EmitFails(c) PROVE TypeOK'
    <3>1. unsaid' \subseteq Ids /\ shown' \subseteq Ids
      BY <2>12 DEF EmitFails
    <3>. QED  BY <2>0, <2>12, <3>1 DEF EmitFails
  <2>13. ASSUME NEW c \in Consumers, Dies(c) PROVE TypeOK'
    <3>1. unsaid' \subseteq Ids /\ shown' \subseteq Ids
      BY <2>13 DEF Dies
    <3>. QED  BY <2>0, <2>13, <3>1 DEF Dies
  <2>14. CASE UNCHANGED vars
    BY <2>14 DEF vars
  <2>. QED
    BY <2>1, <2>2, <2>3, <2>4, <2>5, <2>6, <2>7, <2>8, <2>9, <2>10, <2>11, <2>12, <2>13, <2>14
    DEF Next, Step, Failure
<1>. QED  BY <1>1, <1>2, PTL DEF Spec

-----------------------------------------------------------------------------
(* The inductive invariant.                                                *)

(* Deliveries are never undone, so what was covered stays covered.         *)
LEMMA DeliveredGrows == [Next]_vars => Delivered \subseteq Delivered'
BY DEF Next, Step, Failure, vars, daemonVars, recordVars, uiVars, pollVars, Delivered,
   Insert, BeginPoll, ListEvents, Dispatch, DispatchPoison, EmitUpdates, DeleteEvents,
   SaveCursor, Interrupted, EmitFails, Dies, DeleteReplyLost, DispatchFailsLate, EndPoll, Fault

(* The event a poll dispatches is preceded by delivered events only.       *)
LEMMA CurrentIsNext ==
  ASSUME TypeOK, NoGapBefore, NEW c \in Consumers, NEW e \in todo[c], IsCurrent(c, e)
  PROVE  e \in Ids /\ 1 .. e - 1 \subseteq Delivered
<1>1. todo[c] \subseteq Ids /\ e \in Ids
  BY DEF TypeOK
<1>2. ASSUME NEW i \in 1 .. e - 1 PROVE i \in Delivered
  <2>1. i \notin todo[c]
    BY <1>1, <1>2 DEF IsCurrent, Ids, TypeOK
  <2>. QED  BY <1>2, <2>1 DEF NoGapBefore
<1>. QED  BY <1>1, <1>2

(* The parts of IInv that an end of the poll of c preserves by itself.     *)
LEMMA UnwindKeeps ==
  ASSUME IInv, NEW c \in Consumers, Unwind(c), Delivered \subseteq Delivered'
  PROVE  /\ PollCovered' /\ NoGapBefore'
         /\ (UNCHANGED store \/ \E m \in Nat : store' = AfterDelete(m)) => DeletedBeforeSaved'
<1>1. lastId' = lastId /\ maxId' = maxId
  BY DEF Unwind
<1>2. PollCovered'
  BY <1>1 DEF IInv, PollCovered
<1>3. ASSUME NEW d \in Consumers PROVE todo'[d] \subseteq todo[d] /\ (todo'[d] = {} \/ todo'[d] = todo[d])
  BY DEF Unwind, IInv, TypeOK
<1>4. NoGapBefore'
  BY <1>3 DEF IInv, NoGapBefore
<1>5. ASSUME NEW d \in Consumers, pc'[d] = "save" PROVE pc[d] = "save"
  BY <1>5 DEF Unwind, Goto, IInv, TypeOK
<1>6. ASSUME UNCHANGED store \/ \E m \in Nat : store' = AfterDelete(m) PROVE store' \subseteq store
  BY <1>6 DEF AfterDelete
<1>. QED  BY <1>1, <1>2, <1>4, <1>5, <1>6 DEF IInv, DeletedBeforeSaved

(* A delete of what a poll covered loses no event and hides none.          *)
LEMMA DeleteKeeps ==
  ASSUME IInv, TypeOK', NEW c \in Consumers, store' = AfterDelete(maxId[c]),
         UNCHANGED <<nextId, cursor, handled, parked>>
  PROVE  NoLoss' /\ CursorCovered' /\ NothingHidden' /\ FirstDeliveryInOrder'
<1>1. Delivered' = Delivered /\ Ids' = Ids
  BY DEF Delivered, Ids
<1>2. NoLoss'
  <2> SUFFICES ASSUME NEW e \in Ids, e \notin store' PROVE e \in Delivered
    BY <1>1 DEF NoLoss
  <2>1. CASE e \in store
    <3>1. e \in Nat \ {0} /\ maxId[c] \in Nat /\ e <= maxId[c]
      BY <2>1 DEF AfterDelete, IInv, TypeOK, Ids
    <3>2. 1 .. maxId[c] \subseteq Delivered
      BY DEF IInv, PollCovered
    <3>. QED  BY <3>1, <3>2
  <2>2. CASE e \notin store
    BY <2>2 DEF IInv, NoLoss
  <2>. QED  BY <2>1, <2>2
<1>. QED  BY <1>1, <1>2 DEF IInv, CursorCovered, NothingHidden, FirstDeliveryInOrder, AfterDelete

(* Delivering the event a poll has reached keeps deliveries a prefix.      *)
LEMMA DeliverKeeps ==
  ASSUME IInv, NEW c \in Consumers, NEW e \in todo[c], IsCurrent(c, e),
         Delivered' = Delivered \cup {e}, UNCHANGED <<nextId, store, cursor>>
  PROVE  NoLoss' /\ CursorCovered' /\ NothingHidden' /\ FirstDeliveryInOrder'
<1>1. 1 .. e - 1 \subseteq Delivered
  BY CurrentIsNext DEF IInv
<1>. QED
  BY <1>1 DEF IInv, NoLoss, CursorCovered, NothingHidden, FirstDeliveryInOrder, Ids

(* The inductive invariant, for any number of consumers, events and faults.*)
THEOREM Invariance == Spec => []IInv
<1>1. Init => IInv
  <2> SUFFICES ASSUME Init PROVE IInv
    OBVIOUS
  <2>1. TypeOK
    BY BoundAssumption DEF Init, TypeOK, Ids, PollStates
  <2>. QED
    BY <2>1 DEF Init, IInv, NoLoss, CursorCovered, NothingHidden, DeletedBeforeSaved,
       FirstDeliveryInOrder, PollCovered, NoGapBefore, Ids, Delivered
<1>2. IInv /\ TypeOK' /\ [Next]_vars => IInv'
  <2> SUFFICES ASSUME IInv, TypeOK', [Next]_vars PROVE IInv'
    OBVIOUS
  <2> DEFINE LogKept == NoLoss' /\ CursorCovered' /\ NothingHidden' /\ FirstDeliveryInOrder'
             PollsKept == DeletedBeforeSaved' /\ PollCovered' /\ NoGapBefore'
  <2>0. SUFFICES LogKept /\ PollsKept
    BY DEF IInv
  <2>a. TypeOK
    BY DEF IInv
  <2>b. Delivered \subseteq Delivered'
    BY DeliveredGrows
  <2>1. CASE Insert
    <3>1. Delivered' = Delivered /\ Ids' = Ids \cup {nextId}
      BY <2>1, <2>a DEF Insert, recordVars, Delivered, Ids, TypeOK
    <3>2. nextId > cursor /\ \A c \in Consumers : nextId > maxId[c]
      <4>1. Delivered \subseteq Ids /\ nextId \in Nat \ {0} /\ nextId \notin Ids
        BY <2>a DEF TypeOK, Delivered, Ids
      <4>2. ASSUME NEW n \in Nat, 1 .. n \subseteq Delivered PROVE nextId > n
        BY <4>1, <4>2
      <4>. QED  BY <2>a, <4>2 DEF IInv, CursorCovered, PollCovered, TypeOK
    <3>3. NoLoss' /\ CursorCovered' /\ FirstDeliveryInOrder'
      BY <2>1, <3>1 DEF Insert, recordVars, IInv, NoLoss, CursorCovered, FirstDeliveryInOrder
    <3>4. NothingHidden' /\ DeletedBeforeSaved'
      BY <2>1, <3>2 DEF Insert, recordVars, pollVars, IInv, NothingHidden, DeletedBeforeSaved
    <3>5. PollCovered' /\ NoGapBefore'
      BY <2>1, <3>1 DEF Insert, pollVars, IInv, PollCovered, NoGapBefore
    <3>. QED  BY <3>3, <3>4, <3>5
  <2>2. ASSUME NEW c \in Consumers, BeginPoll(c) PROVE LogKept /\ PollsKept
    <3>1. LogKept
      BY <2>2 DEF BeginPoll, daemonVars, recordVars, IInv, NoLoss, CursorCovered, NothingHidden,
         FirstDeliveryInOrder, Ids, Delivered
    <3>2. DeletedBeforeSaved' /\ NoGapBefore'
      BY <2>2, <2>a DEF BeginPoll, Goto, daemonVars, recordVars, IInv, DeletedBeforeSaved,
         NoGapBefore, Delivered, TypeOK
    <3>3. PollCovered'
      BY <2>2, <2>a DEF BeginPoll, recordVars, IInv, CursorCovered, PollCovered, Delivered, TypeOK
    <3>. QED  BY <3>1, <3>2, <3>3
  <2>3. ASSUME NEW c \in Consumers, ListEvents(c) PROVE LogKept /\ PollsKept
    <3> DEFINE reply == ListReply(lastId[c], BatchLimit[c])
    <3>1. LogKept
      BY <2>3 DEF ListEvents, daemonVars, recordVars, IInv, NoLoss, CursorCovered, NothingHidden,
         FirstDeliveryInOrder, Ids, Delivered
    <3>2. CASE reply = {}
      BY <2>3, <2>b, <3>1, <3>2, UnwindKeeps DEF EndPoll, ListEvents, daemonVars
    <3>3. CASE reply # {}
      <4>0. Delivered' = Delivered /\ UNCHANGED <<store, lastId>>
        BY <2>3, <3>3 DEF ListEvents, daemonVars, recordVars, Delivered
      <4>1. PollCovered'
        BY <2>3, <2>a, <3>3, <4>0 DEF ListEvents, IInv, PollCovered, TypeOK
      <4>2. DeletedBeforeSaved'
        BY <2>3, <2>a, <3>3, <4>0 DEF ListEvents, Goto, IInv, DeletedBeforeSaved, TypeOK
      <4>3. /\ \A d \in Consumers \ {c} : todo'[d] = todo[d]
            /\ todo'[c] = reply
        BY <2>3, <2>a, <3>3 DEF ListEvents, TypeOK
      <4>4. ASSUME NEW e \in reply, NEW i \in 1 .. e - 1 PROVE i \in reply \cup Delivered
        <5>1. /\ store \subseteq Nat /\ lastId[c] \in Nat /\ BatchLimit[c] \in Nat
              /\ store \subseteq Ids
          BY <2>a, ConsumersAssumption DEF TypeOK, Ids
        <5>2. e \in store /\ e \in Ids
          BY <5>1, ReplyHasNoGap
        <5>3. i \in Ids /\ i < e
          BY <2>a, <5>2 DEF Ids, TypeOK
        <5>4. CASE i \notin store
          BY <5>3, <5>4 DEF IInv, NoLoss
        <5>5. CASE i <= lastId[c]
          BY <5>1, <5>3, <5>5 DEF IInv, PollCovered, Ids
        <5>6. CASE i \in store /\ i > lastId[c]
          BY <5>1, <5>3, <5>6, ReplyHasNoGap
        <5>. QED  BY <5>1, <5>3, <5>4, <5>5, <5>6 DEF Ids
      <4>5. NoGapBefore'
        BY <4>0, <4>3, <4>4 DEF IInv, NoGapBefore
      <4>. QED  BY <3>1, <4>1, <4>2, <4>5
    <3>. QED  BY <3>2, <3>3
  <2>4. ASSUME NEW c \in Consumers, NEW e \in todo[c], Dispatch(c, e) PROVE LogKept /\ PollsKept
    <3>1. IsCurrent(c, e) /\ Delivered' = Delivered \cup {e}
      BY <2>4 DEF Dispatch, Delivered
    <3>2. LogKept
      BY <2>4, <3>1, DeliverKeeps DEF Dispatch, daemonVars
    <3>3. e \in Ids /\ 1 .. e - 1 \subseteq Delivered
      BY <2>a, <3>1, CurrentIsNext DEF IInv
    <3>4. 1 .. e \subseteq Delivered'
      BY <2>a, <3>1, <3>3 DEF Ids, TypeOK
    <3>5. PollCovered'
      BY <2>4, <2>a, <2>b, <3>4 DEF Dispatch, IInv, PollCovered, TypeOK
    <3>6. NoGapBefore'
      <4>1. ASSUME NEW d \in Consumers PROVE todo'[d] \subseteq todo[d] /\ todo[d] \subseteq todo'[d] \cup {e}
        BY <2>4, <2>a DEF Dispatch, TypeOK
      <4>. QED  BY <2>b, <3>1, <4>1 DEF IInv, NoGapBefore
    <3>7. DeletedBeforeSaved'
      <4>1. ASSUME NEW d \in Consumers, pc'[d] = "save" PROVE pc[d] = "save" /\ maxId'[d] = maxId[d]
        BY <2>4, <2>a, <4>1 DEF Dispatch, IsCurrent, Goto, TypeOK
      <4>. QED  BY <2>4, <4>1 DEF Dispatch, daemonVars, IInv, DeletedBeforeSaved
    <3>. QED  BY <3>2, <3>5, <3>6, <3>7
  <2>5. ASSUME NEW c \in Consumers, NEW e \in todo[c], DispatchPoison(c, e) PROVE LogKept /\ PollsKept
    <3>1. LogKept
      BY <2>5 DEF DispatchPoison, daemonVars, recordVars, IInv, NoLoss, CursorCovered, NothingHidden,
         FirstDeliveryInOrder, Ids, Delivered
    <3>. QED  BY <2>5, <2>b, <3>1, UnwindKeeps DEF EndPoll, DispatchPoison, daemonVars
  <2>6. ASSUME NEW c \in Consumers, EmitUpdates(c) PROVE LogKept /\ PollsKept
    <3>1. LogKept
      BY <2>6 DEF EmitUpdates, daemonVars, recordVars, IInv, NoLoss, CursorCovered, NothingHidden,
         FirstDeliveryInOrder, Ids, Delivered
    <3>2. PollsKept
      BY <2>6, <2>a DEF EmitUpdates, Goto, daemonVars, recordVars, pollVars, IInv, DeletedBeforeSaved,
         PollCovered, NoGapBefore, Delivered, TypeOK
    <3>. QED  BY <3>1, <3>2
  <2>7. ASSUME NEW c \in Consumers, DeleteEvents(c) PROVE LogKept /\ PollsKept
    <3>1. LogKept
      BY <2>7, DeleteKeeps DEF DeleteEvents, recordVars
    <3>2. PollCovered' /\ NoGapBefore'
      BY <2>7, <2>b DEF DeleteEvents, pollVars, IInv, PollCovered, NoGapBefore
    <3>3. DeletedBeforeSaved'
      <4>1. ASSUME NEW d \in Consumers, pc'[d] = "save" PROVE pc[d] = "save" \/ d = c
        BY <2>7, <2>a, <4>1 DEF DeleteEvents, Goto, TypeOK
      <4>. QED  BY <2>7, <4>1 DEF DeleteEvents, pollVars, AfterDelete, IInv, DeletedBeforeSaved
    <3>. QED  BY <3>1, <3>2, <3>3
  <2>8. ASSUME NEW c \in Consumers, SaveCursor(c) PROVE LogKept /\ PollsKept
    <3>0. UNCHANGED <<nextId, store, handled, parked, maxId>> /\ Delivered' = Delivered
      BY <2>8 DEF SaveCursor, daemonVars, EndPoll, Unwind, Delivered
    <3>1. NoLoss' /\ FirstDeliveryInOrder'
      BY <3>0 DEF IInv, NoLoss, FirstDeliveryInOrder, Ids
    <3>2. CursorCovered' /\ NothingHidden'
      BY <2>8, <3>0 DEF SaveCursor, IInv, PollCovered, DeletedBeforeSaved, CursorCovered, NothingHidden
    <3>3. PollCovered'
      BY <2>8, <2>a, <3>0 DEF SaveCursor, EndPoll, Unwind, IInv, PollCovered, TypeOK
    <3>4. NoGapBefore'
      <4>1. ASSUME NEW d \in Consumers PROVE todo'[d] = {} \/ todo'[d] = todo[d]
        BY <2>8, <2>a DEF SaveCursor, EndPoll, Unwind, TypeOK
      <4>. QED  BY <3>0, <4>1 DEF IInv, NoGapBefore
    <3>5. DeletedBeforeSaved'
      <4>1. ASSUME NEW d \in Consumers, pc'[d] = "save" PROVE pc[d] = "save"
        BY <2>8, <2>a, <4>1 DEF SaveCursor, EndPoll, Unwind, Goto, TypeOK
      <4>. QED  BY <3>0, <4>1 DEF IInv, DeletedBeforeSaved
    <3>. QED  BY <3>1, <3>2, <3>3, <3>4, <3>5
  <2>9. ASSUME NEW c \in Consumers, Interrupted(c) PROVE LogKept /\ PollsKept
    <3>1. LogKept
      BY <2>9 DEF Interrupted, daemonVars, recordVars, IInv, NoLoss, CursorCovered, NothingHidden,
         FirstDeliveryInOrder, Ids, Delivered
    <3>. QED  BY <2>9, <2>b, <3>1, UnwindKeeps DEF EndPoll, Interrupted, daemonVars
  <2>10. ASSUME NEW c \in Consumers, DeleteReplyLost(c) PROVE LogKept /\ PollsKept
    <3>1. LogKept
      BY <2>10, DeleteKeeps DEF DeleteReplyLost, recordVars
    <3>2. maxId[c] \in Nat /\ store' = AfterDelete(maxId[c])
      BY <2>10, <2>a DEF DeleteReplyLost, TypeOK
    <3>. QED  BY <2>10, <2>b, <3>1, <3>2, UnwindKeeps DEF EndPoll, DeleteReplyLost
  <2>11. ASSUME NEW c \in Consumers, NEW e \in todo[c], DispatchFailsLate(c, e)
         PROVE  LogKept /\ PollsKept
    <3>1. IsCurrent(c, e) /\ Delivered' = Delivered \cup {e}
      BY <2>11 DEF DispatchFailsLate, Delivered
    <3>2. LogKept
      BY <2>11, <3>1, DeliverKeeps DEF DispatchFailsLate, daemonVars
    <3>. QED  BY <2>11, <2>b, <3>2, UnwindKeeps DEF DispatchFailsLate, daemonVars
  <2>12. ASSUME NEW c \in Consumers, EmitFails(c) \/ Dies(c) PROVE LogKept /\ PollsKept
    <3>1. LogKept
      BY <2>12 DEF EmitFails, Dies, daemonVars, recordVars, IInv, NoLoss, CursorCovered, NothingHidden,
         FirstDeliveryInOrder, Ids, Delivered
    <3>. QED  BY <2>12, <2>b, <3>1, UnwindKeeps DEF EmitFails, Dies, EndPoll, daemonVars
  <2>13. CASE UNCHANGED vars
    BY <2>13 DEF vars, daemonVars, recordVars, pollVars, IInv, NoLoss, CursorCovered, NothingHidden,
       DeletedBeforeSaved, FirstDeliveryInOrder, PollCovered, NoGapBefore, Ids, Delivered
  <2>. QED
    BY <2>1, <2>2, <2>3, <2>4, <2>5, <2>6, <2>7, <2>8, <2>9, <2>10, <2>11, <2>12, <2>13
    DEF Next, Step, Failure
<1>. QED  BY <1>1, <1>2, Typing, PTL DEF Spec

(* The properties themselves, for every instance.                          *)

(* An event the daemon has deleted was handled or parked.                  *)
THEOREM NoEventLost == Spec => []NoLoss
BY Invariance, PTL DEF IInv

(* The stored cursor covers dispatched events only and hides none.         *)
THEOREM CursorSound == Spec => [](CursorCovered /\ NothingHidden)
BY Invariance, PTL DEF IInv

(* Events take effect for the first time in the order of their ids.        *)
THEOREM InOrder == Spec => []FirstDeliveryInOrder
BY Invariance, PTL DEF IInv

-----------------------------------------------------------------------------
(* An event that fails validation is never dispatched, so by NoLoss and    *)
(* FirstDeliveryInOrder it keeps every later one waiting in the store.     *)
PoisonUntouched == Delivered \cap Poison = {}

LEMMA PoisonNeverDelivered == Spec => []PoisonUntouched
<1>1. Init => PoisonUntouched
  BY DEF Init, PoisonUntouched, Delivered
<1>2. PoisonUntouched /\ [Next]_vars => PoisonUntouched'
  BY DEF PoisonUntouched, Next, Step, Failure, vars, daemonVars, recordVars, uiVars, pollVars,
     Delivered, Insert, BeginPoll, ListEvents, Dispatch, DispatchPoison, EmitUpdates,
     DeleteEvents, SaveCursor, Interrupted, EmitFails, Dies, DeleteReplyLost, DispatchFailsLate
<1>. QED  BY <1>1, <1>2, PTL DEF Spec

(* What comes after an event that fails validation is never dispatched.    *)
THEOREM HeadOfLineBlocking == Spec => []BlockedBehindPoison
<1>1. IInv /\ PoisonUntouched => BlockedBehindPoison
  <2> SUFFICES ASSUME IInv, PoisonUntouched, NEW p \in Poison, NEW e \in Ids, e >= p
               PROVE  e \notin Delivered /\ e \in store
    BY DEF BlockedBehindPoison
  <2>1. p \in Nat \ {0} /\ e \in Nat
    BY PoisonAssumption DEF Ids, IInv, TypeOK
  <2>2. e = p \/ p \in 1 .. e - 1
    BY <2>1
  <2>3. e \notin Delivered
    BY <2>2 DEF IInv, FirstDeliveryInOrder, PoisonUntouched
  <2>. QED  BY <2>3 DEF IInv, NoLoss
<1>. QED  BY <1>1, Invariance, PoisonNeverDelivered, PTL

-----------------------------------------------------------------------------
(* The pipeline implements the abstract log: every step of it is a step    *)
(* of the log or leaves the log unchanged.                                 *)
THEOREM Refinement == Spec => ImplementsLog
<1>1. Init => Log!Init
  BY DEF Init, Log!Init, Delivered, Ids
<1>2. IInv /\ IInv' /\ [Next]_vars => [Log!Next]_(Log!logVars)
  <2> SUFFICES ASSUME IInv, IInv', [Next]_vars
               PROVE  Log!Next \/ UNCHANGED Log!logVars
    OBVIOUS
  <2>0. TypeOK /\ Delivered \subseteq Ids /\ nextId \in Nat \ {0}
    BY DEF IInv, TypeOK, Delivered
  <2>1. CASE Insert
    <3>1. nextId' - 1 = (nextId - 1) + 1 /\ Delivered' = Delivered
      BY <2>0, <2>1 DEF Insert, recordVars, Delivered
    <3>2. Ids' \ store' = Ids \ store
      BY <2>0, <2>1 DEF Insert, Ids, TypeOK
    <3>. QED  BY <3>1, <3>2 DEF Log!Next, Log!Produce
  <2>2. ASSUME NEW c \in Consumers, NEW e \in todo[c], IsCurrent(c, e),
               Delivered' = Delivered \cup {e}, UNCHANGED <<nextId, store>>
        PROVE  Log!Next \/ UNCHANGED Log!logVars
    <3>1. e \in Ids /\ 1 .. e - 1 \subseteq Delivered
      BY <2>2, <2>0, CurrentIsNext DEF IInv
    <3>2. e \in 1 .. (nextId - 1) /\ Ids' = Ids
      BY <2>2, <3>1 DEF Ids
    <3>3. CASE e \in Delivered
      <4>1. Delivered' = Delivered
        BY <2>2, <3>3
      <4>. QED  BY <2>2, <3>2, <4>1 DEF Log!logVars
    <3>4. CASE e \notin Delivered
      BY <2>2, <3>1, <3>2, <3>4 DEF Log!Next, Log!Deliver
    <3>. QED  BY <3>3, <3>4
  <2>3. ASSUME store' \subseteq store, UNCHANGED <<nextId, handled, parked>>
        PROVE  Log!Next \/ UNCHANGED Log!logVars
    <3>1. Delivered' = Delivered /\ Ids' = Ids
      BY <2>3 DEF Delivered, Ids
    <3>2. Ids \ store \subseteq Ids' \ store' /\ Ids' \ store' \subseteq Delivered
      BY <2>3, <3>1 DEF IInv, NoLoss
    <3>. QED  BY <2>3, <3>1, <3>2 DEF Log!Next, Log!Forget
  <2>4. ASSUME NEW c \in Consumers, NEW e \in todo[c], Dispatch(c, e) \/ DispatchFailsLate(c, e)
        PROVE  Log!Next \/ UNCHANGED Log!logVars
    BY <2>4, <2>2 DEF Dispatch, DispatchFailsLate, Delivered, daemonVars
  <2>5. ASSUME NEW c \in Consumers, DeleteEvents(c) \/ DeleteReplyLost(c)
        PROVE  Log!Next \/ UNCHANGED Log!logVars
    BY <2>5, <2>3 DEF DeleteEvents, DeleteReplyLost, AfterDelete, recordVars
  <2>6. ASSUME NEW c \in Consumers,
               \/ BeginPoll(c) \/ ListEvents(c) \/ EmitUpdates(c) \/ SaveCursor(c)
               \/ Interrupted(c) \/ EmitFails(c) \/ Dies(c)
               \/ \E e \in todo[c] : DispatchPoison(c, e)
        PROVE  UNCHANGED <<nextId, store, handled, parked>>
    BY <2>6 DEF BeginPoll, ListEvents, EmitUpdates, SaveCursor, Interrupted, EmitFails, Dies,
       DispatchPoison, daemonVars, recordVars
  <2>7. ASSUME UNCHANGED <<nextId, store, handled, parked>> PROVE UNCHANGED Log!logVars
    BY <2>7 DEF Log!logVars, Delivered, Ids
  <2>8. CASE UNCHANGED vars
    BY <2>7, <2>8 DEF vars, daemonVars, recordVars
  <2>. QED
    BY <2>1, <2>4, <2>5, <2>6, <2>7, <2>8 DEF Next, Step, Failure
<1>. QED  BY <1>1, <1>2, Invariance, PTL DEF Spec, ImplementsLog, Log!Spec

-----------------------------------------------------------------------------
(* With one consumer, as when the push helper does not run, the poll in    *)
(* progress knows the stored cursor and holds unacknowledged events only.  *)
Alone(c) ==
  /\ pc[c] # "idle" => lastId[c] = cursor
  /\ pc[c] \in {"dispatch", "emit", "delete", "save"} => maxId[c] >= lastId[c]
  /\ pc[c] # "dispatch" => todo[c] = {}
  /\ todo[c] \subseteq store

LEMMA AloneInvariance ==
  ASSUME NEW c, Consumers = {c}
  PROVE  Spec => [](TypeOK /\ Alone(c))
<1>1. Init => Alone(c)
  BY DEF Init, Alone
<1>2. TypeOK /\ TypeOK' /\ Alone(c) /\ [Next]_vars => Alone(c)'
  <2> SUFFICES ASSUME TypeOK, TypeOK', Alone(c), [Next]_vars PROVE Alone(c)'
    OBVIOUS
  <2> USE DEF Alone, TypeOK, Goto, daemonVars, recordVars, pollVars
  <2>1. CASE Insert
    BY <2>1 DEF Insert
  <2>2. CASE BeginPoll(c)
    BY <2>2 DEF BeginPoll
  <2>3. CASE ListEvents(c)
    <3>1. ListReply(lastId[c], BatchLimit[c]) \subseteq store
      BY DEF ListReply, Smallest
    <3>. QED  BY <2>3, <3>1 DEF ListEvents, EndPoll, Unwind
  <2>4. ASSUME NEW e \in todo[c], Dispatch(c, e) PROVE Alone(c)'
    <3>1. /\ todo'[c] = todo[c] \ {e}
          /\ pc'[c] # "dispatch" => todo'[c] = {}
          /\ UNCHANGED <<store, cursor, lastId>>
      BY <2>4 DEF Dispatch
    <3>2. maxId'[c] >= maxId[c]
      BY <2>4 DEF Dispatch, Ids
    <3>. QED  BY <2>4, <3>1, <3>2 DEF Dispatch, IsCurrent
  <2>5. ASSUME Unwind(c), UNCHANGED <<cursor, lastId>> PROVE Alone(c)'
    BY <2>5 DEF Unwind
  <2>6. CASE EmitUpdates(c)
    BY <2>6 DEF EmitUpdates
  <2>7. CASE DeleteEvents(c)
    BY <2>7 DEF DeleteEvents
  <2>8. CASE SaveCursor(c)
    BY <2>8 DEF SaveCursor, EndPoll, Unwind
  <2>9. CASE Failure(c) \/ \E e \in todo[c] : DispatchPoison(c, e)
    BY <2>9, <2>5 DEF Failure, Interrupted, EmitFails, Dies, DeleteReplyLost, DispatchFailsLate,
       DispatchPoison, EndPoll, Unwind
  <2>10. CASE UNCHANGED vars
    BY <2>10 DEF vars
  <2>. QED
    BY <2>1, <2>2, <2>3, <2>4, <2>6, <2>7, <2>8, <2>9, <2>10 DEF Next, Step
<1>. QED  BY <1>1, <1>2, Typing, PTL DEF Spec

(* A single consumer never dispatches an event again after it was          *)
(* acknowledged ...                                                        *)
THEOREM SingleConsumerFresh ==
  ASSUME NEW c, Consumers = {c}
  PROVE  Spec => []NoStaleDispatch
<1>1. Alone(c) => NoStaleDispatch
  BY DEF Alone, NoStaleDispatch
<1>. QED  BY <1>1, AloneInvariance, PTL

(* ... and never moves the stored cursor back.                             *)
THEOREM SingleConsumerMonotone ==
  ASSUME NEW c, Consumers = {c}
  PROVE  Spec => CursorMonotone
<1>1. TypeOK /\ Alone(c) /\ [Next]_vars => [cursor' >= cursor]_cursor
  <2> SUFFICES ASSUME TypeOK, Alone(c), [Next]_vars PROVE cursor' >= cursor \/ UNCHANGED cursor
    OBVIOUS
  <2>1. CASE SaveCursor(c)
    BY <2>1 DEF SaveCursor, Alone
  <2>2. CASE ~ SaveCursor(c)
    BY <2>2 DEF Next, Step, Failure, vars, recordVars, Insert, BeginPoll, ListEvents, Dispatch,
       DispatchPoison, EmitUpdates, DeleteEvents, Interrupted, EmitFails, Dies, DeleteReplyLost,
       DispatchFailsLate
  <2>. QED  BY <2>1, <2>2
<1>. QED  BY <1>1, AloneInvariance, PTL DEF Spec, CursorMonotone

-----------------------------------------------------------------------------
(* What is no longer waiting to be told: a page shows it, it is parked, or  *)
(* it tells only what it changes and a poll ended with it untold.          *)
Settled == shown \cup parked \cup (OnChange \cap unsaid)

(* What the application, if it polls alone, holds while it works through a *)
(* reply: all that is stored up to max_id, and each event it is past has   *)
(* settled or is among the updates it has yet to emit.  A handled event    *)
(* may have nothing to tell a second time only because it was told, or its *)
(* change was lost with an earlier poll, or this one has it.               *)
Told(c) ==
  /\ ShownBeforeForgotten
  /\ handled \subseteq shown \cup unsaid \cup updates[c]
  /\ pc[c] \notin {"dispatch", "emit"} => updates[c] = {}
  /\ pc[c] \in {"dispatch", "emit", "delete"} =>
       /\ todo[c] \subseteq listed[c]
       /\ maxId[c] \in listed[c] \cup {lastId[c]}
       /\ \A e \in listed[c] : \A i \in store : i < e => i \in listed[c]
       /\ listed[c] \ todo[c] \subseteq Settled \cup updates[c]

(* What a delete takes away was listed, and so has settled.                *)
LEMMA DeletedHasSettled ==
  ASSUME NEW c \in Consumers, TypeOK, Alone(c), Told(c), pc[c] = "delete", maxId[c] > lastId[c]
  PROVE  Ids \ AfterDelete(maxId[c]) \subseteq Settled
<1> SUFFICES ASSUME NEW i \in Ids, i \notin AfterDelete(maxId[c]) PROVE i \in Settled
  OBVIOUS
<1>1. CASE i \notin store
  BY <1>1 DEF Told, ShownBeforeForgotten, Settled
<1>2. CASE i \in store
  <2>1. i \in Nat /\ maxId[c] \in Nat /\ lastId[c] \in Nat /\ i <= maxId[c]
    BY <1>2 DEF TypeOK, Ids, AfterDelete
  <2>2. maxId[c] \in listed[c]
    BY <2>1 DEF Told
  <2>3. i \in listed[c]
    BY <1>2, <2>1, <2>2 DEF Told
  <2>4. todo[c] = {} /\ updates[c] = {}
    BY DEF Alone, Told
  <2>. QED  BY <2>3, <2>4 DEF Told
<1>. QED  BY <1>1, <1>2

LEMMA ToldInvariance ==
  ASSUME NEW c, Consumers = {c}, c \notin Once
  PROVE  Spec => []Told(c)
<1>1. Init => Told(c)
  BY DEF Init, Told, ShownBeforeForgotten, Ids
<1>2. TypeOK /\ NothingHidden /\ Alone(c) /\ Told(c) /\ [Next]_vars => Told(c)'
  <2> SUFFICES ASSUME TypeOK, NothingHidden, Alone(c), Told(c), [Next]_vars PROVE Told(c)'
    OBVIOUS
  <2> USE DEF Told, ShownBeforeForgotten, Settled
  <2>1. CASE Insert
    <3>1. Ids' \ store' \subseteq Ids \ store
      BY <2>1 DEF Insert, Ids, TypeOK
    <3>2. \A e \in listed[c] : e < nextId
      BY DEF TypeOK, Ids
    <3>. QED  BY <2>1, <3>1, <3>2 DEF Insert, recordVars, pollVars, uiVars, TypeOK, Ids
  <2>2. CASE BeginPoll(c)
    BY <2>2 DEF BeginPoll, Goto, TypeOK, Ids, daemonVars, recordVars, uiVars
  \* The end of a poll: what it had collected joins unsaid.
  <2>3. ASSUME Unwind(c), shown \subseteq shown', UNCHANGED parked,
               unsaid \cup updates[c] \subseteq unsaid',
               handled' \subseteq handled \cup unsaid',
               Ids' \ store' \subseteq shown' \cup parked' \cup (OnChange \cap unsaid')
        PROVE  Told(c)'
    <3>1. pc'[c] = "idle" /\ updates'[c] = {}
      BY <2>3 DEF Unwind, Goto, TypeOK
    <3>. QED  BY <2>3, <3>1
  <2>4. CASE ListEvents(c)
    <3> DEFINE reply == ListReply(lastId[c], BatchLimit[c])
    <3>1. UNCHANGED <<nextId, store, handled, parked, shown>> /\ Ids' = Ids
      BY <2>4 DEF ListEvents, daemonVars, recordVars, Ids
    <3>2. CASE reply = {}
      BY <2>3, <2>4, <3>1, <3>2 DEF ListEvents, EndPoll
    <3>3. CASE reply # {}
      <4>1. /\ pc'[c] = "dispatch" /\ todo'[c] = reply /\ listed'[c] = reply
            /\ maxId'[c] = lastId[c] /\ lastId'[c] = lastId[c]
            /\ updates'[c] = {} /\ UNCHANGED unsaid
        BY <2>4, <3>3 DEF ListEvents, Goto, TypeOK
      <4>2. pc[c] = "list" /\ updates[c] = {}
        BY <2>4 DEF ListEvents
      <4>3. \A i \in store : i > lastId[c]
        BY <4>2 DEF Alone, NothingHidden
      <4>4. store \subseteq Nat /\ lastId[c] \in Nat /\ BatchLimit[c] \in Nat
        BY ConsumersAssumption DEF TypeOK, Ids
      <4>5. \A e \in reply : \A i \in store : i < e => i \in reply
        BY <4>3, <4>4, ReplyHasNoGap
      <4>. QED  BY <3>1, <4>1, <4>2, <4>5
    <3>. QED  BY <3>2, <3>3
  <2>5. ASSUME NEW e \in todo[c], Dispatch(c, e) PROVE Told(c)'
    <3>1. /\ pc[c] = "dispatch" /\ pc'[c] \in {"dispatch", "emit"}
          /\ todo'[c] = todo[c] \ {e} /\ maxId'[c] \in {e, maxId[c]}
      BY <2>5 DEF Dispatch, IsCurrent, Goto, TypeOK
    <3>2. UNCHANGED <<store, nextId, shown, unsaid, listed, lastId>> /\ Ids' = Ids
      BY <2>5 DEF Dispatch, daemonVars, uiVars, Ids
    <3>3. /\ updates[c] \subseteq updates'[c] /\ parked \subseteq parked'
          /\ handled' \subseteq handled \cup updates'[c]
          /\ e \in updates'[c] \cup parked' \cup (OnChange \cap handled)
      <4>1. CASE /\ handled' = handled \cup {e} /\ updates' = [updates EXCEPT ![c] = @ \cup {e}]
                 /\ UNCHANGED parked
        BY <4>1 DEF TypeOK
      <4>2. CASE /\ handled' = handled \cup {e} /\ e \in OnChange \cap handled
                 /\ UNCHANGED <<updates, parked>>
        BY <4>2
      <4>3. CASE parked' = parked \cup {e} /\ UNCHANGED <<handled, updates>>
        BY <4>3
      <4>. QED  BY <2>5, <4>1, <4>2, <4>3 DEF Dispatch
    <3>4. e \in Settled' \cup updates'[c]
      BY <3>2, <3>3
    <3>5. listed'[c] \ todo'[c] \subseteq Settled' \cup updates'[c]
      BY <3>1, <3>2, <3>3, <3>4
    <3>6. ShownBeforeForgotten'
      BY <2>5, <3>2, <3>3
    <3>. QED  BY <3>1, <3>2, <3>3, <3>5, <3>6
  <2>6. CASE EmitUpdates(c)
    <3>1. /\ pc[c] = "emit" /\ pc'[c] = "delete"
          /\ shown' = shown \cup updates[c] /\ updates'[c] = {}
      BY <2>6 DEF EmitUpdates, Goto, TypeOK
    <3>2. UNCHANGED <<store, nextId, handled, parked, unsaid, lastId, listed, todo, maxId>> /\ Ids' = Ids
      BY <2>6 DEF EmitUpdates, daemonVars, recordVars, Ids
    <3>. QED  BY <3>1, <3>2
  <2>7. CASE DeleteEvents(c)
    <3>1. pc[c] = "delete" /\ pc'[c] = "save"
          /\ UNCHANGED <<shown, unsaid, handled, parked, updates, nextId>>
      BY <2>7 DEF DeleteEvents, Goto, TypeOK, recordVars, pollVars, uiVars
    <3>2. Ids' \ store' \subseteq Settled
      BY <2>7, <3>1, DeletedHasSettled DEF DeleteEvents, Ids
    <3>. QED  BY <3>1, <3>2
  <2>8. CASE SaveCursor(c)
    <3>1. /\ pc[c] = "save" /\ pc'[c] \in {"idle", "list"} /\ updates[c] = {} /\ updates'[c] = {}
          /\ unsaid' = unsaid
          /\ UNCHANGED <<shown, store, nextId, handled, parked>>
      BY <2>8 DEF SaveCursor, EndPoll, Unwind, Goto, TypeOK, daemonVars
    <3>. QED  BY <3>1 DEF Ids
  <2>9. CASE \/ Interrupted(c) \/ EmitFails(c) \/ Dies(c)
             \/ \E e \in todo[c] : DispatchPoison(c, e) \/ DispatchFailsLate(c, e)
    <3>1. /\ Unwind(c) /\ shown \subseteq shown' /\ unsaid \cup updates[c] \subseteq unsaid'
          /\ handled' \subseteq handled \cup unsaid'
          /\ UNCHANGED <<store, nextId, parked>>
      BY <2>9 DEF Interrupted, EmitFails, Dies, DispatchPoison, DispatchFailsLate, EndPoll,
         daemonVars, recordVars
    <3>. QED  BY <2>3, <3>1 DEF Ids
  <2>10. CASE DeleteReplyLost(c)
    <3>1. Ids' \ store' \subseteq Settled
      BY <2>10, DeletedHasSettled DEF DeleteReplyLost, Ids
    <3>. QED  BY <2>3, <2>10, <3>1 DEF DeleteReplyLost, EndPoll, recordVars
  <2>11. CASE UNCHANGED vars
    BY <2>11 DEF vars, daemonVars, recordVars, pollVars, uiVars, Ids
  <2>. QED
    BY <2>1, <2>2, <2>4, <2>5, <2>6, <2>7, <2>8, <2>9, <2>10, <2>11 DEF Next, Step, Failure
<1>3. IInv => TypeOK /\ NothingHidden
  BY DEF IInv
<1>. QED  BY <1>1, <1>2, <1>3, Invariance, AloneInvariance, PTL DEF Spec

(* The application, polling alone, lets the daemon forget a handled event  *)
(* only after the user interface was told of it, but for an event that     *)
(* tells only what it changes and whose change was collected by a poll     *)
(* that ended before it emitted.                                           *)
THEOREM SingleConsumerTells ==
  ASSUME NEW c, Consumers = {c}, c \notin Once
  PROVE  Spec => []ShownBeforeForgotten
<1>1. Told(c) => ShownBeforeForgotten
  BY DEF Told
<1>. QED  BY <1>1, ToldInvariance, PTL
=============================================================================
