---------------------------- MODULE EventPipeline ----------------------------
(***************************************************************************)
(* The path of an event from the Go daemon into the application.           *)
(*                                                                         *)
(* The daemon stores every WhatsApp event in events.db, an SQLite table    *)
(* with an AUTOINCREMENT key.  Two kinds of process read it over the RPC   *)
(* socket: the application, whose DaemonEventHandler polls every 2 s and   *)
(* drains the store batch after batch, and the push helper, which runs     *)
(* process_events_once for every notification posted and takes one batch.  *)
(* A poll reads the cursor LAST_EVENT_ID, lists the events after it,       *)
(* dispatches them one by one, deletes them from the daemon, and then      *)
(* stores the new cursor in the application's key-value store.  The        *)
(* cursor's read, the list, each dispatch, the delete and the cursor's     *)
(* write are separate commits or RPCs: other consumers, crashes and        *)
(* failed calls fall between any two of them.                              *)
(*                                                                         *)
(* An event is its row id.  What an event does to the chats is left to the *)
(* modules of those records; here an event ends up handled, or parked as   *)
(* an unknown_event record when its handler raised.  A handler also        *)
(* collects what the pages are to be told, and a poll emits what its own   *)
(* pass over the batch has collected.                                      *)
(***************************************************************************)
EXTENDS Naturals, FiniteSets

CONSTANTS
  Consumers,     \* the processes that poll
  Once,          \* the ones that take a single batch (the push helper)
  BatchLimit,    \* the limit each consumer asks for (500, and 50 for Once)
  DefaultLimit,  \* what the daemon takes for a limit <= 0 (100)
  LimitCap,      \* what the daemon lowers a larger limit to (500)
  Poison,        \* ids whose dispatch raises BoundaryValidationError
  OnChange,      \* ids whose handler collects only what it changes
  MaxEvents,     \* bound: events the daemon stores in a behaviour
  MaxFaults      \* bound: crashes and failed calls in a behaviour

ASSUME ConsumersAssumption ==
  /\ Once \subseteq Consumers
  /\ BatchLimit \in [Consumers -> Nat]
ASSUME LimitAssumption ==
  /\ DefaultLimit \in Nat \ {0}
  /\ LimitCap \in Nat \ {0}
ASSUME PoisonAssumption == Poison \subseteq Nat \ {0}
ASSUME OnChangeAssumption == OnChange \subseteq Nat \ {0}
ASSUME BoundAssumption == MaxEvents \in Nat /\ MaxFaults \in Nat

VARIABLES
  \* the daemon's events.db
  nextId,    \* the id AUTOINCREMENT gives to the next row
  store,     \* the ids of the rows present
  \* the application's kv.db
  cursor,    \* LAST_EVENT_ID
  handled,   \* events whose handler ran to its end
  parked,    \* events kept as unknown_event records
  \* the memory of each poll
  pc,        \* what the poll does next
  lastId,    \* last_id
  listed,    \* reply.Events
  todo,      \* the events of the reply not dispatched yet
  maxId,     \* max_id
  updates,   \* events with changes in chat_updates and the lists beside it
  \* the user interface
  syncing,   \* the synchronisation banner is shown
  shown,     \* events whose changes the pages show
  unsaid,    \* history: events collected by a poll that ended before emitting
  \* environment
  faults     \* crashes and failed calls so far

daemonVars == <<nextId, store>>
recordVars == <<cursor, handled, parked>>
uiVars     == <<syncing, shown, unsaid>>
pollVars   == <<lastId, listed, todo, maxId, updates>>
vars == <<daemonVars, recordVars, pc, pollVars, uiVars, faults>>

PollStates == {"idle", "list", "dispatch", "emit", "delete", "save"}
Ids == 1 .. nextId - 1
Delivered == handled \cup parked

Init ==
  /\ nextId = 1
  /\ store = {}
  /\ cursor = 0
  /\ handled = {}
  /\ parked = {}
  /\ pc = [c \in Consumers |-> "idle"]
  /\ lastId = [c \in Consumers |-> 0]
  /\ listed = [c \in Consumers |-> {}]
  /\ todo = [c \in Consumers |-> {}]
  /\ maxId = [c \in Consumers |-> 0]
  /\ updates = [c \in Consumers |-> {}]
  /\ syncing = [c \in Consumers |-> FALSE]
  /\ shown = {}
  /\ unsaid = {}
  /\ faults = 0

-----------------------------------------------------------------------------
(* The daemon's side of the RPCs.                                          *)

(* The limit List works with.                                              *)
ClampLimit(n) ==
  IF n = 0 THEN DefaultLimit ELSE IF n > LimitCap THEN LimitCap ELSE n

(* Mutation: ORDER BY id DESC.                                             *)
NewestFirst(S, n) == {i \in S : Cardinality({j \in S : j > i}) < n}

(* The n smallest elements of S: ORDER BY id LIMIT n.                      *)
Smallest(S, n) == {i \in S : Cardinality({j \in S : j < i}) < n}

(* SELECT ... WHERE id > after ORDER BY id LIMIT limit                     *)
ListReply(after, limit) == Smallest({i \in store : i > after}, ClampLimit(limit))

(* Mutations: the delete without its WHERE clause, and with id < upTo.     *)
DeleteEverything(upTo) == {}
DeleteExclusive(upTo) == {i \in store : i >= upTo}

(* The store after DELETE FROM events WHERE id <= upTo.                    *)
AfterDelete(upTo) == {i \in store : i > upTo}

(* Mutation: a rowid without AUTOINCREMENT starts over in an empty table.   *)
InsertReusingIds ==
  LET id == CHOOSE i \in 1 .. nextId : i \notin store /\ \A j \in store : j < i IN
  /\ nextId <= MaxEvents
  /\ store' = store \cup {id}
  /\ nextId' = id + 1
  /\ UNCHANGED <<recordVars, pc, pollVars, uiVars, faults>>

(* The daemon's event handler stores one more event.                       *)
Insert ==
  /\ nextId <= MaxEvents
  /\ store' = store \cup {nextId}
  /\ nextId' = nextId + 1
  /\ UNCHANGED <<recordVars, pc, pollVars, uiVars, faults>>

-----------------------------------------------------------------------------
(* A poll, step by step.                                                   *)

Goto(c, state) == pc' = [pc EXCEPT ![c] = state]

(* The poll is over, by its end, an exception or the death of its process: *)
(* its local variables, with what they collected, are gone, and `finally`  *)
(* takes the banner down.                                                  *)
Unwind(c) ==
  /\ Goto(c, "idle")
  /\ listed' = [listed EXCEPT ![c] = {}]
  /\ todo' = [todo EXCEPT ![c] = {}]
  /\ updates' = [updates EXCEPT ![c] = {}]
  /\ syncing' = [syncing EXCEPT ![c] = FALSE]
  /\ UNCHANGED <<lastId, maxId>>
EndPoll(c) == Unwind(c) /\ unsaid' = unsaid \cup updates[c]

(* A poll starts by reading the cursor.                                    *)
BeginPoll(c) ==
  /\ pc[c] = "idle"
  /\ lastId' = [lastId EXCEPT ![c] = cursor]
  /\ Goto(c, "list")
  /\ UNCHANGED <<daemonVars, recordVars, listed, todo, maxId, updates, uiVars, faults>>

(* Mutation: the daemon forgets the events it lists.                       *)
ListAndForget(c) ==
  LET reply == ListReply(lastId[c], BatchLimit[c]) IN
  /\ pc[c] = "list" /\ reply # {}
  /\ listed' = [listed EXCEPT ![c] = reply]
  /\ todo' = [todo EXCEPT ![c] = reply]
  /\ maxId' = [maxId EXCEPT ![c] = lastId[c]]
  /\ Goto(c, "dispatch")
  /\ store' = store \ reply
  /\ UNCHANGED <<nextId, recordVars, lastId, updates, uiVars, faults>>

ListEvents(c) ==
  LET reply == ListReply(lastId[c], BatchLimit[c]) IN
  /\ pc[c] = "list"
  /\ \/ /\ reply = {}
        /\ EndPoll(c)
     \/ /\ reply # {}
        /\ listed' = [listed EXCEPT ![c] = reply]
        /\ todo' = [todo EXCEPT ![c] = reply]
        /\ maxId' = [maxId EXCEPT ![c] = lastId[c]]
        /\ updates' = [updates EXCEPT ![c] = {}]
        /\ syncing' = [syncing EXCEPT ![c] = c \notin Once]
        /\ Goto(c, "dispatch")
        /\ UNCHANGED <<lastId, unsaid>>
  /\ UNCHANGED <<daemonVars, recordVars, shown, faults>>

(* e is the event the for loop of the poll has reached.                    *)
IsCurrent(c, e) ==
  /\ pc[c] = "dispatch"
  /\ e \in todo[c]
  /\ \A other \in todo[c] : e <= other

(* Mutation: the batch is acknowledged without telling the user interface. *)
DispatchWithoutEmit(c, e) ==
  /\ IsCurrent(c, e)
  /\ handled' = handled \cup {e}
  /\ todo' = [todo EXCEPT ![c] = @ \ {e}]
  /\ maxId' = [maxId EXCEPT ![c] = e]
  /\ Goto(c, IF todo[c] # {e} THEN "dispatch" ELSE "delete")
  /\ UNCHANGED <<daemonVars, cursor, parked, lastId, listed, updates, uiVars, faults>>

(* dispatch_event returns: the handler ran, or it raised an exception of   *)
(* its own and _handle_unknown stored the event.  A message is collected   *)
(* each time it is stored; a receipt, a name, a picture or a history batch *)
(* only if a record changes, which at a second dispatch it need not.       *)
Dispatch(c, e) ==
  /\ IsCurrent(c, e)
  /\ e \notin Poison
  /\ \/ /\ handled' = handled \cup {e}
        /\ \/ updates' = [updates EXCEPT ![c] = @ \cup {e}]
           \/ e \in OnChange \cap handled /\ UNCHANGED updates
        /\ UNCHANGED parked
     \/ parked' = parked \cup {e} /\ UNCHANGED <<handled, updates>>
  /\ todo' = [todo EXCEPT ![c] = @ \ {e}]
  /\ maxId' = [maxId EXCEPT ![c] = IF e > @ THEN e ELSE @]
  /\ Goto(c, IF todo[c] # {e} THEN "dispatch"
             ELSE IF c \in Once THEN "delete" ELSE "emit")
  /\ UNCHANGED <<daemonVars, cursor, lastId, listed, uiVars, faults>>

(* What this pass has collected goes to QML.  The push helper has no user  *)
(* interface.                                                              *)
EmitUpdates(c) ==
  /\ pc[c] = "emit"
  /\ shown' = shown \cup updates[c]
  /\ updates' = [updates EXCEPT ![c] = {}]
  /\ Goto(c, "delete")
  /\ UNCHANGED <<daemonVars, recordVars, lastId, listed, todo, maxId, syncing, unsaid, faults>>

DeleteEvents(c) ==
  /\ pc[c] = "delete"
  /\ maxId[c] > lastId[c]
  /\ store' = AfterDelete(maxId[c])
  /\ Goto(c, "save")
  /\ UNCHANGED <<nextId, recordVars, pollVars, uiVars, faults>>

(* Mutations: the cursor is one too far, or counts the batch.              *)
SaveNextId(c) ==
  /\ pc[c] = "save"
  /\ cursor' = maxId[c] + 1
  /\ EndPoll(c)
  /\ UNCHANGED <<daemonVars, handled, parked, shown, faults>>
SaveBatchSize(c) ==
  /\ pc[c] = "save"
  /\ cursor' = Cardinality(listed[c])
  /\ EndPoll(c)
  /\ UNCHANGED <<daemonVars, handled, parked, shown, faults>>

(* The new cursor is stored; a full batch makes the application go on.     *)
SaveCursor(c) ==
  /\ pc[c] = "save"
  /\ cursor' = maxId[c]
  /\ \/ /\ c \in Once \/ Cardinality(listed[c]) < BatchLimit[c]
        /\ EndPoll(c)
     \/ /\ c \notin Once
        /\ Cardinality(listed[c]) >= BatchLimit[c]
        /\ lastId' = [lastId EXCEPT ![c] = maxId[c]]
        /\ Goto(c, "list")
        /\ UNCHANGED <<listed, todo, maxId, updates, syncing, unsaid>>
  /\ UNCHANGED <<daemonVars, handled, parked, shown, faults>>

-----------------------------------------------------------------------------
(* What goes wrong.                                                        *)

Fault == faults < MaxFaults /\ faults' = faults + 1

(* Mutation: a failed call during dispatch only skips the event.           *)
FailureSkipsEvent(c) ==
  /\ pc[c] = "dispatch"
  /\ Fault
  /\ \E e \in todo[c] :
       /\ IsCurrent(c, e)
       /\ todo' = [todo EXCEPT ![c] = @ \ {e}]
       /\ maxId' = [maxId EXCEPT ![c] = e]
       /\ Goto(c, IF todo[c] # {e} THEN "dispatch" ELSE "delete")
  /\ UNCHANGED <<daemonVars, recordVars, lastId, listed, updates, uiVars>>

(* The poll ends between two of its steps: an RPC raises                   *)
(* ConnectionRefusedError, DaemonNotReadyError or DaemonTimeoutError       *)
(* before the daemon did anything, kv.db is locked, or the push helper     *)
(* dies.                                                                   *)
Interrupted(c) ==
  /\ pc[c] # "idle"
  /\ Fault
  /\ EndPoll(c)
  /\ UNCHANGED <<daemonVars, recordVars, shown>>

(* A payload fails validation after some of the emits were made.           *)
EmitFails(c) ==
  /\ pc[c] = "emit"
  /\ Fault
  /\ \E sent \in SUBSET updates[c] : shown' = shown \cup sent
  /\ EndPoll(c)
  /\ UNCHANGED <<daemonVars, recordVars>>

(* The application dies; when it is started again its pages are loaded     *)
(* from the records.                                                       *)
Dies(c) ==
  /\ c \notin Once
  /\ Fault
  /\ shown' = shown \cup handled
  /\ EndPoll(c)
  /\ UNCHANGED <<daemonVars, recordVars>>

(* The daemon deletes, and the reply is lost.                              *)
DeleteReplyLost(c) ==
  /\ pc[c] = "delete"
  /\ maxId[c] > lastId[c]
  /\ Fault
  /\ store' = AfterDelete(maxId[c])
  /\ EndPoll(c)
  /\ UNCHANGED <<nextId, recordVars, shown>>

(* The handler's last RPC raises after all its writes, as HistorySync's    *)
(* prioritize_avatars may: the event is handled and will be seen again,    *)
(* but what it collected is gone with the rest.                            *)
DispatchFailsLate(c, e) ==
  /\ IsCurrent(c, e)
  /\ e \in OnChange \ Poison
  /\ Fault
  /\ handled' = handled \cup {e}
  /\ Unwind(c)
  /\ unsaid' = unsaid \cup updates[c] \cup {e}
  /\ UNCHANGED <<daemonVars, cursor, parked, shown>>

(* Mutation: an event that fails validation is parked like any other.      *)
ParkPoison(c, e) ==
  /\ IsCurrent(c, e)
  /\ e \in Poison
  /\ parked' = parked \cup {e}
  /\ EndPoll(c)
  /\ UNCHANGED <<daemonVars, cursor, handled, shown, faults>>

(* A BoundaryValidationError leaves dispatch_event and ends the poll.      *)
DispatchPoison(c, e) ==
  /\ IsCurrent(c, e)
  /\ e \in Poison
  /\ EndPoll(c)
  /\ UNCHANGED <<daemonVars, recordVars, shown, faults>>

-----------------------------------------------------------------------------
Step(c) ==
  \/ ListEvents(c)
  \/ \E e \in todo[c] : Dispatch(c, e) \/ DispatchPoison(c, e)
  \/ EmitUpdates(c)
  \/ DeleteEvents(c)
  \/ SaveCursor(c)

Failure(c) ==
  \/ Interrupted(c)
  \/ EmitFails(c)
  \/ Dies(c)
  \/ DeleteReplyLost(c)
  \/ \E e \in todo[c] : DispatchFailsLate(c, e)

Next ==
  \/ Insert
  \/ \E c \in Consumers : BeginPoll(c) \/ Step(c) \/ Failure(c)

Spec == Init /\ [][Next]_vars

(* A poll that has begun goes on, and the application begins one every 2 s.*)
(* Nothing makes the daemon store an event or the push service start a     *)
(* helper, and no failure has to happen.                                   *)
Fairness ==
  /\ \A c \in Consumers : WF_vars(Step(c))
  /\ \A c \in Consumers \ Once : WF_vars(BeginPoll(c))

FairSpec == Spec /\ Fairness

-----------------------------------------------------------------------------
(* Properties.                                                             *)

(* Every variable has its type.                                            *)
TypeOK ==
  /\ nextId \in Nat \ {0}
  /\ store \subseteq Ids
  /\ cursor \in Nat
  /\ handled \subseteq Ids
  /\ parked \subseteq Ids
  /\ pc \in [Consumers -> PollStates]
  /\ lastId \in [Consumers -> Nat]
  /\ listed \in [Consumers -> SUBSET Ids]
  /\ todo \in [Consumers -> SUBSET Ids]
  /\ maxId \in [Consumers -> Nat]
  /\ updates \in [Consumers -> SUBSET Ids]
  /\ syncing \in [Consumers -> BOOLEAN]
  /\ shown \subseteq Ids
  /\ unsaid \subseteq Ids
  /\ faults \in 0 .. MaxFaults

(* No event is lost: one the daemon no longer holds has left its effect or *)
(* an unknown_event record in the application, whatever crashes, failed    *)
(* calls and concurrent polls came between the list and the delete.        *)
NoLoss == Ids \ store \subseteq Delivered

(* LAST_EVENT_ID never covers an event that was not dispatched: such an    *)
(* event would be skipped by every later list.                             *)
CursorCovered == 1 .. cursor \subseteq Delivered

(* No event is hidden: nothing the daemon holds lies at or below the       *)
(* cursor, where no list would ever find it, although the daemon's delete  *)
(* and the cursor's write are commits of two processes and a slower poll   *)
(* may write an older cursor.                                              *)
NothingHidden == \A e \in store : e > cursor

(* Events take effect for the first time in the order the daemon stored    *)
(* them: an edit is never handled before the message it edits.             *)
FirstDeliveryInOrder == \A e \in Delivered : 1 .. e - 1 \subseteq Delivered

(* What a poll has yet to dispatch is still in the daemon's store, so an   *)
(* acknowledged event is not applied again over later ones.  It needs a    *)
(* single consumer: with the push helper beside the application a slower   *)
(* poll holds events the other one has already acknowledged.               *)
NoStaleDispatch == \A c \in Consumers : todo[c] \subseteq store

(* With a single consumer, the daemon forgets an event that was handled    *)
(* only when the pages show what it changed.  The exception is what a poll *)
(* collected and lost when it ended half way: a second dispatch of an event*)
(* that tells only what it changes has nothing to tell, and it is          *)
(* acknowledged all the same.                                              *)
ShownBeforeForgotten ==
  Ids \ store \subseteq shown \cup parked \cup (OnChange \cap unsaid)

(* With a single consumer the stored cursor never goes back.               *)
CursorMonotone == [][cursor' >= cursor]_cursor

(* The first event that fails validation blocks every later one: none of   *)
(* them takes effect, and each stays in the daemon's store.                *)
BlockedBehindPoison ==
  \A p \in Poison : \A e \in Ids : e >= p => e \notin Delivered /\ e \in store

(* Every event stored is eventually handled or parked, unless an event     *)
(* that fails validation precedes it.                                      *)
EventuallyDelivered ==
  \A e \in 1 .. MaxEvents :
    (\A p \in Poison : e < p) => (e \in store ~> e \in Delivered)

(* Without events that fail validation the daemon's store is drained.      *)
EventuallyForgotten == \A e \in 1 .. MaxEvents : (e \in store ~> e \notin store)

(* The inductive invariant behind the four: what a poll has covered (its   *)
(* last_id and max_id) was delivered, an event it has not reached is       *)
(* preceded, in the reply or already delivered, by every earlier one, and  *)
(* what it is about to store as cursor is deleted.                         *)
PollCovered ==
  \A c \in Consumers :
    /\ 1 .. lastId[c] \subseteq Delivered
    /\ 1 .. maxId[c] \subseteq Delivered
NoGapBefore ==
  \A c \in Consumers : \A e \in todo[c] : 1 .. e - 1 \subseteq todo[c] \cup Delivered
DeletedBeforeSaved ==
  \A c \in Consumers : pc[c] = "save" => \A e \in store : e > maxId[c]
IInv ==
  /\ TypeOK
  /\ NoLoss
  /\ CursorCovered
  /\ NothingHidden
  /\ DeletedBeforeSaved
  /\ FirstDeliveryInOrder
  /\ PollCovered
  /\ NoGapBefore

(* The pipeline implements the log's promise.                              *)
Log == INSTANCE EventLog WITH
  produced <- nextId - 1, delivered <- Delivered, forgotten <- Ids \ store

ImplementsLog == Log!Spec
=============================================================================
