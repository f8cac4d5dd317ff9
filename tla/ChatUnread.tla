------------------------------ MODULE ChatUnread ------------------------------
(***************************************************************************)
(* The unread count of a chat and the unread total shown on the icon.      *)
(*                                                                         *)
(* A chat's record holds its unread_count, first_unread_message_id and the *)
(* time of its last message; unread_total is a record of its own.  The     *)
(* event loop changes them as messages and receipts come in, the QML       *)
(* worker thread as the user opens, mutes or archives a chat.  Every       *)
(* change reads a record, computes a new one in memory and puts it back in *)
(* a later commit: nothing stops another thread's commit in between from   *)
(* being overwritten.                                                      *)
(*                                                                         *)
(* Messages are numbered in the order of their timestamps, and may come in *)
(* late or twice.  What an operation changes in a chat's record besides    *)
(* the three fields (its name, photo, mute, preview) is left out: it shows *)
(* as a record written back as it was read.                                *)
(***************************************************************************)
EXTENDS Integers, FiniteSets, FiniteSetsExt

CONSTANTS
  Actors,       \* the threads: the event loop and the QML worker
  Dispatchers,  \* the ones that dispatch events
  Chats,
  Msgs,         \* incoming messages, numbered by timestamp
  ChatOf,       \* the chat of each message
  MaxOps,       \* bound: operations begun in a behaviour
  MaxCrashes    \* bound: crashes of the application

ASSUME ActorsAssumption == Dispatchers \subseteq Actors
ASSUME ChatsAssumption == IsFiniteSet(Chats)   \* a table has finitely many rows
ASSUME MsgsAssumption ==
  /\ Msgs \subseteq Nat \ {0}
  /\ IsFiniteSet(Msgs)
  /\ ChatOf \in [Msgs -> Chats]
ASSUME BoundAssumption == MaxOps \in Nat /\ MaxCrashes \in Nat

VARIABLES
  \* kv.db
  stored,    \* incoming messages with a record
  read,      \* the ones whose read_receipt is READ
  chat,      \* the chat records
  total,     \* unread_total
  \* the memory of each thread
  pc,        \* what it does next
  kind,      \* the operation it is in
  msg,       \* the message it stores
  fresh,     \* not already_stored
  keys,      \* the messages it is to mark as read
  mine,      \* the chat records it has read, then computed, and will put
  amount,    \* what it adds to the total
  seen,      \* the total it has read
  \* environment and history
  up,        \* the application runs
  overlap,   \* two operations have overlapped since it was started
  ops, crashes

kvVars == <<stored, read, chat, total>>
memoryVars == <<kind, msg, fresh, keys, mine, amount, seen>>
envVars == <<up, overlap, ops, crashes>>
vars == <<kvVars, pc, memoryVars, envVars>>

NoMsg == 0
ChatRecord == [unread : Nat, first : Msgs \cup {NoMsg}, last : Msgs \cup {0}]
Kinds == {"none", "message", "receipt", "open", "touch"}
States == {"idle", "put", "upsert", "keys", "clear", "total", "totalPut", "chatPut"}
NoRecords == [c \in {} |-> 0]

Init ==
  /\ stored = {}
  /\ read = {}
  /\ chat = [c \in Chats |-> [unread |-> 0, first |-> NoMsg, last |-> 0]]
  /\ total = 0
  /\ pc = [a \in Actors |-> "idle"]
  /\ kind = [a \in Actors |-> "none"]
  /\ msg = [a \in Actors |-> NoMsg]
  /\ fresh = [a \in Actors |-> FALSE]
  /\ keys = [a \in Actors |-> {}]
  /\ mine = [a \in Actors |-> NoRecords]
  /\ amount = [a \in Actors |-> 0]
  /\ seen = [a \in Actors |-> 0]
  /\ up = TRUE
  /\ overlap = FALSE
  /\ ops = 0
  /\ crashes = 0

Goto(a, state) == pc' = [pc EXCEPT ![a] = state]
MessagesOf(c) == {m \in Msgs : ChatOf[m] = c}

-----------------------------------------------------------------------------
(* How an operation begins.                                                *)

Begin(a, k) ==
  /\ up /\ pc[a] = "idle" /\ ops < MaxOps
  /\ ops' = ops + 1
  /\ kind' = [kind EXCEPT ![a] = k]
  /\ overlap' = (overlap \/ \E b \in Actors \ {a} : pc[b] # "idle")
  /\ UNCHANGED <<up, crashes>>

(* store_message looks the message up.                                     *)
BeginMessage(a, m) ==
  /\ a \in Dispatchers
  /\ Begin(a, "message")
  /\ msg' = [msg EXCEPT ![a] = m]
  /\ fresh' = [fresh EXCEPT ![a] = m \notin stored]
  /\ Goto(a, "put")
  /\ UNCHANGED <<kvVars, keys, mine, amount, seen>>

(* process_receipt: S was read on another device.                          *)
BeginReceipt(a, c, S) ==
  /\ a \in Dispatchers
  /\ S # {} /\ S \subseteq stored \cap MessagesOf(c)
  /\ Begin(a, "receipt")
  /\ keys' = [keys EXCEPT ![a] = S]
  /\ mine' = [mine EXCEPT ![a] = [x \in {c} |-> chat[c]]]
  /\ Goto(a, "keys")
  /\ UNCHANGED <<kvVars, msg, fresh, amount, seen>>

(* mark_messages_as_read collects the messages not read; its calls to the  *)
(* daemon follow.                                                          *)
BeginOpen(a, c) ==
  /\ a \notin Dispatchers
  /\ Begin(a, "open")
  /\ keys' = [keys EXCEPT ![a] = (stored \cap MessagesOf(c)) \ read]
  /\ mine' = [mine EXCEPT ![a] = [x \in {c} |-> chat[c]]]
  /\ Goto(a, "keys")
  /\ UNCHANGED <<kvVars, msg, fresh, amount, seen>>

(* toggle_mute and toggle_archive read one chat, ChatListUpdateEvent reads *)
(* all of them and puts the ones whose name or photo changed; so do an     *)
(* edit, which changes the preview, and upsert_identity_chat, which a new  *)
(* message calls first for the chat of its sender.                         *)
BeginTouch(a, C) ==
  /\ C # {} /\ (a \in Dispatchers \/ \E c \in C : C = {c})
  /\ Begin(a, "touch")
  /\ mine' = [mine EXCEPT ![a] = [c \in C |-> chat[c]]]
  /\ Goto(a, "chatPut")
  /\ UNCHANGED <<kvVars, msg, fresh, keys, amount, seen>>

-----------------------------------------------------------------------------
(* The steps of an operation.                                              *)

(* The message's record is put, over the one it may have had.              *)
PutMessage(a) ==
  /\ pc[a] = "put"
  /\ stored' = stored \cup {msg[a]}
  /\ read' = read \ {msg[a]}
  /\ Goto(a, "upsert")
  /\ UNCHANGED <<chat, total, memoryVars, envVars>>

(* Mutations: every message is counted, whether it is new or not; and      *)
(* first_unread_message_id follows the newest message.                     *)
CountAlways(r, m, isNew) ==
  IF m < r.last THEN r
  ELSE [unread |-> r.unread + 1, first |-> IF r.unread = 0 THEN m ELSE r.first, last |-> m]
FirstFollows(r, m, isNew) ==
  IF m < r.last THEN r ELSE [unread |-> IF isNew THEN r.unread + 1 ELSE r.unread, first |-> m, last |-> m]

(* The chat's record with message m, unless a later one came before.       *)
WithMessage(r, m, isNew) ==
  IF m < r.last THEN r
  ELSE [unread |-> IF isNew THEN r.unread + 1 ELSE r.unread,
        first |-> IF isNew /\ r.unread = 0 THEN m ELSE r.first,
        last |-> m]

(* upsert_chat reads the chat's record and computes the new one.           *)
UpsertChat(a) ==
  LET c == ChatOf[msg[a]]
      r == WithMessage(chat[c], msg[a], fresh[a])
  IN
  /\ pc[a] = "upsert"
  /\ mine' = [mine EXCEPT ![a] = [x \in {c} |-> r]]
  /\ amount' = [amount EXCEPT ![a] = r.unread - chat[c].unread]
  /\ Goto(a, IF r.unread # chat[c].unread THEN "total" ELSE "chatPut")
  /\ UNCHANGED <<kvVars, kind, msg, fresh, keys, seen, envVars>>

(* The messages become READ, by _update_messages or after the calls of     *)
(* mark_messages_as_read.                                                  *)
MarkMessages(a) ==
  /\ pc[a] = "keys"
  /\ read' = read \cup keys[a]
  /\ Goto(a, "clear")
  /\ UNCHANGED <<stored, chat, total, memoryVars, envVars>>

(* Mutation: the total goes down by one, whatever the chat's count was.    *)
CountOne(r) == IF r.unread > 0 THEN 1 ELSE 0

(* What clearing a chat takes off the total.                               *)
CountOf(r) == r.unread

(* The operation is over.                                                  *)
Ended(a) ==
  /\ Goto(a, "idle")
  /\ kind' = [kind EXCEPT ![a] = "none"]
  /\ msg' = [msg EXCEPT ![a] = NoMsg]
  /\ fresh' = [fresh EXCEPT ![a] = FALSE]
  /\ keys' = [keys EXCEPT ![a] = {}]
  /\ mine' = [mine EXCEPT ![a] = NoRecords]
  /\ amount' = [amount EXCEPT ![a] = 0]
  /\ seen' = [seen EXCEPT ![a] = 0]

(* The chat's record is read and its count cleared: a receipt lowers the   *)
(* total before it puts the chat, opening the chat after.                  *)
ClearChat(a) ==
  /\ pc[a] = "clear"
  /\ \E c \in DOMAIN mine[a] :
       \/ /\ chat[c].unread = 0 /\ chat[c].first = NoMsg
          /\ Ended(a)
       \/ /\ chat[c].unread > 0 \/ chat[c].first # NoMsg
          /\ mine' = [mine EXCEPT ![a] =
                        [x \in {c} |-> [chat[c] EXCEPT !.unread = 0, !.first = NoMsg]]]
          /\ amount' = [amount EXCEPT ![a] = 0 - CountOf(chat[c])]
          /\ Goto(a, IF kind[a] = "receipt" THEN "total" ELSE "chatPut")
          /\ UNCHANGED <<kind, msg, fresh, keys, seen>>
  /\ UNCHANGED <<kvVars, envVars>>

(* increment_unread_total reads the total ...                              *)
ReadTotal(a) ==
  /\ pc[a] = "total"
  /\ seen' = [seen EXCEPT ![a] = total]
  /\ Goto(a, "totalPut")
  /\ UNCHANGED <<kvVars, kind, msg, fresh, keys, mine, amount, envVars>>

(* Mutation: the total may fall below zero.                                *)
Unbounded(n) == n

AtLeastZero(n) == IF n < 0 THEN 0 ELSE n

(* ... and puts it.                                                        *)
PutTotal(a) ==
  /\ pc[a] = "totalPut"
  /\ total' = AtLeastZero(seen[a] + amount[a])
  /\ IF kind[a] = "open"
       THEN Ended(a)
       ELSE Goto(a, "chatPut") /\ UNCHANGED memoryVars
  /\ UNCHANGED <<stored, read, chat, envVars>>

(* A chat's record is put.                                                 *)
PutChat(a) ==
  /\ pc[a] = "chatPut"
  /\ \E c \in DOMAIN mine[a] :
       /\ chat' = [chat EXCEPT ![c] = mine[a][c]]
       /\ IF DOMAIN mine[a] # {c}
            THEN /\ mine' = [mine EXCEPT ![a] = [x \in DOMAIN mine[a] \ {c} |-> mine[a][x]]]
                 /\ UNCHANGED <<pc, kind, msg, fresh, keys, amount, seen>>
            ELSE IF kind[a] = "open"
                   THEN Goto(a, "total") /\ UNCHANGED memoryVars
                   ELSE Ended(a)
  /\ UNCHANGED <<stored, read, total, envVars>>

-----------------------------------------------------------------------------
(* The application dies, with every operation it is in.                    *)
Crash ==
  /\ up
  /\ crashes < MaxCrashes
  /\ up' = FALSE
  /\ crashes' = crashes + 1
  /\ pc' = [a \in Actors |-> "idle"]
  /\ kind' = [a \in Actors |-> "none"]
  /\ msg' = [a \in Actors |-> NoMsg]
  /\ fresh' = [a \in Actors |-> FALSE]
  /\ keys' = [a \in Actors |-> {}]
  /\ mine' = [a \in Actors |-> NoRecords]
  /\ amount' = [a \in Actors |-> 0]
  /\ seen' = [a \in Actors |-> 0]
  /\ UNCHANGED <<kvVars, overlap, ops>>

Unreads == SumFunction([c \in Chats |-> chat[c].unread])

(* Mutation: the total is not reconciled.                                  *)
RestartOnly ==
  /\ ~up
  /\ up' = TRUE
  /\ overlap' = FALSE
  /\ UNCHANGED <<kvVars, pc, memoryVars, ops, crashes>>

(* start_event_loop reconciles the total before anything else runs.        *)
Restart ==
  /\ ~up
  /\ total' = Unreads
  /\ up' = TRUE
  /\ overlap' = FALSE
  /\ UNCHANGED <<stored, read, chat, pc, memoryVars, ops, crashes>>

-----------------------------------------------------------------------------
Step(a) ==
  \/ PutMessage(a) \/ UpsertChat(a) \/ MarkMessages(a) \/ ClearChat(a)
  \/ ReadTotal(a) \/ PutTotal(a) \/ PutChat(a)

Next ==
  \/ \E a \in Actors :
       \/ \E m \in Msgs : BeginMessage(a, m)
       \/ \E c \in Chats : BeginOpen(a, c) \/ \E S \in SUBSET Msgs : BeginReceipt(a, c, S)
       \/ \E C \in SUBSET Chats : BeginTouch(a, C)
       \/ Step(a)
  \/ Crash \/ Restart

Spec == Init /\ [][Next]_vars

-----------------------------------------------------------------------------
(* Properties.                                                             *)

(* Every variable has its type.                                            *)
TypeOK ==
  /\ stored \subseteq Msgs
  /\ read \subseteq stored
  /\ chat \in [Chats -> ChatRecord]
  /\ total \in Nat
  /\ pc \in [Actors -> States]
  /\ kind \in [Actors -> Kinds]
  /\ msg \in [Actors -> Msgs \cup {NoMsg}]
  /\ fresh \in [Actors -> BOOLEAN]
  /\ keys \in [Actors -> SUBSET stored]
  /\ \A a \in Actors :
       /\ DOMAIN mine[a] \subseteq Chats
       /\ \A c \in DOMAIN mine[a] : mine[a][c] \in ChatRecord
  /\ amount \in [Actors -> Int]
  /\ seen \in [Actors -> Nat]
  /\ up \in BOOLEAN /\ overlap \in BOOLEAN
  /\ ops \in 0 .. MaxOps /\ crashes \in 0 .. MaxCrashes

(* The "new messages" divider has a message to sit above exactly when the  *)
(* chat shows an unread count, whatever stale records are written back.    *)
DividerMatchesCount ==
  \A c \in Chats : /\ (chat[c].unread = 0) <=> (chat[c].first = NoMsg)
                   /\ chat[c].first # NoMsg => chat[c].first \in stored

(* No message is counted twice: with one dispatcher, a chat never shows    *)
(* more unread messages than it has received, through redeliveries,        *)
(* crashes and stale records.                                              *)
CountedOnce ==
  \A c \in Chats : chat[c].unread <= Cardinality(stored \cap MessagesOf(c))

(* While no two operations overlap, the total is the sum of the counts     *)
(* whenever no operation is under way; a crash anywhere, and what          *)
(* overlapping operations did before it, are made good by the restart.     *)
TotalExact ==
  up /\ ~overlap /\ (\A a \in Actors : pc[a] = "idle") => total = Unreads

(* A chat read stays read: with nothing under way, a chat shows no more    *)
(* unread messages than it holds.                                          *)
NoPhantomUnread ==
  (\A a \in Actors : pc[a] = "idle") =>
    \A c \in Chats : chat[c].unread <= Cardinality((stored \cap MessagesOf(c)) \ read)
=============================================================================
