------------------------------ MODULE HistorySync ------------------------------
(***************************************************************************)
(* What a HistorySync event does to a chat that live events, older         *)
(* versions of the application and the user have also written.             *)
(*                                                                         *)
(* handle_history_sync goes through the conversations of the event and     *)
(* then through its push names.  It reads kv.db as it goes and buffers     *)
(* what it puts (put_cached); commit_cached writes the buffer in one       *)
(* transaction, and reconcile_unread_total follows.  A read does not see   *)
(* what the same event has buffered, and the user's calls go on in the     *)
(* meantime.  After a crash the event is dispatched again.                 *)
(*                                                                         *)
(* One chat, with a contact.  A message is its timestamp; its record is    *)
(* under the key made of it (exact) or under another one, and an index     *)
(* record may or may not lead to it.  What is in a message is its Content. *)
(***************************************************************************)
EXTENDS Contents, Integers, Sequences, FiniteSetsExt

CONSTANTS
  Msgs,          \* the messages of the chat
  Own,           \* the ones sent from this account
  ContentOf,     \* what is in each
  Stubs,         \* the ones history lists without their content
  Batches,       \* the HistorySync events that come in
  MaxBatches,    \* bound: history events
  MaxLive,       \* bound: live events
  MaxCalls,      \* bound: calls of the user
  MaxCrashes     \* bound: crashes

Statuses == {1, 3}     \* what history says of an own message: sent, read
Conversation == [msgs : SUBSET Msgs, unread : Nat, status : Statuses, named : BOOLEAN,
                 time : Nat]   \* conversationTimestamp, 0 if it has none

ASSUME MsgsAssumption ==
  /\ Msgs \subseteq Nat \ {0} /\ IsFiniteSet(Msgs) /\ Own \subseteq Msgs /\ Stubs \subseteq Msgs
  /\ ContentOf \in [Msgs -> Content]
ASSUME BatchesAssumption ==
  \A b \in Batches : b.push \in BOOLEAN /\ b.convs \in Seq(Conversation)
ASSUME BoundAssumption ==
  MaxBatches \in Nat /\ MaxLive \in Nat /\ MaxCalls \in Nat /\ MaxCrashes \in Nat

VARIABLES
  \* kv.db
  row,       \* the records of each message, by the kind of its key
  index,     \* where the index record of each message leads
  chat,      \* the chat's record
  total,     \* unread_total
  \* handle_history_sync
  pc,        \* what it does next
  batch,     \* the event
  conv,      \* which of its conversations it is at
  todo,      \* the messages of that conversation still to process
  buffer,    \* what is to be committed
  sum,       \* the sum reconcile_unread_total has read
  \* history and bounds
  edited,    \* messages edited in the application
  raced,     \* a call came between two steps of the handler
  twice,     \* an event has mentioned the chat more than once
  batches, live, calls, crashes

kvVars == <<row, index, chat, total>>
loopVars == <<pc, batch, conv, todo, buffer, sum>>
histVars == <<edited, raced, twice>>
bounds == <<batches, live, calls, crashes>>
vars == <<kvVars, loopVars, histVars, bounds>>

Keys == {"exact", "other"}
Row == [body : {"original", "edited"}, receipt : 0 .. 3]
NoRow == [body |-> "none", receipt |-> 0]
\* last is the time the chat is listed at, and shown the message it previews.
Chat == [last : Nat, shown : Msgs \cup {0}, unread : Nat, divider : Msgs \cup {0},
         full : BOOLEAN, push : BOOLEAN, at : Nat, name : {"jid", "conversation", "push", "full"}]
NoChat == [name |-> "none"]
NoBatch == [convs |-> <<>>, push |-> FALSE]
Empty == [rows |-> {}, index |-> {}, chat |-> NoChat]

Stored == {m \in Msgs : \E k \in Keys : row[m][k] # NoRow}
Found(m) == index[m] # "none" /\ row[m][index[m]] # NoRow
Incoming == Msgs \ Own

(* The messages _process_messages keeps: not a stub, of a kind that shows. *)
Kept(msgs) == {m \in msgs \ Stubs : HistoryType(ContentOf[m]) # "none"}

(* preferred_contact_name                                                  *)
Preferred(c, fallback) == IF c.full THEN "full" ELSE IF c.push THEN "push" ELSE fallback

BlankChat == [last |-> 0, shown |-> 0, unread |-> 0, divider |-> 0, full |-> FALSE, push |-> FALSE,
              at |-> 0, name |-> "jid"]

(* kv.db as older versions and crashes may have left it: each message under*)
(* either key or absent, with or without its index record.                 *)
Init ==
  /\ \E k \in [Kept(Msgs) -> Keys \cup {"none"}], indexed \in SUBSET Kept(Msgs) :
       /\ row = [m \in Msgs |-> [j \in Keys |->
            IF m \in Kept(Msgs) /\ k[m] = j
              THEN [body |-> "original", receipt |-> IF m \in Own THEN 1 ELSE 3] ELSE NoRow]]
       /\ index = [m \in Msgs |-> IF m \in indexed THEN k[m] ELSE "none"]
       /\ chat = IF Stored = {} THEN NoChat
                                ELSE [BlankChat EXCEPT !.last = Max(Stored), !.shown = Max(Stored)]
  /\ total = 0
  /\ pc = "idle" /\ batch = NoBatch /\ conv = 1 /\ todo = {} /\ buffer = Empty /\ sum = 0
  /\ edited = {} /\ raced = FALSE /\ twice = FALSE
  /\ batches = 0 /\ live = 0 /\ calls = 0 /\ crashes = 0

-----------------------------------------------------------------------------
(* Live events, between two history events.                                *)

(* update_chat_name: only what is not older than the last change of a name.*)
Renamed(c, time, full, push) ==
  LET new == [c EXCEPT !.full = @ \/ full, !.push = @ \/ push] IN
  IF time < c.at \/ new = c THEN c
                            ELSE [new EXCEPT !.at = time, !.name = Preferred(new, c.name)]

(* upsert_chat, counting m or not.                                         *)
WithLive(m, count) ==
  LET c == IF chat = NoChat THEN [BlankChat EXCEPT !.at = m] ELSE chat
      newest == m >= c.last
      new == count /\ newest /\ m \in Incoming
      moved == [c EXCEPT !.last = IF newest THEN m ELSE @,
                         !.shown = IF newest THEN m ELSE @,
                         !.unread = IF new THEN @ + 1 ELSE @,
                         !.divider = IF new /\ c.unread = 0 THEN m ELSE @]
  IN Renamed(moved, m, FALSE, m \in Incoming)

(* A live message.  Left out: an event redelivered across an upgrade, whose*)
(* record the older version had stored under another key.                  *)
LiveMessage(m) ==
  /\ pc = "idle" /\ live < MaxLive
  /\ m \in Kept(Msgs) /\ row[m]["other"] = NoRow
  /\ live' = live + 1
  /\ row' = [row EXCEPT ![m]["exact"] = [body |-> "original", receipt |-> IF m \in Own THEN 1 ELSE 0]]
  /\ index' = [index EXCEPT ![m] = "exact"]
  /\ edited' = edited \ {m}
  /\ LET new == WithLive(m, row[m]["exact"] = NoRow) IN
       /\ chat' = new
       /\ total' = total + new.unread - (IF chat = NoChat THEN 0 ELSE chat.unread)
  /\ UNCHANGED <<loopVars, raced, twice, batches, calls, crashes>>

(* _handle_contact, _handle_push_name: only a contact makes a chat.        *)
NameEvent(kind, time) ==
  /\ pc = "idle" /\ live < MaxLive
  /\ kind = "contact" \/ chat # NoChat
  /\ live' = live + 1
  /\ chat' = IF chat = NoChat
               THEN [BlankChat EXCEPT !.full = TRUE, !.at = time, !.name = "full"]
               ELSE Renamed(chat, time, kind = "contact", kind = "push")
  /\ UNCHANGED <<row, index, total, loopVars, histVars, batches, calls, crashes>>

-----------------------------------------------------------------------------
(* The user's calls, each in one step: how their own reads and puts        *)
(* interleave is ChatUnread's and MessageStore's.                          *)

Call ==
  /\ calls < MaxCalls /\ calls' = calls + 1
  /\ raced' = (raced \/ pc # "idle")
  /\ UNCHANGED <<loopVars, twice, batches, live, crashes>>

(* Mutation: the total is not kept from going below zero.                  *)
LoweredFreely(n) == total - n

(* adjust_unread_total                                                     *)
Lowered(n) == Max({0, total - n})

(* mark_messages_as_read                                                   *)
MarkAsRead ==
  /\ Call
  /\ row' = [m \in Msgs |-> [k \in Keys |->
       IF m \in Incoming /\ row[m][k] # NoRow THEN [row[m][k] EXCEPT !.receipt = 3] ELSE row[m][k]]]
  /\ chat # NoChat
  /\ chat' = [chat EXCEPT !.unread = 0, !.divider = 0]
  /\ total' = Lowered(chat.unread)
  /\ UNCHANGED <<index, edited>>

(* edit_text_message                                                       *)
EditTextMessage(m) ==
  /\ Call
  /\ m \in Own /\ Found(m) /\ LiveType(ContentOf[m]) = "text"
  /\ row' = [row EXCEPT ![m][index[m]].body = "edited"]
  /\ edited' = edited \cup {m}
  /\ UNCHANGED <<index, chat, total>>

-----------------------------------------------------------------------------
(* handle_history_sync.                                                    *)

(* The conversation being processed, and what it says of unread messages:  *)
(* _conversation_unread_state.  Mutation: one too many.                    *)
Conv == batch.convs[conv]
UnreadAndOne(c) ==
  LET incoming == Kept(c.msgs) \cap Incoming IN
  {m \in incoming : Cardinality({n \in incoming : n > m}) <= c.unread}

Unread(c) ==
  LET incoming == Kept(c.msgs) \cap Incoming IN
  {m \in incoming : Cardinality({n \in incoming : n > m}) < c.unread}

FirstUnread(c) == IF Unread(c) = {} THEN 0 ELSE Min(Unread(c))

(* The chat is mentioned more than once by the event.                      *)
Mentions(b) == Len(b.convs) + (IF b.push THEN 1 ELSE 0)

Start(b) ==
  /\ pc' = IF b.convs = <<>> THEN "names" ELSE "messages"
  /\ batch' = b /\ conv' = 1 /\ buffer' = Empty /\ sum' = 0
  /\ todo' = IF b.convs = <<>> THEN {} ELSE Kept(b.convs[1].msgs)

Begin(b) ==
  /\ pc = "idle" /\ batches < MaxBatches
  /\ batches' = batches + 1
  /\ twice' = (twice \/ Mentions(b) > 1)
  /\ Start(b)
  /\ UNCHANGED <<kvVars, edited, raced, live, calls, crashes>>

(* Mutation: a record without an index is not looked for.                  *)
LocateByIndex(m) == IF Found(m) THEN index[m] ELSE "none"

(* The lookups of _process_messages: by the index, by the exact key, by    *)
(* going through every record of the chat.                                 *)
Locate(m) ==
  IF Found(m) THEN index[m]
  ELSE IF row[m]["exact"] # NoRow THEN "exact"
  ELSE IF row[m]["other"] # NoRow THEN "other" ELSE "none"

(* The receipt history gives: to an incoming message, unread or read.      *)
HistoryReceipt(c, m) == IF m \in Own THEN c.status ELSE IF m \in Unread(c) THEN 0 ELSE 3

(* A message that is stored keeps all of its record but the receipt.       *)
(* Mutation: the record is replaced.                                       *)
Replaced(r, receipt) == [body |-> "original", receipt |-> receipt]

Merged(r, receipt) == [r EXCEPT !.receipt = receipt]

ProcessMessage(m) ==
  LET at == Locate(m)
      receipt == HistoryReceipt(Conv, m)
      key == IF at = "none" THEN "exact" ELSE at
      new == IF at = "none" THEN [body |-> "original", receipt |-> receipt]
                            ELSE Merged(row[m][at], receipt)
      rows == IF new = row[m][key] THEN {} ELSE { <<m, key, new>> }
      \* an index record for a new message; for all of them after a scan
      links == IF Found(m) THEN {}
               ELSE { <<m, key>> } \cup
                    IF row[m]["exact"] # NoRow THEN {}
                    ELSE { l \in Msgs \X Keys : row[l[1]][l[2]] # NoRow }
  IN
  /\ pc = "messages" /\ m \in todo
  /\ todo' = todo \ {m}
  /\ buffer' = [buffer EXCEPT
       !.rows = {r \in @ : r[1] # m \/ rows = {}} \cup rows,
       !.index = {l \in @ : l[1] \notin {k[1] : k \in links}} \cup links]
  /\ index' = IF Found(m) \/ index[m] = "none" THEN index ELSE [index EXCEPT ![m] = "none"]
  /\ UNCHANGED <<row, chat, total, pc, batch, conv, sum, histVars, bounds>>

(* The newest message the conversation carries; a preview it has.          *)
Latest(c) == IF Kept(c.msgs) = {} THEN 0 ELSE Max(Kept(c.msgs))
Previewed(c) == Latest(c) # 0 /\ HistoryPreview(ContentOf[Latest(c)]) # ""

(* The chat a conversation makes.  One that carries no message kept dates  *)
(* it by its own time, with an empty preview; without a time it makes none.*)
NewChat(c) ==
  IF Latest(c) = 0 /\ c.time = 0 THEN NoChat
    ELSE [BlankChat EXCEPT !.last = IF Latest(c) # 0 THEN Latest(c) ELSE c.time,
                           !.shown = Latest(c), !.unread = c.unread, !.divider = FirstUnread(c),
                           !.name = IF c.named THEN "conversation" ELSE "jid"]

(* Mutation: the newest message of the conversation is taken for the       *)
(* newest of the chat.                                                     *)
ChunkShown(c) ==
  IF chat = NoChat THEN NewChat(c)
    ELSE [chat EXCEPT !.last = IF Previewed(c) THEN Latest(c) ELSE @,
                      !.shown = IF Previewed(c) THEN Latest(c) ELSE @,
                      !.unread = c.unread, !.divider = FirstUnread(c)]

MergedChat(c) ==
  LET newer == Latest(c) > chat.last /\ Previewed(c) IN
  IF chat = NoChat THEN NewChat(c)
    ELSE [chat EXCEPT !.last = IF newer THEN Latest(c) ELSE @,
                      !.shown = IF newer THEN Latest(c) ELSE @,
                      !.unread = c.unread, !.divider = FirstUnread(c)]

(* _process_conversation; a chat that would not change is not put.         *)
ProcessConversation ==
  LET more == conv < Len(batch.convs)
      new == MergedChat(Conv) IN
  /\ pc = "messages" /\ todo = {}
  /\ buffer' = IF new = chat THEN buffer ELSE [buffer EXCEPT !.chat = new]
  /\ IF more THEN /\ conv' = conv + 1 /\ pc' = pc
                  /\ todo' = Kept(batch.convs[conv + 1].msgs)
             ELSE /\ pc' = "names" /\ UNCHANGED <<conv, todo>>
  /\ UNCHANGED <<kvVars, batch, sum, histVars, bounds>>

(* _process_pushnames: a push name is added to a chat without one, and     *)
(* shown if the chat had no name but its number.                           *)
Pushed(c) ==
  IF c.push THEN c ELSE [c EXCEPT !.push = TRUE, !.name = IF @ = "jid" THEN "push" ELSE @]

ProcessPushName ==
  LET old == IF chat = NoChat THEN BlankChat ELSE chat IN
  /\ pc = "names"
  /\ pc' = "commit"
  /\ buffer' = IF batch.push /\ ~old.push THEN [buffer EXCEPT !.chat = Pushed(old)] ELSE buffer
  /\ UNCHANGED <<kvVars, batch, conv, todo, sum, histVars, bounds>>

(* commit_cached: everything, or nothing; of two puts the later wins.      *)
CommitCached ==
  LET put(m, k) == {r \in buffer.rows : r[1] = m /\ r[2] = k}
      link(m) == {l \in buffer.index : l[1] = m} IN
  /\ pc = "commit"
  /\ row' = [m \in Msgs |-> [k \in Keys |->
       IF put(m, k) = {} THEN row[m][k] ELSE (CHOOSE r \in put(m, k) : TRUE)[3]]]
  /\ index' = [m \in Msgs |-> IF link(m) = {} THEN index[m] ELSE (CHOOSE l \in link(m) : TRUE)[2]]
  /\ chat' = IF buffer.chat = NoChat THEN chat ELSE buffer.chat
  /\ pc' = "sum"
  /\ UNCHANGED <<total, batch, conv, todo, buffer, sum, histVars, bounds>>

(* reconcile_unread_total: every chat is read, then the total is put.      *)
SumUnread ==
  /\ pc = "sum" /\ pc' = "total"
  /\ sum' = IF chat = NoChat THEN 0 ELSE chat.unread
  /\ UNCHANGED <<kvVars, batch, conv, todo, buffer, histVars, bounds>>
End ==
  /\ pc' = "idle" /\ batch' = NoBatch /\ conv' = 1 /\ todo' = {} /\ buffer' = Empty /\ sum' = 0

PutTotal ==
  /\ pc = "total" /\ End
  /\ total' = sum
  /\ UNCHANGED <<row, index, chat, histVars, bounds>>

(* The application dies in the handler, and the event is dispatched again. *)
Crash ==
  /\ pc # "idle" /\ crashes < MaxCrashes
  /\ crashes' = crashes + 1
  /\ Start(batch)
  /\ UNCHANGED <<kvVars, histVars, batches, live, calls>>

Handler ==
  \/ \E m \in Msgs : ProcessMessage(m)
  \/ ProcessConversation \/ ProcessPushName \/ CommitCached \/ SumUnread \/ PutTotal

Next ==
  \/ \E m \in Msgs : LiveMessage(m) \/ EditTextMessage(m)
  \/ \E kind \in {"contact", "push"}, time \in Msgs : NameEvent(kind, time)
  \/ \E b \in Batches : Begin(b)
  \/ Handler \/ MarkAsRead \/ Crash

Spec == Init /\ [][Next]_vars

-----------------------------------------------------------------------------
(* Properties.                                                             *)

TypeOK ==
  /\ row \in [Msgs -> [Keys -> Row \cup {NoRow}]]
  /\ index \in [Msgs -> Keys \cup {"none"}]
  /\ chat \in Chat \cup {NoChat}
  /\ total \in Nat /\ sum \in Nat
  /\ pc \in {"idle", "messages", "names", "commit", "sum", "total"}
  /\ todo \subseteq Kept(Msgs) /\ edited \subseteq Own

(* A message has one record, whatever key an older version stored it under *)
(* and whether or not its index record was written; and once a history     *)
(* event that lists it is through, the index leads to that record.         *)
OneRecord ==
  /\ \A m \in Msgs : Cardinality({k \in Keys : row[m][k] # NoRow}) <= 1
  /\ pc \in {"sum", "total"} =>
       \A i \in DOMAIN batch.convs : \A m \in Kept(batch.convs[i].msgs) : Found(m)

(* History changes nothing of a message that is stored but its receipt: an *)
(* edit made before, or between two events, is not undone.                 *)
EditsKept == ~raced => \A m \in edited : \E k \in Keys : row[m][k].body = "edited"

(* The times of the conversations that carry no message kept.              *)
Dates ==
  {t \in Nat : \E b \in Batches : \E i \in DOMAIN b.convs :
     b.convs[i].time = t /\ Kept(b.convs[i].msgs) = {}}

(* The chat list shows the newest message, live or from history, and lists *)
(* the chat at its time.  A chat made by a conversation that carried no    *)
(* message kept shows none, and is listed at the conversation's time, until*)
(* a message comes that is newer: older ones, from later chunks, never     *)
(* become its preview.  An event that mentions the chat twice is excepted: *)
(* the second mention is merged with what the first had not yet committed, *)
(* and one of the two is lost.                                             *)
NewestShown ==
  LET newest == Max({0} \cup {m \in Stored : HistoryPreview(ContentOf[m]) # ""}) IN
  pc = "idle" /\ ~twice /\ chat # NoChat =>
    \/ chat.shown = newest /\ chat.last = newest
    \/ chat.shown = 0 /\ chat.last \in Dates /\ newest <= chat.last

(* The divider stands above a message that is stored and unread, and no    *)
(* chat has one without a count.                                           *)
DividerAboveUnread ==
  chat # NoChat /\ chat.divider # 0 =>
    /\ chat.unread > 0 /\ chat.divider \in Stored
    /\ \E k \in Keys : row[chat.divider][k] # NoRow /\ row[chat.divider][k].receipt = 0

(* After the handler the unread total is the chats' sum, as often as a     *)
(* crash had it start over.                                                *)
TotalReconciled == total = IF chat = NoChat THEN 0 ELSE chat.unread

(* What the chat list counts as unread, what the chat page draws its line  *)
(* above and what the launcher shows agree between events, unless the user *)
(* has read the chat while one was being handled; the line, unless an event*)
(* mentions the chat twice: a push name then puts back the count and the   *)
(* divider of messages that the same event's conversation marked as read.  *)
CountsAgree ==
  pc = "idle" /\ ~raced => TotalReconciled /\ (~twice => DividerAboveUnread)
=============================================================================
