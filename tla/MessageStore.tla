----------------------------- MODULE MessageStore -----------------------------
(***************************************************************************)
(* The records of the messages of one chat: what events and the user's     *)
(* calls change in them, and what is left of a change when a batch of      *)
(* events is dispatched again after a crash.                               *)
(*                                                                         *)
(* A message has a record, an index record that finds it by its id, the    *)
(* reactions to it, each a record of its own, and a flag in its record     *)
(* that says whether there are any; the chat's record holds a preview of   *)
(* the newest message.  Every operation reads the record, computes a new   *)
(* one and puts it back whole, with a call of the daemon in between when   *)
(* the user asked for it.  The event loop deletes a batch of events only   *)
(* after it has dispatched all of it: a crash brings all of it back.       *)
(*                                                                         *)
(* A message is a number, in the order of its key, which is that of the    *)
(* timestamps.  Of its contents only what tells versions apart is kept.    *)
(***************************************************************************)
EXTENDS Integers, Sequences, FiniteSets, FiniteSetsExt

CONSTANTS
  Msgs,        \* the messages of the chat
  Own,         \* the ones sent from this account
  Media,       \* the ones with a file to download
  Stickers,    \* the ones whose file is downloaded when they come in
  Others,      \* who reacts to messages, besides the user
  Me,          \* the user
  MaxEvents,   \* bound: events that come in
  MaxCalls,    \* bound: calls of the user
  MaxCrashes   \* bound: crashes

ASSUME MsgsAssumption ==
  /\ Msgs \subseteq Nat \ {0} /\ IsFiniteSet(Msgs)
  /\ Own \subseteq Msgs /\ Media \subseteq Msgs /\ Stickers \subseteq Media
ASSUME SendersAssumption == Me \notin Others
ASSUME BoundAssumption == MaxEvents \in Nat /\ MaxCalls \in Nat /\ MaxCrashes \in Nat

VARIABLES
  \* kv.db
  record,    \* the message records
  index,     \* messages with a message_index record
  reacted,   \* who has reacted to each message
  chat,      \* the chat's record: newest message, its preview
  \* the memory of the two threads
  op,        \* the operation each is in
  \* the daemon's store
  batch,     \* events listed and not yet deleted
  pos,       \* how many of them have been dispatched since they were listed
  high,      \* how many have been dispatched at least once
  \* history and bounds
  due,       \* what each message is to show, one change after the other
  disturbed, \* messages with overlapping, torn or repeated changes
  overlap,   \* two operations have overlapped, or a crash cut a call short
  events, calls, crashes

kvVars == <<record, index, reacted, chat>>
logVars == <<batch, pos, high>>
histVars == <<due, disturbed, overlap>>
bounds == <<events, calls, crashes>>
vars == <<kvVars, op, logVars, histVars, bounds>>

Threads == {"loop", "ui"}

(* A stored message.  receipt: 0 NONE, 1 SENT, 2 DELIVERED, 3 READ; file:  *)
(* its media_path is set; info: its media_download names a file.           *)
Receipts == 0 .. 3
Record ==
  [type : {"text", "media", "view_once"}, body : {"original", "phone", "app"},
   receipt : Receipts, file : BOOLEAN, info : BOOLEAN, flag : BOOLEAN]
  \cup
  [type : {"deleted"}, body : {""},
   receipt : Receipts, file : BOOLEAN, info : BOOLEAN, flag : BOOLEAN]
NoRecord == [type |-> "none", body |-> "", receipt |-> 0,
             file |-> FALSE, info |-> FALSE, flag |-> FALSE]
NoChat == [last |-> 0, type |-> "none", body |-> ""]

Event == [kind : {"message", "unavailable", "edit", "delete"}, m : Msgs,
          who : {Me}, on : {FALSE}]
         \cup [kind : {"reaction"}, m : Msgs, who : Others, on : BOOLEAN]
         \cup [kind : {"receipt"}, m : Msgs, who : {Me}, on : BOOLEAN]

Idle == [kind |-> "none", m |-> 0, who |-> Me, on |-> FALSE, at |-> "idle",
         new |-> NoRecord, newChat |-> NoChat]

Init ==
  /\ record = [m \in Msgs |-> NoRecord]
  /\ index = {}
  /\ reacted = [m \in Msgs |-> {}]
  /\ chat = NoChat
  /\ op = [t \in Threads |-> Idle]
  /\ batch = <<>> /\ pos = 0 /\ high = 0
  /\ due = [m \in Msgs |-> "nothing"]
  /\ disturbed = {} /\ overlap = FALSE
  /\ events = 0 /\ calls = 0 /\ crashes = 0

Stored == {m \in Msgs : record[m] # NoRecord}

-----------------------------------------------------------------------------
(* The records an operation computes.                                      *)

(* Mutations: a message that comes in has no reactions; a deleted message  *)
(* keeps its text; an edit keeps the text it had.                          *)
NoReactions(m) == FALSE
DeletedWithText(r) == [r EXCEPT !.type = "deleted", !.file = FALSE]
EditedBefore(r, m, body) ==
  [r EXCEPT !.type = IF m \in Media THEN "media" ELSE "text",
            !.body = IF @ = "" THEN body ELSE @]

(* apply_message_reactions_flag                                            *)
HasReactions(m) == reacted[m] # {}

(* message_event_to_message, undecryptable_event_to_message                *)
Incoming(kind, m) ==
  [type    |-> IF kind = "unavailable" THEN "view_once"
               ELSE IF m \in Media THEN "media" ELSE "text",
   body    |-> "original",
   receipt |-> IF m \in Own THEN 1 ELSE 0,
   file    |-> FALSE,
   info    |-> kind = "message" /\ m \in Media,
   flag    |-> HasReactions(m)]

(* _merge_edited_message                                                   *)
Edited(r, m, body) ==
  [r EXCEPT !.type = IF m \in Media THEN "media" ELSE "text", !.body = body]

(* _merge_deleted_message                                                  *)
Deleted(r) == [r EXCEPT !.type = "deleted", !.body = "", !.file = FALSE]

(* Only an upgrade changes a receipt.                                      *)
WithReceipt(r, level) == [r EXCEPT !.receipt = IF level > @ THEN level ELSE @]

-----------------------------------------------------------------------------
(* Lookups.                                                                *)

(* get_message_entry_with_key; an index record that finds nothing is       *)
(* deleted on the way.                                                     *)
Found(m) == m \in index /\ record[m] # NoRecord
Forget(m) == index' = IF Found(m) THEN index ELSE index \ {m}

(* History: what an operation on m that begins now may collide with.       *)
Noted(t, m) ==
  LET other == op[CHOOSE u \in Threads : u # t]
      inBatch == \E i \in 1 .. Len(batch) : batch[i].m = m
  IN
  /\ overlap' = (overlap \/ other.at # "idle")
  /\ disturbed' = IF other.m = m \/ (t = "ui" /\ inBatch)
                    THEN disturbed \cup {m} ELSE disturbed

(* The operation of thread t, from step at on, with the record it will put.*)
Doing(t, kind, m, who, on, at, new) ==
  op' = [op EXCEPT ![t] = [kind |-> kind, m |-> m, who |-> who, on |-> on,
                           at |-> at, new |-> new, newChat |-> NoChat]]

(* Thread t is done: the loop goes on to the next event of its batch.      *)
EndNow(t) ==
  /\ op' = [op EXCEPT ![t] = Idle]
  /\ pos' = IF t = "loop" THEN pos + 1 ELSE pos
Goto(t, at) ==
  /\ op' = [op EXCEPT ![t].at = at]
  /\ pos' = pos

-----------------------------------------------------------------------------
(* Events.                                                                 *)

(* Daemon: an event comes in.  A message comes in once.                    *)
Arrive(e) ==
  /\ events < MaxEvents
  /\ pos = Len(batch) /\ op["loop"].at = "idle"
  /\ e.kind \in {"message", "unavailable"} => due[e.m] = "nothing"
  /\ batch' = Append(batch, e)
  /\ events' = events + 1
  /\ UNCHANGED <<kvVars, op, pos, high, histVars, calls, crashes>>

(* Mutation: every event is deleted as soon as it is taken up.             *)
DeletedTooSoon ==
  /\ op["loop"].at = "idle" \/ op["loop"].at = "put"
  /\ batch # <<>> /\ batch' = <<>> /\ pos' = 0 /\ high' = 0
  /\ op' = [op EXCEPT !["loop"] = Idle]
  /\ UNCHANGED <<kvVars, histVars, bounds>>

(* The batch has been dispatched: it is deleted.                           *)
DeleteBatch ==
  /\ op["loop"].at = "idle"
  /\ batch # <<>> /\ pos = Len(batch)
  /\ batch' = <<>> /\ pos' = 0 /\ high' = 0
  /\ UNCHANGED <<kvVars, op, histVars, bounds>>

(* What the message shows after the event, if it shows anything.           *)
Outcome(e) ==
  CASE e.kind \in {"message", "unavailable"} -> "original"
    [] e.kind = "edit" /\ due[e.m] # "nothing" -> "phone"
    [] e.kind = "delete" /\ due[e.m] # "nothing" -> ""
    [] OTHER -> due[e.m]

(* The loop takes up the next event.  A message is put with the flag its   *)
(* reactions ask for; an edit, a deletion or a receipt of a message not    *)
(* found is dropped (it is kept as an unhandled_message).                  *)
Dispatch ==
  LET e == batch[pos + 1]
      m == e.m
      r == record[m]
      level == IF e.on THEN 3 ELSE 2
      Put(new) == Doing("loop", e.kind, m, e.who, e.on, "put", new)
  IN
  /\ op["loop"].at = "idle" /\ pos < Len(batch)
  /\ Noted("loop", m)
  /\ IF pos < high THEN UNCHANGED <<high, due>>
                   ELSE high' = pos + 1 /\ due' = [due EXCEPT ![m] = Outcome(e)]
  /\ \/ /\ e.kind \in {"message", "unavailable"}
        /\ Put(Incoming(e.kind, m)) /\ UNCHANGED <<index, pos>>
     \/ /\ e.kind = "edit" /\ Found(m)
        /\ Put([Edited(r, m, "phone") EXCEPT !.info = m \in Media, !.flag = HasReactions(m)])
        /\ UNCHANGED <<index, pos>>
     \/ /\ e.kind = "delete" /\ Found(m)
        /\ Put([Deleted(r) EXCEPT !.info = FALSE, !.flag = HasReactions(m)])
        /\ UNCHANGED <<index, pos>>
     \/ /\ e.kind = "receipt" /\ Found(m) /\ level > r.receipt
        /\ Put(WithReceipt(r, level)) /\ UNCHANGED <<index, pos>>
     \/ /\ e.kind = "reaction"
        /\ Doing("loop", e.kind, m, e.who, e.on, "react", NoRecord)
        /\ UNCHANGED <<index, pos>>
     \/ /\ e.kind \in {"edit", "delete", "receipt"}
        /\ ~Found(m) \/ (e.kind = "receipt" /\ level <= r.receipt)
        /\ Forget(m) /\ EndNow("loop")
  /\ UNCHANGED <<record, reacted, chat, batch, bounds>>

-----------------------------------------------------------------------------
(* Calls.                                                                  *)

Call(kind, m, on, new) ==
  /\ calls < MaxCalls /\ op["ui"].at = "idle" /\ Found(m)
  /\ calls' = calls + 1
  /\ Noted("ui", m)
  /\ Doing("ui", kind, m, Me, on, "call", new)
  /\ UNCHANGED <<kvVars, logVars, due, events, crashes>>

(* edit_text_message: within the time allowed, which passes at any time.   *)
EditTextMessage(m) ==
  /\ m \in Own /\ record[m].type = "text"
  /\ Call("editText", m, FALSE, Edited(record[m], m, "app"))
DeleteMessage(m) ==
  /\ m \in Own /\ record[m].type # "deleted"
  /\ Call("deleteOwn", m, FALSE, Deleted(record[m]))
SendMessageReaction(m, on) ==
  /\ record[m].type # "deleted"
  /\ Call("react", m, on, NoRecord)
DownloadMedia(m) ==
  /\ record[m].info
  /\ Call("download", m, FALSE, [record[m] EXCEPT !.file = TRUE])
(* mark_messages_as_read, for one message.                                 *)
MarkAsRead(m) ==
  /\ m \notin Own /\ record[m].receipt < 3
  /\ Call("read", m, FALSE, NoRecord)

(* The daemon answers.  A call that fails changes nothing, except that     *)
(* messages are marked as read whatever the daemon says.                   *)
Answer(t) ==
  /\ op[t].at = "call"
  /\ Goto(t, CASE op[t].kind = "react" -> "react"
               [] op[t].kind = "read" -> "get"
               [] OTHER -> "put")
  /\ UNCHANGED <<kvVars, batch, high, histVars, bounds>>
Fail(t) ==
  /\ op[t].at = "call" /\ op[t].kind # "read"
  /\ EndNow(t)
  /\ UNCHANGED <<kvVars, batch, high, histVars, bounds>>

(* mark_messages_as_read reads the record again after its calls.           *)
ReadAgain ==
  LET o == op["ui"] IN
  /\ o.at = "get"
  /\ IF record[o.m].receipt = 3
       THEN EndNow("ui")
       ELSE Doing("ui", "read", o.m, Me, FALSE, "put", WithReceipt(record[o.m], 3)) /\ pos' = pos
  /\ UNCHANGED <<kvVars, batch, high, histVars, bounds>>

-----------------------------------------------------------------------------
(* The steps both threads take.                                            *)

(* The record is put, whole.                                               *)
PutRecord(t) ==
  LET o == op[t] IN
  /\ o.at = "put"
  /\ record' = [record EXCEPT ![o.m] = o.new]
  /\ due' = IF o.kind \in {"editText", "deleteOwn"} THEN [due EXCEPT ![o.m] = o.new.body] ELSE due
  /\ CASE o.kind \in {"message", "unavailable", "edit"} -> Goto(t, "index")
       [] o.kind \in {"delete", "editText", "deleteOwn"} -> Goto(t, "chat")
       [] OTHER -> EndNow(t)
  /\ UNCHANGED <<index, reacted, chat, batch, high, disturbed, overlap, bounds>>

(* Mutation: the index is written only for a message seen for the first    *)
(* time.                                                                   *)
IndexOnce(t) ==
  /\ op[t].at = "index"
  /\ index' = IF pos + 1 = high /\ crashes = 0 THEN index \cup {op[t].m} ELSE index
  /\ Goto(t, "chat")
  /\ UNCHANGED <<record, reacted, chat, batch, high, histVars, bounds>>

PutIndex(t) ==
  /\ op[t].at = "index"
  /\ index' = index \cup {op[t].m}
  /\ Goto(t, "chat")
  /\ UNCHANGED <<record, reacted, chat, batch, high, histVars, bounds>>

Preview(m, r) == [last |-> m, type |-> r.type, body |-> r.body]

(* Mutation: an edit shows in the preview, whichever message it is of.     *)
PreviewOfAny(m, r) == [chat EXCEPT !.type = r.type, !.body = r.body]

(* _update_chat_after_edit: the preview changes if the message is the      *)
(* newest.                                                                 *)
AfterEdit(m, r) ==
  IF m = Max(Stored) THEN [chat EXCEPT !.type = r.type, !.body = r.body] ELSE chat

(* upsert_chat: the preview changes unless a newer message came before.    *)
Upserted(m, r) == IF m >= chat.last THEN Preview(m, r) ELSE chat

ReadChat(t) ==
  LET o == op[t]
      new == IF o.kind \in {"message", "unavailable"} \/ chat = NoChat
               THEN Upserted(o.m, o.new) ELSE AfterEdit(o.m, o.new)
  IN
  /\ o.at = "chat"
  /\ op' = [op EXCEPT ![t].newChat = new, ![t].at = "chatPut"]
  /\ UNCHANGED <<kvVars, logVars, histVars, bounds>>

(* The chat is put; then the file of a sticker that came in is fetched.    *)
PutChat(t) ==
  LET o == op[t] IN
  /\ o.at = "chatPut"
  /\ chat' = o.newChat
  /\ IF o.kind = "message" /\ o.m \in Stickers THEN Goto(t, "fetch") ELSE EndNow(t)
  /\ UNCHANGED <<record, index, reacted, batch, high, histVars, bounds>>

(* _auto_download_sticker reads the record; the file is in the cache, or   *)
(* the daemon is asked for it.                                             *)
FetchSticker ==
  LET o == op["loop"] IN
  /\ o.at = "fetch"
  /\ IF record[o.m].info
       THEN /\ \E next \in {"put", "call"} :
                 Doing("loop", "sticker", o.m, Me, FALSE, next, [record[o.m] EXCEPT !.file = TRUE])
            /\ pos' = pos
       ELSE EndNow("loop")
  /\ UNCHANGED <<kvVars, batch, high, histVars, bounds>>

(* The reaction is put or deleted ...                                      *)
PutReaction(t) ==
  LET o == op[t] IN
  /\ o.at = "react"
  /\ reacted' = [reacted EXCEPT ![o.m] = IF o.on THEN @ \cup {o.who} ELSE @ \ {o.who}]
  /\ Goto(t, "refresh")
  /\ UNCHANGED <<record, index, chat, batch, high, histVars, bounds>>

(* ... refresh_message_reactions_flag reads the message ...                *)
ReadMessage(t) ==
  LET o == op[t] IN
  /\ o.at = "refresh"
  /\ IF Found(o.m)
       THEN op' = [op EXCEPT ![t].new = record[o.m], ![t].at = "list"] /\ pos' = pos
       ELSE EndNow(t)
  /\ Forget(o.m)
  /\ UNCHANGED <<record, reacted, chat, batch, high, histVars, bounds>>

(* ... lists its reactions, and puts it if the flag is to change.          *)
ListReactions(t) ==
  LET o == op[t] IN
  /\ o.at = "list"
  /\ IF o.new.flag = HasReactions(o.m)
       THEN EndNow(t)
       ELSE op' = [op EXCEPT ![t].new.flag = HasReactions(o.m), ![t].at = "put"] /\ pos' = pos
  /\ UNCHANGED <<kvVars, batch, high, histVars, bounds>>

-----------------------------------------------------------------------------
(* The application dies and starts again: the batch is listed again.       *)
Crash ==
  LET u == op["ui"] IN
  /\ crashes < MaxCrashes
  /\ crashes' = crashes + 1
  /\ op' = [t \in Threads |-> Idle]
  /\ pos' = 0
  /\ overlap' = (overlap \/ u.at # "idle")
  /\ disturbed' = IF u.at # "idle" THEN disturbed \cup {u.m} ELSE disturbed
  /\ UNCHANGED <<kvVars, batch, high, due, events, calls>>

Calls(m) ==
  \/ EditTextMessage(m) \/ DeleteMessage(m) \/ DownloadMedia(m) \/ MarkAsRead(m)
  \/ \E on \in BOOLEAN : SendMessageReaction(m, on)

Step(t) ==
  \/ Answer(t) \/ Fail(t) \/ PutRecord(t) \/ PutIndex(t) \/ ReadChat(t) \/ PutChat(t)
  \/ PutReaction(t) \/ ReadMessage(t) \/ ListReactions(t)

Next ==
  \/ \E e \in Event : Arrive(e)
  \/ Dispatch \/ DeleteBatch \/ FetchSticker \/ ReadAgain
  \/ \E m \in Msgs : Calls(m)
  \/ \E t \in Threads : Step(t)
  \/ Crash

Spec == Init /\ [][Next]_vars

-----------------------------------------------------------------------------
(* Properties.                                                             *)

(* Every variable has its type; a deleted message has no text left.        *)
TypeOK ==
  /\ record \in [Msgs -> Record \cup {NoRecord}]
  /\ index \subseteq Msgs
  /\ reacted \in [Msgs -> SUBSET (Others \cup {Me})]
  /\ batch \in Seq(Event) /\ pos \in 0 .. Len(batch) /\ high \in 0 .. Len(batch)
  /\ \A t \in Threads :
       /\ op[t].m \in Msgs \cup {0}
       /\ op[t].at = "idle" <=> op[t] = Idle
       /\ op[t].at \in {"put", "list"} => op[t].new \in Record
  /\ disturbed \subseteq Msgs /\ overlap \in BOOLEAN

(* No operation is under way, and no event waits to be dispatched again.   *)
Quiet == (\A t \in Threads : op[t].at = "idle") /\ pos = Len(batch)

(* Every message stored can be found by its id, so that an edit, a         *)
(* deletion, a receipt or a reaction reaches it, even when a crash came    *)
(* between its record and its index record; and no index record leads      *)
(* nowhere.                                                                *)
Findable == index \subseteq Stored /\ (Quiet => Stored \subseteq index)

(* A message shows what the events and the calls of the user made of it,   *)
(* one after the other and each once, however often a crash has a batch    *)
(* dispatched again; unless a call touched it at the same time as an event *)
(* or while an event of its own could still come back.                     *)
ShowsLastChange ==
  Quiet => \A m \in Msgs \ disturbed :
             IF due[m] = "nothing" THEN m \notin Stored
                                   ELSE m \in Stored /\ record[m].body = due[m]

(* The reactions are shown exactly on the messages that have some, also    *)
(* when a reaction came in before its message, or was taken back.          *)
ReactionsShown ==
  Quiet => \A m \in Stored \ disturbed : record[m].flag <=> reacted[m] # {}

(* The chat list previews the newest message as it is now: edited, deleted *)
(* or not, in whatever order the messages came in.                         *)
PreviewIsNewest ==
  Quiet /\ ~overlap /\ Stored # {} =>
    LET r == record[Max(Stored)] IN chat.type = r.type /\ chat.body = r.body
=============================================================================
