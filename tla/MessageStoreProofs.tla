--------------------------- MODULE MessageStoreProofs ---------------------------
(***************************************************************************)
(* Proofs about MessageStore, for any messages, any senders and any number *)
(* of events, calls and crashes: its types, that every message stored can  *)
(* be found, and that what is shown is what was asked for.  The last takes *)
(* three invariants on top of the types and the index: what a thread has   *)
(* in hand is fresh unless another was at the same message (HandsInv); a   *)
(* change that is not to come again has been made (LastIsDue, ShowsDue,    *)
(* FlagsRight); the preview is right, or who will put it right is at work  *)
(* or to come (PreviewInv).                                                *)
(***************************************************************************)
EXTENDS MessageStore, FiniteSetTheorems, WellFoundedInduction, TLAPS

-----------------------------------------------------------------------------
(* Types.                                                                  *)

New == {"message", "unavailable"}
Kinds == {"none", "message", "unavailable", "edit", "delete", "receipt", "reaction",
          "editText", "deleteOwn", "react", "download", "read", "sticker"}
Steps == {"idle", "call", "get", "put", "index", "chat", "chatPut", "fetch",
          "react", "refresh", "list"}
Bodies == {"", "original", "phone", "app"}
Types == {"none", "text", "media", "view_once", "deleted"}
ChatRecord == [last : Msgs \cup {0}, type : Types, body : Bodies]
Operation ==
  [kind : Kinds, m : Msgs \cup {0}, who : Others \cup {Me}, on : BOOLEAN, at : Steps,
   new : Record \cup {NoRecord}, newChat : ChatRecord]

(* What a thread has in hand is a record if it is to be put.               *)
HandsOK ==
  \A t \in Threads :
    /\ op[t].at = "idle" <=> op[t] = Idle
    /\ op[t].at # "idle" => op[t].m \in Msgs
    /\ op[t].at \in {"put", "list"} => op[t].new \in Record
    /\ op[t].at = "call" /\ op[t].kind \notin {"react", "read"} => op[t].new \in Record

(* The event the loop is at is in the batch, and is the one it has in hand.*)
Working ==
  LET o == op["loop"] IN
  o.at # "idle" =>
    /\ pos < Len(batch) /\ o.m = batch[pos + 1].m
    /\ batch[pos + 1].kind \in New => o.kind \in New \cup {"sticker"}
    /\ o.kind \in New => batch[pos + 1].kind \in New

TypeInv ==
  /\ record \in [Msgs -> Record \cup {NoRecord}]
  /\ index \subseteq Msgs
  /\ reacted \in [Msgs -> SUBSET (Others \cup {Me})]
  /\ chat \in ChatRecord
  /\ op \in [Threads -> Operation]
  /\ batch \in Seq(Event) /\ pos \in 0 .. Len(batch) /\ high \in 0 .. Len(batch)
  /\ disturbed \subseteq Msgs /\ overlap \in BOOLEAN
  /\ HandsOK /\ Working

(* The records the operations compute are records.                         *)
LEMMA IncomingIsRecord ==
  ASSUME NEW m \in Msgs, NEW kind \in New
  PROVE  Incoming(kind, m) \in Record
BY DEF Incoming, Record, Receipts, New, HasReactions

LEMMA RecordParts ==
  ASSUME NEW r, r \in Record \/ r = NoRecord
  PROVE  r.type \in Types /\ r.body \in Bodies
<1>1. CASE r \in Record
  BY <1>1 DEF Record, Types, Bodies
<1>2. CASE r = NoRecord
  BY <1>2 DEF NoRecord, Types, Bodies
<1>. QED  BY <1>1, <1>2

LEMMA RealRecord ==
  ASSUME NEW r \in Record
  PROVE  r # NoRecord
<1>1. r.type \in {"text", "media", "view_once", "deleted"}
  BY DEF Record
<1>2. NoRecord.type = "none"
  BY DEF NoRecord
<1>. QED  BY <1>1, <1>2

LEMMA ComputedRecords ==
  ASSUME NEW m \in Msgs, NEW r \in Record
  PROVE  /\ Edited(r, m, "app") \in Record /\ Deleted(r) \in Record
         /\ [Edited(r, m, "phone") EXCEPT !.info = m \in Media, !.flag = HasReactions(m)] \in Record
         /\ [Deleted(r) EXCEPT !.info = FALSE, !.flag = HasReactions(m)] \in Record
         /\ [r EXCEPT !.file = TRUE] \in Record
         /\ [r EXCEPT !.flag = HasReactions(m)] \in Record
<1>1. ASSUME NEW b \in BOOLEAN, NEW f \in BOOLEAN
      PROVE  /\ [Edited(r, m, "phone") EXCEPT !.info = b, !.flag = f] \in Record
             /\ [Deleted(r) EXCEPT !.info = b, !.flag = f] \in Record
             /\ [r EXCEPT !.flag = f] \in Record
  BY DEF Record, Edited, Deleted
<1>2. Edited(r, m, "app") \in Record /\ Deleted(r) \in Record /\ [r EXCEPT !.file = TRUE] \in Record
  BY DEF Record, Edited, Deleted
<1>3. (m \in Media) \in BOOLEAN /\ HasReactions(m) \in BOOLEAN
  BY DEF HasReactions
<1>. QED  BY <1>1, <1>2, <1>3, Zenon

LEMMA ReceiptIsRecord ==
  ASSUME NEW r \in Record, NEW level \in Receipts
  PROVE  WithReceipt(r, level) \in Record
BY DEF Record, WithReceipt, Receipts

(* A message that is found has a record.                                   *)
LEMMA FoundIsRecord ==
  ASSUME TypeInv, NEW m \in Msgs, Found(m)
  PROVE  record[m] \in Record /\ m \in index
BY DEF TypeInv, Found

LEMMA EventParts ==
  ASSUME NEW e \in Event
  PROVE  /\ e.m \in Msgs /\ e.who \in Others \cup {Me} /\ e.on \in BOOLEAN
         /\ e.kind \in {"message", "unavailable", "edit", "delete", "reaction", "receipt"}
BY DEF Event

LEMMA IdleTyped == Idle \in Operation /\ Idle.at = "idle" /\ Idle.kind = "none"
BY DEF Idle, Operation, Kinds, Steps, NoRecord, NoChat, ChatRecord, Types, Bodies

(* One thread's operation has changed, and nothing the others rely on.     *)
LEMMA OneThread ==
  ASSUME TypeInv, NEW t \in Threads, op' \in [Threads -> Operation],
         \A u \in Threads \ {t} : op'[u] = op[u],
         op'[t].at = "idle" <=> op'[t] = Idle,
         op'[t].at # "idle" => op'[t].m \in Msgs,
         op'[t].at \in {"put", "list"} => op'[t].new \in Record,
         op'[t].at = "call" /\ op'[t].kind \notin {"react", "read"} => op'[t].new \in Record
  PROVE  HandsOK'
BY DEF TypeInv, HandsOK

(* What an operation needs to go on with the same message.                 *)
LEMMA GoesOn ==
  ASSUME TypeInv, NEW t \in Threads, op[t].at # "idle",
         NEW at \in Steps \ {"idle"}, op' = [op EXCEPT ![t].at = at],
         at \in {"put", "list"} => op[t].new \in Record,
         at # "call", UNCHANGED <<batch, pos>>
  PROVE  op' \in [Threads -> Operation] /\ HandsOK' /\ Working'
<1>1. /\ op' \in [Threads -> Operation]
      /\ \A u \in Threads \ {t} : op'[u] = op[u]
      /\ op'[t].at = at /\ op'[t].m = op[t].m /\ op'[t].new = op[t].new /\ op'[t].kind = op[t].kind
  BY DEF TypeInv, Operation
<1>2. op'[t] # Idle /\ op[t].m \in Msgs
  BY <1>1, IdleTyped DEF TypeInv, HandsOK
<1>3. HandsOK'
  BY <1>1, <1>2, OneThread
<1>4. Working'
  BY <1>1 DEF TypeInv, Working, Threads
<1>. QED  BY <1>1, <1>3, <1>4

(* What is left when an operation ends.                                    *)
LEMMA Ends ==
  ASSUME TypeInv, NEW t \in Threads, EndNow(t), UNCHANGED batch,
         t = "loop" => pos < Len(batch)
  PROVE  op' \in [Threads -> Operation] /\ HandsOK' /\ Working' /\ pos' \in 0 .. Len(batch)
<1>1. /\ op' \in [Threads -> Operation] /\ op'[t] = Idle
      /\ \A u \in Threads \ {t} : op'[u] = op[u]
  BY IdleTyped DEF EndNow, TypeInv
<1>2. HandsOK'
  BY <1>1, IdleTyped, OneThread
<1>3. pos' \in 0 .. Len(batch)
  BY DEF EndNow, TypeInv
<1>4. Working'
  <2>1. CASE t = "loop"
    BY <1>1, <2>1, IdleTyped DEF Working
  <2>2. CASE t # "loop"
    BY <1>1, <2>2 DEF Working, EndNow, TypeInv, Threads
  <2>. QED  BY <2>1, <2>2
<1>. QED  BY <1>1, <1>2, <1>3, <1>4

(* An operation taken up, or changed: what it needs for its type.          *)
LEMMA TakenUp ==
  ASSUME TypeInv, NEW t \in Threads, NEW o \in Operation, op' = [op EXCEPT ![t] = o],
         o.at # "idle", o.m \in Msgs, o.at \in {"put", "list"} => o.new \in Record,
         o.at = "call" /\ o.kind \notin {"react", "read"} => o.new \in Record,
         t = "loop" => /\ pos < Len(batch) /\ o.m = batch[pos + 1].m
                       /\ batch[pos + 1].kind \in New => o.kind \in New \cup {"sticker"}
                       /\ o.kind \in New => batch[pos + 1].kind \in New,
         UNCHANGED <<batch, pos>>
  PROVE  op' \in [Threads -> Operation] /\ HandsOK' /\ Working'
<1>1. op' \in [Threads -> Operation] /\ op'[t] = o /\ \A u \in Threads \ {t} : op'[u] = op[u]
  BY DEF TypeInv
<1>2. HandsOK'
  BY <1>1, IdleTyped, OneThread
<1>3. Working'
  BY <1>1 DEF Working, TypeInv, Threads
<1>. QED  BY <1>1, <1>2, <1>3

(* The record that Doing puts.                                             *)
Taken(kind, m, who, on, at, new) ==
  [kind |-> kind, m |-> m, who |-> who, on |-> on, at |-> at, new |-> new, newChat |-> NoChat]

LEMMA TakenTyped ==
  ASSUME NEW kind \in Kinds, NEW m \in Msgs, NEW who \in Others \cup {Me}, NEW on \in BOOLEAN,
         NEW at \in Steps, NEW new \in Record \cup {NoRecord}
  PROVE  Taken(kind, m, who, on, at, new) \in Operation
<1>1. NoChat \in ChatRecord
  BY DEF NoChat, ChatRecord, Types, Bodies
<1>. QED  BY <1>1 DEF Taken, Operation

(* Noted keeps the history variables' types.                               *)
LEMMA NotedTyped ==
  ASSUME TypeInv, NEW t \in Threads, NEW m \in Msgs, Noted(t, m)
  PROVE  disturbed' \subseteq Msgs /\ overlap' \in BOOLEAN
BY DEF TypeInv, Noted

(* Dispatch takes up the next event.                                       *)
LEMMA DispatchTyped ==
  ASSUME TypeInv, Dispatch
  PROVE  TypeInv'
<1> DEFINE e == batch[pos + 1]
<1>1. e \in Event /\ pos < Len(batch) /\ op["loop"].at = "idle" /\ pos + 1 \in 1 .. Len(batch)
  BY DEF Dispatch, TypeInv
<1>2. /\ e.m \in Msgs /\ e.who \in Others \cup {Me} /\ e.on \in BOOLEAN
      /\ e.kind \in {"message", "unavailable", "edit", "delete", "reaction", "receipt"}
  BY <1>1, EventParts
<1>3. disturbed' \subseteq Msgs /\ overlap' \in BOOLEAN
  BY <1>2, NotedTyped DEF Dispatch, Threads
<1>4. high' \in 0 .. Len(batch) /\ UNCHANGED <<record, reacted, chat, batch>>
  BY <1>1 DEF Dispatch, TypeInv
<1>5. \A kind \in New : Incoming(kind, e.m) \in Record
  BY <1>2, IncomingIsRecord
<1> HIDE DEF e
<1>6. ASSUME NEW new \in Record, UNCHANGED <<index, pos>>,
             Doing("loop", e.kind, e.m, e.who, e.on, "put", new)
      PROVE  op' \in [Threads -> Operation] /\ HandsOK' /\ Working'
  <2> DEFINE o == Taken(e.kind, e.m, e.who, e.on, "put", new)
  <2>1. e.kind \in Kinds /\ "put" \in Steps /\ "loop" \in Threads
    BY <1>2 DEF Kinds, Steps, Threads
  <2>2. o \in Operation
    BY <1>2, <2>1, <1>6, TakenTyped
  <2>3. op' = [op EXCEPT !["loop"] = o]
    BY <1>6 DEF Doing, Taken
  <2>4. o.at = "put" /\ o.m = e.m /\ o.kind = e.kind /\ o.new = new /\ batch[pos + 1] = e
    BY DEF Taken, e
  <2> HIDE DEF o
  <2>. QED  BY <1>1, <1>2, <1>4, <1>6, <2>1, <2>2, <2>3, <2>4, TakenUp
<1>7. CASE /\ e.kind \in {"message", "unavailable"} /\ UNCHANGED <<index, pos>>
           /\ Doing("loop", e.kind, e.m, e.who, e.on, "put", Incoming(e.kind, e.m))
  BY <1>3, <1>4, <1>5, <1>6, <1>7 DEF TypeInv, New
<1>8. CASE /\ e.kind = "edit" /\ Found(e.m) /\ UNCHANGED <<index, pos>>
           /\ Doing("loop", e.kind, e.m, e.who, e.on, "put",
                    [Edited(record[e.m], e.m, "phone") EXCEPT !.info = e.m \in Media,
                                                              !.flag = HasReactions(e.m)])
  <2>1. [Edited(record[e.m], e.m, "phone") EXCEPT !.info = e.m \in Media,
                                                  !.flag = HasReactions(e.m)] \in Record
    BY <1>2, <1>8, FoundIsRecord, ComputedRecords
  <2>. QED  BY <1>3, <1>4, <1>6, <1>8, <2>1 DEF TypeInv
<1>9. CASE /\ e.kind = "delete" /\ Found(e.m) /\ UNCHANGED <<index, pos>>
           /\ Doing("loop", e.kind, e.m, e.who, e.on, "put",
                    [Deleted(record[e.m]) EXCEPT !.info = FALSE, !.flag = HasReactions(e.m)])
  <2>1. [Deleted(record[e.m]) EXCEPT !.info = FALSE, !.flag = HasReactions(e.m)] \in Record
    BY <1>2, <1>9, FoundIsRecord, ComputedRecords
  <2>. QED  BY <1>3, <1>4, <1>6, <1>9, <2>1 DEF TypeInv
<1>10. CASE \E level \in {2, 3} :
              /\ e.kind = "receipt" /\ Found(e.m) /\ UNCHANGED <<index, pos>>
              /\ Doing("loop", e.kind, e.m, e.who, e.on, "put", WithReceipt(record[e.m], level))
  <2>1. \A level \in {2, 3} : WithReceipt(record[e.m], level) \in Record
    BY <1>2, <1>10, FoundIsRecord, ReceiptIsRecord DEF Receipts
  <2>. QED  BY <1>3, <1>4, <1>6, <1>10, <2>1 DEF TypeInv
<1>11. CASE /\ e.kind = "reaction" /\ UNCHANGED <<index, pos>>
            /\ Doing("loop", e.kind, e.m, e.who, e.on, "react", NoRecord)
  <2> DEFINE o == Taken(e.kind, e.m, e.who, e.on, "react", NoRecord)
  <2>1. e.kind \in Kinds /\ "react" \in Steps /\ "loop" \in Threads
    BY <1>2 DEF Kinds, Steps, Threads
  <2>2. o \in Operation
    BY <1>2, <2>1, TakenTyped
  <2>3. op' = [op EXCEPT !["loop"] = o]
    BY <1>11 DEF Doing, Taken
  <2>4. o.at = "react" /\ o.m = e.m /\ o.kind = "reaction" /\ batch[pos + 1] = e
    BY <1>11 DEF Taken, e
  <2>5. "reaction" \notin New \cup {"sticker"}
    BY DEF New
  <2> HIDE DEF o
  <2>6. op' \in [Threads -> Operation] /\ HandsOK' /\ Working'
    BY <1>1, <1>2, <1>4, <1>11, <2>1, <2>2, <2>3, <2>4, <2>5, TakenUp
  <2>. QED  BY <1>3, <1>4, <1>11, <2>6 DEF TypeInv
<1>12. CASE EndNow("loop") /\ Forget(e.m)
  <2>1. index' \subseteq Msgs /\ "loop" \in Threads
    BY <1>12 DEF Forget, TypeInv, Threads
  <2>2. op' \in [Threads -> Operation] /\ HandsOK' /\ Working' /\ pos' \in 0 .. Len(batch)
    BY <1>1, <1>4, <1>12, <2>1, Ends
  <2>. QED  BY <1>3, <1>4, <2>1, <2>2 DEF TypeInv
<1>. QED  BY <1>7, <1>8, <1>9, <1>10, <1>11, <1>12 DEF Dispatch, e

-----------------------------------------------------------------------------
(* Messages are found.                                                     *)

(* What an operation has in hand has been found, or is a message that came *)
(* in, which only the loop stores.                                         *)
Held(t, o) ==
  /\ o.at \in {"call", "get", "list", "chat", "chatPut", "fetch"} => o.m \in index
  /\ o.at \in {"put", "index"} /\ o.kind \notin New => o.m \in index
  /\ o.at = "index" => o.m \in Stored
  /\ o.kind \in New => t = "loop" /\ o.at \in {"put", "index", "chat", "chatPut", "fetch"}
  /\ o.at \in {"react", "refresh", "list"} => o.kind \in {"react", "reaction"}

(* A message stored and not found is of an event still to be dispatched.   *)
Awaited ==
  \A m \in Stored \ index :
    \E i \in pos + 1 .. Len(batch) : batch[i].kind \in New /\ batch[i].m = m

FindInv ==
  /\ index \subseteq Stored
  /\ \A t \in Threads : Held(t, op[t])
  /\ Awaited

(* A call takes up an operation of the user.                               *)
LEMMA CallTyped ==
  ASSUME TypeInv, NEW kind \in {"editText", "deleteOwn", "react", "download", "read"},
         NEW m \in Msgs, NEW on \in BOOLEAN, NEW new \in Record \cup {NoRecord},
         kind \in {"react", "read"} \/ new \in Record,
         Call(kind, m, on, new)
  PROVE  TypeInv'
<1> DEFINE o == Taken(kind, m, Me, on, "call", new)
<1>1. kind \in Kinds /\ "call" \in Steps /\ "ui" \in Threads /\ "ui" # "loop"
  BY DEF Kinds, Steps, Threads
<1>2. o \in Operation
  BY <1>1, TakenTyped
<1>3. op' = [op EXCEPT !["ui"] = o]
  BY DEF Call, Doing, Taken
<1>4. o.at = "call" /\ o.m = m /\ o.kind = kind /\ o.new = new
  BY DEF Taken
<1>5. UNCHANGED <<kvVars, logVars>> /\ disturbed' \subseteq Msgs /\ overlap' \in BOOLEAN
  BY <1>1, NotedTyped DEF Call
<1> HIDE DEF o
<1>6. op' \in [Threads -> Operation] /\ HandsOK' /\ Working'
  BY <1>1, <1>2, <1>3, <1>4, <1>5, TakenUp DEF logVars
<1>. QED  BY <1>5, <1>6 DEF TypeInv, kvVars, logVars

LEMMA CallsTyped ==
  ASSUME TypeInv, NEW m \in Msgs, Calls(m)
  PROVE  TypeInv'
<1>1. CASE EditTextMessage(m)
  <2>1. Edited(record[m], m, "app") \in Record
    BY <1>1, FoundIsRecord, ComputedRecords DEF EditTextMessage, Call
  <2>. QED  BY <1>1, <2>1, CallTyped DEF EditTextMessage
<1>2. CASE DeleteMessage(m)
  <2>1. Deleted(record[m]) \in Record
    BY <1>2, FoundIsRecord, ComputedRecords DEF DeleteMessage, Call
  <2>. QED  BY <1>2, <2>1, CallTyped DEF DeleteMessage
<1>3. CASE DownloadMedia(m)
  <2>1. [record[m] EXCEPT !.file = TRUE] \in Record
    BY <1>3, FoundIsRecord, ComputedRecords DEF DownloadMedia, Call
  <2>. QED  BY <1>3, <2>1, CallTyped DEF DownloadMedia
<1>4. CASE MarkAsRead(m)
  BY <1>4, CallTyped DEF MarkAsRead
<1>5. CASE \E on \in BOOLEAN : SendMessageReaction(m, on)
  BY <1>5, CallTyped DEF SendMessageReaction
<1>. QED  BY <1>1, <1>2, <1>3, <1>4, <1>5 DEF Calls

(* A thread at work has a message, and the loop an event to go on from.    *)
LEMMA AtWork ==
  ASSUME TypeInv, NEW t \in Threads, op[t].at # "idle"
  PROVE  op[t] \in Operation /\ op[t].m \in Msgs /\ (t = "loop" => pos < Len(batch))
BY DEF TypeInv, HandsOK, Working

(* The steps of a thread at work go on or end; what they leave as it is.   *)
LEMMA GoneOrEnded ==
  ASSUME TypeInv, NEW t \in Threads, op[t].at # "idle", UNCHANGED batch,
         \/ EndNow(t)
         \/ \E at \in Steps \ {"idle", "call"} :
              Goto(t, at) /\ (at \in {"put", "list"} => op[t].new \in Record)
  PROVE  op' \in [Threads -> Operation] /\ HandsOK' /\ Working' /\ pos' \in 0 .. Len(batch')
<1>1. CASE EndNow(t)
  BY <1>1, AtWork, Ends
<1>2. CASE \E at \in Steps \ {"idle", "call"} :
              Goto(t, at) /\ (at \in {"put", "list"} => op[t].new \in Record)
  <2>1. PICK at \in Steps \ {"idle", "call"} :
              Goto(t, at) /\ (at \in {"put", "list"} => op[t].new \in Record)
    BY <1>2
  <2>2. op' = [op EXCEPT ![t].at = at] /\ pos' = pos
    BY <2>1 DEF Goto
  <2>3. op' \in [Threads -> Operation] /\ HandsOK' /\ Working'
    BY <2>1, <2>2, GoesOn
  <2>. QED  BY <2>2, <2>3 DEF TypeInv
<1>. QED  BY <1>1, <1>2

LEMMA ChangedTyped ==
  ASSUME TypeInv, NEW t \in Threads, op[t].at # "idle", NEW o \in Operation,
         op' = [op EXCEPT ![t] = o], o.at \in Steps \ {"idle", "call"}, o.m = op[t].m, o.kind = op[t].kind,
         o.at \in {"put", "list"} => o.new \in Record,
         UNCHANGED <<batch, pos>>
  PROVE  op' \in [Threads -> Operation] /\ HandsOK' /\ Working'
<1>1. op[t].m \in Msgs
  BY AtWork
<1>2. t = "loop" => /\ pos < Len(batch) /\ o.m = batch[pos + 1].m
                    /\ batch[pos + 1].kind \in New => o.kind \in New \cup {"sticker"}
                    /\ o.kind \in New => batch[pos + 1].kind \in New
  BY DEF TypeInv, Working
<1>. QED  BY <1>1, <1>2, TakenUp

LEMMA StepTyped ==
  ASSUME TypeInv, FindInv, NEW t \in Threads, Step(t)
  PROVE  TypeInv'
<1> DEFINE Rest == /\ record' \in [Msgs -> Record \cup {NoRecord}] /\ index' \subseteq Msgs
                   /\ reacted' \in [Msgs -> SUBSET (Others \cup {Me})] /\ chat' \in ChatRecord
           Same == UNCHANGED <<batch, high, disturbed, overlap>>
<1>1. ASSUME Rest, Same, op' \in [Threads -> Operation], HandsOK', Working', pos' \in 0 .. Len(batch')
      PROVE  TypeInv'
  BY <1>1 DEF TypeInv
<1>2. CASE Answer(t)
  <2>1. op[t].at # "idle" /\ Same /\ Rest
    BY <1>2 DEF Answer, kvVars, histVars, TypeInv
  <2>2. \E at \in Steps \ {"idle", "call"} :
              Goto(t, at) /\ (at \in {"put", "list"} => op[t].new \in Record)
    <3>1. CASE op[t].kind = "react"
      BY <1>2, <3>1 DEF Answer, Steps
    <3>2. CASE op[t].kind = "read"
      BY <1>2, <3>2 DEF Answer, Steps
    <3>3. CASE op[t].kind \notin {"react", "read"}
      BY <1>2, <3>3 DEF Answer, Steps, TypeInv, HandsOK
    <3>. QED  BY <3>1, <3>2, <3>3
  <2>. QED  BY <1>1, <2>1, <2>2, GoneOrEnded
<1>3. CASE Fail(t)
  BY <1>1, <1>3, GoneOrEnded DEF Fail, kvVars, histVars, TypeInv
<1>4. CASE PutRecord(t)
  <2>1. op[t].at # "idle" /\ Same /\ op[t].new \in Record /\ op[t].m \in Msgs
    BY <1>4, AtWork DEF PutRecord, TypeInv, HandsOK
  <2>2. Rest
    BY <1>4, <2>1 DEF PutRecord, TypeInv
  <2>3. EndNow(t) \/ Goto(t, "index") \/ Goto(t, "chat")
    BY <1>4 DEF PutRecord
  <2>. QED  BY <1>1, <2>1, <2>2, <2>3, GoneOrEnded DEF Steps
<1>5. CASE PutIndex(t)
  <2>1. op[t].at # "idle" /\ Same /\ op[t].m \in Msgs /\ Goto(t, "chat")
    BY <1>5, AtWork DEF PutIndex, histVars
  <2>2. Rest
    BY <1>5, <2>1 DEF PutIndex, TypeInv
  <2>. QED  BY <1>1, <2>1, <2>2, GoneOrEnded DEF Steps
<1>6. CASE ReadChat(t)
  <2>1. op[t].at # "idle" /\ UNCHANGED <<kvVars, logVars, histVars>>
    BY <1>6 DEF ReadChat
  <2>2. PICK new \in ChatRecord : op' = [op EXCEPT ![t].newChat = new, ![t].at = "chatPut"]
    <3>1. op[t].new \in Record \cup {NoRecord} /\ op[t].m \in Msgs /\ chat \in ChatRecord
      BY <2>1, AtWork DEF TypeInv, Operation
    <3>2. op[t].new.type \in Types /\ op[t].new.body \in Bodies
      BY <3>1, RecordParts
    <3>3. Upserted(op[t].m, op[t].new) \in ChatRecord
      BY <3>1, <3>2 DEF Upserted, Preview, ChatRecord
    <3>4. AfterEdit(op[t].m, op[t].new) \in ChatRecord
      BY <3>1, <3>2 DEF AfterEdit, ChatRecord
    <3>. QED  BY <1>6, <3>3, <3>4 DEF ReadChat
  <2> DEFINE o == [op[t] EXCEPT !.newChat = new, !.at = "chatPut"]
  <2>3. /\ o \in Operation /\ op' = [op EXCEPT ![t] = o]
        /\ o.at = "chatPut" /\ o.m = op[t].m /\ o.kind = op[t].kind
    BY <2>1, <2>2, AtWork DEF Operation, Steps, TypeInv
  <2>4. o.at \in Steps \ {"idle", "call"} /\ o.at \notin {"put", "list"}
    BY <2>3 DEF Steps
  <2> HIDE DEF o
  <2>5. op' \in [Threads -> Operation] /\ HandsOK' /\ Working'
    BY <2>1, <2>3, <2>4, ChangedTyped DEF logVars
  <2>. QED  BY <1>1, <2>1, <2>5 DEF kvVars, logVars, histVars, TypeInv
<1>7. CASE PutChat(t)
  <2>1. op[t].at # "idle" /\ Same /\ op[t].newChat \in ChatRecord
    BY <1>7, AtWork DEF PutChat, histVars, Operation
  <2>2. EndNow(t) \/ Goto(t, "fetch")
    BY <1>7 DEF PutChat
  <2>3. Rest
    BY <1>7, <2>1 DEF PutChat, TypeInv
  <2>. QED  BY <1>1, <2>1, <2>2, <2>3, GoneOrEnded DEF Steps
<1>8. CASE PutReaction(t)
  <2>1. op[t].at # "idle" /\ Same /\ op[t].m \in Msgs /\ op[t].who \in Others \cup {Me} /\ Goto(t, "refresh")
    BY <1>8, AtWork DEF PutReaction, histVars, Operation
  <2>2. Rest
    BY <1>8, <2>1 DEF PutReaction, TypeInv
  <2>. QED  BY <1>1, <2>1, <2>2, GoneOrEnded DEF Steps
<1>9. CASE ReadMessage(t)
  <2>1. op[t].at # "idle" /\ Same /\ op[t].m \in Msgs
    BY <1>9, AtWork DEF ReadMessage, histVars
  <2>2. Rest
    BY <1>9 DEF ReadMessage, TypeInv, Forget
  <2>3. CASE EndNow(t)
    BY <1>1, <2>1, <2>2, <2>3, GoneOrEnded
  <2>4. CASE Found(op[t].m) /\ op' = [op EXCEPT ![t].new = record[op[t].m], ![t].at = "list"] /\ pos' = pos
    <3> DEFINE o == [op[t] EXCEPT !.new = record[op[t].m], !.at = "list"]
    <3>1. record[op[t].m] \in Record
      BY <2>1, <2>4, FoundIsRecord
    <3>2. /\ o \in Operation /\ op' = [op EXCEPT ![t] = o]
          /\ o.at = "list" /\ o.m = op[t].m /\ o.kind = op[t].kind /\ o.new \in Record
      BY <2>1, <2>4, <3>1, AtWork DEF Operation, Steps, TypeInv
    <3>3. o.at \in Steps \ {"idle", "call"}
      BY <3>2 DEF Steps
    <3> HIDE DEF o
    <3>4. op' \in [Threads -> Operation] /\ HandsOK' /\ Working'
      BY <2>1, <2>4, <3>2, <3>3, ChangedTyped
    <3>. QED  BY <1>1, <2>1, <2>2, <2>4, <3>4 DEF TypeInv
  <2>. QED  BY <1>9, <2>3, <2>4 DEF ReadMessage
<1>10. CASE ListReactions(t)
  <2>1. op[t].at # "idle" /\ Same /\ op[t].m \in Msgs /\ op[t].new \in Record /\ Rest
    BY <1>10, AtWork DEF ListReactions, kvVars, histVars, TypeInv, HandsOK
  <2>2. CASE EndNow(t)
    BY <1>1, <2>1, <2>2, GoneOrEnded
  <2>3. CASE op' = [op EXCEPT ![t].new.flag = HasReactions(op[t].m), ![t].at = "put"] /\ pos' = pos
    <3> DEFINE new == [op[t].new EXCEPT !.flag = HasReactions(op[t].m)]
               o == [op[t] EXCEPT !.new = new, !.at = "put"]
    <3>1. new \in Record
      BY <2>1, ComputedRecords
    <3>2. op' = [op EXCEPT ![t] = o]
      BY <2>3 DEF TypeInv, Operation
    <3> HIDE DEF new
    <3>3. /\ o \in Operation
          /\ o.at = "put" /\ o.m = op[t].m /\ o.kind = op[t].kind /\ o.new \in Record
      BY <2>1, <3>1, AtWork DEF Operation, Steps
    <3>4. o.at \in Steps \ {"idle", "call"}
      BY <3>3 DEF Steps
    <3> HIDE DEF o
    <3>5. op' \in [Threads -> Operation] /\ HandsOK' /\ Working'
      BY <2>1, <2>3, <3>2, <3>3, <3>4, ChangedTyped
    <3>. QED  BY <1>1, <2>1, <2>3, <3>5 DEF TypeInv
  <2>. QED  BY <1>10, <2>2, <2>3 DEF ListReactions
<1>. QED
  BY <1>2, <1>3, <1>4, <1>5, <1>6, <1>7, <1>8, <1>9, <1>10 DEF Step

LEMMA ReadAgainTyped ==
  ASSUME TypeInv, FindInv, ReadAgain
  PROVE  TypeInv'
<1> DEFINE m == op["ui"].m
           o == Taken("read", m, Me, FALSE, "put", WithReceipt(record[m], 3))
<1>1. "ui" \in Threads /\ "ui" # "loop" /\ op["ui"].at # "idle" /\ op["ui"].at = "get"
  BY DEF Threads, ReadAgain
<1>2. m \in Msgs /\ record[m] \in Record
  BY <1>1, AtWork DEF FindInv, Held, Stored, TypeInv
<1>3. UNCHANGED <<kvVars, batch, high, histVars>>
  BY DEF ReadAgain
<1>4. CASE EndNow("ui")
  <2>1. op' \in [Threads -> Operation] /\ HandsOK' /\ Working' /\ pos' \in 0 .. Len(batch')
    BY <1>1, <1>3, <1>4, GoneOrEnded
  <2>. QED  BY <1>3, <2>1 DEF kvVars, histVars, TypeInv
<1>5. CASE Doing("ui", "read", m, Me, FALSE, "put", WithReceipt(record[m], 3)) /\ pos' = pos
  <2>1. WithReceipt(record[m], 3) \in Record
    BY <1>2, ReceiptIsRecord DEF Receipts
  <2>2. "read" \in Kinds /\ "put" \in Steps
    BY DEF Kinds, Steps
  <2>3. o \in Operation
    BY <1>2, <2>1, <2>2, TakenTyped
  <2>4. op' = [op EXCEPT !["ui"] = o]
    BY <1>5 DEF Doing, Taken
  <2>5. o.at = "put" /\ o.m = m /\ o.new \in Record
    BY <2>1 DEF Taken
  <2> HIDE DEF o, m
  <2>6. op' \in [Threads -> Operation] /\ HandsOK' /\ Working'
    BY <1>1, <1>2, <1>3, <1>5, <2>3, <2>4, <2>5, TakenUp
  <2>. QED  BY <1>3, <1>5, <2>6 DEF kvVars, histVars, TypeInv
<1>. QED  BY <1>4, <1>5 DEF ReadAgain

LEMMA FetchStickerTyped ==
  ASSUME TypeInv, FetchSticker
  PROVE  TypeInv'
<1> DEFINE m == op["loop"].m
<1>1. "loop" \in Threads /\ op["loop"].at # "idle"
  BY DEF Threads, FetchSticker
<1>2. m \in Msgs /\ record[m] \in Record \cup {NoRecord}
  BY <1>1, AtWork DEF TypeInv
<1>3. UNCHANGED <<kvVars, batch, high, histVars>>
  BY DEF FetchSticker
<1>4. CASE EndNow("loop")
  <2>1. op' \in [Threads -> Operation] /\ HandsOK' /\ Working' /\ pos' \in 0 .. Len(batch')
    BY <1>1, <1>3, <1>4, GoneOrEnded
  <2>. QED  BY <1>3, <2>1 DEF kvVars, histVars, TypeInv
<1>5. CASE /\ record[m].info /\ pos' = pos
           /\ \E next \in {"put", "call"} :
                Doing("loop", "sticker", m, Me, FALSE, next, [record[m] EXCEPT !.file = TRUE])
  <2>1. PICK next \in {"put", "call"} :
                Doing("loop", "sticker", m, Me, FALSE, next, [record[m] EXCEPT !.file = TRUE])
    BY <1>5
  <2> DEFINE new == [record[m] EXCEPT !.file = TRUE]
             o == Taken("sticker", m, Me, FALSE, next, new)
  <2>2. new \in Record
    <3>1. ~NoRecord.info
      BY DEF NoRecord
    <3>2. record[m] \in Record
      BY <1>2, <1>5, <3>1
    <3>. QED  BY <1>2, <3>2, ComputedRecords
  <2>3. op' = [op EXCEPT !["loop"] = o]
    BY <2>1 DEF Doing, Taken
  <2> HIDE DEF new
  <2>4. "sticker" \in Kinds /\ next \in Steps /\ next # "idle"
    BY DEF Kinds, Steps
  <2>5. o \in Operation
    BY <1>2, <2>2, <2>4, TakenTyped
  <2>6. o.at = next /\ o.m = m /\ o.kind = "sticker" /\ o.new \in Record
    BY <2>2 DEF Taken
  <2>7. pos < Len(batch) /\ m = batch[pos + 1].m /\ "sticker" \notin New
    BY <1>1 DEF TypeInv, Working, New
  <2> HIDE DEF o, m
  <2>8. op' \in [Threads -> Operation] /\ HandsOK' /\ Working'
    BY <1>1, <1>2, <1>3, <1>5, <2>3, <2>4, <2>5, <2>6, <2>7, TakenUp
  <2>. QED  BY <1>3, <1>5, <2>8 DEF kvVars, histVars, TypeInv
<1>. QED  BY <1>4, <1>5 DEF FetchSticker

(* What happens around the threads.                                        *)
LEMMA RestTyped ==
  ASSUME TypeInv, (\E e \in Event : Arrive(e)) \/ DeleteBatch \/ Crash
  PROVE  TypeInv'
<1>1. ASSUME NEW e \in Event, Arrive(e)
      PROVE  TypeInv'
  <2>1. batch' \in Seq(Event) /\ Len(batch') = Len(batch) + 1
    BY <1>1 DEF Arrive, TypeInv
  <2>2. HandsOK' /\ Working'
    BY <1>1 DEF Arrive, TypeInv, HandsOK, Working
  <2>. QED  BY <1>1, <2>1, <2>2 DEF Arrive, TypeInv, kvVars, histVars
<1>2. CASE DeleteBatch
  <2>1. HandsOK' /\ Working'
    BY <1>2 DEF DeleteBatch, TypeInv, HandsOK, Working
  <2>. QED  BY <1>2, <2>1 DEF DeleteBatch, TypeInv, kvVars, histVars
<1>3. CASE Crash
  <2>1. op' \in [Threads -> Operation] /\ \A t \in Threads : op'[t] = Idle
    BY <1>3, IdleTyped DEF Crash
  <2>2. HandsOK' /\ Working'
    BY <2>1, IdleTyped DEF HandsOK, Working, Threads
  <2>3. disturbed' \subseteq Msgs /\ overlap' \in BOOLEAN
    BY <1>3, AtWork DEF Crash, TypeInv, Threads
  <2>. QED  BY <1>3, <2>1, <2>2, <2>3 DEF Crash, TypeInv, kvVars
<1>. QED  BY <1>1, <1>2, <1>3

-----------------------------------------------------------------------------
(* The invariant is inductive.                                             *)

(* An index record that leads to a message stays.                          *)
LEMMA NothingForgotten ==
  ASSUME FindInv, NEW m \in Msgs, Forget(m)
  PROVE  index' = index
BY DEF FindInv, Forget, Found, Stored

(* One thread's operation has changed; records and index have grown.       *)
LEMMA StillHeld ==
  ASSUME TypeInv, FindInv, NEW t \in Threads, \A u \in Threads \ {t} : op'[u] = op[u],
         index \subseteq index', Stored \subseteq Stored', Held(t, op[t])' 
  PROVE  \A u \in Threads : Held(u, op[u])'
BY DEF FindInv, Held

LEMMA IdleHeld ==
  ASSUME NEW t \in Threads, NEW o, o = Idle
  PROVE  Held(t, o)
BY IdleTyped DEF Held, New

(* Messages are awaited as before if no record and no event has gone.      *)
LEMMA StillAwaited ==
  ASSUME TypeInv, FindInv, index \subseteq index', Stored' = Stored,
         UNCHANGED <<batch, pos>>
  PROVE  Awaited'
BY DEF FindInv, Awaited

(* The loop is done with an event: its message, if it came in, is indexed. *)
LEMMA DoneAwaited ==
  ASSUME TypeInv, FindInv, index \subseteq index', Stored' = Stored, UNCHANGED batch,
         pos' = pos + 1, pos < Len(batch),
         batch[pos + 1].kind \in New => batch[pos + 1].m \in index
  PROVE  Awaited'
<1> SUFFICES ASSUME NEW m \in (Stored \ index)'
             PROVE  \E i \in pos + 2 .. Len(batch) : batch[i].kind \in New /\ batch[i].m = m
  BY DEF Awaited, TypeInv
<1>1. PICK i \in pos + 1 .. Len(batch) : batch[i].kind \in New /\ batch[i].m = m
  BY DEF FindInv, Awaited
<1>2. i # pos + 1
  BY <1>1
<1>. QED  BY <1>1, <1>2 DEF TypeInv

(* What a step of a thread that stores no record leaves.                   *)
LEMMA StepFinds ==
  ASSUME TypeInv, FindInv, NEW t \in Threads, op[t].at # "idle",
         UNCHANGED <<record, batch>>, index \subseteq index', index' \subseteq Stored,
         \A u \in Threads \ {t} : op'[u] = op[u], Held(t, op[t])',
         \/ pos' = pos
         \/ /\ EndNow(t)
            /\ op[t].kind \in New \cup {"sticker"} => op[t].m \in index
  PROVE  FindInv'
<1>1. Stored' = Stored
  BY DEF Stored
<1>2. \A u \in Threads : Held(u, op[u])'
  BY <1>1, StillHeld
<1>3. Awaited'
  <2>1. CASE pos' = pos
    BY <1>1, <2>1, StillAwaited
  <2>2. CASE t # "loop" /\ EndNow(t)
    BY <1>1, <2>2, StillAwaited DEF EndNow
  <2>3. CASE t = "loop" /\ EndNow(t) /\ (op[t].kind \in New \cup {"sticker"} => op[t].m \in index)
    <3>1. pos < Len(batch) /\ (batch[pos + 1].kind \in New => batch[pos + 1].m \in index)
      BY <2>3 DEF TypeInv, Working
    <3>. QED  BY <1>1, <2>3, <3>1, DoneAwaited DEF EndNow
  <2>. QED  BY <2>1, <2>2, <2>3
<1>. QED  BY <1>1, <1>2, <1>3 DEF FindInv

LEMMA DispatchFinds ==
  ASSUME TypeInv, FindInv, Dispatch
  PROVE  FindInv'
<1> DEFINE e == batch[pos + 1]
<1>1. e \in Event /\ pos < Len(batch) /\ op["loop"].at = "idle" /\ "loop" \in Threads
  BY DEF Dispatch, TypeInv, Threads
<1>2. e.m \in Msgs
  BY <1>1, EventParts
<1>3. UNCHANGED <<record, batch>> /\ Stored' = Stored
  BY DEF Dispatch, Stored
<1>4. ASSUME UNCHANGED <<index, pos>>, \A u \in Threads \ {"loop"} : op'[u] = op[u],
             Held("loop", op["loop"])'
      PROVE  FindInv'
  <2>1. \A u \in Threads : Held(u, op[u])'
    BY <1>1, <1>3, <1>4, StillHeld
  <2>. QED  BY <1>3, <1>4, <2>1, StillAwaited DEF FindInv
<1>5. ASSUME NEW kind \in Kinds, NEW new, UNCHANGED <<index, pos>>,
             Doing("loop", kind, e.m, e.who, e.on, "put", new),
             kind \in New \/ e.m \in index
      PROVE  FindInv'
  <2>1. /\ op'["loop"].at = "put" /\ op'["loop"].kind = kind /\ op'["loop"].m = e.m
        /\ \A u \in Threads \ {"loop"} : op'[u] = op[u]
    BY <1>1, <1>5 DEF Doing, TypeInv
  <2>. QED  BY <1>4, <1>5, <2>1 DEF Held
<1>6. CASE /\ e.kind \in {"message", "unavailable"} /\ UNCHANGED <<index, pos>>
           /\ Doing("loop", e.kind, e.m, e.who, e.on, "put", Incoming(e.kind, e.m))
  <2> HIDE DEF e
  <2>. QED  BY <1>5, <1>6 DEF New, Kinds
<1>7. CASE /\ e.kind \in {"edit", "delete", "receipt"} /\ Found(e.m) /\ UNCHANGED <<index, pos>>
           /\ \E new \in Record : Doing("loop", e.kind, e.m, e.who, e.on, "put", new)
  <2> HIDE DEF e
  <2>. QED  BY <1>5, <1>7 DEF Kinds, Found
<1>8. CASE /\ e.kind = "reaction" /\ UNCHANGED <<index, pos>>
           /\ Doing("loop", e.kind, e.m, e.who, e.on, "react", NoRecord)
  <2>1. /\ op'["loop"].at = "react" /\ op'["loop"].kind = "reaction"
        /\ \A u \in Threads \ {"loop"} : op'[u] = op[u]
    BY <1>1, <1>8 DEF Doing, TypeInv
  <2>. QED  BY <1>4, <1>8, <2>1 DEF Held, New
<1>9. CASE EndNow("loop") /\ Forget(e.m) /\ e.kind \in {"edit", "delete", "receipt"}
  <2>1. index' = index
    BY <1>2, <1>9, NothingForgotten
  <2>2. op'["loop"] = Idle /\ (\A u \in Threads \ {"loop"} : op'[u] = op[u]) /\ pos' = pos + 1
    BY <1>1, <1>9 DEF EndNow, TypeInv
  <2>3. Held("loop", op["loop"])'
    BY <2>2, IdleTyped DEF Held, New
  <2>4. \A u \in Threads : Held(u, op[u])'
    BY <1>1, <1>3, <2>1, <2>2, <2>3, StillHeld
  <2>5. e.kind \notin New
    BY <1>9 DEF New
  <2>6. Awaited'
    BY <1>1, <1>3, <2>1, <2>2, <2>5, DoneAwaited
  <2>. QED  BY <1>3, <2>1, <2>4, <2>6 DEF FindInv
<1>10. ASSUME Found(e.m)
       PROVE  /\ [Edited(record[e.m], e.m, "phone") EXCEPT !.info = e.m \in Media,
                                                           !.flag = HasReactions(e.m)] \in Record
              /\ [Deleted(record[e.m]) EXCEPT !.info = FALSE, !.flag = HasReactions(e.m)] \in Record
              /\ \A level \in {2, 3} : WithReceipt(record[e.m], level) \in Record
  <2>1. record[e.m] \in Record
    BY <1>2, <1>10, FoundIsRecord
  <2> HIDE DEF e
  <2>2. [Edited(record[e.m], e.m, "phone") EXCEPT !.info = e.m \in Media,
                                                  !.flag = HasReactions(e.m)] \in Record
    BY <1>2, <2>1, ComputedRecords
  <2>3. [Deleted(record[e.m]) EXCEPT !.info = FALSE, !.flag = HasReactions(e.m)] \in Record
    BY <1>2, <2>1, ComputedRecords
  <2>4. \A level \in {2, 3} : WithReceipt(record[e.m], level) \in Record
    BY <2>1, ReceiptIsRecord DEF Receipts
  <2>. QED  BY <2>2, <2>3, <2>4, Zenon
<1>. QED  BY <1>6, <1>7, <1>8, <1>9, <1>10 DEF Dispatch

LEMMA CallsFind ==
  ASSUME TypeInv, FindInv, NEW m \in Msgs, Calls(m)
  PROVE  FindInv'
<1>1. PICK kind, on, new :
        Call(kind, m, on, new) /\ kind \in {"editText", "deleteOwn", "react", "download", "read"}
  BY DEF Calls, EditTextMessage, DeleteMessage, DownloadMedia, MarkAsRead, SendMessageReaction
<1>2. /\ op'["ui"].at = "call" /\ op'["ui"].kind = kind /\ op'["ui"].m = m
      /\ \A u \in Threads \ {"ui"} : op'[u] = op[u]
      /\ "ui" \in Threads /\ m \in index /\ UNCHANGED <<record, index, batch, pos>>
  BY <1>1 DEF Call, Doing, Found, TypeInv, Threads, kvVars, logVars
<1>3. Stored' = Stored
  BY <1>2 DEF Stored
<1>4. Held("ui", op["ui"])'
  BY <1>1, <1>2 DEF Held, New
<1>5. \A u \in Threads : Held(u, op[u])'
  BY <1>2, <1>3, <1>4, StillHeld
<1>. QED  BY <1>2, <1>3, <1>5, StillAwaited DEF FindInv

LEMMA RestFinds ==
  ASSUME TypeInv, FindInv, (\E e \in Event : Arrive(e)) \/ DeleteBatch \/ Crash
  PROVE  FindInv'
<1>1. UNCHANGED <<record, index>> /\ Stored' = Stored
  BY DEF Arrive, DeleteBatch, Crash, kvVars, Stored
<1>2. ASSUME NEW e \in Event, Arrive(e)
      PROVE  FindInv'
  <2>1. /\ UNCHANGED <<op, pos>> /\ Len(batch') = Len(batch) + 1
        /\ \A i \in 1 .. Len(batch) : batch'[i] = batch[i]
    BY <1>2 DEF Arrive, TypeInv
  <2>2. Awaited'
    BY <1>1, <2>1 DEF FindInv, Awaited, TypeInv
  <2>. QED  BY <1>1, <2>1, <2>2 DEF FindInv, Held
<1>3. CASE DeleteBatch
  <2>1. Stored \subseteq index
    BY <1>3 DEF DeleteBatch, FindInv, Awaited, TypeInv
  <2>. QED  BY <1>1, <1>3, <2>1 DEF DeleteBatch, FindInv, Held, Awaited
<1>4. CASE Crash
  <2>1. \A t \in Threads : op'[t] = Idle
    BY <1>4 DEF Crash
  <2>2. \A t \in Threads : Held(t, op[t])'
    BY <2>1, IdleTyped DEF Held, New
  <2>3. Awaited'
    BY <1>1, <1>4 DEF Crash, FindInv, Awaited, TypeInv
  <2>. QED  BY <1>1, <2>2, <2>3 DEF FindInv
<1>. QED  BY <1>2, <1>3, <1>4

LEMMA StepKeepsFound ==
  ASSUME TypeInv, FindInv, NEW t \in Threads, Step(t)
  PROVE  FindInv'
<1>1. ASSUME EndNow(t)
      PROVE  Held(t, op[t])' /\ \A u \in Threads \ {t} : op'[u] = op[u]
  <2>1. op'[t] = Idle /\ \A u \in Threads \ {t} : op'[u] = op[u]
    BY <1>1 DEF EndNow, TypeInv
  <2>. QED  BY <2>1, IdleTyped DEF Held, New
<1>2. ASSUME NEW at, Goto(t, at)
      PROVE  /\ op'[t].at = at /\ op'[t].m = op[t].m /\ op'[t].kind = op[t].kind
             /\ pos' = pos /\ \A u \in Threads \ {t} : op'[u] = op[u]
  BY <1>2 DEF Goto, TypeInv, Operation
<1>3. Held(t, op[t]) /\ index \subseteq Stored
  BY DEF FindInv
<1>4. CASE Answer(t)
  <2>1. op[t].at = "call" /\ UNCHANGED <<record, index, batch>>
    BY <1>4 DEF Answer, kvVars
  <2>2. \/ Goto(t, "react") /\ op[t].kind = "react"
        \/ Goto(t, "get") \/ Goto(t, "put")
    BY <1>4 DEF Answer
  <2>3. op[t].m \in index /\ op[t].kind \notin New
    BY <1>3, <2>1 DEF Held
  <2>4. Held(t, op[t])'
    BY <1>2, <2>1, <2>2, <2>3 DEF Held, New
  <2>. QED  BY <1>2, <1>3, <2>1, <2>2, <2>4, StepFinds
<1>5. CASE Fail(t)
  <2>1. op[t].at = "call" /\ EndNow(t) /\ UNCHANGED <<record, index, batch>>
    BY <1>5 DEF Fail, kvVars
  <2>. QED  BY <1>1, <1>3, <2>1, StepFinds DEF Held
<1>6. CASE PutIndex(t)
  <2>1. op[t].at = "index" /\ Goto(t, "chat") /\ UNCHANGED <<record, batch>> /\ index' = index \cup {op[t].m}
    BY <1>6 DEF PutIndex
  <2>2. op[t].m \in Stored /\ (op[t].kind \in New => t = "loop")
    BY <1>3, <2>1 DEF Held
  <2>3. Held(t, op[t])'
    BY <1>2, <2>1, <2>2 DEF Held
  <2>. QED  BY <1>2, <1>3, <2>1, <2>2, <2>3, StepFinds
<1>7. CASE ReadChat(t)
  <2>1. /\ op[t].at = "chat" /\ UNCHANGED <<record, index, batch, pos>>
        /\ op'[t].at = "chatPut" /\ op'[t].m = op[t].m /\ op'[t].kind = op[t].kind
        /\ \A u \in Threads \ {t} : op'[u] = op[u]
    BY <1>7 DEF ReadChat, kvVars, logVars, TypeInv, Operation
  <2>2. Held(t, op[t])'
    BY <1>3, <2>1 DEF Held
  <2>. QED  BY <1>3, <2>1, <2>2, StepFinds
<1>8. CASE PutChat(t)
  <2>1. op[t].at = "chatPut" /\ UNCHANGED <<record, index, batch>> /\ (EndNow(t) \/ Goto(t, "fetch"))
    BY <1>8 DEF PutChat
  <2>2. op[t].m \in index /\ (op[t].kind \in New => t = "loop")
    BY <1>3, <2>1 DEF Held
  <2>3. CASE EndNow(t)
    BY <1>1, <1>3, <2>1, <2>2, <2>3, StepFinds
  <2>4. CASE Goto(t, "fetch")
    <3>1. Held(t, op[t])'
      BY <1>2, <2>1, <2>2, <2>4 DEF Held
    <3>. QED  BY <1>2, <1>3, <2>1, <2>4, <3>1, StepFinds
  <2>. QED  BY <2>1, <2>3, <2>4
<1>9. CASE PutReaction(t)
  <2>1. op[t].at = "react" /\ Goto(t, "refresh") /\ UNCHANGED <<record, index, batch>>
    BY <1>9 DEF PutReaction
  <2>2. Held(t, op[t])'
    BY <1>2, <1>3, <2>1 DEF Held, New
  <2>. QED  BY <1>2, <1>3, <2>1, <2>2, StepFinds
<1>10. CASE ReadMessage(t)
  <2>1. op[t].at = "refresh" /\ UNCHANGED <<record, batch>> /\ Forget(op[t].m)
    BY <1>10 DEF ReadMessage
  <2>2. index' = index /\ op[t].kind \notin New \cup {"sticker"}
    BY <1>3, <2>1, AtWork, NothingForgotten DEF Held, New
  <2>3. CASE EndNow(t)
    BY <1>1, <1>3, <2>1, <2>2, <2>3, StepFinds
  <2>4. CASE /\ Found(op[t].m) /\ pos' = pos
             /\ op' = [op EXCEPT ![t].new = record[op[t].m], ![t].at = "list"]
    <3>1. /\ op'[t].at = "list" /\ op'[t].m = op[t].m /\ op'[t].kind = op[t].kind
          /\ \A u \in Threads \ {t} : op'[u] = op[u]
      BY <2>4 DEF TypeInv, Operation
    <3>2. Held(t, op[t])'
      BY <1>3, <2>1, <2>2, <2>4, <3>1 DEF Held, Found, New
    <3>. QED  BY <1>3, <2>1, <2>2, <2>4, <3>1, <3>2, StepFinds
  <2>. QED  BY <1>10, <2>3, <2>4 DEF ReadMessage
<1>11. CASE ListReactions(t)
  <2>1. op[t].at = "list" /\ UNCHANGED <<record, index, batch>>
    BY <1>11 DEF ListReactions, kvVars
  <2>2. op[t].m \in index /\ op[t].kind \notin New \cup {"sticker"}
    BY <1>3, <2>1 DEF Held, New
  <2>3. CASE EndNow(t)
    BY <1>1, <1>3, <2>1, <2>2, <2>3, StepFinds
  <2>4. CASE op' = [op EXCEPT ![t].new.flag = HasReactions(op[t].m), ![t].at = "put"] /\ pos' = pos
    <3>1. /\ op'[t].at = "put" /\ op'[t].m = op[t].m /\ op'[t].kind = op[t].kind
          /\ \A u \in Threads \ {t} : op'[u] = op[u]
      BY <2>4 DEF TypeInv, Operation
    <3>2. Held(t, op[t])'
      BY <2>1, <2>2, <3>1 DEF Held, New
    <3>. QED  BY <1>3, <2>1, <2>2, <2>4, <3>1, <3>2, StepFinds
  <2>. QED  BY <1>11, <2>3, <2>4 DEF ListReactions
<1>12. CASE PutRecord(t)
  <2> DEFINE m == op[t].m
  <2>1. /\ op[t].at = "put" /\ UNCHANGED <<index, batch>> /\ m \in Msgs /\ op[t].new \in Record
        /\ record' = [record EXCEPT ![m] = op[t].new]
    BY <1>12, AtWork DEF PutRecord, TypeInv, HandsOK
  <2>2. Stored' = Stored \cup {m}
    <3>1. op[t].new # NoRecord
      BY <2>1, RealRecord
    <3>. QED  BY <2>1, <3>1 DEF Stored, TypeInv
  <2>3. CASE op[t].kind \in New
    <3>1. t = "loop" /\ Goto(t, "index")
      BY <1>3, <1>12, <2>3 DEF Held, PutRecord, New
    <3>2. Held(t, op[t])'
      BY <1>2, <2>2, <2>3, <3>1 DEF Held
    <3>3. \A u \in Threads : Held(u, op[u])'
      BY <1>2, <2>1, <2>2, <3>1, <3>2, StillHeld
    <3>4. pos < Len(batch) /\ batch[pos + 1].kind \in New /\ batch[pos + 1].m = m
      BY <2>1, <2>3, <3>1 DEF TypeInv, Working
    <3>5. pos + 1 \in pos + 1 .. Len(batch)
      BY <3>4 DEF TypeInv
    <3>6. Awaited'
      BY <1>2, <2>1, <2>2, <3>1, <3>4, <3>5 DEF FindInv, Awaited
    <3>. QED  BY <1>3, <2>1, <2>2, <3>3, <3>6 DEF FindInv
  <2>4. CASE op[t].kind \notin New
    <3>1. m \in index /\ Stored' = Stored
      BY <1>3, <2>1, <2>2, <2>4 DEF Held
    <3>2. EndNow(t) \/ Goto(t, "index") \/ Goto(t, "chat")
      BY <1>12 DEF PutRecord
    <3>3. Held(t, op[t])' /\ \A u \in Threads \ {t} : op'[u] = op[u]
      BY <1>1, <1>2, <1>3, <2>1, <2>4, <3>1, <3>2 DEF Held
    <3>4. \A u \in Threads : Held(u, op[u])'
      BY <2>1, <3>1, <3>3, StillHeld
    <3>5. Awaited'
      <4>1. CASE pos' = pos
        BY <2>1, <3>1, <4>1, StillAwaited
      <4>2. CASE t = "loop" /\ EndNow(t)
        <5>1. pos < Len(batch) /\ (batch[pos + 1].kind \in New => batch[pos + 1].m \in index)
          BY <2>1, <3>1, <4>2 DEF TypeInv, Working
        <5>. QED  BY <2>1, <3>1, <4>2, <5>1, DoneAwaited DEF EndNow
      <4>. QED  BY <1>2, <3>2, <4>1, <4>2 DEF EndNow
    <3>. QED  BY <1>3, <2>1, <3>1, <3>4, <3>5 DEF FindInv
  <2>. QED  BY <2>3, <2>4
<1>. QED
  BY <1>4, <1>5, <1>6, <1>7, <1>8, <1>9, <1>10, <1>11, <1>12 DEF Step

(* The two steps only one thread takes.                                    *)
LEMMA OwnStepsFind ==
  ASSUME TypeInv, FindInv, ReadAgain \/ FetchSticker
  PROVE  FindInv'
<1>1. CASE ReadAgain
  <2>1. "ui" \in Threads /\ op["ui"].at = "get" /\ UNCHANGED <<record, index, batch>>
    BY <1>1 DEF ReadAgain, kvVars, Threads
  <2>2. op["ui"].m \in index /\ index \subseteq Stored
    BY <2>1 DEF FindInv, Held
  <2>3. CASE EndNow("ui")
    <3>1. op'["ui"] = Idle /\ \A u \in Threads \ {"ui"} : op'[u] = op[u]
      BY <2>1, <2>3 DEF EndNow, TypeInv
    <3>2. Held("ui", op["ui"])'
      BY <3>1, IdleTyped DEF Held, New
    <3>. QED  BY <2>1, <2>2, <2>3, <3>1, <3>2, StepFinds
  <2>4. CASE /\ pos' = pos
             /\ Doing("ui", "read", op["ui"].m, Me, FALSE, "put", WithReceipt(record[op["ui"].m], 3))
    <3>1. /\ op'["ui"].at = "put" /\ op'["ui"].kind = "read" /\ op'["ui"].m = op["ui"].m
          /\ \A u \in Threads \ {"ui"} : op'[u] = op[u]
      BY <2>1, <2>4 DEF Doing, TypeInv
    <3>2. Held("ui", op["ui"])'
      BY <2>1, <2>2, <3>1 DEF Held, New
    <3>. QED  BY <2>1, <2>2, <2>4, <3>1, <3>2, StepFinds
  <2>. QED  BY <1>1, <2>3, <2>4 DEF ReadAgain
<1>2. CASE FetchSticker
  <2>1. "loop" \in Threads /\ op["loop"].at = "fetch" /\ UNCHANGED <<record, index, batch>>
    BY <1>2 DEF FetchSticker, kvVars, Threads
  <2>2. op["loop"].m \in index /\ index \subseteq Stored
    BY <2>1 DEF FindInv, Held
  <2>3. CASE EndNow("loop")
    <3>1. op'["loop"] = Idle /\ \A u \in Threads \ {"loop"} : op'[u] = op[u]
      BY <2>1, <2>3 DEF EndNow, TypeInv
    <3>2. Held("loop", op["loop"])'
      BY <3>1, IdleTyped DEF Held, New
    <3>. QED  BY <2>1, <2>2, <2>3, <3>1, <3>2, StepFinds
  <2>4. CASE /\ pos' = pos
             /\ \E next \in {"put", "call"} :
                  Doing("loop", "sticker", op["loop"].m, Me, FALSE, next,
                        [record[op["loop"].m] EXCEPT !.file = TRUE])
    <3>1. /\ op'["loop"].at \in {"put", "call"} /\ op'["loop"].kind = "sticker"
          /\ op'["loop"].m = op["loop"].m
          /\ \A u \in Threads \ {"loop"} : op'[u] = op[u]
      BY <2>1, <2>4 DEF Doing, TypeInv
    <3>2. Held("loop", op["loop"])'
      BY <2>1, <2>2, <3>1 DEF Held, New
    <3>. QED  BY <2>1, <2>2, <2>4, <3>1, <3>2, StepFinds
  <2>. QED  BY <1>2, <2>3, <2>4 DEF FetchSticker
<1>. QED  BY <1>1, <1>2

-----------------------------------------------------------------------------
(* Theorems: types, and messages found.                                    *)

LEMMA Initially == Init => TypeInv /\ FindInv
<1> SUFFICES ASSUME Init PROVE TypeInv /\ FindInv
  OBVIOUS
<1>1. op \in [Threads -> Operation] /\ \A t \in Threads : op[t] = Idle
  BY IdleTyped DEF Init
<1>2. HandsOK /\ Working
  BY <1>1, IdleTyped DEF HandsOK, Working, Threads
<1>3. chat \in ChatRecord
  BY DEF Init, NoChat, ChatRecord, Types, Bodies
<1>4. TypeInv
  <2>1. record \in [Msgs -> Record \cup {NoRecord}] /\ reacted \in [Msgs -> SUBSET (Others \cup {Me})]
    BY DEF Init
  <2>2. batch \in Seq(Event) /\ pos \in 0 .. Len(batch) /\ high \in 0 .. Len(batch)
    BY DEF Init
  <2>3. index \subseteq Msgs /\ disturbed \subseteq Msgs /\ overlap \in BOOLEAN
    BY DEF Init
  <2>. QED  BY <1>1, <1>2, <1>3, <2>1, <2>2, <2>3 DEF TypeInv
<1>5. Stored = {}
  BY DEF Init, Stored
<1>6. \A t \in Threads : Held(t, op[t])
  BY <1>1, IdleTyped DEF Held, New
<1>. QED  BY <1>4, <1>5, <1>6 DEF Init, FindInv, Awaited

LEMMA Inductive ==
  TypeInv /\ FindInv /\ [Next]_vars => TypeInv' /\ FindInv'
<1> SUFFICES ASSUME TypeInv, FindInv, [Next]_vars PROVE TypeInv' /\ FindInv'
  OBVIOUS
<1>1. CASE UNCHANGED vars
  <2>1. Stored' = Stored /\ UNCHANGED <<op, index, batch, pos>>
    BY <1>1 DEF vars, kvVars, logVars, Stored
  <2>2. FindInv'
    BY <2>1 DEF FindInv, Held, Awaited
  <2>. QED
    BY <1>1, <2>2 DEF vars, kvVars, logVars, histVars, TypeInv, HandsOK, Working
<1>2. CASE Next
  BY <1>2, DispatchTyped, DispatchFinds, CallsTyped, CallsFind, StepTyped, StepKeepsFound,
     ReadAgainTyped, FetchStickerTyped, OwnStepsFind, RestTyped, RestFinds DEF Next
<1>. QED  BY <1>1, <1>2

LEMMA Invariance == Spec => [](TypeInv /\ FindInv)
BY Initially, Inductive, PTL DEF Spec

(* Every variable has its type, and what a thread is about to put is a     *)
(* record that the code could have stored (store/records.py).              *)
THEOREM Typing == Spec => []TypeOK
<1>1. TypeInv => TypeOK
  BY DEF TypeInv, TypeOK, HandsOK, Operation
<1>. QED  BY <1>1, Invariance, PTL

(* However many events, calls and crashes there are: a message whose event *)
(* has been dispatched to the end can be found by its id, and an index     *)
(* record leads to a message (put_message_index, after the record's put).  *)
THEOREM EveryMessageFound == Spec => []Findable
<1>1. TypeInv /\ FindInv => Findable
  BY DEF TypeInv, FindInv, Awaited, Findable, Quiet
<1>. QED  BY <1>1, Invariance, PTL

-----------------------------------------------------------------------------
(* What is shown: the invariant.                                           *)

Setting == New \cup {"edit", "delete"}
LoopKinds == Setting \cup {"receipt", "reaction", "sticker"}
UiKinds == {"editText", "deleteOwn", "react", "download", "read"}

(* The kinds of operation a thread has, and the steps of each.             *)
Shaped(t, o) ==
  /\ o.at # "idle" => o.kind \in IF t = "loop" THEN LoopKinds ELSE UiKinds
  /\ o.at = "call" => o.kind \in UiKinds \cup {"sticker"}
  /\ o.at = "get" => o.kind = "read"
  /\ o.at = "index" => o.kind \in New \cup {"edit"}
  /\ o.at \in {"chat", "chatPut"} => o.kind \in Setting \cup {"editText", "deleteOwn"}
  /\ o.at = "fetch" => o.kind = "message"
  /\ o.at # "idle" /\ o.kind = "sticker" => o.at \in {"call", "put"}

(* The event the loop is at.                                               *)
Current ==
  LET o == op["loop"] IN
  o.at # "idle" =>
    /\ pos < high
    /\ batch[pos + 1].kind = IF o.kind = "sticker" THEN "message" ELSE o.kind

(* Nothing else touches the message while the operation is under way.      *)
Sole(m) == m \notin disturbed \/ ~overlap
Exclusive ==
  op["ui"].at # "idle" =>
    /\ op["loop"].m = op["ui"].m => ~Sole(op["ui"].m)
    /\ op["loop"].at # "idle" => overlap
    /\ op["ui"].m \notin disturbed => \A i \in 1 .. high : batch[i].m # op["ui"].m

(* What an operation of the kind makes a message show.                     *)
Shows(kind) ==
  CASE kind \in New \cup {"sticker"} -> "original"
    [] kind = "edit" -> "phone"
    [] kind = "editText" -> "app"
    [] OTHER -> ""

(* The record an operation has in hand, and the stored one after its put.  *)
Fresh(o) ==
  LET r == record[o.m] IN
  o.at # "idle" /\ Sole(o.m) =>
    /\ o.at = "list" => o.new = r
    /\ o.at = "put" \/ (o.at = "call" /\ o.kind \notin {"react", "read"}) =>
         /\ o.new.body = IF o.kind \in Setting \cup {"editText", "deleteOwn"}
                           THEN Shows(o.kind) ELSE r.body
         /\ o.kind \notin Setting \cup {"editText", "deleteOwn"} => o.new.type = r.type
         /\ o.new.flag = IF o.kind \in Setting \cup {"reaction", "react"}
                           THEN HasReactions(o.m) ELSE r.flag
    /\ o.at \in {"index", "chat", "chatPut"} => o.new = r
    /\ o.at \in {"index", "chat", "chatPut", "fetch"} \/ o.kind = "sticker" =>
         /\ r.body = Shows(o.kind)
         /\ o.kind \in New \cup {"sticker"} => r.flag = HasReactions(o.m)

(* The events of a message still to be dispatched (again).                 *)
Pending(m, kinds, last) == \E i \in pos + 1 .. last : batch[i].m = m /\ batch[i].kind \in kinds

HandsInv ==
  /\ \A t \in Threads : Shaped(t, op[t]) /\ Fresh(op[t])
  /\ Current /\ Exclusive
  /\ due \in [Msgs -> Bodies \cup {"nothing"}]
  /\ pos <= high
  /\ \A i \in 1 .. high : batch[i].kind \in New => due[batch[i].m] # "nothing"
  /\ \A m \in Stored \ index : Pending(m, New, high)
  /\ \A m \in Stored : due[m] # "nothing"
  /\ op["loop"].kind \in New => due[op["loop"].m] # "nothing"
  /\ \A m \in Msgs : due[m] # "nothing" => m \in Stored \/ Pending(m, New, high)

(* The last of the changes dispatched is what the message is to show.      *)
LastOf(m, i) ==
  /\ batch[i].m = m /\ batch[i].kind \in Setting
  /\ \A j \in i + 1 .. high : ~(batch[j].m = m /\ batch[j].kind \in Setting)
LastIsDue ==
  \A m \in Msgs \ disturbed : due[m] # "nothing" =>
    \A i \in 1 .. high : LastOf(m, i) => due[m] = Shows(batch[i].kind)

(* A message shows what is due, unless a change of it is to come again.    *)
ShowsDue ==
  \A m \in Msgs \ disturbed :
    due[m] # "nothing" /\ ~Pending(m, Setting, high) =>
      m \in Stored /\ record[m].body = due[m]

(* The flag is right, or an operation that sets it is under way or to come.*)
FlagsRight ==
  \A m \in Stored \ disturbed :
    \/ record[m].flag = HasReactions(m)
    \/ Pending(m, New \cup {"reaction"}, Len(batch))
    \/ op["ui"].m = m /\ op["ui"].kind = "react" /\ op["ui"].at \in {"refresh", "list", "put"}

(* The preview.                                                            *)
Matches(n) == chat.last = n /\ chat.type = record[n].type /\ chat.body = record[n].body
NewestOf(n) == n \in Stored /\ \A m \in Stored : m <= n
NextChat(o) ==
  IF o.kind \in New \/ chat = NoChat THEN Upserted(o.m, o.new) ELSE AfterEdit(o.m, o.new)
PreviewInv ==
  /\ chat.last \in Stored \cup {0}
  /\ \A t \in Threads : op[t].at = "chatPut" => op[t].newChat.last \in Stored \cup {0}
  /\ ~overlap =>
     /\ \A t \in Threads : op[t].at = "chatPut" => op[t].newChat = NextChat(op[t])
     /\ \A n \in Stored : NewestOf(n) =>
          /\ \/ Pending(n, New, Len(batch))
             \/ Matches(n)
             \/ chat.last = n /\ Pending(n, {"edit", "delete"}, Len(batch))
             \/ /\ chat.last = n /\ op["ui"].m = n /\ op["ui"].kind \in {"editText", "deleteOwn"}
                /\ op["ui"].at \in {"chat", "chatPut"}
          /\ op["loop"].m = n /\ (op["loop"].at = "fetch" \/ op["loop"].kind = "sticker") => Matches(n)

-----------------------------------------------------------------------------
(* What is shown: a step of a thread at work.                              *)

Ended(t) == op'[t] = Idle /\ pos' = IF t = "loop" THEN pos + 1 ELSE pos
GoneOn(t) ==
  /\ op'[t].at # "idle" /\ op'[t].m = op[t].m /\ pos' = pos
  /\ op'[t].kind = op[t].kind \/ (op[t].kind = "message" /\ op'[t].kind = "sticker")
Works(t) ==
  /\ op[t].at # "idle" /\ \A u \in Threads \ {t} : op'[u] = op[u]
  /\ UNCHANGED <<batch, high, disturbed, overlap>>
  /\ Ended(t) \/ GoneOn(t)
  /\ \A n \in Msgs \ {op[t].m} :
       record'[n] = record[n] /\ reacted'[n] = reacted[n] /\ due'[n] = due[n]

LEMMA PendingKept ==
  ASSUME TypeInv, NEW n, NEW kinds, UNCHANGED <<batch, high>>,
         \/ pos' = pos
         \/ pos' = pos + 1 /\ ~(batch[pos + 1].m = n /\ batch[pos + 1].kind \in kinds)
  PROVE  /\ Pending(n, kinds, high)' <=> Pending(n, kinds, high)
         /\ Pending(n, kinds, Len(batch))' <=> Pending(n, kinds, Len(batch))
<1>1. pos \in Nat /\ high \in Nat /\ Len(batch) \in Nat
  BY DEF TypeInv
<1>2. CASE pos' = pos
  BY <1>2 DEF Pending
<1>3. CASE pos' = pos + 1 /\ ~(batch[pos + 1].m = n /\ batch[pos + 1].kind \in kinds)
  <2>1. \A last \in Nat : \A i \in pos + 1 .. last :
          batch[i].m = n /\ batch[i].kind \in kinds => i \in pos' + 1 .. last
    BY <1>1, <1>3
  <2>2. \A last \in Nat : \A i \in pos' + 1 .. last : i \in pos + 1 .. last
    BY <1>1, <1>3
  <2>. QED  BY <1>1, <2>1, <2>2 DEF Pending
<1>. QED  BY <1>2, <1>3

(* What a step of one thread leaves of the other's operation, of the order *)
(* of events and of the events to come.                                    *)
LEMMA WorksFrame ==
  ASSUME TypeInv, HandsInv, NEW t \in Threads, Works(t)
  PROVE  /\ Current' /\ Exclusive' /\ pos' <= high'
         /\ \A u \in Threads \ {t} : Shaped(u, op[u])' /\ Fresh(op[u])'
         /\ \A n : \A kinds :
              ~(/\ t = "loop" /\ Ended(t) /\ n = op[t].m /\ batch[pos + 1].kind \in kinds)
              => /\ Pending(n, kinds, high)' <=> Pending(n, kinds, high)
                 /\ Pending(n, kinds, Len(batch))' <=> Pending(n, kinds, Len(batch))
<1>1. /\ op[t].at # "idle" /\ \A u \in Threads \ {t} : op'[u] = op[u]
      /\ UNCHANGED <<batch, high, disturbed, overlap>>
      /\ Ended(t) \/ GoneOn(t)
  BY DEF Works
<1>2. op[t].m \in Msgs /\ op[t].m # 0 /\ Idle.m = 0 /\ Idle.at = "idle"
  BY <1>1, AtWork, MsgsAssumption DEF Idle
<1>3. t = "loop" => /\ pos < Len(batch) /\ pos < high /\ batch[pos + 1].m = op[t].m
                    /\ batch[pos + 1].kind = IF op[t].kind = "sticker" THEN "message" ELSE op[t].kind
  BY <1>1 DEF TypeInv, Working, HandsInv, Current
<1>4. pos \in Nat /\ high \in Nat /\ pos <= high
  BY DEF TypeInv, HandsInv
<1>5. Current'
  <2>1. CASE t = "loop" /\ Ended(t)
    BY <1>2, <2>1 DEF Ended, Current
  <2>2. CASE t = "loop" /\ GoneOn(t)
    BY <1>1, <1>3, <2>2 DEF GoneOn, Current
  <2>3. CASE t # "loop"
    BY <1>1, <2>3 DEF HandsInv, Current, Threads, Ended, GoneOn
  <2>. QED  BY <1>1, <2>1, <2>2, <2>3
<1>6. Exclusive'
  <2>1. \A u \in Threads : op'[u] = Idle \/ (op'[u].m = op[u].m /\ op[u].at # "idle") \/ op'[u] = op[u]
    BY <1>1 DEF Ended, GoneOn
  <2>2. \A u \in Threads : op[u].at # "idle" => op[u].m # 0
    BY MsgsAssumption DEF TypeInv, HandsOK
  <2>3. \A n : Sole(n)' <=> Sole(n)
    BY <1>1 DEF Sole
  <2>. QED  BY <1>1, <1>2, <2>1, <2>2, <2>3 DEF HandsInv, Exclusive, Threads
<1>7. pos' <= high'
  BY <1>1, <1>3, <1>4 DEF Ended, GoneOn
<1>8. ASSUME NEW u \in Threads \ {t}
      PROVE  Shaped(u, op[u])' /\ Fresh(op[u])'
  <2>1. op'[u] = op[u]
    BY <1>1
  <2>2. Shaped(u, op[u])'
    BY <2>1 DEF HandsInv, Shaped
  <2>3. ASSUME op[u].at # "idle", Sole(op[u].m)
        PROVE  op[u].m \in Msgs \ {op[t].m}
    BY <1>1, <2>3, AtWork DEF HandsInv, Exclusive, Threads
  <2>5. PICK o : o = op[u]
    OBVIOUS
  <2>6. Sole(o.m)' <=> Sole(o.m)
    BY <1>1 DEF Sole
  <2>8. Fresh(o)'
    <3>. SUFFICES ASSUME o.at # "idle", Sole(o.m) PROVE Fresh(o)'
      BY <2>6 DEF Fresh
    <3>1. record'[o.m] = record[o.m] /\ reacted'[o.m] = reacted[o.m]
      BY <2>3, <2>5 DEF Works
    <3>2. Fresh(o)
      BY <2>5 DEF HandsInv
    <3>. QED  BY <3>1, <3>2 DEF Fresh, HasReactions
  <2>. QED  BY <2>1, <2>2, <2>5, <2>8
<1>9. ASSUME NEW n, NEW kinds,
             ~(/\ t = "loop" /\ Ended(t) /\ n = op[t].m /\ batch[pos + 1].kind \in kinds)
      PROVE  /\ Pending(n, kinds, high)' <=> Pending(n, kinds, high)
             /\ Pending(n, kinds, Len(batch))' <=> Pending(n, kinds, Len(batch))
  <2>1. \/ pos' = pos
        \/ pos' = pos + 1 /\ ~(batch[pos + 1].m = n /\ batch[pos + 1].kind \in kinds)
    BY <1>1, <1>3, <1>9 DEF Ended, GoneOn
  <2>. QED  BY <1>1, <2>1, PendingKept
<1>. QED  BY <1>5, <1>6, <1>7, <1>8, <1>9

(* The change the loop is done with is what its message is to show, if no  *)
(* other is to come.                                                       *)
LEMMA LastShown ==
  ASSUME TypeInv, HandsInv, LastIsDue, NEW m \in Msgs \ disturbed, pos < high,
         batch[pos + 1].m = m, batch[pos + 1].kind \in Setting, due[m] # "nothing",
         pos' = pos + 1, UNCHANGED <<batch, high>>, ~Pending(m, Setting, high)'
  PROVE  due[m] = Shows(batch[pos + 1].kind)
<1>1. pos \in Nat /\ high \in Nat /\ pos + 1 \in 1 .. high
  BY DEF TypeInv
<1>2. LastOf(m, pos + 1)
  <2>1. \A j \in pos + 2 .. high : ~(batch[j].m = m /\ batch[j].kind \in Setting)
    BY <1>1 DEF Pending
  <2>. QED  BY <1>1, <2>1 DEF LastOf
<1>. QED  BY <1>1, <1>2 DEF LastIsDue

(* A step that neither puts a message nor changes what one is to show.  If *)
(* the loop is done with an event that does, it has been put.              *)
Quietly(t) ==
  /\ Works(t) /\ UNCHANGED <<record, due>> /\ index \subseteq index'
  /\ t = "loop" /\ Ended(t) =>
       op[t].at \in {"call", "chatPut", "fetch"} \/ op[t].kind = "reaction"

LEMMA QuietlyKeeps ==
  ASSUME TypeInv, FindInv, HandsInv, LastIsDue, ShowsDue, NEW t \in Threads, Quietly(t),
         Shaped(t, op[t])', Fresh(op[t])'
  PROVE  HandsInv' /\ LastIsDue' /\ ShowsDue'
<1>. DEFINE m == op[t].m
            done == t = "loop" /\ Ended(t)
<1>1. /\ op[t].at # "idle" /\ UNCHANGED <<batch, high, disturbed, overlap, record, due>>
      /\ index \subseteq index' /\ Stored' = Stored /\ (Ended(t) \/ GoneOn(t))
      /\ \A u \in Threads \ {t} : op'[u] = op[u]
  BY DEF Quietly, Works, Stored
<1>2. /\ Current' /\ Exclusive' /\ pos' <= high'
      /\ \A u \in Threads \ {t} : Shaped(u, op[u])' /\ Fresh(op[u])'
      /\ \A n : \A kinds :
           ~(done /\ n = m /\ batch[pos + 1].kind \in kinds)
           => (Pending(n, kinds, high)' <=> Pending(n, kinds, high))
  BY WorksFrame DEF Quietly
<1>3. m \in Msgs
  BY <1>1, AtWork
<1>4. done /\ batch[pos + 1].kind \in Setting =>
        /\ m \in index /\ m \in Stored /\ pos < high /\ pos' = pos + 1 /\ batch[pos + 1].m = m
        /\ Sole(m) => record[m].body = Shows(batch[pos + 1].kind)
  <2>. SUFFICES ASSUME done, batch[pos + 1].kind \in Setting
                PROVE  /\ m \in index /\ m \in Stored /\ pos < high /\ pos' = pos + 1
                       /\ batch[pos + 1].m = m
                       /\ Sole(m) => record[m].body = Shows(batch[pos + 1].kind)
    OBVIOUS
  <2>1. /\ pos < high /\ pos' = pos + 1 /\ batch[pos + 1].m = m
        /\ batch[pos + 1].kind = IF op[t].kind = "sticker" THEN "message" ELSE op[t].kind
    BY <1>1 DEF TypeInv, Working, HandsInv, Current, Ended
  <2>2. op[t].at \in {"call", "chatPut", "fetch"}
    BY <2>1 DEF Quietly, Setting, New
  <2>3. op[t].at = "call" => op[t].kind = "sticker"
    BY <2>1 DEF HandsInv, Shaped, UiKinds, LoopKinds, Setting, New
  <2>4. m \in index /\ m \in Stored
    BY <2>2 DEF FindInv, Held
  <2>5. Sole(m) => record[m].body = Shows(op[t].kind)
    BY <1>1, <2>2, <2>3 DEF HandsInv, Fresh
  <2>6. Shows(op[t].kind) = Shows(batch[pos + 1].kind)
    BY <2>1 DEF Shows, New
  <2>. QED  BY <2>1, <2>4, <2>5, <2>6
<1>. HIDE DEF done, m
<1>5. New \subseteq Setting
  BY DEF Setting
<1>6. HandsInv'
  <2>1. \A n \in Stored \ index' : Pending(n, New, high)'
    BY <1>1, <1>2, <1>4, <1>5 DEF HandsInv
  <2>2. \A n \in Msgs : due[n] # "nothing" => n \in Stored \/ Pending(n, New, high)'
    BY <1>2, <1>4, <1>5 DEF HandsInv
  <2>3. op'["loop"].kind \in New => due[op'["loop"].m] # "nothing"
    <3>1. \/ op'["loop"] = op["loop"] \/ op'["loop"].kind \notin New
          \/ op'["loop"].m = op["loop"].m /\ op'["loop"].kind = op["loop"].kind
      BY <1>1, IdleTyped DEF Ended, GoneOn, New, Threads
    <3>. QED  BY <3>1 DEF HandsInv
  <2>. QED  BY <1>1, <1>2, <2>1, <2>2, <2>3 DEF HandsInv
<1>7. LastIsDue'
  BY <1>1 DEF LastIsDue, LastOf
<1>8. ShowsDue'
  <2>. SUFFICES ASSUME NEW n \in Msgs \ disturbed, due[n] # "nothing", ~Pending(n, Setting, high)'
                PROVE  n \in Stored /\ record[n].body = due[n]
    BY <1>1 DEF ShowsDue
  <2>1. CASE ~(done /\ n = m /\ batch[pos + 1].kind \in Setting)
    BY <1>2, <2>1 DEF ShowsDue
  <2>2. CASE done /\ n = m /\ batch[pos + 1].kind \in Setting
    <3>1. due[n] = Shows(batch[pos + 1].kind)
      BY <1>1, <1>4, <2>2, LastShown
    <3>. QED  BY <1>4, <2>2, <3>1 DEF Sole
  <2>. QED  BY <2>1, <2>2
<1>. QED  BY <1>6, <1>7, <1>8

(* The loop is done with an event that came with a message: it is stored   *)
(* with the flag its reactions ask for.                                    *)
LEMMA QuietlyDone ==
  ASSUME TypeInv, FindInv, HandsInv, NEW t \in Threads, Quietly(t), t = "loop", Ended(t)
  PROVE  /\ pos < high /\ batch[pos + 1].m = op[t].m
         /\ batch[pos + 1].kind = IF op[t].kind = "sticker" THEN "message" ELSE op[t].kind
         /\ op[t].at = "call" => op[t].kind = "sticker"
         /\ batch[pos + 1].kind \in New =>
              /\ op[t].at \in {"call", "chatPut", "fetch"}
              /\ Sole(op[t].m) => record[op[t].m].flag = HasReactions(op[t].m)
<1>0. op[t].at # "idle"
  BY DEF Quietly, Works
<1>1. /\ pos < high /\ batch[pos + 1].m = op[t].m
      /\ batch[pos + 1].kind = IF op[t].kind = "sticker" THEN "message" ELSE op[t].kind
  BY <1>0 DEF TypeInv, Working, HandsInv, Current
<1>2. op[t].at = "call" => op[t].kind = "sticker"
  <2>1. Shaped(t, op[t])
    BY DEF HandsInv
  <2>. QED  BY <2>1 DEF Shaped, UiKinds, LoopKinds, Setting, New
<1>3. ASSUME batch[pos + 1].kind \in New
      PROVE  /\ op[t].at \in {"call", "chatPut", "fetch"}
             /\ Sole(op[t].m) => record[op[t].m].flag = HasReactions(op[t].m)
  <2>1. op[t].kind # "reaction" /\ op[t].kind \in New \cup {"sticker"}
    BY <1>1, <1>3 DEF New
  <2>2. op[t].at \in {"call", "chatPut", "fetch"}
    BY <2>1 DEF Quietly
  <2>3. Fresh(op[t])
    BY DEF HandsInv
  <2>. QED  BY <1>0, <1>2, <2>1, <2>2, <2>3 DEF Fresh
<1>. QED  BY <1>1, <1>2, <1>3

LEMMA QuietlyFlags ==
  ASSUME TypeInv, FindInv, HandsInv, FlagsRight, FindInv', NEW t \in Threads, Quietly(t),
         UNCHANGED reacted,
         /\ Ended(t) /\ op[t].kind \in {"reaction", "react"} /\ op[t].at # "call"
         /\ op[t].m \in Stored \ disturbed
         => record[op[t].m].flag = HasReactions(op[t].m) \/ op[t].m \notin index',
         GoneOn(t) /\ op[t].at \in {"refresh", "list", "put"} =>
           op'[t].at \in {"refresh", "list", "put"}
  PROVE  FlagsRight'
<1>. DEFINE m == op[t].m
            Repair == New \cup {"reaction"}
            done == t = "loop" /\ Ended(t)
<1>1. /\ op[t].at # "idle" /\ UNCHANGED <<batch, high, disturbed, overlap, record, due>>
      /\ Stored' = Stored /\ (Ended(t) \/ GoneOn(t)) /\ \A u \in Threads \ {t} : op'[u] = op[u]
  BY DEF Quietly, Works, Stored
<1>2. \A n : \A kinds :
        ~(done /\ n = m /\ batch[pos + 1].kind \in kinds)
        => (Pending(n, kinds, Len(batch))' <=> Pending(n, kinds, Len(batch)))
  BY WorksFrame DEF Quietly
<1>3. done => /\ batch[pos + 1].kind = "reaction" => op[t].kind = "reaction" /\ op[t].at # "call"
              /\ batch[pos + 1].kind \in New /\ Sole(m) => record[m].flag = HasReactions(m)
  BY QuietlyDone DEF New
<1>4. \A n : HasReactions(n)' = HasReactions(n)
  BY DEF HasReactions
<1>5. \A n \in Stored : n \notin index' => Pending(n, Repair, Len(batch))'
  BY <1>1 DEF FindInv, Awaited, Pending
<1>. SUFFICES ASSUME NEW n \in Stored \ disturbed
              PROVE  \/ record[n].flag = HasReactions(n)
                     \/ Pending(n, Repair, Len(batch))'
                     \/ /\ op'["ui"].m = n /\ op'["ui"].kind = "react"
                        /\ op'["ui"].at \in {"refresh", "list", "put"}
  BY <1>1, <1>4 DEF FlagsRight
<1>6. CASE record[n].flag = HasReactions(n)
  BY <1>6
<1>7. CASE Pending(n, Repair, Len(batch))
  <2>1. CASE ~(done /\ n = m /\ batch[pos + 1].kind \in Repair)
    BY <1>2, <1>7, <2>1
  <2>2. CASE done /\ n = m /\ batch[pos + 1].kind \in Repair
    BY <1>3, <1>5, <2>2 DEF Sole
  <2>. QED  BY <2>1, <2>2
<1>8. CASE op["ui"].m = n /\ op["ui"].kind = "react" /\ op["ui"].at \in {"refresh", "list", "put"}
  <2>1. CASE t # "ui"
    BY <1>1, <1>8, <2>1 DEF Threads
  <2>2. CASE t = "ui" /\ GoneOn(t)
    BY <1>8, <2>2 DEF GoneOn
  <2>3. CASE t = "ui" /\ Ended(t)
    BY <1>5, <1>8, <2>3
  <2>. QED  BY <1>1, <2>1, <2>2, <2>3
<1>. QED  BY <1>6, <1>7, <1>8 DEF FlagsRight

LEMMA QuietlyPreviewed ==
  ASSUME TypeInv, FindInv, HandsInv, PreviewInv, NEW t \in Threads, Quietly(t), UNCHANGED chat,
         op[t].at # "chatPut",
         op[t].at = "chat" => op'[t].at = "chatPut" /\ GoneOn(t),
         op'[t].at = "chatPut" => /\ op'[t].newChat.last \in Stored \cup {0}
                                  /\ ~overlap => op'[t].newChat = NextChat(op'[t]),
         op'[t].at = "fetch" \/ op'[t].kind = "sticker" => op[t].at = "fetch" \/ op[t].kind = "sticker"
  PROVE  PreviewInv'
<1>. DEFINE m == op[t].m
            done == t = "loop" /\ Ended(t)
<1>1. /\ op[t].at # "idle" /\ UNCHANGED <<batch, high, disturbed, overlap, record, due>>
      /\ Stored' = Stored /\ (Ended(t) \/ GoneOn(t)) /\ \A u \in Threads \ {t} : op'[u] = op[u]
  BY DEF Quietly, Works, Stored
<1>2. \A n : \A kinds :
        ~(done /\ n = m /\ batch[pos + 1].kind \in kinds)
        => (Pending(n, kinds, Len(batch))' <=> Pending(n, kinds, Len(batch)))
  BY WorksFrame DEF Quietly
<1>3. done => /\ batch[pos + 1].kind \notin {"edit", "delete"}
              /\ batch[pos + 1].kind \in New => op[t].at = "fetch" \/ op[t].kind = "sticker"
  <2>1. done => op[t].at \in {"call", "fetch"} \/ op[t].kind = "reaction"
    BY DEF Quietly
  <2>2. Shaped(t, op[t])
    BY DEF HandsInv
  <2>. QED  BY <1>1, <2>1, <2>2, QuietlyDone DEF New, Shaped
<1>4. \A o : NextChat(o)' = NextChat(o)
  BY <1>1 DEF NextChat, Upserted, AfterEdit
<1>5. \A n : (Matches(n)' <=> Matches(n)) /\ (NewestOf(n)' <=> NewestOf(n))
  BY <1>1 DEF Matches, NewestOf
<1>6. /\ chat.last \in Stored \cup {0}
      /\ \A u \in Threads : op'[u].at = "chatPut" => op'[u].newChat.last \in Stored \cup {0}
      /\ ~overlap => \A u \in Threads : op'[u].at = "chatPut" => op'[u].newChat = NextChat(op'[u])
  BY <1>1 DEF PreviewInv
<1>7. ASSUME ~overlap, NEW n \in Stored, NewestOf(n)
      PROVE  /\ \/ Pending(n, New, Len(batch))'
                \/ Matches(n)
                \/ chat.last = n /\ Pending(n, {"edit", "delete"}, Len(batch))'
                \/ /\ chat.last = n /\ op'["ui"].m = n /\ op'["ui"].kind \in {"editText", "deleteOwn"}
                   /\ op'["ui"].at \in {"chat", "chatPut"}
             /\ op'["loop"].m = n /\ (op'["loop"].at = "fetch" \/ op'["loop"].kind = "sticker")
                => Matches(n)
  <2>1. op["loop"].m = n /\ (op["loop"].at = "fetch" \/ op["loop"].kind = "sticker") => Matches(n)
    BY <1>7 DEF PreviewInv
  <2>2. op'["loop"].m = n /\ (op'["loop"].at = "fetch" \/ op'["loop"].kind = "sticker") => Matches(n)
    <3>1. CASE t = "loop"
      <4>1. op'["loop"].m = n => op["loop"].m = n
        BY <1>1, <3>1, MsgsAssumption DEF Ended, GoneOn, Idle, Stored
      <4>. QED  BY <2>1, <3>1, <4>1
    <3>2. CASE t # "loop"
      BY <1>1, <2>1, <3>2 DEF Threads
    <3>. QED  BY <3>1, <3>2
  <2>3. CASE Pending(n, New, Len(batch))
    <3>1. CASE ~(done /\ n = m /\ batch[pos + 1].kind \in New)
      BY <1>2, <2>2, <2>3, <3>1
    <3>2. CASE done /\ n = m /\ batch[pos + 1].kind \in New
      BY <1>3, <2>1, <2>2, <3>2
    <3>. QED  BY <3>1, <3>2
  <2>4. CASE Matches(n)
    BY <2>2, <2>4
  <2>5. CASE chat.last = n /\ Pending(n, {"edit", "delete"}, Len(batch))
    BY <1>2, <1>3, <2>2, <2>5
  <2>6. CASE /\ chat.last = n /\ op["ui"].m = n /\ op["ui"].kind \in {"editText", "deleteOwn"}
             /\ op["ui"].at \in {"chat", "chatPut"}
    <3>1. op'["ui"].m = n /\ op'["ui"].kind \in {"editText", "deleteOwn"} /\ op'["ui"].at \in {"chat", "chatPut"}
      BY <1>1, <2>6 DEF Threads, GoneOn
    <3>. QED  BY <2>2, <2>6, <3>1
  <2>. QED  BY <1>7, <2>3, <2>4, <2>5, <2>6 DEF PreviewInv
<1>. QED  BY <1>1, <1>4, <1>5, <1>6, <1>7 DEF PreviewInv


ShownInv == HandsInv /\ LastIsDue /\ ShowsDue /\ FlagsRight /\ PreviewInv

(* A step that ends an operation, and puts nothing.                        *)
LEMMA QuietEnd ==
  ASSUME TypeInv, FindInv, ShownInv, FindInv', NEW t \in Threads, EndNow(t),
         UNCHANGED <<record, reacted, chat, due, batch, high, disturbed, overlap>>,
         index \subseteq index',
         op[t].at \in {"call", "get", "fetch", "refresh", "list"},
         op[t].kind \in {"reaction", "react"} /\ op[t].at # "call" /\ op[t].m \in Stored \ disturbed
           => record[op[t].m].flag = HasReactions(op[t].m) \/ op[t].m \notin index',
         t = "loop" => op[t].at \in {"call", "fetch"} \/ op[t].kind = "reaction"
  PROVE  ShownInv'
<1>1. op'[t] = Idle /\ (\A u \in Threads \ {t} : op'[u] = op[u]) /\ Ended(t)
  BY DEF EndNow, TypeInv, Ended
<1>2. Works(t)
  BY <1>1, IdleTyped DEF Works
<1>3. Quietly(t)
  BY <1>2 DEF Quietly
<1>4. Shaped(t, op[t])' /\ Fresh(op[t])'
  BY <1>1, IdleTyped DEF Shaped, Fresh
<1>5. ~GoneOn(t)
  BY <1>1, IdleTyped DEF GoneOn
<1>6. HandsInv' /\ LastIsDue' /\ ShowsDue'
  BY <1>3, <1>4, QuietlyKeeps DEF ShownInv
<1>7. FlagsRight'
  BY <1>3, <1>5, QuietlyFlags DEF ShownInv
<1>8. PreviewInv'
  BY <1>1, <1>3, IdleTyped, QuietlyPreviewed DEF ShownInv
<1>. QED  BY <1>6, <1>7, <1>8 DEF ShownInv

(* A step that goes on with an operation, and puts no more than its index  *)
(* record.                                                                 *)
LEMMA QuietMove ==
  ASSUME TypeInv, FindInv, ShownInv, FindInv', NEW t \in Threads, op[t].at # "idle", GoneOn(t),
         \A u \in Threads \ {t} : op'[u] = op[u],
         UNCHANGED <<record, reacted, chat, due, batch, high, disturbed, overlap>>,
         index \subseteq index',
         Shaped(t, op[t])', Fresh(op[t])',
         op[t].at # "chatPut", op[t].at \in {"refresh", "list"} => op'[t].at \in {"list", "put"},
         op[t].at # "put", op[t].at = "chat" => op'[t].at = "chatPut",
         op'[t].at = "chatPut" => op[t].at = "chat" /\ op'[t].newChat = NextChat(op[t])
                                  /\ op'[t].new = op[t].new,
         op'[t].at = "fetch" \/ op'[t].kind = "sticker" => op[t].at = "fetch" \/ op[t].kind = "sticker"
  PROVE  ShownInv'
<1>1. Works(t) /\ ~Ended(t)
  BY IdleTyped DEF Works, Ended, GoneOn
<1>2. Quietly(t)
  BY <1>1 DEF Quietly
<1>3. HandsInv' /\ LastIsDue' /\ ShowsDue'
  BY <1>2, QuietlyKeeps DEF ShownInv
<1>4. FlagsRight'
  BY <1>1, <1>2, QuietlyFlags DEF ShownInv
<1>5. ASSUME op'[t].at = "chatPut"
      PROVE  op'[t].newChat.last \in Stored \cup {0} /\ op'[t].newChat = NextChat(op'[t])
  <2>1. op'[t].kind = op[t].kind /\ op'[t].m = op[t].m /\ op'[t].new = op[t].new
    <3>1. Shaped(t, op[t])'
      OBVIOUS
    <3>. QED  BY <1>5, <3>1 DEF GoneOn, Shaped
  <2>2. op'[t].newChat = NextChat(op'[t])
    BY <1>5, <2>1 DEF NextChat
  <2>3. op[t].m \in Stored
    BY <1>5 DEF FindInv, Held
  <2>4. chat.last \in Stored \cup {0}
    BY DEF ShownInv, PreviewInv
  <2>5. NextChat(op[t]).last \in Stored \cup {0}
    BY <2>3, <2>4 DEF NextChat, Upserted, AfterEdit, Preview, TypeInv, ChatRecord
  <2>. QED  BY <1>5, <2>2, <2>5
<1>6. PreviewInv'
  BY <1>1, <1>2, <1>5, QuietlyPreviewed DEF ShownInv
<1>. QED  BY <1>3, <1>4, <1>6 DEF ShownInv

(* Goto as the lemmas use it.                                              *)
LEMMA WentOn ==
  ASSUME TypeInv, NEW t \in Threads, NEW at, op[t].at # "idle", at # "idle", Goto(t, at)
  PROVE  /\ GoneOn(t) /\ op'[t].at = at /\ op'[t].m = op[t].m /\ op'[t].kind = op[t].kind
         /\ op'[t].new = op[t].new /\ op'[t].newChat = op[t].newChat /\ pos' = pos
         /\ \A u \in Threads \ {t} : op'[u] = op[u]
BY DEF Goto, TypeInv, Operation, GoneOn

LEMMA AnswerShows ==
  ASSUME TypeInv, FindInv, ShownInv, FindInv', NEW t \in Threads, Answer(t)
  PROVE  ShownInv'
<1>. DEFINE at == CASE op[t].kind = "react" -> "react" [] op[t].kind = "read" -> "get" [] OTHER -> "put"
<1>1. /\ op[t].at = "call" /\ Goto(t, at) /\ at \in {"react", "get", "put"}
      /\ UNCHANGED <<record, index, reacted, chat, due, batch, high, disturbed, overlap>>
  BY DEF Answer, kvVars, histVars
<1>2. at = "get" => op[t].kind = "read"
  OBVIOUS
<1>3. at = "put" => op[t].kind \notin {"react", "read"}
  OBVIOUS
<1>. HIDE DEF at
<1>4. /\ GoneOn(t) /\ op'[t].at = at /\ op'[t].m = op[t].m /\ op'[t].kind = op[t].kind
      /\ op'[t].new = op[t].new /\ \A u \in Threads \ {t} : op'[u] = op[u]
  BY <1>1, WentOn
<1>5. Shaped(t, op[t]) /\ Fresh(op[t])
  BY DEF ShownInv, HandsInv
<1>5a. op[t].kind = "sticker" => at = "put"
  BY <1>1, <1>2 DEF at
<1>6. Shaped(t, op[t])'
  BY <1>1, <1>2, <1>4, <1>5, <1>5a DEF Shaped
<1>7. PICK o : o = op'[t]
  OBVIOUS
<1>8. Fresh(o)'
  <2>1. Sole(o.m)' <=> Sole(o.m)
    BY <1>1 DEF Sole
  <2>. QED  BY <1>1, <1>3, <1>4, <1>5, <1>7, <2>1 DEF Fresh, HasReactions
<1>. QED  BY <1>1, <1>4, <1>6, <1>7, <1>8, QuietMove

LEMMA FailShows ==
  ASSUME TypeInv, FindInv, ShownInv, FindInv', NEW t \in Threads, Fail(t)
  PROVE  ShownInv'
<1>1. /\ op[t].at = "call" /\ EndNow(t)
      /\ UNCHANGED <<record, index, reacted, chat, due, batch, high, disturbed, overlap>>
  BY DEF Fail, kvVars, histVars
<1>. QED  BY <1>1, QuietEnd

LEMMA PutIndexShows ==
  ASSUME TypeInv, FindInv, ShownInv, FindInv', NEW t \in Threads, PutIndex(t)
  PROVE  ShownInv'
<1>1. /\ op[t].at = "index" /\ Goto(t, "chat") /\ index \subseteq index'
      /\ UNCHANGED <<record, reacted, chat, due, batch, high, disturbed, overlap>>
  BY DEF PutIndex, histVars
<1>4. /\ GoneOn(t) /\ op'[t].at = "chat" /\ op'[t].m = op[t].m /\ op'[t].kind = op[t].kind
      /\ op'[t].new = op[t].new /\ \A u \in Threads \ {t} : op'[u] = op[u]
  BY <1>1, WentOn
<1>5. Shaped(t, op[t]) /\ Fresh(op[t])
  BY DEF ShownInv, HandsInv
<1>6. Shaped(t, op[t])'
  BY <1>1, <1>4, <1>5 DEF Shaped, Setting
<1>7. PICK o : o = op'[t]
  OBVIOUS
<1>8. Fresh(o)'
  <2>1. Sole(o.m)' <=> Sole(o.m)
    BY <1>1 DEF Sole
  <2>. QED  BY <1>1, <1>4, <1>5, <1>7, <2>1 DEF Fresh, HasReactions
<1>. QED  BY <1>1, <1>4, <1>6, <1>7, <1>8, QuietMove

LEMMA ReadChatShows ==
  ASSUME TypeInv, FindInv, ShownInv, FindInv', NEW t \in Threads, ReadChat(t)
  PROVE  ShownInv'
<1>. DEFINE new == NextChat(op[t])
<1>1. /\ op[t].at = "chat" /\ index' = index
      /\ op' = [op EXCEPT ![t].newChat = new, ![t].at = "chatPut"]
      /\ UNCHANGED <<record, reacted, chat, due, batch, pos, high, disturbed, overlap>>
  BY DEF ReadChat, kvVars, histVars, logVars, NextChat, New
<1>. HIDE DEF new
<1>4. /\ op'[t].at = "chatPut" /\ op'[t].m = op[t].m /\ op'[t].kind = op[t].kind
      /\ op'[t].new = op[t].new /\ op'[t].newChat = new
      /\ \A u \in Threads \ {t} : op'[u] = op[u]
  BY <1>1 DEF TypeInv, Operation
<1>4a. GoneOn(t)
  BY <1>1, <1>4 DEF GoneOn
<1>5. Shaped(t, op[t]) /\ Fresh(op[t])
  BY DEF ShownInv, HandsInv
<1>6. Shaped(t, op[t])'
  BY <1>1, <1>4, <1>5 DEF Shaped, Setting
<1>7. PICK o : o = op'[t]
  OBVIOUS
<1>8. Fresh(o)'
  <2>1. Sole(o.m)' <=> Sole(o.m)
    BY <1>1 DEF Sole
  <2>. QED  BY <1>1, <1>4, <1>5, <1>7, <2>1 DEF Fresh, HasReactions
<1>. QED  BY <1>1, <1>4, <1>4a, <1>6, <1>7, <1>8, QuietMove DEF new

(* The reaction's flag is refreshed: the message is read ...               *)
LEMMA ReadMessageShows ==
  ASSUME TypeInv, FindInv, ShownInv, FindInv', NEW t \in Threads, ReadMessage(t)
  PROVE  ShownInv'
<1>1. /\ op[t].at = "refresh" /\ Forget(op[t].m)
      /\ UNCHANGED <<record, reacted, chat, due, batch, high, disturbed, overlap>>
  BY DEF ReadMessage, histVars
<1>2. index' = index /\ op[t].kind \in {"react", "reaction"}
  BY <1>1, AtWork, NothingForgotten DEF FindInv, Held
<1>3. CASE EndNow(t) /\ ~Found(op[t].m)
  <2>1. Shaped(t, op[t])
    BY DEF ShownInv, HandsInv
  <2>2. t = "loop" => op[t].kind = "reaction"
    BY <1>1, <1>2, <2>1 DEF Shaped, LoopKinds, Setting, New
  <2>3. op[t].m \in Stored => op[t].m \notin index'
    BY <1>2, <1>3 DEF Found, Stored
  <2>. QED  BY <1>1, <1>2, <1>3, <2>2, <2>3, QuietEnd
<1>4. CASE /\ pos' = pos
           /\ op' = [op EXCEPT ![t].new = record[op[t].m], ![t].at = "list"]
  <2>1. /\ op'[t].at = "list" /\ op'[t].m = op[t].m /\ op'[t].kind = op[t].kind
        /\ op'[t].new = record[op[t].m] /\ \A u \in Threads \ {t} : op'[u] = op[u]
    BY <1>4 DEF TypeInv, Operation
  <2>2. GoneOn(t)
    BY <1>4, <2>1 DEF GoneOn
  <2>3. Shaped(t, op[t])
    BY DEF ShownInv, HandsInv
  <2>4. Shaped(t, op[t])'
    BY <1>1, <1>2, <2>1, <2>3 DEF Shaped
  <2>5. PICK o : o = op'[t]
    OBVIOUS
  <2>6. Fresh(o)'
    BY <1>1, <1>2, <2>1, <2>5 DEF Fresh
  <2>. QED  BY <1>1, <1>2, <2>1, <2>2, <2>4, <2>5, <2>6, QuietMove
<1>. QED  BY <1>3, <1>4 DEF ReadMessage

(* ... and its reactions are listed.                                       *)
LEMMA ListReactionsShows ==
  ASSUME TypeInv, FindInv, ShownInv, FindInv', NEW t \in Threads, ListReactions(t)
  PROVE  ShownInv'
<1>1. /\ op[t].at = "list" /\ index' = index
      /\ UNCHANGED <<record, reacted, chat, due, batch, high, disturbed, overlap>>
  BY DEF ListReactions, histVars, kvVars
<1>2. op[t].kind \in {"react", "reaction"} /\ op[t].new \in Record
  BY <1>1 DEF FindInv, Held, TypeInv, HandsOK
<1>2a. Shaped(t, op[t]) /\ Fresh(op[t])
  BY DEF ShownInv, HandsInv
<1>2b. Sole(op[t].m) => op[t].new = record[op[t].m]
  BY <1>1, <1>2a DEF Fresh
<1>3. CASE EndNow(t) /\ op[t].new.flag = HasReactions(op[t].m)
  <2>2. t = "loop" => op[t].kind = "reaction"
    BY <1>1, <1>2, <1>2a DEF Shaped, LoopKinds, Setting, New
  <2>3. op[t].m \in Stored \ disturbed => record[op[t].m].flag = HasReactions(op[t].m)
    BY <1>2b, <1>3 DEF Sole
  <2>. QED  BY <1>1, <1>2, <1>3, <2>2, <2>3, QuietEnd
<1>4. CASE /\ pos' = pos
           /\ op' = [op EXCEPT ![t].new.flag = HasReactions(op[t].m), ![t].at = "put"]
  <2>1. /\ op'[t].at = "put" /\ op'[t].m = op[t].m /\ op'[t].kind = op[t].kind
        /\ op'[t].new = [op[t].new EXCEPT !.flag = HasReactions(op[t].m)]
        /\ \A u \in Threads \ {t} : op'[u] = op[u]
    BY <1>4 DEF TypeInv, Operation
  <2>2. GoneOn(t)
    BY <1>4, <2>1 DEF GoneOn
  <2>4. Shaped(t, op[t])'
    BY <1>1, <1>2, <1>2a, <2>1 DEF Shaped
  <2>5. PICK o : o = op'[t]
    OBVIOUS
  <2>5a. /\ o.new.body = op[t].new.body /\ o.new.type = op[t].new.type
         /\ o.new.flag = HasReactions(op[t].m)
    BY <1>2, <2>1, <2>5 DEF Record
  <2>6. Fresh(o)'
    <3>1. Sole(o.m)' <=> Sole(op[t].m)
      BY <1>1, <2>1, <2>5 DEF Sole
    <3>2. o.kind \notin Setting \cup {"editText", "deleteOwn", "sticker"}
      BY <1>2, <2>1, <2>5 DEF Setting, New
    <3>. QED  BY <1>1, <1>2, <1>2b, <2>1, <2>5, <2>5a, <3>1, <3>2 DEF Fresh, HasReactions
  <2>. QED  BY <1>1, <1>2, <2>1, <2>2, <2>4, <2>5, <2>6, QuietMove
<1>. QED  BY <1>3, <1>4 DEF ListReactions

LEMMA ReadAgainShows ==
  ASSUME TypeInv, FindInv, ShownInv, FindInv', ReadAgain
  PROVE  ShownInv'
<1>1. /\ op["ui"].at = "get" /\ index' = index /\ "ui" \in Threads /\ "ui" # "loop"
      /\ UNCHANGED <<record, reacted, chat, due, batch, high, disturbed, overlap>>
  BY DEF ReadAgain, histVars, kvVars, Threads
<1>2. Shaped("ui", op["ui"])
  BY <1>1 DEF ShownInv, HandsInv
<1>2a. op["ui"].kind = "read"
  BY <1>1, <1>2 DEF Shaped
<1>3. CASE EndNow("ui")
  BY <1>1, <1>2a, <1>3, QuietEnd
<1>4. CASE /\ pos' = pos
           /\ Doing("ui", "read", op["ui"].m, Me, FALSE, "put", WithReceipt(record[op["ui"].m], 3))
  <2>1. /\ op'["ui"].at = "put" /\ op'["ui"].m = op["ui"].m /\ op'["ui"].kind = "read"
        /\ op'["ui"].new = WithReceipt(record[op["ui"].m], 3)
        /\ \A u \in Threads \ {"ui"} : op'[u] = op[u]
    BY <1>1, <1>4 DEF Doing, TypeInv
  <2>2. GoneOn("ui")
    BY <1>2a, <1>4, <2>1 DEF GoneOn
  <2>4. Shaped("ui", op["ui"])'
    BY <2>1 DEF Shaped, UiKinds, LoopKinds
  <2>5. PICK o : o = op'["ui"]
    OBVIOUS
  <2>5a. LET r == record[op["ui"].m] IN
         /\ o.new.body = r.body /\ o.new.type = r.type /\ o.new.flag = r.flag
    <3>1. record[op["ui"].m] \in Record
      BY <1>1, AtWork DEF FindInv, Held, Stored, TypeInv
    <3>. QED  BY <2>1, <2>5, <3>1 DEF WithReceipt, Record
  <2>6. Fresh(o)'
    <3>2. o.kind \notin Setting \cup {"editText", "deleteOwn", "sticker", "reaction", "react"}
      BY <2>1, <2>5 DEF Setting, New
    <3>. QED  BY <1>1, <2>1, <2>5, <2>5a, <3>2 DEF Fresh
  <2>. QED  BY <1>1, <1>2a, <2>1, <2>2, <2>4, <2>5, <2>6, QuietMove
<1>. QED  BY <1>3, <1>4 DEF ReadAgain

LEMMA FetchStickerShows ==
  ASSUME TypeInv, FindInv, ShownInv, FindInv', FetchSticker
  PROVE  ShownInv'
<1>1. /\ op["loop"].at = "fetch" /\ index' = index /\ "loop" \in Threads
      /\ UNCHANGED <<record, reacted, chat, due, batch, high, disturbed, overlap>>
  BY DEF FetchSticker, histVars, kvVars, Threads
<1>2. Shaped("loop", op["loop"]) /\ Fresh(op["loop"])
  BY <1>1 DEF ShownInv, HandsInv
<1>2a. op["loop"].kind = "message"
  BY <1>1, <1>2 DEF Shaped
<1>3. CASE EndNow("loop")
  BY <1>1, <1>2a, <1>3, QuietEnd
<1>4. ASSUME NEW at \in {"put", "call"}, pos' = pos,
             Doing("loop", "sticker", op["loop"].m, Me, FALSE, at,
                   [record[op["loop"].m] EXCEPT !.file = TRUE])
      PROVE  ShownInv'
  <2>1. /\ op'["loop"].at = at /\ op'["loop"].m = op["loop"].m /\ op'["loop"].kind = "sticker"
        /\ op'["loop"].new = [record[op["loop"].m] EXCEPT !.file = TRUE]
        /\ \A u \in Threads \ {"loop"} : op'[u] = op[u]
    BY <1>1, <1>4 DEF Doing, TypeInv
  <2>2. GoneOn("loop")
    BY <1>2a, <1>4, <2>1 DEF GoneOn
  <2>4. Shaped("loop", op["loop"])'
    BY <1>4, <2>1 DEF Shaped, LoopKinds
  <2>5. PICK o : o = op'["loop"]
    OBVIOUS
  <2>5a. LET r == record[op["loop"].m] IN
         /\ o.new.body = r.body /\ o.new.type = r.type /\ o.new.flag = r.flag
    <3>1. record[op["loop"].m] \in Record
      BY <1>1, AtWork DEF FindInv, Held, Stored, TypeInv
    <3>. QED  BY <2>1, <2>5, <3>1 DEF Record
  <2>6. Fresh(o)'
    <3>1. Sole(o.m)' <=> Sole(op["loop"].m)
      BY <1>1, <2>1, <2>5 DEF Sole
    <3>2. o.kind \notin Setting \cup {"editText", "deleteOwn", "reaction", "react"}
      BY <2>1, <2>5 DEF Setting, New
    <3>3. Sole(op["loop"].m) => /\ record[op["loop"].m].body = "original"
                                /\ record[op["loop"].m].flag = HasReactions(op["loop"].m)
      BY <1>1, <1>2, <1>2a DEF Fresh, Shows, New
    <3>. QED  BY <1>1, <1>4, <2>1, <2>5, <2>5a, <3>1, <3>2, <3>3 DEF Fresh, HasReactions, Shows, New
  <2>. QED  BY <1>1, <1>2a, <1>4, <2>1, <2>2, <2>4, <2>5, <2>6, QuietMove
<1>. QED  BY <1>3, <1>4 DEF FetchSticker

(* A reaction is put: who is at it refreshes the flag, or it comes again.  *)
LEMMA PutReactionShows ==
  ASSUME TypeInv, FindInv, ShownInv, FindInv', NEW t \in Threads, PutReaction(t)
  PROVE  ShownInv'
<1>. DEFINE m == op[t].m
<1>1. /\ op[t].at = "react" /\ index' = index /\ Goto(t, "refresh")
      /\ UNCHANGED <<record, chat, due, batch, high, disturbed, overlap>>
      /\ \A n \in Msgs \ {m} : reacted'[n] = reacted[n]
  BY DEF PutReaction, histVars, TypeInv
<1>2. /\ GoneOn(t) /\ op'[t].at = "refresh" /\ op'[t].m = m /\ op'[t].kind = op[t].kind
      /\ pos' = pos /\ \A u \in Threads \ {t} : op'[u] = op[u]
  BY <1>1, WentOn
<1>3. op[t].kind \in {"react", "reaction"} /\ Shaped(t, op[t])
  BY <1>1 DEF FindInv, Held, ShownInv, HandsInv
<1>4. Works(t) /\ ~Ended(t)
  BY <1>1, <1>2, IdleTyped DEF Works, Ended
<1>5. Quietly(t)
  BY <1>1, <1>4 DEF Quietly
<1>6. Shaped(t, op[t])'
  BY <1>1, <1>2, <1>3 DEF Shaped
<1>7. PICK o : o = op'[t]
  OBVIOUS
<1>8. Fresh(o)'
  BY <1>2, <1>3, <1>7 DEF Fresh
<1>9. HandsInv' /\ LastIsDue' /\ ShowsDue'
  BY <1>5, <1>6, <1>7, <1>8, QuietlyKeeps DEF ShownInv
<1>10. PreviewInv'
  BY <1>1, <1>2, <1>3, <1>5, QuietlyPreviewed DEF ShownInv
<1>11. FlagsRight'
  <2>. SUFFICES ASSUME NEW n \in Stored \ disturbed
                PROVE  \/ record[n].flag = HasReactions(n)'
                       \/ Pending(n, New \cup {"reaction"}, Len(batch))'
                       \/ /\ op'["ui"].m = n /\ op'["ui"].kind = "react"
                          /\ op'["ui"].at \in {"refresh", "list", "put"}
    BY <1>1 DEF FlagsRight, Stored
  <2>1. CASE n # m
    <3>1. HasReactions(n)' = HasReactions(n)
      BY <1>1, <2>1 DEF HasReactions, Stored
    <3>2. Pending(n, New \cup {"reaction"}, Len(batch))' <=> Pending(n, New \cup {"reaction"}, Len(batch))
      BY <1>1, <1>2 DEF Pending
    <3>3. op'["ui"] = op["ui"] \/ op["ui"].m = m
      BY <1>2 DEF Threads
    <3>. QED  BY <2>1, <3>1, <3>2, <3>3 DEF ShownInv, FlagsRight
  <2>2. CASE n = m /\ t = "loop"
    <3>1. /\ pos < Len(batch) /\ batch[pos + 1].m = m /\ batch[pos + 1].kind = op[t].kind
          /\ op[t].kind = "reaction" /\ pos \in Nat /\ Len(batch) \in Nat
      BY <1>1, <1>3, <2>2 DEF TypeInv, Working, ShownInv, HandsInv, Current, Shaped, LoopKinds, Setting, New
    <3>2. pos + 1 \in pos + 1 .. Len(batch)
      BY <3>1
    <3>3. Pending(n, New \cup {"reaction"}, Len(batch))
      BY <2>2, <3>1, <3>2 DEF Pending
    <3>. QED  BY <1>1, <1>2, <3>3 DEF Pending
  <2>3. CASE n = m /\ t = "ui"
    BY <1>1, <1>2, <1>3, <2>3 DEF Shaped, UiKinds
  <2>. QED  BY <2>1, <2>2, <2>3 DEF Threads
<1>. QED  BY <1>9, <1>10, <1>11 DEF ShownInv

(* The newest message is the greatest.                                     *)
LEMMA MaxIsNewest ==
  ASSUME NEW n, NewestOf(n)
  PROVE  Max(Stored) = n
<1>1. n \in Stored /\ \A x \in Stored : x \in Nat
  BY MsgsAssumption DEF Stored, NewestOf
<1>2. \A x \in Stored : n >= x
  BY <1>1 DEF NewestOf
<1>. HIDE DEF Stored
<1>3. Max(Stored) \in Stored /\ \A x \in Stored : Max(Stored) >= x
  BY <1>1, <1>2, Zenon DEF Max
<1>4. Max(Stored) \in Nat /\ n \in Nat /\ Max(Stored) >= n /\ n >= Max(Stored)
  BY <1>1, <1>2, <1>3, Zenon
<1>. QED  BY <1>4

(* With no overlap, the other thread is idle.                              *)
LEMMA OtherIdle ==
  ASSUME TypeInv, HandsInv, ~overlap, NEW t \in Threads, op[t].at # "idle"
  PROVE  \A u \in Threads \ {t} : op[u].at = "idle" /\ op[u] = Idle
<1>1. Exclusive
  BY DEF HandsInv
<1>2. \A u \in Threads \ {t} : op[u].at = "idle"
  BY <1>1 DEF Exclusive, Threads
<1>. QED  BY <1>2 DEF TypeInv, HandsOK

LEMMA PutChatPreviews ==
  ASSUME TypeInv, FindInv, HandsInv, PreviewInv, NEW t \in Threads, Quietly(t),
         op[t].at = "chatPut", chat' = op[t].newChat,
         \/ op'[t].at = "fetch" /\ GoneOn(t) /\ op[t].kind = "message"
         \/ Ended(t)
  PROVE  PreviewInv'
<1>. DEFINE m == op[t].m
            done == t = "loop" /\ Ended(t)
<1>1. /\ UNCHANGED <<batch, high, disturbed, overlap, record, due>>
      /\ Stored' = Stored /\ \A u \in Threads \ {t} : op'[u] = op[u]
  BY DEF Quietly, Works, Stored
<1>2. \A n : \A kinds :
        ~(done /\ n = m /\ batch[pos + 1].kind \in kinds)
        => (Pending(n, kinds, Len(batch))' <=> Pending(n, kinds, Len(batch)))
  BY WorksFrame DEF Quietly
<1>3. m \in Stored /\ Shaped(t, op[t]) /\ Fresh(op[t])
  BY DEF FindInv, Held, HandsInv
<1>3a. done => batch[pos + 1].kind = op[t].kind
  <2>1. op[t].kind # "sticker"
    BY <1>3 DEF Shaped, Setting, New
  <2>. QED  BY <2>1, QuietlyDone
<1>4. /\ chat.last \in Stored \cup {0} /\ chat'.last \in Stored \cup {0}
      /\ \A u \in Threads : op'[u].at = "chatPut" => op'[u].newChat.last \in Stored \cup {0}
  BY <1>1, IdleTyped DEF PreviewInv, Ended
<1>. SUFFICES ASSUME ~overlap
              PROVE  /\ \A u \in Threads : op'[u].at # "chatPut"
                     /\ \A n \in Stored : NewestOf(n) =>
                          /\ \/ Pending(n, New, Len(batch))'
                             \/ Matches(n)'
                             \/ chat'.last = n /\ Pending(n, {"edit", "delete"}, Len(batch))'
                          /\ op'["loop"].m = n /\ (op'["loop"].at = "fetch" \/ op'["loop"].kind = "sticker")
                             => Matches(n)'
  <2>1. \A n : NewestOf(n)' <=> NewestOf(n)
    BY <1>1 DEF NewestOf
  <2>. QED  BY <1>1, <1>4, <2>1 DEF PreviewInv
<1>5. \A u \in Threads \ {t} : op[u] = Idle /\ op'[u] = Idle
  BY <1>1, OtherIdle
<1>6. \A u \in Threads : op'[u].at # "chatPut"
  BY <1>5, IdleTyped DEF Ended
<1>7. op[t].new = record[m] /\ chat' = NextChat(op[t])
  <2>1. chat' = NextChat(op[t])
    BY DEF PreviewInv
  <2>2. op[t].new = record[m]
    BY <1>3 DEF Fresh, Sole
  <2>. QED  BY <2>1, <2>2
<1>8. (\A n \in Stored : n \in Nat \ {0}) /\ m \in Nat \ {0} /\ chat.last \in Nat
  <2>1. \A n \in Stored : n \in Nat \ {0}
    BY MsgsAssumption DEF Stored
  <2>2. m \in Stored /\ chat.last \in Stored \cup {0}
    BY <1>3, <1>4
  <2>. QED  BY <2>1, <2>2
<1>9. ASSUME NEW n \in Stored, NewestOf(n)
      PROVE  /\ \/ Pending(n, New, Len(batch))'
                \/ Matches(n)'
                \/ chat'.last = n /\ Pending(n, {"edit", "delete"}, Len(batch))'
             /\ op'["loop"].m = n /\ (op'["loop"].at = "fetch" \/ op'["loop"].kind = "sticker")
                => Matches(n)'
  <2>1. Max(Stored) = n /\ m <= n /\ chat.last <= n /\ n # 0
    <3>1. m \in Stored /\ chat.last \in Stored \cup {0} /\ n \in Nat \ {0}
      BY <1>3, <1>4, <1>8
    <3>2. \A x \in Stored : x <= n
      BY <1>9 DEF NewestOf
    <3>3. chat.last <= n
      <4>1. CASE chat.last = 0
        BY <3>1, <4>1
      <4>2. CASE chat.last \in Stored
        BY <3>2, <4>2, Zenon
      <4>. QED  BY <3>1, <4>1, <4>2, Zenon
    <3>. QED  BY <1>9, <3>1, <3>2, <3>3, MaxIsNewest
  <2>2. \/ Pending(n, New, Len(batch))
        \/ chat.last = n /\ Matches(n)
        \/ chat.last = n /\ Pending(n, {"edit", "delete"}, Len(batch))
        \/ chat.last = n /\ t = "ui" /\ m = n
    <3>1. op["ui"].at \in {"chat", "chatPut"} => t = "ui"
      BY <1>5, IdleTyped DEF Threads
    <3>. QED  BY <1>9, <3>1 DEF PreviewInv, Matches
  <2>3. op'["loop"].m = n /\ (op'["loop"].at = "fetch" \/ op'["loop"].kind = "sticker")
        => m = n /\ op[t].kind \in New
    <3>1. CASE t = "loop" /\ Ended(t)
      BY <2>1, <3>1 DEF Ended, Idle
    <3>2. CASE t = "loop" /\ op'[t].at = "fetch" /\ GoneOn(t) /\ op[t].kind = "message"
      BY <3>2 DEF GoneOn, New
    <3>3. CASE t = "ui"
      BY <1>5, <2>1, <3>3 DEF Threads, Idle
    <3>. QED  BY <3>1, <3>2, <3>3 DEF Threads
  <2>4. CASE m = n /\ (op[t].kind \in New \/ chat = NoChat)
    <3>1. chat' = Preview(n, record[n])
      BY <1>3, <1>4, <1>7, <1>8, <2>1, <2>4 DEF NextChat, Upserted
    <3>. QED  BY <1>1, <3>1 DEF Preview, Matches
  <2>5. CASE m = n /\ op[t].kind \notin New /\ chat # NoChat
    <3>1. chat' = [chat EXCEPT !.type = record[n].type, !.body = record[n].body]
      BY <1>7, <2>1, <2>5 DEF NextChat, AfterEdit
    <3>2. chat'.last = chat.last /\ chat'.type = record[n].type /\ chat'.body = record[n].body
      BY <3>1 DEF TypeInv, ChatRecord
    <3>3. Pending(n, New, Len(batch)) => Pending(n, New, Len(batch))'
      BY <1>2, <1>3a, <2>5
    <3>. QED  BY <1>1, <2>2, <2>3, <2>5, <3>2, <3>3 DEF Matches
  <2>6. CASE m # n
    <3>1. chat' = chat \/ (chat.last <= m /\ m < n)
      <4>1. m \in Nat /\ n \in Nat /\ chat.last \in Nat
        BY <1>8
      <4>2. chat' = IF op[t].kind \in New \/ chat = NoChat
                      THEN Upserted(m, record[m]) ELSE AfterEdit(m, record[m])
        BY <1>7 DEF NextChat
      <4>. QED  BY <2>1, <2>6, <4>1, <4>2 DEF Upserted, AfterEdit
    <3>2. \A kinds : Pending(n, kinds, Len(batch)) => Pending(n, kinds, Len(batch))'
      BY <1>2, <2>6
    <3>3. CASE chat' = chat
      <4>1. Matches(n) => Matches(n)'
        BY <1>1, <3>3 DEF Matches
      <4>. QED  BY <2>2, <2>3, <2>6, <3>2, <3>3, <4>1
    <3>4. CASE chat.last <= m /\ m < n
      <4>1. chat.last # n
        BY <1>8, <3>4
      <4>. QED  BY <2>2, <2>3, <2>6, <3>2, <4>1
    <3>. QED  BY <3>1, <3>3, <3>4
  <2>. QED  BY <2>4, <2>5, <2>6
<1>. QED  BY <1>6, <1>9

LEMMA PutChatShows ==
  ASSUME TypeInv, FindInv, ShownInv, FindInv', NEW t \in Threads, PutChat(t)
  PROVE  ShownInv'
<1>1. /\ op[t].at = "chatPut" /\ index' = index /\ chat' = op[t].newChat
      /\ UNCHANGED <<record, reacted, due, batch, high, disturbed, overlap>>
      /\ (op[t].kind = "message" /\ Goto(t, "fetch")) \/ EndNow(t)
  BY DEF PutChat, histVars
<1>2. Shaped(t, op[t]) /\ Fresh(op[t])
  BY DEF ShownInv, HandsInv
<1>3. op[t].kind \notin {"react", "reaction"}
  BY <1>1, <1>2 DEF Shaped, Setting, New
<1>4. CASE EndNow(t)
  <2>1. op'[t] = Idle /\ (\A u \in Threads \ {t} : op'[u] = op[u]) /\ Ended(t)
    BY <1>4 DEF EndNow, TypeInv, Ended
  <2>2. Works(t)
    BY <1>1, <2>1 DEF Works
  <2>3. Quietly(t) /\ ~GoneOn(t)
    BY <1>1, <2>1, <2>2, IdleTyped DEF Quietly, GoneOn
  <2>4. Shaped(t, op[t])' /\ Fresh(op[t])'
    BY <2>1, IdleTyped DEF Shaped, Fresh
  <2>. QED  BY <1>1, <1>3, <2>1, <2>3, <2>4, QuietlyKeeps, QuietlyFlags, PutChatPreviews DEF ShownInv
<1>5. CASE op[t].kind = "message" /\ Goto(t, "fetch")
  <2>1. /\ GoneOn(t) /\ op'[t].at = "fetch" /\ op'[t].m = op[t].m /\ op'[t].kind = op[t].kind
        /\ op'[t].new = op[t].new /\ \A u \in Threads \ {t} : op'[u] = op[u]
    BY <1>1, <1>5, WentOn
  <2>2. Works(t) /\ ~Ended(t)
    BY <1>1, <2>1, IdleTyped DEF Works, Ended
  <2>3. Quietly(t)
    BY <1>1, <2>2 DEF Quietly
  <2>4. Shaped(t, op[t])'
    BY <1>1, <1>2, <1>5, <2>1 DEF Shaped
  <2>5. PICK o : o = op'[t]
    OBVIOUS
  <2>6. Fresh(o)'
    <3>1. Sole(o.m)' <=> Sole(o.m)
      BY <1>1 DEF Sole
    <3>. QED  BY <1>1, <1>2, <2>1, <2>5, <3>1 DEF Fresh, HasReactions
  <2>. QED  BY <1>1, <1>3, <1>5, <2>1, <2>3, <2>4, <2>5, <2>6, QuietlyKeeps, QuietlyFlags,
               PutChatPreviews DEF ShownInv
<1>. QED  BY <1>1, <1>4, <1>5

-----------------------------------------------------------------------------
(* What is shown: a record is put.                                         *)

Setters == Setting \cup {"editText", "deleteOwn"}

LEMMA PutFacts ==
  ASSUME TypeInv, FindInv, HandsInv, NEW t \in Threads, PutRecord(t)
  PROVE  LET o == op[t]
             m == o.m IN
         /\ Works(t) /\ o.at = "put" /\ m \in Msgs /\ o.new \in Record
         /\ UNCHANGED <<index, reacted, chat, batch, high, disturbed, overlap>>
         /\ record'[m] = o.new /\ Stored' = Stored \cup {m}
         /\ \A n \in Msgs \ {m} : record'[n] = record[n] /\ due'[n] = due[n]
         /\ o.kind \notin New => m \in index /\ m \in Stored
         /\ o.kind \in Setters =>
              /\ GoneOn(t) /\ op'[t].at \in {"index", "chat"} /\ pos' = pos
              /\ op'[t].kind = o.kind /\ op'[t].m = m /\ op'[t].new = o.new
              /\ op'[t].at = "index" => o.kind \in New \cup {"edit"}
         /\ o.kind \notin Setters => Ended(t)
         /\ o.kind \in {"editText", "deleteOwn"} =>
              t = "ui" /\ due' = [due EXCEPT ![m] = o.new.body]
         /\ o.kind \notin {"editText", "deleteOwn"} => due' = due
         /\ o.kind \in Setting => t = "loop"
         /\ t = "loop" =>
              /\ pos < high /\ pos + 1 \in pos + 1 .. high /\ pos + 1 \in pos + 1 .. Len(batch)
              /\ batch[pos + 1].m = m
              /\ batch[pos + 1].kind = IF o.kind = "sticker" THEN "message" ELSE o.kind
<1>. DEFINE o == op[t]
            m == o.m
<1>1. /\ o.at = "put" /\ UNCHANGED <<index, reacted, chat, batch, high, disturbed, overlap>>
      /\ record' = [record EXCEPT ![m] = o.new]
      /\ due' = IF o.kind \in {"editText", "deleteOwn"} THEN [due EXCEPT ![m] = o.new.body] ELSE due
  BY DEF PutRecord
<1>2. m \in Msgs /\ o.new \in Record /\ o.new # NoRecord
  BY <1>1, AtWork, RealRecord DEF TypeInv, HandsOK
<1>3. record'[m] = o.new /\ \A n \in Msgs \ {m} : record'[n] = record[n] /\ due'[n] = due[n]
  BY <1>1, <1>2 DEF TypeInv, HandsInv
<1>4. Stored' = Stored \cup {m}
  BY <1>2, <1>3 DEF Stored
<1>5. o.kind \notin New => m \in index /\ m \in Stored
  BY <1>1 DEF FindInv, Held
<1>6. Shaped(t, o)
  BY DEF HandsInv
<1>7. o.kind \in {"editText", "deleteOwn"} => t = "ui"
  BY <1>1, <1>6 DEF Shaped, LoopKinds, Setting, New, Threads
<1>8. o.kind \in Setting => t = "loop"
  BY <1>1, <1>6 DEF Shaped, UiKinds, Setting, New, Threads
<1>9. t = "loop" =>
        /\ pos < high /\ pos + 1 \in pos + 1 .. high /\ pos + 1 \in pos + 1 .. Len(batch)
        /\ batch[pos + 1].m = m
        /\ batch[pos + 1].kind = IF o.kind = "sticker" THEN "message" ELSE o.kind
  BY <1>1 DEF TypeInv, Working, HandsInv, Current
<1>10. ASSUME o.kind \in Setters
       PROVE  /\ GoneOn(t) /\ op'[t].at \in {"index", "chat"} /\ pos' = pos
              /\ op'[t].kind = o.kind /\ op'[t].m = m /\ op'[t].new = o.new
              /\ op'[t].at = "index" => o.kind \in New \cup {"edit"}
              /\ \A u \in Threads \ {t} : op'[u] = op[u]
  <2>1. \/ Goto(t, "index") /\ o.kind \in New \cup {"edit"}
        \/ Goto(t, "chat")
    BY <1>10 DEF PutRecord, Setters, Setting, New
  <2>. QED  BY <1>1, <2>1, WentOn
<1>11. ASSUME o.kind \notin Setters
       PROVE  Ended(t) /\ \A u \in Threads \ {t} : op'[u] = op[u]
  <2>1. EndNow(t)
    BY <1>11 DEF PutRecord, Setters, Setting, New
  <2>. QED  BY <2>1 DEF EndNow, Ended, TypeInv
<1>12. Works(t)
  BY <1>1, <1>3, <1>10, <1>11 DEF Works
<1>. QED  BY <1>1, <1>2, <1>3, <1>4, <1>5, <1>7, <1>8, <1>9, <1>10, <1>11, <1>12

LEMMA PutHands ==
  ASSUME TypeInv, FindInv, HandsInv, NEW t \in Threads, PutRecord(t)
  PROVE  HandsInv'
<1>. DEFINE m == op[t].m
            k == op[t].kind
<1>1. /\ Works(t) /\ op[t].at = "put" /\ m \in Msgs /\ op[t].new \in Record
      /\ UNCHANGED <<index, reacted, batch, high, disturbed, overlap>>
      /\ record'[m] = op[t].new /\ Stored' = Stored \cup {m}
      /\ \A n \in Msgs \ {m} : record'[n] = record[n] /\ due'[n] = due[n]
      /\ k \notin New => m \in index /\ m \in Stored
      /\ k \in Setters => /\ GoneOn(t) /\ op'[t].at \in {"index", "chat"} /\ pos' = pos
                          /\ op'[t].kind = k /\ op'[t].m = m /\ op'[t].new = op[t].new
                          /\ op'[t].at = "index" => k \in New \cup {"edit"}
      /\ k \notin Setters => Ended(t)
      /\ k \in {"editText", "deleteOwn"} => due' = [due EXCEPT ![m] = op[t].new.body]
      /\ k \notin {"editText", "deleteOwn"} => due' = due
      /\ k \in Setting => t = "loop"
      /\ t = "loop" => /\ pos + 1 \in pos + 1 .. high /\ batch[pos + 1].m = m
                       /\ batch[pos + 1].kind = IF k = "sticker" THEN "message" ELSE k
  BY PutFacts
<1>2. /\ Current' /\ Exclusive' /\ pos' <= high'
      /\ \A u \in Threads \ {t} : Shaped(u, op[u])' /\ Fresh(op[u])'
      /\ \A n : n # m => \A kinds : Pending(n, kinds, high)' <=> Pending(n, kinds, high)
  BY <1>1, WorksFrame
<1>3. Shaped(t, op[t]) /\ Fresh(op[t])
  BY DEF HandsInv
<1>4. Shaped(t, op[t])'
  <2>1. CASE k \in Setters
    <3>1. k # "sticker" /\ k \in Setting \cup {"editText", "deleteOwn"}
      BY <2>1 DEF Setters, Setting, New
    <3>. QED  BY <1>1, <1>3, <2>1, <3>1 DEF Shaped
  <2>2. CASE k \notin Setters
    BY <1>1, <2>2, IdleTyped DEF Shaped, Ended
  <2>. QED  BY <2>1, <2>2
<1>5. PICK o : o = op'[t]
  OBVIOUS
<1>6. Fresh(o)'
  <2>1. CASE k \in Setters
    <3>1. Sole(o.m)' <=> Sole(m)
      BY <1>1, <1>5, <2>1 DEF Sole
    <3>2. k # "sticker"
      BY <2>1 DEF Setters, Setting, New
    <3>3. Sole(m) => /\ op[t].new.body = Shows(k)
                     /\ k \in New => op[t].new.flag = HasReactions(m)
      BY <1>1, <1>3, <2>1 DEF Fresh, Setters, Setting
    <3>4. \A n : HasReactions(n)' = HasReactions(n)
      BY <1>1 DEF HasReactions
    <3>5. /\ o.m = m /\ o.kind = k /\ o.new = op[t].new /\ o.at \in {"index", "chat"}
          /\ record'[m] = op[t].new
      BY <1>1, <1>5, <2>1
    <3>. QED  BY <3>1, <3>2, <3>3, <3>4, <3>5 DEF Fresh
  <2>2. CASE k \notin Setters
    BY <1>1, <1>5, <2>2, IdleTyped DEF Ended, Fresh
  <2>. QED  BY <2>1, <2>2
<1>7. op[t].new.body \in Bodies /\ "nothing" \notin Bodies
  BY <1>1, RecordParts DEF Bodies
<1>8. due' \in [Msgs -> Bodies \cup {"nothing"}]
  BY <1>1, <1>7 DEF HandsInv
<1>9. due'[m] # "nothing"
  <2>1. CASE k \in {"editText", "deleteOwn"}
    BY <1>1, <1>7, <2>1 DEF HandsInv
  <2>2. CASE k \in New
    BY <1>1, <2>2 DEF HandsInv, Setting, New
  <2>3. CASE k \notin New \cup {"editText", "deleteOwn"}
    BY <1>1, <2>3 DEF HandsInv
  <2>. QED  BY <2>1, <2>2, <2>3
<1>10. ASSUME NEW n \in Stored' \ index'
       PROVE  Pending(n, New, high)'
  <2>1. CASE n # m
    BY <1>1, <1>2, <2>1 DEF HandsInv
  <2>2. CASE n = m
    <3>1. k \in New /\ t = "loop" /\ pos' = pos
      BY <1>1, <1>10, <2>2 DEF Setters, Setting
    <3>2. k # "sticker"
      BY <3>1 DEF New
    <3>. QED  BY <1>1, <2>2, <3>1, <3>2 DEF Pending
  <2>. QED  BY <2>1, <2>2
<1>11. \A n \in Stored' : due'[n] # "nothing"
  <2>1. Stored \subseteq Msgs
    BY DEF Stored
  <2>. QED  BY <1>1, <1>9, <2>1 DEF HandsInv
<1>12. op'["loop"].kind \in New => due'[op'["loop"].m] # "nothing"
  <2>1. CASE t = "loop"
    BY <1>1, <1>9, <2>1, IdleTyped DEF Ended, GoneOn, New
  <2>2. CASE t # "loop"
    <3>1. op'["loop"] = op["loop"]
      BY <1>1, <2>2 DEF Works, Threads
    <3>2. op["loop"].kind \in New => op["loop"].m \in Msgs
      BY IdleTyped DEF TypeInv, HandsOK, New, Threads
    <3>. QED  BY <1>1, <1>9, <3>1, <3>2 DEF HandsInv
  <2>. QED  BY <2>1, <2>2
<1>13. \A n \in Msgs : due'[n] # "nothing" => n \in Stored' \/ Pending(n, New, high)'
  BY <1>1, <1>2 DEF HandsInv
<1>14. \A i \in 1 .. high : batch[i].kind \in New => due'[batch[i].m] # "nothing"
  <2>. SUFFICES ASSUME NEW i \in 1 .. high, batch[i].kind \in New
                PROVE  due'[batch[i].m] # "nothing"
    OBVIOUS
  <2>1. batch[i] \in Event
    BY DEF TypeInv
  <2>2. batch[i].m \in Msgs
    BY <2>1, EventParts
  <2>. QED  BY <1>1, <1>9, <2>2 DEF HandsInv
<1>. QED  BY <1>1, <1>2, <1>4, <1>5, <1>6, <1>8, <1>10, <1>11, <1>12, <1>13, <1>14 DEF HandsInv

LEMMA PutShowsDue ==
  ASSUME TypeInv, FindInv, HandsInv, LastIsDue, ShowsDue, NEW t \in Threads, PutRecord(t)
  PROVE  LastIsDue' /\ ShowsDue'
<1>. DEFINE m == op[t].m
            k == op[t].kind
<1>1. /\ Works(t) /\ op[t].at = "put" /\ m \in Msgs /\ op[t].new \in Record
      /\ UNCHANGED <<batch, high, disturbed, overlap>>
      /\ record'[m] = op[t].new /\ Stored' = Stored \cup {m}
      /\ \A n \in Msgs \ {m} : record'[n] = record[n] /\ due'[n] = due[n]
      /\ k \notin New => m \in Stored
      /\ k \in Setters => pos' = pos
      /\ k \notin Setters => Ended(t)
      /\ k \in {"editText", "deleteOwn"} => t = "ui" /\ due' = [due EXCEPT ![m] = op[t].new.body]
      /\ k \notin {"editText", "deleteOwn"} => due' = due
      /\ k \in Setting => t = "loop"
      /\ t = "loop" => /\ pos < high /\ pos + 1 \in pos + 1 .. high /\ batch[pos + 1].m = m
                       /\ batch[pos + 1].kind = IF k = "sticker" THEN "message" ELSE k
  BY PutFacts
<1>2. \A n : \A kinds :
        ~(t = "loop" /\ Ended(t) /\ n = m /\ batch[pos + 1].kind \in kinds)
        => (Pending(n, kinds, high)' <=> Pending(n, kinds, high))
  BY <1>1, WorksFrame
<1>3. Fresh(op[t])
  BY DEF HandsInv
<1>4. due'[m] = IF k \in {"editText", "deleteOwn"} THEN op[t].new.body ELSE due[m]
  BY <1>1 DEF HandsInv
<1>5. LastIsDue'
  <2>. SUFFICES ASSUME NEW n \in Msgs \ disturbed, due'[n] # "nothing", NEW i \in 1 .. high, LastOf(n, i)
                PROVE  due'[n] = Shows(batch[i].kind)
    BY <1>1 DEF LastIsDue, LastOf
  <2>1. CASE k \in {"editText", "deleteOwn"} /\ n = m
    BY <1>1, <2>1 DEF HandsInv, Exclusive, LastOf
  <2>2. CASE ~(k \in {"editText", "deleteOwn"} /\ n = m)
    <3>1. due'[n] = due[n]
      BY <1>1, <2>2
    <3>. QED  BY <3>1 DEF LastIsDue
  <2>. QED  BY <2>1, <2>2
<1>6. ShowsDue'
  <2>. SUFFICES ASSUME NEW n \in Msgs \ disturbed, due'[n] # "nothing", ~Pending(n, Setting, high)'
                PROVE  n \in Stored' /\ record'[n].body = due'[n]
    BY <1>1 DEF ShowsDue
  <2>1. CASE n # m
    BY <1>1, <1>2, <2>1 DEF ShowsDue
  <2>2. CASE n = m /\ k \in Setting
    <3>1. Pending(n, Setting, high)'
      <4>1. k # "sticker" /\ k \in Setters
        BY <2>2 DEF Setters, Setting, New
      <4>. QED  BY <1>1, <2>2, <4>1 DEF Pending
    <3>. QED  BY <2>2, <3>1
  <2>3. CASE n = m /\ k \in {"editText", "deleteOwn"}
    BY <1>1, <1>4, <2>3
  <2>4. CASE n = m /\ k \notin Setters
    <3>1. /\ m \in Stored /\ due'[m] = due[m] /\ Ended(t) /\ Sole(m)
          /\ op[t].new.body = record[m].body
          /\ k = "sticker" => record[m].body = "original"
      BY <1>1, <1>3, <1>4, <2>4 DEF Fresh, Setters, Setting, Sole, Shows
    <3>2. CASE t = "loop" /\ batch[pos + 1].kind \in Setting
      <4>1. k = "sticker" /\ batch[pos + 1].kind = "message" /\ pos' = pos + 1
        BY <1>1, <2>4, <3>1, <3>2 DEF Setters, Ended
      <4>2. due[m] = Shows("message")
        BY <1>1, <2>4, <3>1, <3>2, <4>1, LastShown
      <4>. QED  BY <1>1, <2>4, <3>1, <4>1, <4>2 DEF Shows, New
    <3>3. CASE ~(t = "loop" /\ batch[pos + 1].kind \in Setting)
      <4>1. ~Pending(m, Setting, high)
        BY <1>2, <2>4, <3>3
      <4>. QED  BY <1>1, <2>4, <3>1, <4>1 DEF ShowsDue
    <3>. QED  BY <3>2, <3>3
  <2>. QED  BY <2>1, <2>2, <2>3, <2>4 DEF Setters
<1>. QED  BY <1>5, <1>6

LEMMA PutFlags ==
  ASSUME TypeInv, FindInv, HandsInv, FlagsRight, NEW t \in Threads, PutRecord(t)
  PROVE  FlagsRight'
<1>. DEFINE m == op[t].m
            k == op[t].kind
            Repair == New \cup {"reaction"}
<1>1. /\ Works(t) /\ op[t].at = "put" /\ m \in Msgs
      /\ UNCHANGED <<reacted, batch, high, disturbed, overlap>>
      /\ record'[m] = op[t].new /\ Stored' = Stored \cup {m}
      /\ \A n \in Msgs \ {m} : record'[n] = record[n]
      /\ k \notin New => m \in Stored
      /\ k \notin Setters => Ended(t)
      /\ t = "loop" => batch[pos + 1].kind = IF k = "sticker" THEN "message" ELSE k
  BY PutFacts
<1>2. \A n : \A kinds :
        ~(t = "loop" /\ Ended(t) /\ n = m /\ batch[pos + 1].kind \in kinds)
        => (Pending(n, kinds, Len(batch))' <=> Pending(n, kinds, Len(batch)))
  BY <1>1, WorksFrame
<1>3. Fresh(op[t]) /\ \A n : HasReactions(n)' = HasReactions(n)
  BY <1>1 DEF HandsInv, HasReactions
<1>4. \A u \in Threads \ {t} : op'[u] = op[u]
  BY <1>1 DEF Works
<1>. SUFFICES ASSUME NEW n \in Stored' \ disturbed
              PROVE  \/ record'[n].flag = HasReactions(n)
                     \/ Pending(n, Repair, Len(batch))'
                     \/ /\ op'["ui"].m = n /\ op'["ui"].kind = "react"
                        /\ op'["ui"].at \in {"refresh", "list", "put"}
  BY <1>1, <1>3 DEF FlagsRight
<1>5. CASE n # m
  <2>1. op["ui"].m = n => op'["ui"] = op["ui"]
    BY <1>4, <1>5 DEF Threads
  <2>2. n \in Stored \ disturbed /\ record'[n] = record[n]
    BY <1>1, <1>5 DEF Stored
  <2>. QED  BY <1>2, <1>5, <2>1, <2>2 DEF FlagsRight
<1>6. CASE n = m /\ k \in Setting \cup {"reaction", "react"}
  BY <1>1, <1>3, <1>6 DEF Fresh, Sole
<1>7. CASE n = m /\ k \notin Setting \cup {"reaction", "react"}
  <2>1. op[t].new.flag = record[m].flag /\ n \in Stored
    BY <1>1, <1>3, <1>7 DEF Fresh, Sole, Setting
  <2>2. op["ui"].kind = "react" => op'["ui"] = op["ui"]
    BY <1>4, <1>7 DEF Threads
  <2>3. CASE t = "loop" /\ Ended(t) /\ batch[pos + 1].kind \in Repair
    <3>1. k = "sticker"
      BY <1>1, <1>7, <2>3 DEF Setting
    <3>. QED  BY <1>1, <1>3, <1>7, <2>1, <3>1 DEF Fresh, Sole
  <2>4. CASE ~(t = "loop" /\ Ended(t) /\ batch[pos + 1].kind \in Repair)
    BY <1>1, <1>2, <1>7, <2>1, <2>2, <2>4 DEF FlagsRight
  <2>. QED  BY <2>3, <2>4
<1>. QED  BY <1>5, <1>6, <1>7

LEMMA PutPreviews ==
  ASSUME TypeInv, FindInv, HandsInv, PreviewInv, NEW t \in Threads, PutRecord(t)
  PROVE  PreviewInv'
<1>. DEFINE m == op[t].m
            k == op[t].kind
<1>1. /\ Works(t) /\ op[t].at = "put" /\ m \in Msgs
      /\ UNCHANGED <<chat, batch, high, disturbed, overlap>>
      /\ record'[m] = op[t].new /\ Stored' = Stored \cup {m}
      /\ \A n \in Msgs \ {m} : record'[n] = record[n]
      /\ k \notin New => m \in Stored
      /\ k \in Setters => /\ GoneOn(t) /\ op'[t].at \in {"index", "chat"} /\ pos' = pos
                          /\ op'[t].kind = k /\ op'[t].m = m
                          /\ op'[t].at = "index" => k \in New \cup {"edit"}
      /\ k \notin Setters => Ended(t)
      /\ k \in {"editText", "deleteOwn"} => t = "ui"
      /\ k \in Setting => t = "loop"
      /\ t = "loop" => /\ pos + 1 \in pos + 1 .. Len(batch) /\ batch[pos + 1].m = m
                       /\ batch[pos + 1].kind = IF k = "sticker" THEN "message" ELSE k
  BY PutFacts
<1>2. \A n : \A kinds :
        ~(t = "loop" /\ Ended(t) /\ n = m /\ batch[pos + 1].kind \in kinds)
        => (Pending(n, kinds, Len(batch))' <=> Pending(n, kinds, Len(batch)))
  BY <1>1, WorksFrame
<1>3. Fresh(op[t])
  BY DEF HandsInv
<1>4. \A u \in Threads \ {t} : op'[u] = op[u]
  BY <1>1 DEF Works
<1>5. op'[t].at # "chatPut"
  BY <1>1, IdleTyped DEF Ended
<1>6. /\ chat.last \in Stored' \cup {0}
      /\ \A u \in Threads : op'[u].at = "chatPut" => op'[u].newChat.last \in Stored' \cup {0}
  BY <1>1, <1>4, <1>5 DEF PreviewInv
<1>. SUFFICES ASSUME ~overlap
              PROVE  /\ \A u \in Threads : op'[u].at # "chatPut"
                     /\ \A n \in Stored' : NewestOf(n)' =>
                          /\ \/ Pending(n, New, Len(batch))'
                             \/ Matches(n)'
                             \/ chat.last = n /\ Pending(n, {"edit", "delete"}, Len(batch))'
                             \/ /\ chat.last = n /\ op'["ui"].m = n
                                /\ op'["ui"].kind \in {"editText", "deleteOwn"}
                                /\ op'["ui"].at \in {"chat", "chatPut"}
                          /\ op'["loop"].m = n /\ (op'["loop"].at = "fetch" \/ op'["loop"].kind = "sticker")
                             => Matches(n)'
  BY <1>1, <1>6 DEF PreviewInv
<1>7. \A u \in Threads \ {t} : op[u] = Idle /\ op'[u] = Idle
  BY <1>1, <1>4, OtherIdle
<1>8. \A u \in Threads : op'[u].at # "chatPut"
  BY <1>5, <1>7, IdleTyped
<1>9. op'["loop"].at # "fetch" /\ op'["loop"].kind # "sticker"
  <2>1. op'[t] = Idle \/ (op'[t].at \in {"index", "chat"} /\ op'[t].kind \in Setters)
    BY <1>1 DEF Ended
  <2>2. "sticker" \notin Setters
    BY DEF Setters, Setting, New
  <2>. QED  BY <1>7, <2>1, <2>2, IdleTyped DEF Threads
<1>10. ASSUME NEW n \in Stored', NewestOf(n)'
       PROVE  \/ Pending(n, New, Len(batch))'
              \/ Matches(n)'
              \/ chat.last = n /\ Pending(n, {"edit", "delete"}, Len(batch))'
              \/ /\ chat.last = n /\ op'["ui"].m = n /\ op'["ui"].kind \in {"editText", "deleteOwn"}
                 /\ op'["ui"].at \in {"chat", "chatPut"}
  <2>1. n \in Stored => NewestOf(n)
    BY <1>1, <1>10 DEF NewestOf
  <2>2. n \in Stored =>
          \/ Pending(n, New, Len(batch))
          \/ Matches(n)
          \/ chat.last = n /\ Pending(n, {"edit", "delete"}, Len(batch))
    <3>1. op["ui"].at \notin {"chat", "chatPut"}
      BY <1>1, <1>7, IdleTyped DEF Threads
    <3>. QED  BY <2>1, <3>1 DEF PreviewInv
  <2>3. CASE n # m
    <3>1. n \in Stored /\ record'[n] = record[n]
      BY <1>1, <2>3 DEF Stored
    <3>2. Matches(n) => Matches(n)'
      BY <1>1, <3>1 DEF Matches
    <3>. QED  BY <1>2, <2>2, <2>3, <3>1, <3>2
  <2>4. CASE n = m /\ k \in New
    <3>1. t = "loop" /\ pos' = pos /\ batch[pos + 1].kind = k
      BY <1>1, <2>4 DEF Setters, Setting, New
    <3>. QED  BY <1>1, <2>4, <3>1 DEF Pending
  <2>5. CASE n = m /\ k \in {"edit", "delete"}
    <3>1. t = "loop" /\ pos' = pos /\ batch[pos + 1].kind = k
      BY <1>1, <2>5 DEF Setters, Setting
    <3>2. Pending(n, {"edit", "delete"}, Len(batch))'
      BY <1>1, <2>5, <3>1 DEF Pending
    <3>3. Pending(n, New, Len(batch)) => Pending(n, New, Len(batch))'
      BY <1>1, <3>1 DEF Pending
    <3>4. n \in Stored
      BY <1>1, <2>5 DEF New
    <3>. QED  BY <2>2, <3>2, <3>3, <3>4 DEF Matches
  <2>6. CASE n = m /\ k \in {"editText", "deleteOwn"}
    <3>1. t = "ui" /\ pos' = pos /\ op'[t].at = "chat" /\ op'[t].m = n /\ op'[t].kind = k /\ n \in Stored
      BY <1>1, <2>6 DEF Setters, New
    <3>2. \A kinds : Pending(n, kinds, Len(batch)) => Pending(n, kinds, Len(batch))'
      BY <1>1, <3>1 DEF Pending
    <3>. QED  BY <2>2, <2>6, <3>1, <3>2 DEF Matches
  <2>7. CASE n = m /\ k \notin Setters
    <3>1. n \in Stored /\ Ended(t)
      BY <1>1, <2>7 DEF Setters, Setting
    <3>2. op[t].new.type = record[n].type /\ op[t].new.body = record[n].body
      BY <1>1, <1>3, <2>7 DEF Fresh, Sole, Setters
    <3>3. Matches(n) => Matches(n)'
      BY <1>1, <2>7, <3>2 DEF Matches
    <3>4. CASE t = "loop" /\ k = "sticker"
      <4>1. Matches(n)
        BY <2>1, <2>7, <3>1, <3>4 DEF PreviewInv
      <4>. QED  BY <3>3, <4>1
    <3>5. CASE ~(t = "loop" /\ k = "sticker")
      <4>1. t = "loop" => batch[pos + 1].kind \notin New \cup {"edit", "delete"}
        BY <1>1, <2>7, <3>5 DEF Setters, Setting
      <4>2. /\ Pending(n, New, Len(batch))' <=> Pending(n, New, Len(batch))
            /\ Pending(n, {"edit", "delete"}, Len(batch))' <=> Pending(n, {"edit", "delete"}, Len(batch))
        BY <1>2, <4>1
      <4>. QED  BY <2>2, <3>1, <3>3, <4>2
    <3>. QED  BY <3>4, <3>5
  <2>. QED  BY <2>3, <2>4, <2>5, <2>6, <2>7 DEF Setters, Setting
<1>. QED  BY <1>8, <1>9, <1>10

LEMMA StepShows ==
  ASSUME TypeInv, FindInv, ShownInv, FindInv',
         \/ \E t \in Threads : Step(t)
         \/ ReadAgain \/ FetchSticker
  PROVE  ShownInv'
<1>1. ASSUME NEW t \in Threads, PutRecord(t)
      PROVE  ShownInv'
  BY <1>1, PutHands, PutShowsDue, PutFlags, PutPreviews DEF ShownInv
<1>. QED  BY <1>1, AnswerShows, FailShows, PutIndexShows, ReadChatShows, PutChatShows, PutReactionShows,
             ReadMessageShows, ListReactionsShows, ReadAgainShows, FetchStickerShows DEF Step

-----------------------------------------------------------------------------
(* What is shown: the other actions.                                       *)

LEMMA OtherThread ==
  /\ (CHOOSE u \in Threads : u # "loop") = "ui"
  /\ (CHOOSE u \in Threads : u # "ui") = "loop"
<1>1. \E u \in Threads : u # "loop"
  BY DEF Threads
<1>2. \E u \in Threads : u # "ui"
  BY DEF Threads
<1>3. \A u \in Threads : u # "loop" => u = "ui"
  BY DEF Threads
<1>4. \A u \in Threads : u # "ui" => u = "loop"
  BY DEF Threads
<1>. QED  BY <1>1, <1>2, <1>3, <1>4

(* A call of the user begins.                                              *)
LEMMA CallShows ==
  ASSUME TypeInv, ShownInv, NEW kind \in UiKinds, NEW m \in Msgs, NEW on \in BOOLEAN,
         NEW new, Call(kind, m, on, new),
         kind \notin {"react", "read"} =>
           /\ new.body = IF kind \in {"editText", "deleteOwn"} THEN Shows(kind) ELSE record[m].body
           /\ kind \notin {"editText", "deleteOwn"} => new.type = record[m].type
           /\ new.flag = record[m].flag
  PROVE  ShownInv'
<1>1. /\ UNCHANGED <<record, index, reacted, chat, batch, pos, high, due>>
      /\ op["ui"].at = "idle" /\ Noted("ui", m) /\ Stored' = Stored
      /\ op' = [op EXCEPT !["ui"] = Taken(kind, m, Me, on, "call", new)]
  BY DEF Call, Doing, Taken, kvVars, logVars, Stored
<1>2. /\ op'["ui"] = Taken(kind, m, Me, on, "call", new) /\ op'["loop"] = op["loop"]
      /\ op'["ui"].kind = kind /\ op'["ui"].m = m /\ op'["ui"].at = "call" /\ op'["ui"].new = new
  BY <1>1 DEF TypeInv, Taken, Threads
<1>3. /\ overlap' = (overlap \/ op["loop"].at # "idle")
      /\ disturbed' = IF op["loop"].m = m \/ (\E i \in 1 .. Len(batch) : batch[i].m = m)
                        THEN disturbed \cup {m} ELSE disturbed
  BY <1>1, OtherThread DEF Noted
<1>4. \A n : Sole(n)' => Sole(n)
  BY <1>3 DEF Sole
<1>5. \A n : HasReactions(n)' = HasReactions(n)
  BY <1>1 DEF HasReactions
<1>6. \A n : \A kinds : /\ Pending(n, kinds, high)' <=> Pending(n, kinds, high)
                        /\ Pending(n, kinds, Len(batch))' <=> Pending(n, kinds, Len(batch))
  BY <1>1 DEF Pending
<1>7. \A t \in Threads : Shaped(t, op[t])'
  <2>1. Shaped("ui", op["ui"])'
    BY <1>2 DEF Shaped, UiKinds
  <2>2. Shaped("loop", op["loop"])'
    BY <1>2 DEF ShownInv, HandsInv, Shaped, Threads
  <2>. QED  BY <2>1, <2>2 DEF Threads
<1>8. \A t \in Threads : Fresh(op[t])'
  <2>1. PICK o : o = op'["ui"]
    OBVIOUS
  <2>2. Fresh(o)'
    <3>1. kind \notin Setting \cup {"reaction", "sticker"}
      BY DEF UiKinds, Setting, New
    <3>. QED  BY <1>1, <1>2, <2>1, <3>1 DEF Fresh
  <2>3. PICK p : p = op["loop"]
    OBVIOUS
  <2>4. Fresh(p)'
    <3>1. Fresh(p)
      BY <2>3 DEF ShownInv, HandsInv, Threads
    <3>. QED  BY <1>1, <1>4, <1>5, <3>1 DEF Fresh
  <2>. QED  BY <1>2, <2>1, <2>2, <2>3, <2>4 DEF Threads
<1>9. Exclusive' /\ Current'
  <2>1. op["loop"].m = m => op["loop"].at # "idle"
    BY MsgsAssumption, IdleTyped DEF TypeInv, HandsOK, Threads, Idle
  <2>2. op["loop"].m = m => m \in disturbed' /\ overlap'
    BY <1>3, <2>1
  <2>3. m \notin disturbed' => \A i \in 1 .. high : batch[i].m # m
    <3>1. \A i \in 1 .. high : i \in 1 .. Len(batch)
      BY DEF TypeInv
    <3>. QED  BY <1>3, <3>1
  <2>4. Exclusive'
    BY <1>1, <1>2, <1>3, <2>2, <2>3 DEF Exclusive, Sole
  <2>5. Current'
    BY <1>1, <1>2 DEF ShownInv, HandsInv, Current
  <2>. QED  BY <2>4, <2>5
<1>10. HandsInv'
  BY <1>1, <1>2, <1>6, <1>7, <1>8, <1>9 DEF ShownInv, HandsInv
<1>11. disturbed \subseteq disturbed' /\ (overlap => overlap')
  BY <1>3
<1>12. LastIsDue' /\ ShowsDue'
  BY <1>1, <1>6, <1>11 DEF ShownInv, LastIsDue, LastOf, ShowsDue
<1>13. FlagsRight'
  BY <1>1, <1>5, <1>6, <1>11 DEF ShownInv, FlagsRight
<1>14. PreviewInv'
  <2>1. \A n : (Matches(n)' <=> Matches(n)) /\ (NewestOf(n)' <=> NewestOf(n))
    BY <1>1 DEF Matches, NewestOf
  <2>2. \A o : NextChat(o)' = NextChat(o)
    BY <1>1 DEF NextChat, Upserted, AfterEdit
  <2>3. \A t \in Threads : op'[t].at = "chatPut" => op'[t] = op[t]
    BY <1>2 DEF Threads
  <2>4. op["ui"].at \notin {"chat", "chatPut"}
    BY <1>1
  <2>. QED  BY <1>1, <1>2, <1>6, <1>11, <2>1, <2>2, <2>3, <2>4 DEF ShownInv, PreviewInv
<1>. QED  BY <1>10, <1>12, <1>13, <1>14 DEF ShownInv

LEMMA CallsShow ==
  ASSUME TypeInv, ShownInv, NEW m \in Msgs, Calls(m)
  PROVE  ShownInv'
<1>1. ASSUME Found(m)
      PROVE  record[m] \in Record
  BY <1>1, FoundIsRecord
<1>2. CASE EditTextMessage(m)
  <2>1. Call("editText", m, FALSE, Edited(record[m], m, "app")) /\ record[m] \in Record
    BY <1>1, <1>2 DEF EditTextMessage, Call
  <2>2. LET new == Edited(record[m], m, "app") IN new.body = "app" /\ new.flag = record[m].flag
    BY <2>1 DEF Edited, Record
  <2>3. Shows("editText") = "app" /\ "editText" \in UiKinds
    BY DEF Shows, New, UiKinds
  <2>. QED  BY <2>1, <2>2, <2>3, CallShows
<1>3. CASE DeleteMessage(m)
  <2>1. Call("deleteOwn", m, FALSE, Deleted(record[m])) /\ record[m] \in Record
    BY <1>1, <1>3 DEF DeleteMessage, Call
  <2>2. Deleted(record[m]).body = "" /\ Deleted(record[m]).flag = record[m].flag
    BY <2>1 DEF Deleted, Record
  <2>3. Shows("deleteOwn") = "" /\ "deleteOwn" \in UiKinds
    BY DEF Shows, New, UiKinds
  <2>. QED  BY <2>1, <2>2, <2>3, CallShows
<1>4. CASE DownloadMedia(m)
  <2>1. Call("download", m, FALSE, [record[m] EXCEPT !.file = TRUE]) /\ record[m] \in Record
    BY <1>1, <1>4 DEF DownloadMedia, Call
  <2>2. LET new == [record[m] EXCEPT !.file = TRUE] IN
        new.body = record[m].body /\ new.type = record[m].type /\ new.flag = record[m].flag
    BY <2>1 DEF Record
  <2>3. "download" \in UiKinds
    BY DEF UiKinds
  <2>. QED  BY <2>1, <2>2, <2>3, CallShows
<1>5. CASE MarkAsRead(m)
  <2>1. Call("read", m, FALSE, NoRecord) /\ "read" \in UiKinds
    BY <1>5 DEF MarkAsRead, UiKinds
  <2>. QED  BY <2>1, CallShows
<1>6. ASSUME NEW on \in BOOLEAN, SendMessageReaction(m, on)
      PROVE  ShownInv'
  <2>1. Call("react", m, on, NoRecord) /\ "react" \in UiKinds
    BY <1>6 DEF SendMessageReaction, UiKinds
  <2>. QED  BY <2>1, CallShows
<1>. QED  BY <1>2, <1>3, <1>4, <1>5, <1>6 DEF Calls

(* An event comes in, when all the ones before it have been dispatched.    *)
LEMMA ArriveShows ==
  ASSUME TypeInv, ShownInv, NEW e \in Event, Arrive(e)
  PROVE  ShownInv'
<1>1. /\ UNCHANGED <<record, index, reacted, chat, op, pos, high, due, disturbed, overlap>>
      /\ pos = Len(batch) /\ op["loop"].at = "idle" /\ Stored' = Stored
      /\ pos \in Nat /\ high \in 0 .. pos
      /\ \A i \in 1 .. high : batch'[i] = batch[i]
  BY DEF Arrive, kvVars, histVars, Stored, TypeInv
<1>2. \A n : \A kinds : ~Pending(n, kinds, high) /\ ~Pending(n, kinds, high)'
                        /\ ~Pending(n, kinds, Len(batch))
  BY <1>1 DEF Pending
<1>3. \A t \in Threads : Shaped(t, op[t])'
  BY <1>1 DEF ShownInv, HandsInv, Shaped
<1>4. ASSUME NEW t \in Threads
      PROVE  Fresh(op[t])'
  <2>1. Fresh(op[t]) /\ op'[t] = op[t]
    BY <1>1 DEF ShownInv, HandsInv
  <2>. QED  BY <1>1, <2>1 DEF Fresh, Sole, HasReactions
<1>5. Current' /\ Exclusive'
  BY <1>1 DEF ShownInv, HandsInv, Current, Exclusive, Sole
<1>6. HandsInv'
  BY <1>1, <1>2, <1>3, <1>4, <1>5 DEF ShownInv, HandsInv
<1>7. LastIsDue'
  BY <1>1 DEF ShownInv, LastIsDue, LastOf
<1>8. ShowsDue'
  BY <1>1, <1>2 DEF ShownInv, ShowsDue
<1>9. FlagsRight'
  BY <1>1, <1>2 DEF ShownInv, FlagsRight, HasReactions
<1>10. PreviewInv'
  <2>1. \A n : (Matches(n)' <=> Matches(n)) /\ (NewestOf(n)' <=> NewestOf(n))
    BY <1>1 DEF Matches, NewestOf
  <2>2. \A o : NextChat(o)' = NextChat(o)
    BY <1>1 DEF NextChat, Upserted, AfterEdit
  <2>. QED  BY <1>1, <1>2, <2>1, <2>2 DEF ShownInv, PreviewInv
<1>. QED  BY <1>6, <1>7, <1>8, <1>9, <1>10 DEF ShownInv

LEMMA DeleteBatchShows ==
  ASSUME TypeInv, ShownInv, DeleteBatch
  PROVE  ShownInv'
<1>1. /\ UNCHANGED <<record, index, reacted, chat, op, due, disturbed, overlap>>
      /\ pos = Len(batch) /\ op["loop"].at = "idle" /\ Stored' = Stored
      /\ pos \in Nat /\ high \in 0 .. pos /\ batch' = <<>> /\ pos' = 0 /\ high' = 0
      /\ Len(batch') = 0
  BY DEF DeleteBatch, kvVars, histVars, Stored, TypeInv
<1>2. \A n : \A kinds : /\ ~Pending(n, kinds, high) /\ ~Pending(n, kinds, high)'
                        /\ ~Pending(n, kinds, Len(batch)) /\ ~Pending(n, kinds, Len(batch))'
  BY <1>1 DEF Pending
<1>3. \A t \in Threads : Shaped(t, op[t])'
  BY <1>1 DEF ShownInv, HandsInv, Shaped
<1>4. ASSUME NEW t \in Threads
      PROVE  Fresh(op[t])'
  <2>1. Fresh(op[t]) /\ op'[t] = op[t]
    BY <1>1 DEF ShownInv, HandsInv
  <2>. QED  BY <1>1, <2>1 DEF Fresh, Sole, HasReactions
<1>5. Current' /\ Exclusive'
  BY <1>1 DEF ShownInv, HandsInv, Current, Exclusive, Sole
<1>6. HandsInv'
  BY <1>1, <1>2, <1>3, <1>4, <1>5 DEF ShownInv, HandsInv
<1>7. LastIsDue'
  BY <1>1 DEF LastIsDue
<1>8. ShowsDue'
  BY <1>1, <1>2 DEF ShownInv, ShowsDue
<1>9. FlagsRight'
  BY <1>1, <1>2 DEF ShownInv, FlagsRight, HasReactions
<1>10. PreviewInv'
  <2>1. \A n : (Matches(n)' <=> Matches(n)) /\ (NewestOf(n)' <=> NewestOf(n))
    BY <1>1 DEF Matches, NewestOf
  <2>2. \A o : NextChat(o)' = NextChat(o)
    BY <1>1 DEF NextChat, Upserted, AfterEdit
  <2>. QED  BY <1>1, <1>2, <2>1, <2>2 DEF ShownInv, PreviewInv
<1>. QED  BY <1>6, <1>7, <1>8, <1>9, <1>10 DEF ShownInv

(* The batch comes again from its first event.                             *)
LEMMA CrashShows ==
  ASSUME TypeInv, ShownInv, Crash
  PROVE  ShownInv'
<1>1. /\ UNCHANGED <<record, index, reacted, chat, batch, high, due>> /\ Stored' = Stored
      /\ pos' = 0 /\ \A t \in Threads : op'[t] = Idle
      /\ overlap' = (overlap \/ op["ui"].at # "idle")
      /\ disturbed' = IF op["ui"].at # "idle" THEN disturbed \cup {op["ui"].m} ELSE disturbed
  BY DEF Crash, kvVars, Stored
<1>2. \A n : \A kinds : /\ Pending(n, kinds, high) => Pending(n, kinds, high)'
                        /\ Pending(n, kinds, Len(batch)) => Pending(n, kinds, Len(batch))'
  <2>1. \A last : \A i \in pos + 1 .. last : i \in pos' + 1 .. last
    BY <1>1 DEF TypeInv
  <2>. QED  BY <1>1, <2>1 DEF Pending
<1>3. \A t \in Threads : Shaped(t, op[t])' /\ Fresh(op[t])'
  BY <1>1, IdleTyped DEF Shaped, Fresh
<1>4. Current' /\ Exclusive'
  BY <1>1, IdleTyped DEF Current, Exclusive, Threads
<1>5. pos' <= high' /\ op'["loop"].kind \notin New
  BY <1>1, IdleTyped DEF TypeInv, New, Threads
<1>6. HandsInv'
  BY <1>1, <1>2, <1>3, <1>4, <1>5 DEF ShownInv, HandsInv
<1>7. LastIsDue' /\ ShowsDue'
  BY <1>1, <1>2 DEF ShownInv, LastIsDue, LastOf, ShowsDue
<1>8. FlagsRight'
  BY <1>1, <1>2 DEF ShownInv, FlagsRight, HasReactions
<1>9. PreviewInv'
  <2>1. \A n : (Matches(n)' <=> Matches(n)) /\ (NewestOf(n)' <=> NewestOf(n))
    BY <1>1 DEF Matches, NewestOf
  <2>2. \A t \in Threads : op'[t].at = "idle" /\ op'[t].kind # "sticker"
    BY <1>1, IdleTyped
  <2>. QED  BY <1>1, <1>2, <2>1, <2>2 DEF ShownInv, PreviewInv, Threads
<1>. QED  BY <1>6, <1>7, <1>8, <1>9 DEF ShownInv

-----------------------------------------------------------------------------
(* What is shown: the loop takes up an event.                              *)

(* What Dispatch notes of an event, before it takes it up or drops it.     *)
Taking ==
  LET e == batch[pos + 1]
      m == e.m IN
  /\ op["loop"].at = "idle" /\ pos < Len(batch) /\ Noted("loop", m)
  /\ IF pos < high THEN UNCHANGED <<high, due>>
                   ELSE high' = pos + 1 /\ due' = [due EXCEPT ![m] = Outcome(e)]
  /\ UNCHANGED <<record, index, reacted, chat, batch>>
  /\ op'["ui"] = op["ui"]

LEMMA TakingFacts ==
  ASSUME TypeInv, HandsInv, Taking
  PROVE  LET e == batch[pos + 1]
             m == e.m IN
         /\ m \in Msgs /\ m # 0 /\ e.kind \in {"message", "unavailable", "edit", "delete", "reaction", "receipt"}
         /\ pos + 1 \in 1 .. high' /\ high \in Nat /\ high' \in Nat /\ pos \in Nat
         /\ \/ pos < high /\ high' = high /\ due' = due
            \/ pos = high /\ high' = pos + 1 /\ due' = [due EXCEPT ![m] = Outcome(e)]
         /\ due' \in [Msgs -> Bodies \cup {"nothing"}]
         /\ \A n \in Msgs : due[n] # "nothing" => due'[n] # "nothing"
         /\ \A n \in Msgs : due'[n] # due[n] => n = m /\ e.kind \in Setting
         /\ due'[m] # "nothing" /\ due[m] = "nothing" => e.kind \in New
         /\ e.kind \in New => due'[m] # "nothing"
         /\ overlap' = (overlap \/ op["ui"].at # "idle")
         /\ disturbed' = IF op["ui"].m = m THEN disturbed \cup {m} ELSE disturbed
<1>. DEFINE e == batch[pos + 1]
            m == e.m
<1>1. e \in Event /\ pos \in Nat /\ high \in Nat /\ pos <= high
  BY DEF TypeInv, Taking, HandsInv
<1>2. m \in Msgs /\ e.kind \in {"message", "unavailable", "edit", "delete", "reaction", "receipt"}
  BY <1>1, EventParts
<1>3. m # 0
  BY <1>2, MsgsAssumption
<1>4. \/ pos < high /\ high' = high /\ due' = due
      \/ pos = high /\ high' = pos + 1 /\ due' = [due EXCEPT ![m] = Outcome(e)]
  BY <1>1 DEF Taking
<1>5. /\ overlap' = (overlap \/ op["ui"].at # "idle")
      /\ disturbed' = IF op["ui"].m = m THEN disturbed \cup {m} ELSE disturbed
  <2>1. "loop" # "ui"
    OBVIOUS
  <2>. QED  BY <2>1, OtherThread DEF Taking, Noted
<1>. HIDE DEF e
<1>6. /\ Outcome(e) \in Bodies \cup {"nothing"}
      /\ due[m] # "nothing" => Outcome(e) # "nothing"
      /\ Outcome(e) # due[m] => e.kind \in Setting
      /\ Outcome(e) # "nothing" /\ due[m] = "nothing" => e.kind \in New
      /\ e.kind \in New => Outcome(e) # "nothing"
  <2>1. due[m] \in Bodies \cup {"nothing"}
    BY <1>2 DEF HandsInv
  <2>. QED  BY <1>2, <2>1 DEF Outcome, Bodies, Setting, New
<1>7. pos + 1 \in 1 .. high' /\ high' \in Nat
  BY <1>1, <1>4
<1>8. /\ due' \in [Msgs -> Bodies \cup {"nothing"}]
      /\ \A n \in Msgs : due[n] # "nothing" => due'[n] # "nothing"
      /\ \A n \in Msgs : due'[n] # due[n] => n = m /\ e.kind \in Setting
      /\ due'[m] # "nothing" /\ due[m] = "nothing" => e.kind \in New
  <2>1. due \in [Msgs -> Bodies \cup {"nothing"}]
    BY DEF HandsInv
  <2>. QED  BY <1>2, <1>4, <1>6, <2>1
<1>9. e.kind \in New => due'[m] # "nothing"
  <2>1. CASE pos < high /\ due' = due
    <3>1. pos + 1 \in 1 .. high
      BY <1>1, <2>1
    <3>. QED  BY <2>1, <3>1 DEF HandsInv, e
  <2>2. CASE due' = [due EXCEPT ![m] = Outcome(e)]
    BY <1>2, <1>6, <2>2 DEF HandsInv
  <2>. QED  BY <1>4, <2>1, <2>2
<1>. QED  BY <1>1, <1>2, <1>3, <1>4, <1>5, <1>7, <1>8, <1>9 DEF e

(* What an event taken up and one dropped have in common.                  *)
LEMMA TakingShows ==
  ASSUME TypeInv, FindInv, ShownInv, Taking,
         Shaped("loop", op["loop"])', Fresh(op["loop"])',
         op'["loop"].at \in {"idle", "put", "react"}, op'["loop"].kind # "sticker",
         \/ /\ pos' = pos /\ op'["loop"].m = batch[pos + 1].m
            /\ op'["loop"].kind = batch[pos + 1].kind
         \/ /\ pos' = pos + 1 /\ op'["loop"] = Idle
            /\ batch[pos + 1].kind \in {"edit", "delete", "receipt"}
            /\ batch[pos + 1].kind # "receipt" => ~Found(batch[pos + 1].m)
  PROVE  ShownInv'
<1>. DEFINE e == batch[pos + 1]
            m == e.m
            kept == pos' = pos /\ op'["loop"].m = m /\ op'["loop"].kind = e.kind
            dropped == /\ pos' = pos + 1 /\ op'["loop"] = Idle
                       /\ e.kind \in {"edit", "delete", "receipt"}
                       /\ e.kind # "receipt" => ~Found(m)
<1>0. UNCHANGED <<record, index, reacted, chat, batch>> /\ op'["ui"] = op["ui"] /\ Stored' = Stored
      /\ pos < Len(batch) /\ Len(batch) \in Nat /\ op["loop"].at = "idle"
  BY DEF Taking, Stored, TypeInv
<1>1. /\ m \in Msgs /\ m # 0
      /\ pos + 1 \in 1 .. high' /\ high \in Nat /\ high' \in Nat /\ pos \in Nat
      /\ \/ pos < high /\ high' = high /\ due' = due
         \/ pos = high /\ high' = pos + 1 /\ due' = [due EXCEPT ![m] = Outcome(e)]
      /\ due' \in [Msgs -> Bodies \cup {"nothing"}]
      /\ \A n \in Msgs : due[n] # "nothing" => due'[n] # "nothing"
      /\ \A n \in Msgs : due'[n] # due[n] => n = m /\ e.kind \in Setting
      /\ due'[m] # "nothing" /\ due[m] = "nothing" => e.kind \in New
      /\ e.kind \in New => due'[m] # "nothing"
      /\ overlap' = (overlap \/ op["ui"].at # "idle")
      /\ disturbed' = IF op["ui"].m = m THEN disturbed \cup {m} ELSE disturbed
  BY TakingFacts DEF ShownInv
<1>2. kept \/ dropped
  OBVIOUS
<1>. HIDE DEF e, kept, dropped
<1>3. \A n : Sole(n)' => Sole(n)
  BY <1>1 DEF Sole
<1>4. \A n : HasReactions(n)' = HasReactions(n)
  BY <1>0 DEF HasReactions
<1>5. e = batch[pos + 1]
  BY DEF e
(* An event to come still is, but for an edit or deletion dropped; then    *)
(* the message is not found, and is to come.                               *)
<1>6. \A n : \A kinds :
        /\ Pending(n, kinds, high) /\ ~(dropped /\ n = m /\ e.kind \in kinds) => Pending(n, kinds, high)'
        /\ Pending(n, kinds, Len(batch)) /\ ~(dropped /\ n = m /\ e.kind \in kinds)
             => Pending(n, kinds, Len(batch))'
  <2>1. \A i \in pos + 1 .. high : i \in pos + 1 .. high'
    BY <1>1
  <2>2. \A last \in Nat : \A i \in pos + 1 .. last : i = pos + 1 \/ i \in pos + 2 .. last
    BY <1>1
  <2>3. high' \in Nat /\ high \in Nat /\ Len(batch) \in Nat
    BY <1>0, <1>1
  <2>4. CASE pos' = pos
    BY <1>0, <2>1, <2>4 DEF Pending
  <2>5. CASE pos' = pos + 1 /\ dropped
    <3>1. pos' + 1 = pos + 2
      BY <1>1, <2>5
    <3>2. \A i \in pos + 2 .. high : i \in pos + 2 .. high'
      BY <1>1
    <3>. QED  BY <1>0, <1>5, <2>2, <2>3, <2>5, <3>1, <3>2 DEF Pending
  <2>. QED  BY <1>2, <2>4, <2>5 DEF kept, dropped
<1>7. \A n : \A kinds : Pending(n, kinds, high) => Pending(n, kinds, Len(batch))
  <2>1. \A i \in pos + 1 .. high : i \in pos + 1 .. Len(batch)
    BY <1>0, <1>1 DEF TypeInv
  <2>. QED  BY <2>1 DEF Pending
<1>8. dropped => e.kind \notin New \cup {"reaction"}
  BY DEF dropped, New
<1>9. \A n : (Pending(n, New, high) => Pending(n, New, high)')
             /\ (Pending(n, New, Len(batch)) => Pending(n, New, Len(batch))')
  BY <1>6, <1>8
<1>10. \A n \in Stored \ index : Pending(n, New, high)
  BY DEF ShownInv, HandsInv
<1>11. Current'
  BY <1>0, <1>1, <1>2, <1>5, IdleTyped DEF Current, kept, dropped
<1>12. Exclusive'
  <2>. SUFFICES ASSUME op["ui"].at # "idle"
                PROVE  /\ op'["loop"].m = op["ui"].m => ~Sole(op["ui"].m)'
                       /\ op'["loop"].at # "idle" => overlap'
                       /\ op["ui"].m \notin disturbed' => \A i \in 1 .. high' : batch[i].m # op["ui"].m
    BY <1>0 DEF Exclusive
  <2>1. op["ui"].m # 0
    BY MsgsAssumption DEF TypeInv, HandsOK, Threads
  <2>2. op'["loop"].m = op["ui"].m => op["ui"].m = m
    BY <1>2, <2>1 DEF kept, dropped, Idle
  <2>3. op["ui"].m = m => m \in disturbed' /\ overlap'
    BY <1>1
  <2>4. op["ui"].m \notin disturbed' => \A i \in 1 .. high' : batch[i].m # op["ui"].m
    <3>1. op["ui"].m \notin disturbed' => op["ui"].m # m /\ op["ui"].m \notin disturbed
      BY <1>1
    <3>2. op["ui"].m \notin disturbed => \A i \in 1 .. high : batch[i].m # op["ui"].m
      BY DEF ShownInv, HandsInv, Exclusive
    <3>3. \A i \in 1 .. high' : i \in 1 .. high \/ i = pos + 1
      BY <1>1
    <3>. QED  BY <1>5, <3>1, <3>2, <3>3
  <2>5. op'["loop"].m = op["ui"].m => ~Sole(op["ui"].m)'
    BY <1>0, <2>2, <2>3 DEF Sole
  <2>. QED  BY <1>1, <2>4, <2>5
<1>13. \A t \in Threads : Shaped(t, op[t])' /\ Fresh(op[t])'
  <2>1. Shaped("ui", op["ui"])'
    BY <1>0 DEF ShownInv, HandsInv, Shaped, Threads
  <2>2. PICK o : o = op["ui"]
    OBVIOUS
  <2>3. Fresh(o)'
    <3>1. Fresh(o)
      BY <2>2 DEF ShownInv, HandsInv, Threads
    <3>. QED  BY <1>0, <1>3, <1>4, <3>1 DEF Fresh
  <2>. QED  BY <1>0, <2>1, <2>2, <2>3 DEF Threads
<1>14. HandsInv'
  <2>1. \A n \in Stored : due'[n] # "nothing"
    BY <1>1 DEF ShownInv, HandsInv, Stored
  <2>2. op'["loop"].kind \in New => due'[op'["loop"].m] # "nothing"
    BY <1>1, <1>2, IdleTyped DEF kept, dropped, New
  <2>3. \A n \in Msgs : due'[n] # "nothing" => n \in Stored \/ Pending(n, New, high)'
    <3>. SUFFICES ASSUME NEW n \in Msgs, due'[n] # "nothing"
                  PROVE  n \in Stored \/ Pending(n, New, high)'
      OBVIOUS
    <3>1. CASE due[n] # "nothing"
      BY <1>9, <3>1 DEF ShownInv, HandsInv
    <3>2. CASE due[n] = "nothing"
      <4>1. n = m /\ e.kind \in New /\ pos' = pos
        BY <1>1, <1>2, <1>8, <3>2 DEF kept, dropped
      <4>2. pos + 1 \in pos' + 1 .. high'
        BY <1>1, <4>1
      <4>. QED  BY <1>0, <1>5, <4>1, <4>2 DEF Pending
    <3>. QED  BY <3>1, <3>2
  <2>4. pos' <= high'
    BY <1>1, <1>2 DEF kept, dropped
  <2>5. \A i \in 1 .. high' : batch[i].kind \in New => due'[batch[i].m] # "nothing"
    <3>1. \A i \in 1 .. high' : i \in 1 .. high \/ i = pos + 1
      BY <1>1
    <3>2. \A i \in 1 .. high : batch[i].kind \in New => due[batch[i].m] # "nothing" /\ batch[i].m \in Msgs
      <4>1. \A i \in 1 .. high : batch[i].m \in Msgs
        BY EventParts DEF TypeInv
      <4>. QED  BY <4>1 DEF ShownInv, HandsInv
    <3>. QED  BY <1>1, <1>5, <3>1, <3>2
  <2>. QED  BY <1>0, <1>1, <1>9, <1>10, <1>11, <1>12, <1>13, <2>1, <2>2, <2>3, <2>4, <2>5 DEF HandsInv
<1>15. disturbed \subseteq disturbed' /\ (overlap => overlap')
  BY <1>1
<1>16. LastIsDue'
  <2>. SUFFICES ASSUME NEW n \in Msgs \ disturbed, due'[n] # "nothing",
                       NEW i \in 1 .. high', LastOf(n, i)'
                PROVE  due'[n] = Shows(batch[i].kind)
    BY <1>0, <1>15 DEF LastIsDue
  <2>0. /\ batch[i].m = n /\ batch[i].kind \in Setting
        /\ \A j \in i + 1 .. high' : ~(batch[j].m = n /\ batch[j].kind \in Setting)
    BY <1>0 DEF LastOf
  <2>1. CASE pos < high /\ high' = high /\ due' = due
    <3>1. LastOf(n, i)
      BY <2>0, <2>1 DEF LastOf
    <3>. QED  BY <2>1, <3>1 DEF ShownInv, LastIsDue
  <2>2. CASE pos = high /\ high' = pos + 1 /\ due' = [due EXCEPT ![m] = Outcome(e)] /\ i = pos + 1
    <3>1. n = m /\ e.kind \in Setting /\ due'[n] = Outcome(e)
      BY <1>1, <1>5, <2>0, <2>2 DEF ShownInv, HandsInv
    <3>2. Outcome(e) # "nothing" => Outcome(e) = Shows(e.kind)
      BY <3>1 DEF Outcome, Shows, Setting, New
    <3>. QED  BY <1>5, <2>2, <3>1, <3>2
  <2>3. CASE pos = high /\ high' = pos + 1 /\ due' = [due EXCEPT ![m] = Outcome(e)] /\ i # pos + 1
    <3>1. i \in 1 .. high /\ pos + 1 \in i + 1 .. high' /\ \A j \in i + 1 .. high : j \in i + 1 .. high'
      BY <1>1, <2>3
    <3>2. ~(m = n /\ e.kind \in Setting)
      BY <1>5, <2>0, <3>1
    <3>3. due'[n] = due[n] /\ LastOf(n, i)
      BY <1>1, <2>0, <3>1, <3>2 DEF LastOf
    <3>. QED  BY <3>1, <3>3 DEF ShownInv, LastIsDue
  <2>. QED  BY <1>1, <2>1, <2>2, <2>3
<1>17. New \subseteq Setting
  BY DEF Setting
<1>18. ShowsDue'
  <2>. SUFFICES ASSUME NEW n \in Msgs \ disturbed, due'[n] # "nothing", ~Pending(n, Setting, high)'
                PROVE  n \in Stored /\ record[n].body = due'[n]
    BY <1>0, <1>15 DEF ShowsDue
  <2>1. ~(kept /\ n = m /\ e.kind \in Setting)
    <3>1. pos' = pos => pos + 1 \in pos' + 1 .. high'
      BY <1>1
    <3>. QED  BY <1>0, <1>5, <3>1 DEF Pending, kept
  <2>2. ~Pending(n, New, high)'
    BY <1>17 DEF Pending
  <2>3. CASE ~(n = m /\ e.kind \in Setting)
    <3>1. due'[n] = due[n] /\ ~Pending(n, Setting, high)
      BY <1>1, <1>6, <2>3
    <3>. QED  BY <3>1 DEF ShownInv, ShowsDue
  <2>4. CASE n = m /\ e.kind \in Setting
    <3>1. dropped /\ ~Found(n)
      BY <1>2, <2>1, <2>4 DEF dropped, Setting, New
    <3>2. n \notin Stored
      BY <1>9, <1>10, <2>2, <3>1 DEF Found, Stored
    <3>3. due[n] = "nothing"
      BY <1>9, <2>2, <3>2 DEF ShownInv, HandsInv
    <3>. QED  BY <1>1, <1>8, <2>4, <3>1, <3>3
  <2>. QED  BY <2>3, <2>4
<1>19. FlagsRight'
  <2>1. \A n : Pending(n, New \cup {"reaction"}, Len(batch)) => Pending(n, New \cup {"reaction"}, Len(batch))'
    BY <1>6, <1>8
  <2>. QED  BY <1>0, <1>4, <1>15, <2>1 DEF ShownInv, FlagsRight
<1>20. PreviewInv'
  <2>1. \A n : (Matches(n)' <=> Matches(n)) /\ (NewestOf(n)' <=> NewestOf(n))
    BY <1>0 DEF Matches, NewestOf
  <2>2. \A o : NextChat(o)' = NextChat(o)
    BY <1>0 DEF NextChat, Upserted, AfterEdit
  <2>3. \A n \in Stored : Pending(n, {"edit", "delete"}, Len(batch)) =>
          Pending(n, {"edit", "delete"}, Len(batch))' \/ Pending(n, New, Len(batch))'
    <3>. SUFFICES ASSUME NEW n \in Stored, Pending(n, {"edit", "delete"}, Len(batch))
                  PROVE  Pending(n, {"edit", "delete"}, Len(batch))' \/ Pending(n, New, Len(batch))'
      OBVIOUS
    <3>1. CASE ~(dropped /\ n = m /\ e.kind \in {"edit", "delete"})
      BY <1>6, <3>1
    <3>2. CASE dropped /\ n = m /\ e.kind \in {"edit", "delete"}
      <4>1. n \notin index
        BY <3>2 DEF dropped, Found, Stored
      <4>. QED  BY <1>7, <1>9, <1>10, <4>1
    <3>. QED  BY <3>1, <3>2
  <2>4. /\ chat.last \in Stored \cup {0}
        /\ \A t \in Threads : op'[t].at = "chatPut" => op'[t] = op[t]
    BY <1>0 DEF ShownInv, PreviewInv, Threads
  <2>5. op'["loop"].at # "fetch" /\ op'["loop"].kind # "sticker"
    OBVIOUS
  <2>6. ASSUME ~overlap, NEW n \in Stored, NewestOf(n)
        PROVE  \/ Pending(n, New, Len(batch))'
               \/ Matches(n)
               \/ chat.last = n /\ Pending(n, {"edit", "delete"}, Len(batch))'
               \/ /\ chat.last = n /\ op["ui"].m = n /\ op["ui"].kind \in {"editText", "deleteOwn"}
                  /\ op["ui"].at \in {"chat", "chatPut"}
    <3>1. \/ Pending(n, New, Len(batch))
          \/ Matches(n)
          \/ chat.last = n /\ Pending(n, {"edit", "delete"}, Len(batch))
          \/ /\ chat.last = n /\ op["ui"].m = n /\ op["ui"].kind \in {"editText", "deleteOwn"}
             /\ op["ui"].at \in {"chat", "chatPut"}
      BY <2>6 DEF ShownInv, PreviewInv
    <3>. QED  BY <1>9, <2>3, <3>1
  <2>7. \A t \in Threads : op'[t].at = "chatPut" =>
          /\ op'[t].newChat.last \in Stored \cup {0}
          /\ ~overlap => op'[t].newChat = NextChat(op'[t])
    BY <2>4 DEF ShownInv, PreviewInv
  <2>. QED  BY <1>0, <1>15, <2>1, <2>2, <2>4, <2>5, <2>6, <2>7 DEF PreviewInv
<1>. QED  BY <1>14, <1>16, <1>18, <1>19, <1>20 DEF ShownInv

LEMMA DispatchShows ==
  ASSUME TypeInv, FindInv, ShownInv, Dispatch
  PROVE  ShownInv'
<1>. DEFINE e == batch[pos + 1]
            m == e.m
            r == record[m]
<1>1. e \in Event /\ m \in Msgs
  <2>1. e \in Event
    BY DEF TypeInv, Dispatch
  <2>. QED  BY <2>1, EventParts
<1>2. \A new, at : Doing("loop", e.kind, m, e.who, e.on, at, new) =>
        op' = [op EXCEPT !["loop"] = Taken(e.kind, m, e.who, e.on, at, new)]
  BY DEF Doing, Taken
<1>3. Forget(m) => index' = index
  BY <1>1, NothingForgotten
<1>4. ASSUME op'["ui"] = op["ui"], index' = index
      PROVE  Taking
  BY <1>4 DEF Dispatch, Taking
<1>. HIDE DEF e
<1>5. ASSUME NEW at \in {"put", "react"}, NEW new, UNCHANGED <<index, pos>>,
             Doing("loop", e.kind, m, e.who, e.on, at, new),
             e.kind \in Setting \cup {"receipt", "reaction"},
             at = "put" =>
               /\ e.kind \in Setting => new.body = Shows(e.kind) /\ new.flag = HasReactions(m)
               /\ e.kind \notin Setting =>
                    /\ e.kind = "receipt"
                    /\ new.body = r.body /\ new.type = r.type /\ new.flag = r.flag
      PROVE  ShownInv'
  <2>1. op' = [op EXCEPT !["loop"] = Taken(e.kind, m, e.who, e.on, at, new)]
    BY <1>2, <1>5
  <2>2. /\ op'["loop"] = Taken(e.kind, m, e.who, e.on, at, new) /\ op'["ui"] = op["ui"]
        /\ op'["loop"].kind = e.kind /\ op'["loop"].m = m /\ op'["loop"].at = at
        /\ op'["loop"].new = new
    BY <2>1 DEF TypeInv, Taken, Threads
  <2>3. Taking
    BY <1>4, <1>5, <2>2
  <2>4. e.kind \notin {"sticker", "editText", "deleteOwn", "react"} /\ e.kind \in LoopKinds
    BY <1>5 DEF Setting, New, LoopKinds
  <2>5. Shaped("loop", op["loop"])'
    BY <1>5, <2>2, <2>4 DEF Shaped
  <2>6. PICK o : o = op'["loop"]
    OBVIOUS
  <2>7. Fresh(o)'
    <3>1. UNCHANGED <<record, reacted>>
      BY DEF Dispatch
    <3>2. o.kind = e.kind /\ o.m = m /\ o.at = at /\ o.new = new
      BY <2>2, <2>6
    <3>3. HasReactions(o.m)' = HasReactions(m)
      BY <3>1, <3>2 DEF HasReactions
    <3>. QED  BY <1>5, <2>4, <3>1, <3>2, <3>3 DEF Fresh
  <2>. QED  BY <1>5, <2>2, <2>3, <2>4, <2>5, <2>6, <2>7, TakingShows DEF e
<1>6. ASSUME EndNow("loop"), Forget(m), e.kind \in {"edit", "delete", "receipt"},
             e.kind # "receipt" => ~Found(m)
      PROVE  ShownInv'
  <2>1. op'["loop"] = Idle /\ op'["ui"] = op["ui"] /\ pos' = pos + 1
    BY <1>6 DEF EndNow, TypeInv, Threads
  <2>2. Taking
    BY <1>3, <1>4, <1>6, <2>1
  <2>3. Shaped("loop", op["loop"])' /\ Fresh(op["loop"])'
    BY <2>1, IdleTyped DEF Shaped, Fresh
  <2>. QED  BY <1>6, <2>1, <2>2, <2>3, IdleTyped, TakingShows DEF e
<1>7. ASSUME Found(m)
      PROVE  r \in Record
  BY <1>1, <1>7, FoundIsRecord
<1>8. CASE /\ e.kind \in {"message", "unavailable"} /\ UNCHANGED <<index, pos>>
           /\ Doing("loop", e.kind, m, e.who, e.on, "put", Incoming(e.kind, m))
  <2>1. Incoming(e.kind, m).body = "original" /\ Incoming(e.kind, m).flag = HasReactions(m)
    BY DEF Incoming
  <2>2. Shows(e.kind) = "original" /\ e.kind \in Setting
    BY <1>8 DEF Shows, New, Setting
  <2>. QED  BY <1>5, <1>8, <2>1, <2>2
<1>9. CASE /\ e.kind = "edit" /\ Found(m) /\ UNCHANGED <<index, pos>>
           /\ Doing("loop", e.kind, m, e.who, e.on, "put",
                    [Edited(r, m, "phone") EXCEPT !.info = m \in Media, !.flag = HasReactions(m)])
  <2>. DEFINE new == [Edited(r, m, "phone") EXCEPT !.info = m \in Media, !.flag = HasReactions(m)]
  <2>1. new.body = "phone" /\ new.flag = HasReactions(m)
    <3>1. r \in Record
      BY <1>7, <1>9
    <3>2. \A a, b : LET x == [Edited(r, m, "phone") EXCEPT !.info = a, !.flag = b] IN
                    x.body = "phone" /\ x.flag = b
      BY <3>1 DEF Edited, Record
    <3>. QED  BY <3>2, Zenon
  <2>2. Shows(e.kind) = "phone" /\ e.kind \in Setting
    BY <1>9 DEF Shows, New, Setting
  <2>. HIDE DEF new
  <2>3. Doing("loop", e.kind, m, e.who, e.on, "put", new)
    BY <1>9 DEF new
  <2>. QED  BY <1>5, <1>9, <2>1, <2>2, <2>3
<1>10. CASE /\ e.kind = "delete" /\ Found(m) /\ UNCHANGED <<index, pos>>
            /\ Doing("loop", e.kind, m, e.who, e.on, "put",
                     [Deleted(r) EXCEPT !.info = FALSE, !.flag = HasReactions(m)])
  <2>. DEFINE new == [Deleted(r) EXCEPT !.info = FALSE, !.flag = HasReactions(m)]
  <2>1. new.body = "" /\ new.flag = HasReactions(m)
    <3>1. r \in Record
      BY <1>7, <1>10
    <3>2. \A a, b : LET x == [Deleted(r) EXCEPT !.info = a, !.flag = b] IN
                    x.body = "" /\ x.flag = b
      BY <3>1 DEF Deleted, Record
    <3>. QED  BY <3>2, Zenon
  <2>2. Shows(e.kind) = "" /\ e.kind \in Setting
    BY <1>10 DEF Shows, New, Setting
  <2>. HIDE DEF new
  <2>3. Doing("loop", e.kind, m, e.who, e.on, "put", new)
    BY <1>10 DEF new
  <2>. QED  BY <1>5, <1>10, <2>1, <2>2, <2>3
<1>11. ASSUME NEW level \in {2, 3}, e.kind = "receipt", Found(m), UNCHANGED <<index, pos>>,
              Doing("loop", e.kind, m, e.who, e.on, "put", WithReceipt(r, level))
       PROVE  ShownInv'
  <2>. DEFINE new == WithReceipt(r, level)
  <2>1. new.body = r.body /\ new.type = r.type /\ new.flag = r.flag
    BY <1>7, <1>11 DEF WithReceipt, Record
  <2>2. e.kind \notin Setting
    BY <1>11 DEF Setting, New
  <2>. HIDE DEF new
  <2>3. Doing("loop", e.kind, m, e.who, e.on, "put", new)
    BY <1>11 DEF new
  <2>. QED  BY <1>5, <1>11, <2>1, <2>2, <2>3
<1>12. CASE /\ e.kind = "reaction" /\ UNCHANGED <<index, pos>>
            /\ Doing("loop", e.kind, m, e.who, e.on, "react", NoRecord)
  BY <1>5, <1>12
<1>. QED  BY <1>6, <1>8, <1>9, <1>10, <1>11, <1>12 DEF Dispatch, e

-----------------------------------------------------------------------------
(* What is shown: the theorems.                                            *)

LEMMA InitShows == Init => ShownInv
<1>. SUFFICES ASSUME Init PROVE ShownInv
  OBVIOUS
<1>1. \A t \in Threads : op[t] = Idle
  BY DEF Init
<1>2. Stored = {}
  BY DEF Init, Stored
<1>3. \A t \in Threads : Shaped(t, op[t]) /\ Fresh(op[t])
  BY <1>1, IdleTyped DEF Shaped, Fresh
<1>4. Current /\ Exclusive
  BY <1>1, IdleTyped DEF Current, Exclusive, Threads
<1>5. HandsInv
  BY <1>1, <1>2, <1>3, <1>4, IdleTyped DEF Init, HandsInv, New, Threads
<1>6. LastIsDue /\ ShowsDue /\ FlagsRight
  BY <1>2 DEF Init, LastIsDue, ShowsDue, FlagsRight
<1>7. PreviewInv
  BY <1>1, <1>2, IdleTyped DEF Init, PreviewInv, NoChat
<1>. QED  BY <1>5, <1>6, <1>7 DEF ShownInv

LEMMA ShownInductive ==
  TypeInv /\ FindInv /\ FindInv' /\ ShownInv /\ [Next]_vars => ShownInv'
<1>. SUFFICES ASSUME TypeInv, FindInv, FindInv', ShownInv, [Next]_vars PROVE ShownInv'
  OBVIOUS
<1>1. CASE UNCHANGED vars
  <2>1. /\ UNCHANGED <<record, index, reacted, chat, op, batch, pos, high, due, disturbed, overlap>>
        /\ Stored' = Stored
    BY <1>1 DEF vars, kvVars, logVars, histVars, Stored
  <2>2. \A n : \A kinds : /\ Pending(n, kinds, high)' <=> Pending(n, kinds, high)
                          /\ Pending(n, kinds, Len(batch))' <=> Pending(n, kinds, Len(batch))
    BY <2>1 DEF Pending
  <2>3. \A t \in Threads : Shaped(t, op[t])'
    BY <2>1 DEF ShownInv, HandsInv, Shaped
  <2>4. ASSUME NEW t \in Threads
        PROVE  Fresh(op[t])'
    <3>1. Fresh(op[t]) /\ op'[t] = op[t]
      BY <2>1 DEF ShownInv, HandsInv
    <3>. QED  BY <2>1, <3>1 DEF Fresh, Sole, HasReactions
  <2>5. Current' /\ Exclusive'
    BY <2>1 DEF ShownInv, HandsInv, Current, Exclusive, Sole
  <2>6. HandsInv'
    BY <2>1, <2>2, <2>3, <2>4, <2>5 DEF ShownInv, HandsInv
  <2>7. LastIsDue' /\ ShowsDue' /\ FlagsRight'
    <3>1. LastIsDue'
      BY <2>1 DEF ShownInv, LastIsDue, LastOf
    <3>2. ShowsDue'
      BY <2>1, <2>2 DEF ShownInv, ShowsDue
    <3>3. FlagsRight'
      BY <2>1, <2>2 DEF ShownInv, FlagsRight, HasReactions
    <3>. QED  BY <3>1, <3>2, <3>3
  <2>8. PreviewInv'
    <3>1. \A n : (Matches(n)' <=> Matches(n)) /\ (NewestOf(n)' <=> NewestOf(n))
      BY <2>1 DEF Matches, NewestOf
    <3>2. \A o : NextChat(o)' = NextChat(o)
      BY <2>1 DEF NextChat, Upserted, AfterEdit
    <3>. QED  BY <2>1, <2>2, <3>1, <3>2 DEF ShownInv, PreviewInv
  <2>. QED  BY <2>6, <2>7, <2>8 DEF ShownInv
<1>2. CASE Next
  BY <1>2, ArriveShows, DispatchShows, DeleteBatchShows, CallsShow, StepShows, CrashShows DEF Next
<1>. QED  BY <1>1, <1>2

LEMMA ShownInvariance == Spec => [](TypeInv /\ FindInv /\ ShownInv)
<1>1. Init => ShownInv
  BY InitShows
<1>2. TypeInv /\ FindInv /\ FindInv' /\ ShownInv /\ [Next]_vars => ShownInv'
  BY ShownInductive
<1>. QED  BY <1>1, <1>2, Invariance, PTL DEF Spec

(* When all is quiet, no event is to come.                                 *)
LEMMA NothingPends ==
  ASSUME TypeInv, Quiet
  PROVE  \A n : \A kinds : ~Pending(n, kinds, high) /\ ~Pending(n, kinds, Len(batch))
BY DEF TypeInv, Quiet, Pending

(* However many events, calls and crashes there are: once a batch has been *)
(* dispatched, a message shows the last of the changes made of it, each    *)
(* applied once and in order, although a crash has the loop apply all of   *)
(* the batch again (handle_message_edit, handle_message_delete and the     *)
(* user's calls).                                                          *)
THEOREM ChangesShown == Spec => []ShowsLastChange
<1>1. TypeInv /\ ShownInv => ShowsLastChange
  <2>. SUFFICES ASSUME TypeInv, ShownInv, Quiet, NEW m \in Msgs \ disturbed
                PROVE  IF due[m] = "nothing" THEN m \notin Stored
                                             ELSE m \in Stored /\ record[m].body = due[m]
    BY DEF ShowsLastChange
  <2>1. ~Pending(m, Setting, high)
    BY NothingPends
  <2>2. due[m] = "nothing" => m \notin Stored
    BY DEF ShownInv, HandsInv
  <2>3. due[m] # "nothing" => m \in Stored /\ record[m].body = due[m]
    BY <2>1 DEF ShownInv, ShowsDue
  <2>. QED  BY <2>2, <2>3
<1>. QED  BY <1>1, ShownInvariance, PTL

(* The flag a message shows its reactions by is right whenever nothing is  *)
(* under way, in whatever order the reactions and the message came and     *)
(* however often they came again (refresh_message_reactions_flag,          *)
(* apply_message_reactions_flag).                                          *)
THEOREM FlagsShown == Spec => []ReactionsShown
<1>1. TypeInv /\ ShownInv => ReactionsShown
  <2>. SUFFICES ASSUME TypeInv, ShownInv, Quiet, NEW m \in Stored \ disturbed
                PROVE  record[m].flag <=> reacted[m] # {}
    BY DEF ReactionsShown
  <2>1. ~Pending(m, New \cup {"reaction"}, Len(batch))
    BY NothingPends
  <2>2. op["ui"].at = "idle"
    BY DEF Quiet, Threads
  <2>3. record[m].flag = HasReactions(m)
    BY <2>1, <2>2 DEF ShownInv, FlagsRight
  <2>. QED  BY <2>3, Zenon DEF HasReactions
<1>. QED  BY <1>1, ShownInvariance, PTL

(* Of the subsets of a finite set that have some property, one has no      *)
(* other within it.                                                        *)
LEMMA MinimalSubset ==
  ASSUME NEW S, IsFiniteSet(S), NEW F, F \subseteq SUBSET S, F # {}
  PROVE  \E T \in F : \A U \in F : U \subseteq T => U = T
<1>1. IsWellFoundedOn(StrictSubsetOrdering(S), SUBSET S)
  BY FS_StrictSubsetOrderingWellFounded, FS_FiniteSubsetsOfFinite
<1>2. \E T \in F : \A U \in F : <<U, T>> \notin StrictSubsetOrdering(S)
  BY <1>1, WFMin
<1>. QED  BY <1>2 DEF StrictSubsetOrdering

LEMMA GreatestExists ==
  ASSUME NEW S, IsFiniteSet(S)
  PROVE  S # {} /\ S \subseteq Nat => \E x \in S : \A y \in S : y <= x
<1>. DEFINE F == {T \in SUBSET S : T # {} /\ T \subseteq Nat /\ ~ \E x \in T : \A y \in T : y <= x}
<1>. SUFFICES ASSUME F # {} PROVE FALSE
  OBVIOUS
<1>0. F \subseteq SUBSET S
  OBVIOUS
<1>. HIDE DEF F
<1>1. PICK T \in F : \A U \in F : U \subseteq T => U = T
  BY <1>0, MinimalSubset
<1>. USE DEF F
<1>2. T \subseteq Nat /\ T # {} /\ ~ \E x \in T : \A y \in T : y <= x
  BY <1>1
<1>3. PICK x \in T : TRUE
  BY <1>2
<1>4. PICK y \in T : ~(y <= x)
  BY <1>2, <1>3
<1>5. T \ {x} \notin F /\ T \ {x} \subseteq S
  BY <1>1, <1>3
<1>6. y \in T \ {x}
  BY <1>2, <1>3, <1>4
<1>7. \E z \in T \ {x} : \A w \in T \ {x} : w <= z
  BY <1>2, <1>5, <1>6
<1>8. PICK z \in T \ {x} : \A w \in T \ {x} : w <= z
  BY <1>7
<1>9. \A w \in T : w <= z
  BY <1>2, <1>3, <1>4, <1>6, <1>8
<1>. QED  BY <1>2, <1>8, <1>9

(* The chat list previews the newest message as it is, unless a call and   *)
(* an event overlapped: the edit of an older message leaves the preview    *)
(* alone, and one of the newest shows, also when a crash came between the  *)
(* record's put and the chat's (upsert_chat, _update_chat_after_edit).     *)
THEOREM NewestPreviewed == Spec => []PreviewIsNewest
<1>1. TypeInv /\ ShownInv => PreviewIsNewest
  <2>. SUFFICES ASSUME TypeInv, ShownInv, Quiet, ~overlap, Stored # {}
                PROVE  LET r == record[Max(Stored)] IN chat.type = r.type /\ chat.body = r.body
    BY DEF PreviewIsNewest
  <2>1. IsFiniteSet(Stored) /\ Stored \subseteq Nat
    <3>1. Stored \subseteq Msgs
      BY DEF Stored
    <3>2. IsFiniteSet(Msgs) /\ Msgs \subseteq Nat
      BY MsgsAssumption
    <3>. QED  BY <3>1, <3>2, FS_Subset
  <2>2. PICK n \in Stored : \A m \in Stored : m <= n
    BY <2>1, GreatestExists
  <2>3. NewestOf(n)
    BY <2>2 DEF NewestOf
  <2>4. op["ui"].at = "idle"
    BY DEF Quiet, Threads
  <2>5. Matches(n)
    BY <2>2, <2>3, <2>4, NothingPends DEF ShownInv, PreviewInv
  <2>6. Max(Stored) = n
    BY <2>3, MaxIsNewest
  <2>. QED  BY <2>5, <2>6 DEF Matches
<1>. QED  BY <1>1, ShownInvariance, PTL
=============================================================================
