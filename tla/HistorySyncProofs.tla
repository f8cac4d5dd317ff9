--------------------------- MODULE HistorySyncProofs ---------------------------
(***************************************************************************)
(* For any messages, any history events and any number of crashes: a       *)
(* message has one record, which the index leads to once an event that     *)
(* lists it is through, and an edit is not undone; the chat list shows the *)
(* newest message, and its count, the divider and the total agree.         *)
(*                                                                         *)
(* Two invariants: HInv, of the messages' records, and ChatInv with Shown, *)
(* of the chat's record and the total, which rests on the first.           *)
(***************************************************************************)
EXTENDS HistorySync, FiniteSetTheorems, WellFoundedInduction, TLAPS

-----------------------------------------------------------------------------
(* The invariant.                                                          *)

Steps == {"idle", "messages", "names", "commit", "sum", "total"}
Puts == [rows : SUBSET (Msgs \X Keys \X Row), index : SUBSET (Msgs \X Keys), chat : {buffer.chat}]

Types ==
  /\ row \in [Msgs -> [Keys -> Row \cup {NoRow}]]
  /\ index \in [Msgs -> Keys \cup {"none"}]
  /\ pc \in Steps
  /\ batch.convs \in Seq(Conversation)
  /\ pc = "messages" => conv \in DOMAIN batch.convs
  /\ buffer \in Puts
  /\ raced \in BOOLEAN /\ edited \subseteq Msgs

(* The message has a record under the key, or will have one.               *)
Under(m, k) == row[m][k] # NoRow
ToPut(m, k) == \E r \in buffer.rows : r[1] = m /\ r[2] = k

(* A message has one record, and so it will when the buffer is committed.  *)
Single ==
  /\ \A m \in Msgs : \A j, k \in Keys : Under(m, j) /\ Under(m, k) => j = k
  /\ \A r \in buffer.rows : \A k \in Keys : Under(r[1], k) => k = r[2]
  /\ \A r, s \in buffer.rows : r[1] = s[1] => r[2] = s[2]

(* What the index is to lead to is stored or will be.                      *)
Links == \A l \in buffer.index : Under(l[1], l[2]) \/ ToPut(l[1], l[2])

(* The messages of the event that have been gone through are found, or     *)
(* will be when the buffer is committed.                                   *)
Secured(m) == Found(m) \/ \E l \in buffer.index : l[1] = m
Done(i) == IF i = conv THEN Kept(batch.convs[i].msgs) \ todo ELSE Kept(batch.convs[i].msgs)
Progress ==
  /\ pc = "messages" => \A i \in 1 .. conv : \A m \in Done(i) : Secured(m)
  /\ pc \in {"names", "commit"} =>
       \A i \in DOMAIN batch.convs : \A m \in Kept(batch.convs[i].msgs) : Secured(m)
  /\ pc \in {"sum", "total"} =>
       \A i \in DOMAIN batch.convs : \A m \in Kept(batch.convs[i].msgs) : Found(m)

(* What is to be committed keeps the edits, unless one was made meanwhile. *)
Edits ==
  ~raced =>
    /\ \A m \in edited : \E k \in Keys : row[m][k].body = "edited"
    /\ pc \in {"messages", "names", "commit"} =>
         \A r \in buffer.rows : row[r[1]][r[2]].body = "edited" => r[3].body = "edited"

AtRest == pc = "idle" => buffer.rows = {} /\ buffer.index = {}

HInv == Types /\ Single /\ Links /\ Progress /\ Edits /\ AtRest

-----------------------------------------------------------------------------
(* Lemmas.                                                                 *)

LEMMA EmptyPuts ==
  ASSUME buffer' = Empty
  PROVE  (buffer \in Puts /\ buffer.rows = {} /\ buffer.index = {})'
BY DEF Empty, Puts

LEMMA KeptIsSubset ==
  ASSUME NEW c \in Conversation
  PROVE  Kept(c.msgs) \subseteq Msgs
BY DEF Kept, Conversation

LEMMA StartTypes ==
  ASSUME NEW b, b.convs \in Seq(Conversation), Start(b)
  PROVE  /\ batch' = b /\ conv' = 1 /\ pc' \in {"messages", "names"}
         /\ pc' = "messages" => 1 \in DOMAIN b.convs /\ todo' = Kept(b.convs[1].msgs)
         /\ pc' = "names" => DOMAIN b.convs = {}
         /\ (buffer \in Puts /\ buffer.rows = {} /\ buffer.index = {})'
<1>1. CASE b.convs = <<>>
  BY <1>1, EmptyPuts DEF Start
<1>2. CASE b.convs # <<>>
  <2>1. 1 \in DOMAIN b.convs
    BY <1>2
  <2>. QED  BY <1>2, <2>1, EmptyPuts DEF Start
<1>. QED  BY <1>1, <1>2

(* An event is begun, or begun again, with an empty buffer.                *)
LEMMA StartInv ==
  ASSUME HInv, NEW b, b.convs \in Seq(Conversation), Start(b),
         UNCHANGED <<row, index, edited, raced>>
  PROVE  HInv'
<1>1. Types'
  BY StartTypes DEF HInv, Types, Steps
<1>2. Single' /\ Links' /\ AtRest'
  BY StartTypes DEF HInv, Single, Links, AtRest, Under
<1>3. Progress'
  <2>1. CASE pc' = "messages"
    <3>1. \A i \in 1 .. conv' : Done(i)' = {}
      BY <2>1, StartTypes DEF Done
    <3>. QED  BY <2>1, <3>1 DEF Progress
  <2>2. CASE pc' = "names"
    BY <2>2, StartTypes DEF Progress
  <2>. QED  BY <2>1, <2>2, StartTypes
<1>4. Edits'
  BY StartTypes DEF HInv, Edits
<1>. QED  BY <1>1, <1>2, <1>3, <1>4 DEF HInv

(* A step that leaves the records, the index and what is to be put alone.  *)
LEMMA SameInv ==
  ASSUME HInv, UNCHANGED <<row, index, edited, raced>>,
         buffer'.rows = buffer.rows, buffer'.index = buffer.index, Types', Progress',
         pc' # "idle", pc' \in {"messages", "names", "commit"} => pc \in {"messages", "names", "commit"}
  PROVE  HInv'
<1>1. Single' /\ Links' /\ AtRest'
  BY DEF HInv, Single, Links, AtRest, Under, ToPut
<1>2. Edits'
  BY DEF HInv, Edits
<1>. QED  BY <1>1, <1>2 DEF HInv

LEMMA InitInv == Init => HInv
<1>. SUFFICES ASSUME Init PROVE HInv
  OBVIOUS
<1>1. PICK k \in [Kept(Msgs) -> Keys \cup {"none"}], indexed \in SUBSET Kept(Msgs) :
        /\ row = [m \in Msgs |-> [j \in Keys |->
             IF m \in Kept(Msgs) /\ k[m] = j
               THEN [body |-> "original", receipt |-> IF m \in Own THEN 1 ELSE 3] ELSE NoRow]]
        /\ index = [m \in Msgs |-> IF m \in indexed THEN k[m] ELSE "none"]
  BY DEF Init
<1>2. \A m \in Msgs : \A j \in Keys :
        /\ row[m][j] \in Row \cup {NoRow}
        /\ Under(m, j) => k[m] = j
  BY <1>1 DEF Row, Under
<1>3. row \in [Msgs -> [Keys -> Row \cup {NoRow}]]
  BY <1>1, <1>2
<1>4. index \in [Msgs -> Keys \cup {"none"}]
  BY <1>1
<1>5. /\ pc = "idle" /\ batch.convs = <<>> /\ raced = FALSE /\ edited = {}
      /\ buffer \in Puts /\ buffer.rows = {} /\ buffer.index = {}
  BY DEF Init, NoBatch, Empty, Puts
<1>6. Types
  <2>1. <<>> \in Seq(Conversation)
    OBVIOUS
  <2>. QED  BY <1>3, <1>4, <1>5, <2>1 DEF Types, Steps
<1>7. Single
  BY <1>2, <1>5 DEF Single
<1>. QED  BY <1>5, <1>6, <1>7 DEF HInv, Links, Progress, Edits, AtRest
-----------------------------------------------------------------------------
(* Live events and the user's calls.                                       *)

(* An operation that writes to records that are there, and keeps edits.    *)
LEMMA RewriteInv ==
  ASSUME HInv, row' \in [Msgs -> [Keys -> Row \cup {NoRow}]],
         UNCHANGED <<index, loopVars>>, raced' = (raced \/ pc # "idle"), edited' \subseteq Msgs,
         \A m \in Msgs : \A k \in Keys : row'[m][k] # NoRow <=> row[m][k] # NoRow,
         ~raced /\ pc = "idle" => \A m \in edited' : \E k \in Keys : row'[m][k].body = "edited"
  PROVE  HInv'
<1>1. Types'
  BY DEF HInv, Types, loopVars, Puts
<1>2. \A m \in Msgs : \A k \in Keys : Under(m, k)' <=> Under(m, k)
  BY DEF Under
<1>3. buffer' = buffer /\ buffer \in Puts
  BY DEF HInv, Types, loopVars
<1>4. Single'
  BY <1>2, <1>3 DEF HInv, Single, Puts
<1>5. Links'
  BY <1>2, <1>3 DEF HInv, Links, ToPut, Puts
<1>6. \A m \in Msgs : Found(m)' <=> Found(m)
  BY DEF HInv, Types, Found
<1>7. Progress'
  <2>1. \A i \in DOMAIN batch.convs : Kept(batch.convs[i].msgs) \subseteq Msgs
    BY KeptIsSubset DEF HInv, Types
  <2>2. \A m \in Msgs : Secured(m)' <=> Secured(m)
    BY <1>3, <1>6 DEF Secured
  <2>3. pc = "messages" => \A i \in 1 .. conv : i \in DOMAIN batch.convs
    BY DEF HInv, Types
  <2>4. UNCHANGED <<pc, batch, conv, todo>> /\ \A i : Done(i)' = Done(i)
    BY DEF loopVars, Done
  <2>5. \A i \in DOMAIN batch.convs : Done(i) \subseteq Msgs
    BY <2>1 DEF Done
  <2>. QED  BY <1>6, <2>1, <2>2, <2>3, <2>4, <2>5 DEF HInv, Progress
<1>8. Edits' /\ AtRest'
  BY DEF HInv, Edits, AtRest, Types, loopVars
<1>. QED  BY <1>1, <1>4, <1>5, <1>7, <1>8 DEF HInv

LEMMA ReadInv == HInv /\ MarkAsRead => HInv'
<1>. SUFFICES ASSUME HInv, MarkAsRead PROVE HInv'
  OBVIOUS
<1>1. /\ UNCHANGED <<index, loopVars, edited>> /\ raced' = (raced \/ pc # "idle")
      /\ row' = [m \in Msgs |-> [k \in Keys |->
           IF m \in Incoming /\ row[m][k] # NoRow THEN [row[m][k] EXCEPT !.receipt = 3] ELSE row[m][k]]]
  BY DEF MarkAsRead, Call
<1>2. \A m \in Msgs : \A k \in Keys :
        /\ row'[m][k] \in Row \cup {NoRow}
        /\ row'[m][k] # NoRow <=> row[m][k] # NoRow
        /\ row'[m][k].body = row[m][k].body
  <2>. SUFFICES ASSUME NEW m \in Msgs, NEW k \in Keys
                PROVE  /\ row'[m][k] \in Row \cup {NoRow}
                       /\ row'[m][k] # NoRow <=> row[m][k] # NoRow
                       /\ row'[m][k].body = row[m][k].body
    OBVIOUS
  <2>1. row[m][k] \in Row \cup {NoRow}
    BY DEF HInv, Types
  <2>2. row'[m][k] = IF m \in Incoming /\ row[m][k] # NoRow
                       THEN [row[m][k] EXCEPT !.receipt = 3] ELSE row[m][k]
    BY <1>1
  <2>. QED  BY <2>1, <2>2 DEF Row, NoRow
<1>3. row' \in [Msgs -> [Keys -> Row \cup {NoRow}]]
  BY <1>1, <1>2
<1>4. ~raced /\ pc = "idle" => \A m \in edited' : \E k \in Keys : row'[m][k].body = "edited"
  <2>1. edited' = edited /\ edited \subseteq Msgs
    BY <1>1 DEF HInv, Types
  <2>. QED  BY <1>2, <2>1 DEF HInv, Edits
<1>. QED  BY <1>1, <1>2, <1>3, <1>4, RewriteInv DEF HInv, Types

LEMMA EditInv ==
  ASSUME HInv, NEW m \in Msgs, EditTextMessage(m)
  PROVE  HInv'
<1>1. /\ UNCHANGED <<index, loopVars>> /\ raced' = (raced \/ pc # "idle")
      /\ edited' = edited \cup {m}
      /\ row' = [row EXCEPT ![m][index[m]].body = "edited"]
      /\ index[m] \in Keys /\ row[m][index[m]] \in Row
  BY DEF EditTextMessage, Call, Found, HInv, Types
<1>. DEFINE at == index[m]
            new == [row[m][at] EXCEPT !.body = "edited"]
<1>2. new \in Row /\ new # NoRow /\ new.body = "edited"
  BY <1>1 DEF Row, NoRow
<1>3. row' = [row EXCEPT ![m] = [row[m] EXCEPT ![at] = new]]
  BY <1>1
<1>. HIDE DEF new, at
<1>4. row \in [Msgs -> [Keys -> Row \cup {NoRow}]]
  BY DEF HInv, Types
<1>5. row' \in [Msgs -> [Keys -> Row \cup {NoRow}]]
  BY <1>2, <1>3, <1>4
<1>6. row'[m][at] = new /\ at \in Keys /\ row[m][at] # NoRow
  BY <1>1, <1>3, <1>4 DEF at, Row, NoRow
<1>7. \A n \in Msgs : \A k \in Keys : n # m \/ k # at => row'[n][k] = row[n][k]
  BY <1>3, <1>4, <1>6
<1>8. \A n \in Msgs : \A k \in Keys : row'[n][k] # NoRow <=> row[n][k] # NoRow
  BY <1>2, <1>6, <1>7
<1>9. ~raced /\ pc = "idle" => \A n \in edited' : \E k \in Keys : row'[n][k].body = "edited"
  <2>. SUFFICES ASSUME ~raced, NEW n \in edited'
                PROVE  \E k \in Keys : row'[n][k].body = "edited"
    OBVIOUS
  <2>1. CASE n = m
    BY <2>1, <1>2, <1>6
  <2>2. CASE n # m
    <3>1. n \in edited /\ \E k \in Keys : row[n][k].body = "edited"
      BY <1>1, <2>2 DEF HInv, Edits
    <3>2. row'[n] = row[n]
      BY <1>3, <1>4, <2>2
    <3>. QED  BY <3>1, <3>2
  <2>. QED  BY <2>1, <2>2
<1>10. edited' \subseteq Msgs
  BY <1>1 DEF HInv, Types
<1>. QED  BY <1>1, <1>5, <1>8, <1>9, <1>10, RewriteInv

LEMMA NameInv ==
  ASSUME HInv, NEW kind, NEW time, NameEvent(kind, time)
  PROVE  HInv'
<1>1. UNCHANGED <<row, index, loopVars, edited, raced>> /\ pc = "idle"
  BY DEF NameEvent, histVars
<1>. QED  BY <1>1, RewriteInv DEF HInv, Types, Edits

LEMMA LiveInv ==
  ASSUME HInv, NEW m \in Msgs, LiveMessage(m)
  PROVE  HInv'
<1>. DEFINE new == [body |-> "original", receipt |-> IF m \in Own THEN 1 ELSE 0]
<1>1. /\ UNCHANGED <<loopVars, raced>> /\ pc = "idle" /\ row[m]["other"] = NoRow
      /\ row' = [row EXCEPT ![m]["exact"] = new]
      /\ index' = [index EXCEPT ![m] = "exact"] /\ edited' = edited \ {m}
  BY DEF LiveMessage
<1>2. new \in Row
  BY DEF Row
<1>. HIDE DEF new
<1>3. row \in [Msgs -> [Keys -> Row \cup {NoRow}]] /\ index \in [Msgs -> Keys \cup {"none"}]
  BY DEF HInv, Types
<1>4. /\ row' \in [Msgs -> [Keys -> Row \cup {NoRow}]]
      /\ index' \in [Msgs -> Keys \cup {"none"}]
  BY <1>1, <1>2, <1>3 DEF Keys
<1>5. /\ UNCHANGED <<pc, batch, conv, buffer>> /\ buffer.rows = {} /\ buffer.index = {}
      /\ buffer \in Puts
  BY <1>1 DEF HInv, AtRest, Types, loopVars
<1>6. Types'
  BY <1>1, <1>4, <1>5 DEF HInv, Types, Puts
<1>7. \A j, k \in Keys : Under(m, j)' /\ Under(m, k)' => j = k
  BY <1>1, <1>3 DEF Under, Keys
<1>8. \A n \in Msgs \ {m} : row'[n] = row[n]
  BY <1>1, <1>3
<1>9. Single'
  BY <1>5, <1>7, <1>8 DEF HInv, Single, Under
<1>10. Links' /\ AtRest' /\ Progress'
  BY <1>1, <1>5 DEF Links, AtRest, Progress
<1>11. Edits'
  <2>1. ~raced => \A n \in edited' : \E k \in Keys : row'[n][k].body = "edited"
    <3>. SUFFICES ASSUME ~raced, NEW n \in edited'
                  PROVE  \E k \in Keys : row'[n][k].body = "edited"
      OBVIOUS
    <3>1. n # m /\ \E k \in Keys : row[n][k].body = "edited"
      BY <1>1 DEF HInv, Edits
    <3>2. row'[n] = row[n]
      BY <1>1, <1>3, <3>1
    <3>. QED  BY <3>1, <3>2
  <2>. QED  BY <1>1, <1>5, <2>1 DEF Edits
<1>. QED  BY <1>6, <1>9, <1>10, <1>11 DEF HInv

-----------------------------------------------------------------------------
(* The handler.                                                            *)

LEMMA BeginInv ==
  ASSUME HInv, NEW b \in Batches, Begin(b)
  PROVE  HInv'
BY StartInv, BatchesAssumption DEF Begin, kvVars

LEMMA CrashInv == HInv /\ Crash => HInv'
BY StartInv DEF HInv, Types, Crash, kvVars, histVars

(* Where a message's record is, and what the handler makes of it.          *)
LEMMA LocateIsRight ==
  ASSUME HInv, NEW m \in Msgs
  PROVE  /\ Locate(m) \in Keys \cup {"none"}
         /\ \A k \in Keys : Under(m, k) <=> Locate(m) = k
         /\ Found(m) => Locate(m) # "none"
<1>1. index[m] \in Keys \cup {"none"} /\ \A j, k \in Keys : Under(m, j) /\ Under(m, k) => j = k
  BY DEF HInv, Types, Single
<1>2. CASE Found(m)
  BY <1>1, <1>2 DEF Found, Locate, Under
<1>3. CASE ~Found(m)
  BY <1>1, <1>3 DEF Locate, Under, Keys
<1>. QED  BY <1>2, <1>3

LEMMA MergedIsRow ==
  ASSUME NEW r \in Row, NEW receipt \in 0 .. 3
  PROVE  Merged(r, receipt) \in Row /\ Merged(r, receipt).body = r.body
BY DEF Merged, Row

LEMMA ReceiptRange ==
  ASSUME NEW c \in Conversation, NEW m
  PROVE  HistoryReceipt(c, m) \in 0 .. 3
<1>1. c.status \in {1, 3}
  BY DEF Conversation, Statuses
<1>. QED  BY <1>1 DEF HistoryReceipt

LEMMA ProcessMessageInv ==
  ASSUME HInv, NEW m \in Msgs, ProcessMessage(m)
  PROVE  HInv'
<1>. DEFINE at == Locate(m)
            receipt == HistoryReceipt(Conv, m)
            key == IF at = "none" THEN "exact" ELSE at
            new == IF at = "none" THEN [body |-> "original", receipt |-> receipt]
                                  ELSE Merged(row[m][at], receipt)
            rows == IF new = row[m][key] THEN {} ELSE { <<m, key, new>> }
            links == IF Found(m) THEN {}
                     ELSE { <<m, key>> } \cup
                          IF row[m]["exact"] # NoRow THEN {}
                          ELSE { l \in Msgs \X Keys : row[l[1]][l[2]] # NoRow }
<1>1. /\ pc = "messages" /\ m \in todo /\ todo' = todo \ {m}
      /\ UNCHANGED <<row, pc, batch, conv, edited, raced>>
      /\ buffer' = [buffer EXCEPT
           !.rows = {r \in @ : r[1] # m \/ rows = {}} \cup rows,
           !.index = {l \in @ : l[1] \notin {k[1] : k \in links}} \cup links]
      /\ index' = IF Found(m) \/ index[m] = "none" THEN index ELSE [index EXCEPT ![m] = "none"]
  BY DEF ProcessMessage, histVars
<1>2. /\ at \in Keys \cup {"none"} /\ \A k \in Keys : Under(m, k) <=> at = k
      /\ Found(m) => at # "none"
  BY LocateIsRight
<1>3. receipt \in 0 .. 3
  <2>1. Conv \in Conversation
    BY <1>1 DEF HInv, Types, Conv
  <2>. QED  BY <2>1, ReceiptRange
<1>4. /\ new \in Row
      /\ \A k \in Keys : row[m][k].body = "edited" => new.body = "edited" /\ at = k
  <2>. \A k \in Keys : row[m][k] \in Row \cup {NoRow}
    BY DEF HInv, Types
  <2>1. \A k \in Keys : row[m][k].body = "edited" => Under(m, k)
    BY DEF Under, NoRow
  <2>2. CASE at = "none"
    BY <1>2, <1>3, <2>1, <2>2 DEF Row, Keys
  <2>3. CASE at # "none"
    <3>1. at \in Keys /\ row[m][at] \in Row
      BY <1>2, <2>3 DEF Under
    <3>. QED  BY <1>2, <1>3, <2>1, <2>3, <3>1, MergedIsRow
  <2>. QED  BY <2>2, <2>3
<1>5. key \in Keys /\ (Under(m, key) <=> at # "none")
  BY <1>2 DEF Keys
<1>6. new # NoRow
  BY <1>4 DEF Row, NoRow
<1>7. rows \subseteq { <<m, key, new>> } /\ (~Under(m, key) => rows = { <<m, key, new>> })
  BY <1>6 DEF Under
<1>8. /\ links \subseteq Msgs \X Keys /\ (Found(m) => links = {}) /\ (~Found(m) => <<m, key>> \in links)
      /\ \A l \in links : l = <<m, key>> \/ Under(l[1], l[2])
  BY <1>5 DEF Under
<1>. HIDE DEF at, receipt, key, new, rows, links
<1>9. /\ buffer \in Puts /\ buffer.rows \subseteq Msgs \X Keys \X Row
      /\ buffer.index \subseteq Msgs \X Keys
  BY DEF HInv, Types, Puts
<1>10. /\ buffer'.rows = {r \in buffer.rows : r[1] # m \/ rows = {}} \cup rows
       /\ buffer'.index = {l \in buffer.index : l[1] \notin {k[1] : k \in links}} \cup links
  BY <1>1, <1>9 DEF Puts
<1>11. Types'
  <2>1. index' \in [Msgs -> Keys \cup {"none"}]
    BY <1>1 DEF HInv, Types
  <2>2. rows \subseteq Msgs \X Keys \X Row
    BY <1>4, <1>5, <1>7
  <2>3. buffer' \in Puts'
    BY <1>1, <1>8, <1>9, <1>10, <2>2 DEF Puts
  <2>. QED  BY <1>1, <2>1, <2>3 DEF HInv, Types
<1>12. \A r \in buffer'.rows : r = <<m, key, new>> \/ (r \in buffer.rows /\ (r[1] # m \/ rows = {}))
  BY <1>7, <1>10
<1>13. Single'
  <2>1. \A k \in Keys : Under(m, k) => k = key
    BY <1>2 DEF key, Keys
  <2>2. \A r \in buffer'.rows : \A k \in Keys : Under(r[1], k) => k = r[2]
    BY <1>12, <2>1 DEF HInv, Single
  <2>3. ASSUME NEW r \in buffer'.rows, NEW s \in buffer'.rows, r[1] = s[1]
        PROVE  r[2] = s[2]
    <3>1. CASE rows = {}
      BY <1>10, <2>3, <3>1 DEF HInv, Single
    <3>2. CASE rows # {}
      BY <1>12, <2>3, <3>2 DEF HInv, Single
    <3>. QED  BY <3>1, <3>2
  <2>. QED  BY <1>1, <2>2, <2>3 DEF HInv, Single, Under
<1>14. Under(m, key) \/ \E r \in buffer'.rows : r[1] = m /\ r[2] = key
  <2>. SUFFICES ASSUME ~Under(m, key)
                PROVE  \E r \in buffer'.rows : r[1] = m /\ r[2] = key
    OBVIOUS
  <2>1. <<m, key, new>> \in buffer'.rows
    BY <1>7, <1>10
  <2>2. <<m, key, new>>[1] = m /\ <<m, key, new>>[2] = key
    OBVIOUS
  <2>. QED  BY <2>1, <2>2
<1>15. Links'
  <2>. SUFFICES ASSUME NEW l \in buffer'.index
                PROVE  Under(l[1], l[2]) \/ ToPut(l[1], l[2])'
    BY <1>1 DEF Links, Under
  <2>1. CASE l \in links
    BY <1>8, <1>14, <2>1 DEF ToPut
  <2>2. CASE l \in buffer.index /\ ToPut(l[1], l[2])
    <3>1. PICK r \in buffer.rows : r[1] = l[1] /\ r[2] = l[2]
      BY <2>2 DEF ToPut
    <3>2. CASE r \in buffer'.rows
      BY <3>1, <3>2 DEF ToPut
    <3>3. CASE r \notin buffer'.rows
      <4>1. r[1] = m
        BY <1>10, <3>3
      <4>2. CASE Under(m, key)
        BY <1>5, <3>1, <4>1, <4>2 DEF HInv, Single
      <4>3. CASE ~Under(m, key)
        <5>1. ~Found(m)
          BY <1>2, <1>5, <4>3
        <5>2. l[1] \in {k[1] : k \in links}
          BY <1>8, <3>1, <4>1, <5>1
        <5>3. l \in links
          BY <1>10, <5>2
        <5>. QED  BY <2>1, <5>3
      <4>. QED  BY <4>2, <4>3
    <3>. QED  BY <3>2, <3>3
  <2>. QED  BY <1>10, <2>1, <2>2 DEF HInv, Links
<1>16. Progress'
  <2>1. \A n \in Msgs : Found(n) => Found(n)'
    BY <1>1 DEF HInv, Types, Found
  <2>2. \A n \in Msgs : Secured(n) => Secured(n)'
    <3>. SUFFICES ASSUME NEW n \in Msgs, NEW l \in buffer.index, l[1] = n
                  PROVE  \E k \in buffer'.index : k[1] = n
      BY <2>1 DEF Secured
    <3>. QED  BY <1>10
  <2>3. Secured(m)'
    BY <1>8, <1>10, <2>1 DEF Secured
  <2>4. \A i \in 1 .. conv : \A n \in Done(i)' : n = m \/ n \in Done(i)
    BY <1>1 DEF Done
  <2>5. \A i \in 1 .. conv : i \in DOMAIN batch.convs /\ Done(i) \subseteq Msgs
    BY <1>1, KeptIsSubset DEF HInv, Types, Done
  <2>. QED  BY <1>1, <2>2, <2>3, <2>4, <2>5 DEF HInv, Progress
<1>17. Edits'
  <2>. SUFFICES ASSUME ~raced
                PROVE  \A r \in buffer'.rows : row[r[1]][r[2]].body = "edited" => r[3].body = "edited"
    BY <1>1 DEF HInv, Edits
  <2>. QED  BY <1>1, <1>4, <1>5, <1>12 DEF HInv, Edits
<1>. QED  BY <1>1, <1>11, <1>13, <1>15, <1>16, <1>17 DEF HInv, AtRest

LEMMA ProcessConversationInv == HInv /\ ProcessConversation => HInv'
<1>. SUFFICES ASSUME HInv, ProcessConversation PROVE HInv'
  OBVIOUS
<1>1. /\ UNCHANGED <<row, index, batch, edited, raced>> /\ pc = "messages" /\ todo = {}
      /\ buffer' = buffer \/ \E c : buffer' = [buffer EXCEPT !.chat = c]
      /\ \/ /\ conv < Len(batch.convs) /\ conv' = conv + 1 /\ pc' = "messages"
            /\ todo' = Kept(batch.convs[conv + 1].msgs)
         \/ /\ ~(conv < Len(batch.convs)) /\ pc' = "names" /\ UNCHANGED <<conv, todo>>
  BY DEF ProcessConversation, kvVars, histVars
<1>2. buffer' \in Puts' /\ buffer'.rows = buffer.rows /\ buffer'.index = buffer.index
  BY <1>1 DEF HInv, Types, Puts
<1>3. conv \in 1 .. Len(batch.convs) /\ Len(batch.convs) \in Nat
      /\ DOMAIN batch.convs = 1 .. Len(batch.convs)
  BY <1>1 DEF HInv, Types
<1>4. Types'
  BY <1>1, <1>2, <1>3 DEF HInv, Types, Steps
<1>5. \A i \in 1 .. conv : \A m \in Kept(batch.convs[i].msgs) : Secured(m)'
  BY <1>1, <1>2 DEF HInv, Progress, Done, Secured, Found
<1>6. Progress'
  <2>1. CASE pc' = "messages"
    <3>1. \A i \in 1 .. conv' : \A m \in Done(i)' : i \in 1 .. conv /\ m \in Kept(batch.convs[i].msgs)
      BY <1>1, <1>3, <2>1 DEF Done
    <3>. QED  BY <1>5, <2>1, <3>1 DEF Progress
  <2>2. CASE pc' = "names"
    <3>1. conv = Len(batch.convs)
      BY <1>1, <1>3, <2>2
    <3>. QED  BY <1>1, <1>3, <1>5, <2>2, <3>1 DEF Progress
  <2>. QED  BY <1>1, <2>1, <2>2
<1>. QED  BY <1>1, <1>2, <1>4, <1>6, SameInv

LEMMA ProcessPushNameInv == HInv /\ ProcessPushName => HInv'
<1>. SUFFICES ASSUME HInv, ProcessPushName PROVE HInv'
  OBVIOUS
<1>1. /\ UNCHANGED <<row, index, batch, conv, todo, edited, raced>> /\ pc = "names" /\ pc' = "commit"
      /\ buffer' = buffer \/ \E c : buffer' = [buffer EXCEPT !.chat = c]
  BY DEF ProcessPushName, kvVars, histVars
<1>2. buffer' \in Puts' /\ buffer'.rows = buffer.rows /\ buffer'.index = buffer.index
  BY <1>1 DEF HInv, Types, Puts
<1>3. Types'
  BY <1>1, <1>2 DEF HInv, Types, Steps
<1>4. Progress'
  BY <1>1, <1>2 DEF HInv, Progress, Secured, Found
<1>. QED  BY <1>1, <1>2, <1>3, <1>4, SameInv

(* What the commit makes of a record.                                      *)
LEMMA CommitRow ==
  ASSUME HInv, CommitCached, NEW m \in Msgs, NEW k \in Keys
  PROVE  \/ ~ToPut(m, k) /\ row'[m][k] = row[m][k]
         \/ \E r \in buffer.rows : r[1] = m /\ r[2] = k /\ row'[m][k] = r[3] /\ r[3] \in Row
<1>. DEFINE put(n, j) == {r \in buffer.rows : r[1] = n /\ r[2] = j}
<1>1. row'[m][k] = IF put(m, k) = {} THEN row[m][k] ELSE (CHOOSE r \in put(m, k) : TRUE)[3]
  BY DEF CommitCached
<1>2. buffer.rows \subseteq Msgs \X Keys \X Row
  BY DEF HInv, Types, Puts
<1>3. CASE put(m, k) = {}
  BY <1>1, <1>3 DEF ToPut
<1>4. CASE put(m, k) # {}
  <2>1. (CHOOSE r \in put(m, k) : TRUE) \in put(m, k)
    BY <1>4
  <2>. QED  BY <1>1, <1>2, <1>4, <2>1
<1>. QED  BY <1>3, <1>4

(* The commit makes of what will be what is.                               *)
LEMMA CommitInv == HInv /\ CommitCached => HInv'
<1>. SUFFICES ASSUME HInv, CommitCached PROVE HInv'
  OBVIOUS
<1>. DEFINE put(m, k) == {r \in buffer.rows : r[1] = m /\ r[2] = k}
            link(m) == {l \in buffer.index : l[1] = m}
<1>1. /\ pc = "commit" /\ pc' = "sum"
      /\ row' = [m \in Msgs |-> [k \in Keys |->
           IF put(m, k) = {} THEN row[m][k] ELSE (CHOOSE r \in put(m, k) : TRUE)[3]]]
      /\ index' = [m \in Msgs |-> IF link(m) = {} THEN index[m] ELSE (CHOOSE l \in link(m) : TRUE)[2]]
      /\ UNCHANGED <<batch, conv, todo, buffer, edited, raced>>
  BY DEF CommitCached, histVars
<1>2. /\ buffer.rows \subseteq Msgs \X Keys \X Row /\ buffer.index \subseteq Msgs \X Keys
      /\ row \in [Msgs -> [Keys -> Row \cup {NoRow}]] /\ index \in [Msgs -> Keys \cup {"none"}]
  BY DEF HInv, Types, Puts
<1>3. \A m \in Msgs : \A k \in Keys :
        \/ ~ToPut(m, k) /\ row'[m][k] = row[m][k]
        \/ \E r \in buffer.rows : r[1] = m /\ r[2] = k /\ row'[m][k] = r[3] /\ r[3] \in Row
  BY CommitRow
<1>4. \A m \in Msgs :
        \/ index'[m] = index[m] /\ \A l \in buffer.index : l[1] # m
        \/ \E l \in buffer.index : l[1] = m /\ index'[m] = l[2] /\ l[2] \in Keys
  <2>. SUFFICES ASSUME NEW m \in Msgs
                PROVE  \/ index'[m] = index[m] /\ \A l \in buffer.index : l[1] # m
                       \/ \E l \in buffer.index : l[1] = m /\ index'[m] = l[2] /\ l[2] \in Keys
    OBVIOUS
  <2>1. index'[m] = IF link(m) = {} THEN index[m] ELSE (CHOOSE l \in link(m) : TRUE)[2]
    BY <1>1
  <2>2. CASE link(m) = {}
    BY <2>1, <2>2
  <2>3. CASE link(m) # {}
    <3>1. (CHOOSE l \in link(m) : TRUE) \in link(m)
      BY <2>3
    <3>. QED  BY <1>2, <2>1, <2>3, <3>1
  <2>. QED  BY <2>2, <2>3
<1>5. row' = [m \in Msgs |-> [k \in Keys |-> row'[m][k]]]
  BY <1>1
<1>6. DOMAIN index' = Msgs /\ index' = [m \in Msgs |-> index'[m]]
  BY <1>1
<1>. HIDE DEF put, link
<1>7. row' \in [Msgs -> [Keys -> Row \cup {NoRow}]]
  <2>1. \A m \in Msgs : \A k \in Keys : row'[m][k] \in Row \cup {NoRow}
    BY <1>2, <1>3
  <2>. QED  BY <1>5, <2>1
<1>8. index' \in [Msgs -> Keys \cup {"none"}]
  BY <1>2, <1>4, <1>6
<1>9. Types'
  BY <1>1, <1>7, <1>8 DEF HInv, Types, Steps, Puts
<1>10. \A r \in Row : r # NoRow
  BY DEF Row, NoRow
<1>11. \A m \in Msgs : \A k \in Keys : Under(m, k)' <=> Under(m, k) \/ ToPut(m, k)
  BY <1>2, <1>3, <1>10 DEF Under, ToPut
<1>12. Single'
  <2>1. \A m \in Msgs : \A j, k \in Keys : Under(m, j)' /\ Under(m, k)' => j = k
    BY <1>2, <1>11 DEF HInv, Single, ToPut
  <2>2. \A r \in buffer.rows : \A k \in Keys : Under(r[1], k)' => k = r[2]
    BY <1>2, <1>11 DEF HInv, Single, ToPut
  <2>. QED  BY <1>1, <2>1, <2>2 DEF HInv, Single
<1>13. Links'
  BY <1>1, <1>2, <1>11 DEF HInv, Links, ToPut
<1>14. \A m \in Msgs : Secured(m) => Found(m)'
  <2>. SUFFICES ASSUME NEW m \in Msgs, Secured(m)
                PROVE  Found(m)'
    OBVIOUS
  <2>1. CASE index'[m] = index[m] /\ \A l \in buffer.index : l[1] # m
    <3>1. index[m] \in Keys /\ Under(m, index[m])
      BY <1>2, <2>1 DEF Secured, Found, Under
    <3>. QED  BY <1>11, <2>1, <3>1 DEF Found, Under, Keys
  <2>2. CASE \E l \in buffer.index : l[1] = m /\ index'[m] = l[2] /\ l[2] \in Keys
    <3>1. index'[m] \in Keys /\ (Under(m, index'[m]) \/ ToPut(m, index'[m]))
      BY <2>2 DEF HInv, Links
    <3>2. row'[m][index'[m]] # NoRow
      BY <1>11, <3>1 DEF Under
    <3>. QED  BY <3>1, <3>2 DEF Found, Keys
  <2>. QED  BY <1>4, <2>1, <2>2
<1>15. Progress'
  <2>1. \A i \in DOMAIN batch.convs : \A m \in Kept(batch.convs[i].msgs) : m \in Msgs /\ Secured(m)
    BY <1>1, KeptIsSubset DEF HInv, Types, Progress
  <2>. QED  BY <1>1, <1>14, <2>1 DEF Progress
<1>16. Edits'
  <2>1. ASSUME ~raced, NEW m \in edited
        PROVE  \E k \in Keys : row'[m][k].body = "edited"
    <3>1. m \in Msgs
      BY DEF HInv, Types
    <3>2. PICK k \in Keys : row[m][k].body = "edited"
      BY <2>1 DEF HInv, Edits
    <3>3. \A r \in buffer.rows : r[1] = m /\ r[2] = k => r[3].body = "edited"
      BY <1>1, <2>1, <3>2 DEF HInv, Edits
    <3>. QED  BY <1>3, <3>1, <3>2, <3>3
  <2>. QED  BY <1>1, <2>1 DEF Edits
<1>. QED  BY <1>1, <1>9, <1>12, <1>13, <1>15, <1>16 DEF HInv, AtRest

LEMMA SumInv == HInv /\ SumUnread => HInv'
<1>. SUFFICES ASSUME HInv, SumUnread PROVE HInv'
  OBVIOUS
<1>1. UNCHANGED <<row, index, batch, conv, todo, buffer, edited, raced>> /\ pc = "sum" /\ pc' = "total"
  BY DEF SumUnread, kvVars, histVars
<1>2. Types'
  BY <1>1 DEF HInv, Types, Steps, Puts
<1>3. Progress'
  BY <1>1 DEF HInv, Progress, Found
<1>. QED  BY <1>1, <1>2, <1>3, SameInv

LEMMA PutTotalInv == HInv /\ PutTotal => HInv'
<1>. SUFFICES ASSUME HInv, PutTotal PROVE HInv'
  OBVIOUS
<1>1. /\ UNCHANGED <<row, index, edited, raced>> /\ pc' = "idle" /\ batch'.convs = <<>>
      /\ (buffer \in Puts /\ buffer.rows = {} /\ buffer.index = {})'
  BY EmptyPuts DEF PutTotal, End, NoBatch, histVars
<1>2. <<>> \in Seq(Conversation)
  OBVIOUS
<1>3. Types'
  BY <1>1, <1>2 DEF HInv, Types, Steps
<1>4. Single'
  BY <1>1 DEF HInv, Single, Under
<1>. QED  BY <1>1, <1>3, <1>4 DEF HInv, Links, Progress, Edits, AtRest

-----------------------------------------------------------------------------
(* The theorems.                                                           *)

(* Every step of the handler, of live events, of the user's calls and every*)
(* crash keeps the invariant above, which the two theorems rest on.        *)
THEOREM Invariant == Spec => []HInv
<1>1. HInv /\ [Next]_vars => HInv'
  <2>. SUFFICES ASSUME HInv, [Next]_vars PROVE HInv'
    OBVIOUS
  <2>1. CASE \E m \in Msgs : LiveMessage(m) \/ EditTextMessage(m) \/ ProcessMessage(m)
    BY <2>1, LiveInv, EditInv, ProcessMessageInv
  <2>2. CASE \E kind \in {"contact", "push"}, time \in Msgs : NameEvent(kind, time)
    BY <2>2, NameInv
  <2>3. CASE \E b \in Batches : Begin(b)
    BY <2>3, BeginInv
  <2>4. CASE ProcessConversation \/ ProcessPushName \/ CommitCached \/ SumUnread \/ PutTotal
    BY <2>4, ProcessConversationInv, ProcessPushNameInv, CommitInv, SumInv, PutTotalInv
  <2>5. CASE MarkAsRead \/ Crash
    BY <2>5, ReadInv, CrashInv
  <2>6. CASE UNCHANGED vars
    <3>1. UNCHANGED <<row, index, pc, batch, conv, todo, buffer, edited, raced>>
      BY <2>6 DEF vars, kvVars, loopVars, histVars
    <3>. QED  BY <3>1 DEF HInv, Types, Single, Links, Progress, Edits, AtRest, Puts, Under, ToPut,
                          Secured, Found, Done
  <2>. QED  BY <2>1, <2>2, <2>3, <2>4, <2>5, <2>6 DEF Next, Handler
<1>. QED  BY InitInv, <1>1, PTL DEF Spec

(* However a message came to be stored, by which version and under which   *)
(* key, it has one record; and once a history event that lists it is       *)
(* through, the index leads to it.  handle_history_sync looks a message up *)
(* in kv.db, where what it has buffered itself is not to be seen.          *)
THEOREM OneRecordEach == Spec => []OneRecord
<1>1. HInv => OneRecord
  <2>. SUFFICES ASSUME HInv PROVE OneRecord
    OBVIOUS
  <2>1. ASSUME NEW m \in Msgs
        PROVE  Cardinality({k \in Keys : row[m][k] # NoRow}) <= 1
    <3>. DEFINE S == {k \in Keys : row[m][k] # NoRow}
    <3>1. CASE S = {}
      <4>1. Cardinality({}) = 0
        BY FS_EmptySet
      <4>. QED  BY <3>1, <4>1
    <3>2. CASE S # {}
      <4>1. PICK k \in S : S = {k}
        BY <3>2 DEF HInv, Single, Under
      <4>2. Cardinality({k}) = 1
        BY FS_Singleton
      <4>. QED  BY <4>1, <4>2
    <3>. QED  BY <3>1, <3>2
  <2>. QED  BY <2>1 DEF HInv, Progress, OneRecord
<1>. QED  BY <1>1, Invariant, PTL

(* handle_history_sync puts back the records it has read, with their       *)
(* bodies: an edit the user made before the event, or between two, stays.  *)
THEOREM NoEditLost == Spec => []EditsKept
<1>1. HInv => EditsKept
  BY DEF HInv, Edits, EditsKept
<1>. QED  BY <1>1, Invariant, PTL

-----------------------------------------------------------------------------
(* The greatest and the least of a set.                                    *)

(* Of the subsets of a finite set that have some property, one has no      *)
(* other within it.                                                        *)
LEMMA MinimalSubset ==
  ASSUME NEW S, IsFiniteSet(S), NEW F, F \subseteq SUBSET S, F # {}
  PROVE  \E T \in F : \A U \in F : U \subseteq T => U = T
<1>1. IsWellFoundedOn(StrictSubsetOrdering(S), SUBSET S)
  BY FS_StrictSubsetOrderingWellFounded, FS_FiniteSubsetsOfFinite
<1>2. \E T \in F : \A U \in F : <<U, T>> \notin StrictSubsetOrdering(S)
  BY <1>1, WFMin
<1>. QED  BY <1>2 DEF StrictSubsetOrdering

LEMMA GreatestExists ==
  ASSUME NEW S, IsFiniteSet(S)
  PROVE  S # {} /\ S \subseteq Nat => \E x \in S : \A y \in S : y <= x
<1>. DEFINE F == {T \in SUBSET S : T # {} /\ T \subseteq Nat /\ ~ \E x \in T : \A y \in T : y <= x}
<1>. SUFFICES ASSUME F # {} PROVE FALSE
  OBVIOUS
<1>0. F \subseteq SUBSET S
  OBVIOUS
<1>. HIDE DEF F
<1>1. PICK T \in F : \A U \in F : U \subseteq T => U = T
  BY <1>0, MinimalSubset
<1>. USE DEF F
<1>2. T \subseteq Nat /\ T # {} /\ ~ \E x \in T : \A y \in T : y <= x
  BY <1>1
<1>3. PICK x \in T : TRUE
  BY <1>2
<1>4. PICK y \in T : ~(y <= x)
  BY <1>2, <1>3
<1>5. T \ {x} \notin F /\ T \ {x} \subseteq S
  BY <1>1, <1>3
<1>6. y \in T \ {x}
  BY <1>2, <1>3, <1>4
<1>7. \E z \in T \ {x} : \A w \in T \ {x} : w <= z
  BY <1>2, <1>5, <1>6
<1>8. PICK z \in T \ {x} : \A w \in T \ {x} : w <= z
  BY <1>7
<1>9. \A w \in T : w <= z
  BY <1>2, <1>3, <1>4, <1>6, <1>8
<1>. QED  BY <1>2, <1>8, <1>9

LEMMA LeastExists ==
  ASSUME NEW S, IsFiniteSet(S)
  PROVE  S # {} /\ S \subseteq Nat => \E x \in S : \A y \in S : x <= y
<1>. DEFINE F == {T \in SUBSET S : T # {} /\ T \subseteq Nat /\ ~ \E x \in T : \A y \in T : x <= y}
<1>. SUFFICES ASSUME F # {} PROVE FALSE
  OBVIOUS
<1>0. F \subseteq SUBSET S
  OBVIOUS
<1>. HIDE DEF F
<1>1. PICK T \in F : \A U \in F : U \subseteq T => U = T
  BY <1>0, MinimalSubset
<1>. USE DEF F
<1>2. T \subseteq Nat /\ T # {} /\ ~ \E x \in T : \A y \in T : x <= y
  BY <1>1
<1>3. PICK x \in T : TRUE
  BY <1>2
<1>4. PICK y \in T : ~(x <= y)
  BY <1>2, <1>3
<1>5. T \ {x} \notin F /\ T \ {x} \subseteq S
  BY <1>1, <1>3
<1>6. y \in T \ {x}
  BY <1>2, <1>3, <1>4
<1>7. \E z \in T \ {x} : \A w \in T \ {x} : z <= w
  BY <1>2, <1>5, <1>6
<1>8. PICK z \in T \ {x} : \A w \in T \ {x} : z <= w
  BY <1>7
<1>9. \A w \in T : z <= w
  BY <1>2, <1>3, <1>4, <1>6, <1>8
<1>. QED  BY <1>2, <1>8, <1>9

LEMMA MaxFound ==
  ASSUME NEW S, IsFiniteSet(S), S # {}, S \subseteq Nat
  PROVE  Max(S) \in S /\ \A y \in S : y <= Max(S)
<1>1. \E x \in S : \A y \in S : x >= y
  <2>1. PICK x \in S : \A y \in S : y <= x
    BY GreatestExists
  <2>. QED  BY <2>1
<1>2. Max(S) \in S /\ \A y \in S : Max(S) >= y
  BY <1>1 DEF Max
<1>. QED  BY <1>2

LEMMA MinFound ==
  ASSUME NEW S, IsFiniteSet(S), S # {}, S \subseteq Nat
  PROVE  Min(S) \in S
<1>1. \E x \in S : \A y \in S : x =< y
  BY LeastExists
<1>. QED  BY <1>1 DEF Min

(* n is the newest of the messages, 0 if there are none.                   *)
Newest(n, S) == n \in S \cup {0} /\ \A m \in S : m <= n

LEMMA NewestIsMax ==
  ASSUME NEW S \in SUBSET Msgs, NEW n, Newest(n, S)
  PROVE  n = Max({0} \cup S)
<1>. DEFINE T == {0} \cup S
<1>1. T # {} /\ T \subseteq Nat /\ n \in T
  BY MsgsAssumption DEF Newest
<1>1a. IsFiniteSet(T)
  <2>1. IsFiniteSet(S)
    BY MsgsAssumption, FS_Subset
  <2>. QED  BY <2>1, FS_AddElement
<1>2. \A y \in T : y <= n
  BY <1>1, MsgsAssumption DEF Newest
<1>. HIDE DEF T
<1>3. Max(T) \in T /\ \A y \in T : y <= Max(T)
  BY <1>1, <1>1a, MaxFound
<1>4. n <= Max(T) /\ Max(T) <= n /\ n \in Nat /\ Max(T) \in Nat
  BY <1>1, <1>2, <1>3
<1>5. n = Max(T)
  BY <1>4
<1>. QED  BY <1>5 DEF T

-----------------------------------------------------------------------------
(* The chat and the total: the invariant.                                  *)

ChatTypes ==
  /\ chat \in Chat \cup {NoChat} /\ buffer.chat \in Chat \cup {NoChat}
  /\ total \in Nat /\ sum \in Nat
  /\ todo \subseteq Kept(Msgs) /\ edited \subseteq Own
  /\ pc = "messages" => todo \subseteq Kept(Conv.msgs)
  /\ batch.push \in BOOLEAN /\ twice \in BOOLEAN /\ batch \in Batches \cup {NoBatch}

(* The chat, the messages stored and the ones unread once the buffer is    *)
(* committed.                                                              *)
Handling == pc \in {"names", "commit"}
NextChat == IF buffer.chat = NoChat THEN chat ELSE buffer.chat
ToStore == {r[1] : r \in buffer.rows}
UnreadNow(m) == m \in Incoming /\ \E k \in Keys : row[m][k] # NoRow /\ row[m][k].receipt = 0
ToBeUnread(m) ==
  /\ m \in Incoming
  /\ \A r \in buffer.rows : r[1] = m => r[3].receipt = 0
  /\ UnreadNow(m) \/ m \in ToStore

(* Until an event mentions the chat twice, the one handled mentions it     *)
(* once, and has put nothing before its conversation is gone through but   *)
(* the messages of it that have been.                                      *)
Lone ==
  ~twice =>
    /\ Mentions(batch) <= 1
    /\ pc = "messages" =>
         buffer.chat = NoChat /\ \A r \in buffer.rows : r[1] \in Kept(Conv.msgs) \ todo
    /\ pc = "names" /\ batch.convs = <<>> => buffer.chat = NoChat /\ buffer.rows = {}

(* The chat shows the newest message stored, and will; or it was dated by a*)
(* conversation without messages, and none that is newer has come.         *)
Previews(c, S) ==
  \/ c.shown = c.last /\ Newest(c.last, S)
  \/ c.shown = 0 /\ c.last \in Dates /\ \A m \in S : m <= c.last
ShowsNewest(c, S) ==
  /\ S \subseteq Kept(Msgs)
  /\ IF c = NoChat THEN S = {} ELSE Previews(c, S)
Shown ==
  ~twice =>
    /\ ShowsNewest(chat, Stored)
    /\ Handling => ShowsNewest(NextChat, Stored \cup ToStore)

(* The divider stands above a message that is unread, and will.            *)
Divided ==
  ~twice /\ ~raced =>
    /\ chat # NoChat /\ chat.divider # 0 => chat.unread > 0 /\ UnreadNow(chat.divider)
    /\ pc = "messages" => \A m \in Unread(Conv) \ todo : ToBeUnread(m)
    /\ Handling /\ NextChat # NoChat /\ NextChat.divider # 0 =>
         NextChat.unread > 0 /\ ToBeUnread(NextChat.divider)

(* The total is the chat's count, and will be.                             *)
Count(c) == IF c = NoChat THEN 0 ELSE c.unread
Totalled == ~raced => /\ pc = "idle" => total = Count(chat)
                      /\ pc = "total" => sum = Count(chat)

ChatInv == ChatTypes /\ Lone /\ Divided /\ Totalled

(* Every message the application keeps has a preview: an extended text has *)
(* its words.                                                              *)
AllPreviewed == \A m \in Kept(Msgs) : HistoryPreview(ContentOf[m]) # ""

-----------------------------------------------------------------------------
(* Lemmas on chats.                                                        *)

LEMMA NoChatIsNone == NoChat \notin Chat
<1>1. \A c \in Chat : c.name # "none"
  BY DEF Chat
<1>2. NoChat.name = "none"
  BY DEF NoChat
<1>. QED  BY <1>1, <1>2

LEMMA FirstFound ==
  ASSUME NEW tests, NEW otherwise, DOMAIN tests \subseteq Nat, IsFiniteSet(DOMAIN tests)
  PROVE  \/ FirstOf(tests, otherwise) = otherwise /\ \A i \in DOMAIN tests : ~tests[i][1]
         \/ \E i \in DOMAIN tests : tests[i][1] /\ FirstOf(tests, otherwise) = tests[i][2]
<1>. DEFINE hits == {i \in DOMAIN tests : tests[i][1]}
<1>1. CASE hits = {}
  BY <1>1 DEF FirstOf
<1>2. CASE hits # {}
  <2>1. IsFiniteSet(hits) /\ hits \subseteq Nat
    BY FS_Subset
  <2>2. \E i \in hits : \A j \in hits : i <= j
    BY <1>2, <2>1, LeastExists
  <2>3. (CHOOSE i \in hits : \A j \in hits : i <= j) \in hits
    BY <2>2
  <2>4. FirstOf(tests, otherwise) = tests[CHOOSE i \in hits : \A j \in hits : i <= j][2]
    BY <1>2 DEF FirstOf
  <2>. QED  BY <2>3, <2>4
<1>. QED  BY <1>1, <1>2

(* Every kind history keeps has a preview, unless it is an extended text   *)
(* without words.                                                          *)
LEMMA WordsArePreviewed ==
  ASSUME \A m \in Kept(Msgs) : Has(ContentOf[m], {"extended"}) => ContentOf[m].words
  PROVE  AllPreviewed
<1>. SUFFICES ASSUME NEW m \in Kept(Msgs) PROVE HistoryPreview(ContentOf[m]) # ""
  BY DEF AllPreviewed
<1>. DEFINE c == ContentOf[m]
            types == << <<Has(c, {"extended"}) /\ c.link, "link">>,
                        <<Image(c), "image">>,
                        <<Has(c, {"conversation", "extended", "templateText"}), "text">>,
                        <<Video(c), "video">>,
                        <<Has(c, {"audio"}), "audio">>,
                        <<Has(c, {"document"}), "document">>,
                        <<Contact(c), "contact">>,
                        <<Location(c), "location">>,
                        <<Has(c, {"sticker"}), "sticker">>,
                        <<Unsupported(c), "text">> >>
            previews == << <<Has(c, {"conversation"}), "words">>,
                           <<Has(c, {"extended"}) /\ c.words, "words">>,
                           <<Has(c, {"image"}), Or(Words(c), "image")>>,
                           <<Image(c), IF Has(c, {"templateText"}) THEN "words" ELSE "image">>,
                           <<Video(c), Or(Words(c), "video")>>,
                           <<Location(c), Or(Words(c), "location")>>,
                           <<Has(c, {"audio"}), "audio">>,
                           <<Has(c, {"document"}), Or(Words(c), "document")>>,
                           <<Contact(c), "contact">>,
                           <<Has(c, {"sticker"}), "sticker">>,
                           <<Has(c, {"templateText"}), "words">>,
                           <<Unsupported(c), "unsupported">> >>
<1>1. Has(c, {"extended"}) => c.words
  OBVIOUS
<1>2. /\ HistoryType(c) # "none" /\ HistoryType(c) = FirstOf(types, "none")
      /\ HistoryPreview(c) = FirstOf(previews, "")
  BY DEF Kept, HistoryType, HistoryPreview
<1>3. DOMAIN types = 1 .. 10 /\ DOMAIN previews = 1 .. 12
  OBVIOUS
<1>4. (\E i \in 1 .. 10 : types[i][1]) => \E i \in 1 .. 12 : previews[i][1]
  <2>. SUFFICES ASSUME NEW i \in 1 .. 10, types[i][1]
                PROVE  \E j \in 1 .. 12 : previews[j][1]
    OBVIOUS
  <2>1. CASE i = 1
    <3>1. previews[2][1]
      BY <1>1, <2>1 DEF Has
    <3>. QED  BY <3>1
  <2>2. CASE i = 2
    <3>1. previews[4][1]
      BY <2>2
    <3>. QED  BY <3>1
  <2>3. CASE i = 3
    <3>1. previews[1][1] \/ previews[2][1] \/ previews[11][1]
      BY <1>1, <2>3 DEF Has
    <3>. QED  BY <3>1
  <2>4. CASE i = 4
    <3>1. previews[5][1]
      BY <2>4
    <3>. QED  BY <3>1
  <2>5. CASE i = 5
    <3>1. previews[7][1]
      BY <2>5
    <3>. QED  BY <3>1
  <2>6. CASE i = 6
    <3>1. previews[8][1]
      BY <2>6
    <3>. QED  BY <3>1
  <2>7. CASE i = 7
    <3>1. previews[9][1]
      BY <2>7
    <3>. QED  BY <3>1
  <2>8. CASE i = 8
    <3>1. previews[6][1]
      BY <2>8
    <3>. QED  BY <3>1
  <2>9. CASE i = 9
    <3>1. previews[10][1]
      BY <2>9
    <3>. QED  BY <3>1
  <2>10. CASE i = 10
    <3>1. previews[12][1]
      BY <2>10
    <3>. QED  BY <3>1
  <2>. QED  BY <2>1, <2>2, <2>3, <2>4, <2>5, <2>6, <2>7, <2>8, <2>9, <2>10
<1>5. \A w, l : l # "" => Or(w, l) # ""
  BY DEF Or
<1>6. \A i \in 1 .. 12 : previews[i][2] # ""
  <2>. SUFFICES ASSUME NEW i \in 1 .. 12 PROVE previews[i][2] # ""
    OBVIOUS
  <2>1. (IF Has(c, {"templateText"}) THEN "words" ELSE "image") # ""
    OBVIOUS
  <2>2. /\ Or(Words(c), "image") # "" /\ Or(Words(c), "video") # ""
        /\ Or(Words(c), "location") # "" /\ Or(Words(c), "document") # ""
    BY <1>5
  <2>3. CASE i \in {1, 2, 11}
    <3>1. previews[i][2] = "words"
      BY <2>3
    <3>. QED  BY <3>1
  <2>4. CASE i \in {3, 5, 6, 8}
    <3>1. previews[i][2] \in {Or(Words(c), "image"), Or(Words(c), "video"),
                             Or(Words(c), "location"), Or(Words(c), "document")}
      BY <2>4
    <3>. QED  BY <2>2, <3>1, Zenon
  <2>5. CASE i = 4
    <3>1. previews[i][2] = IF Has(c, {"templateText"}) THEN "words" ELSE "image"
      BY <2>5
    <3>. QED  BY <2>1, <3>1
  <2>6. CASE i \in {7, 9, 10, 12}
    <3>1. previews[i][2] \in {"audio", "contact", "sticker", "unsupported"}
      BY <2>6
    <3>. QED  BY <3>1
  <2>. HIDE DEF previews
  <2>7. i \in {1, 2, 11} \/ i \in {3, 5, 6, 8} \/ i = 4 \/ i \in {7, 9, 10, 12}
    OBVIOUS
  <2>. QED  BY <2>3, <2>4, <2>5, <2>6, <2>7
<1>. HIDE DEF types, previews
<1>7. IsFiniteSet(1 .. 10) /\ IsFiniteSet(1 .. 12)
  <2>1. 1 \in Int /\ 10 \in Int /\ 12 \in Int
    OBVIOUS
  <2>. QED  BY <2>1, FS_Interval, Zenon
<1>8. \E i \in 1 .. 10 : types[i][1]
  <2>1. \/ FirstOf(types, "none") = "none" /\ \A i \in DOMAIN types : ~types[i][1]
        \/ \E i \in DOMAIN types : types[i][1] /\ FirstOf(types, "none") = types[i][2]
    BY <1>3, <1>7, FirstFound
  <2>. QED  BY <1>2, <1>3, <2>1
<1>9. \/ FirstOf(previews, "") = "" /\ \A i \in DOMAIN previews : ~previews[i][1]
      \/ \E i \in DOMAIN previews : previews[i][1] /\ FirstOf(previews, "") = previews[i][2]
  <2>1. DOMAIN previews \subseteq Nat /\ IsFiniteSet(DOMAIN previews)
    BY <1>3, <1>7
  <2>. QED  BY <2>1, FirstFound, Zenon
<1>. QED  BY <1>2, <1>3, <1>4, <1>6, <1>8, <1>9

LEMMA BlankIsChat == BlankChat \in Chat
BY DEF BlankChat, Chat

LEMMA RenamedChat ==
  ASSUME NEW c \in Chat, NEW time \in Nat, NEW full \in BOOLEAN, NEW push \in BOOLEAN
  PROVE  /\ Renamed(c, time, full, push) \in Chat
         /\ Renamed(c, time, full, push).last = c.last
         /\ Renamed(c, time, full, push).shown = c.shown
         /\ Renamed(c, time, full, push).unread = c.unread
         /\ Renamed(c, time, full, push).divider = c.divider
<1>. DEFINE new == [c EXCEPT !.full = @ \/ full, !.push = @ \/ push]
<1>1. /\ new \in Chat /\ new.last = c.last /\ new.shown = c.shown
      /\ new.unread = c.unread /\ new.divider = c.divider
  BY DEF Chat
<1>2. Preferred(new, c.name) \in {"jid", "conversation", "push", "full"}
  BY DEF Preferred, Chat
<1>3. Renamed(c, time, full, push) =
        IF time < c.at \/ new = c THEN c
          ELSE [new EXCEPT !.at = time, !.name = Preferred(new, c.name)]
  BY DEF Renamed
<1>. HIDE DEF new
<1>4. [new EXCEPT !.at = time, !.name = Preferred(new, c.name)] \in Chat
  BY <1>1, <1>2 DEF Chat
<1>. QED  BY <1>1, <1>3, <1>4 DEF Chat

LEMMA LatestIsNewest ==
  ASSUME NEW c \in Conversation
  PROVE  /\ Newest(Latest(c), Kept(c.msgs)) /\ Kept(c.msgs) \subseteq Kept(Msgs)
         /\ Latest(c) \in Msgs \cup {0}
<1>1. Kept(c.msgs) \subseteq Kept(Msgs) /\ Kept(c.msgs) \subseteq Msgs
  BY DEF Kept, Conversation
<1>2. IsFiniteSet(Kept(c.msgs)) /\ Kept(c.msgs) \subseteq Nat
  BY <1>1, MsgsAssumption, FS_Subset
<1>3. CASE Kept(c.msgs) = {}
  BY <1>3 DEF Latest, Newest, Kept
<1>4. CASE Kept(c.msgs) # {}
  BY <1>1, <1>2, <1>4, MaxFound DEF Latest, Newest
<1>. QED  BY <1>1, <1>3, <1>4

LEMMA FirstUnreadIsUnread ==
  ASSUME NEW c \in Conversation
  PROVE  /\ FirstUnread(c) \in Msgs \cup {0}
         /\ FirstUnread(c) # 0 => FirstUnread(c) \in Unread(c) /\ c.unread > 0
         /\ Unread(c) \subseteq Kept(c.msgs) \cap Incoming
<1>1. Unread(c) \subseteq Kept(c.msgs) \cap Incoming /\ Unread(c) \subseteq Msgs
  BY DEF Unread, Kept, Conversation
<1>2. IsFiniteSet(Unread(c)) /\ Unread(c) \subseteq Nat
  BY <1>1, MsgsAssumption, FS_Subset
<1>3. CASE Unread(c) = {}
  BY <1>1, <1>3 DEF FirstUnread
<1>4. CASE Unread(c) # {}
  <2>1. FirstUnread(c) \in Unread(c)
    BY <1>2, <1>4, MinFound DEF FirstUnread
  <2>. DEFINE later == {n \in Kept(c.msgs) \cap Incoming : n > FirstUnread(c)}
  <2>2. Cardinality(later) < c.unread
    BY <2>1 DEF Unread
  <2>3. later \subseteq Msgs
    BY DEF Kept, Conversation
  <2>4. Cardinality(later) \in Nat
    BY <2>3, MsgsAssumption, FS_Subset, FS_CardinalityType
  <2>. HIDE DEF later
  <2>5. c.unread \in Nat
    BY DEF Conversation
  <2>6. c.unread > 0
    BY <2>2, <2>4, <2>5
  <2>. QED  BY <1>1, <2>1, <2>6
<1>. QED  BY <1>3, <1>4

(* What a history conversation makes of the chat.                          *)
LEMMA MergedChatIs ==
  ASSUME ChatTypes, NEW c \in Conversation
  PROVE  /\ MergedChat(c) = NoChat => chat = NoChat /\ Latest(c) = 0
         /\ MergedChat(c) # NoChat =>
              /\ MergedChat(c) \in Chat
              /\ MergedChat(c).unread = c.unread /\ MergedChat(c).divider = FirstUnread(c)
              /\ chat = NoChat =>
                   /\ MergedChat(c).shown = Latest(c)
                   /\ MergedChat(c).last = IF Latest(c) # 0 THEN Latest(c) ELSE c.time
              /\ chat # NoChat =>
                   IF Latest(c) > chat.last /\ Previewed(c)
                     THEN MergedChat(c).last = Latest(c) /\ MergedChat(c).shown = Latest(c)
                     ELSE MergedChat(c).last = chat.last /\ MergedChat(c).shown = chat.shown
<1>1. /\ Latest(c) \in Msgs \cup {0} /\ FirstUnread(c) \in Msgs \cup {0}
      /\ c.unread \in Nat /\ c.time \in Nat /\ Latest(c) \in Nat
  <2>1. Latest(c) \in Msgs \cup {0} /\ FirstUnread(c) \in Msgs \cup {0}
    BY LatestIsNewest, FirstUnreadIsUnread
  <2>2. c.unread \in Nat /\ c.time \in Nat
    BY DEF Conversation
  <2>3. Latest(c) \in Nat
    <3>1. \A n \in Msgs \cup {0} : n \in Nat
      BY MsgsAssumption
    <3>. QED  BY <2>1, <3>1
  <2>. QED  BY <2>1, <2>2, <2>3
<1>2. CASE chat = NoChat
  <2>1. CASE Latest(c) = 0 /\ c.time = 0
    BY <1>2, <2>1 DEF MergedChat, NewChat
  <2>2. CASE ~(Latest(c) = 0 /\ c.time = 0)
    <3>. DEFINE l == IF Latest(c) # 0 THEN Latest(c) ELSE c.time
                n == IF c.named THEN "conversation" ELSE "jid"
    <3>1. MergedChat(c) = [last |-> l, shown |-> Latest(c), unread |-> c.unread,
                           divider |-> FirstUnread(c), full |-> FALSE, push |-> FALSE,
                           at |-> 0, name |-> n]
      BY <1>2, <2>2 DEF MergedChat, NewChat, BlankChat
    <3>2. l \in Nat /\ n \in {"jid", "conversation", "push", "full"}
      BY <1>1
    <3>. HIDE DEF l, n
    <3>3. /\ MergedChat(c) \in Chat /\ MergedChat(c).last = l /\ MergedChat(c).shown = Latest(c)
          /\ MergedChat(c).unread = c.unread /\ MergedChat(c).divider = FirstUnread(c)
      BY <1>1, <3>1, <3>2 DEF Chat
    <3>. QED  BY <1>2, <3>3, NoChatIsNone DEF l
  <2>. QED  BY <2>1, <2>2
<1>3. CASE chat # NoChat
  <2>1. chat \in Chat
    BY <1>3 DEF ChatTypes
  <2>. DEFINE l == IF Latest(c) > chat.last /\ Previewed(c) THEN Latest(c) ELSE chat.last
              s == IF Latest(c) > chat.last /\ Previewed(c) THEN Latest(c) ELSE chat.shown
  <2>2. MergedChat(c) = [chat EXCEPT !.last = l, !.shown = s, !.unread = c.unread,
                                     !.divider = FirstUnread(c)]
    BY <1>3, <2>1 DEF MergedChat, Chat
  <2>3. l \in Nat /\ s \in Msgs \cup {0}
    BY <1>1, <2>1 DEF Chat
  <2>. HIDE DEF l, s
  <2>4. /\ MergedChat(c) \in Chat /\ MergedChat(c).last = l /\ MergedChat(c).shown = s
        /\ MergedChat(c).unread = c.unread /\ MergedChat(c).divider = FirstUnread(c)
    BY <1>1, <2>1, <2>2, <2>3 DEF Chat
  <2>. QED  BY <1>3, <2>4, NoChatIsNone DEF l, s
<1>. QED  BY <1>2, <1>3

LEMMA PushedChat ==
  ASSUME NEW c \in Chat
  PROVE  /\ Pushed(c) \in Chat /\ Pushed(c).last = c.last /\ Pushed(c).shown = c.shown
         /\ Pushed(c).unread = c.unread /\ Pushed(c).divider = c.divider
BY DEF Pushed, Chat

-----------------------------------------------------------------------------
(* The chat and the total: the steps.                                      *)

(* An event is begun, or begun again.                                      *)
LEMMA StartKeeps ==
  ASSUME HInv, ChatInv, NEW b \in Batches \cup {NoBatch}, b.convs \in Seq(Conversation),
         b.push \in BOOLEAN, Start(b), UNCHANGED <<row, chat, total, edited, raced>>, twice' \in BOOLEAN,
         ~twice' => ~twice /\ Mentions(b) <= 1
  PROVE  ChatInv' /\ (Shown => Shown')
<1>1. /\ batch' = b /\ conv' = 1 /\ pc' \in {"messages", "names"}
      /\ pc' = "messages" => 1 \in DOMAIN b.convs /\ todo' = Kept(b.convs[1].msgs)
      /\ buffer'.rows = {} /\ buffer'.chat = NoChat /\ sum' = 0
  BY StartTypes DEF Start, Empty
<1>2. pc' = "messages" => /\ b.convs[1] \in Conversation
                          /\ todo' = Kept(b.convs[1].msgs) /\ todo' \subseteq Kept(Msgs)
                          /\ Conv' = b.convs[1]
  BY <1>1, LatestIsNewest DEF Conv
<1>3. ChatTypes'
  <2>1. todo' \subseteq Kept(Msgs)
    BY <1>1, <1>2 DEF Start
  <2>2. pc' = "messages" => todo' \subseteq Kept(Conv.msgs)'
    BY <1>2 DEF Kept
  <2>. QED  BY <1>1, <2>1, <2>2 DEF ChatInv, ChatTypes
<1>4. Lone'
  BY <1>1 DEF Lone, Mentions
<1>5. Divided'
  <2>1. pc' = "messages" => Unread(Conv)' \ todo' = {}
    <3>. SUFFICES ASSUME pc' = "messages" PROVE Unread(Conv)' \ todo' = {}
      OBVIOUS
    <3>1. Unread(Conv)' = Unread(b.convs[1])
      BY <1>2 DEF Unread
    <3>. QED  BY <1>2, <3>1, FirstUnreadIsUnread
  <2>2. NextChat' = chat /\ ToStore' = {}
    BY <1>1 DEF NextChat, ToStore
  <2>3. \A m : UnreadNow(m)' <=> UnreadNow(m)
    BY DEF UnreadNow
  <2>4. \A m : UnreadNow(m) => ToBeUnread(m)'
    BY <1>1, <2>3 DEF ToBeUnread, UnreadNow
  <2>. QED  BY <1>1, <2>1, <2>2, <2>3, <2>4 DEF ChatInv, Divided
<1>6. Totalled'
  BY <1>1 DEF Totalled
<1>7. Shown => Shown'
  <2>1. NextChat' = chat /\ ToStore' = {} /\ Stored' = Stored
    BY <1>1 DEF NextChat, ToStore, Stored
  <2>. QED  BY <2>1 DEF Shown
<1>. QED  BY <1>3, <1>4, <1>5, <1>6, <1>7 DEF ChatInv

LEMMA BeginKeeps ==
  ASSUME HInv, ChatInv, NEW b \in Batches, Begin(b)
  PROVE  ChatInv' /\ (Shown => Shown')
<1>1. b.convs \in Seq(Conversation) /\ b.push \in BOOLEAN
  BY BatchesAssumption
<1>2. Mentions(b) \in Nat
  <2>1. Len(b.convs) \in Nat
    BY <1>1
  <2>2. (IF b.push THEN 1 ELSE 0) \in {0, 1}
    BY Zenon
  <2>. HIDE DEF Mentions
  <2>3. \A n \in Nat, i \in {0, 1} : n + i \in Nat
    OBVIOUS
  <2>. QED  BY <2>1, <2>2, <2>3, Zenon DEF Mentions
<1>3. /\ Start(b) /\ UNCHANGED <<row, chat, total, edited, raced>>
      /\ twice' = (twice \/ Mentions(b) > 1)
  BY DEF Begin, kvVars
<1>4. twice' \in BOOLEAN
  BY <1>3, Zenon
<1>5. Mentions(b) > 1 \/ Mentions(b) <= 1
  BY <1>2
<1>6. ~twice' => ~twice /\ Mentions(b) <= 1
  BY <1>3, <1>5, Zenon
<1>. QED  BY <1>1, <1>3, <1>4, <1>6, StartKeeps

LEMMA CrashKeeps ==
  ASSUME HInv, ChatInv, Crash
  PROVE  ChatInv' /\ (Shown => Shown')
<1>1. /\ Start(batch) /\ UNCHANGED <<row, chat, total, edited, raced>> /\ twice' = twice
  BY DEF Crash, kvVars, histVars
<1>2. /\ batch.convs \in Seq(Conversation) /\ batch.push \in BOOLEAN /\ twice \in BOOLEAN
      /\ batch \in Batches \cup {NoBatch}
  BY DEF HInv, Types, ChatInv, ChatTypes
<1>3. ~twice => Mentions(batch) <= 1
  BY DEF ChatInv, Lone
<1>. QED  BY <1>1, <1>2, <1>3, StartKeeps

(* A live message.                                                         *)
LEMMA WithLiveIs ==
  ASSUME ChatTypes, NEW m \in Msgs, NEW count \in BOOLEAN
  PROVE  LET old == IF chat = NoChat THEN BlankChat ELSE chat
             new == WithLive(m, count) IN
         /\ old \in Chat /\ new \in Chat
         /\ new.last = IF m >= old.last THEN m ELSE old.last
         /\ new.shown = IF m >= old.last THEN m ELSE old.shown
         /\ new.unread \in Nat /\ new.unread >= old.unread
         /\ \/ new.divider = old.divider
            \/ m \in Incoming /\ new.divider = m /\ new.unread > 0
<1>. DEFINE c == IF chat = NoChat THEN [BlankChat EXCEPT !.at = m] ELSE chat
            newest == m >= c.last
            new == count /\ newest /\ m \in Incoming
            moved == [c EXCEPT !.last = IF newest THEN m ELSE @,
                               !.shown = IF newest THEN m ELSE @,
                               !.unread = IF new THEN @ + 1 ELSE @,
                               !.divider = IF new /\ c.unread = 0 THEN m ELSE @]
            old == IF chat = NoChat THEN BlankChat ELSE chat
<1>0. m \in Nat
  BY MsgsAssumption
<1>1. /\ c \in Chat /\ old \in Chat /\ c.last = old.last /\ c.shown = old.shown
      /\ c.unread = old.unread /\ c.divider = old.divider
  BY <1>0, BlankIsChat DEF ChatTypes, BlankChat, Chat
<1>2. WithLive(m, count) = Renamed(moved, m, FALSE, m \in Incoming)
  BY DEF WithLive
<1>. HIDE DEF c, old, newest, new
<1>3. /\ moved \in Chat /\ moved.last = IF newest THEN m ELSE c.last
      /\ moved.shown = IF newest THEN m ELSE c.shown
      /\ moved.unread = IF new THEN c.unread + 1 ELSE c.unread
      /\ moved.divider = IF new /\ c.unread = 0 THEN m ELSE c.divider
  <2>. DEFINE l == IF newest THEN m ELSE c.last
              s == IF newest THEN m ELSE c.shown
              u == IF new THEN c.unread + 1 ELSE c.unread
              d == IF new /\ c.unread = 0 THEN m ELSE c.divider
  <2>1. l \in Nat /\ s \in Msgs \cup {0} /\ u \in Nat /\ d \in Msgs \cup {0}
    BY <1>0, <1>1 DEF Chat
  <2>2. moved = [c EXCEPT !.last = l, !.shown = s, !.unread = u, !.divider = d]
    BY <1>1 DEF Chat
  <2>. HIDE DEF l, s, u, d
  <2>3. PICK q : q = [c EXCEPT !.last = l, !.shown = s, !.unread = u, !.divider = d]
    OBVIOUS
  <2>4. q \in Chat /\ q.last = l /\ q.shown = s /\ q.unread = u /\ q.divider = d
    BY <1>1, <2>1, <2>3 DEF Chat
  <2>. HIDE DEF moved
  <2>. QED  BY <2>2, <2>3, <2>4 DEF l, s, u, d
<1>4. c.unread \in Nat
  BY <1>1 DEF Chat
<1>5. (m \in Incoming) \in BOOLEAN /\ FALSE \in BOOLEAN
  OBVIOUS
<1>. HIDE DEF moved
<1>6. /\ WithLive(m, count) \in Chat /\ WithLive(m, count).last = moved.last
      /\ WithLive(m, count).shown = moved.shown
      /\ WithLive(m, count).unread = moved.unread /\ WithLive(m, count).divider = moved.divider
  <2>. DEFINE q == Renamed(moved, m, FALSE, m \in Incoming)
  <2>1. /\ q \in Chat /\ q.last = moved.last /\ q.shown = moved.shown
        /\ q.unread = moved.unread /\ q.divider = moved.divider
    BY <1>0, <1>3, <1>5, RenamedChat, Zenon
  <2>. HIDE DEF q
  <2>2. WithLive(m, count) = q
    BY <1>2 DEF q
  <2>. QED  BY <2>1, <2>2
<1>7. new => m \in Incoming
  BY DEF new
<1>8. newest <=> m >= old.last
  BY <1>1 DEF newest
<1>9. /\ WithLive(m, count).last = IF m >= old.last THEN m ELSE old.last
      /\ WithLive(m, count).shown = IF m >= old.last THEN m ELSE old.shown
      /\ WithLive(m, count).unread \in Nat /\ WithLive(m, count).unread >= old.unread
      /\ \/ WithLive(m, count).divider = old.divider
         \/ m \in Incoming /\ WithLive(m, count).divider = m /\ WithLive(m, count).unread > 0
  BY <1>1, <1>3, <1>4, <1>6, <1>7, <1>8
<1>. QED  BY <1>1, <1>6, <1>9 DEF old

LEMMA LiveKeeps ==
  ASSUME HInv, ChatInv, NEW m \in Msgs, LiveMessage(m)
  PROVE  ChatInv' /\ (Shown => Shown')
<1>. DEFINE count == row[m]["exact"] = NoRow
            new == WithLive(m, count)
            old == IF chat = NoChat THEN BlankChat ELSE chat
            receipt == IF m \in Own THEN 1 ELSE 0
<1>1. /\ pc = "idle" /\ UNCHANGED <<loopVars, raced, twice>> /\ edited' = edited \ {m}
      /\ row' = [row EXCEPT ![m]["exact"] = [body |-> "original", receipt |-> receipt]]
      /\ chat' = new /\ total' = total + new.unread - (IF chat = NoChat THEN 0 ELSE chat.unread)
  BY DEF LiveMessage
<1>2. /\ old \in Chat /\ new \in Chat
      /\ new.last = IF m >= old.last THEN m ELSE old.last
      /\ new.shown = IF m >= old.last THEN m ELSE old.shown
      /\ new.unread \in Nat /\ new.unread >= old.unread
      /\ \/ new.divider = old.divider
         \/ m \in Incoming /\ new.divider = m /\ new.unread > 0
  BY WithLiveIs DEF ChatInv
<1>3. /\ old.unread = Count(chat) /\ old.unread \in Nat
      /\ chat = NoChat => old.divider = 0 /\ old.last = 0 /\ old.shown = 0
      /\ chat # NoChat => old = chat
  BY <1>2 DEF Count, BlankChat, Chat
<1>. HIDE DEF new, old, receipt
<1>4. /\ row \in [Msgs -> [Keys -> Row \cup {NoRow}]] /\ "exact" \in Keys
  BY DEF HInv, Types, Keys
<1>5. /\ row'[m]["exact"] = [body |-> "original", receipt |-> receipt]
      /\ row'[m]["exact"] # NoRow
      /\ \A n \in Msgs \ {m} : row'[n] = row[n]
      /\ \A k \in Keys : row[m][k] # NoRow => row'[m][k] # NoRow
  BY <1>1, <1>4 DEF NoRow
<1>6. /\ pc' = "idle" /\ new # NoChat /\ chat' # NoChat /\ UNCHANGED <<buffer, batch, sum, todo>>
  BY <1>1, <1>2, NoChatIsNone DEF loopVars
<1>7. ChatTypes'
  <2>1. total' \in Nat
    <3>1. total' = total + new.unread - old.unread
      BY <1>1, <1>3 DEF Count
    <3>. QED  BY <1>2, <1>3, <3>1 DEF ChatInv, ChatTypes
  <2>. QED  BY <1>1, <1>2, <1>6, <2>1 DEF ChatInv, ChatTypes
<1>8. Lone'
  BY <1>1, <1>6 DEF ChatInv, Lone
<1>9. Divided'
  <2>1. PICK d : d = new.divider
    OBVIOUS
  <2>2. ASSUME ~twice, ~raced, d # 0
        PROVE  new.unread > 0 /\ UnreadNow(d)'
    <3>1. m \in Incoming => UnreadNow(m)'
      BY <1>4, <1>5 DEF UnreadNow, Incoming, receipt
    <3>2. CASE m \in Incoming /\ d = m /\ new.unread > 0
      BY <3>1, <3>2
    <3>3. CASE d = old.divider
      <4>1. chat # NoChat /\ old = chat
        BY <1>3, <2>2, <3>3
      <4>2. old.unread > 0 /\ UnreadNow(d)
        BY <1>1, <2>2, <3>3, <4>1 DEF ChatInv, Divided
      <4>3. UnreadNow(d)'
        BY <1>5, <3>1, <4>2 DEF UnreadNow, Incoming
      <4>. QED  BY <1>2, <1>3, <4>2, <4>3
    <3>. QED  BY <1>2, <2>1, <3>2, <3>3
  <2>. QED  BY <1>1, <1>6, <2>1, <2>2 DEF Divided, Handling
<1>10. Totalled'
  <2>1. ~raced => total = Count(chat)
    BY <1>1 DEF ChatInv, Totalled
  <2>2. Count(chat)' = new.unread
    BY <1>1, <1>6 DEF Count
  <2>3. total' = total + new.unread - old.unread
    BY <1>1, <1>3 DEF Count
  <2>. QED  BY <1>1, <1>2, <1>3, <1>6, <2>1, <2>2, <2>3 DEF Totalled
<1>11. Shown => Shown'
  <2>. SUFFICES ASSUME Shown, ~twice
                PROVE  Stored' \subseteq Kept(Msgs) /\ Previews(new, Stored')
    BY <1>1, <1>6 DEF Shown, ShowsNewest, Previews, Dates, Kept, Handling
  <2>0. m \in Kept(Msgs) /\ Stored \subseteq Kept(Msgs)
    BY DEF LiveMessage, Shown, ShowsNewest
  <2>1. Stored' = Stored \cup {m}
    BY <1>4, <1>5 DEF Stored
  <2>2. Previews(old, Stored) /\ Stored \subseteq Msgs
    BY <1>3 DEF Shown, ShowsNewest, Previews, Newest, Stored
  <2>3. \A n \in Msgs : n \in Nat
    BY MsgsAssumption
  <2>4. Previews(new, Stored')
    <3>1. m \in Nat /\ old.last \in Nat
      BY <1>2, <2>3 DEF Chat
    <3>2. CASE m >= old.last
      BY <1>2, <2>1, <2>2, <2>3, <3>1, <3>2 DEF Previews, Newest
    <3>3. CASE ~(m >= old.last)
      BY <1>2, <2>1, <2>2, <2>3, <3>1, <3>3 DEF Previews, Newest
    <3>. QED  BY <3>2, <3>3
  <2>. QED  BY <2>0, <2>1, <2>4
<1>. QED  BY <1>7, <1>8, <1>9, <1>10, <1>11 DEF ChatInv

LEMMA NameKeeps ==
  ASSUME HInv, ChatInv, NEW kind \in {"contact", "push"}, NEW time \in Msgs, NameEvent(kind, time)
  PROVE  ChatInv' /\ (Shown => Shown')
<1>1. /\ pc = "idle" /\ UNCHANGED <<row, total, loopVars, edited, raced, twice>>
      /\ chat' = IF chat = NoChat
                   THEN [BlankChat EXCEPT !.full = TRUE, !.at = time, !.name = "full"]
                   ELSE Renamed(chat, time, kind = "contact", kind = "push")
  BY DEF NameEvent, histVars
<1>2. time \in Nat
  BY MsgsAssumption
<1>3. /\ chat' \in Chat /\ chat' # NoChat
      /\ chat = NoChat => /\ chat'.last = 0 /\ chat'.shown = 0
                          /\ chat'.unread = 0 /\ chat'.divider = 0
      /\ chat # NoChat => /\ chat'.last = chat.last /\ chat'.shown = chat.shown
                          /\ chat'.unread = chat.unread /\ chat'.divider = chat.divider
  <2>1. CASE chat = NoChat
    <3>1. chat' \in Chat
      BY <1>1, <1>2, <2>1 DEF BlankChat, Chat
    <3>. QED  BY <1>1, <2>1, <3>1, NoChatIsNone DEF BlankChat
  <2>2. CASE chat # NoChat
    <3>1. chat \in Chat /\ (kind = "contact") \in BOOLEAN /\ (kind = "push") \in BOOLEAN
      BY <2>2 DEF ChatInv, ChatTypes
    <3>. QED  BY <1>1, <1>2, <2>2, <3>1, RenamedChat, NoChatIsNone
  <2>. QED  BY <2>1, <2>2
<1>4. /\ pc' = "idle" /\ UNCHANGED <<buffer, batch, conv, sum, todo>> /\ Stored' = Stored
      /\ \A m : UnreadNow(m)' <=> UnreadNow(m)
  BY <1>1 DEF loopVars, Stored, UnreadNow
<1>5. ChatTypes' /\ Lone'
  BY <1>1, <1>3, <1>4 DEF ChatInv, ChatTypes, Lone
<1>6. Divided'
  BY <1>1, <1>3, <1>4 DEF ChatInv, Divided, Handling
<1>7. Totalled'
  BY <1>1, <1>3, <1>4 DEF ChatInv, Totalled, Count
<1>8. Shown => Shown'
  <2>1. Newest(0, {})
    BY DEF Newest
  <2>. QED  BY <1>1, <1>3, <1>4, <2>1 DEF Shown, ShowsNewest, Previews, Dates, Kept, Handling
<1>. QED  BY <1>5, <1>6, <1>7, <1>8 DEF ChatInv

(* The user's calls.  One that comes while an event is handled may leave   *)
(* the total and the divider behind; it changes nothing the chat shows.    *)
LEMMA CallKeeps ==
  ASSUME HInv, ChatInv, UNCHANGED <<loopVars, twice>>, raced' = (raced \/ pc # "idle"),
         \A m \in Msgs : \A k \in Keys : row'[m][k] # NoRow <=> row[m][k] # NoRow,
         chat = NoChat => chat' = NoChat,
         chat # NoChat => chat' # NoChat /\ chat'.last = chat.last /\ chat'.shown = chat.shown,
         ChatTypes', Divided', Totalled'
  PROVE  ChatInv' /\ (Shown => Shown')
<1>1. UNCHANGED <<pc, batch, conv, todo, buffer>> /\ Conv' = Conv /\ ToStore' = ToStore
      /\ (Handling' <=> Handling)
  BY DEF loopVars, Conv, ToStore, Handling
<1>2. Lone'
  BY <1>1 DEF ChatInv, Lone
<1>3. Stored' = Stored
  BY DEF Stored
<1>4. Shown => Shown'
  <2>1. chat = NoChat <=> chat' = NoChat
    OBVIOUS
  <2>2. ShowsNewest(chat, Stored) => ShowsNewest(chat', Stored)
    BY <2>1 DEF ShowsNewest, Previews
  <2>3. ShowsNewest(NextChat, Stored \cup ToStore) => ShowsNewest(NextChat', Stored \cup ToStore)
    BY <1>1, <2>1 DEF ShowsNewest, Previews, NextChat
  <2>. QED  BY <1>1, <1>3, <2>2, <2>3 DEF Shown, ShowsNewest, Previews, Dates, Kept
<1>. QED  BY <1>2, <1>4 DEF ChatInv

LEMMA ReadKeeps ==
  ASSUME HInv, ChatInv, MarkAsRead
  PROVE  ChatInv' /\ (Shown => Shown')
<1>1. /\ UNCHANGED <<loopVars, twice, edited>> /\ raced' = (raced \/ pc # "idle") /\ chat # NoChat
      /\ row' = [m \in Msgs |-> [k \in Keys |->
           IF m \in Incoming /\ row[m][k] # NoRow THEN [row[m][k] EXCEPT !.receipt = 3] ELSE row[m][k]]]
      /\ chat' = [chat EXCEPT !.unread = 0, !.divider = 0] /\ total' = Lowered(chat.unread)
  BY DEF MarkAsRead, Call
<1>2. chat \in Chat /\ total \in Nat
  BY <1>1 DEF ChatInv, ChatTypes
<1>3. /\ chat' \in Chat /\ chat'.last = chat.last /\ chat'.shown = chat.shown
      /\ chat'.unread = 0 /\ chat'.divider = 0
      /\ chat' # NoChat /\ chat.unread \in Nat
  <2>1. /\ chat' \in Chat /\ chat'.last = chat.last /\ chat'.shown = chat.shown
        /\ chat'.unread = 0 /\ chat'.divider = 0
        /\ chat.unread \in Nat
    BY <1>1, <1>2 DEF Chat
  <2>. QED  BY <2>1, NoChatIsNone
<1>4. \A m \in Msgs : \A k \in Keys : row'[m][k] # NoRow <=> row[m][k] # NoRow
  <2>. SUFFICES ASSUME NEW m \in Msgs, NEW k \in Keys
                PROVE  row'[m][k] # NoRow <=> row[m][k] # NoRow
    OBVIOUS
  <2>1. row[m][k] \in Row \cup {NoRow}
    BY DEF HInv, Types
  <2>. QED  BY <1>1, <2>1 DEF Row, NoRow
<1>5. total' \in Nat /\ (total = chat.unread => total' = 0)
  <2>. DEFINE S == {0, total - chat.unread}
  <2>1. IsFiniteSet(S) /\ S # {} /\ S \subseteq Int
    <3>1. IsFiniteSet({0}) /\ IsFiniteSet({0} \cup {total - chat.unread})
      BY FS_Singleton, FS_AddElement
    <3>2. S = {0} \cup {total - chat.unread}
      OBVIOUS
    <3>. QED  BY <1>2, <1>3, <3>1, <3>2
  <2>2. \E x \in S : \A y \in S : x >= y
    BY <1>2, <1>3
  <2>3. Max(S) \in S /\ \A y \in S : Max(S) >= y
    BY <2>2 DEF Max
  <2>4. total' = Max(S) /\ Max(S) >= 0
    BY <1>1, <2>3 DEF Lowered
  <2>. HIDE DEF S
  <2>5. Max(S) = 0 \/ Max(S) = total - chat.unread
    BY <2>3 DEF S
  <2>. QED  BY <1>2, <1>3, <2>4, <2>5
<1>6. ChatTypes'
  <2>1. pc' = pc /\ todo' = todo /\ Kept(Conv.msgs)' = Kept(Conv.msgs)
    BY <1>1 DEF loopVars, Conv, Kept
  <2>2. UNCHANGED <<batch, buffer, sum>>
    BY <1>1 DEF loopVars
  <2>. QED  BY <1>1, <1>3, <1>5, <2>1, <2>2 DEF ChatInv, ChatTypes
<1>7. Divided'
  BY <1>1, <1>3 DEF Divided, Handling, loopVars
<1>8. Totalled'
  BY <1>1, <1>3, <1>5 DEF ChatInv, Totalled, Count, loopVars
<1>. QED  BY <1>1, <1>3, <1>4, <1>6, <1>7, <1>8, CallKeeps

LEMMA EditKeeps ==
  ASSUME HInv, ChatInv, NEW m \in Msgs, EditTextMessage(m)
  PROVE  ChatInv' /\ (Shown => Shown')
<1>1. /\ UNCHANGED <<loopVars, twice, chat, total>> /\ raced' = (raced \/ pc # "idle")
      /\ m \in Own /\ edited' = edited \cup {m} /\ index[m] \in Keys /\ row[m][index[m]] \in Row
      /\ row' = [row EXCEPT ![m][index[m]].body = "edited"]
  BY DEF EditTextMessage, Call, Found, HInv, Types
<1>. DEFINE at == index[m]
            new == [row[m][at] EXCEPT !.body = "edited"]
<1>2. new # NoRow /\ new.receipt = row[m][at].receipt
  BY <1>1 DEF Row, NoRow
<1>3. row' = [row EXCEPT ![m] = [row[m] EXCEPT ![at] = new]] /\ at \in Keys /\ row[m][at] # NoRow
  BY <1>1 DEF Row, NoRow
<1>. HIDE DEF new, at
<1>4. row \in [Msgs -> [Keys -> Row \cup {NoRow}]]
  BY DEF HInv, Types
<1>5. \A n \in Msgs : \A k \in Keys :
        (row'[n][k] # NoRow <=> row[n][k] # NoRow) /\ row'[n][k].receipt = row[n][k].receipt
  <2>1. row'[m][at] = new
    BY <1>3, <1>4
  <2>2. \A n \in Msgs : \A k \in Keys : n # m \/ k # at => row'[n][k] = row[n][k]
    BY <1>3, <1>4
  <2>. QED  BY <1>2, <1>3, <2>1, <2>2
<1>6. \A n \in Msgs : UnreadNow(n)' <=> UnreadNow(n)
  BY <1>5 DEF UnreadNow
<1>7. ChatTypes'
  <2>1. pc' = pc /\ todo' = todo /\ Kept(Conv.msgs)' = Kept(Conv.msgs)
    BY <1>1 DEF loopVars, Conv, Kept
  <2>2. UNCHANGED <<batch, buffer, sum>>
    BY <1>1 DEF loopVars
  <2>. QED  BY <1>1, <2>1, <2>2 DEF ChatInv, ChatTypes
<1>8. Divided'
  <2>1. \A n : UnreadNow(n) => n \in Msgs
    BY DEF UnreadNow, Incoming
  <2>. QED  BY <1>1, <1>6, <2>1 DEF ChatInv, Divided, Handling, loopVars
<1>9. Totalled'
  BY <1>1 DEF ChatInv, Totalled, Count, loopVars
<1>. QED  BY <1>1, <1>5, <1>7, <1>8, <1>9, CallKeeps

(* reconcile_unread_total.                                                 *)
LEMMA SumKeeps ==
  ASSUME HInv, ChatInv, SumUnread
  PROVE  ChatInv' /\ (Shown => Shown')
<1>1. /\ UNCHANGED <<row, chat, total, batch, conv, todo, buffer, edited, raced, twice>>
      /\ pc' = "total" /\ sum' = Count(chat)
  BY DEF SumUnread, kvVars, histVars, Count
<1>2. Count(chat) \in Nat
  BY DEF ChatInv, ChatTypes, Count, Chat
<1>3. ChatTypes' /\ Lone'
  BY <1>1, <1>2 DEF ChatInv, ChatTypes, Lone
<1>4. Divided'
  BY <1>1 DEF ChatInv, Divided, Handling, UnreadNow
<1>5. Totalled'
  BY <1>1 DEF Totalled, Count
<1>6. Shown => Shown'
  BY <1>1 DEF Shown, Handling, Stored
<1>. QED  BY <1>3, <1>4, <1>5, <1>6 DEF ChatInv

LEMMA PutTotalKeeps ==
  ASSUME HInv, ChatInv, PutTotal
  PROVE  ChatInv' /\ (Shown => Shown')
<1>1. /\ UNCHANGED <<row, chat, edited, raced, twice>> /\ pc = "total" /\ pc' = "idle" /\ total' = sum
      /\ batch' = NoBatch /\ todo' = {} /\ buffer' = Empty /\ sum' = 0
  BY DEF PutTotal, End, histVars
<1>2. ChatTypes'
  BY <1>1 DEF ChatInv, ChatTypes, Empty, NoBatch
<1>3. Lone'
  <2>1. Mentions(batch)' = 0
    BY <1>1 DEF Mentions, NoBatch
  <2>. QED  BY <1>1, <2>1 DEF Lone
<1>4. Divided'
  BY <1>1 DEF ChatInv, Divided, Handling, UnreadNow
<1>5. Totalled'
  BY <1>1 DEF ChatInv, Totalled, Count
<1>6. Shown => Shown'
  BY <1>1 DEF Shown, Handling, Stored
<1>. QED  BY <1>2, <1>3, <1>4, <1>5, <1>6 DEF ChatInv

(* What is put of a message, and that it is its receipt.                   *)
LEMMA ProcessMessageKeeps ==
  ASSUME HInv, ChatInv, NEW m \in Msgs, ProcessMessage(m)
  PROVE  ChatInv' /\ (Shown => Shown')
<1>. DEFINE at == Locate(m)
            receipt == HistoryReceipt(Conv, m)
            key == IF at = "none" THEN "exact" ELSE at
            new == IF at = "none" THEN [body |-> "original", receipt |-> receipt]
                                  ELSE Merged(row[m][at], receipt)
            rows == IF new = row[m][key] THEN {} ELSE { <<m, key, new>> }
<1>1. /\ pc = "messages" /\ m \in todo /\ todo' = todo \ {m}
      /\ UNCHANGED <<row, chat, total, pc, batch, conv, sum, edited, raced, twice>>
      /\ \E links : buffer' = [buffer EXCEPT
           !.rows = {r \in @ : r[1] # m \/ rows = {}} \cup rows, !.index = links]
  BY DEF ProcessMessage, histVars
<1>2. /\ buffer'.rows = {r \in buffer.rows : r[1] # m \/ rows = {}} \cup rows
      /\ buffer'.chat = buffer.chat
  <2>1. buffer \in Puts
    BY DEF HInv, Types
  <2>. QED  BY <1>1, <2>1 DEF Puts
<1>3. Conv \in Conversation /\ Conv' = Conv
  BY <1>1 DEF HInv, Types, Conv
<1>4. ChatTypes'
  <2>1. todo' \subseteq todo /\ Kept(Conv.msgs)' = Kept(Conv.msgs)
    BY <1>1, <1>3 DEF Kept
  <2>. QED  BY <1>1, <1>2, <2>1 DEF ChatInv, ChatTypes
<1>5. ~twice => /\ \A r \in buffer.rows : r[1] \in Kept(Conv.msgs) \ todo
                /\ m \in Kept(Conv.msgs) /\ buffer.chat = NoChat
  BY <1>1 DEF ChatInv, ChatTypes, Lone
<1>5a. rows \subseteq { <<m, key, new>> } /\ (rows # {} => <<m, key, new>> \in rows)
  OBVIOUS
<1>7. key \in Keys /\ new \in Row /\ new.receipt = receipt
  <2>1. at \in Keys \cup {"none"} /\ \A k \in Keys : Under(m, k) <=> at = k
    BY LocateIsRight
  <2>2. receipt \in 0 .. 3
    BY <1>3, ReceiptRange
  <2>3. CASE at = "none"
    BY <2>2, <2>3 DEF Row, Keys
  <2>4. CASE at # "none"
    <3>1. at \in Keys /\ row[m][at] \in Row
      BY <2>1, <2>4 DEF Under, HInv, Types
    <3>. QED  BY <2>2, <2>4, <3>1 DEF Merged, Row
  <2>. QED  BY <2>1, <2>3, <2>4
<1>9. rows = {} => new = row[m][key]
  OBVIOUS
<1>. HIDE DEF at, key, new, rows
<1>6. \A r \in buffer'.rows : r = <<m, key, new>> \/ (r \in buffer.rows /\ (r[1] # m \/ rows = {}))
  BY <1>2, <1>5a
<1>8. rows # {} => <<m, key, new>> \in buffer'.rows
  BY <1>2, <1>5a
<1>10. Lone'
  <2>1. \A r \in buffer'.rows : r \in buffer.rows \/ r[1] = m
    BY <1>6
  <2>2. Conv'.msgs = Conv.msgs /\ Kept(Conv'.msgs) = Kept(Conv.msgs) /\ m \notin todo'
    BY <1>1, <1>3
  <2>3. ~twice => \A r \in buffer'.rows : r[1] \in Kept(Conv'.msgs) \ todo'
    <3>. SUFFICES ASSUME ~twice, NEW r \in buffer'.rows
                  PROVE  r[1] \in Kept(Conv'.msgs) \ todo'
      OBVIOUS
    <3>1. CASE r \in buffer.rows
      BY <1>1, <1>5, <2>2, <3>1
    <3>2. CASE r[1] = m
      BY <1>5, <2>2, <3>2
    <3>. QED  BY <2>1, <3>1, <3>2
  <2>. QED  BY <1>1, <1>2, <1>5, <2>3 DEF ChatInv, Lone, Kept
<1>11. Divided'
  <2>. SUFFICES ASSUME ~twice, ~raced, NEW n \in Unread(Conv) \ todo'
                PROVE  ToBeUnread(n)'
    <3>1. Unread(Conv)' = Unread(Conv)
      BY <1>3 DEF Unread
    <3>. QED  BY <1>1, <3>1 DEF ChatInv, Divided, Handling, UnreadNow
  <2>1. UnreadNow(n)' <=> UnreadNow(n)
    BY <1>1 DEF UnreadNow
  <2>2. n \in Incoming /\ n \in Msgs
    BY <1>3, FirstUnreadIsUnread DEF Incoming
  <2>3. CASE n = m
    <3>1. receipt = 0
      BY <2>2, <2>3 DEF HistoryReceipt, Incoming
    <3>2. \A r \in buffer.rows : r[1] # m
      BY <1>1, <1>5
    <3>3. \A r \in buffer'.rows : r[1] = m => r[3].receipt = 0
      BY <1>6, <1>7, <3>1, <3>2
    <3>4. UnreadNow(m) \/ m \in ToStore'
      <4>1. CASE rows = {}
        BY <1>7, <1>9, <2>2, <2>3, <3>1, <4>1 DEF UnreadNow, Row, NoRow
      <4>2. CASE rows # {}
        <5>1. <<m, key, new>>[1] = m
          OBVIOUS
        <5>. QED  BY <1>8, <4>2, <5>1 DEF ToStore
      <4>. QED  BY <4>1, <4>2
    <3>. QED  BY <2>1, <2>2, <2>3, <3>3, <3>4 DEF ToBeUnread
  <2>4. CASE n # m
    <3>1. ToBeUnread(n)
      BY <1>1, <2>4 DEF ChatInv, Divided
    <3>2. \A r \in buffer'.rows : r[1] = n => r \in buffer.rows
      BY <1>6, <2>4
    <3>3. n \in ToStore => n \in ToStore'
      BY <1>2, <2>4 DEF ToStore
    <3>. QED  BY <2>1, <2>2, <3>1, <3>2, <3>3 DEF ToBeUnread
  <2>. QED  BY <2>3, <2>4
<1>12. Totalled'
  BY <1>1 DEF Totalled
<1>13. Shown => Shown'
  BY <1>1 DEF Shown, Handling, Stored
<1>. QED  BY <1>4, <1>10, <1>11, <1>12, <1>13 DEF ChatInv

(* The chat is merged with the event's conversation.                       *)
LEMMA ProcessConversationKeeps ==
  ASSUME HInv, ChatInv, ProcessConversation
  PROVE  ChatInv' /\ (AllPreviewed /\ Shown => Shown')
<1>. DEFINE new == MergedChat(Conv)
<1>1. /\ pc = "messages" /\ todo = {}
      /\ UNCHANGED <<row, chat, total, batch, sum, edited, raced, twice>>
      /\ buffer' = IF new = chat THEN buffer ELSE [buffer EXCEPT !.chat = new]
      /\ \/ /\ conv < Len(batch.convs) /\ conv' = conv + 1 /\ pc' = "messages"
            /\ todo' = Kept(batch.convs[conv + 1].msgs)
         \/ /\ ~(conv < Len(batch.convs)) /\ pc' = "names" /\ UNCHANGED <<conv, todo>>
  BY DEF ProcessConversation, kvVars, histVars
<1>2. /\ conv \in 1 .. Len(batch.convs) /\ Len(batch.convs) \in Nat
      /\ batch.convs \in Seq(Conversation) /\ Conv \in Conversation
  BY <1>1 DEF HInv, Types, Conv
<1>3. /\ new = NoChat => chat = NoChat /\ Latest(Conv) = 0
      /\ new # NoChat =>
           /\ new \in Chat
           /\ new.unread = Conv.unread /\ new.divider = FirstUnread(Conv)
           /\ chat = NoChat =>
                /\ new.shown = Latest(Conv)
                /\ new.last = IF Latest(Conv) # 0 THEN Latest(Conv) ELSE Conv.time
           /\ chat # NoChat =>
                IF Latest(Conv) > chat.last /\ Previewed(Conv)
                  THEN new.last = Latest(Conv) /\ new.shown = Latest(Conv)
                  ELSE new.last = chat.last /\ new.shown = chat.shown
  BY <1>2, MergedChatIs DEF ChatInv
<1>. HIDE DEF new
<1>4. /\ buffer'.rows = buffer.rows /\ buffer'.chat = (IF new = chat THEN buffer.chat ELSE new)
      /\ buffer'.chat \in Chat \cup {NoChat}
  BY <1>1, <1>3 DEF HInv, Types, Puts, ChatInv, ChatTypes
<1>4a. ~twice => batch \in Batches /\ Conv = batch.convs[conv] /\ conv \in DOMAIN batch.convs
  BY <1>2 DEF ChatInv, ChatTypes, NoBatch, Conv
<1>5. ChatTypes'
  <2>1. CASE pc' = "names"
    BY <1>1, <1>4, <2>1 DEF ChatInv, ChatTypes
  <2>2. CASE pc' = "messages"
    <3>1. /\ Conv' \in Conversation /\ todo' = Kept(Conv'.msgs)
      BY <1>1, <1>2, <2>2 DEF Conv
    <3>2. todo' \subseteq Kept(Msgs) /\ todo' \subseteq Kept(Conv.msgs)'
      BY <3>1, LatestIsNewest DEF Kept
    <3>. QED  BY <1>1, <1>4, <3>2 DEF ChatInv, ChatTypes
  <2>. QED  BY <1>1, <2>1, <2>2
<1>6. ~twice => pc' = "names" /\ buffer.chat = NoChat /\ batch.convs # <<>>
  <2>. SUFFICES ASSUME ~twice PROVE pc' = "names" /\ buffer.chat = NoChat /\ batch.convs # <<>>
    OBVIOUS
  <2>1. Mentions(batch) <= 1 /\ buffer.chat = NoChat
    BY <1>1 DEF ChatInv, Lone
  <2>2. (IF batch.push THEN 1 ELSE 0) \in {0, 1}
    BY Zenon
  <2>3. PICK i \in {0, 1} : Mentions(batch) = Len(batch.convs) + i
    BY <2>2, Zenon DEF Mentions
  <2>4. ~(1 < Len(batch.convs))
    BY <1>2, <2>1, <2>3
  <2>. QED  BY <1>1, <1>2, <2>1, <2>4
<1>7. ~twice => NextChat' = new /\ ToStore' = ToStore
  BY <1>3, <1>4, <1>6, <1>1 DEF NextChat, ToStore
<1>8. Lone'
  BY <1>1, <1>6 DEF ChatInv, Lone
<1>9. Divided'
  <2>. SUFFICES ASSUME ~twice, ~raced
                PROVE  Divided'
    BY <1>1 DEF Divided
  <2>1. \A m : UnreadNow(m)' <=> UnreadNow(m)
    BY <1>1 DEF UnreadNow
  <2>2. PICK d : d = new.divider
    OBVIOUS
  <2>3. ASSUME new # NoChat, d # 0
        PROVE  new.unread > 0 /\ ToBeUnread(d)'
    <3>1. d \in Unread(Conv) /\ Conv.unread > 0
      BY <1>2, <1>3, <2>2, <2>3, FirstUnreadIsUnread
    <3>2. ToBeUnread(d)
      BY <1>1, <3>1 DEF ChatInv, Divided
    <3>3. ToBeUnread(d)'
      BY <1>4, <1>7, <2>1, <3>2 DEF ToBeUnread
    <3>. QED  BY <1>3, <2>3, <3>1, <3>3
  <2>4. (NextChat # NoChat /\ NextChat.divider # 0
           => NextChat.unread > 0 /\ ToBeUnread(NextChat.divider))'
    <3>1. NextChat' = new
      BY <1>7
    <3>2. CASE new = NoChat \/ d = 0
      BY <2>2, <3>1, <3>2
    <3>3. CASE new # NoChat /\ d # 0
      <4>1. NextChat' = new /\ d = NextChat.divider' /\ new.unread > 0
        BY <2>2, <2>3, <3>1, <3>3
      <4>2. ToBeUnread(d)'
        BY <2>3, <3>3
      <4>3. ToBeUnread(NextChat.divider)'
        BY <4>1, <4>2 DEF ToBeUnread, UnreadNow
      <4>. QED  BY <4>1, <4>3
    <3>. QED  BY <3>2, <3>3
  <2>5. pc' = "names"
    BY <1>6
  <2>. QED  BY <1>1, <2>1, <2>4, <2>5 DEF ChatInv, Divided
<1>10. Totalled'
  BY <1>1 DEF Totalled
<1>11. AllPreviewed /\ Shown => Shown'
  <2>. SUFFICES ASSUME AllPreviewed, Shown, ~twice
                PROVE  ShowsNewest(new, Stored \cup ToStore)
    <3>1. Stored' = Stored
      BY <1>1 DEF Stored
    <3>. QED  BY <1>1, <1>3, <1>7, <3>1 DEF Shown, ShowsNewest, Previews, Dates, Kept
  <2>1. /\ Newest(Latest(Conv), Kept(Conv.msgs)) /\ Kept(Conv.msgs) \subseteq Kept(Msgs)
        /\ Kept(Conv.msgs) \subseteq Msgs
    BY <1>2, LatestIsNewest DEF Kept
  <2>2. Stored \cup ToStore = Stored \cup Kept(Conv.msgs)
    <3>1. \A r \in buffer.rows : r[1] \in Kept(Conv.msgs)
      BY <1>1 DEF ChatInv, Lone
    <3>2. \A m \in Kept(Conv.msgs) : Secured(m)
      BY <1>1, <1>2 DEF HInv, Progress, Done, Conv
    <3>3. ASSUME NEW m \in Kept(Conv.msgs)
          PROVE  m \in Stored \cup ToStore
      <4>1. m \in Msgs
        BY <2>1
      <4>2. CASE Found(m)
        <5>1. index[m] \in Keys
          BY <4>1, <4>2 DEF HInv, Types, Found
        <5>. QED  BY <4>1, <4>2, <5>1 DEF Found, Stored
      <4>3. CASE \E l \in buffer.index : l[1] = m
        <5>1. PICK l \in buffer.index : l[1] = m
          BY <4>3
        <5>2. l[2] \in Keys /\ (Under(m, l[2]) \/ ToPut(m, l[2]))
          BY <5>1 DEF HInv, Links, Types, Puts
        <5>. QED  BY <4>1, <5>2 DEF Under, ToPut, Stored, ToStore
      <4>. QED  BY <3>2, <4>2, <4>3 DEF Secured
    <3>. QED  BY <3>1, <3>3 DEF ToStore
  <2>2a. Stored \cup ToStore \subseteq Kept(Msgs)
    BY <2>1, <2>2 DEF Shown, ShowsNewest
  <2>3. Latest(Conv) # 0 => Previewed(Conv)
    BY <2>1 DEF Previewed, AllPreviewed, Newest
  <2>4. \A m \in Stored \cup Kept(Conv.msgs) : m \in Nat /\ m > 0
    BY <2>1, MsgsAssumption DEF Stored
  <2>5. Latest(Conv) \in Nat /\ \A m \in Kept(Conv.msgs) : m <= Latest(Conv)
    BY <2>1, <2>4 DEF Newest
  <2>5a. Latest(Conv) = 0 => Kept(Conv.msgs) = {}
    BY <2>4, <2>5
  <2>6. CASE new = NoChat
    BY <1>3, <2>2, <2>2a, <2>5a, <2>6 DEF Shown, ShowsNewest
  <2>7. CASE new # NoChat /\ chat = NoChat
    <3>1. Stored = {}
      BY <2>7 DEF Shown, ShowsNewest
    <3>2. CASE Latest(Conv) # 0
      BY <1>3, <2>1, <2>2, <2>2a, <2>7, <3>1, <3>2 DEF ShowsNewest, Previews
    <3>3. CASE Latest(Conv) = 0
      <4>1. Conv.time \in Dates
        <5>1. Conv.time \in Nat
          BY <1>2 DEF Conversation
        <5>. QED  BY <1>4a, <2>5a, <3>3, <5>1 DEF Dates
      <4>. QED  BY <1>3, <2>2, <2>2a, <2>5a, <2>7, <3>1, <3>3, <4>1 DEF ShowsNewest, Previews
    <3>. QED  BY <3>2, <3>3
  <2>8. CASE new # NoChat /\ chat # NoChat
    <3>1. Previews(chat, Stored) /\ chat.last \in Nat
      BY <2>8 DEF Shown, ShowsNewest, ChatInv, ChatTypes, Chat
    <3>1a. \A m \in Stored : m \in Nat /\ m <= chat.last
      BY <2>4, <3>1 DEF Previews, Newest
    <3>2. CASE Latest(Conv) > chat.last
      <4>1. new.last = Latest(Conv) /\ new.shown = Latest(Conv)
        BY <1>3, <2>3, <2>5, <2>8, <3>1, <3>2
      <4>2. Newest(new.last, Stored \cup ToStore)
        BY <2>1, <2>2, <2>4, <2>5, <3>1, <3>1a, <3>2, <4>1 DEF Newest
      <4>. QED  BY <2>2a, <2>8, <4>1, <4>2 DEF ShowsNewest, Previews
    <3>3. CASE ~(Latest(Conv) > chat.last)
      <4>1. new.last = chat.last /\ new.shown = chat.shown
        BY <1>3, <2>8, <3>3
      <4>2. \A m \in Stored \cup ToStore : m <= new.last
        BY <2>2, <2>4, <2>5, <3>1, <3>1a, <3>3, <4>1
      <4>3. Previews(new, Stored \cup ToStore)
        BY <3>1, <4>1, <4>2 DEF Previews, Newest
      <4>. QED  BY <2>2a, <2>8, <4>3 DEF ShowsNewest
    <3>. QED  BY <3>2, <3>3
  <2>. QED  BY <2>6, <2>7, <2>8
<1>. QED  BY <1>5, <1>8, <1>9, <1>10, <1>11 DEF ChatInv

(* A push name is added to the chat kv.db holds.                           *)
LEMMA ProcessPushNameKeeps ==
  ASSUME HInv, ChatInv, ProcessPushName
  PROVE  ChatInv' /\ (Shown => Shown')
<1>. DEFINE old == IF chat = NoChat THEN BlankChat ELSE chat
<1>1. /\ pc = "names" /\ pc' = "commit"
      /\ UNCHANGED <<row, chat, total, batch, conv, todo, sum, edited, raced, twice>>
      /\ \/ buffer' = buffer
         \/ batch.push /\ buffer' = [buffer EXCEPT !.chat = Pushed(old)]
  BY DEF ProcessPushName, kvVars, histVars
<1>2. /\ old \in Chat /\ Pushed(old) \in Chat /\ Pushed(old) # NoChat /\ Pushed(old).last = old.last
      /\ Pushed(old).shown = old.shown /\ Pushed(old).unread = old.unread
      /\ Pushed(old).divider = old.divider
      /\ chat = NoChat => old.divider = 0 /\ old.last = 0 /\ old.shown = 0
      /\ chat # NoChat => old = chat
  <2>1. old \in Chat
    BY BlankIsChat DEF ChatInv, ChatTypes
  <2>2. chat = NoChat => old.divider = 0 /\ old.last = 0 /\ old.shown = 0
    BY DEF BlankChat
  <2>3. chat # NoChat => old = chat
    OBVIOUS
  <2>. HIDE DEF old
  <2>. QED  BY <2>1, <2>2, <2>3, PushedChat, NoChatIsNone
<1>. HIDE DEF old
<1>3. buffer'.rows = buffer.rows /\ buffer'.chat \in Chat \cup {NoChat}
      /\ (buffer' # buffer => batch.push /\ buffer'.chat = Pushed(old))
  BY <1>1, <1>2 DEF HInv, Types, Puts, ChatInv, ChatTypes
<1>4. ChatTypes'
  BY <1>1, <1>3 DEF ChatInv, ChatTypes
<1>5. Lone'
  BY <1>1 DEF ChatInv, Lone
<1>6. ~twice /\ batch.push => buffer.chat = NoChat /\ buffer.rows = {}
  <2>. SUFFICES ASSUME ~twice, batch.push PROVE batch.convs = <<>>
    BY <1>1 DEF ChatInv, Lone
  <2>1. Mentions(batch) <= 1 /\ Mentions(batch) = Len(batch.convs) + 1
    BY DEF ChatInv, Lone, Mentions
  <2>. QED  BY <2>1 DEF HInv, Types
<1>7. ToStore' = ToStore /\ \A m : ToBeUnread(m)' <=> ToBeUnread(m)
  BY <1>1, <1>3 DEF ToStore, ToBeUnread, UnreadNow
<1>8. CASE buffer' = buffer
  <2>1. NextChat' = NextChat /\ Stored' = Stored
    BY <1>1, <1>8 DEF NextChat, Stored
  <2>2. Divided'
    BY <1>1, <1>7, <2>1 DEF ChatInv, Divided, Handling, UnreadNow
  <2>3. Totalled' /\ (Shown => Shown')
    BY <1>1, <1>7, <2>1 DEF Totalled, Shown, Handling
  <2>. QED  BY <1>4, <1>5, <2>2, <2>3 DEF ChatInv
<1>9. CASE buffer' # buffer
  <2>1. NextChat' = Pushed(old) /\ Stored' = Stored /\ (~twice => NextChat = chat /\ ToStore = {})
    BY <1>1, <1>2, <1>3, <1>6, <1>9 DEF NextChat, Stored, ToStore
  <2>2. PICK d : d = old.divider
    OBVIOUS
  <2>3. ~twice /\ ~raced /\ d # 0 => old.unread > 0 /\ ToBeUnread(d)
    BY <1>1, <1>2, <2>1, <2>2 DEF ChatInv, Divided, Handling
  <2>4. Divided'
    BY <1>1, <1>2, <1>7, <2>1, <2>2, <2>3 DEF ChatInv, Divided, Handling, UnreadNow
  <2>5. Shown => Shown'
    <3>. SUFFICES ASSUME Shown, ~twice PROVE ShowsNewest(Pushed(old), Stored)
      BY <1>1, <1>2, <1>7, <2>1 DEF Shown, ShowsNewest, Previews, Dates, Kept
    <3>1. Newest(0, {})
      BY DEF Newest
    <3>. QED  BY <1>2, <3>1 DEF Shown, ShowsNewest, Previews
  <2>6. Totalled'
    BY <1>1 DEF Totalled
  <2>. QED  BY <1>4, <1>5, <2>4, <2>5, <2>6 DEF ChatInv
<1>. QED  BY <1>8, <1>9

(* The commit makes of what will be shown what is.                         *)
LEMMA CommitKeeps ==
  ASSUME HInv, ChatInv, CommitCached
  PROVE  ChatInv' /\ (Shown => Shown')
<1>1. /\ pc = "commit" /\ pc' = "sum" /\ chat' = NextChat
      /\ UNCHANGED <<total, batch, conv, todo, buffer, sum, edited, raced, twice>>
  BY DEF CommitCached, NextChat, histVars
<1>2. \A m \in Msgs : \A k \in Keys :
        \/ ~ToPut(m, k) /\ row'[m][k] = row[m][k]
        \/ \E r \in buffer.rows : r[1] = m /\ r[2] = k /\ row'[m][k] = r[3] /\ r[3] \in Row
  BY CommitRow
<1>3. /\ buffer.rows \subseteq Msgs \X Keys \X Row
      /\ \A r \in Row : r # NoRow
  BY DEF HInv, Types, Puts, Row, NoRow
<1>4. ChatTypes'
  BY <1>1 DEF ChatInv, ChatTypes, NextChat
<1>5. Lone'
  BY <1>1 DEF ChatInv, Lone
<1>6. Totalled'
  BY <1>1 DEF Totalled
<1>7. Divided'
  <2>. SUFFICES ASSUME ~twice, ~raced, NEW d, d = NextChat.divider, NextChat # NoChat, d # 0
                PROVE  NextChat.unread > 0 /\ UnreadNow(d)'
    BY <1>1 DEF Divided, Handling
  <2>1. NextChat.unread > 0 /\ ToBeUnread(d)
    BY <1>1 DEF ChatInv, Divided, Handling
  <2>2. d \in Incoming /\ d \in Msgs
    BY <2>1 DEF ToBeUnread, Incoming
  <2>3. CASE d \in ToStore
    <3>1. PICK r \in buffer.rows : r[1] = d
      BY <2>3 DEF ToStore
    <3>2. r[2] \in Keys /\ ToPut(d, r[2])
      BY <1>3, <3>1 DEF ToPut
    <3>3. PICK s \in buffer.rows : s[1] = d /\ row'[d][r[2]] = s[3] /\ s[3] \in Row
      BY <1>2, <2>2, <3>2
    <3>4. s[3].receipt = 0 /\ s[3] # NoRow
      BY <1>3, <2>1, <3>3 DEF ToBeUnread
    <3>. QED  BY <2>1, <2>2, <3>2, <3>3, <3>4 DEF UnreadNow
  <2>4. CASE d \notin ToStore
    <3>1. PICK k \in Keys : row[d][k] # NoRow /\ row[d][k].receipt = 0
      BY <2>1, <2>4 DEF ToBeUnread, UnreadNow
    <3>2. row'[d][k] = row[d][k]
      BY <1>2, <2>2, <2>4 DEF ToPut, ToStore
    <3>. QED  BY <2>1, <2>2, <3>1, <3>2 DEF UnreadNow
  <2>. QED  BY <2>3, <2>4
<1>8. Shown => Shown'
  <2>1. Stored' = Stored \cup ToStore
    <3>1. \A m \in Msgs : \A k \in Keys : row'[m][k] # NoRow <=> row[m][k] # NoRow \/ ToPut(m, k)
      BY <1>2, <1>3 DEF ToPut
    <3>2. ToStore = {m \in Msgs : \E k \in Keys : ToPut(m, k)}
      BY <1>3 DEF ToStore, ToPut
    <3>. QED  BY <3>1, <3>2 DEF Stored
  <2>. QED  BY <1>1, <2>1 DEF Shown, Handling, ShowsNewest, Previews, Dates, Kept
<1>. QED  BY <1>4, <1>5, <1>6, <1>7, <1>8 DEF ChatInv

LEMMA SameKeeps ==
  ASSUME ChatInv, UNCHANGED vars
  PROVE  ChatInv' /\ (Shown => Shown')
<1>1. UNCHANGED <<row, chat, total, pc, batch, conv, todo, buffer, sum, edited, raced, twice>>
  BY DEF vars, kvVars, loopVars, histVars
<1>2. Stored' = Stored /\ ToStore' = ToStore /\ NextChat' = NextChat /\ Handling' = Handling
      /\ Conv' = Conv
  BY <1>1 DEF Stored, ToStore, NextChat, Handling, Conv
<1>3. (\A m : UnreadNow(m)' <=> UnreadNow(m)) /\ (\A m : ToBeUnread(m)' <=> ToBeUnread(m))
  BY <1>1 DEF UnreadNow, ToBeUnread, ToStore
<1>4. ChatTypes' /\ Lone' /\ Totalled'
  BY <1>1, <1>2 DEF ChatInv, ChatTypes, Lone, Totalled, Kept
<1>5. Divided'
  BY <1>1, <1>2, <1>3 DEF ChatInv, Divided, Unread
<1>6. Shown => Shown'
  BY <1>1, <1>2 DEF Shown
<1>. QED  BY <1>4, <1>5, <1>6 DEF ChatInv

LEMMA ChatInit == Init => ChatInv /\ Shown
<1>. SUFFICES ASSUME Init PROVE ChatInv /\ Shown
  OBVIOUS
<1>1. /\ chat = IF Stored = {} THEN NoChat ELSE [BlankChat EXCEPT !.last = Max(Stored), !.shown = Max(Stored)]
      /\ \A m \in Msgs : m \notin Kept(Msgs) => \A j \in Keys : row[m][j] = NoRow
  BY DEF Init
<1>2. /\ total = 0 /\ pc = "idle" /\ batch = NoBatch /\ todo = {} /\ buffer = Empty /\ sum = 0
      /\ edited = {} /\ raced = FALSE /\ twice = FALSE
  BY DEF Init
<1>3. Stored \subseteq Kept(Msgs) /\ Stored \subseteq Msgs
  BY <1>1 DEF Stored
<1>4. IsFiniteSet(Stored) /\ Stored \subseteq Nat
  BY <1>3, MsgsAssumption, FS_Subset
<1>5. \/ chat = NoChat /\ Stored = {}
      \/ /\ chat \in Chat /\ chat # NoChat /\ chat.unread = 0 /\ chat.divider = 0
         /\ chat.shown = chat.last /\ Newest(chat.last, Stored)
  <2>1. CASE Stored = {}
    BY <1>1, <2>1
  <2>2. CASE Stored # {}
    <3>1. PICK n : n = Max(Stored)
      OBVIOUS
    <3>2. n \in Stored /\ \A m \in Stored : m <= n
      BY <1>4, <2>2, <3>1, MaxFound
    <3>3. chat = [BlankChat EXCEPT !.last = n, !.shown = n]
      BY <1>1, <2>2, <3>1
    <3>4. /\ chat \in Chat /\ chat.last = n /\ chat.shown = n
          /\ chat.unread = 0 /\ chat.divider = 0
      BY <1>3, <1>4, <3>2, <3>3, BlankIsChat DEF BlankChat, Chat
    <3>. QED  BY <3>2, <3>4, NoChatIsNone DEF Newest
  <2>. QED  BY <2>1, <2>2
<1>6. ChatTypes
  BY <1>2, <1>5 DEF ChatTypes, NoBatch, Empty
<1>7. Lone
  BY <1>2 DEF Lone, Mentions, NoBatch
<1>8. Divided /\ Totalled
  BY <1>2, <1>5 DEF Divided, Totalled, Handling, Count
<1>9. Shown
  BY <1>2, <1>3, <1>5 DEF Shown, ShowsNewest, Previews, Handling
<1>. QED  BY <1>6, <1>7, <1>8, <1>9 DEF ChatInv

(* Every step keeps the chat's invariant.                                  *)
LEMMA StepKeeps ==
  ASSUME HInv, ChatInv, [Next]_vars
  PROVE  ChatInv' /\ (AllPreviewed /\ Shown => Shown')
<1>1. CASE \E m \in Msgs : LiveMessage(m) \/ EditTextMessage(m) \/ ProcessMessage(m)
  BY <1>1, LiveKeeps, EditKeeps, ProcessMessageKeeps
<1>2. CASE \E kind \in {"contact", "push"}, time \in Msgs : NameEvent(kind, time)
  BY <1>2, NameKeeps
<1>3. CASE \E b \in Batches : Begin(b)
  BY <1>3, BeginKeeps
<1>4. CASE ProcessConversation \/ ProcessPushName \/ CommitCached \/ SumUnread \/ PutTotal
  BY <1>4, ProcessConversationKeeps, ProcessPushNameKeeps, CommitKeeps, SumKeeps, PutTotalKeeps
<1>5. CASE MarkAsRead \/ Crash
  BY <1>5, ReadKeeps, CrashKeeps
<1>6. CASE UNCHANGED vars
  BY <1>6, SameKeeps
<1>. QED  BY <1>1, <1>2, <1>3, <1>4, <1>5, <1>6 DEF Next, Handler

-----------------------------------------------------------------------------
(* The theorems on the chat and the total.                                 *)

(* The chat the handler keeps, buffers and commits, and what the total will*)
(* be: the inductive invariant of CountsAgree.                             *)
THEOREM ChatInvariance == Spec => []ChatInv
<1>1. ChatInv /\ HInv /\ HInv' /\ [Next]_vars => ChatInv'
  BY StepKeeps
<1>. QED  BY ChatInit, <1>1, Invariant, PTL DEF Spec

(* Every variable stays in its type: the total, kept from going below zero,*)
(* and the chat a buffered record replaces.                                *)
THEOREM Typing == Spec => []TypeOK
<1>1. HInv /\ ChatInv => TypeOK
  BY DEF HInv, Types, Steps, ChatInv, ChatTypes, TypeOK
<1>. QED  BY <1>1, Invariant, ChatInvariance, PTL

(* Between events the launcher's total is the chat's count, and the line on*)
(* the chat page stands above a stored message that is unread, however     *)
(* often a crash had handle_history_sync start over.                       *)
THEOREM CountsAlike == Spec => []CountsAgree
<1>1. HInv /\ ChatInv => CountsAgree
  <2>. SUFFICES ASSUME HInv, ChatInv, pc = "idle", ~raced
                PROVE  TotalReconciled /\ (~twice => DividerAboveUnread)
    BY DEF CountsAgree
  <2>1. TotalReconciled
    BY DEF ChatInv, Totalled, Count, TotalReconciled
  <2>2. ASSUME ~twice, chat # NoChat, chat.divider # 0
        PROVE  /\ chat.unread > 0 /\ chat.divider \in Stored
               /\ \E k \in Keys : row[chat.divider][k] # NoRow /\ row[chat.divider][k].receipt = 0
    <3>1. chat.unread > 0 /\ UnreadNow(chat.divider)
      BY <2>2 DEF ChatInv, Divided
    <3>. QED  BY <3>1 DEF UnreadNow, Stored, Incoming
  <2>. QED  BY <2>1, <2>2 DEF DividerAboveUnread
<1>. QED  BY <1>1, Invariant, ChatInvariance, PTL

(* The chat list shows the newest message that is stored, from history or  *)
(* live, or none if a conversation without messages dated the chat and no  *)
(* newer one has come; unless an event has mentioned the chat twice; of    *)
(* messages that have a preview, which every kind but an extended text     *)
(* without words has.                                                      *)
THEOREM NewestIsShown ==
  ASSUME AllPreviewed
  PROVE  Spec => []NewestShown
<1>1. Shown /\ ChatInv /\ HInv /\ HInv' /\ [Next]_vars => Shown'
  BY StepKeeps
<1>2. Shown => NewestShown
  <2>. DEFINE newest == Max({0} \cup {m \in Stored : HistoryPreview(ContentOf[m]) # ""})
  <2>. SUFFICES ASSUME Shown, ~twice, chat # NoChat
                PROVE  \/ chat.shown = newest /\ chat.last = newest
                       \/ chat.shown = 0 /\ chat.last \in Dates /\ newest <= chat.last
    BY DEF NewestShown
  <2>1. Stored \subseteq Kept(Msgs) /\ Previews(chat, Stored)
    BY DEF Shown, ShowsNewest
  <2>2. {m \in Stored : HistoryPreview(ContentOf[m]) # ""} = Stored
    BY <2>1 DEF AllPreviewed
  <2>3. Stored \in SUBSET Msgs /\ Stored \subseteq Nat /\ IsFiniteSet(Stored)
    BY MsgsAssumption, FS_Subset DEF Stored
  <2>4. newest = Max({0} \cup Stored)
    BY <2>2
  <2>. HIDE DEF newest
  <2>5. CASE chat.shown = chat.last /\ Newest(chat.last, Stored)
    BY <2>3, <2>4, <2>5, NewestIsMax
  <2>6. CASE chat.shown = 0 /\ chat.last \in Dates /\ \A m \in Stored : m <= chat.last
    <3>1. newest \in {0} \cup Stored
      <4>1. IsFiniteSet({0} \cup Stored) /\ {0} \cup Stored \subseteq Nat /\ {0} \cup Stored # {}
        BY <2>3, FS_AddElement
      <4>. QED  BY <2>4, <4>1, MaxFound
    <3>2. chat.last \in Nat
      BY <2>6 DEF Dates
    <3>. QED  BY <2>6, <3>1, <3>2
  <2>. QED  BY <2>1, <2>5, <2>6 DEF Previews
<1>. QED  BY ChatInit, <1>1, <1>2, Invariant, ChatInvariance, PTL DEF Spec
=============================================================================
