-------------------------------- MODULE MessageList --------------------------------
(***************************************************************************)
(* How a batch of changed messages reaches the list a chat page shows.     *)
(* Python keeps the last state of each message of the batch, the page takes*)
(* the ones of its chat, and the list model updates its rows, newest first,*)
(* or inserts new ones.  A message goes by its id and by the temporary id  *)
(* it had while it was pending: 0 stands for neither, and the order of the *)
(* numbers for the order of the ids as texts.                              *)
(***************************************************************************)
EXTENDS Naturals, Sequences, FiniteSets, SequencesExt

CONSTANTS
  States,     \* what a message says, and how it is marked
  Lives,      \* what happens to messages: the states each goes through
  Pages,      \* what the page may have loaded before
  MaxTurns    \* bound on the changes the page is told of

Message == [chat : Nat, id : Nat, temp : Nat, time : Nat, state : States]

Change(chat, id, temp, time, state) ==
  [chat |-> chat, id |-> id, temp |-> temp, time |-> time, state |-> state]

(* _message_aliases                                                        *)
Aliases(m) == {<<m.chat, a>> : a \in {m.id, m.temp} \ {0}}

(* A message stays in its chat.  It has the id it got first until it is    *)
(* told of with another and this one as its temporary id; it has no other  *)
(* temporary id.                                                           *)
Lived(life) ==
  \A k \in DOMAIN life :
    /\ life[k].id # 0 /\ life[k].chat = life[1].chat /\ life[k].temp \in {0, life[1].id}
    /\ k > 1 /\ life[k].id # life[k - 1].id => life[k].temp = life[k - 1].id

Names(life) == UNION {Aliases(life[k]) : k \in DOMAIN life}

(* No two messages of a chat have an id in common.                         *)
LivesAssumption ==
  /\ Lives \in Seq(Seq(Message))
  /\ \A l \in DOMAIN Lives : Lived(Lives[l])
  /\ \A l, other \in DOMAIN Lives : l # other => Names(Lives[l]) \cap Names(Lives[other]) = {}

Loaded(page) ==
  /\ \A i \in DOMAIN page : page[i].chat = 1 /\ page[i].id # 0
  /\ \A i, j \in DOMAIN page : i # j => Aliases(page[i]) \cap Aliases(page[j]) = {}
  /\ \A i \in DOMAIN page, l \in DOMAIN Lives : Aliases(page[i]) \cap Names(Lives[l]) = {}

PagesAssumption == Pages \subseteq Seq(Message) /\ \A page \in Pages : Loaded(page)

ASSUME ListAssumption == LivesAssumption /\ PagesAssumption /\ MaxTurns \in Nat

-----------------------------------------------------------------------------
(* Rows, and for each alias the row it stands for.                         *)
NoRows == [rows |-> <<>>, at |-> <<>>]

(* findMessageIndex: by its id or else by its temporary id; 0 if absent.   *)
RowOf(at, m) ==
  IF <<m.chat, m.id>> \in DOMAIN at THEN at[<<m.chat, m.id>>]
  ELSE IF <<m.chat, m.temp>> \in DOMAIN at THEN at[<<m.chat, m.temp>>]
  ELSE 0

(* replaceAliases: row i held old and holds m now.                         *)
Renamed(at, old, m, i) ==
  LET gone == {a \in Aliases(old) \cap DOMAIN at : at[a] = i} IN
  [a \in (DOMAIN at \ gone) \cup Aliases(m) |-> IF a \in Aliases(m) THEN i ELSE at[a]]

Added(batch, m) ==
  [rows |-> Append(batch.rows, m), at |-> Renamed(batch.at, m, m, Len(batch.rows) + 1)]

Changed(batch, i, m) ==
  [rows |-> [batch.rows EXCEPT ![i] = m], at |-> Renamed(batch.at, batch.rows[i], m, i)]

(* Mutation: the temporary id is lost with the state that had it.          *)
MergeAnew(batch, m) ==
  LET i == RowOf(batch.at, m) IN IF i = 0 THEN Added(batch, m) ELSE Changed(batch, i, m)

(* A later state replaces an earlier one, at its place, and keeps its      *)
(* temporary id.                                                           *)
WithTemp(m, temp) == Change(m.chat, m.id, temp, m.time, m.state)

Merge(batch, m) ==
  LET i == RowOf(batch.at, m) IN
  IF i = 0 THEN Added(batch, m)
  ELSE IF m.temp # 0 THEN Changed(batch, i, m)
  ELSE Changed(batch, i, WithTemp(m, batch.rows[i].temp))

(* _coalesce_message_upserts; normalizedMessages does it once more.        *)
Coalesced(messages) ==
  LET batch[n \in 0 .. Len(messages)] ==
        IF n = 0 THEN NoRows ELSE Merge(batch[n - 1], messages[n])
  IN batch[Len(messages)].rows

-----------------------------------------------------------------------------
(* MessageListModel                                                        *)

SortId(m) == IF m.id = 0 THEN m.temp ELSE m.id

DisplayBefore(m, n) == m.time > n.time \/ (m.time = n.time /\ SortId(m) > SortId(n))

(* displayInsertIndex, in rows that are in order.                          *)
Place(rows, m) ==
  CHOOSE i \in 1 .. Len(rows) + 1 :
    \A j \in DOMAIN rows : DisplayBefore(m, rows[j]) <=> j >= i

Insert(rows, m) == InsertAt(rows, Place(rows, m), m)

Inserted(rows, messages) ==
  LET done[n \in 0 .. Len(messages)] ==
        IF n = 0 THEN rows ELSE Insert(done[n - 1], messages[n])
  IN done[Len(messages)]

(* rebuildIndexes                                                          *)
Indexed(rows) ==
  [rows |-> rows,
   at |-> [a \in UNION {Aliases(rows[i]) : i \in DOMAIN rows} |->
             CHOOSE i \in DOMAIN rows :
               a \in Aliases(rows[i]) /\ \A j \in DOMAIN rows : a \in Aliases(rows[j]) => j <= i]]

(* updateMessageAt: a row that stays where it is only changes its aliases. *)
UpdateAt(list, i, m) ==
  LET others == RemoveAt(list.rows, i) IN
  IF Place(others, m) = i THEN Changed(list, i, m) ELSE Indexed(Insert(others, m))

Take(taken, m) ==
  LET i == RowOf(taken.list.at, m) IN
  IF i = 0 THEN [list |-> taken.list, new |-> Append(taken.new, m)]
           ELSE [list |-> UpdateAt(taken.list, i, m), new |-> taken.new]

(* upsertMessages: rows are updated first, then the new ones inserted.     *)
Upserted(list, messages) ==
  LET given == Coalesced(messages)
      taken[n \in 0 .. Len(given)] ==
        IF n = 0 THEN [list |-> list, new |-> <<>>] ELSE Take(taken[n - 1], given[n])
      end == taken[Len(given)]
  IN IF end.new = <<>> THEN end.list ELSE Indexed(Inserted(end.list.rows, end.new))

(* resetMessages                                                           *)
Reset(messages) == Indexed(Inserted(<<>>, Coalesced(messages)))

(* The page of chat 1 handles message-upsert: it takes its own.            *)
Ours(messages) ==
  LET ours[n \in 0 .. Len(messages)] ==
        IF n = 0 THEN <<>>
        ELSE IF messages[n].chat = 1 THEN Append(ours[n - 1], messages[n]) ELSE ours[n - 1]
  IN ours[Len(messages)]

Emitted(list, batch) == Upserted(list, Ours(Coalesced(batch)))

-----------------------------------------------------------------------------
(* How far each message is after the first n changes.                      *)
Age(turns, l, n) == Cardinality({i \in 1 .. n : turns[i] = l})
Changes(turns) == [n \in DOMAIN turns |-> Lives[turns[n]][Age(turns, turns[n], n)]]
Histories ==
  {turns \in UNION {[1 .. n -> DOMAIN Lives] : n \in 1 .. MaxTurns} :
     \A l \in DOMAIN Lives : Age(turns, l, Len(turns)) <= Len(Lives[l])}

(* What kv.db holds of the chat after these changes.                       *)
Kept(page, turns) ==
  LET age(l) == Age(turns, l, Len(turns))
      here == {l \in DOMAIN Lives : age(l) > 0 /\ Lives[l][1].chat = 1}
  IN page \o SetToSeq({Lives[l][age(l)] : l \in here})

Display(list) ==
  [i \in DOMAIN list.rows |-> [id |-> list.rows[i].id, time |-> list.rows[i].time,
                               state |-> list.rows[i].state]]

(* The page as it is when each change is emitted by itself.                *)
Alone(list, changes) ==
  LET told[n \in 0 .. Len(changes)] ==
        IF n = 0 THEN list ELSE Emitted(told[n - 1], <<changes[n]>>)
  IN told[Len(changes)]

(* The page shows what it would show if it were loaded afresh, each message*)
(* once and in its last state: when every change is emitted by itself, when*)
(* the ones from a cut on come as one batch, and when the page is loaded   *)
(* again into the same list.  The aliases lead to the rows they should.    *)
ShowsKept(page, turns, cut) ==
  LET before == Alone(Reset(page), SubSeq(Changes(turns), 1, cut))
      list == Emitted(before, SubSeq(Changes(turns), cut + 1, Len(turns)))
  IN /\ Display(list) = Display(Reset(Kept(page, turns)))
     /\ Display(Upserted(list, Kept(page, turns))) = Display(list)
     /\ list.at = Indexed(list.rows).at
=============================================================================
