--------------------------- MODULE ChatUnreadProofs ---------------------------
(***************************************************************************)
(* Proofs about ChatUnread, for any threads, chats and messages and        *)
(* whatever the bounds: the types, the divider that matches the count, no  *)
(* message counted twice with one dispatcher, and the total, which is the  *)
(* sum of the counts until two operations overlap.                         *)
(***************************************************************************)
EXTENDS ChatUnread, FiniteSetTheorems, WellFoundedInduction, TLAPS

-----------------------------------------------------------------------------
(* Sums over finite sets.                                                  *)

(* Of the subsets of a finite set that have some property, one has no      *)
(* other within it.                                                        *)
LEMMA MinimalSubset ==
  ASSUME NEW S, IsFiniteSet(S), NEW F, F \subseteq SUBSET S, F # {}
  PROVE  \E T \in F : \A U \in F : U \subseteq T => U = T
<1>1. IsWellFoundedOn(StrictSubsetOrdering(S), SUBSET S)
  BY FS_StrictSubsetOrderingWellFounded, FS_FiniteSubsetsOfFinite
<1>2. \E T \in F : \A U \in F : <<U, T>> \notin StrictSubsetOrdering(S)
  BY <1>1, WFMin
<1>. QED
  BY <1>2 DEF StrictSubsetOrdering

(* The equation that defines a sum, on the subsets of a set.               *)
AnyOf(S) == CHOOSE x \in S : TRUE
Sums(g, f, S) == g = [T \in SUBSET S |-> IF T = {} THEN 0 ELSE f[AnyOf(T)] + g[T \ {AnyOf(T)}]]

LEMMA SumsAgree ==
  ASSUME NEW S, IsFiniteSet(S), NEW T \in SUBSET S, NEW f, NEW g, Sums(g, f, S), NEW h, Sums(h, f, T)
  PROVE  g[T] = h[T]
<1>. DEFINE F == {U \in SUBSET T : g[U] # h[U]}
<1>. SUFFICES ASSUME F # {} PROVE FALSE
  OBVIOUS
<1>0. F \subseteq SUBSET T /\ IsFiniteSet(T)
  BY FS_Subset
<1>. HIDE DEF F
<1>1. PICK U \in F : \A V \in F : V \subseteq U => V = U
  BY <1>0, MinimalSubset
<1>. USE DEF F
<1>2. U # {}
  BY <1>1 DEF Sums
<1>3. AnyOf(U) \in U
  BY <1>2 DEF AnyOf
<1>4. g[U \ {AnyOf(U)}] = h[U \ {AnyOf(U)}]
  BY <1>1, <1>3
<1>. QED
  BY <1>1, <1>2, <1>3, <1>4 DEF Sums

LEMMA SumsExist ==
  ASSUME NEW S, IsFiniteSet(S), NEW f
  PROVE  \E g : Sums(g, f, S)
<1>. DEFINE F == {T \in SUBSET S : ~ \E g : Sums(g, f, T)}
<1>. SUFFICES ASSUME F # {} PROVE FALSE
  OBVIOUS
<1>0. F \subseteq SUBSET S
  OBVIOUS
<1>. HIDE DEF F
<1>1. PICK T \in F : \A U \in F : U \subseteq T => U = T
  BY <1>0, MinimalSubset
<1>. USE DEF F
<1>. DEFINE Of(U) == CHOOSE h : Sums(h, f, U)
            g == [U \in SUBSET T |-> IF U = {} THEN 0 ELSE f[AnyOf(U)] + Of(U \ {AnyOf(U)})[U \ {AnyOf(U)}]]
<1>2. ASSUME NEW U \in SUBSET T, U # T
      PROVE  Sums(Of(U), f, U)
  <2>1. \E h : Sums(h, f, U)
    BY <1>1, <1>2
  <2>. QED
    BY <2>1
<1>3. ASSUME NEW U \in SUBSET T, U # T
      PROVE  g[U] = Of(U)[U]
  <2>1. Sums(Of(U), f, U)
    BY <1>2, <1>3
  <2>2. CASE U = {}
    BY <2>1, <2>2 DEF Sums
  <2>3. CASE U # {}
    <3>. DEFINE V == U \ {AnyOf(U)}
    <3>1. AnyOf(U) \in U
      BY <2>3 DEF AnyOf
    <3>2. Sums(Of(V), f, V) /\ IsFiniteSet(U)
      BY <1>2, <3>1, FS_Subset
    <3>. HIDE DEF Of
    <3>3. Of(U)[V] = Of(V)[V]
      BY <2>1, <3>2, SumsAgree
    <3>4. Of(U)[U] = f[AnyOf(U)] + Of(U)[V]
      BY <2>1, <2>3 DEF Sums
    <3>. QED
      BY <2>3, <3>3, <3>4
  <2>. QED
    BY <2>2, <2>3
<1>4. \A U \in SUBSET T : U # {} => g[U \ {AnyOf(U)}] = Of(U \ {AnyOf(U)})[U \ {AnyOf(U)}]
  <2>. SUFFICES ASSUME NEW U \in SUBSET T, U # {}
                PROVE  g[U \ {AnyOf(U)}] = Of(U \ {AnyOf(U)})[U \ {AnyOf(U)}]
    OBVIOUS
  <2>1. AnyOf(U) \in U
    BY DEF AnyOf
  <2>2. U \ {AnyOf(U)} # T
    BY <2>1
  <2>. QED
    BY <1>3, <2>2
<1>. HIDE DEF Of
<1>5. g = [U \in SUBSET T |-> IF U = {} THEN 0 ELSE f[AnyOf(U)] + g[U \ {AnyOf(U)}]]
  BY <1>4, Zenon
<1>6. Sums(g, f, T)
  BY <1>5 DEF Sums
<1>. QED
  BY <1>1, <1>6

(* The sum of f over a set, one of its elements taken out.                 *)
LEMMA SumStep ==
  ASSUME NEW S, IsFiniteSet(S), NEW f
  PROVE  SumFunctionOnSet(f, S) =
           IF S = {} THEN 0 ELSE f[AnyOf(S)] + SumFunctionOnSet(f, S \ {AnyOf(S)})
<1>. DEFINE Of(T) == CHOOSE g : Sums(g, f, T)
<1>1. \A T : SumFunctionOnSet(f, T) = Of(T)[T]
  BY DEF SumFunctionOnSet, FoldFunctionOnSet, MapThenFoldSet, Sums, AnyOf
<1>2. \A T \in SUBSET S : Sums(Of(T), f, T)
  BY SumsExist, FS_Subset
<1>3. CASE S = {}
  <2>1. Sums(Of(S), f, S)
    BY <1>2
  <2>. HIDE DEF Of
  <2>2. Of(S)[S] = 0
    BY <1>3, <2>1 DEF Sums
  <2>. QED
    BY <1>1, <1>3, <2>2
<1>4. CASE S # {}
  <2>. DEFINE T == S \ {AnyOf(S)}
  <2>1. Sums(Of(S), f, S) /\ Sums(Of(T), f, T)
    BY <1>2
  <2>. HIDE DEF Of
  <2>2. Of(S)[T] = Of(T)[T]
    BY <2>1, SumsAgree
  <2>3. Of(S)[S] = f[AnyOf(S)] + Of(S)[T]
    BY <1>4, <2>1 DEF Sums
  <2>. QED
    BY <1>1, <1>4, <2>2, <2>3
<1>. QED
  BY <1>3, <1>4

LEMMA SumType ==
  ASSUME NEW S, IsFiniteSet(S), NEW f, \A x \in S : f[x] \in Nat
  PROVE  SumFunctionOnSet(f, S) \in Nat
<1>. DEFINE F == {T \in SUBSET S : SumFunctionOnSet(f, T) \notin Nat}
<1>. SUFFICES ASSUME F # {} PROVE FALSE
  OBVIOUS
<1>0. F \subseteq SUBSET S
  OBVIOUS
<1>. HIDE DEF F
<1>1. PICK T \in F : \A U \in F : U \subseteq T => U = T
  BY <1>0, MinimalSubset
<1>. USE DEF F
<1>2. IsFiniteSet(T)
  BY FS_Subset
<1>3. T # {}
  <2>1. SumFunctionOnSet(f, {}) = 0
    BY SumStep, FS_EmptySet
  <2>2. SumFunctionOnSet(f, {}) \in Nat
    BY <2>1
  <2>3. SumFunctionOnSet(f, T) \notin Nat
    BY <1>1
  <2>. QED
    BY <2>2, <2>3, Zenon
<1>4. AnyOf(T) \in T
  BY <1>3 DEF AnyOf
<1>5. SumFunctionOnSet(f, T \ {AnyOf(T)}) \in Nat
  BY <1>1, <1>4
<1>6. SumFunctionOnSet(f, T) = f[AnyOf(T)] + SumFunctionOnSet(f, T \ {AnyOf(T)})
  BY <1>2, <1>3, SumStep
<1>7. f[AnyOf(T)] \in Nat
  BY <1>1, <1>4
<1>8. SumFunctionOnSet(f, T) \in Nat
  BY <1>5, <1>6, <1>7
<1>. QED
  BY <1>1, <1>8

LEMMA SumSame ==
  ASSUME NEW S, IsFiniteSet(S), NEW f, NEW g, \A x \in S : f[x] = g[x]
  PROVE  SumFunctionOnSet(f, S) = SumFunctionOnSet(g, S)
<1>. DEFINE F == {T \in SUBSET S : SumFunctionOnSet(f, T) # SumFunctionOnSet(g, T)}
<1>. SUFFICES ASSUME F # {} PROVE FALSE
  OBVIOUS
<1>0. F \subseteq SUBSET S
  OBVIOUS
<1>. HIDE DEF F
<1>1. PICK T \in F : \A U \in F : U \subseteq T => U = T
  BY <1>0, MinimalSubset
<1>. USE DEF F
<1>2. IsFiniteSet(T)
  BY FS_Subset
<1>3. T # {}
  <2>1. SumFunctionOnSet(f, {}) = 0 /\ SumFunctionOnSet(g, {}) = 0
    BY SumStep, FS_EmptySet
  <2>. QED
    BY <1>1, <2>1
<1>4. AnyOf(T) \in T
  BY <1>3 DEF AnyOf
<1>5. SumFunctionOnSet(f, T \ {AnyOf(T)}) = SumFunctionOnSet(g, T \ {AnyOf(T)})
  BY <1>1, <1>4
<1>6. /\ SumFunctionOnSet(f, T) = f[AnyOf(T)] + SumFunctionOnSet(f, T \ {AnyOf(T)})
      /\ SumFunctionOnSet(g, T) = g[AnyOf(T)] + SumFunctionOnSet(g, T \ {AnyOf(T)})
  BY <1>2, <1>3, SumStep
<1>. QED
  BY <1>1, <1>4, <1>5, <1>6

LEMMA SumZero ==
  ASSUME NEW S, IsFiniteSet(S), NEW f, \A x \in S : f[x] = 0
  PROVE  SumFunctionOnSet(f, S) = 0
<1>. DEFINE F == {T \in SUBSET S : SumFunctionOnSet(f, T) # 0}
<1>. SUFFICES ASSUME F # {} PROVE FALSE
  OBVIOUS
<1>0. F \subseteq SUBSET S
  OBVIOUS
<1>. HIDE DEF F
<1>1. PICK T \in F : \A U \in F : U \subseteq T => U = T
  BY <1>0, MinimalSubset
<1>. USE DEF F
<1>2. IsFiniteSet(T)
  BY FS_Subset
<1>3. T # {}
  <2>1. SumFunctionOnSet(f, {}) = 0
    BY SumStep, FS_EmptySet
  <2>. QED
    BY <1>1, <2>1
<1>4. AnyOf(T) \in T
  BY <1>3 DEF AnyOf
<1>5. SumFunctionOnSet(f, T \ {AnyOf(T)}) = 0
  BY <1>1, <1>4
<1>6. SumFunctionOnSet(f, T) = f[AnyOf(T)] + SumFunctionOnSet(f, T \ {AnyOf(T)})
  BY <1>2, <1>3, SumStep
<1>. QED
  BY <1>1, <1>4, <1>5, <1>6

LEMMA SumWithout ==
  ASSUME NEW S, IsFiniteSet(S), NEW f, \A x \in S : f[x] \in Nat, NEW c \in S
  PROVE  SumFunctionOnSet(f, S) = f[c] + SumFunctionOnSet(f, S \ {c})
<1>. DEFINE Off(T, x) == SumFunctionOnSet(f, T) = f[x] + SumFunctionOnSet(f, T \ {x})
            F == {T \in SUBSET S : \E x \in T : ~ Off(T, x)}
<1>. SUFFICES ASSUME F # {} PROVE FALSE
  OBVIOUS
<1>0. F \subseteq SUBSET S
  OBVIOUS
<1>. HIDE DEF F
<1>1. PICK T \in F : \A U \in F : U \subseteq T => U = T
  BY <1>0, MinimalSubset
<1>. USE DEF F
<1>2. PICK x \in T : ~ Off(T, x)
  OBVIOUS
<1>3. IsFiniteSet(T) /\ T # {} /\ T \in SUBSET S
  BY <1>2, FS_Subset
<1>. DEFINE p == AnyOf(T)
<1>4. p \in T /\ Off(T, p)
  BY <1>3, SumStep DEF AnyOf
<1>. HIDE DEF p
<1>5. p # x
  BY <1>2, <1>4
<1>6. T \ {p} \notin F /\ T \ {x} \notin F /\ T \ {p} \in SUBSET S /\ T \ {x} \in SUBSET S
  BY <1>1, <1>2, <1>3, <1>4
<1>7. Off(T \ {p}, x) /\ Off(T \ {x}, p)
  BY <1>2, <1>4, <1>5, <1>6
<1>8. (T \ {p}) \ {x} = (T \ {x}) \ {p}
  OBVIOUS
<1>9. SumFunctionOnSet(f, (T \ {p}) \ {x}) \in Nat /\ f[x] \in Nat /\ f[p] \in Nat
  BY <1>2, <1>3, <1>4, SumType, FS_Subset
<1>. QED
  BY <1>2, <1>4, <1>7, <1>8, <1>9

-----------------------------------------------------------------------------
(* The records.                                                            *)

(* A chat's record whose divider matches its count.                        *)
Sound(r) ==
  /\ r \in ChatRecord
  /\ (r.unread = 0) <=> (r.first = NoMsg)
  /\ r.first # NoMsg => r.first \in stored

(* Typing, as far as the proofs need it.                                   *)
Shape ==
  /\ stored \subseteq Msgs
  /\ chat \in [Chats -> ChatRecord]
  /\ pc \in [Actors -> States]
  /\ msg \in [Actors -> Msgs \cup {NoMsg}]
  /\ fresh \in [Actors -> BOOLEAN]
  /\ DOMAIN mine = Actors
  /\ \A a \in Actors : DOMAIN mine[a] \subseteq Chats

(* Every record in the store or in a thread's hands is sound, and so is    *)
(* what a thread is about to make of one.                                  *)
RecordsSound ==
  /\ \A c \in Chats : Sound(chat[c])
  /\ \A a \in Actors : \A c \in DOMAIN mine[a] : Sound(mine[a][c])

(* A thread that stores a message dispatches events.                       *)
Storing ==
  \A a \in Actors :
    /\ pc[a] \in {"put", "upsert"} => a \in Dispatchers /\ msg[a] \in Msgs
    /\ pc[a] = "upsert" => msg[a] \in stored

RecordInv == Shape /\ RecordsSound /\ Storing

(* The record of a chat with one more message is sound.                    *)
LEMMA WithMessageSound ==
  ASSUME NEW r, Sound(r), NEW m \in stored, stored \subseteq Msgs, NEW b \in BOOLEAN
  PROVE  Sound(WithMessage(r, m, b))
<1>1. m \in Msgs /\ m \in Nat /\ m # NoMsg
  BY MsgsAssumption DEF NoMsg
<1>2. CASE m < r.last
  BY <1>2 DEF WithMessage
<1>3. CASE ~(m < r.last)
  BY <1>1, <1>3 DEF Sound, WithMessage, ChatRecord
<1>. QED
  BY <1>2, <1>3

(* A record with its count cleared is sound.                               *)
LEMMA ClearedSound ==
  ASSUME NEW r, Sound(r)
  PROVE  Sound([r EXCEPT !.unread = 0, !.first = NoMsg])
BY DEF Sound, ChatRecord, NoMsg

(* A sound record stays sound as messages are stored.                      *)
LEMMA SoundStays ==
  ASSUME NEW r, Sound(r), stored \subseteq stored'
  PROVE  Sound(r)'
BY DEF Sound

(* The end of an operation leaves the records sound if the store's are.    *)
LEMMA EndSound ==
  ASSUME RecordInv, NEW a \in Actors, Ended(a), stored' = stored,
         chat' \in [Chats -> ChatRecord], \A c \in Chats : Sound(chat[c])'
  PROVE  RecordInv'
<1> USE DEF RecordInv, Shape
<1>1. \A b \in Actors : /\ pc'[b] = IF b = a THEN "idle" ELSE pc[b]
                        /\ mine'[b] = IF b = a THEN NoRecords ELSE mine[b]
                        /\ msg'[b] = IF b = a THEN NoMsg ELSE msg[b]
  BY DEF Ended, Goto
<1>2. Shape'
  BY <1>1 DEF Ended, Goto, States, NoRecords
<1>3. RecordsSound'
  BY <1>1 DEF RecordsSound, Sound, NoRecords
<1>4. Storing'
  BY <1>1 DEF Storing
<1>. QED
  BY <1>2, <1>3, <1>4

(* Every step keeps the records sound.                                     *)
LEMMA RecordStep ==
  ASSUME RecordInv, [Next]_vars
  PROVE  RecordInv'
<1> USE DEF RecordInv, Shape
<1>1. ASSUME NEW a \in Actors, NEW m \in Msgs, BeginMessage(a, m)
      PROVE  RecordInv'
  <2>1. \A b \in Actors : /\ pc'[b] = IF b = a THEN "put" ELSE pc[b]
                          /\ msg'[b] = IF b = a THEN m ELSE msg[b]
    BY <1>1 DEF BeginMessage, Begin, Goto
  <2>2. Shape'
    BY <1>1 DEF BeginMessage, Begin, Goto, States, kvVars
  <2>3. RecordsSound'
    BY <1>1 DEF BeginMessage, kvVars, RecordsSound, Sound
  <2>4. Storing'
    BY <1>1, <2>1 DEF BeginMessage, kvVars, Storing
  <2>. QED
    BY <2>2, <2>3, <2>4
<1>2. ASSUME NEW a \in Actors, NEW c \in Chats, NEW S \in SUBSET Msgs, BeginReceipt(a, c, S)
      PROVE  RecordInv'
  <2>1. \A b \in Actors : /\ pc'[b] = IF b = a THEN "keys" ELSE pc[b]
                          /\ mine'[b] = IF b = a THEN [x \in {c} |-> chat[c]] ELSE mine[b]
    BY <1>2 DEF BeginReceipt, Begin, Goto
  <2>2. Shape'
    BY <1>2, <2>1 DEF BeginReceipt, Begin, Goto, States, kvVars
  <2>3. RecordsSound'
    BY <1>2, <2>1 DEF BeginReceipt, kvVars, RecordsSound, Sound
  <2>4. Storing'
    BY <1>2, <2>1 DEF BeginReceipt, kvVars, Storing
  <2>. QED
    BY <2>2, <2>3, <2>4
<1>3. ASSUME NEW a \in Actors, NEW c \in Chats, BeginOpen(a, c)
      PROVE  RecordInv'
  <2>1. \A b \in Actors : /\ pc'[b] = IF b = a THEN "keys" ELSE pc[b]
                          /\ mine'[b] = IF b = a THEN [x \in {c} |-> chat[c]] ELSE mine[b]
    BY <1>3 DEF BeginOpen, Begin, Goto
  <2>2. Shape'
    BY <1>3, <2>1 DEF BeginOpen, Begin, Goto, States, kvVars
  <2>3. RecordsSound'
    BY <1>3, <2>1 DEF BeginOpen, kvVars, RecordsSound, Sound
  <2>4. Storing'
    BY <1>3, <2>1 DEF BeginOpen, kvVars, Storing
  <2>. QED
    BY <2>2, <2>3, <2>4
<1>4. ASSUME NEW a \in Actors, NEW C \in SUBSET Chats, BeginTouch(a, C)
      PROVE  RecordInv'
  <2>1. \A b \in Actors : /\ pc'[b] = IF b = a THEN "chatPut" ELSE pc[b]
                          /\ mine'[b] = IF b = a THEN [c \in C |-> chat[c]] ELSE mine[b]
    BY <1>4 DEF BeginTouch, Begin, Goto
  <2>2. Shape'
    BY <1>4, <2>1 DEF BeginTouch, Begin, Goto, States, kvVars
  <2>3. RecordsSound'
    BY <1>4, <2>1 DEF BeginTouch, kvVars, RecordsSound, Sound
  <2>4. Storing'
    BY <1>4, <2>1 DEF BeginTouch, kvVars, Storing
  <2>. QED
    BY <2>2, <2>3, <2>4
<1>5. ASSUME NEW a \in Actors, Step(a)
      PROVE  RecordInv'
  <2>1. CASE PutMessage(a)
    <3>1. msg[a] \in Msgs /\ a \in Dispatchers
      BY <2>1 DEF PutMessage, Storing
    <3>2. \A b \in Actors : pc'[b] = IF b = a THEN "upsert" ELSE pc[b]
      BY <2>1 DEF PutMessage, Goto
    <3>3. Shape'
      BY <2>1, <3>1 DEF PutMessage, Goto, States, memoryVars
    <3>4. RecordsSound'
      BY <2>1 DEF PutMessage, memoryVars, RecordsSound, Sound
    <3>5. Storing'
      BY <2>1, <3>1, <3>2 DEF PutMessage, memoryVars, Storing
    <3>. QED
      BY <3>3, <3>4, <3>5
  <2>2. CASE UpsertChat(a)
    <3> DEFINE c == ChatOf[msg[a]]
               r == WithMessage(chat[c], msg[a], fresh[a])
    <3>1. msg[a] \in stored /\ c \in Chats
      BY <2>2, MsgsAssumption DEF UpsertChat, Storing
    <3>2. Sound(r)
      BY <3>1, WithMessageSound DEF RecordsSound
    <3>3. \A b \in Actors :
            /\ pc'[b] \in IF b = a THEN {"total", "chatPut"} ELSE {pc[b]}
            /\ mine'[b] = IF b = a THEN [x \in {c} |-> r] ELSE mine[b]
      BY <2>2 DEF UpsertChat, Goto
    <3>4. Shape'
      BY <2>2, <3>1, <3>3 DEF UpsertChat, Goto, States, kvVars
    <3>5. RecordsSound'
      <4> HIDE DEF r
      <4>1. stored' = stored /\ chat' = chat
        BY <2>2 DEF UpsertChat, kvVars
      <4>2. \A b \in Actors : \A k \in DOMAIN mine'[b] :
              mine'[b][k] = r \/ (k \in DOMAIN mine[b] /\ mine'[b][k] = mine[b][k])
        BY <3>3
      <4>. QED
        BY <3>2, <4>1, <4>2 DEF RecordsSound, Sound
    <3>6. Storing'
      BY <2>2, <3>3 DEF UpsertChat, kvVars, Storing
    <3>. QED
      BY <3>4, <3>5, <3>6
  <2>3. CASE MarkMessages(a)
    <3>1. \A b \in Actors : pc'[b] = IF b = a THEN "clear" ELSE pc[b]
      BY <2>3 DEF MarkMessages, Goto
    <3>2. Shape'
      BY <2>3 DEF MarkMessages, Goto, States, memoryVars
    <3>3. RecordsSound'
      BY <2>3 DEF MarkMessages, memoryVars, RecordsSound, Sound
    <3>4. Storing'
      BY <2>3, <3>1 DEF MarkMessages, memoryVars, Storing
    <3>. QED
      BY <3>2, <3>3, <3>4
  <2>4. CASE ClearChat(a)
    <3>1. PICK c \in DOMAIN mine[a] :
            \/ Ended(a)
            \/ /\ mine' = [mine EXCEPT ![a] =
                             [x \in {c} |-> [chat[c] EXCEPT !.unread = 0, !.first = NoMsg]]]
               /\ Goto(a, IF kind[a] = "receipt" THEN "total" ELSE "chatPut")
               /\ UNCHANGED <<msg, fresh>>
      BY <2>4 DEF ClearChat
    <3>2. c \in Chats /\ stored' = stored /\ chat' = chat
      BY <2>4 DEF ClearChat, kvVars
    <3>3. \A k \in Chats : Sound(chat[k])'
      BY <3>2 DEF RecordsSound, Sound
    <3>4. CASE Ended(a)
      BY <3>2, <3>3, <3>4, EndSound
    <3>5. CASE ~Ended(a)
      <4> DEFINE r == [chat[c] EXCEPT !.unread = 0, !.first = NoMsg]
      <4>1. Sound(r)
        BY <3>2, ClearedSound DEF RecordsSound
      <4>2. \A b \in Actors :
              /\ pc'[b] \in IF b = a THEN {"total", "chatPut"} ELSE {pc[b]}
              /\ mine'[b] = IF b = a THEN [x \in {c} |-> r] ELSE mine[b]
        BY <3>1, <3>5 DEF Goto
      <4> HIDE DEF r
      <4>2a. \A b \in Actors :
              /\ DOMAIN mine'[b] = IF b = a THEN {c} ELSE DOMAIN mine[b]
              /\ \A k \in DOMAIN mine'[b] : mine'[b][k] = IF b = a THEN r ELSE mine[b][k]
        BY <4>2
      <4>3. Shape'
        <5>1. DOMAIN mine' = Actors /\ pc' \in [Actors -> States]
          BY <3>1, <3>5 DEF Goto, States
        <5>2. \A b \in Actors : DOMAIN mine'[b] \subseteq Chats
          BY <3>2, <4>2a
        <5>. QED
          BY <3>1, <3>2, <3>5, <5>1, <5>2
      <4>4. RecordsSound'
        BY <3>2, <4>1, <4>2a DEF RecordsSound, Sound
      <4>5. Storing'
        BY <3>1, <3>2, <3>5, <4>2 DEF Storing
      <4>. QED
        BY <4>3, <4>4, <4>5
    <3>. QED
      BY <3>4, <3>5
  <2>5. CASE ReadTotal(a)
    <3>1. \A b \in Actors : pc'[b] = IF b = a THEN "totalPut" ELSE pc[b]
      BY <2>5 DEF ReadTotal, Goto
    <3>2. Shape'
      BY <2>5 DEF ReadTotal, Goto, States, kvVars
    <3>3. RecordsSound'
      BY <2>5 DEF ReadTotal, kvVars, RecordsSound, Sound
    <3>4. Storing'
      BY <2>5, <3>1 DEF ReadTotal, kvVars, Storing
    <3>. QED
      BY <3>2, <3>3, <3>4
  <2>6. CASE PutTotal(a)
    <3>1. stored' = stored /\ chat' = chat /\ \A k \in Chats : Sound(chat[k])'
      BY <2>6 DEF PutTotal, RecordsSound, Sound
    <3>2. CASE Ended(a)
      BY <3>1, <3>2, EndSound
    <3>3. CASE Goto(a, "chatPut") /\ UNCHANGED memoryVars
      <4>1. \A b \in Actors : pc'[b] = IF b = a THEN "chatPut" ELSE pc[b]
        BY <3>3 DEF Goto
      <4>2. Shape'
        BY <3>1, <3>3 DEF Goto, States, memoryVars
      <4>3. RecordsSound'
        BY <3>1, <3>3 DEF memoryVars, RecordsSound, Sound
      <4>4. Storing'
        BY <3>1, <3>3, <4>1 DEF memoryVars, Storing
      <4>. QED
        BY <4>2, <4>3, <4>4
    <3>. QED
      BY <2>6, <3>2, <3>3 DEF PutTotal
  <2>7. CASE PutChat(a)
    <3>1. PICK c \in DOMAIN mine[a] :
            /\ chat' = [chat EXCEPT ![c] = mine[a][c]]
            /\ \/ /\ mine' = [mine EXCEPT ![a] = [x \in DOMAIN mine[a] \ {c} |-> mine[a][x]]]
                  /\ UNCHANGED <<pc, msg, fresh>>
               \/ Goto(a, "total") /\ UNCHANGED memoryVars
               \/ Ended(a)
      BY <2>7 DEF PutChat
    <3>2. c \in Chats /\ stored' = stored /\ Sound(mine[a][c])
      BY <2>7 DEF PutChat, RecordsSound
    <3>3. /\ chat' \in [Chats -> ChatRecord]
          /\ \A k \in Chats : Sound(chat[k])'
      BY <3>1, <3>2 DEF RecordsSound, Sound
    <3>4. CASE Ended(a)
      BY <3>2, <3>3, <3>4, EndSound
    <3>5. CASE Goto(a, "total") /\ UNCHANGED memoryVars
      <4>1. \A b \in Actors : pc'[b] = IF b = a THEN "total" ELSE pc[b]
        BY <3>5 DEF Goto
      <4>2. Shape'
        BY <3>2, <3>3, <3>5 DEF Goto, States, memoryVars
      <4>3. RecordsSound'
        BY <3>2, <3>3, <3>5 DEF memoryVars, RecordsSound, Sound
      <4>4. Storing'
        BY <3>2, <3>5, <4>1 DEF memoryVars, Storing
      <4>. QED
        BY <4>2, <4>3, <4>4
    <3>6. CASE /\ mine' = [mine EXCEPT ![a] = [x \in DOMAIN mine[a] \ {c} |-> mine[a][x]]]
               /\ UNCHANGED <<pc, msg, fresh>>
      <4>1. \A b \in Actors :
              /\ DOMAIN mine'[b] = IF b = a THEN DOMAIN mine[a] \ {c} ELSE DOMAIN mine[b]
              /\ \A k \in DOMAIN mine'[b] : mine'[b][k] = mine[b][k]
        <5>1. \A b \in Actors \ {a} : mine'[b] = mine[b]
          BY <3>6
        <5>2. mine'[a] = [x \in DOMAIN mine[a] \ {c} |-> mine[a][x]]
          BY <3>6
        <5>. QED
          BY <5>1, <5>2
      <4>2. Shape'
        <5>1. DOMAIN mine' = Actors
          BY <3>6
        <5>2. \A b \in Actors : DOMAIN mine'[b] \subseteq Chats
          BY <4>1
        <5>. QED
          BY <3>2, <3>3, <3>6, <5>1, <5>2
      <4>3. RecordsSound'
        BY <3>2, <3>3, <4>1 DEF RecordsSound, Sound
      <4>4. Storing'
        BY <3>2, <3>6 DEF Storing
      <4>. QED
        BY <4>2, <4>3, <4>4
    <3>. QED
      BY <3>1, <3>4, <3>5, <3>6
  <2>. QED
    BY <1>5, <2>1, <2>2, <2>3, <2>4, <2>5, <2>6, <2>7 DEF Step
<1>6. CASE Crash
  <2>1. Shape'
    BY <1>6 DEF Crash, kvVars, States, NoRecords
  <2>2. RecordsSound'
    BY <1>6 DEF Crash, kvVars, RecordsSound, Sound, NoRecords
  <2>3. Storing'
    BY <1>6 DEF Crash, Storing
  <2>. QED
    BY <2>1, <2>2, <2>3
<1>7. CASE Restart
  BY <1>7 DEF Restart, memoryVars, RecordsSound, Sound, Storing
<1>8. CASE UNCHANGED vars
  BY <1>8 DEF vars, kvVars, memoryVars, RecordsSound, Sound, Storing
<1>. QED
  BY <1>1, <1>2, <1>3, <1>4, <1>5, <1>6, <1>7, <1>8 DEF Next

LEMMA RecordInit ==
  ASSUME Init
  PROVE  RecordInv
<1>1. Shape
  BY DEF Init, Shape, ChatRecord, States, NoRecords, NoMsg
<1>. QED
  BY <1>1 DEF Init, RecordInv, RecordsSound, Sound, Storing, ChatRecord, NoRecords, NoMsg

(* The records are sound in every state.                                   *)
THEOREM RecordInvariance == Spec => []RecordInv
<1>1. Init => RecordInv
  BY RecordInit
<1>2. RecordInv /\ [Next]_vars => RecordInv'
  BY RecordStep
<1>. QED
  BY <1>1, <1>2, PTL DEF Spec

(* A chat shows a divider exactly when it shows an unread count, above a   *)
(* message that is stored, whatever stale records are written back.        *)
THEOREM Divider == Spec => []DividerMatchesCount
<1>1. RecordInv => DividerMatchesCount
  BY DEF RecordInv, RecordsSound, Sound, DividerMatchesCount
<1>. QED
  BY <1>1, RecordInvariance, PTL

-----------------------------------------------------------------------------
(* No message is counted twice.                                            *)

OneDispatcher == \A a, b \in Dispatchers : a = b

(* The new messages stored whose chat is not upserted yet.                 *)
Pending == {msg[a] : a \in {d \in Dispatchers : pc[d] = "upsert" /\ fresh[d]}}

(* The messages of a chat that some record may have counted.               *)
Done(c) == (stored \cap MessagesOf(c)) \ Pending

(* Every record, in the store or in a thread's hands, counts each of them  *)
(* at most once.                                                           *)
Counted ==
  /\ \A c \in Chats : chat[c].unread <= Cardinality(Done(c))
  /\ \A a \in Actors : \A c \in DOMAIN mine[a] : mine[a][c].unread <= Cardinality(Done(c))

(* A message found absent is absent until its thread puts it.              *)
FreshNew ==
  \A a \in Actors : pc[a] = "put" /\ fresh[a] => msg[a] \notin stored

CountInv == RecordInv /\ Counted /\ FreshNew

(* The messages that may be counted are finitely many, and the more of     *)
(* them there are the higher their number.                                 *)
LEMMA DoneFinite ==
  ASSUME RecordInv, NEW c
  PROVE  IsFiniteSet(Done(c)) /\ Cardinality(Done(c)) \in Nat
<1>1. Done(c) \subseteq Msgs
  BY DEF Done, RecordInv, Shape
<1>. QED
  BY <1>1, MsgsAssumption, FS_Subset, FS_CardinalityType

LEMMA DoneGrows ==
  ASSUME RecordInv, RecordInv', NEW c, Done(c) \subseteq Done(c)'
  PROVE  /\ Cardinality(Done(c)) \in Nat
         /\ Cardinality(Done(c))' \in Nat
         /\ Cardinality(Done(c)) <= Cardinality(Done(c))'
<1>1. IsFiniteSet(Done(c)) /\ Cardinality(Done(c)) \in Nat
  BY DoneFinite
<1>2. Done(c)' \subseteq Msgs
  BY DEF Done, RecordInv, Shape
<1>3. IsFiniteSet(Done(c)') /\ Cardinality(Done(c)') \in Nat
  BY <1>2, MsgsAssumption, FS_Subset, FS_CardinalityType
<1>. QED
  BY <1>1, <1>3, FS_Subset

(* A step after which every record counts no more than some record did is  *)
(* harmless, as long as the messages that may be counted stay.             *)
LEMMA CountedKept ==
  ASSUME RecordInv, RecordInv', \A c \in Chats : Done(c) \subseteq Done(c)',
         \A c \in Chats : chat'[c].unread <= Cardinality(Done(c)),
         \A a \in Actors : \A c \in DOMAIN mine'[a] :
           mine'[a][c].unread <= Cardinality(Done(c))
  PROVE  Counted'
<1>1. ASSUME NEW c \in Chats, NEW n \in Nat, n <= Cardinality(Done(c))
      PROVE  n <= Cardinality(Done(c))'
  BY <1>1, DoneGrows
<1>2. \A c \in Chats : chat'[c].unread \in Nat
  BY DEF RecordInv, RecordsSound, Sound, ChatRecord
<1>3. \A a \in Actors : \A c \in DOMAIN mine'[a] : c \in Chats /\ mine'[a][c].unread \in Nat
  BY DEF RecordInv, RecordsSound, Sound, ChatRecord, Shape
<1>. QED
  BY <1>1, <1>2, <1>3 DEF Counted

(* A step that neither stores nor upserts leaves those messages and the    *)
(* new ones as they are.                                                   *)
LEMMA DoneKept ==
  ASSUME RecordInv, FreshNew, stored' = stored,
         \A a \in Actors : pc'[a] \in {"put", "upsert"} =>
           pc[a] = pc'[a] /\ msg'[a] = msg[a] /\ fresh'[a] = fresh[a]
  PROVE  FreshNew' /\ \A c \in Chats : Done(c) \subseteq Done(c)'
<1>1. Pending' \subseteq Pending
  BY ActorsAssumption DEF Pending
<1>. QED
  BY <1>1 DEF FreshNew, Done

(* The end of an operation does not count.                                 *)
LEMMA EndKept ==
  ASSUME CountInv, RecordInv', NEW a \in Actors, Ended(a), stored' = stored,
         \A c \in Chats : chat'[c].unread <= Cardinality(Done(c))
  PROVE  Counted' /\ FreshNew'
<1>1. \A b \in Actors : /\ pc'[b] = IF b = a THEN "idle" ELSE pc[b]
                        /\ mine'[b] = IF b = a THEN NoRecords ELSE mine[b]
                        /\ b # a => msg'[b] = msg[b] /\ fresh'[b] = fresh[b]
  BY DEF Ended, Goto, CountInv, RecordInv, Shape
<1>2. \A b \in Actors : \A k \in DOMAIN mine'[b] : mine'[b][k].unread <= Cardinality(Done(k))
  BY <1>1 DEF Counted, CountInv, NoRecords
<1>. QED
  BY <1>1, <1>2, DoneKept, CountedKept DEF CountInv

(* Every step keeps the counts bounded, if one thread dispatches events.   *)
LEMMA CountStep ==
  ASSUME OneDispatcher, CountInv, RecordInv', [Next]_vars
  PROVE  CountInv'
<1> USE DEF CountInv
<1>1. ASSUME NEW a \in Actors, NEW m \in Msgs, BeginMessage(a, m)
      PROVE  Counted' /\ FreshNew'
  <2>1. /\ stored' = stored /\ chat' = chat /\ mine' = mine
        /\ \A b \in Actors :
             /\ pc'[b] = IF b = a THEN "put" ELSE pc[b]
             /\ msg'[b] = IF b = a THEN m ELSE msg[b]
             /\ fresh'[b] = IF b = a THEN m \notin stored ELSE fresh[b]
    BY <1>1 DEF BeginMessage, Begin, Goto, kvVars, RecordInv, Shape
  <2>2. FreshNew'
    BY <2>1 DEF FreshNew
  <2>3. Pending' \subseteq Pending
    BY <2>1, ActorsAssumption DEF Pending
  <2>. QED
    BY <2>1, <2>2, <2>3, CountedKept DEF Counted, Done
<1>2. ASSUME NEW a \in Actors, NEW c \in Chats, NEW S \in SUBSET Msgs, BeginReceipt(a, c, S)
      PROVE  Counted' /\ FreshNew'
  <2>1. /\ stored' = stored /\ chat' = chat
        /\ \A b \in Actors :
             pc'[b] \in {"put", "upsert"} => pc[b] = pc'[b] /\ msg'[b] = msg[b] /\ fresh'[b] = fresh[b]
    BY <1>2 DEF BeginReceipt, Begin, Goto, kvVars, RecordInv, Shape
  <2>2. \A b \in Actors : mine'[b] = IF b = a THEN [x \in {c} |-> chat[c]] ELSE mine[b]
    BY <1>2 DEF BeginReceipt, RecordInv, Shape
  <2>3. \A b \in Actors : \A k \in DOMAIN mine'[b] : mine'[b][k].unread <= Cardinality(Done(k))
    BY <2>2 DEF Counted
  <2>. QED
    BY <2>1, <2>3, DoneKept, CountedKept DEF CountInv, Counted
<1>3. ASSUME NEW a \in Actors, NEW c \in Chats, BeginOpen(a, c)
      PROVE  Counted' /\ FreshNew'
  <2>1. /\ stored' = stored /\ chat' = chat
        /\ \A b \in Actors :
             pc'[b] \in {"put", "upsert"} => pc[b] = pc'[b] /\ msg'[b] = msg[b] /\ fresh'[b] = fresh[b]
    BY <1>3 DEF BeginOpen, Begin, Goto, kvVars, RecordInv, Shape
  <2>2. \A b \in Actors : mine'[b] = IF b = a THEN [x \in {c} |-> chat[c]] ELSE mine[b]
    BY <1>3 DEF BeginOpen, RecordInv, Shape
  <2>3. \A b \in Actors : \A k \in DOMAIN mine'[b] : mine'[b][k].unread <= Cardinality(Done(k))
    BY <2>2 DEF Counted
  <2>. QED
    BY <2>1, <2>3, DoneKept, CountedKept DEF CountInv, Counted
<1>4. ASSUME NEW a \in Actors, NEW C \in SUBSET Chats, BeginTouch(a, C)
      PROVE  Counted' /\ FreshNew'
  <2>1. /\ stored' = stored /\ chat' = chat
        /\ \A b \in Actors :
             pc'[b] \in {"put", "upsert"} => pc[b] = pc'[b] /\ msg'[b] = msg[b] /\ fresh'[b] = fresh[b]
    BY <1>4 DEF BeginTouch, Begin, Goto, kvVars, RecordInv, Shape
  <2>2. \A b \in Actors : mine'[b] = IF b = a THEN [c \in C |-> chat[c]] ELSE mine[b]
    BY <1>4 DEF BeginTouch, RecordInv, Shape
  <2>3. \A b \in Actors : \A k \in DOMAIN mine'[b] : mine'[b][k].unread <= Cardinality(Done(k))
    BY <2>2 DEF Counted
  <2>. QED
    BY <2>1, <2>3, DoneKept, CountedKept DEF CountInv, Counted
<1>5. ASSUME NEW a \in Actors, Step(a)
      PROVE  Counted' /\ FreshNew'
  <2>1. CASE PutMessage(a)
    <3>1. /\ stored' = stored \cup {msg[a]}
          /\ chat' = chat /\ mine' = mine /\ msg' = msg /\ fresh' = fresh
          /\ pc[a] = "put"
          /\ \A b \in Actors : pc'[b] = IF b = a THEN "upsert" ELSE pc[b]
      BY <2>1 DEF PutMessage, Goto, memoryVars, RecordInv, Shape
    <3>2. FreshNew'
      BY <3>1 DEF FreshNew, OneDispatcher, RecordInv, Storing
    <3>3. Pending' \subseteq Pending \cup {msg[d] : d \in {b \in {a} : fresh[a]}}
      BY <3>1, ActorsAssumption DEF Pending
    <3>4. \A c \in Chats : Done(c) \subseteq Done(c)'
      BY <3>1, <3>3 DEF Done, FreshNew
    <3>. QED
      BY <3>1, <3>2, <3>4, CountedKept DEF Counted
  <2>3. CASE MarkMessages(a)
    <3>1. /\ stored' = stored /\ chat' = chat /\ mine' = mine /\ msg' = msg /\ fresh' = fresh
          /\ \A b \in Actors : pc'[b] = IF b = a THEN "clear" ELSE pc[b]
      BY <2>3 DEF MarkMessages, Goto, memoryVars, RecordInv, Shape
    <3>. QED
      BY <3>1, DoneKept, CountedKept DEF Counted
  <2>5. CASE ReadTotal(a)
    <3>1. /\ stored' = stored /\ chat' = chat /\ mine' = mine /\ msg' = msg /\ fresh' = fresh
          /\ \A b \in Actors : pc'[b] = IF b = a THEN "totalPut" ELSE pc[b]
      BY <2>5 DEF ReadTotal, Goto, kvVars, RecordInv, Shape
    <3>. QED
      BY <3>1, DoneKept, CountedKept DEF Counted
  <2>2. CASE UpsertChat(a)
    <3>0. PICK m \in stored, c \in Chats : m = msg[a] /\ c = ChatOf[m]
      BY <2>2, MsgsAssumption DEF UpsertChat, RecordInv, Shape, Storing
    <3> DEFINE r == WithMessage(chat[c], m, fresh[a])
    <3>1. /\ stored' = stored /\ chat' = chat /\ msg' = msg /\ fresh' = fresh
          /\ pc[a] = "upsert"
          /\ \A b \in Actors : pc'[b] \in IF b = a THEN {"total", "chatPut"} ELSE {pc[b]}
          /\ \A b \in Actors : mine'[b] = IF b = a THEN [x \in {c} |-> r] ELSE mine[b]
      BY <2>2, <3>0 DEF UpsertChat, Goto, kvVars, RecordInv, Shape
    <3>2. m \in stored /\ m \in Msgs /\ c \in Chats /\ a \in Dispatchers
      BY <3>0, <3>1, MsgsAssumption DEF RecordInv, Storing
    <3>3. FreshNew' /\ Pending' \subseteq Pending \ {m}
      BY <3>0, <3>1, <3>2, ActorsAssumption DEF FreshNew, Pending, OneDispatcher
    <3>4. \A k \in Chats : Done(k) \subseteq Done(k)'
      BY <3>1, <3>3 DEF Done
    <3>5. /\ chat[c].unread \in Nat /\ r.unread \in Nat
          /\ r.unread <= chat[c].unread + 1
          /\ ~fresh[a] => r.unread <= chat[c].unread
      BY <3>2 DEF RecordInv, RecordsSound, Sound, ChatRecord, WithMessage
    <3>6. chat[c].unread <= Cardinality(Done(c)) /\ Cardinality(Done(c)) \in Nat
      BY <3>2, DoneFinite DEF Counted
    <3>7. /\ Cardinality(Done(c))' \in Nat
          /\ Cardinality(Done(c)) <= Cardinality(Done(c))'
      BY <3>2, <3>4, DoneGrows
    <3>8. ASSUME fresh[a]
          PROVE  r.unread <= Cardinality(Done(c))'
      <4>1. m \notin Done(c)
        BY <3>0, <3>1, <3>2, <3>8 DEF Done, Pending
      <4>2. Done(c) \cup {m} \subseteq Done(c)'
        BY <3>0, <3>1, <3>2, <3>3, <3>4 DEF Done, MessagesOf
      <4>3. Cardinality(Done(c) \cup {m}) = Cardinality(Done(c)) + 1
        BY <4>1, DoneFinite, FS_AddElement
      <4>4. Cardinality(Done(c)) + 1 <= Cardinality(Done(c))'
        <5>1. Done(c)' \subseteq Msgs
          BY DEF Done, RecordInv, Shape
        <5>2. IsFiniteSet(Done(c)')
          BY <5>1, MsgsAssumption, FS_Subset
        <5>. QED
          BY <4>2, <4>3, <5>2, FS_Subset
      <4>. QED
        BY <3>5, <3>6, <3>7, <4>4
    <3>9. r.unread <= Cardinality(Done(c))'
      BY <3>2, <3>5, <3>6, <3>7, <3>8 DEF RecordInv, Shape
    <3> HIDE DEF r
    <3>10. ASSUME NEW k \in Chats, NEW n \in Nat, n <= Cardinality(Done(k))
           PROVE  n <= Cardinality(Done(k))'
      BY <3>4, <3>10, DoneGrows
    <3>11. \A k \in Chats : chat'[k].unread <= Cardinality(Done(k))'
      BY <3>1, <3>10 DEF Counted, RecordInv, RecordsSound, Sound, ChatRecord
    <3>12. ASSUME NEW b \in Actors, NEW k \in DOMAIN mine'[b]
           PROVE  mine'[b][k].unread <= Cardinality(Done(k))'
      <4>1. CASE b = a
        BY <3>1, <3>9, <4>1
      <4>2. CASE b # a
        <5>1. /\ k \in DOMAIN mine[b] /\ k \in Chats
              /\ mine'[b][k] = mine[b][k] /\ mine[b][k].unread \in Nat
          BY <3>1, <4>2 DEF RecordInv, Shape, RecordsSound, Sound, ChatRecord
        <5>. QED
          BY <3>10, <5>1 DEF Counted
      <4>. QED
        BY <4>1, <4>2
    <3>. QED
      BY <3>3, <3>11, <3>12 DEF Counted
  <2>4. CASE ClearChat(a)
    <3>1. stored' = stored /\ chat' = chat
      BY <2>4 DEF ClearChat, kvVars
    <3>2. PICK c \in DOMAIN mine[a] :
            \/ Ended(a)
            \/ /\ mine' = [mine EXCEPT ![a] =
                             [x \in {c} |-> [chat[c] EXCEPT !.unread = 0, !.first = NoMsg]]]
               /\ Goto(a, IF kind[a] = "receipt" THEN "total" ELSE "chatPut")
               /\ UNCHANGED <<msg, fresh>>
      BY <2>4 DEF ClearChat
    <3>3. CASE Ended(a)
      BY <3>1, <3>3, EndKept DEF Counted
    <3>4. CASE ~Ended(a)
      <4> DEFINE r == [chat[c] EXCEPT !.unread = 0, !.first = NoMsg]
      <4>1. c \in Chats /\ r.unread = 0
        BY DEF RecordInv, Shape, ChatRecord
      <4>2. /\ msg' = msg /\ fresh' = fresh
            /\ \A b \in Actors : pc'[b] \in IF b = a THEN {"total", "chatPut"} ELSE {pc[b]}
            /\ \A b \in Actors : mine'[b] = IF b = a THEN [x \in {c} |-> r] ELSE mine[b]
        BY <3>2, <3>4 DEF Goto, RecordInv, Shape
      <4> HIDE DEF r
      <4>3. \A b \in Actors : \A k \in DOMAIN mine'[b] :
              mine'[b][k].unread <= Cardinality(Done(k))
        BY <4>1, <4>2, DoneFinite DEF Counted
      <4>. QED
        BY <3>1, <4>2, <4>3, DoneKept, CountedKept DEF Counted
    <3>. QED
      BY <3>3, <3>4
  <2>6. CASE PutTotal(a)
    <3>1. stored' = stored /\ chat' = chat
      BY <2>6 DEF PutTotal
    <3>2. CASE Ended(a)
      BY <3>1, <3>2, EndKept DEF Counted
    <3>3. CASE Goto(a, "chatPut") /\ UNCHANGED memoryVars
      <4>1. /\ mine' = mine /\ msg' = msg /\ fresh' = fresh
            /\ \A b \in Actors : pc'[b] = IF b = a THEN "chatPut" ELSE pc[b]
        BY <3>3 DEF Goto, memoryVars, RecordInv, Shape
      <4>. QED
        BY <3>1, <4>1, DoneKept, CountedKept DEF Counted
    <3>. QED
      BY <2>6, <3>2, <3>3 DEF PutTotal
  <2>7. CASE PutChat(a)
    <3>1. PICK c \in DOMAIN mine[a] :
            /\ chat' = [chat EXCEPT ![c] = mine[a][c]]
            /\ \/ /\ mine' = [mine EXCEPT ![a] = [x \in DOMAIN mine[a] \ {c} |-> mine[a][x]]]
                  /\ UNCHANGED <<pc, msg, fresh>>
               \/ Goto(a, "total") /\ UNCHANGED memoryVars
               \/ Ended(a)
      BY <2>7 DEF PutChat
    <3>2. stored' = stored
      BY <2>7 DEF PutChat
    <3>3. \A k \in Chats : chat'[k].unread <= Cardinality(Done(k))
      BY <3>1 DEF Counted, RecordInv, Shape
    <3>4. CASE Ended(a)
      BY <3>2, <3>3, <3>4, EndKept
    <3>5. CASE Goto(a, "total") /\ UNCHANGED memoryVars
      <4>1. /\ mine' = mine /\ msg' = msg /\ fresh' = fresh
            /\ \A b \in Actors : pc'[b] = IF b = a THEN "total" ELSE pc[b]
        BY <3>5 DEF Goto, memoryVars, RecordInv, Shape
      <4>. QED
        BY <3>2, <3>3, <4>1, DoneKept, CountedKept DEF Counted
    <3>6. CASE /\ mine' = [mine EXCEPT ![a] = [x \in DOMAIN mine[a] \ {c} |-> mine[a][x]]]
               /\ UNCHANGED <<pc, msg, fresh>>
      <4>1. \A b \in Actors \ {a} : mine'[b] = mine[b]
        BY <3>6 DEF RecordInv, Shape
      <4>2. mine'[a] = [x \in DOMAIN mine[a] \ {c} |-> mine[a][x]]
        BY <3>6 DEF RecordInv, Shape
      <4>3. \A b \in Actors : \A k \in DOMAIN mine'[b] :
              mine'[b][k].unread <= Cardinality(Done(k))
        BY <4>1, <4>2 DEF Counted
      <4>. QED
        BY <3>2, <3>3, <3>6, <4>3, DoneKept, CountedKept
    <3>. QED
      BY <3>1, <3>4, <3>5, <3>6
  <2>. QED
    BY <1>5, <2>1, <2>2, <2>3, <2>4, <2>5, <2>6, <2>7 DEF Step
<1>6. ASSUME Crash
      PROVE  Counted' /\ FreshNew'
  <2>1. /\ stored' = stored /\ chat' = chat
        /\ \A b \in Actors : pc'[b] = "idle" /\ DOMAIN mine'[b] = {}
    BY <1>6 DEF Crash, kvVars, NoRecords
  <2>. QED
    BY <2>1, DoneKept, CountedKept DEF Counted
<1>7. ASSUME Restart
      PROVE  Counted' /\ FreshNew'
  <2>1. UNCHANGED <<stored, chat, pc, msg, fresh, mine>>
    BY <1>7 DEF Restart, memoryVars
  <2>. QED
    BY <2>1, DoneKept, CountedKept DEF Counted
<1>8. ASSUME UNCHANGED vars
      PROVE  Counted' /\ FreshNew'
  <2>1. UNCHANGED <<stored, chat, pc, msg, fresh, mine>>
    BY <1>8 DEF vars, kvVars, memoryVars
  <2>. QED
    BY <2>1, DoneKept, CountedKept DEF Counted
<1>. QED
  BY <1>1, <1>2, <1>3, <1>4, <1>5, <1>6, <1>7, <1>8 DEF Next

LEMMA CountInit ==
  ASSUME Init
  PROVE  CountInv
<1>1. RecordInv
  BY RecordInit
<1>2. \A c \in Chats : chat[c].unread = 0
  BY DEF Init
<1>. QED
  BY <1>1, <1>2, DoneFinite DEF Init, CountInv, Counted, FreshNew, NoRecords

(* With one dispatcher the counts stay bounded.                            *)
THEOREM CountInvariance ==
  ASSUME OneDispatcher
  PROVE  Spec => []CountInv
<1>1. Init => CountInv
  BY CountInit
<1>2. CountInv /\ [Next]_vars => CountInv'
  BY CountStep, RecordStep DEF CountInv
<1>. QED
  BY <1>1, <1>2, PTL DEF Spec

(* With one dispatcher no message is counted twice: a chat never shows     *)
(* more unread messages than it has received, through redeliveries,        *)
(* crashes and stale records.                                              *)
THEOREM Once ==
  ASSUME OneDispatcher
  PROVE  Spec => []CountedOnce
<1>1. ASSUME CountInv
      PROVE  CountedOnce
  <2>1. ASSUME NEW c \in Chats
        PROVE  Cardinality(Done(c)) <= Cardinality(stored \cap MessagesOf(c))
    <3>1. IsFiniteSet(stored \cap MessagesOf(c))
      BY <1>1, MsgsAssumption, FS_Subset DEF CountInv, RecordInv, Shape
    <3>. QED
      BY <3>1, FS_Subset DEF Done
  <2>2. ASSUME NEW c \in Chats
        PROVE  /\ chat[c].unread \in Nat /\ Cardinality(Done(c)) \in Nat
               /\ Cardinality(stored \cap MessagesOf(c)) \in Nat
    <3>1. IsFiniteSet(stored \cap MessagesOf(c))
      BY <1>1, MsgsAssumption, FS_Subset DEF CountInv, RecordInv, Shape
    <3>. QED
      BY <1>1, <3>1, DoneFinite, FS_CardinalityType
         DEF CountInv, RecordInv, RecordsSound, Sound, ChatRecord
  <2>. QED
    BY <1>1, <2>1, <2>2 DEF CountInv, Counted, CountedOnce
<1>. QED
  BY <1>1, CountInvariance, PTL

-----------------------------------------------------------------------------
(* Types.                                                                  *)

(* The total a restart computes is a number.                               *)
LEMMA UnreadsType ==
  ASSUME chat \in [Chats -> ChatRecord]
  PROVE  Unreads \in Nat
<1>. DEFINE f == [c \in Chats |-> chat[c].unread]
<1>1. \A c \in DOMAIN f : f[c] \in Nat
  BY DEF ChatRecord
<1>2. Unreads = SumFunctionOnSet(f, Chats)
  BY DEF Unreads, SumFunction
<1>. HIDE DEF f
<1>3. DOMAIN f = Chats
  BY DEF f
<1>. QED
  BY <1>1, <1>2, <1>3, SumType, ChatsAssumption

(* The end of an operation keeps the types.                                *)
LEMMA EndTyped ==
  ASSUME TypeOK, NEW a \in Actors, Ended(a)
  PROVE  /\ pc' \in [Actors -> States] /\ kind' \in [Actors -> Kinds]
         /\ msg' \in [Actors -> Msgs \cup {NoMsg}] /\ fresh' \in [Actors -> BOOLEAN]
         /\ keys' \in [Actors -> SUBSET stored]
         /\ amount' \in [Actors -> Int] /\ seen' \in [Actors -> Nat]
BY DEF TypeOK, Ended, Goto, States, Kinds

(* Every step keeps the types.                                             *)
LEMMA TypeStep ==
  ASSUME RecordInv, RecordInv', TypeOK, [Next]_vars
  PROVE  TypeOK'
<1>. DEFINE Rest == /\ read' \subseteq stored' /\ total' \in Nat /\ kind' \in [Actors -> Kinds]
                    /\ keys' \in [Actors -> SUBSET stored']
                    /\ amount' \in [Actors -> Int] /\ seen' \in [Actors -> Nat]
                    /\ up' \in BOOLEAN /\ overlap' \in BOOLEAN
                    /\ ops' \in 0 .. MaxOps /\ crashes' \in 0 .. MaxCrashes
<1>0. Rest => TypeOK'
  BY DEF TypeOK, RecordInv, Shape, RecordsSound, Sound
<1>a. MaxOps \in Nat /\ MaxCrashes \in Nat
  BY BoundAssumption
<1>1. ASSUME NEW a \in Actors, NEW k \in Kinds, Begin(a, k), UNCHANGED kvVars, UNCHANGED <<amount, seen>>,
             keys' = keys \/ \E S \in SUBSET stored : keys' = [keys EXCEPT ![a] = S]
      PROVE  Rest
  BY <1>a, <1>1 DEF TypeOK, Begin, kvVars
<1>2. ASSUME NEW a \in Actors, NEW m \in Msgs, BeginMessage(a, m)
      PROVE  Rest
  BY <1>1, <1>2 DEF BeginMessage, Kinds
<1>3. ASSUME NEW a \in Actors, NEW c \in Chats, NEW S \in SUBSET Msgs, BeginReceipt(a, c, S)
      PROVE  Rest
  BY <1>1, <1>3 DEF BeginReceipt, Kinds
<1>4. ASSUME NEW a \in Actors, NEW c \in Chats, BeginOpen(a, c)
      PROVE  Rest
  <2>1. (stored \cap MessagesOf(c)) \ read \in SUBSET stored
    OBVIOUS
  <2>. QED
    BY <1>1, <1>4, <2>1 DEF BeginOpen, Kinds
<1>5. ASSUME NEW a \in Actors, NEW C \in SUBSET Chats, BeginTouch(a, C)
      PROVE  Rest
  BY <1>1, <1>5 DEF BeginTouch, Kinds
<1>6. ASSUME NEW a \in Actors, Step(a)
      PROVE  Rest
  <2>0. UNCHANGED envVars => /\ up' \in BOOLEAN /\ overlap' \in BOOLEAN
                             /\ ops' \in 0 .. MaxOps /\ crashes' \in 0 .. MaxCrashes
    BY DEF TypeOK, envVars
  <2>1. CASE PutMessage(a)
    BY <2>0, <2>1 DEF PutMessage, TypeOK, memoryVars
  <2>2. CASE UpsertChat(a)
    <3>. DEFINE c == ChatOf[msg[a]]
                r == WithMessage(chat[c], msg[a], fresh[a])
    <3>1. c \in Chats /\ chat[c].unread \in Nat
      BY <2>2, MsgsAssumption DEF UpsertChat, RecordInv, Storing, TypeOK, ChatRecord
    <3>2. r.unread \in Nat
      BY <3>1 DEF WithMessage
    <3>3. r.unread - chat[c].unread \in Int
      BY <3>1, <3>2
    <3>4. amount' = [amount EXCEPT ![a] = r.unread - chat[c].unread]
      BY <2>2 DEF UpsertChat
    <3>. HIDE DEF r, c
    <3>5. amount' \in [Actors -> Int]
      BY <3>3, <3>4 DEF TypeOK
    <3>. QED
      BY <2>0, <2>2, <3>5 DEF UpsertChat, TypeOK, kvVars
  <2>3. CASE MarkMessages(a)
    BY <2>0, <2>3 DEF MarkMessages, TypeOK, memoryVars
  <2>4. CASE ClearChat(a)
    <3>1. PICK c \in DOMAIN mine[a] :
            \/ Ended(a)
            \/ /\ amount' = [amount EXCEPT ![a] = 0 - CountOf(chat[c])]
               /\ UNCHANGED <<kind, msg, fresh, keys, seen>>
      BY <2>4 DEF ClearChat
    <3>2. CASE Ended(a)
      BY <2>0, <2>4, <3>2, EndTyped DEF ClearChat, TypeOK, kvVars
    <3>3. CASE ~Ended(a)
      <4>1. 0 - CountOf(chat[c]) \in Int
        BY DEF TypeOK, ChatRecord, CountOf
      <4>. QED
        BY <2>0, <2>4, <3>1, <3>3, <4>1 DEF ClearChat, TypeOK, kvVars
    <3>. QED
      BY <3>2, <3>3
  <2>5. CASE ReadTotal(a)
    BY <2>0, <2>5 DEF ReadTotal, TypeOK, kvVars
  <2>6. CASE PutTotal(a)
    <3>1. total' \in Nat
      BY <2>6 DEF PutTotal, AtLeastZero, TypeOK
    <3>2. CASE Ended(a)
      BY <2>0, <2>6, <3>1, <3>2, EndTyped DEF PutTotal, TypeOK
    <3>3. CASE UNCHANGED memoryVars
      BY <2>0, <2>6, <3>1, <3>3 DEF PutTotal, TypeOK, memoryVars
    <3>. QED
      BY <2>6, <3>2, <3>3 DEF PutTotal
  <2>7. CASE PutChat(a)
    <3>1. CASE Ended(a)
      BY <2>0, <2>7, <3>1, EndTyped DEF PutChat, TypeOK
    <3>2. CASE UNCHANGED <<kind, keys, amount, seen>>
      BY <2>0, <2>7, <3>2 DEF PutChat, TypeOK
    <3>. QED
      BY <2>7, <3>1, <3>2 DEF PutChat, memoryVars
  <2>. QED
    BY <1>6, <2>1, <2>2, <2>3, <2>4, <2>5, <2>6, <2>7 DEF Step
<1>7. ASSUME Crash
      PROVE  Rest
  <2>1. crashes' \in 0 .. MaxCrashes
    BY <1>a, <1>7 DEF Crash, TypeOK
  <2>2. kind' \in [Actors -> Kinds] /\ amount' \in [Actors -> Int] /\ seen' \in [Actors -> Nat]
    BY <1>7 DEF Crash, Kinds
  <2>3. keys' \in [Actors -> SUBSET stored']
    BY <1>7 DEF Crash
  <2>. QED
    BY <1>7, <2>1, <2>2, <2>3 DEF Crash, TypeOK, kvVars
<1>8. ASSUME Restart
      PROVE  Rest
  BY <1>8, UnreadsType DEF Restart, TypeOK, memoryVars
<1>9. ASSUME UNCHANGED vars
      PROVE  Rest
  BY <1>9 DEF TypeOK, vars, kvVars, memoryVars, envVars
<1>. HIDE DEF Rest
<1>. QED
  BY <1>0, <1>2, <1>3, <1>4, <1>5, <1>6, <1>7, <1>8, <1>9 DEF Next

LEMMA TypeInit ==
  ASSUME Init
  PROVE  TypeOK
<1>1. ops \in 0 .. MaxOps /\ crashes \in 0 .. MaxCrashes
  BY BoundAssumption DEF Init
<1>2. RecordInv
  BY RecordInit
<1>3. /\ kind \in [Actors -> Kinds] /\ keys \in [Actors -> SUBSET stored]
      /\ amount \in [Actors -> Int] /\ seen \in [Actors -> Nat]
  BY DEF Init, Kinds
<1>. QED
  BY <1>1, <1>2, <1>3 DEF Init, TypeOK, RecordInv, Shape, RecordsSound, Sound

(* Every variable has its type in every state.                             *)
THEOREM Typing == Spec => []TypeOK
<1>1. Init => TypeOK
  BY TypeInit
<1>2. RecordInv /\ RecordInv' /\ TypeOK /\ [Next]_vars => TypeOK'
  BY TypeStep
<1>. QED
  BY <1>1, <1>2, RecordInvariance, PTL DEF Spec

-----------------------------------------------------------------------------
(* The total.                                                              *)

(* The sum of the counts is at least each of them, and a chat's record put *)
(* changes it by what it changes the chat's count.                         *)
LEMMA UnreadsSplit ==
  ASSUME chat \in [Chats -> ChatRecord], NEW c \in Chats
  PROVE  \E n \in Nat : Unreads = chat[c].unread + n
<1>. DEFINE f == [k \in Chats |-> chat[k].unread]
<1>1. \A k \in Chats : f[k] \in Nat
  BY DEF ChatRecord
<1>2. Unreads = SumFunctionOnSet(f, Chats) /\ f[c] = chat[c].unread
  BY DEF Unreads, SumFunction
<1>. HIDE DEF f
<1>3. SumFunctionOnSet(f, Chats) = f[c] + SumFunctionOnSet(f, Chats \ {c})
  BY <1>1, SumWithout, ChatsAssumption
<1>4. SumFunctionOnSet(f, Chats \ {c}) \in Nat
  BY <1>1, SumType, ChatsAssumption, FS_Subset
<1>. QED
  BY <1>2, <1>3, <1>4

LEMMA UnreadsPut ==
  ASSUME chat \in [Chats -> ChatRecord], NEW c \in Chats, NEW r \in ChatRecord,
         chat' = [chat EXCEPT ![c] = r]
  PROVE  Unreads' = Unreads + (r.unread - chat[c].unread)
<1>. DEFINE f == [k \in Chats |-> chat[k].unread]
            g == [k \in Chats |-> chat'[k].unread]
<1>1. \A k \in Chats : f[k] \in Nat /\ g[k] \in Nat
  BY DEF ChatRecord
<1>2. \A k \in Chats \ {c} : f[k] = g[k]
  OBVIOUS
<1>3. /\ Unreads = SumFunctionOnSet(f, Chats) /\ f[c] = chat[c].unread
      /\ Unreads' = SumFunctionOnSet(g, Chats) /\ g[c] = r.unread
  BY DEF Unreads, SumFunction
<1>. HIDE DEF f, g
<1>4. IsFiniteSet(Chats \ {c})
  BY ChatsAssumption, FS_Subset
<1>5. /\ SumFunctionOnSet(f, Chats) = f[c] + SumFunctionOnSet(f, Chats \ {c})
      /\ SumFunctionOnSet(g, Chats) = g[c] + SumFunctionOnSet(g, Chats \ {c})
  BY <1>1, SumWithout, ChatsAssumption
<1>6. SumFunctionOnSet(f, Chats \ {c}) = SumFunctionOnSet(g, Chats \ {c})
  BY <1>2, <1>4, SumSame
<1>7. SumFunctionOnSet(f, Chats \ {c}) \in Nat
  BY <1>1, <1>4, SumType
<1>. QED
  BY <1>1, <1>3, <1>5, <1>6, <1>7

Busy(a) == pc[a] # "idle"

(* What an operation is at each of its steps; none is under way while the  *)
(* application is down.                                                    *)
Kinded ==
  \A a \in Actors :
    /\ Busy(a) => up
    /\ pc[a] \in {"put", "upsert"} => kind[a] = "message"
    /\ pc[a] \in {"keys", "clear"} => kind[a] \in {"receipt", "open"}
    /\ pc[a] \in {"total", "totalPut"} => kind[a] \in {"message", "receipt", "open"}

(* Until two operations overlap, one at most is under way.                 *)
Solo == ~overlap => \A a, b \in Actors : Busy(a) /\ Busy(b) => a = b

(* The thread holds one chat's record, and amount is what it changes.      *)
OneRecord(a) ==
  \E c \in Chats : DOMAIN mine[a] = {c} /\ amount[a] = mine[a][c].unread - chat[c].unread

(* What the total lacks, or has too much, at each step of an operation:    *)
(* a message and a receipt put the total before the chat, opening a chat   *)
(* after it.                                                               *)
Balance(a) ==
  /\ pc[a] \in {"put", "upsert", "keys", "clear"} => total = Unreads
  /\ pc[a] \in {"total", "totalPut"} =>
       /\ kind[a] = "open" => total + amount[a] = Unreads
       /\ kind[a] # "open" => OneRecord(a) /\ total = Unreads
  /\ pc[a] = "totalPut" => seen[a] = total
  /\ pc[a] = "chatPut" =>
       /\ kind[a] = "touch" => total = Unreads /\ \A c \in DOMAIN mine[a] : mine[a][c] = chat[c]
       /\ kind[a] = "open" => OneRecord(a) /\ total = Unreads
       /\ kind[a] \notin {"touch", "open"} => OneRecord(a) /\ total = Unreads + amount[a]

Balanced ==
  up /\ ~overlap =>
    /\ \A a \in Actors : Busy(a) => Balance(a)
    /\ (\A a \in Actors : ~Busy(a)) => total = Unreads

TotalInv == RecordInv /\ TypeOK /\ Kinded /\ Solo /\ Balanced

(* A step of an operation moves its thread only.                           *)
LEMMA StepMoves ==
  ASSUME TypeOK, Kinded, NEW a \in Actors, Step(a)
  PROVE  /\ Busy(a) /\ up' = up /\ overlap' = overlap
         /\ \A b \in Actors \ {a} : pc'[b] = pc[b] /\ kind'[b] = kind[b]
         /\ pc'[a] \in {"put", "upsert"} => kind'[a] = "message"
         /\ pc'[a] \in {"keys", "clear"} => kind'[a] \in {"receipt", "open"}
         /\ pc'[a] \in {"total", "totalPut"} => kind'[a] \in {"message", "receipt", "open"}
<1>. USE DEF Busy, Kinded, TypeOK, Goto, envVars, memoryVars
<1>1. CASE PutMessage(a)
  BY <1>1 DEF PutMessage
<1>2. CASE UpsertChat(a)
  BY <1>2 DEF UpsertChat
<1>3. CASE MarkMessages(a)
  BY <1>3 DEF MarkMessages
<1>4. CASE ClearChat(a)
  BY <1>4 DEF ClearChat, Ended
<1>5. CASE ReadTotal(a)
  BY <1>5 DEF ReadTotal
<1>6. CASE PutTotal(a)
  BY <1>6 DEF PutTotal, Ended
<1>7. CASE PutChat(a)
  BY <1>7 DEF PutChat, Ended
<1>. QED
  BY <1>1, <1>2, <1>3, <1>4, <1>5, <1>6, <1>7 DEF Step

(* The steps keep the kinds, and one operation at a time until two overlap.*)
LEMMA SoloStep ==
  ASSUME TypeOK, Kinded, Solo, [Next]_vars
  PROVE  Kinded' /\ Solo'
<1>1. ASSUME NEW a \in Actors, NEW k \in Kinds, Begin(a, k), NEW s \in States, Goto(a, s),
             s \in {"put", "upsert"} => k = "message",
             s \in {"keys", "clear"} => k \in {"receipt", "open"}, s \notin {"total", "totalPut"}
      PROVE  Kinded' /\ Solo'
  <2>1. \A b \in Actors : /\ pc'[b] = IF b = a THEN s ELSE pc[b]
                          /\ kind'[b] = IF b = a THEN k ELSE kind[b]
    BY <1>1 DEF Begin, Goto, TypeOK
  <2>2. Kinded'
    BY <1>1, <2>1 DEF Begin, Kinded, Busy
  <2>3. Solo'
    BY <1>1, <2>1 DEF Begin, Solo, Busy
  <2>. QED
    BY <2>2, <2>3
<1>2. ASSUME NEW a \in Actors, NEW m \in Msgs, BeginMessage(a, m)
      PROVE  Kinded' /\ Solo'
  BY <1>1, <1>2 DEF BeginMessage, Kinds, States
<1>3. ASSUME NEW a \in Actors, NEW c \in Chats, NEW S \in SUBSET Msgs, BeginReceipt(a, c, S)
      PROVE  Kinded' /\ Solo'
  BY <1>1, <1>3 DEF BeginReceipt, Kinds, States
<1>4. ASSUME NEW a \in Actors, NEW c \in Chats, BeginOpen(a, c)
      PROVE  Kinded' /\ Solo'
  BY <1>1, <1>4 DEF BeginOpen, Kinds, States
<1>5. ASSUME NEW a \in Actors, NEW C \in SUBSET Chats, BeginTouch(a, C)
      PROVE  Kinded' /\ Solo'
  BY <1>1, <1>5 DEF BeginTouch, Kinds, States
<1>6. ASSUME NEW a \in Actors, Step(a)
      PROVE  Kinded' /\ Solo'
  <2>1. /\ Busy(a) /\ up' = up /\ overlap' = overlap
        /\ \A b \in Actors \ {a} : pc'[b] = pc[b] /\ kind'[b] = kind[b]
        /\ pc'[a] \in {"put", "upsert"} => kind'[a] = "message"
        /\ pc'[a] \in {"keys", "clear"} => kind'[a] \in {"receipt", "open"}
        /\ pc'[a] \in {"total", "totalPut"} => kind'[a] \in {"message", "receipt", "open"}
    BY <1>6, StepMoves
  <2>. QED
    BY <2>1 DEF Kinded, Solo, Busy
<1>7. CASE Crash
  BY <1>7 DEF Crash, Kinded, Solo, Busy
<1>8. CASE Restart
  BY <1>8 DEF Restart, memoryVars, Kinded, Solo, Busy
<1>9. CASE UNCHANGED vars
  BY <1>9 DEF vars, memoryVars, envVars, Kinded, Solo, Busy
<1>. QED
  BY <1>2, <1>3, <1>4, <1>5, <1>6, <1>7, <1>8, <1>9 DEF Next

(* A thread whose operation is the only one under way decides the balance. *)
LEMMA AloneDecides ==
  ASSUME NEW a \in Actors, \A b \in Actors \ {a} : ~Busy(b)',
         IF Busy(a)' THEN Balance(a)' ELSE total' = Unreads'
  PROVE  Balanced'
BY DEF Balanced, Busy

(* Every step keeps the balance.                                           *)
LEMMA BalanceStep ==
  ASSUME TotalInv, TypeOK', [Next]_vars
  PROVE  Balanced'
<1>. SUFFICES ASSUME up' /\ ~overlap' PROVE Balanced'
  BY DEF Balanced
<1>. USE DEF TotalInv
<1>0. chat' = chat => Unreads' = Unreads
  BY DEF Unreads
<1>1. ASSUME NEW a \in Actors, NEW k, Begin(a, k), NEW s, Goto(a, s), UNCHANGED kvVars,
             s \in {"put", "keys"} \/ (s = "chatPut" /\ k = "touch" /\ \A c \in DOMAIN mine'[a] : mine'[a][c] = chat[c])
      PROVE  Balanced'
  <2>1. /\ \A b \in Actors : ~Busy(b)
        /\ total = Unreads
    BY <1>1 DEF Begin, Busy, Balanced
  <2>2. /\ \A b \in Actors : pc'[b] = IF b = a THEN s ELSE pc[b]
        /\ kind'[a] = k
    BY <1>1 DEF Begin, Goto, TypeOK
  <2>3. total' = Unreads' /\ chat' = chat
    BY <1>0, <1>1, <2>1 DEF kvVars
  <2>4. Balance(a)'
    BY <1>1, <2>2, <2>3 DEF Balance
  <2>5. \A b \in Actors \ {a} : ~Busy(b)'
    BY <2>1, <2>2 DEF Busy
  <2>. QED
    BY <2>3, <2>4, <2>5, AloneDecides
<1>2. ASSUME NEW a \in Actors, NEW m \in Msgs, BeginMessage(a, m)
      PROVE  Balanced'
  BY <1>1, <1>2 DEF BeginMessage
<1>3. ASSUME NEW a \in Actors, NEW c \in Chats, NEW S \in SUBSET Msgs, BeginReceipt(a, c, S)
      PROVE  Balanced'
  BY <1>1, <1>3 DEF BeginReceipt
<1>4. ASSUME NEW a \in Actors, NEW c \in Chats, BeginOpen(a, c)
      PROVE  Balanced'
  BY <1>1, <1>4 DEF BeginOpen
<1>5. ASSUME NEW a \in Actors, NEW C \in SUBSET Chats, BeginTouch(a, C)
      PROVE  Balanced'
  <2>1. \A c \in DOMAIN mine'[a] : mine'[a][c] = chat[c]
    BY <1>5 DEF BeginTouch, RecordInv, Shape
  <2>. QED
    BY <1>1, <1>5, <2>1 DEF BeginTouch
<1>6. ASSUME NEW a \in Actors, Step(a)
      PROVE  Balanced'
  <2>0. /\ Busy(a) /\ Balance(a) /\ up /\ ~overlap
        /\ \A b \in Actors \ {a} : ~Busy(b)'
    <3>1. Busy(a) /\ up /\ ~overlap
      BY <1>6, StepMoves
    <3>2. \A b \in Actors \ {a} : ~Busy(b) /\ pc'[b] = pc[b]
      BY <1>6, <3>1, StepMoves DEF Solo
    <3>. QED
      BY <3>1, <3>2 DEF Balanced, Busy
  <2>. SUFFICES IF Busy(a)' THEN Balance(a)' ELSE total' = Unreads'
    BY <2>0, AloneDecides
  <2>a. Ended(a) => ~Busy(a)'
    BY DEF Ended, Goto, Busy, TypeOK
  <2>b. Unreads \in Nat
    BY UnreadsType DEF TypeOK
  <2>1. CASE PutMessage(a)
    BY <1>0, <2>0, <2>1 DEF PutMessage, Balance, Goto, TypeOK
  <2>2. CASE UpsertChat(a)
    <3>. DEFINE c == ChatOf[msg[a]]
                r == WithMessage(chat[c], msg[a], fresh[a])
    <3>1. c \in Chats /\ chat[c].unread \in Nat
      BY <2>2, MsgsAssumption DEF UpsertChat, RecordInv, Storing, TypeOK, ChatRecord
    <3>2. kind'[a] = "message" /\ total' = Unreads' /\ chat' = chat
      BY <1>0, <2>0, <2>2 DEF UpsertChat, Balance, Kinded, kvVars
    <3>3. /\ mine'[a] = [x \in {c} |-> r] /\ amount'[a] = r.unread - chat[c].unread
          /\ pc'[a] = IF r.unread # chat[c].unread THEN "total" ELSE "chatPut"
      BY <2>2 DEF UpsertChat, Goto, TypeOK, RecordInv, Shape
    <3>. HIDE DEF c, r
    <3>4. OneRecord(a)'
      BY <3>1, <3>2, <3>3 DEF OneRecord
    <3>5. pc'[a] = "chatPut" => amount'[a] = 0
      BY <3>1, <3>3
    <3>6. pc'[a] = "chatPut" => total' = Unreads' + amount'[a]
      BY <1>0, <2>b, <3>2, <3>5
    <3>. QED
      BY <3>2, <3>3, <3>4, <3>6 DEF Balance, Busy
  <2>3. CASE MarkMessages(a)
    BY <1>0, <2>0, <2>3 DEF MarkMessages, Balance, Goto, TypeOK
  <2>4. CASE ClearChat(a)
    <3>1. total' = Unreads' /\ chat' = chat
      BY <1>0, <2>0, <2>4 DEF ClearChat, Balance, kvVars
    <3>2. CASE Ended(a)
      BY <2>a, <3>1, <3>2
    <3>3. CASE ~Ended(a)
      <4>1. PICK c \in DOMAIN mine[a] :
              /\ mine' = [mine EXCEPT ![a] =
                            [x \in {c} |-> [chat[c] EXCEPT !.unread = 0, !.first = NoMsg]]]
              /\ amount' = [amount EXCEPT ![a] = 0 - CountOf(chat[c])]
              /\ Goto(a, IF kind[a] = "receipt" THEN "total" ELSE "chatPut")
              /\ kind' = kind
        BY <2>4, <3>3 DEF ClearChat
      <4>2. c \in Chats /\ kind[a] \in {"receipt", "open"}
        BY <2>4 DEF ClearChat, Kinded, RecordInv, Shape
      <4>3. chat[c] \in ChatRecord
        BY <4>2 DEF TypeOK
      <4>4. /\ DOMAIN mine'[a] = {c} /\ mine'[a][c].unread = 0
            /\ amount'[a] = 0 - chat[c].unread
        BY <4>1, <4>3 DEF CountOf, TypeOK, RecordInv, Shape, ChatRecord
      <4>5. OneRecord(a)'
        BY <3>1, <4>2, <4>4 DEF OneRecord
      <4>6. pc'[a] = IF kind'[a] = "receipt" THEN "total" ELSE "chatPut"
        BY <4>1 DEF Goto, TypeOK
      <4>. QED
        BY <3>1, <4>1, <4>2, <4>5, <4>6 DEF Balance, Busy
    <3>. QED
      BY <3>2, <3>3
  <2>5. CASE ReadTotal(a)
    <3>1. /\ pc[a] = "total" /\ pc'[a] = "totalPut" /\ seen'[a] = total
          /\ kind'[a] = kind[a] /\ mine' = mine /\ amount' = amount /\ chat' = chat /\ total' = total
      BY <2>5 DEF ReadTotal, Goto, TypeOK, kvVars
    <3>. QED
      BY <1>0, <2>0, <3>1 DEF Balance, OneRecord, Busy
  <2>6. CASE PutTotal(a)
    <3>1. /\ pc[a] = "totalPut" /\ seen[a] = total /\ chat' = chat
          /\ total' = AtLeastZero(total + amount[a])
      BY <2>0, <2>6 DEF PutTotal, Balance
    <3>2. CASE kind[a] = "open"
      <4>1. total' = Unreads'
        BY <1>0, <2>0, <2>b, <3>1, <3>2 DEF Balance, AtLeastZero
      <4>. QED
        BY <2>6, <2>a, <3>2, <4>1 DEF PutTotal
    <3>3. CASE kind[a] # "open"
      <4>1. PICK c \in Chats : DOMAIN mine[a] = {c} /\ amount[a] = mine[a][c].unread - chat[c].unread
        BY <2>0, <3>1, <3>3 DEF Balance, OneRecord
      <4>2. total = Unreads
        BY <2>0, <3>1, <3>3 DEF Balance
      <4>3. /\ chat[c].unread \in Nat /\ mine[a][c].unread \in Nat
            /\ \E n \in Nat : Unreads = chat[c].unread + n
        BY <4>1, UnreadsSplit DEF TypeOK, RecordInv, RecordsSound, Sound, ChatRecord
      <4>4. total' = Unreads' + amount[a]
        BY <1>0, <3>1, <4>1, <4>2, <4>3 DEF AtLeastZero
      <4>5. /\ pc'[a] = "chatPut" /\ kind'[a] \in {"message", "receipt"}
            /\ mine' = mine /\ amount' = amount
        BY <2>6, <3>1, <3>3 DEF PutTotal, Goto, TypeOK, memoryVars, Kinded
      <4>6. OneRecord(a)'
        BY <3>1, <4>1, <4>5 DEF OneRecord
      <4>. QED
        BY <4>4, <4>5, <4>6 DEF Balance, Busy
    <3>. QED
      BY <3>2, <3>3
  <2>7. CASE PutChat(a)
    <3>1. PICK c \in DOMAIN mine[a] :
            /\ chat' = [chat EXCEPT ![c] = mine[a][c]]
            /\ IF DOMAIN mine[a] # {c}
                 THEN /\ mine' = [mine EXCEPT ![a] = [x \in DOMAIN mine[a] \ {c} |-> mine[a][x]]]
                      /\ UNCHANGED <<pc, kind, msg, fresh, keys, amount, seen>>
                 ELSE IF kind[a] = "open"
                        THEN Goto(a, "total") /\ UNCHANGED memoryVars
                        ELSE Ended(a)
      BY <2>7 DEF PutChat
    <3>2. /\ pc[a] = "chatPut" /\ total' = total
          /\ c \in Chats /\ mine[a][c] \in ChatRecord
      BY <2>7 DEF PutChat, RecordInv, Shape, RecordsSound, Sound
    <3>3. /\ Unreads' = Unreads + (mine[a][c].unread - chat[c].unread)
          /\ mine[a][c].unread \in Nat /\ chat[c].unread \in Nat
      BY <3>1, <3>2, UnreadsPut DEF TypeOK, ChatRecord
    <3>4. CASE kind[a] = "touch"
      <4>1. total = Unreads /\ \A k \in DOMAIN mine[a] : mine[a][k] = chat[k]
        BY <2>0, <3>2, <3>4 DEF Balance
      <4>2. chat' = chat
        BY <3>1, <3>2, <4>1 DEF TypeOK
      <4>3. total' = Unreads'
        BY <1>0, <3>2, <4>1, <4>2
      <4>4. CASE DOMAIN mine[a] = {c}
        BY <2>a, <3>1, <3>4, <4>3, <4>4
      <4>5. CASE DOMAIN mine[a] # {c}
        <5>1. mine'[a] = [x \in DOMAIN mine[a] \ {c} |-> mine[a][x]] /\ pc' = pc /\ kind' = kind
          BY <3>1, <4>5 DEF RecordInv, Shape
        <5>. QED
          BY <3>2, <3>4, <4>1, <4>2, <4>3, <5>1 DEF Balance, Busy
      <4>. QED
        BY <4>4, <4>5
    <3>5. CASE kind[a] # "touch"
      <4>1. OneRecord(a)
        BY <2>0, <3>2, <3>5 DEF Balance
      <4>2. DOMAIN mine[a] = {c} /\ amount[a] = mine[a][c].unread - chat[c].unread
        BY <4>1 DEF OneRecord
      <4>3. CASE kind[a] = "open"
        <5>1. pc'[a] = "total" /\ kind'[a] = "open" /\ amount' = amount
          BY <3>1, <4>2, <4>3 DEF Goto, TypeOK, memoryVars
        <5>2. total' + amount'[a] = Unreads'
          BY <2>0, <2>b, <3>2, <3>3, <4>2, <4>3, <5>1 DEF Balance
        <5>. QED
          BY <5>1, <5>2 DEF Balance, Busy
      <4>4. CASE kind[a] # "open"
        <5>1. total' = Unreads'
          BY <2>0, <2>b, <3>2, <3>3, <3>5, <4>2, <4>4 DEF Balance
        <5>. QED
          BY <2>a, <3>1, <4>2, <4>4, <5>1
      <4>. QED
        BY <4>3, <4>4
    <3>. QED
      BY <3>4, <3>5
  <2>. QED
    BY <1>6, <2>1, <2>2, <2>3, <2>4, <2>5, <2>6, <2>7 DEF Step
<1>7. CASE Crash
  BY <1>7 DEF Crash
<1>8. CASE Restart
  <2>1. total' = Unreads' /\ pc' = pc
    BY <1>0, <1>8 DEF Restart
  <2>2. \A a \in Actors : ~Busy(a)'
    BY <1>8, <2>1 DEF Restart, Kinded, Busy
  <2>. QED
    BY <2>1, <2>2 DEF Balanced
<1>9. CASE UNCHANGED vars
  BY <1>0, <1>9 DEF vars, kvVars, memoryVars, envVars, Balanced, Balance, OneRecord, Busy
<1>. QED
  BY <1>2, <1>3, <1>4, <1>5, <1>6, <1>7, <1>8, <1>9 DEF Next

LEMMA TotalInit ==
  ASSUME Init
  PROVE  TotalInv
<1>1. RecordInv /\ TypeOK
  BY RecordInit, TypeInit
<1>2. Kinded /\ Solo /\ \A a \in Actors : ~Busy(a)
  BY DEF Init, Kinded, Solo, Busy
<1>3. Unreads = 0
  <2>. DEFINE f == [c \in Chats |-> chat[c].unread]
  <2>1. \A c \in Chats : f[c] = 0
    BY DEF Init
  <2>2. Unreads = SumFunctionOnSet(f, Chats)
    BY DEF Unreads, SumFunction
  <2>. HIDE DEF f
  <2>. QED
    BY <2>1, <2>2, SumZero, ChatsAssumption
<1>. QED
  BY <1>1, <1>2, <1>3 DEF Init, TotalInv, Balanced, Busy

(* The balance of the total at every step of an operation is inductive.    *)
THEOREM TotalInvariance == Spec => []TotalInv
<1>1. Init => TotalInv
  BY TotalInit
<1>2. TotalInv /\ [Next]_vars => TotalInv'
  BY RecordStep, TypeStep, SoloStep, BalanceStep DEF TotalInv
<1>. QED
  BY <1>1, <1>2, PTL DEF Spec

(* While no two operations overlap, the total is the sum of the counts     *)
(* whenever no operation is under way; a crash anywhere, and what          *)
(* overlapping operations did before it, are made good by the restart.     *)
THEOREM Total == Spec => []TotalExact
<1>1. TotalInv => TotalExact
  BY DEF TotalInv, Balanced, Busy, TotalExact
<1>. QED
  BY <1>1, TotalInvariance, PTL
=============================================================================
