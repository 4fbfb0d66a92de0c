--------------------------- MODULE BuiltinsProofs ---------------------------
(***************************************************************************)
(* Proofs about two builtins.  Map and Set keep their promise to those who *)
(* iterate, for every set of keys, every number of cursors and every       *)
(* length of the slice.  Promise.all, race, any and allSettled settle as   *)
(* the answers of the elements say, for any number of elements.            *)
(***************************************************************************)
EXTENDS Collections, PromiseCombinators, SequenceTheorems, FiniteSetTheorems,
        WellFoundedInduction, TLAPS

Places == Keys \cup {Dead}

TypeInv ==
    /\ entries \subseteq Keys
    /\ order \in Seq(Places)
    /\ tombstones \subseteq Keys \ entries
    /\ status \in [Cursors -> {"closed", "open", "exhausted"}]
    /\ index \in [Cursors -> Nat]
    /\ current \in [Cursors -> Keys \cup {None}]

(* No key has two places that are not dead: that is why a mark by name is  *)
(* enough.                                                                 *)
OnePlace ==
    \A i, j \in 1..Len(order) : order[i] = order[j] /\ order[i] # Dead => i = j

(* A key has a place exactly if it has an entry or is marked.              *)
EveryPlace ==
    /\ \A k \in entries : \E i \in 1..Len(order) : order[i] = k
    /\ \A i \in 1..Len(order) : order[i] \in entries \cup tombstones \cup {Dead}

(* No cursor is past the end: what is appended lies ahead of it.           *)
WithinOrder == \A c \in Cursors : status[c] = "open" => index[c] <= Len(order)

IInv == TypeInv /\ OnePlace /\ EveryPlace /\ WithinOrder

-----------------------------------------------------------------------------
(* The slice after Set: the old place of the key, if any, is dead, and the *)
(* key has the new place at the end.                                       *)
LEMMA OrderAfterSet ==
  ASSUME TypeInv, EveryPlace, NEW k \in Keys, Set(k)
  PROVE  /\ order' \in Seq(Places)
         /\ Len(order') = Len(order) + 1
         /\ order'[Len(order) + 1] = k
         /\ \A i \in 1..Len(order) : order'[i] = IF order[i] = k THEN Dead ELSE order[i]
<1> DEFINE n == Len(order)
           old == IF k \in tombstones THEN Buried(k) ELSE order
<1>1. n \in Nat /\ DOMAIN order = 1..n /\ order \in [1..n -> Places]
  BY LenProperties DEF TypeInv
<1>2. k \notin entries /\ order' = Append(old, k) /\ k # Dead
  BY DeadAssumption DEF Set
<1>3. old \in [1..n -> Places]
  BY <1>1 DEF Buried, Places
<1>4. \A i \in 1..n : old[i] = IF order[i] = k THEN Dead ELSE order[i]
  BY <1>1, <1>2 DEF Buried, EveryPlace
<1>5. old \in Seq(Places) /\ Len(old) = n
  <2>1. old \in Seq(Places)
    BY <1>1, <1>3, SeqDef
  <2>2. DOMAIN old = 1..n
    BY <1>3
  <2> QED
    BY <1>1, <2>1, <2>2, LenProperties
<1> HIDE DEF old
<1>6. /\ Append(old, k) \in Seq(Places) /\ Len(Append(old, k)) = n + 1
      /\ Append(old, k)[n + 1] = k
      /\ \A i \in 1..n : Append(old, k)[i] = old[i]
  BY <1>1, <1>5 DEF Places
<1> QED
  BY <1>2, <1>4, <1>6

LEMMA InitEstablishes == Init => IInv
<1> SUFFICES ASSUME Init PROVE IInv
  OBVIOUS
<1>1. order = <<>> /\ order \in Seq(Places) /\ Len(order) = 0
  BY EmptySeq DEF Init
<1>2. TypeInv
  BY <1>1 DEF Init, TypeInv
<1> QED
  BY <1>1, <1>2 DEF Init, IInv, OnePlace, EveryPlace, WithinOrder

LEMMA SetPreserves ==
  ASSUME IInv, NEW k \in Keys, Set(k)
  PROVE  IInv'
<1> USE DEF IInv
<1>1. /\ order' \in Seq(Places)
      /\ Len(order') = Len(order) + 1
      /\ order'[Len(order) + 1] = k
      /\ \A i \in 1..Len(order) : order'[i] = IF order[i] = k THEN Dead ELSE order[i]
  BY OrderAfterSet
<1>2. /\ k \notin entries /\ entries' = entries \cup {k} /\ tombstones' = tombstones \ {k}
      /\ status' = status /\ index' = index /\ current' = current /\ k # Dead
  BY DeadAssumption DEF Set, cursors
<1>3. Len(order) \in Nat
  BY LenProperties DEF TypeInv
<1>4. TypeInv'
  BY <1>1, <1>2 DEF TypeInv
<1>5. OnePlace'
  BY <1>1, <1>2, <1>3 DEF OnePlace
<1>6. EveryPlace'
  <2>1. ASSUME NEW x \in entries' PROVE \E i \in 1..Len(order') : order'[i] = x
    <3>1. CASE x = k
      BY <1>1, <1>3, <3>1
    <3>2. CASE x \in entries
      <4>1. PICK i \in 1..Len(order) : order[i] = x
        BY <3>2 DEF EveryPlace
      <4>2. order'[i] = x /\ i \in 1..Len(order')
        BY <1>1, <1>2, <1>3, <3>2, <4>1
      <4> QED
        BY <4>2
    <3> QED
      BY <1>2, <3>1, <3>2
  <2>2. ASSUME NEW i \in 1..Len(order')
        PROVE  order'[i] \in entries' \cup tombstones' \cup {Dead}
    <3>1. CASE i = Len(order) + 1
      BY <1>1, <1>2, <3>1
    <3>2. CASE i \in 1..Len(order)
      BY <1>1, <1>2, <3>2 DEF EveryPlace
    <3> QED
      BY <1>1, <1>3, <3>1, <3>2
  <2> QED
    BY <2>1, <2>2 DEF EveryPlace
<1>7. WithinOrder'
  BY <1>1, <1>2, <1>3 DEF WithinOrder, TypeInv
<1> QED
  BY <1>4, <1>5, <1>6, <1>7

(* Every step of a program that does not clear the collection under a      *)
(* cursor keeps the invariant.                                             *)
LEMMA NextPreserves ==
  ASSUME IInv, Patterns = {}, [Next]_vars
  PROVE  IInv'
<1> USE DEF IInv
<1>1. CASE \E k \in Keys : Set(k)
  BY <1>1, SetPreserves
<1>2. CASE \E k \in Keys : Delete(k)
  BY <1>2 DEF Delete, cursors, TypeInv, OnePlace, EveryPlace, WithinOrder
<1>3. CASE Clear
  <2>1. order' = <<>> /\ order' \in Seq(Places) /\ Len(order') = 0
    BY <1>3, EmptySeq DEF Clear
  <2>2. /\ entries' = {} /\ tombstones' = {} /\ status' = status /\ index' = index
        /\ current' = current /\ \A c \in Cursors : status[c] = "open" => index[c] = 0
    BY <1>3 DEF Clear, cursors
  <2> QED
    BY <2>1, <2>2 DEF TypeInv, OnePlace, EveryPlace, WithinOrder
<1>4. ASSUME NEW c \in Cursors, Open(c) PROVE IInv'
  <2>1. Len(order) \in Nat
    BY LenProperties DEF TypeInv
  <2> QED
    BY <1>4, <2>1 DEF Open, collection, TypeInv, OnePlace, EveryPlace, WithinOrder
<1>5. ASSUME NEW c \in Cursors, Visit(c) PROVE IInv'
  <2>1. PICK i \in DOMAIN order : /\ HasEntryAt(i)
                                  /\ index' = [index EXCEPT ![c] = i]
                                  /\ current' = [current EXCEPT ![c] = order[i]]
    BY <1>5 DEF Visit
  <2>2. Len(order) \in Nat /\ i \in 1..Len(order) /\ order[i] \in Keys
    BY <2>1, LenProperties DEF TypeInv, HasEntryAt
  <2>3. /\ entries' = entries /\ order' = order /\ tombstones' = tombstones
        /\ status' = status
    BY <1>5 DEF Visit, collection
  <2> QED
    BY <2>1, <2>2, <2>3 DEF TypeInv, OnePlace, EveryPlace, WithinOrder
<1>6. ASSUME NEW c \in Cursors, Exhaust(c) \/ Abandon(c) PROVE IInv'
  BY <1>6 DEF Exhaust, Abandon, collection, TypeInv, OnePlace, EveryPlace, WithinOrder
<1>7. CASE UNCHANGED vars
  BY <1>7 DEF vars, TypeInv, OnePlace, EveryPlace, WithinOrder
<1> QED
  BY <1>1, <1>2, <1>3, <1>4, <1>5, <1>6, <1>7 DEF Next
-----------------------------------------------------------------------------
(* The refinement.                                                         *)

LEMMA InitRefines == Init => Abstract!Init
<1> SUFFICES ASSUME Init PROVE Abstract!Init
  OBVIOUS
<1>1. Before = {}
  BY DEF Init, Before
<1>2. Ahead = [c \in Cursors |-> {}]
  BY DEF Init, Ahead
<1> QED
  BY <1>1, <1>2 DEF Init, Abstract!Init

LEMMA SetRefines ==
  ASSUME IInv, NEW k \in Keys, Set(k)
  PROVE  Abstract!Add(k)
<1> USE DEF IInv
<1> DEFINE n == Len(order)
<1>1. /\ order' \in Seq(Places) /\ Len(order') = n + 1 /\ order'[n + 1] = k
      /\ \A i \in 1..n : order'[i] = IF order[i] = k THEN Dead ELSE order[i]
  BY OrderAfterSet
<1>2. /\ k \notin entries /\ entries' = entries \cup {k} /\ k # Dead
      /\ status' = status /\ index' = index /\ current' = current
      /\ Dead \notin entries /\ Dead \notin entries'
  BY DeadAssumption DEF Set, cursors, TypeInv
<1>3. n \in Nat /\ DOMAIN order = 1..n /\ DOMAIN order' = 1..(n + 1)
  BY <1>1, LenProperties DEF TypeInv
<1> HIDE DEF n
<1>4. ASSUME NEW x, NEW y PROVE <<x, y>> \in Before' <=> <<x, y>> \in Before \cup (entries \X {k})
  <2>1. ASSUME <<x, y>> \in Before' PROVE <<x, y>> \in Before \cup (entries \X {k})
    <3>1. /\ x \in entries' /\ y \in entries'
          /\ \E i, j \in 1..(n + 1) : i < j /\ order'[i] = x /\ order'[j] = y
      BY <1>3, <2>1 DEF Before
    <3>2. PICK i \in 1..(n + 1), j \in 1..(n + 1) : i < j /\ order'[i] = x /\ order'[j] = y
      BY <3>1
    <3>3. i \in 1..n /\ x # k /\ order[i] = x /\ x \in entries
      BY <1>1, <1>2, <1>3, <3>1, <3>2 DEF TypeInv
    <3>4. CASE j = n + 1
      BY <1>1, <3>2, <3>3, <3>4
    <3>5. CASE j \in 1..n
      <4>1. y # k /\ order[j] = y /\ y \in entries
        BY <1>1, <1>2, <3>1, <3>2, <3>5
      <4> QED
        BY <1>3, <3>2, <3>3, <3>5, <4>1 DEF Before
    <3> QED
      BY <1>3, <3>2, <3>4, <3>5
  <2>2. ASSUME <<x, y>> \in Before PROVE <<x, y>> \in Before'
    <3>1. /\ x \in entries /\ y \in entries
          /\ \E i, j \in 1..n : i < j /\ order[i] = x /\ order[j] = y
      BY <1>3, <2>2 DEF Before
    <3>2. PICK i \in 1..n, j \in 1..n : i < j /\ order[i] = x /\ order[j] = y
      BY <3>1
    <3>3. order'[i] = x /\ order'[j] = y /\ i \in 1..(n + 1) /\ j \in 1..(n + 1)
      BY <1>1, <1>2, <1>3, <3>1, <3>2
    <3> QED
      BY <1>2, <1>3, <3>1, <3>2, <3>3 DEF Before
  <2>3. ASSUME x \in entries, y = k PROVE <<x, y>> \in Before'
    <3>1. PICK i \in 1..n : order[i] = x
      BY <2>3, <1>3 DEF EveryPlace, n
    <3>2. /\ order'[i] = x /\ order'[n + 1] = y /\ i < n + 1
          /\ i \in 1..(n + 1) /\ n + 1 \in 1..(n + 1)
      BY <1>1, <1>2, <1>3, <2>3, <3>1
    <3> QED
      BY <1>2, <1>3, <2>3, <3>2 DEF Before
  <2> QED
    BY <2>1, <2>2, <2>3
<1>5. Before' = Before \cup (entries \X {k})
  <2>1. Before' \subseteq entries' \X entries' /\ Before \subseteq entries \X entries
    BY DEF Before
  <2> QED
    BY <1>4, <2>1
<1>6. ASSUME NEW c \in Cursors
      PROVE  Ahead'[c] = IF status[c] = "open" THEN Ahead[c] \cup {k} ELSE {}
  <2>1. CASE status[c] # "open"
    BY <1>2, <2>1 DEF Ahead
  <2>2. CASE status[c] = "open"
    <3>1. /\ Ahead'[c] = {x \in entries' : \E i \in 1..(n + 1) : i > index[c] /\ order'[i] = x}
          /\ Ahead[c] = {x \in entries : \E i \in 1..n : i > index[c] /\ order[i] = x}
      BY <1>2, <1>3, <2>2 DEF Ahead
    <3>2. index[c] \in Nat /\ index[c] <= n
      BY <2>2 DEF WithinOrder, TypeInv, n
    <3>3. ASSUME NEW x \in entries
          PROVE  (\E i \in 1..(n + 1) : i > index[c] /\ order'[i] = x)
                   <=> (\E i \in 1..n : i > index[c] /\ order[i] = x)
      <4>1. x # k /\ x # Dead
        BY <1>2
      <4>2. \A i \in 1..n : order'[i] = x <=> order[i] = x
        BY <1>1, <4>1
      <4> QED
        BY <1>1, <1>3, <4>1, <4>2
    <3>4. \E i \in 1..(n + 1) : i > index[c] /\ order'[i] = k
      BY <1>1, <1>3, <3>2
    <3> QED
      BY <1>2, <2>2, <3>1, <3>3, <3>4
  <2> QED
    BY <2>1, <2>2
<1>7. Ahead' = [c \in Cursors |-> IF status[c] = "open" THEN Ahead[c] \cup {k} ELSE {}]
  BY <1>6 DEF Ahead
<1> QED
  BY <1>2, <1>5, <1>7 DEF Abstract!Add

(* Deleting takes a key, clearing all of them out of the order and out of  *)
(* what the cursors have ahead; the places of the others do not matter.    *)
LEMMA DeleteRefines ==
  ASSUME IInv, NEW k \in Keys, Delete(k)
  PROVE  k \in entries /\ Abstract!Remove({k})
<1>1. /\ k \in entries /\ entries' = entries \ {k} /\ order' = order
      /\ status' = status /\ index' = index /\ current' = current
  BY DEF Delete, cursors
<1>2. Before' = Before \cap (entries' \X entries')
  BY <1>1 DEF Before
<1>3. Ahead' = [c \in Cursors |-> Ahead[c] \ {k}]
  <2>1. ASSUME NEW c \in Cursors PROVE Ahead'[c] = Ahead[c] \ {k}
    BY <1>1 DEF Ahead
  <2> QED
    BY <2>1 DEF Ahead
<1> QED
  BY <1>1, <1>2, <1>3 DEF Abstract!Remove

LEMMA ClearRefines ==
  ASSUME IInv, Clear
  PROVE  Abstract!Remove(entries)
<1>1. /\ entries' = {} /\ status' = status /\ index' = index /\ current' = current
  BY DEF Clear, cursors
<1>2. Before' = {} /\ \A c \in Cursors : Ahead'[c] = {} /\ Ahead[c] \subseteq entries
  BY <1>1 DEF Before, Ahead
<1>3. Ahead' = [c \in Cursors |-> Ahead[c] \ entries]
  <2>1. ASSUME NEW c \in Cursors PROVE Ahead'[c] = Ahead[c] \ entries
    BY <1>2
  <2> QED
    BY <2>1 DEF Ahead
<1> QED
  BY <1>1, <1>2, <1>3 DEF Abstract!Remove

LEMMA VisitRefines ==
  ASSUME IInv, NEW c \in Cursors, Visit(c)
  PROVE  Abstract!Visit(c)
<1> USE DEF IInv
<1> DEFINE n == Len(order)
<1>1. n \in Nat /\ DOMAIN order = 1..n /\ index \in [Cursors -> Nat]
  BY LenProperties DEF TypeInv
<1>2. PICK i \in 1..n : /\ i > index[c]
                        /\ HasEntryAt(i)
                        /\ \A j \in index[c] + 1 .. i - 1 : ~HasEntryAt(j)
                        /\ index' = [index EXCEPT ![c] = i]
                        /\ current' = [current EXCEPT ![c] = order[i]]
  BY <1>1 DEF Visit
<1>3. /\ status[c] = "open" /\ status' = status /\ entries' = entries /\ order' = order
  BY DEF Visit, collection
<1> HIDE DEF n
<1>4. order[i] \in entries /\ order[i] # Dead
  BY <1>2, DeadAssumption DEF HasEntryAt, TypeInv
<1>5. \A j \in 1..n : order[j] \in entries => HasEntryAt(j)
  BY DEF HasEntryAt, TypeInv
<1>6. Ahead[c] = {x \in entries : \E j \in 1..n : j > index[c] /\ order[j] = x}
  BY <1>1, <1>3 DEF Ahead
<1>7. \A x \in Ahead[c] : \E j \in 1..n : j >= i /\ order[j] = x
  BY <1>1, <1>2, <1>5, <1>6
<1>8. order[i] \in Ahead[c]
  BY <1>2, <1>4, <1>6
<1>9. ASSUME NEW other \in Ahead[c] PROVE <<other, order[i]>> \notin Before
  <2> SUFFICES ASSUME <<other, order[i]>> \in Before PROVE FALSE
    OBVIOUS
  <2>1. \E p, q \in 1..n : p < q /\ order[p] = other /\ order[q] = order[i]
    BY <1>1 DEF Before
  <2>2. PICK p \in 1..n, q \in 1..n : p < q /\ order[p] = other /\ order[q] = order[i]
    BY <2>1
  <2>3. q = i
    BY <1>4, <2>2 DEF OnePlace, n
  <2>4. PICK j \in 1..n : j >= i /\ order[j] = other
    BY <1>7
  <2>5. other # Dead
    BY <1>6, DeadAssumption DEF TypeInv
  <2>6. p = j
    BY <2>2, <2>4, <2>5 DEF OnePlace, n
  <2> QED
    BY <1>1, <2>2, <2>3, <2>4, <2>6
<1>10. Ahead'[c] = Ahead[c] \ {order[i]}
  <2>1. Ahead'[c] = {x \in entries : \E j \in 1..n : j > i /\ order[j] = x}
    BY <1>1, <1>2, <1>3 DEF Ahead
  <2>2. order[i] \notin Ahead'[c]
    BY <1>1, <1>4, <2>1 DEF OnePlace, n
  <2>3. ASSUME NEW x \in Ahead[c], x # order[i] PROVE x \in Ahead'[c]
    BY <1>1, <1>6, <1>7, <2>1, <2>3
  <2>4. \A x \in Ahead'[c] : x \in Ahead[c]
    BY <1>1, <1>2, <1>6, <2>1
  <2> QED
    BY <2>2, <2>3, <2>4
<1>11. Ahead' = [Ahead EXCEPT ![c] = Ahead[c] \ {order[i]}]
  <2>1. ASSUME NEW d \in Cursors, d # c PROVE Ahead'[d] = Ahead[d]
    BY <1>1, <1>2, <1>3, <2>1 DEF Ahead
  <2>2. Ahead = [d \in Cursors |-> Ahead[d]] /\ Ahead' = [d \in Cursors |-> Ahead'[d]]
    BY DEF Ahead
  <2> QED
    BY <1>10, <2>1, <2>2
<1>12. Before' = Before
  BY <1>3 DEF Before
<1> QED
  BY <1>2, <1>3, <1>8, <1>9, <1>11, <1>12 DEF Abstract!Visit

LEMMA CursorRefines ==
  ASSUME IInv, NEW c \in Cursors
  PROVE  /\ Open(c) => Abstract!Open(c)
         /\ Exhaust(c) => Abstract!Exhaust(c)
         /\ Abandon(c) => Abstract!Abandon(c)
<1> USE DEF IInv
<1>1. Len(order) \in Nat /\ DOMAIN order = 1..Len(order)
  BY LenProperties DEF TypeInv
<1>2. ASSUME Open(c) PROVE Abstract!Open(c)
  <2>1. /\ entries' = entries /\ order' = order /\ status[c] = "closed"
        /\ status' = [status EXCEPT ![c] = "open"] /\ index' = [index EXCEPT ![c] = 0]
        /\ current' = [current EXCEPT ![c] = None]
    BY <1>2 DEF Open, collection
  <2>2. Before' = Before
    BY <2>1 DEF Before
  <2>3. Ahead'[c] = {x \in entries : \E i \in 1..Len(order) : i > 0 /\ order[i] = x}
    BY <1>1, <2>1 DEF Ahead, TypeInv
  <2>4. Ahead'[c] = entries
    BY <1>1, <2>3 DEF EveryPlace
  <2>5. ASSUME NEW d \in Cursors, d # c PROVE Ahead'[d] = Ahead[d]
    BY <2>1, <2>5 DEF Ahead, TypeInv
  <2>6. Ahead' = [Ahead EXCEPT ![c] = entries]
    BY <2>4, <2>5 DEF Ahead
  <2> QED
    BY <2>1, <2>2, <2>6 DEF Abstract!Open
<1>3. ASSUME Exhaust(c) PROVE Abstract!Exhaust(c)
  <2>1. /\ entries' = entries /\ order' = order /\ status[c] = "open" /\ index' = index
        /\ status' = [status EXCEPT ![c] = "exhausted"] /\ current' = current
        /\ \A i \in 1..Len(order) : i > index[c] => ~HasEntryAt(i)
    BY <1>1, <1>3 DEF Exhaust, collection
  <2>2. Before' = Before
    BY <2>1 DEF Before
  <2>3. Ahead[c] = {} /\ Ahead'[c] = {}
    BY <1>1, <2>1 DEF Ahead, HasEntryAt, TypeInv
  <2>4. ASSUME NEW d \in Cursors, d # c PROVE Ahead'[d] = Ahead[d]
    BY <2>1, <2>4 DEF Ahead, TypeInv
  <2>5. Ahead' = Ahead
    <3>1. Ahead = [d \in Cursors |-> Ahead[d]] /\ Ahead' = [d \in Cursors |-> Ahead'[d]]
      BY DEF Ahead
    <3>2. \A d \in Cursors : Ahead'[d] = Ahead[d]
      BY <2>3, <2>4
    <3> QED
      BY <3>1, <3>2
  <2> QED
    BY <2>1, <2>2, <2>3, <2>5 DEF Abstract!Exhaust
<1>4. ASSUME Abandon(c) PROVE Abstract!Abandon(c)
  <2>1. /\ entries' = entries /\ order' = order /\ status[c] # "closed" /\ index' = index
        /\ status' = [status EXCEPT ![c] = "closed"] /\ current' = current
    BY <1>4 DEF Abandon, collection
  <2>2. Before' = Before
    BY <2>1 DEF Before
  <2>3. Ahead'[c] = {}
    BY <2>1 DEF Ahead, TypeInv
  <2>4. ASSUME NEW d \in Cursors, d # c PROVE Ahead'[d] = Ahead[d]
    BY <2>1, <2>4 DEF Ahead, TypeInv
  <2>5. Ahead' = [Ahead EXCEPT ![c] = {}]
    BY <2>3, <2>4 DEF Ahead
  <2> QED
    BY <2>1, <2>2, <2>5 DEF Abstract!Abandon
<1> QED
  BY <1>2, <1>3, <1>4

LEMMA NextRefines ==
  ASSUME IInv, [Next]_vars
  PROVE  [Abstract!Next]_(Abstract!vars)
<1>1. CASE \E k \in Keys : Set(k)
  BY <1>1, SetRefines DEF Abstract!Next
<1>2. CASE \E k \in Keys : Delete(k)
  BY <1>2, DeleteRefines DEF Abstract!Next
<1>3. CASE Clear
  BY <1>3, ClearRefines DEF Abstract!Next
<1>4. ASSUME NEW c \in Cursors, Visit(c) PROVE Abstract!Next
  BY <1>4, VisitRefines DEF Abstract!Next
<1>5. ASSUME NEW c \in Cursors, Open(c) \/ Exhaust(c) \/ Abandon(c) PROVE Abstract!Next
  BY <1>5, CursorRefines DEF Abstract!Next
<1>6. CASE UNCHANGED vars
  BY <1>6 DEF vars, Abstract!vars, Before, Ahead
<1> QED
  BY <1>1, <1>2, <1>3, <1>4, <1>5, <1>6 DEF Next

(* Map and Set keep their promise to those who iterate, in every program   *)
(* that does not clear the collection when a cursor is under way           *)
(* (MapObject, SetObject, BuiltinIterState.Step): every step of theirs is  *)
(* a step of InsertionOrder, or changes nothing that it speaks of.         *)
THEOREM InsertionOrderIsKept ==
  ASSUME Patterns = {}
  PROVE  Spec => KeepsInsertionOrder
<1>1. Init => IInv
  BY InitEstablishes
<1>2. IInv /\ [Next]_vars => IInv'
  BY NextPreserves
<1>3. Init => Abstract!Init
  BY InitRefines
<1>4. IInv /\ [Next]_vars => [Abstract!Next]_(Abstract!vars)
  BY NextRefines
<1> QED
  BY <1>1, <1>2, <1>3, <1>4, PTL DEF Spec, KeepsInsertionOrder, Abstract!Spec

-----------------------------------------------------------------------------
(* The combinators of promises.                                            *)

Answers == Seq(Inputs \X (Outcomes \cup {"thrown"}))

CallTypes ==
    /\ kind \in {"all", "race", "any", "allSettled"}
    /\ length \in 0..MaxLength
    /\ native \subseteq 1..length
    /\ settled \in [Inputs -> {"pending"} \cup Outcomes]
    /\ executor \in {"new", "attaching", "done"}
    /\ attached \in 0..length
    /\ reactions \in Seq(Inputs \X Outcomes)
    /\ answers \in Answers

(* An element answers once, and is not to answer again.                    *)
OneAnswer ==
    /\ \A p, q \in DOMAIN answers : answers[p][1] = answers[q][1] => p = q
    /\ \A p, q \in DOMAIN reactions : reactions[p][1] = reactions[q][1] => p = q
    /\ \A p \in DOMAIN answers, q \in DOMAIN reactions : answers[p][1] # reactions[q][1]

(* An element whose handlers were called, or are to be called by a         *)
(* microtask, is attached and settled; what was thrown ended the executor. *)
AnswersCome ==
    /\ \A p \in DOMAIN answers :
          \/ /\ answers[p][2] \in Outcomes
             /\ answers[p][1] \in 1..attached /\ settled[answers[p][1]] # "pending"
          \/ /\ answers[p][2] = "thrown" /\ answers[p][1] = attached + 1
             /\ attached < length /\ executor = "done"
    /\ \A q \in DOMAIN reactions :
          /\ reactions[q][1] \in native \cap 1..attached
          /\ settled[reactions[q][1]] # "pending"
    /\ executor = "attaching" => attached < length
    /\ executor = "new" => attached = 0 /\ answers = <<>>

(* As long as no answer decides the call, the counter and the array agree  *)
(* with the answers.                                                       *)
CountsAnswers ==
    kind # "race" /\ Deciders(kind, answers) = {} =>
        remaining = length - Len(answers) /\ results = PlacesOf(answers)

PromiseFollows ==
    promise = IF executor = "new" THEN Pending ELSE Verdict(kind, length, answers)

CombinatorInv == CallTypes /\ OneAnswer /\ AnswersCome /\ CountsAnswers /\ PromiseFollows

LEMMA LeastIs ==
  ASSUME NEW P \in SUBSET Nat
  PROVE  /\ P # {} => LeastOf(P) \in P /\ \A q \in P : LeastOf(P) <= q
         /\ \A k \in P : (\A q \in P : k <= q) => LeastOf(P) = k
<1>1. ASSUME NEW k \in P, \A q \in P : k <= q PROVE LeastOf(P) = k
  <2>1. \A p \in P : (\A q \in P : p <= q) => p = k
    BY <1>1
  <2> QED
    BY <1>1, <2>1 DEF LeastOf
<1>2. ASSUME P # {} PROVE \E k \in P : \A q \in P : k <= q
  <2>1. PICK m \in P : \A k \in P : <<k, m>> \notin OpToRel(<, Nat)
    BY <1>2, NatLessThanWellFounded, WFMin
  <2>2. \A q \in P : ~(q < m)
    BY <2>1 DEF OpToRel
  <2> QED
    BY <2>2
<1> QED
  BY <1>1, <1>2

LEMMA AnswerLists ==
  ASSUME NEW a \in Answers
  PROVE  /\ Len(a) \in Nat /\ DOMAIN a = 1..Len(a)
         /\ \A p \in DOMAIN a : /\ a[p][1] \in Inputs /\ a[p][2] \in Outcomes \cup {"thrown"}
                                /\ a[p] = <<a[p][1], a[p][2]>>
<1>1. a \in Seq(Inputs \X (Outcomes \cup {"thrown"}))
  BY DEF Answers
<1>2. \A p \in DOMAIN a : a[p] \in Inputs \X (Outcomes \cup {"thrown"})
  BY <1>1
<1> QED
  BY <1>1, <1>2

LEMMA AppendedAnswer ==
  ASSUME NEW a \in Answers, NEW i \in Inputs, NEW o \in Outcomes \cup {"thrown"}
  PROVE  /\ Append(a, <<i, o>>) \in Answers
         /\ Len(Append(a, <<i, o>>)) = Len(a) + 1
         /\ DOMAIN Append(a, <<i, o>>) = 1..(Len(a) + 1)
         /\ \A p \in 1..Len(a) : Append(a, <<i, o>>)[p] = a[p]
         /\ Append(a, <<i, o>>)[Len(a) + 1] = <<i, o>>
<1>1. a \in Seq(Inputs \X (Outcomes \cup {"thrown"})) /\ Len(a) \in Nat
  BY DEF Answers
<1>2. PICK x \in Inputs \X (Outcomes \cup {"thrown"}) : x = <<i, o>>
  OBVIOUS
<1>3. PICK b : b = Append(a, x)
  OBVIOUS
<1>4. /\ b \in Seq(Inputs \X (Outcomes \cup {"thrown"})) /\ Len(b) = Len(a) + 1
      /\ \A p \in 1..Len(a) : b[p] = a[p]
      /\ b[Len(a) + 1] = x
  BY <1>1, <1>2, <1>3, AppendProperties
<1>5. DOMAIN b = 1..(Len(a) + 1)
  BY <1>1, <1>4
<1> QED
  BY <1>2, <1>3, <1>4, <1>5 DEF Answers

(* A decided call stays decided by the same answer.                        *)
LEMMA DecisionStays ==
  ASSUME NEW a \in Answers, NEW i \in Inputs, NEW o \in Outcomes \cup {"thrown"},
         NEW k, NEW n
  PROVE  /\ Deciders(k, a) # {} =>
               /\ Deciders(k, Append(a, <<i, o>>)) # {}
               /\ Verdict(k, n, Append(a, <<i, o>>)) = Verdict(k, n, a)
         /\ Deciders(k, a) = {} /\ o \in Deciding(k) =>
               /\ Deciders(k, Append(a, <<i, o>>)) # {}
               /\ Verdict(k, n, Append(a, <<i, o>>)) = Winner(<<i, o>>)
         /\ Deciders(k, a) = {} /\ o \notin Deciding(k) =>
               Deciders(k, Append(a, <<i, o>>)) = {}
<1>1. PICK b : b = Append(a, <<i, o>>)
  OBVIOUS
<1>2. /\ Len(a) \in Nat /\ DOMAIN a = 1..Len(a)
      /\ DOMAIN b = 1..(Len(a) + 1)
      /\ \A p \in 1..Len(a) : b[p] = a[p]
      /\ b[Len(a) + 1] = <<i, o>>
  BY <1>1, AnswerLists, AppendedAnswer
<1>3. Deciders(k, b) = Deciders(k, a) \cup IF o \in Deciding(k) THEN {Len(a) + 1} ELSE {}
  BY <1>2 DEF Deciders
<1>4. Deciders(k, a) \in SUBSET (1..Len(a))
  BY <1>2 DEF Deciders
<1>5. ASSUME Deciders(k, a) # {}
      PROVE  Deciders(k, b) # {} /\ Verdict(k, n, b) = Verdict(k, n, a)
  <2>1. PICK l \in Deciders(k, a) : l = LeastOf(Deciders(k, a)) /\ \A q \in Deciders(k, a) : l <= q
    BY <1>4, <1>5, LeastIs
  <2>2. l \in 1..Len(a) /\ l \in Deciders(k, b) /\ \A q \in Deciders(k, b) : l <= q
    BY <1>2, <1>3, <1>4, <2>1
  <2>3. LeastOf(Deciders(k, b)) = l
    BY <1>2, <1>3, <1>4, <2>2, LeastIs
  <2>4. b[l] = a[l]
    BY <1>2, <2>2
  <2> QED
    BY <1>5, <2>1, <2>2, <2>3, <2>4 DEF Verdict
<1>6. ASSUME Deciders(k, a) = {}, o \in Deciding(k)
      PROVE  Deciders(k, b) # {} /\ Verdict(k, n, b) = Winner(<<i, o>>)
  <2>1. Deciders(k, b) = {Len(a) + 1}
    BY <1>3, <1>6
  <2>2. LeastOf(Deciders(k, b)) = Len(a) + 1
    BY <1>2, <2>1, LeastIs
  <2> QED
    BY <1>2, <2>1, <2>2 DEF Verdict
<1>7. ASSUME Deciders(k, a) = {}, o \notin Deciding(k) PROVE Deciders(k, b) = {}
  BY <1>3, <1>7
<1> QED
  BY <1>1, <1>5, <1>6, <1>7

(* An element that has not answered fills a place of its own.              *)
LEMMA PlaceIsSet ==
  ASSUME NEW a \in Answers, NEW i \in Inputs, NEW o \in Outcomes \cup {"thrown"},
         \A p \in DOMAIN a : a[p][1] # i
  PROVE  PlacesOf(Append(a, <<i, o>>)) = [PlacesOf(a) EXCEPT ![i] = <<i, o>>]
<1>1. PICK b : b = Append(a, <<i, o>>)
  OBVIOUS
<1>2. /\ Len(a) \in Nat /\ DOMAIN a = 1..Len(a)
      /\ DOMAIN b = 1..(Len(a) + 1)
      /\ \A p \in 1..Len(a) : b[p] = a[p]
      /\ b[Len(a) + 1] = <<i, o>>
  BY <1>1, AnswerLists, AppendedAnswer
<1>3. ASSUME NEW j \in Inputs
      PROVE  PlacesOf(b)[j] = IF j = i THEN <<i, o>> ELSE PlacesOf(a)[j]
  <2>1. CASE j = i
    <3>1. {p \in DOMAIN b : b[p][1] = j} = {Len(a) + 1}
      BY <1>2, <2>1
    <3>2. LeastOf({p \in DOMAIN b : b[p][1] = j}) = Len(a) + 1
      BY <1>2, <3>1, LeastIs
    <3> QED
      BY <1>2, <2>1, <3>1, <3>2 DEF PlacesOf
  <2>2. CASE j # i
    <3>1. PICK P : P = {p \in DOMAIN a : a[p][1] = j}
      OBVIOUS
    <3>2. {p \in DOMAIN b : b[p][1] = j} = P
      BY <1>2, <2>2, <3>1
    <3>3. P # {} => LeastOf(P) \in P
      <4>1. P \in SUBSET Nat
        BY <1>2, <3>1
      <4> QED
        BY <4>1, LeastIs
    <3>4. P # {} => b[LeastOf(P)] = a[LeastOf(P)]
      BY <1>2, <3>1, <3>3
    <3>5. /\ PlacesOf(a)[j] = IF P # {} THEN a[LeastOf(P)] ELSE <<>>
          /\ PlacesOf(b)[j] = IF P # {} THEN b[LeastOf(P)] ELSE <<>>
      BY <3>1, <3>2 DEF PlacesOf
    <3> QED
      BY <2>2, <3>4, <3>5
  <2> QED
    BY <2>1, <2>2
<1>4. PlacesOf(b) \in [Inputs -> {PlacesOf(b)[j] : j \in Inputs}]
  BY DEF PlacesOf
<1>5. [PlacesOf(a) EXCEPT ![i] = <<i, o>>] = [j \in Inputs |-> PlacesOf(b)[j]]
  BY <1>3 DEF PlacesOf
<1> QED
  BY <1>1, <1>4, <1>5

(* An element that has not answered leaves fewer answers than elements.    *)
LEMMA Room ==
  ASSUME NEW a \in Answers, NEW n \in Nat, NEW i \in 1..n,
         \A p, q \in DOMAIN a : a[p][1] = a[q][1] => p = q,
         \A p \in DOMAIN a : a[p][1] \in (1..n) \ {i}
  PROVE  Len(a) < n
<1> DEFINE f == [p \in 1..Len(a) |-> a[p][1]]
<1>1. Len(a) \in Nat /\ DOMAIN a = 1..Len(a)
  BY AnswerLists
<1>2. ASSUME NEW m \in Nat PROVE IsFiniteSet(1..m) /\ Cardinality(1..m) = m
  <2>1. /\ IsFiniteSet(1..m)
        /\ Cardinality(1..m) = IF 1 > m THEN 0 ELSE m - 1 + 1
    BY FS_Interval
  <2> QED
    BY <2>1
<1>3. /\ IsFiniteSet((1..n) \ {i})
      /\ Cardinality((1..n) \ {i}) = n - 1
  BY <1>2, FS_RemoveElement
<1>4. f \in Injection(1..Len(a), (1..n) \ {i})
  <2>1. f \in [1..Len(a) -> (1..n) \ {i}]
    BY <1>1
  <2>2. \A p, q \in 1..Len(a) : f[p] = f[q] => p = q
    BY <1>1
  <2> QED
    BY <2>1, <2>2, Zenon DEF Injection, IsInjective
<1>5. Len(a) <= n - 1
  BY <1>1, <1>2, <1>3, <1>4, FS_Injection
<1> QED
  BY <1>1, <1>5

(* A handler settles the promise with the answer, or counts it.            *)
LEMMA HandlerIs ==
  ASSUME CallTypes, NEW i \in Inputs, NEW o \in Outcomes, Handler(i, o)
  PROVE  /\ o \in Deciding(kind) => Settle(Winner(<<i, o>>))
         /\ o \notin Deciding(kind) =>
               Count(i, o, IF kind = "any" THEN Rejected(AggregateError) ELSE Fulfilled(results'))
<1>1. CASE o = "fulfilled" /\ kind \in {"all", "allSettled"}
  BY <1>1 DEF Handler, onFulfilled, Deciding
<1>2. CASE o = "fulfilled" /\ kind \in {"race", "any"}
  BY <1>2 DEF Handler, onFulfilled, Deciding, Winner
<1>3. CASE o = "rejected" /\ kind \in {"all", "race"}
  BY <1>3 DEF Handler, onRejected, Deciding, Winner
<1>4. CASE o = "rejected" /\ kind \in {"any", "allSettled"}
  BY <1>4 DEF Handler, onRejected, Deciding
<1> QED
  BY <1>1, <1>2, <1>3, <1>4 DEF CallTypes, Outcomes

(* What an answer that is new does to the counter, the array and the       *)
(* promise.                                                                *)
LEMMA Answering ==
  ASSUME CombinatorInv, NEW i \in 1..length, NEW o \in Outcomes, Handler(i, o),
         \A p \in DOMAIN answers : answers[p][1] \in (1..length) \ {i},
         answers' = Append(answers, <<i, o>>), kind' = kind, length' = length,
         executor # "new", executor' # "new"
  PROVE  CountsAnswers' /\ PromiseFollows'
<1> DEFINE decided == Deciders(kind, answers) # {}
<1>1. /\ answers \in Answers /\ i \in Inputs /\ o \in Outcomes \cup {"thrown"}
      /\ kind \in {"all", "race", "any", "allSettled"} /\ length \in Nat
  BY MaxLengthAssumption DEF CombinatorInv, CallTypes, Inputs
<1>2. /\ \A p, q \in DOMAIN answers : answers[p][1] = answers[q][1] => p = q
      /\ CountsAnswers /\ promise = Verdict(kind, length, answers)
  BY DEF CombinatorInv, OneAnswer, PromiseFollows
<1>3. Len(answers) < length
  BY <1>1, <1>2, Room
<1>4. PICK b : b = Append(answers, <<i, o>>)
  OBVIOUS
<1>5. b \in Answers /\ Len(b) = Len(answers) + 1
  BY <1>1, <1>4, AppendedAnswer
<1>6. /\ decided => Deciders(kind, b) # {} /\ Verdict(kind, length, b) = Verdict(kind, length, answers)
      /\ ~decided /\ o \in Deciding(kind) =>
            Deciders(kind, b) # {} /\ Verdict(kind, length, b) = Winner(<<i, o>>)
      /\ ~decided /\ o \notin Deciding(kind) => Deciders(kind, b) = {}
  <2>1. Deciders(kind, answers) # {} => Deciders(kind, Append(answers, <<i, o>>)) # {}
    BY <1>1, DecisionStays
  <2>2. Deciders(kind, answers) # {} =>
          Verdict(kind, length, Append(answers, <<i, o>>)) = Verdict(kind, length, answers)
    BY <1>1, DecisionStays
  <2>3. Deciders(kind, answers) = {} /\ o \in Deciding(kind) =>
          Deciders(kind, Append(answers, <<i, o>>)) # {}
    BY <1>1, DecisionStays
  <2>4. Deciders(kind, answers) = {} /\ o \in Deciding(kind) =>
          Verdict(kind, length, Append(answers, <<i, o>>)) = Winner(<<i, o>>)
    BY <1>1, DecisionStays
  <2>5. Deciders(kind, answers) = {} /\ o \notin Deciding(kind) =>
          Deciders(kind, Append(answers, <<i, o>>)) = {}
    BY <1>1, DecisionStays
  <2> QED
    BY <1>4, <2>1, <2>2, <2>3, <2>4, <2>5
<1>7. PlacesOf(b) = [PlacesOf(answers) EXCEPT ![i] = <<i, o>>]
  <2>1. \A p \in DOMAIN answers : answers[p][1] # i
    OBVIOUS
  <2> QED
    BY <1>1, <1>4, <2>1, PlaceIsSet, Zenon
<1>8. /\ o \in Deciding(kind) => Settle(Winner(<<i, o>>))
      /\ o \notin Deciding(kind) =>
            Count(i, o, IF kind = "any" THEN Rejected(AggregateError) ELSE Fulfilled(results'))
  BY <1>1, HandlerIs DEF CombinatorInv
<1>9. \A x : Winner(x) # Pending
  BY DEF Winner, Fulfilled, Rejected, Pending
<1>10. /\ CountsAnswers' <=>
              (kind # "race" /\ Deciders(kind, b) = {} =>
                 remaining' = length - Len(b) /\ results' = PlacesOf(b))
       /\ PromiseFollows' <=> promise' = Verdict(kind, length, b)
  BY <1>4 DEF CountsAnswers, PromiseFollows
<1>11. CASE decided
  <2>1. promise # Pending
    BY <1>2, <1>9, <1>11 DEF Verdict
  <2>2. promise' = promise
    BY <1>8, <2>1 DEF Settle, Count
  <2> QED
    BY <1>2, <1>6, <1>10, <1>11, <2>2
<1>12. CASE ~decided /\ o \in Deciding(kind)
  <2>1. promise = Pending
    BY <1>2, <1>3, <1>12 DEF Verdict
  <2>2. promise' = Winner(<<i, o>>)
    BY <1>8, <1>12, <2>1 DEF Settle
  <2> QED
    BY <1>6, <1>10, <1>12, <2>2
<1>13. CASE ~decided /\ o \notin Deciding(kind)
  <2>1. promise = Pending /\ kind # "race"
    BY <1>1, <1>2, <1>3, <1>13 DEF Verdict, Deciding, Outcomes
  <2>2. remaining = length - Len(answers) /\ results = PlacesOf(answers)
    BY <1>2, <1>13, <2>1 DEF CountsAnswers
  <2>3. remaining' = length - Len(b) /\ results' = PlacesOf(b)
    <3>1. Len(answers) \in Nat
      BY <1>1, AnswerLists
    <3> QED
      BY <1>1, <1>5, <1>7, <1>8, <1>13, <2>2, <3>1 DEF Count
  <2>4. promise' = IF remaining' = 0
                   THEN IF kind = "any" THEN Rejected(AggregateError) ELSE Fulfilled(results')
                   ELSE Pending
    BY <1>8, <1>13, <2>1 DEF Count, Settle
  <2>5. remaining' = 0 <=> Len(b) = length
    BY <1>1, <1>5, <2>3, AnswerLists
  <2> QED
    BY <1>6, <1>10, <1>13, <2>1, <2>3, <2>4, <2>5 DEF Verdict
<1> QED
  BY <1>11, <1>12, <1>13

(* What was thrown decides every call.                                     *)
LEMMA Throwing ==
  ASSUME CombinatorInv, attached < length, executor = "attaching",
         Settle(Rejected(<<attached + 1, "thrown">>)),
         answers' = Append(answers, <<attached + 1, "thrown">>),
         kind' = kind, length' = length, executor' # "new"
  PROVE  CountsAnswers' /\ PromiseFollows'
<1>1. PICK i \in 1..length : i = attached + 1
  BY MaxLengthAssumption DEF CombinatorInv, CallTypes
<1>2. /\ answers \in Answers /\ i \in Inputs /\ "thrown" \in Outcomes \cup {"thrown"}
      /\ kind \in {"all", "race", "any", "allSettled"} /\ length \in Nat
  BY MaxLengthAssumption DEF CombinatorInv, CallTypes, Inputs
<1>3. /\ \A p, q \in DOMAIN answers : answers[p][1] = answers[q][1] => p = q
      /\ promise = Verdict(kind, length, answers)
  BY DEF CombinatorInv, OneAnswer, PromiseFollows
<1>4. \A p \in DOMAIN answers : answers[p][1] \in (1..length) \ {i}
  BY <1>1, <1>2 DEF CombinatorInv, CallTypes, AnswersCome
<1>5. Len(answers) < length
  BY <1>2, <1>3, <1>4, Room
<1>6. "thrown" \in Deciding(kind) /\ Winner(<<i, "thrown">>) = Rejected(<<i, "thrown">>)
  BY <1>2 DEF Deciding, Winner
<1>7. \A x : Winner(x) # Pending
  BY DEF Winner, Fulfilled, Rejected, Pending
<1>8. PICK b : b = Append(answers, <<i, "thrown">>)
  OBVIOUS
<1>9. Deciders(kind, b) # {}
  BY <1>2, <1>6, <1>8, DecisionStays
<1>10. Deciders(kind, answers) # {} => Verdict(kind, length, b) = Verdict(kind, length, answers)
  BY <1>2, <1>8, DecisionStays
<1>11. Deciders(kind, answers) = {} => Verdict(kind, length, b) = Winner(<<i, "thrown">>)
  BY <1>2, <1>6, <1>8, DecisionStays
<1>12. /\ CountsAnswers' <=>
             (kind # "race" /\ Deciders(kind, b) = {} =>
                remaining' = length - Len(b) /\ results' = PlacesOf(b))
       /\ PromiseFollows' <=> promise' = Verdict(kind, length, b)
  BY <1>1, <1>8 DEF CountsAnswers, PromiseFollows
<1>13. promise' = IF promise = Pending THEN Winner(<<i, "thrown">>) ELSE promise
  BY <1>1, <1>6 DEF Settle
<1>14. promise = Pending <=> Deciders(kind, answers) = {}
  BY <1>2, <1>3, <1>5, <1>7 DEF Verdict
<1>15. promise' = Verdict(kind, length, b)
  <2>1. CASE Deciders(kind, answers) # {}
    BY <1>3, <1>10, <1>13, <1>14, <2>1
  <2>2. CASE Deciders(kind, answers) = {}
    BY <1>11, <1>13, <1>14, <2>2
  <2> QED
    BY <2>1, <2>2
<1> QED
  BY <1>9, <1>12, <1>15

(* A step that neither answers nor settles.                                *)
LEMMA NoAnswer ==
  ASSUME CombinatorInv, executor # "new", executor' # "new",
         UNCHANGED <<kind, length, remaining, results, promise, answers>>
  PROVE  CountsAnswers' /\ PromiseFollows'
BY DEF CombinatorInv, CountsAnswers, PromiseFollows

LEMMA StartEmptyKeeps ==
  ASSUME CombinatorInv, StartEmpty
  PROVE  CombinatorInv'
<1>1. /\ answers = <<>> /\ answers' = <<>> /\ length = 0 /\ executor' = "done"
      /\ promise = Pending
  BY DEF StartEmpty, CombinatorInv, AnswersCome, PromiseFollows
<1>2. \A k : Deciders(k, <<>>) = {}
  BY DEF Deciders
<1>3. PlacesOf(<<>>) = NoResults
  BY DEF PlacesOf, NoResults
<1>4. PromiseFollows'
  BY <1>1, <1>2, <1>3
     DEF StartEmpty, call, Settle, CombinatorInv, CallTypes, PromiseFollows, Verdict
<1>5. CountsAnswers'
  BY <1>1 DEF StartEmpty, call, CombinatorInv, CountsAnswers
<1> QED
  BY <1>1, <1>4, <1>5
     DEF StartEmpty, call, CombinatorInv, CallTypes, OneAnswer, AnswersCome

LEMMA StartKeeps ==
  ASSUME CombinatorInv, Start
  PROVE  CombinatorInv'
<1>1. /\ answers = <<>> /\ answers' = <<>> /\ executor = "new" /\ executor' = "attaching"
      /\ promise = Pending /\ attached = 0
  BY DEF Start, CombinatorInv, AnswersCome, PromiseFollows
<1>2. \A k : Deciders(k, <<>>) = {}
  BY DEF Deciders
<1>3. PromiseFollows'
  BY <1>1, <1>2 DEF Start, call, CombinatorInv, CallTypes, PromiseFollows, Verdict
<1>4. CountsAnswers'
  BY <1>1 DEF Start, call, CombinatorInv, CountsAnswers
<1> QED
  BY <1>1, <1>3, <1>4
     DEF Start, call, CombinatorInv, CallTypes, OneAnswer, AnswersCome

LEMMA ResolveThrowsKeeps ==
  ASSUME CombinatorInv, ResolveThrows
  PROVE  CombinatorInv'
<1>1. attached \in Nat /\ attached < length /\ length \in Nat /\ length <= MaxLength
  BY MaxLengthAssumption DEF ResolveThrows, CombinatorInv, CallTypes, AnswersCome
<1>2. PICK i \in Inputs : i = attached + 1
  BY <1>1, MaxLengthAssumption DEF Inputs
<1>3. PICK b : b = Append(answers, <<i, "thrown">>)
  OBVIOUS
<1>4. answers \in Answers /\ answers' = b
  BY <1>2, <1>3 DEF ResolveThrows, CombinatorInv, CallTypes
<1>5. /\ b \in Answers /\ DOMAIN b = 1..(Len(answers) + 1) /\ DOMAIN answers = 1..Len(answers)
      /\ Len(answers) \in Nat
      /\ \A p \in DOMAIN answers : b[p] = answers[p]
      /\ b[Len(answers) + 1] = <<i, "thrown">>
  BY <1>3, <1>4, AnswerLists, AppendedAnswer
<1>6. CountsAnswers' /\ PromiseFollows'
  BY <1>1, Throwing DEF ResolveThrows, call
<1>7. CallTypes'
  BY <1>4, <1>5 DEF ResolveThrows, call, CombinatorInv, CallTypes
<1>8. \A p \in DOMAIN answers : answers[p][1] \in 1..attached
  BY DEF ResolveThrows, CombinatorInv, AnswersCome
<1>9. OneAnswer'
  BY <1>1, <1>2, <1>4, <1>5, <1>8 DEF ResolveThrows, CombinatorInv, OneAnswer, AnswersCome
<1>10. AnswersCome'
  BY <1>1, <1>2, <1>4, <1>5 DEF ResolveThrows, call, CombinatorInv, AnswersCome
<1> QED
  BY <1>6, <1>7, <1>9, <1>10 DEF CombinatorInv

(* The microtasks r after one more is scheduled.                           *)
OneMore(r, i, o) ==
    /\ r \in Seq(Inputs \X Outcomes)
    /\ \A q \in DOMAIN r : r[q] = <<i, o>> \/ \E q0 \in DOMAIN reactions : r[q] = reactions[q0]
    /\ \A p, q \in DOMAIN r : r[p][1] = r[q][1] => p = q
    /\ \A p \in DOMAIN answers, q \in DOMAIN r : answers[p][1] # r[q][1]

LEMMA Scheduled ==
  ASSUME CombinatorInv, NEW i \in Inputs, NEW o \in Outcomes,
         \A p \in DOMAIN answers : answers[p][1] # i,
         \A q \in DOMAIN reactions : reactions[q][1] # i
  PROVE  OneMore(Append(reactions, <<i, o>>), i, o)
<1> DEFINE r == Append(reactions, <<i, o>>)
<1>1. PICK x \in Inputs \X Outcomes : x = <<i, o>>
  OBVIOUS
<1>2. reactions \in Seq(Inputs \X Outcomes) /\ Len(reactions) \in Nat
  BY DEF CombinatorInv, CallTypes
<1>3. /\ r \in Seq(Inputs \X Outcomes) /\ Len(r) = Len(reactions) + 1
      /\ \A p \in 1..Len(reactions) : r[p] = reactions[p]
      /\ r[Len(reactions) + 1] = x
  BY <1>1, <1>2, AppendProperties
<1>4. DOMAIN r = 1..(Len(reactions) + 1) /\ DOMAIN reactions = 1..Len(reactions)
  BY <1>2, <1>3
<1> QED
  BY <1>1, <1>2, <1>3, <1>4 DEF CombinatorInv, OneAnswer, OneMore

LEMMA AttachKeeps ==
  ASSUME Thenables = {}, CombinatorInv, Attach
  PROVE  CombinatorInv'
<1>1. attached \in Nat /\ attached < length /\ length \in Nat /\ length <= MaxLength
  BY MaxLengthAssumption DEF Attach, CombinatorInv, CallTypes, AnswersCome
<1>2. PICK i \in Inputs : i = attached + 1
  BY <1>1, MaxLengthAssumption DEF Inputs
<1>3. /\ executor = "attaching" /\ attached' = i
      /\ executor' = IF i = length THEN "done" ELSE "attaching"
      /\ reactions' = IF i \in native /\ settled[i] # "pending"
                      THEN Append(reactions, <<i, settled[i]>>) ELSE reactions
      /\ UNCHANGED <<kind, length, native, settled, answers, remaining, results, promise>>
  BY <1>2 DEF Attach, call
<1>4. CountsAnswers' /\ PromiseFollows'
  BY <1>3, NoAnswer
<1>5. /\ \A p \in DOMAIN answers : answers[p][1] \in 1..attached
      /\ \A q \in DOMAIN reactions : reactions[q][1] \in native \cap 1..attached
  BY <1>3 DEF CombinatorInv, AnswersCome
<1>6. /\ reactions' \in Seq(Inputs \X Outcomes)
      /\ OneAnswer'
      /\ \A q \in DOMAIN reactions' :
            reactions'[q][1] \in native \cap 1..i /\ settled[reactions'[q][1]] # "pending"
  <2>1. CASE i \in native /\ settled[i] # "pending"
    <3>1. PICK o \in Outcomes : o = settled[i]
      BY <2>1 DEF CombinatorInv, CallTypes
    <3>2. PICK r : r = reactions'
      OBVIOUS
    <3>3. r = Append(reactions, <<i, o>>)
      BY <1>3, <2>1, <3>1, <3>2
    <3>4. /\ \A p \in DOMAIN answers : answers[p][1] # i
          /\ \A q \in DOMAIN reactions : reactions[q][1] # i
      BY <1>1, <1>2, <1>5
    <3>5. OneMore(r, i, o)
      BY <3>3, <3>4, Scheduled, Zenon
    <3>6. OneAnswer'
      BY <1>3, <3>2, <3>5 DEF CombinatorInv, OneAnswer, OneMore
    <3>7. \A q \in DOMAIN r : r[q][1] \in native \cap 1..i /\ settled[r[q][1]] # "pending"
      BY <1>1, <1>2, <2>1, <3>5 DEF CombinatorInv, AnswersCome, OneMore
    <3> QED
      BY <3>2, <3>5, <3>6, <3>7 DEF OneMore
  <2>2. CASE ~(i \in native /\ settled[i] # "pending")
    BY <1>1, <1>2, <1>3, <2>2 DEF CombinatorInv, CallTypes, OneAnswer, AnswersCome
  <2> QED
    BY <2>1, <2>2
<1>7. CallTypes'
  BY <1>1, <1>2, <1>3, <1>6 DEF CombinatorInv, CallTypes
<1>8. AnswersCome'
  BY <1>1, <1>2, <1>3, <1>5, <1>6 DEF CombinatorInv, CallTypes, AnswersCome
<1> QED
  BY <1>4, <1>6, <1>7, <1>8 DEF CombinatorInv

LEMMA InputSettlesKeeps ==
  ASSUME CombinatorInv, NEW i \in Inputs, NEW o \in Outcomes, InputSettles(i, o)
  PROVE  CombinatorInv'
<1>1. /\ i \in native /\ settled[i] = "pending" /\ settled' = [settled EXCEPT ![i] = o]
      /\ reactions' = IF i <= attached THEN Append(reactions, <<i, o>>) ELSE reactions
      /\ UNCHANGED <<kind, length, native, executor, attached, answers, remaining, results, promise>>
      /\ o # "pending"
  BY DEF InputSettles, call, Outcomes
<1>2. attached \in Nat /\ length \in Nat
  BY MaxLengthAssumption DEF CombinatorInv, CallTypes
<1>3. CountsAnswers' /\ PromiseFollows'
  BY <1>1 DEF CombinatorInv, CountsAnswers, PromiseFollows
<1>4. /\ \A q \in DOMAIN reactions : reactions[q][1] # i
      /\ \A p \in DOMAIN answers : answers[p][1] = i => answers[p][2] = "thrown" /\ i = attached + 1
  BY <1>1 DEF CombinatorInv, AnswersCome
<1>5. /\ settled' \in [Inputs -> {"pending"} \cup Outcomes] /\ settled'[i] # "pending"
      /\ \A j \in Inputs : settled[j] # "pending" => settled'[j] # "pending"
  BY <1>1 DEF CombinatorInv, CallTypes
<1>6. /\ reactions' \in Seq(Inputs \X Outcomes)
      /\ OneAnswer'
      /\ \A q \in DOMAIN reactions' :
            reactions'[q][1] \in native \cap 1..attached /\ settled'[reactions'[q][1]] # "pending"
  <2>1. CASE i <= attached
    <3>1. PICK r : r = reactions'
      OBVIOUS
    <3>2. r = Append(reactions, <<i, o>>)
      BY <1>1, <2>1, <3>1
    <3>3. \A p \in DOMAIN answers : answers[p][1] # i
      BY <1>2, <1>4, <2>1
    <3>4. OneMore(r, i, o)
      BY <1>4, <3>2, <3>3, Scheduled, Zenon
    <3>5. OneAnswer'
      BY <1>1, <3>1, <3>4 DEF CombinatorInv, OneAnswer, OneMore
    <3>6. i \in native \cap 1..attached
      BY <1>1, <1>2, <2>1 DEF CombinatorInv, CallTypes
    <3>7. \A q \in DOMAIN r : r[q][1] \in native \cap 1..attached /\ settled'[r[q][1]] # "pending"
      <4>1. \A q \in DOMAIN reactions : /\ reactions[q][1] \in native \cap 1..attached
                                        /\ settled'[reactions[q][1]] # "pending"
        BY <1>5 DEF CombinatorInv, CallTypes, AnswersCome, Inputs
      <4> QED
        BY <1>5, <3>4, <3>6, <4>1 DEF OneMore
    <3> QED
      BY <3>1, <3>4, <3>5, <3>7 DEF OneMore
  <2>2. CASE ~(i <= attached)
    BY <1>1, <1>2, <1>5, <2>2 DEF CombinatorInv, CallTypes, OneAnswer, AnswersCome, Inputs
  <2> QED
    BY <2>1, <2>2
<1>7. CallTypes'
  BY <1>1, <1>5, <1>6 DEF CombinatorInv, CallTypes
<1>8. AnswersCome'
  BY <1>1, <1>5, <1>6 DEF CombinatorInv, CallTypes, AnswersCome, Inputs
<1> QED
  BY <1>3, <1>6, <1>7, <1>8 DEF CombinatorInv

(* The answers b after an element has answered for the first time.         *)
OneMoreAnswer(b, i, o) ==
    /\ b \in Answers
    /\ \A p, q \in DOMAIN b : b[p][1] = b[q][1] => p = q
    /\ \A p \in DOMAIN b : b[p] = <<i, o>> \/ \E q \in DOMAIN answers : b[p] = answers[q]

LEMMA AnswerAppended ==
  ASSUME CombinatorInv, NEW i \in 1..attached, NEW o \in Outcomes,
         \A p \in DOMAIN answers : answers[p][1] # i
  PROVE  OneMoreAnswer(Append(answers, <<i, o>>), i, o)
<1> DEFINE b == Append(answers, <<i, o>>)
<1>1. answers \in Answers /\ i \in Inputs /\ o \in Outcomes \cup {"thrown"}
  BY MaxLengthAssumption DEF CombinatorInv, CallTypes, Inputs
<1>2. /\ b \in Answers /\ DOMAIN b = 1..(Len(answers) + 1) /\ DOMAIN answers = 1..Len(answers)
      /\ Len(answers) \in Nat
      /\ \A p \in DOMAIN answers : b[p] = answers[p]
      /\ b[Len(answers) + 1] = <<i, o>>
  BY <1>1, AnswerLists, AppendedAnswer
<1> QED
  BY <1>2 DEF CombinatorInv, OneAnswer, OneMoreAnswer

LEMMA ThenableCallsKeeps ==
  ASSUME Thenables = {}, CombinatorInv, NEW i \in Inputs, NEW o \in Outcomes, ThenableCalls(i, o)
  PROVE  CombinatorInv'
<1>1. /\ i \in 1..attached /\ i \notin native /\ settled[i] = "pending" /\ Handler(i, o)
      /\ settled' = [settled EXCEPT ![i] = o] /\ answers' = Append(answers, <<i, o>>)
      /\ UNCHANGED <<kind, length, native, executor, attached, reactions>>
      /\ o # "pending"
  BY DEF ThenableCalls, call, Outcomes
<1>2. attached \in 0..length /\ length \in Nat
  BY MaxLengthAssumption DEF CombinatorInv, CallTypes
<1>3. executor # "new"
  BY <1>1, <1>2 DEF CombinatorInv, AnswersCome
<1>4. \A p \in DOMAIN answers : answers[p][1] \in (1..length) \ {i}
  BY <1>1, <1>2 DEF CombinatorInv, AnswersCome
<1>5. i \in 1..length
  BY <1>1, <1>2
<1>6. CountsAnswers' /\ PromiseFollows'
  BY <1>1, <1>3, <1>4, <1>5, Answering
<1>7. PICK b : b = Append(answers, <<i, o>>)
  OBVIOUS
<1>8. /\ b \in Answers
      /\ \A p, q \in DOMAIN b : b[p][1] = b[q][1] => p = q
      /\ \A p \in DOMAIN b : b[p] = <<i, o>> \/ \E q \in DOMAIN answers : b[p] = answers[q]
  <2>1. \A p \in DOMAIN answers : answers[p][1] # i
    BY <1>4
  <2>2. OneMoreAnswer(b, i, o)
    BY <1>1, <1>7, <2>1, AnswerAppended
  <2> QED
    BY <2>2 DEF OneMoreAnswer
<1>9. /\ settled' \in [Inputs -> {"pending"} \cup Outcomes] /\ settled'[i] # "pending"
      /\ \A j \in Inputs : settled[j] # "pending" => settled'[j] # "pending"
  BY <1>1 DEF CombinatorInv, CallTypes
<1>10. CallTypes'
  BY <1>1, <1>7, <1>8, <1>9 DEF CombinatorInv, CallTypes
<1>11. OneAnswer'
  <2>1. \A q \in DOMAIN reactions : reactions[q][1] # i
    BY <1>1 DEF CombinatorInv, AnswersCome
  <2>2. \A p \in DOMAIN b, q \in DOMAIN reactions : b[p][1] # reactions[q][1]
    BY <1>8, <2>1 DEF CombinatorInv, OneAnswer
  <2> QED
    BY <1>1, <1>7, <1>8, <2>2 DEF CombinatorInv, OneAnswer
<1>12. AnswersCome'
  <2>1. \A j \in 1..attached : j \in Inputs
    BY <1>2, MaxLengthAssumption DEF CombinatorInv, CallTypes, Inputs
  <2>2. \A p \in DOMAIN b :
           \/ /\ b[p][2] \in Outcomes
              /\ b[p][1] \in 1..attached /\ settled'[b[p][1]] # "pending"
           \/ /\ b[p][2] = "thrown" /\ b[p][1] = attached + 1
              /\ attached < length /\ executor = "done"
    BY <1>1, <1>8, <1>9, <2>1 DEF CombinatorInv, AnswersCome
  <2>3. \A q \in DOMAIN reactions :
           /\ reactions[q][1] \in native \cap 1..attached
           /\ settled'[reactions[q][1]] # "pending"
    BY <1>9, <2>1 DEF CombinatorInv, AnswersCome
  <2> QED
    BY <1>1, <1>3, <1>7, <2>2, <2>3 DEF CombinatorInv, AnswersCome
<1> QED
  BY <1>6, <1>10, <1>11, <1>12 DEF CombinatorInv

LEMMA RunReactionKeeps ==
  ASSUME CombinatorInv, RunReaction
  PROVE  CombinatorInv'
<1>1. PICK x : x = Head(reactions)
  OBVIOUS
<1>2. /\ reactions \in Seq(Inputs \X Outcomes) /\ reactions # <<>>
      /\ executor = "done" /\ Handler(x[1], x[2]) /\ reactions' = Tail(reactions)
      /\ answers' = Append(answers, x)
      /\ UNCHANGED <<kind, length, native, settled, executor, attached>>
  BY <1>1 DEF RunReaction, call, CombinatorInv, CallTypes
<1>3. PICK r : r = reactions'
  OBVIOUS
<1>4. /\ 1 \in DOMAIN reactions /\ x = reactions[1]
      /\ r \in Seq(Inputs \X Outcomes) /\ DOMAIN r = 1..(Len(reactions) - 1)
      /\ Len(reactions) \in Nat /\ DOMAIN reactions = 1..Len(reactions)
      /\ \A q \in DOMAIN r : r[q] = reactions[q + 1]
  BY <1>1, <1>2, <1>3, HeadTailProperties
<1>5. PICK i \in Inputs, o \in Outcomes : x = <<i, o>>
  <2>1. reactions[1] \in Inputs \X Outcomes
    BY <1>2, <1>4
  <2> QED
    BY <1>4, <2>1
<1>6. i = x[1] /\ o = x[2]
  BY <1>5
<1>7. attached \in 0..length /\ length \in Nat
  BY MaxLengthAssumption DEF CombinatorInv, CallTypes
<1>8. i \in 1..attached /\ i \in 1..length /\ settled[i] # "pending"
  BY <1>4, <1>6, <1>7 DEF CombinatorInv, AnswersCome
<1>9. \A p \in DOMAIN answers : answers[p][1] \in (1..length) \ {i}
  <2>1. \A p \in DOMAIN answers : answers[p][1] # i
    BY <1>4, <1>6 DEF CombinatorInv, OneAnswer
  <2> QED
    BY <1>7, <2>1 DEF CombinatorInv, AnswersCome
<1>10. CountsAnswers' /\ PromiseFollows'
  <2>1. Handler(i, o) /\ answers' = Append(answers, <<i, o>>)
    BY <1>2, <1>5, <1>6
  <2>2. kind' = kind /\ length' = length /\ executor # "new" /\ executor' # "new"
    BY <1>2
  <2> QED
    BY <1>8, <1>9, <2>1, <2>2, Answering
<1>11. PICK b : b = Append(answers, <<i, o>>)
  OBVIOUS
<1>12. /\ b \in Answers
       /\ \A p, q \in DOMAIN b : b[p][1] = b[q][1] => p = q
       /\ \A p \in DOMAIN b : b[p] = <<i, o>> \/ \E q \in DOMAIN answers : b[p] = answers[q]
  <2>1. \A p \in DOMAIN answers : answers[p][1] # i
    BY <1>9
  <2>2. OneMoreAnswer(b, i, o)
    BY <1>8, <1>11, <2>1, AnswerAppended
  <2> QED
    BY <2>2 DEF OneMoreAnswer
<1>13. answers' = b
  BY <1>2, <1>5, <1>11
<1>14. CallTypes'
  BY <1>2, <1>3, <1>4, <1>12, <1>13 DEF CombinatorInv, CallTypes
<1>15. OneAnswer'
  <2>1. \A p, q \in DOMAIN r : r[p][1] = r[q][1] => p = q
    BY <1>4 DEF CombinatorInv, OneAnswer
  <2>2. \A q \in DOMAIN r : r[q][1] # i
    BY <1>4, <1>6 DEF CombinatorInv, OneAnswer
  <2>3. \A p \in DOMAIN b, q \in DOMAIN r : b[p][1] # r[q][1]
    BY <1>4, <1>12, <2>2 DEF CombinatorInv, OneAnswer
  <2> QED
    BY <1>3, <1>12, <1>13, <2>1, <2>3 DEF OneAnswer
<1>16. AnswersCome'
  <2>1. \A p \in DOMAIN b :
           \/ /\ b[p][2] \in Outcomes
              /\ b[p][1] \in 1..attached /\ settled[b[p][1]] # "pending"
           \/ /\ b[p][2] = "thrown" /\ b[p][1] = attached + 1
              /\ attached < length /\ executor = "done"
    BY <1>8, <1>12 DEF CombinatorInv, AnswersCome
  <2>2. \A q \in DOMAIN r : /\ r[q][1] \in native \cap 1..attached
                            /\ settled[r[q][1]] # "pending"
    BY <1>4 DEF CombinatorInv, AnswersCome
  <2> QED
    BY <1>2, <1>3, <1>13, <2>1, <2>2 DEF CombinatorInv, AnswersCome
<1> QED
  BY <1>10, <1>14, <1>15, <1>16 DEF CombinatorInv

LEMMA CombinatorInitInv ==
  ASSUME CombinatorInit
  PROVE  CombinatorInv
<1>1. answers = <<>> /\ <<>> \in Answers /\ reactions = <<>> /\ <<>> \in Seq(Inputs \X Outcomes)
  BY DEF CombinatorInit, Answers
<1>2. PlacesOf(<<>>) = NoResults /\ Len(<<>>) = 0
  BY DEF PlacesOf, NoResults
<1>3. CallTypes
  BY <1>1, KindsAssumption, MaxLengthAssumption DEF CombinatorInit, CallTypes
<1>4. CountsAnswers
  BY <1>1, <1>2, MaxLengthAssumption DEF CombinatorInit, CountsAnswers
<1> QED
  BY <1>1, <1>3, <1>4
     DEF CombinatorInit, CombinatorInv, OneAnswer, AnswersCome, PromiseFollows

LEMMA CombinatorStepInv ==
  ASSUME Thenables = {}, CombinatorInv, [CombinatorNext]_combinatorVars
  PROVE  CombinatorInv'
<1>1. CASE UNCHANGED combinatorVars
  BY <1>1 DEF combinatorVars, CombinatorInv, CallTypes, OneAnswer, AnswersCome, CountsAnswers,
              PromiseFollows
<1>2. ASSUME CombinatorNext PROVE CombinatorInv'
  BY <1>2, StartEmptyKeeps, StartKeeps, ResolveThrowsKeeps, AttachKeeps, InputSettlesKeeps,
     ThenableCallsKeeps, RunReactionKeeps
     DEF CombinatorNext
<1> QED
  BY <1>1, <1>2

(* Promise.all, race, any and allSettled settle as the answers of the      *)
(* elements say, for any number of elements, whatever the order of the     *)
(* answers and however many of them come while the executor still runs:    *)
(* with the answer that decides, or with the array once all have come      *)
(* (onFulfilled and onRejected of promise_init.go).  The elements are      *)
(* promises and objects whose then calls one handler once.                 *)
THEOREM CombinatorsFollowAnswers ==
  ASSUME Thenables = {}
  PROVE  CombinatorSpec => []AnswersDecide
<1>1. CombinatorInv => AnswersDecide
  BY DEF CombinatorInv, PromiseFollows, AnswersDecide
<1> QED
  BY <1>1, CombinatorInitInv, CombinatorStepInv, PTL DEF CombinatorSpec
=============================================================================
