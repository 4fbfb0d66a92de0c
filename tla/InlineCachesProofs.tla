------------------------- MODULE InlineCachesProofs -------------------------
(* Shapes and inline caches, proved for any number of objects, keys, shapes *)
(* and cache entries, and for prototype chains of any length unless a       *)
(* theorem says otherwise.                                                  *)
EXTENDS InlineCaches, SequenceTheorems, FiniteSetTheorems, WellFoundedInduction, TLAPS

(* The cell that is field i of shape s.                                     *)
CellAt(s, i) == arrays[shapes[s].array].cells[i]

KeyAt(s, i) == CellAt(s, i).key

Has(s, k) == \E i \in 1..shapes[s].len : KeyAt(s, i) = k

ArrayType == [cells : Seq(FieldType), cap : Nat]

ShapeType ==
    [array : Nat, len : Nat, next : [Keys -> Nat], version : Nat,
     childExtended : BOOLEAN, owned : BOOLEAN]

ObjectType ==
    [shape : Nat, slots : Seq(Keys \cup {Hole}), prototype : Objects \cup {Null},
     extensible : BOOLEAN, getters : BOOLEAN]

EntryType ==
    [shape : Nat, version : Nat, key : Keys, offset : Nat, accessor : BOOLEAN,
     writable : BOOLEAN, depth : 0..MaxDepth, holderShape : Nat, holderVersion : Nat]

(* Where a shape's fields are, and where its transitions lead.              *)
ShapesType ==
    /\ arrays \in Seq(ArrayType)
    /\ shapes \in Seq(ShapeType)
    /\ \A s \in DOMAIN shapes :
          /\ shapes[s].array \in DOMAIN arrays
          /\ \A k \in Keys : shapes[s].next[k] \in {None} \cup DOMAIN shapes

(* A shape that nobody has extended in place has the array to its end, and  *)
(* it is the only one that has.                                             *)
FieldsFit ==
    /\ \A a \in DOMAIN arrays : Len(arrays[a].cells) <= arrays[a].cap
    /\ \A s \in DOMAIN shapes :
          /\ shapes[s].len <= Len(arrays[shapes[s].array].cells)
          /\ ~shapes[s].childExtended =>
                shapes[s].len = Len(arrays[shapes[s].array].cells)
    /\ \A s, t \in DOMAIN shapes :
          /\ shapes[s].array = shapes[t].array
          /\ ~shapes[s].childExtended
          /\ ~shapes[t].childExtended
          => s = t

(* Offsets follow the order of the fields, and no key is there twice.       *)
FieldsInOrder ==
    \A s \in DOMAIN shapes :
       /\ \A i \in 1..shapes[s].len : CellAt(s, i).offset = i - 1
       /\ \A i, j \in 1..shapes[s].len : KeyAt(s, i) = KeyAt(s, j) => i = j

(* t is s with the key k behind its fields.                                 *)
LeadsTo(s, k, t) ==
    /\ ~Has(s, k)
    /\ shapes[t].len = shapes[s].len + 1
    /\ KeyAt(t, shapes[t].len) = k
    /\ \A i \in 1..shapes[s].len : KeyAt(t, i) = KeyAt(s, i)

TransitionsLead ==
    \A s \in DOMAIN shapes : \A k \in Keys :
       shapes[s].next[k] # None => LeadsTo(s, k, shapes[s].next[k])

ShapesInv == ShapesType /\ FieldsFit /\ FieldsInOrder /\ TransitionsLead

(* Every slot of an object belongs to the field at its place.               *)
ObjectOK(o) ==
    /\ objects[o].shape \in DOMAIN shapes
    /\ Len(objects[o].slots) = shapes[objects[o].shape].len
    /\ \A i \in 1..shapes[objects[o].shape].len :
          objects[o].slots[i] \in {KeyAt(objects[o].shape, i), Hole}

ObjectsInv ==
    /\ objects \in [Objects -> ObjectType]
    /\ \A o \in Objects : ObjectOK(o)

(* An entry is for an own property of its shape, or for a property that its *)
(* shape does not have and its holder's shape does.                         *)
EntryOK(e) ==
    /\ e.shape \in DOMAIN shapes
    /\ e.holderShape \in DOMAIN shapes
    /\ IF e.depth = 0
       THEN e.offset + 1 \in 1..shapes[e.shape].len /\ KeyAt(e.shape, e.offset + 1) = e.key
       ELSE /\ ~e.writable
            /\ ~Has(e.shape, e.key)
            /\ e.offset + 1 \in 1..shapes[e.holderShape].len
            /\ KeyAt(e.holderShape, e.offset + 1) = e.key

SiteInv ==
    /\ site \in [entries : SUBSET EntryType, mega : BOOLEAN]
    /\ \A e \in site.entries : EntryOK(e)
    /\ \A e, f \in site.entries : e.shape = f.shape /\ e.key = f.key => e = f
    /\ IsFiniteSet(site.entries) /\ Cardinality(site.entries) <= MaxEntries

IInv == ShapesInv /\ ObjectsInv /\ SiteInv

-----------------------------------------------------------------------------
(* Reading a layout that keeps the invariant.                               *)

LEMMA FieldsAreCells ==
  ASSUME ShapesInv, NEW s \in DOMAIN shapes
  PROVE  /\ shapes[s] \in ShapeType
         /\ shapes[s].array \in DOMAIN arrays
         /\ arrays[shapes[s].array] \in ArrayType
         /\ Fields(s) \in Seq(FieldType)
         /\ Len(Fields(s)) = shapes[s].len
         /\ DOMAIN Fields(s) = 1..shapes[s].len
         /\ \A i \in 1..shapes[s].len :
               Fields(s)[i] = CellAt(s, i) /\ CellAt(s, i) \in FieldType
<1> DEFINE cells == arrays[shapes[s].array].cells
<1>1. shapes[s] \in ShapeType /\ shapes[s].array \in DOMAIN arrays
  BY ElementOfSeq DEF ShapesInv, ShapesType
<1>2. arrays[shapes[s].array] \in ArrayType
  BY <1>1, ElementOfSeq DEF ShapesInv, ShapesType
<1>3. cells \in Seq(FieldType) /\ shapes[s].len \in Nat
  BY <1>1, <1>2 DEF ArrayType, ShapeType
<1>4. shapes[s].len <= Len(cells)
  BY DEF ShapesInv, FieldsFit
<1> HIDE DEF cells
<1>5. /\ SubSeq(cells, 1, shapes[s].len) \in Seq(FieldType)
      /\ Len(SubSeq(cells, 1, shapes[s].len)) = shapes[s].len
      /\ \A i \in 1..shapes[s].len : SubSeq(cells, 1, shapes[s].len)[i] = cells[i]
  BY <1>3, <1>4
<1>6. \A i \in 1..shapes[s].len : cells[i] \in FieldType
  BY <1>3, <1>4
<1> QED
  BY <1>1, <1>2, <1>3, <1>5, <1>6 DEF Fields, CellAt, cells

LEMMA KeysAreFound ==
  ASSUME ShapesInv, NEW s \in DOMAIN shapes, NEW k \in Keys
  PROVE  /\ HasField(Fields(s), k) <=> Has(s, k)
         /\ Has(s, k) =>
               LET i == IndexOf(Fields(s), k) IN
               /\ i \in 1..shapes[s].len
               /\ Fields(s)[i] = CellAt(s, i)
               /\ KeyAt(s, i) = k
               /\ CellAt(s, i).offset = i - 1
               /\ CellAt(s, i) \in FieldType
<1>1. /\ DOMAIN Fields(s) = 1..shapes[s].len
      /\ \A i \in 1..shapes[s].len :
            Fields(s)[i] = CellAt(s, i) /\ CellAt(s, i) \in FieldType
      /\ shapes[s].len \in Nat
  BY FieldsAreCells DEF ShapeType
<1>2. HasField(Fields(s), k) <=> Has(s, k)
  BY <1>1 DEF HasField, Has, KeyAt
<1>3. ASSUME NEW i \in 1..shapes[s].len, KeyAt(s, i) = k
      PROVE  \A j \in 1..(i - 1) : Fields(s)[j].key # k
  BY <1>1, <1>3 DEF ShapesInv, FieldsInOrder, KeyAt
<1>4. ASSUME Has(s, k)
      PROVE  LET i == IndexOf(Fields(s), k) IN i \in 1..shapes[s].len /\ KeyAt(s, i) = k
  <2>1. PICK i \in DOMAIN Fields(s) :
           Fields(s)[i].key = k /\ \A j \in 1..(i - 1) : Fields(s)[j].key # k
    BY <1>1, <1>3, <1>4 DEF Has, KeyAt
  <2>2. IndexOf(Fields(s), k) \in DOMAIN Fields(s)
        /\ Fields(s)[IndexOf(Fields(s), k)].key = k
    BY <2>1 DEF IndexOf
  <2> QED
    BY <2>2, <1>1 DEF KeyAt
<1>5. \A i \in 1..shapes[s].len : CellAt(s, i).offset = i - 1
  BY DEF ShapesInv, FieldsInOrder
<1> QED
  BY <1>1, <1>2, <1>4, <1>5

-----------------------------------------------------------------------------
(* The three ways to change a shape.                                        *)

(* Whatever a step adds or overwrites, the shapes there were have the keys  *)
(* they had.                                                                *)
KeysStay ==
    /\ Len(shapes) <= Len(shapes')
    /\ \A t \in DOMAIN shapes :
          /\ t \in DOMAIN shapes'
          /\ shapes'[t].len = shapes[t].len
          /\ \A i \in 1..shapes[t].len : KeyAt(t, i)' = KeyAt(t, i)

(* And no field of theirs has changed.                                      *)
FieldsStay ==
    /\ KeysStay
    /\ \A t \in DOMAIN shapes : \A i \in 1..shapes[t].len : CellAt(t, i)' = CellAt(t, i)

(* A new shape, the fields of s and one more, at the end of array m.        *)
Extended(s, field, m) ==
    LET n == shapes[s].len + 1
        new == Len(shapes) + 1
    IN  /\ arrays' \in Seq(ArrayType)
        /\ m \in DOMAIN arrays'
        /\ Len(arrays'[m].cells) = n
        /\ arrays'[m].cap >= n
        /\ arrays'[m].cells[n] = field
        /\ \A i \in 1..shapes[s].len : arrays'[m].cells[i] = CellAt(s, i)
        /\ \A b \in DOMAIN arrays : b \in DOMAIN arrays' /\ (b # m => arrays'[b] = arrays[b])
        /\ \A b \in DOMAIN arrays' : b = m \/ b \in DOMAIN arrays
        /\ m \in DOMAIN arrays => m = shapes[s].array /\ ~shapes[s].childExtended
        /\ shapes' \in Seq(ShapeType)
        /\ Len(shapes') = new
        /\ \A t \in DOMAIN shapes :
              /\ shapes'[t].array = shapes[t].array
              /\ shapes'[t].len = shapes[t].len
              /\ shapes'[t].childExtended = (shapes[t].childExtended \/ (t = s /\ m \in DOMAIN arrays))
              /\ \A k \in Keys : \/ shapes'[t].next[k] = shapes[t].next[k]
                                 \/ t = s /\ k = field.key /\ shapes'[t].next[k] = new
        /\ shapes'[new].array = m
        /\ shapes'[new].len = n
        /\ ~shapes'[new].childExtended
        /\ \A k \in Keys : shapes'[new].next[k] = None

LEMMA ExtendExtends ==
  ASSUME ShapesInv, NEW s \in DOMAIN shapes, NEW field \in FieldType,
         NEW link \in BOOLEAN, Extend(s, field, link)
  PROVE  \E m \in Nat : Extended(s, field, m)
<1> DEFINE shared == SharesBacking(s)
           n == shapes[s].len + 1
           a == IF shared THEN shapes[s].array ELSE Len(arrays) + 1
           new == Len(shapes) + 1
           child == [array |-> a, len |-> n, next |-> [k \in Keys |-> None],
                     version |-> shapes[s].version + 1,
                     childExtended |-> FALSE, owned |-> ~shared]
           u == [shapes[s] EXCEPT !.childExtended = @ \/ shared,
                                  !.next[field.key] = IF link THEN new ELSE @]
           updated == [shapes EXCEPT ![s] = u]
           cells == arrays[shapes[s].array].cells
<1>1. /\ shapes[s] \in ShapeType
      /\ shapes[s].array \in DOMAIN arrays
      /\ arrays[shapes[s].array] \in ArrayType
      /\ Fields(s) \in Seq(FieldType)
      /\ Len(Fields(s)) = shapes[s].len
      /\ \A i \in 1..shapes[s].len : Fields(s)[i] = CellAt(s, i) /\ CellAt(s, i) \in FieldType
  BY FieldsAreCells
<1>2. arrays \in Seq(ArrayType) /\ shapes \in Seq(ShapeType)
  BY DEF ShapesInv, ShapesType
<1>3. /\ arrays' = IF shared
                   THEN [arrays EXCEPT ![a].cells = WriteCell(@, n, field)]
                   ELSE Append(arrays, [cells |-> Append(Fields(s), field), cap |-> FreshCap(n)])
      /\ shapes' = Append(updated, child)
  BY DEF Extend
<1>4. shapes[s].len \in Nat /\ n \in Nat /\ a \in Nat /\ Len(arrays) \in Nat
      /\ Len(shapes) \in Nat /\ new \in Nat
  BY <1>1, <1>2 DEF ShapeType
<1>5. /\ arrays' \in Seq(ArrayType)
      /\ a \in DOMAIN arrays'
      /\ Len(arrays'[a].cells) = n
      /\ arrays'[a].cap >= n
      /\ arrays'[a].cells[n] = field
      /\ \A i \in 1..shapes[s].len : arrays'[a].cells[i] = CellAt(s, i)
      /\ \A b \in DOMAIN arrays : b \in DOMAIN arrays' /\ (b # a => arrays'[b] = arrays[b])
      /\ \A b \in DOMAIN arrays' : b = a \/ b \in DOMAIN arrays
      /\ a \in DOMAIN arrays => a = shapes[s].array /\ ~shapes[s].childExtended
  <2>1. CASE shared
    <3>1. a = shapes[s].array /\ ~shapes[s].childExtended /\ arrays[a].cap > shapes[s].len
      BY <2>1 DEF SharesBacking
    <3>2. Len(cells) = shapes[s].len
      BY <3>1 DEF ShapesInv, FieldsFit
    <3>3. cells \in Seq(FieldType) /\ arrays[a].cap \in Nat
      BY <1>1, <3>1 DEF ArrayType
    <3>4. WriteCell(cells, n, field) = [j \in 1..n |-> IF j = n THEN field ELSE cells[j]]
      BY <3>2, <1>4 DEF WriteCell
    <3> DEFINE w == WriteCell(cells, n, field)
    <3>5. w \in Seq(FieldType) /\ Len(w) = n /\ w[n] = field
          /\ \A i \in 1..shapes[s].len : w[i] = cells[i]
      <4> HIDE DEF cells
      <4>1. \A j \in 1..n : (IF j = n THEN field ELSE cells[j]) \in FieldType
        BY <3>2, <3>3, <1>4
      <4> DEFINE g == [j \in 1..n |-> IF j = n THEN field ELSE cells[j]]
      <4>2. g \in Seq(FieldType) /\ Len(g) = n
        BY <4>1, <1>4
      <4>3. w = g
        BY <3>4 DEF cells
      <4> QED
        BY <4>2, <4>3, <1>4
    <3> HIDE DEF w
    <3>6. arrays' = [arrays EXCEPT ![a] = [arrays[a] EXCEPT !.cells = w]]
      BY <1>3, <2>1 DEF w
    <3>7. [arrays[a] EXCEPT !.cells = w] \in ArrayType
          /\ [arrays[a] EXCEPT !.cells = w].cells = w
          /\ [arrays[a] EXCEPT !.cells = w].cap = arrays[a].cap
      BY <1>1, <3>1, <3>5 DEF ArrayType
    <3> DEFINE r == [arrays[a] EXCEPT !.cells = w]
    <3> HIDE DEF r
    <3>8. /\ arrays' \in Seq(ArrayType) /\ DOMAIN arrays' = DOMAIN arrays
          /\ arrays'[a] = r
          /\ \A b \in DOMAIN arrays : b # a => arrays'[b] = arrays[b]
      <4> HIDE DEF a
      <4>1. a \in 1..Len(arrays) /\ r \in ArrayType /\ arrays' = [arrays EXCEPT ![a] = r]
        BY <1>1, <1>2, <3>1, <3>6, <3>7 DEF r
      <4> QED
        BY <4>1, <1>2, ExceptSeq
    <3> HIDE DEF a
    <3>9. arrays'[a].cells = w /\ arrays'[a].cap = arrays[a].cap
      BY <3>8, <3>7 DEF r
    <3>10. arrays'[a].cap >= n
      BY <3>9, <3>1, <3>3, <1>4
    <3>11. \A i \in 1..shapes[s].len : w[i] = CellAt(s, i)
      BY <3>5, <3>1 DEF CellAt
    <3> QED
      BY <3>1, <3>5, <3>8, <3>9, <3>10, <3>11, <1>1
  <2>2. CASE ~shared
    <3>1. a = Len(arrays) + 1
      BY <2>2
    <3> DEFINE w == Append(Fields(s), field)
               r == [cells |-> w, cap |-> FreshCap(n)]
    <3>2. w \in Seq(FieldType) /\ Len(w) = n /\ w[n] = field
          /\ \A i \in 1..shapes[s].len : w[i] = CellAt(s, i)
      BY <1>1, <1>4
    <3>3. FreshCap(n) \in Nat /\ FreshCap(n) >= n
      BY <1>4 DEF FreshCap
    <3> HIDE DEF w
    <3>4. r \in ArrayType /\ r.cells = w /\ r.cap = FreshCap(n)
      BY <3>2, <3>3 DEF ArrayType
    <3>5. arrays' = Append(arrays, r)
      BY <1>3, <2>2 DEF w
    <3> HIDE DEF r
    <3>6. /\ arrays' \in Seq(ArrayType) /\ DOMAIN arrays' = 1..(Len(arrays) + 1)
          /\ arrays'[a] = r
          /\ \A b \in DOMAIN arrays : arrays'[b] = arrays[b]
          /\ DOMAIN arrays = 1..Len(arrays)
      BY <3>1, <3>4, <3>5, <1>2, AppendProperties
    <3> QED
      BY <3>1, <3>2, <3>3, <3>4, <3>6, <1>4, SMTT(20)
  <2> QED
    BY <2>1, <2>2
<1>6. /\ updated \in Seq(ShapeType) /\ Len(updated) = Len(shapes)
      /\ \A t \in DOMAIN shapes :
            /\ updated[t].array = shapes[t].array
            /\ updated[t].len = shapes[t].len
            /\ updated[t].childExtended = (shapes[t].childExtended \/ (t = s /\ shared))
            /\ \A k \in Keys : \/ updated[t].next[k] = shapes[t].next[k]
                               \/ t = s /\ k = field.key /\ updated[t].next[k] = new
  <2>2. shapes[s].next \in [Keys -> Nat] /\ field.key \in Keys
    BY <1>1 DEF ShapeType, FieldType
  <2>3. [shapes[s].next EXCEPT ![field.key] = IF link THEN new ELSE @] \in [Keys -> Nat]
    BY <2>2, <1>4
  <2>4. u \in ShapeType
        /\ u.array = shapes[s].array /\ u.len = shapes[s].len
        /\ u.childExtended = (shapes[s].childExtended \/ shared)
        /\ u.next = [shapes[s].next EXCEPT ![field.key] = IF link THEN new ELSE @]
    BY <1>1, <2>3 DEF ShapeType, SharesBacking
  <2>5. \A k \in Keys : u.next[k] = shapes[s].next[k] \/ (k = field.key /\ u.next[k] = new)
    BY <2>2, <2>4
  <2> HIDE DEF u
  <2>6. /\ updated \in Seq(ShapeType) /\ Len(updated) = Len(shapes)
        /\ updated[s] = u
        /\ \A t \in DOMAIN shapes : t # s => updated[t] = shapes[t]
    BY <2>4, <1>2, ExceptSeq
  <2>7. ASSUME NEW t \in DOMAIN shapes PROVE shapes[t].childExtended \in BOOLEAN
    BY FieldsAreCells DEF ShapeType
  <2> HIDE DEF updated
  <2> QED
    BY <2>4, <2>5, <2>6, <2>7
<1>7. child \in ShapeType
  <2>1. shared \in BOOLEAN
    BY DEF SharesBacking
  <2>2. shapes[s].version + 1 \in Nat
    BY <1>1 DEF ShapeType
  <2> QED
    BY <2>1, <2>2, <1>4 DEF ShapeType, None
<1>8. /\ child.array = a /\ child.len = n /\ child.childExtended = FALSE
      /\ \A k \in Keys : child.next[k] = None
  OBVIOUS
<1>9. a \in DOMAIN arrays <=> shared
  BY <1>1, <1>2, <1>4
<1> HIDE DEF updated, child
<1>10. /\ shapes' \in Seq(ShapeType) /\ Len(shapes') = new
       /\ shapes'[new] = child
       /\ \A t \in DOMAIN shapes : shapes'[t] = updated[t]
       /\ DOMAIN shapes' = 1..new
  BY <1>2, <1>3, <1>4, <1>6, <1>7, AppendProperties
<1> HIDE DEF a, shared, n, new
<1> DEFINE m == a
<1> HIDE DEF m
<1>11. Extended(s, field, a)
  BY <1>5, <1>6, <1>8, <1>9, <1>10 DEF Extended, n, new
<1> QED
  BY <1>4, <1>11

(* What is known of the shape a transition leads to holds of the            *)
(* transition.                                                              *)
LEMMA TransitionPrimed ==
  ASSUME NEW t, NEW k, NEW r, r = shapes'[t].next[k], LeadsTo(t, k, r)'
  PROVE  LeadsTo(t, k, shapes[t].next[k])'
BY DEF LeadsTo, Has, KeyAt, CellAt

LEMMA LeadingStays ==
  ASSUME ShapesInv, KeysStay, NEW s \in DOMAIN shapes, NEW k \in Keys,
         NEW t \in DOMAIN shapes, LeadsTo(s, k, t)
  PROVE  LeadsTo(s, k, t)'
<1>1. shapes[s].len \in Nat /\ shapes[t].len \in Nat
  BY FieldsAreCells DEF ShapeType
<1>2. /\ ~Has(s, k)
      /\ shapes[t].len = shapes[s].len + 1
      /\ KeyAt(t, shapes[t].len) = k
      /\ \A i \in 1..shapes[s].len : KeyAt(t, i) = KeyAt(s, i)
  BY DEF LeadsTo
<1>3. /\ shapes'[s].len = shapes[s].len /\ shapes'[t].len = shapes[t].len
      /\ \A i \in 1..shapes[s].len : KeyAt(s, i)' = KeyAt(s, i)
      /\ \A i \in 1..shapes[t].len : KeyAt(t, i)' = KeyAt(t, i)
  BY DEF KeysStay
<1>4. ~Has(s, k)'
  BY <1>2, <1>3 DEF Has
<1>5. KeyAt(t, shapes[t].len)' = k
  <2> DEFINE n == shapes[t].len
  <2>1. n \in 1..shapes[t].len
    BY <1>1, <1>2
  <2>2. n = shapes'[t].len
    BY <1>3
  <2> HIDE DEF n
  <2>3. KeyAt(t, n) = k
    BY <1>2 DEF n
  <2>4. PICK j \in 1..shapes[t].len : j = n
    BY <2>1
  <2>5. KeyAt(t, j)' = k
    BY <1>3, <2>3, <2>4
  <2> QED
    BY <2>5, <2>4, <2>2 DEF KeyAt, CellAt
<1>6. \A i \in 1..shapes[s].len : KeyAt(t, i)' = KeyAt(s, i)'
  BY <1>1, <1>2, <1>3
<1> QED
  BY <1>2, <1>3, <1>4, <1>5, <1>6 DEF LeadsTo, KeyAt, CellAt

LEMMA ExtendedKeeps ==
  ASSUME ShapesInv, NEW s \in DOMAIN shapes, NEW field \in FieldType,
         field.offset = shapes[s].len, ~Has(s, field.key),
         NEW m \in Nat, Extended(s, field, m)
  PROVE  /\ ShapesInv'
         /\ FieldsStay
         /\ \E new \in Nat :
               new = Len(shapes) + 1 /\ Len(shapes') = new /\ LeadsTo(s, field.key, new)'
<1>0. PICK new, n : new = Len(shapes) + 1 /\ n = shapes[s].len + 1
  OBVIOUS
<1>1. /\ shapes[s] \in ShapeType
      /\ shapes[s].array \in DOMAIN arrays
      /\ arrays[shapes[s].array] \in ArrayType
      /\ \A i \in 1..shapes[s].len : CellAt(s, i) \in FieldType
  BY FieldsAreCells
<1>2. shapes[s].len \in Nat /\ n \in Nat /\ n # 0 /\ new \in Nat /\ new # None
      /\ DOMAIN shapes = 1..Len(shapes) /\ DOMAIN arrays = 1..Len(arrays)
  BY <1>0, <1>1 DEF ShapeType, ShapesInv, ShapesType, None
<1>3. /\ arrays' \in Seq(ArrayType)
      /\ m \in DOMAIN arrays'
      /\ Len(arrays'[m].cells) = n
      /\ arrays'[m].cap >= n
      /\ arrays'[m].cells[n] = field
      /\ \A i \in 1..shapes[s].len : arrays'[m].cells[i] = CellAt(s, i)
      /\ \A b \in DOMAIN arrays : b \in DOMAIN arrays' /\ (b # m => arrays'[b] = arrays[b])
      /\ \A b \in DOMAIN arrays' : b = m \/ b \in DOMAIN arrays
      /\ m \in DOMAIN arrays => m = shapes[s].array /\ ~shapes[s].childExtended
  BY <1>0 DEF Extended
<1>4. /\ shapes' \in Seq(ShapeType)
      /\ Len(shapes') = new
      /\ \A t \in DOMAIN shapes :
            /\ shapes'[t].array = shapes[t].array
            /\ shapes'[t].len = shapes[t].len
            /\ shapes'[t].childExtended = (shapes[t].childExtended \/ (t = s /\ m \in DOMAIN arrays))
            /\ \A k \in Keys : \/ shapes'[t].next[k] = shapes[t].next[k]
                               \/ t = s /\ k = field.key /\ shapes'[t].next[k] = new
      /\ shapes'[new].array = m
      /\ shapes'[new].len = n
      /\ ~shapes'[new].childExtended
      /\ \A k \in Keys : shapes'[new].next[k] = None
  BY <1>0 DEF Extended
<1>5. DOMAIN shapes' = 1..new /\ DOMAIN shapes' = DOMAIN shapes \cup {new}
      /\ new \notin DOMAIN shapes
  BY <1>0, <1>2, <1>4
<1>6. ASSUME NEW t \in DOMAIN shapes, shapes[t].array = m
      PROVE  /\ shapes[t].len <= shapes[s].len
             /\ m = shapes[s].array
             /\ m \in DOMAIN arrays
             /\ shapes'[t].childExtended
  <2>1. m \in DOMAIN arrays
    BY <1>6, FieldsAreCells
  <2>2. m = shapes[s].array /\ ~shapes[s].childExtended
    BY <2>1, <1>3
  <2>3. shapes[t].len <= shapes[s].len
    BY <2>2, <1>6 DEF ShapesInv, FieldsFit
  <2>4. shapes[t].childExtended \/ t = s
    BY <2>2, <1>6 DEF ShapesInv, FieldsFit
  <2> QED
    BY <2>1, <2>2, <2>3, <2>4, <1>4
<1>7. ASSUME NEW t \in DOMAIN shapes, NEW i \in 1..shapes[t].len
      PROVE  CellAt(t, i)' = CellAt(t, i)
  <2>1. shapes[t].len \in Nat /\ shapes[t].array \in DOMAIN arrays
    BY FieldsAreCells DEF ShapeType
  <2>2. CASE shapes[t].array = m
    <3>1. i \in 1..shapes[s].len
      BY <1>6, <2>2, <2>1, <1>2
    <3> QED
      BY <3>1, <1>3, <1>4, <1>6, <2>2 DEF CellAt
  <2>3. CASE shapes[t].array # m
    BY <2>1, <2>3, <1>3, <1>4 DEF CellAt
  <2> QED
    BY <2>2, <2>3
<1>8. FieldsStay
  <2>1. Len(shapes) <= Len(shapes')
    BY <1>0, <1>2, <1>4
  <2> QED
    BY <2>1, <1>4, <1>5, <1>7 DEF FieldsStay, KeysStay, KeyAt
<1>9. /\ \A i \in 1..shapes[s].len : CellAt(new, i)' = CellAt(s, i)
      /\ CellAt(new, n)' = field
  <2>1. ASSUME NEW i \in Nat PROVE CellAt(new, i)' = arrays'[m].cells[i]
    BY <1>4 DEF CellAt
  <2>2. CellAt(new, n)' = arrays'[m].cells[n]
    BY <1>4 DEF CellAt
  <2> QED
    BY <2>1, <2>2, <1>3
<1>10. ShapesType'
  <2>1. ASSUME NEW t \in DOMAIN shapes'
        PROVE  /\ shapes'[t].array \in DOMAIN arrays'
               /\ \A k \in Keys : shapes'[t].next[k] \in {None} \cup DOMAIN shapes'
    <3>1. CASE t = new
      BY <3>1, <1>3, <1>4
    <3>2. CASE t \in DOMAIN shapes
      <4>1. shapes[t].array \in DOMAIN arrays
            /\ \A k \in Keys : shapes[t].next[k] \in {None} \cup DOMAIN shapes
        BY <3>2 DEF ShapesInv, ShapesType
      <4> QED
        BY <4>1, <3>2, <1>3, <1>4, <1>5, ZenonT(30)
    <3> QED
      BY <3>1, <3>2, <1>5
  <2> QED
    BY <2>1, <1>3, <1>4 DEF ShapesType
<1>11. FieldsFit'
  <2>1. ASSUME NEW b \in DOMAIN arrays' PROVE Len(arrays'[b].cells) <= arrays'[b].cap
    <3>1. CASE b = m
      BY <3>1, <1>3, <1>2, ElementOfSeq DEF ArrayType
    <3>2. CASE b # m
      BY <3>2, <1>3 DEF ShapesInv, FieldsFit
    <3> QED
      BY <3>1, <3>2
  <2>2. ASSUME NEW t \in DOMAIN shapes'
        PROVE  /\ shapes'[t].len <= Len(arrays'[shapes'[t].array].cells)
               /\ ~shapes'[t].childExtended =>
                     shapes'[t].len = Len(arrays'[shapes'[t].array].cells)
    <3>1. CASE t = new
      BY <3>1, <1>3, <1>4, <1>2
    <3>2. CASE t \in DOMAIN shapes /\ shapes[t].array = m
      <4>1. shapes[t].len \in Nat
        BY <3>2, FieldsAreCells DEF ShapeType
      <4> QED
        BY <3>2, <4>1, <1>2, <1>3, <1>4, <1>6, <1>0, SMTT(20)
    <3>3. CASE t \in DOMAIN shapes /\ shapes[t].array # m
      <4>1. /\ shapes[t].len <= Len(arrays[shapes[t].array].cells)
            /\ ~shapes[t].childExtended =>
                  shapes[t].len = Len(arrays[shapes[t].array].cells)
            /\ shapes[t].array \in DOMAIN arrays
        BY <3>3 DEF ShapesInv, FieldsFit, ShapesType
      <4> QED
        BY <4>1, <3>3, <1>3, <1>4
    <3> QED
      BY <3>1, <3>2, <3>3, <1>5
  <2>3. ASSUME NEW t \in DOMAIN shapes', NEW r \in DOMAIN shapes',
               shapes'[t].array = shapes'[r].array,
               ~shapes'[t].childExtended, ~shapes'[r].childExtended
        PROVE  t = r
    <3>1. \A q \in DOMAIN shapes' : shapes'[q].array = m /\ ~shapes'[q].childExtended => q = new
      BY <1>4, <1>5, <1>6
    <3>2. CASE shapes'[t].array = m
      BY <3>1, <3>2, <2>3
    <3>3. CASE shapes'[t].array # m
      <4>1. t \in DOMAIN shapes /\ r \in DOMAIN shapes
        BY <3>3, <2>3, <1>4, <1>5
      <4>2. ~shapes[t].childExtended /\ ~shapes[r].childExtended
            /\ shapes[t].array = shapes[r].array
        BY <4>1, <2>3, <1>4
      <4> QED
        BY <4>1, <4>2 DEF ShapesInv, FieldsFit
    <3> QED
      BY <3>2, <3>3
  <2> QED
    BY <2>1, <2>2, <2>3 DEF FieldsFit
<1>12. /\ \A i \in 1..shapes[s].len : CellAt(s, i).offset = i - 1
       /\ \A i, j \in 1..shapes[s].len : KeyAt(s, i) = KeyAt(s, j) => i = j
  BY DEF ShapesInv, FieldsInOrder
<1>13. 1..n = (1..shapes[s].len) \cup {n}
  BY <1>2, <1>0
<1>14. FieldsInOrder'
  <2>1. ASSUME NEW t \in DOMAIN shapes
        PROVE  /\ \A i \in 1..shapes[t].len : CellAt(t, i)'.offset = i - 1
               /\ \A i, j \in 1..shapes[t].len : KeyAt(t, i)' = KeyAt(t, j)' => i = j
    <3>1. /\ \A i \in 1..shapes[t].len : CellAt(t, i).offset = i - 1
          /\ \A i, j \in 1..shapes[t].len : KeyAt(t, i) = KeyAt(t, j) => i = j
      BY DEF ShapesInv, FieldsInOrder
    <3>2. \A i \in 1..shapes[t].len : KeyAt(t, i)' = KeyAt(t, i)
      BY <1>7 DEF KeyAt
    <3> QED
      BY <3>1, <3>2, <1>7
  <2>2. \A i \in 1..n : CellAt(new, i)'.offset = i - 1
    BY <1>9, <1>12, <1>13, <1>2, <1>0
  <2>3. \A i \in 1..shapes[s].len : KeyAt(new, i)' = KeyAt(s, i) /\ KeyAt(s, i) # field.key
    BY <1>9 DEF KeyAt, Has
  <2>4. KeyAt(new, n)' = field.key
    BY <1>9 DEF KeyAt
  <2>5. \A i, j \in 1..n : KeyAt(new, i)' = KeyAt(new, j)' => i = j
    BY <2>3, <2>4, <1>12, <1>13
  <2>6. \A t \in DOMAIN shapes :
           /\ \A i \in 1..shapes'[t].len : CellAt(t, i)'.offset = i - 1
           /\ \A i, j \in 1..shapes'[t].len : KeyAt(t, i)' = KeyAt(t, j)' => i = j
    BY <2>1, <1>4
  <2>7. /\ \A i \in 1..shapes'[new].len : CellAt(new, i)'.offset = i - 1
        /\ \A i, j \in 1..shapes'[new].len : KeyAt(new, i)' = KeyAt(new, j)' => i = j
    BY <2>2, <2>5, <1>4, <1>0
  <2> QED
    BY <2>6, <2>7, <1>5 DEF FieldsInOrder, KeyAt, CellAt
<1>15. LeadsTo(s, field.key, new)'
  <2>1. ~Has(s, field.key)'
    <3>1. \A i \in 1..shapes[s].len : KeyAt(s, i)' # field.key
      BY <1>7 DEF KeyAt, Has
    <3> QED
      BY <3>1, <1>4 DEF Has
  <2>2. shapes'[new].len = shapes'[s].len + 1
    BY <1>4, <1>0
  <2>3. arrays'[shapes'[new].array].cells[shapes'[new].len].key = field.key
    BY <1>3, <1>4, <1>0
  <2>4. \A i \in 1..shapes'[s].len : KeyAt(new, i)' = KeyAt(s, i)'
    BY <1>4, <1>7, <1>9 DEF KeyAt
  <2> QED
    BY <2>1, <2>2, <2>3, <2>4 DEF LeadsTo, KeyAt, CellAt
<1>16. TransitionsLead'
  <2>1. ASSUME NEW t \in DOMAIN shapes', NEW k \in Keys, shapes'[t].next[k] # None
        PROVE  \E r \in DOMAIN shapes' : r = shapes'[t].next[k] /\ LeadsTo(t, k, r)'
    <3>1. t \in DOMAIN shapes
      BY <2>1, <1>4, <1>5
    <3>2. CASE shapes'[t].next[k] = shapes[t].next[k]
      <4>1. PICK r \in DOMAIN shapes : r = shapes[t].next[k]
        BY <3>1, <3>2, <2>1 DEF ShapesInv, ShapesType
      <4>2. LeadsTo(t, k, r)
        BY <4>1, <3>1, <3>2, <2>1 DEF ShapesInv, TransitionsLead
      <4>3. LeadsTo(t, k, r)'
        BY <4>2, <3>1, <1>8, LeadingStays DEF FieldsStay
      <4> QED
        BY <4>1, <4>3, <3>2, <1>5
    <3>3. CASE t = s /\ k = field.key /\ shapes'[t].next[k] = new
      <4>1. LeadsTo(t, k, new)'
        BY <3>3, <1>15
      <4> QED
        BY <4>1, <3>3, <1>5
    <3> QED
      BY <3>1, <3>2, <3>3, <1>4
  <2> QED
    BY <2>1, TransitionPrimed DEF TransitionsLead
<1> QED
  BY <1>4, <1>8, <1>10, <1>11, <1>14, <1>15, <1>16, <1>0 DEF ShapesInv

(* The fields of s are overwritten in array m, which may be a new one.      *)
Overwritten(s, fields, m) ==
    /\ arrays' \in Seq(ArrayType)
    /\ m \in DOMAIN arrays'
    /\ \A b \in DOMAIN arrays :
          /\ b \in DOMAIN arrays'
          /\ b # m => arrays'[b] = arrays[b]
    /\ \A b \in DOMAIN arrays' : b = m \/ b \in DOMAIN arrays
    /\ \A i \in 1..shapes[s].len : arrays'[m].cells[i] = fields[i]
    /\ Len(arrays'[m].cells) <= arrays'[m].cap
    /\ IF m \in DOMAIN arrays
       THEN /\ m = shapes[s].array
            /\ Len(arrays'[m].cells) = Len(arrays[m].cells)
            /\ \A i \in 1..Len(arrays[m].cells) :
                  i \notin 1..shapes[s].len => arrays'[m].cells[i] = arrays[m].cells[i]
       ELSE Len(arrays'[m].cells) = shapes[s].len
    /\ shapes' \in Seq(ShapeType)
    /\ Len(shapes') = Len(shapes)
    /\ \A t \in DOMAIN shapes :
          /\ shapes'[t].len = shapes[t].len
          /\ shapes'[t].next = shapes[t].next
          /\ shapes'[t].array = IF t = s THEN m ELSE shapes[t].array
          /\ shapes'[t].childExtended =
                (shapes[t].childExtended /\ (t # s \/ m \in DOMAIN arrays))

LEMMA OverwriteOverwrites ==
  ASSUME ShapesInv, NEW s \in DOMAIN shapes, NEW fields \in Seq(FieldType),
         Len(fields) = shapes[s].len, Overwrite(s, fields)
  PROVE  \E m \in Nat : Overwritten(s, fields, m)
<1> DEFINE a == shapes[s].array
           cells == arrays[a].cells
           private == [shapes[s] EXCEPT !.version = @ + 1, !.array = Len(arrays) + 1,
                                        !.owned = TRUE, !.childExtended = FALSE]
<1>1. /\ shapes[s] \in ShapeType
      /\ a \in DOMAIN arrays
      /\ arrays[a] \in ArrayType
  BY FieldsAreCells
<1>2. arrays \in Seq(ArrayType) /\ shapes \in Seq(ShapeType)
  BY DEF ShapesInv, ShapesType
<1>3. /\ shapes[s].len \in Nat /\ shapes[s].len <= Len(cells)
      /\ cells \in Seq(FieldType) /\ arrays[a].cap \in Nat
      /\ Len(cells) <= arrays[a].cap
      /\ shapes[s].version + 1 \in Nat
  BY <1>1 DEF ShapeType, ArrayType, ShapesInv, FieldsFit
<1>4. \A t \in DOMAIN shapes : shapes[t].childExtended \in BOOLEAN
  <2>1. ASSUME NEW t \in DOMAIN shapes PROVE shapes[t].childExtended \in BOOLEAN
    BY FieldsAreCells DEF ShapeType
  <2> QED
    BY <2>1
<1>5. CASE shapes[s].owned
  <2> DEFINE w == [j \in DOMAIN cells |-> IF j <= shapes[s].len THEN fields[j] ELSE cells[j]]
             r == [arrays[a] EXCEPT !.cells = w]
             bumped == [shapes[s] EXCEPT !.version = @ + 1]
  <2>1. arrays' = [arrays EXCEPT ![a] = r] /\ shapes' = [shapes EXCEPT ![s] = bumped]
    BY <1>5 DEF Overwrite
  <2>2. /\ w \in Seq(FieldType) /\ Len(w) = Len(cells)
        /\ \A i \in 1..shapes[s].len : w[i] = fields[i]
        /\ \A i \in 1..Len(cells) : i \notin 1..shapes[s].len => w[i] = cells[i]
    <3> HIDE DEF cells
    <3>1. DOMAIN cells = 1..Len(cells) /\ Len(cells) \in Nat
      BY <1>3
    <3>2. \A j \in 1..Len(cells) : (IF j <= shapes[s].len THEN fields[j] ELSE cells[j]) \in FieldType
      BY <1>3
    <3>3. w = [j \in 1..Len(cells) |-> IF j <= shapes[s].len THEN fields[j] ELSE cells[j]]
      BY <3>1
    <3>4. w \in Seq(FieldType) /\ Len(w) = Len(cells)
      BY <3>1, <3>2, <3>3
    <3> QED
      BY <3>1, <3>3, <3>4, <1>3
  <2> HIDE DEF w
  <2>3. r \in ArrayType /\ r.cells = w /\ r.cap = arrays[a].cap
    BY <1>1, <2>2 DEF ArrayType
  <2>4. /\ bumped \in ShapeType /\ bumped.len = shapes[s].len /\ bumped.next = shapes[s].next
        /\ bumped.array = a /\ bumped.childExtended = shapes[s].childExtended
    BY <1>1, <1>3 DEF ShapeType
  <2> HIDE DEF r, bumped
  <2>5. /\ arrays' \in Seq(ArrayType) /\ DOMAIN arrays' = DOMAIN arrays
        /\ arrays'[a] = r
        /\ \A b \in DOMAIN arrays : b # a => arrays'[b] = arrays[b]
    <3>1. a \in 1..Len(arrays)
      BY <1>1, <1>2
    <3> HIDE DEF a
    <3> QED
      BY <3>1, <2>1, <2>3, <1>2, ExceptSeq
  <2>6. /\ shapes' \in Seq(ShapeType) /\ Len(shapes') = Len(shapes)
        /\ shapes'[s] = bumped
        /\ \A t \in DOMAIN shapes : t # s => shapes'[t] = shapes[t]
    BY <2>1, <2>4, <1>2, ExceptSeq
  <2>7. a \in Nat
    BY <1>1 DEF ShapeType
  <2> QED
    <3> HIDE DEF a
    <3>1. Overwritten(s, fields, shapes[s].array)
      BY <2>2, <2>3, <2>4, <2>5, <2>6, <1>1, <1>3, <1>4 DEF Overwritten, a
    <3> QED
      BY <3>1, <2>7 DEF a
<1>6. CASE ~shapes[s].owned
  <2> DEFINE r == [cells |-> fields, cap |-> shapes[s].len]
  <2>0. PICK m : m = Len(arrays) + 1
    OBVIOUS
  <2>1. arrays' = Append(arrays, r) /\ shapes' = [shapes EXCEPT ![s] = private]
    BY <1>6 DEF Overwrite
  <2>2. r \in ArrayType /\ r.cells = fields /\ r.cap = shapes[s].len
    BY <1>3 DEF ArrayType
  <2>3. /\ private \in ShapeType /\ private.len = shapes[s].len
        /\ private.next = shapes[s].next
        /\ private.array = m /\ private.childExtended = FALSE
    <3>1. m \in Nat
      BY <2>0, <1>2
    <3> QED
      BY <2>0, <1>1, <1>3, <3>1 DEF ShapeType
  <2> HIDE DEF r, private
  <2>4. /\ arrays' \in Seq(ArrayType) /\ DOMAIN arrays' = 1..m /\ DOMAIN arrays = 1..Len(arrays)
        /\ arrays'[m] = r /\ m \in Nat /\ Len(arrays) \in Nat
        /\ \A b \in DOMAIN arrays : arrays'[b] = arrays[b]
    BY <2>0, <2>1, <2>2, <1>2, AppendProperties
  <2>5. /\ shapes' \in Seq(ShapeType) /\ Len(shapes') = Len(shapes)
        /\ shapes'[s] = private
        /\ \A t \in DOMAIN shapes : t # s => shapes'[t] = shapes[t]
    BY <2>1, <2>3, <1>2, ExceptSeq
  <2>6. /\ m \in DOMAIN arrays' /\ m \notin DOMAIN arrays
        /\ \A b \in DOMAIN arrays : b \in DOMAIN arrays' /\ b # m
        /\ \A b \in DOMAIN arrays' : b = m \/ b \in DOMAIN arrays
    BY <2>0, <2>4
  <2>7. Overwritten(s, fields, m)
    <3>1. /\ \A i \in 1..shapes[s].len : arrays'[m].cells[i] = fields[i]
          /\ Len(arrays'[m].cells) = shapes[s].len
          /\ Len(arrays'[m].cells) <= arrays'[m].cap
      BY <2>2, <2>4, <1>3
    <3>2. \A t \in DOMAIN shapes :
             /\ shapes'[t].len = shapes[t].len
             /\ shapes'[t].next = shapes[t].next
             /\ shapes'[t].array = IF t = s THEN m ELSE shapes[t].array
             /\ shapes'[t].childExtended =
                   (shapes[t].childExtended /\ (t # s \/ m \in DOMAIN arrays))
      BY <2>3, <2>5, <2>6, <1>4
    <3>3. /\ arrays' \in Seq(ArrayType)
          /\ m \in DOMAIN arrays'
          /\ \A b \in DOMAIN arrays :
                /\ b \in DOMAIN arrays'
                /\ b # m => arrays'[b] = arrays[b]
          /\ \A b \in DOMAIN arrays' : b = m \/ b \in DOMAIN arrays
          /\ m \notin DOMAIN arrays
      BY <2>4, <2>6
    <3>4. shapes' \in Seq(ShapeType) /\ Len(shapes') = Len(shapes)
      BY <2>5
    <3> QED
      BY <3>1, <3>2, <3>3, <3>4, Zenon DEF Overwritten
  <2> QED
    BY <2>7, <2>4
<1> QED
  BY <1>5, <1>6

(* A cell that changes is a field of s too, and gets what the field of s    *)
(* got.                                                                     *)
Replaced(s, fields) ==
    \A t \in DOMAIN shapes : \A i \in 1..shapes[t].len :
       \/ CellAt(t, i)' = CellAt(t, i)
       \/ /\ i \in 1..shapes[s].len
          /\ CellAt(t, i) = CellAt(s, i)
          /\ CellAt(t, i)' = fields[i]

LEMMA OverwriteKeeps ==
  ASSUME ShapesInv, NEW s \in DOMAIN shapes, NEW fields \in Seq(FieldType),
         Len(fields) = shapes[s].len, Overwrite(s, fields),
         \A i \in 1..shapes[s].len : fields[i].key = KeyAt(s, i) /\ fields[i].offset = i - 1
  PROVE  ShapesInv' /\ KeysStay /\ Len(shapes') = Len(shapes) /\ Replaced(s, fields)
<1>1. PICK m \in Nat : Overwritten(s, fields, m)
  BY OverwriteOverwrites
<1>2. /\ arrays' \in Seq(ArrayType)
      /\ m \in DOMAIN arrays'
      /\ \A b \in DOMAIN arrays :
            /\ b \in DOMAIN arrays'
            /\ b # m => arrays'[b] = arrays[b]
      /\ \A b \in DOMAIN arrays' : b = m \/ b \in DOMAIN arrays
      /\ \A i \in 1..shapes[s].len : arrays'[m].cells[i] = fields[i]
      /\ Len(arrays'[m].cells) <= arrays'[m].cap
      /\ IF m \in DOMAIN arrays
         THEN /\ m = shapes[s].array
              /\ Len(arrays'[m].cells) = Len(arrays[m].cells)
              /\ \A i \in 1..Len(arrays[m].cells) :
                    i \notin 1..shapes[s].len => arrays'[m].cells[i] = arrays[m].cells[i]
         ELSE Len(arrays'[m].cells) = shapes[s].len
  BY <1>1 DEF Overwritten
<1>3. /\ shapes' \in Seq(ShapeType)
      /\ Len(shapes') = Len(shapes)
      /\ \A t \in DOMAIN shapes :
            /\ shapes'[t].len = shapes[t].len
            /\ shapes'[t].next = shapes[t].next
            /\ shapes'[t].array = IF t = s THEN m ELSE shapes[t].array
            /\ shapes'[t].childExtended =
                  (shapes[t].childExtended /\ (t # s \/ m \in DOMAIN arrays))
  BY <1>1 DEF Overwritten
<1>4. DOMAIN shapes' = DOMAIN shapes /\ shapes[s].len \in Nat
  <2>1. shapes \in Seq(ShapeType)
    BY DEF ShapesInv, ShapesType
  <2> QED
    BY <2>1, <1>3, FieldsAreCells DEF ShapeType
<1>5. \A t \in DOMAIN shapes :
         /\ shapes[t].len \in Nat
         /\ shapes[t].array \in DOMAIN arrays
         /\ shapes[t].len <= Len(arrays[shapes[t].array].cells)
         /\ Len(arrays[shapes[t].array].cells) \in Nat
  <2>1. ASSUME NEW t \in DOMAIN shapes
        PROVE  /\ shapes[t].len \in Nat
               /\ shapes[t].array \in DOMAIN arrays
               /\ shapes[t].len <= Len(arrays[shapes[t].array].cells)
               /\ Len(arrays[shapes[t].array].cells) \in Nat
    <3>1. shapes[t] \in ShapeType /\ shapes[t].array \in DOMAIN arrays
          /\ arrays[shapes[t].array] \in ArrayType
      BY FieldsAreCells
    <3> QED
      BY <3>1 DEF ShapeType, ArrayType, ShapesInv, FieldsFit
  <2> QED
    BY <2>1
<1>6. ASSUME NEW t \in DOMAIN shapes, NEW i \in 1..shapes[t].len
      PROVE  \/ CellAt(t, i)' = CellAt(t, i)
             \/ /\ i \in 1..shapes[s].len
                /\ CellAt(t, i) = CellAt(s, i)
                /\ CellAt(t, i)' = fields[i]
  <2>1. CASE t = s
    BY <2>1, <1>2, <1>3 DEF CellAt
  <2>2. CASE t # s /\ shapes[t].array # m
    BY <2>2, <1>2, <1>3, <1>5 DEF CellAt
  <2>3. CASE t # s /\ shapes[t].array = m
    <3>1. m \in DOMAIN arrays /\ m = shapes[s].array
      BY <2>3, <1>5, <1>2
    <3>2. CellAt(t, i)' = arrays'[m].cells[i] /\ CellAt(t, i) = arrays[m].cells[i]
      BY <2>3, <1>3 DEF CellAt
    <3>3. CASE i \in 1..shapes[s].len
      BY <3>1, <3>2, <3>3, <1>2 DEF CellAt
    <3>4. CASE i \notin 1..shapes[s].len
      <4>1. i \in 1..Len(arrays[m].cells)
        BY <2>3, <1>5
      <4> QED
        BY <3>1, <3>2, <3>4, <4>1, <1>2
    <3> QED
      BY <3>3, <3>4
  <2> QED
    BY <2>1, <2>2, <2>3
<1>7. \A t \in DOMAIN shapes :
         /\ \A i \in 1..shapes[t].len : CellAt(t, i).offset = i - 1
         /\ \A i, j \in 1..shapes[t].len : KeyAt(t, i) = KeyAt(t, j) => i = j
  BY DEF ShapesInv, FieldsInOrder
<1>8. ASSUME NEW t \in DOMAIN shapes, NEW i \in 1..shapes[t].len
      PROVE  KeyAt(t, i)' = KeyAt(t, i) /\ CellAt(t, i)'.offset = i - 1
  BY <1>6, <1>7 DEF KeyAt
<1>9. KeysStay
  <2>1. Len(shapes) <= Len(shapes')
    <3>1. shapes \in Seq(ShapeType)
      BY DEF ShapesInv, ShapesType
    <3>2. Len(shapes) \in Nat
      BY <3>1
    <3> QED
      BY <3>2, <1>3
  <2> QED
    BY <2>1, <1>3, <1>4, <1>8 DEF KeysStay
<1>10. ShapesType'
  <2>1. ASSUME NEW t \in DOMAIN shapes'
        PROVE  /\ shapes'[t].array \in DOMAIN arrays'
               /\ \A k \in Keys : shapes'[t].next[k] \in {None} \cup DOMAIN shapes'
    <3>1. /\ shapes[t].array \in DOMAIN arrays
          /\ \A k \in Keys : shapes[t].next[k] \in {None} \cup DOMAIN shapes
      BY <1>4 DEF ShapesInv, ShapesType
    <3> QED
      BY <3>1, <1>2, <1>3, <1>4
  <2> QED
    BY <2>1, <1>2, <1>3 DEF ShapesType
<1>11. FieldsFit'
  <2>1. ASSUME NEW b \in DOMAIN arrays' PROVE Len(arrays'[b].cells) <= arrays'[b].cap
    BY <1>2 DEF ShapesInv, FieldsFit
  <2>2. ASSUME NEW t \in DOMAIN shapes'
        PROVE  /\ shapes'[t].len <= Len(arrays'[shapes'[t].array].cells)
               /\ ~shapes'[t].childExtended =>
                     shapes'[t].len = Len(arrays'[shapes'[t].array].cells)
    <3>1. t \in DOMAIN shapes
      BY <1>4
    <3>2. ~shapes[t].childExtended => shapes[t].len = Len(arrays[shapes[t].array].cells)
      BY <3>1 DEF ShapesInv, FieldsFit
    <3>3. CASE t = s
      <4>1. shapes'[t].array = m /\ shapes'[t].len = shapes[s].len
            /\ (~shapes'[t].childExtended =>
                    ~shapes[s].childExtended \/ m \notin DOMAIN arrays)
        BY <3>1, <3>3, <1>3
      <4>2. CASE m \in DOMAIN arrays
        BY <4>1, <4>2, <3>2, <3>3, <1>2, <1>5
      <4>3. CASE m \notin DOMAIN arrays
        BY <4>1, <4>3, <1>2, <1>4
      <4> QED
        BY <4>2, <4>3
    <3>4. CASE t # s
      BY <3>1, <3>2, <3>4, <1>2, <1>3, <1>5
    <3> QED
      BY <3>3, <3>4
  <2>3. ASSUME NEW t \in DOMAIN shapes', NEW r \in DOMAIN shapes',
               shapes'[t].array = shapes'[r].array,
               ~shapes'[t].childExtended, ~shapes'[r].childExtended
        PROVE  t = r
    <3>1. t \in DOMAIN shapes /\ r \in DOMAIN shapes
      BY <1>4
    <3>2. CASE m \in DOMAIN arrays
      <4>1. shapes[t].array = shapes[r].array /\ ~shapes[t].childExtended /\ ~shapes[r].childExtended
        BY <3>1, <3>2, <2>3, <1>2, <1>3
      <4> QED
        BY <3>1, <4>1 DEF ShapesInv, FieldsFit
    <3>3. CASE m \notin DOMAIN arrays /\ (t = s \/ r = s)
      BY <3>1, <3>3, <2>3, <1>3, <1>5
    <3>4. CASE t # s /\ r # s
      <4>1. shapes[t].array = shapes[r].array /\ ~shapes[t].childExtended /\ ~shapes[r].childExtended
        BY <3>1, <3>4, <2>3, <1>3
      <4> QED
        BY <3>1, <4>1 DEF ShapesInv, FieldsFit
    <3> QED
      BY <3>2, <3>3, <3>4
  <2> QED
    BY <2>1, <2>2, <2>3 DEF FieldsFit
<1>12. FieldsInOrder'
  <2>1. ASSUME NEW t \in DOMAIN shapes'
        PROVE  /\ \A i \in 1..shapes'[t].len : CellAt(t, i)'.offset = i - 1
               /\ \A i, j \in 1..shapes'[t].len : KeyAt(t, i)' = KeyAt(t, j)' => i = j
    <3>1. t \in DOMAIN shapes /\ shapes'[t].len = shapes[t].len
      BY <1>3, <1>4
    <3> QED
      BY <3>1, <1>7, <1>8
  <2> QED
    BY <2>1 DEF FieldsInOrder, KeyAt, CellAt
<1>13. TransitionsLead'
  <2>1. ASSUME NEW t \in DOMAIN shapes', NEW k \in Keys, shapes'[t].next[k] # None
        PROVE  \E r \in DOMAIN shapes' : r = shapes'[t].next[k] /\ LeadsTo(t, k, r)'
    <3>1. t \in DOMAIN shapes /\ shapes'[t].next[k] = shapes[t].next[k]
      BY <1>3, <1>4
    <3>2. PICK r \in DOMAIN shapes : r = shapes[t].next[k]
      BY <3>1, <2>1 DEF ShapesInv, ShapesType
    <3>3. LeadsTo(t, k, r)
      BY <3>2, <3>1, <2>1 DEF ShapesInv, TransitionsLead
    <3>4. LeadsTo(t, k, r)'
      BY <3>3, <3>1, <1>9, LeadingStays
    <3> QED
      BY <3>1, <3>2, <3>4, <1>4
  <2> QED
    BY <2>1 DEF TransitionsLead, LeadsTo, Has, KeyAt, CellAt
<1> QED
  BY <1>3, <1>6, <1>9, <1>10, <1>11, <1>12, <1>13 DEF ShapesInv, Replaced

(* t has the fields of s but the i-th.                                      *)
Shorter(s, i, t) ==
    /\ shapes[t].len + 1 = shapes[s].len
    /\ \A j \in 1..shapes[t].len :
          KeyAt(t, j) = IF j < i THEN KeyAt(s, j) ELSE KeyAt(s, j + 1)

LEMMA WithoutIsShorter ==
  ASSUME ShapesInv, NEW s \in DOMAIN shapes, NEW i \in 1..shapes[s].len
  PROVE  LET w == Without(Fields(s), i) IN
         /\ w \in Seq(FieldType)
         /\ Len(w) = shapes[s].len - 1
         /\ \A j \in 1..(shapes[s].len - 1) :
               /\ w[j].key = IF j < i THEN KeyAt(s, j) ELSE KeyAt(s, j + 1)
               /\ w[j].offset = j - 1
<1>1. /\ shapes[s].len \in Nat
      /\ Fields(s) \in Seq(FieldType)
      /\ Len(Fields(s)) = shapes[s].len
      /\ \A j \in 1..shapes[s].len : Fields(s)[j] = CellAt(s, j) /\ CellAt(s, j) \in FieldType
  BY FieldsAreCells DEF ShapeType
<1>2. \A j \in 1..shapes[s].len : CellAt(s, j).offset = j - 1
  BY DEF ShapesInv, FieldsInOrder
<1> DEFINE n == shapes[s].len - 1
           old(j) == IF j < i THEN Fields(s)[j] ELSE Fields(s)[j + 1]
           moved(j) == IF old(j).offset > Fields(s)[i].offset
                       THEN [old(j) EXCEPT !.offset = @ - 1] ELSE old(j)
<1>3. n \in Nat
  BY <1>1
<1>4. Without(Fields(s), i) = [j \in 1..n |-> moved(j)]
  BY <1>1 DEF Without
<1>5. ASSUME NEW j \in 1..n
      PROVE  /\ moved(j) \in FieldType
             /\ moved(j).key = IF j < i THEN KeyAt(s, j) ELSE KeyAt(s, j + 1)
             /\ moved(j).offset = j - 1
  <2>1. Fields(s)[i].offset = i - 1
    BY <1>1, <1>2
  <2>2. CASE j < i
    <3>1. j \in 1..shapes[s].len
      BY <1>1
    <3>2. /\ old(j) = CellAt(s, j) /\ old(j) \in FieldType /\ old(j).offset = j - 1
      BY <3>1, <2>2, <1>1, <1>2
    <3>3. ~(old(j).offset > Fields(s)[i].offset)
      BY <3>2, <2>1, <2>2, <3>1
    <3> QED
      BY <3>2, <3>3, <2>2 DEF KeyAt
  <2>3. CASE ~(j < i)
    <3>1. j + 1 \in 1..shapes[s].len
      BY <1>1
    <3>2. old(j) = CellAt(s, j + 1) /\ old(j) \in FieldType /\ old(j).offset = (j + 1) - 1
      BY <3>1, <2>3, <1>1, <1>2
    <3>3. old(j).offset > Fields(s)[i].offset
      BY <3>2, <2>1, <2>3, <1>1
    <3>4. moved(j) = [old(j) EXCEPT !.offset = old(j).offset - 1]
      BY <3>3
    <3>5. old(j).offset - 1 = j - 1 /\ j - 1 \in Nat
      BY <3>2, <1>3
    <3> HIDE DEF old
    <3>6. [old(j) EXCEPT !.offset = old(j).offset - 1] \in FieldType
          /\ [old(j) EXCEPT !.offset = old(j).offset - 1].key = old(j).key
          /\ [old(j) EXCEPT !.offset = old(j).offset - 1].offset = j - 1
      BY <3>2, <3>5 DEF FieldType
    <3> QED
      BY <3>2, <3>4, <3>6, <2>3 DEF KeyAt
  <2> QED
    BY <2>2, <2>3
<1> HIDE DEF moved
<1>6. [j \in 1..n |-> moved(j)] \in Seq(FieldType) /\ Len([j \in 1..n |-> moved(j)]) = n
  BY <1>3, <1>5
<1> QED
  BY <1>4, <1>5, <1>6

(* What DeleteOwn does to the shapes.                                       *)
Deletes(s, i) ==
    /\ arrays' = Append(arrays, [cells |-> Without(Fields(s), i), cap |-> shapes[s].len - 1])
    /\ shapes' = Append(shapes, ShapeWithout(s, Len(arrays) + 1))

LEMMA DeleteKeeps ==
  ASSUME ShapesInv, NEW s \in DOMAIN shapes, NEW i \in 1..shapes[s].len, Deletes(s, i)
  PROVE  /\ ShapesInv'
         /\ FieldsStay
         /\ \E new \in Nat :
               new = Len(shapes) + 1 /\ Len(shapes') = new /\ Shorter(s, i, new)'
<1>0. PICK new, m, n : new = Len(shapes) + 1 /\ m = Len(arrays) + 1 /\ n = shapes[s].len - 1
  OBVIOUS
<1> DEFINE w == Without(Fields(s), i)
           r == [cells |-> w, cap |-> n]
           child == ShapeWithout(s, m)
<1>1. /\ shapes[s].len \in Nat /\ shapes[s].version \in Nat
      /\ arrays \in Seq(ArrayType) /\ shapes \in Seq(ShapeType)
      /\ new \in Nat /\ m \in Nat /\ n \in Nat
      /\ Len(shapes) \in Nat /\ Len(arrays) \in Nat
      /\ DOMAIN shapes = 1..Len(shapes) /\ DOMAIN arrays = 1..Len(arrays)
      /\ new # None
  <2>1. shapes[s].len \in Nat /\ shapes[s].version \in Nat
    BY FieldsAreCells DEF ShapeType
  <2>2. arrays \in Seq(ArrayType) /\ shapes \in Seq(ShapeType)
    BY DEF ShapesInv, ShapesType
  <2> QED
    BY <1>0, <2>1, <2>2 DEF None
<1>2. /\ w \in Seq(FieldType)
      /\ Len(w) = n
      /\ \A j \in 1..n :
            /\ w[j].key = IF j < i THEN KeyAt(s, j) ELSE KeyAt(s, j + 1)
            /\ w[j].offset = j - 1
  BY <1>0, WithoutIsShorter
<1>3. arrays' = Append(arrays, r) /\ shapes' = Append(shapes, child)
  BY <1>0 DEF Deletes
<1> HIDE DEF w
<1>4. r \in ArrayType /\ r.cells = w /\ r.cap = n
  BY <1>1, <1>2 DEF ArrayType
<1>5. /\ child \in ShapeType /\ child.array = m /\ child.len = n
      /\ child.childExtended = FALSE
      /\ \A k \in Keys : child.next[k] = None
  <2>1. shapes[s].version + 1 \in Nat
    BY <1>1
  <2> QED
    BY <1>0, <1>1, <2>1 DEF ShapeWithout, ShapeType, None
<1> HIDE DEF r, child
<1>6. /\ arrays' \in Seq(ArrayType) /\ DOMAIN arrays' = 1..m
      /\ arrays'[m] = r
      /\ \A b \in DOMAIN arrays : arrays'[b] = arrays[b]
  BY <1>0, <1>1, <1>3, <1>4, AppendProperties
<1>7. /\ shapes' \in Seq(ShapeType) /\ Len(shapes') = new
      /\ shapes'[new] = child
      /\ \A t \in DOMAIN shapes : shapes'[t] = shapes[t]
  BY <1>0, <1>1, <1>3, <1>5, AppendProperties
<1>8. /\ DOMAIN shapes' = DOMAIN shapes \cup {new} /\ new \notin DOMAIN shapes
      /\ DOMAIN arrays' = DOMAIN arrays \cup {m} /\ m \notin DOMAIN arrays
  BY <1>0, <1>1, <1>6, <1>7
<1>9. \A t \in DOMAIN shapes :
         /\ shapes[t].array \in DOMAIN arrays
         /\ \A k \in Keys : shapes[t].next[k] \in {None} \cup DOMAIN shapes
  BY DEF ShapesInv, ShapesType
<1>10. \A t \in DOMAIN shapes : \A j : CellAt(t, j)' = CellAt(t, j)
  BY <1>6, <1>7, <1>9 DEF CellAt
<1>11. FieldsStay
  <2>1. Len(shapes) <= Len(shapes')
    BY <1>0, <1>1, <1>7
  <2> QED
    BY <2>1, <1>7, <1>8, <1>10 DEF FieldsStay, KeysStay, KeyAt
<1>12. \A j : CellAt(new, j)' = w[j]
  BY <1>4, <1>5, <1>6, <1>7 DEF CellAt
<1>13. ShapesType'
  BY <1>5, <1>6, <1>7, <1>8, <1>9 DEF ShapesType
<1>14. FieldsFit'
  <2>1. \A b \in DOMAIN arrays' : Len(arrays'[b].cells) <= arrays'[b].cap
    <3>1. Len(arrays'[m].cells) <= arrays'[m].cap
      BY <1>1, <1>2, <1>4, <1>6
    <3>2. \A b \in DOMAIN arrays : Len(arrays'[b].cells) <= arrays'[b].cap
      BY <1>6 DEF ShapesInv, FieldsFit
    <3> QED
      BY <3>1, <3>2, <1>8
  <2>2. \A t \in DOMAIN shapes' :
           /\ shapes'[t].len <= Len(arrays'[shapes'[t].array].cells)
           /\ ~shapes'[t].childExtended =>
                 shapes'[t].len = Len(arrays'[shapes'[t].array].cells)
    <3>1. ASSUME NEW t, t = new
          PROVE  /\ shapes'[t].len <= Len(arrays'[shapes'[t].array].cells)
                 /\ ~shapes'[t].childExtended =>
                       shapes'[t].len = Len(arrays'[shapes'[t].array].cells)
      <4>1. shapes'[t].array = m /\ shapes'[t].len = n /\ Len(arrays'[m].cells) = n
        BY <3>1, <1>2, <1>4, <1>5, <1>6, <1>7
      <4> QED
        BY <4>1, <1>1
    <3>2. ASSUME NEW t \in DOMAIN shapes
          PROVE  /\ shapes'[t].len <= Len(arrays'[shapes'[t].array].cells)
                 /\ ~shapes'[t].childExtended =>
                       shapes'[t].len = Len(arrays'[shapes'[t].array].cells)
      BY <1>6, <1>7, <1>9 DEF ShapesInv, FieldsFit
    <3> QED
      BY <3>1, <3>2, <1>8
  <2>3. ASSUME NEW t \in DOMAIN shapes', NEW q \in DOMAIN shapes',
               shapes'[t].array = shapes'[q].array,
               ~shapes'[t].childExtended, ~shapes'[q].childExtended
        PROVE  t = q
    <3>1. CASE t = new \/ q = new
      BY <3>1, <2>3, <1>5, <1>7, <1>8, <1>9
    <3>2. CASE t \in DOMAIN shapes /\ q \in DOMAIN shapes
      BY <3>2, <2>3, <1>7 DEF ShapesInv, FieldsFit
    <3> QED
      BY <3>1, <3>2, <1>8
  <2> QED
    BY <2>1, <2>2, <2>3 DEF FieldsFit
<1>15. /\ \A j \in 1..shapes[s].len : CellAt(s, j).offset = j - 1
       /\ \A j, h \in 1..shapes[s].len : KeyAt(s, j) = KeyAt(s, h) => j = h
  BY DEF ShapesInv, FieldsInOrder
<1>16. FieldsInOrder'
  <2>1. \A j, h \in 1..n : w[j].key = w[h].key => j = h
    <3>1. ASSUME NEW j \in 1..n, NEW h \in 1..n, w[j].key = w[h].key PROVE j = h
      <4>1. /\ j \in 1..shapes[s].len /\ j + 1 \in 1..shapes[s].len
            /\ h \in 1..shapes[s].len /\ h + 1 \in 1..shapes[s].len
        BY <1>0, <1>1
      <4>2. KeyAt(s, IF j < i THEN j ELSE j + 1) = KeyAt(s, IF h < i THEN h ELSE h + 1)
        BY <3>1, <1>2
      <4>3. (IF j < i THEN j ELSE j + 1) = (IF h < i THEN h ELSE h + 1)
        BY <4>1, <4>2, <1>15
      <4> QED
        BY <4>1, <4>3, <1>1
    <3> QED
      BY <3>1
  <2>2. ASSUME NEW t \in DOMAIN shapes'
        PROVE  /\ \A j \in 1..shapes'[t].len : CellAt(t, j)'.offset = j - 1
               /\ \A j, h \in 1..shapes'[t].len : CellAt(t, j)'.key = CellAt(t, h)'.key => j = h
    <3>1. CASE t = new
      <4>1. /\ shapes'[t].len = n
            /\ \A j : CellAt(t, j)' = w[j]
        BY <3>1, <1>5, <1>7, <1>12
      <4> QED
        BY <4>1, <2>1, <1>2
    <3>2. CASE t \in DOMAIN shapes
      <4>1. /\ \A j \in 1..shapes[t].len : CellAt(t, j).offset = j - 1
            /\ \A j, h \in 1..shapes[t].len : CellAt(t, j).key = CellAt(t, h).key => j = h
        BY <3>2 DEF ShapesInv, FieldsInOrder, KeyAt
      <4> QED
        BY <4>1, <3>2, <1>7, <1>10
    <3> QED
      BY <3>1, <3>2, <1>8
  <2> QED
    BY <2>2 DEF FieldsInOrder, KeyAt, CellAt
<1>17. Shorter(s, i, new)'
  <2>1. shapes'[new].len = n /\ shapes'[s].len = n + 1
    BY <1>0, <1>1, <1>5, <1>7
  <2>2. \A j \in 1..n : KeyAt(new, j)' = IF j < i THEN KeyAt(s, j)' ELSE KeyAt(s, j + 1)'
    BY <1>2, <1>10, <1>12 DEF KeyAt
  <2> QED
    BY <2>1, <2>2 DEF Shorter, KeyAt, CellAt
<1>18. TransitionsLead'
  <2>1. ASSUME NEW t \in DOMAIN shapes', NEW k \in Keys, shapes'[t].next[k] # None
        PROVE  \E q \in DOMAIN shapes' : q = shapes'[t].next[k] /\ LeadsTo(t, k, q)'
    <3>1. t \in DOMAIN shapes /\ shapes'[t].next[k] = shapes[t].next[k]
      BY <2>1, <1>5, <1>7, <1>8
    <3>2. PICK q \in DOMAIN shapes : q = shapes[t].next[k]
      BY <3>1, <2>1, <1>9
    <3>3. LeadsTo(t, k, q)
      BY <3>2, <3>1, <2>1 DEF ShapesInv, TransitionsLead
    <3>4. LeadsTo(t, k, q)'
      BY <3>3, <3>1, <1>11, LeadingStays DEF FieldsStay
    <3> QED
      BY <3>1, <3>2, <3>4, <1>8
  <2> QED
    BY <2>1 DEF TransitionsLead, LeadsTo, Has, KeyAt, CellAt
<1> QED
  BY <1>0, <1>1, <1>7, <1>11, <1>13, <1>14, <1>16, <1>17, <1>18 DEF ShapesInv

-----------------------------------------------------------------------------
(* The objects that have the shapes.                                        *)

LEMMA OwnIsFound ==
  ASSUME ShapesInv, ObjectsInv, NEW o \in Objects, NEW k \in Keys
  PROVE  LET s == objects[o].shape IN
         /\ objects[o] \in ObjectType
         /\ s \in DOMAIN shapes
         /\ Len(objects[o].slots) = shapes[s].len
         /\ shapes[s].len \in Nat
         /\ HasOwn(o, k) <=> Has(s, k)
         /\ HasOwn(o, k) =>
               LET i == IndexOf(FieldsOf(o), k) IN
               /\ i \in 1..shapes[s].len
               /\ OwnField(o, k) = CellAt(s, i)
               /\ OwnField(o, k).key = k
               /\ OwnField(o, k).offset = i - 1
               /\ OwnField(o, k) \in FieldType
<1>1. objects[o] \in ObjectType /\ ObjectOK(o)
  BY DEF ObjectsInv
<1>2. objects[o].shape \in DOMAIN shapes /\ Len(objects[o].slots) = shapes[objects[o].shape].len
  BY <1>1 DEF ObjectOK
<1>3. shapes[objects[o].shape].len \in Nat
  BY <1>2, FieldsAreCells DEF ShapeType
<1> QED
  BY <1>1, <1>2, <1>3, KeysAreFound DEF HasOwn, OwnField, FieldsOf, KeyAt

(* Objects keep their shapes; a slot may get what belongs into it.          *)
SameLayouts ==
    /\ objects' \in [Objects -> ObjectType]
    /\ \A p \in Objects :
          /\ objects'[p].shape = objects[p].shape
          /\ Len(objects'[p].slots) = Len(objects[p].slots)
          /\ \A i \in 1..Len(objects[p].slots) :
                \/ objects'[p].slots[i] = objects[p].slots[i]
                \/ objects'[p].slots[i] \in {KeyAt(objects[p].shape, i), Hole}

LEMMA ObjectStays ==
  ASSUME ShapesInv, ObjectsInv, KeysStay, NEW p \in Objects,
         objects'[p].shape = objects[p].shape,
         Len(objects'[p].slots) = Len(objects[p].slots),
         \A i \in 1..Len(objects[p].slots) :
            \/ objects'[p].slots[i] = objects[p].slots[i]
            \/ objects'[p].slots[i] \in {KeyAt(objects[p].shape, i), Hole}
  PROVE  ObjectOK(p)'
<1>1. PICK s : s = objects[p].shape
  OBVIOUS
<1>2. s \in DOMAIN shapes /\ Len(objects[p].slots) = shapes[s].len
      /\ \A i \in 1..shapes[s].len : objects[p].slots[i] \in {KeyAt(s, i), Hole}
  BY <1>1 DEF ObjectsInv, ObjectOK
<1>3. s \in DOMAIN shapes' /\ shapes'[s].len = shapes[s].len
      /\ \A i \in 1..shapes[s].len : KeyAt(s, i)' = KeyAt(s, i)
  BY <1>2 DEF KeysStay
<1>4. \A i \in 1..shapes'[s].len : objects'[p].slots[i] \in {KeyAt(s, i)', Hole}
  BY <1>1, <1>2, <1>3
<1> QED
  BY <1>1, <1>2, <1>3, <1>4 DEF ObjectOK, KeyAt, CellAt

LEMMA LayoutsStay ==
  ASSUME ShapesInv, ObjectsInv, KeysStay, SameLayouts
  PROVE  ObjectsInv'
<1>1. ASSUME NEW p \in Objects PROVE ObjectOK(p)'
  BY ObjectStays DEF SameLayouts
<1> QED
  BY <1>1 DEF ObjectsInv, SameLayouts

LEMMA StoreStores ==
  ASSUME ShapesInv, ObjectsInv, NEW o \in Objects, NEW k \in Keys, NEW offset \in Nat,
         offset + 1 \in 1..shapes[objects[o].shape].len,
         KeyAt(objects[o].shape, offset + 1) = k,
         Store(o, offset, k)
  PROVE  /\ SameLayouts
         /\ \A p \in Objects : objects'[p].extensible = objects[p].extensible
<1> DEFINE slots == objects[o].slots
           new == [slots EXCEPT ![offset + 1] = k]
           changed == [objects[o] EXCEPT !.slots = new]
<1>1. objects[o] \in ObjectType /\ Len(slots) = shapes[objects[o].shape].len
      /\ objects \in [Objects -> ObjectType]
  BY DEF ObjectsInv, ObjectOK
<1>2. slots \in Seq(Keys \cup {Hole}) /\ offset + 1 \in 1..Len(slots)
  BY <1>1 DEF ObjectType
<1>3. objects' = [objects EXCEPT ![o] = changed]
  BY DEF Store
<1>4. /\ new \in Seq(Keys \cup {Hole})
      /\ Len(new) = Len(slots)
      /\ \A i \in 1..Len(slots) : new[i] = IF i = offset + 1 THEN k ELSE slots[i]
  <2> HIDE DEF slots
  <2> QED
    BY <1>2, ExceptSeq
<1> HIDE DEF new
<1>5. /\ changed \in ObjectType /\ changed.shape = objects[o].shape
      /\ changed.extensible = objects[o].extensible /\ changed.slots = new
  BY <1>1, <1>4 DEF ObjectType
<1> HIDE DEF changed
<1>6. /\ objects' \in [Objects -> ObjectType] /\ objects'[o] = changed
      /\ \A p \in Objects \ {o} : objects'[p] = objects[p]
  BY <1>1, <1>3, <1>5
<1> QED
  BY <1>4, <1>5, <1>6 DEF SameLayouts

(* o gets a shape that has one field more, and a slot for it.               *)
Grows(o, v, t) ==
    /\ objects' \in [Objects -> ObjectType]
    /\ \A p \in Objects \ {o} : objects'[p] = objects[p]
    /\ objects'[o].shape = t
    /\ objects'[o].extensible = objects[o].extensible
    /\ objects'[o].slots = Append(objects[o].slots, v)

LEMMA GrowGrows ==
  ASSUME ObjectsInv, NEW o \in Objects, NEW k \in Keys, NEW t \in Nat, Grow(o, t, k)
  PROVE  Grows(o, k, t)
<1> DEFINE w == Append(objects[o].slots, k)
           grown == [objects[o] EXCEPT !.shape = t, !.slots = w]
<1>1. objects[o] \in ObjectType /\ objects \in [Objects -> ObjectType]
  BY DEF ObjectsInv
<1>2. w \in Seq(Keys \cup {Hole})
  BY <1>1 DEF ObjectType
<1>3. objects' = [objects EXCEPT ![o] = grown]
  BY DEF Grow
<1> HIDE DEF w
<1>4. /\ grown \in ObjectType /\ grown.shape = t /\ grown.slots = w
      /\ grown.extensible = objects[o].extensible
  BY <1>1, <1>2 DEF ObjectType
<1> HIDE DEF grown
<1>5. /\ objects' \in [Objects -> ObjectType] /\ objects'[o] = grown
      /\ \A p \in Objects \ {o} : objects'[p] = objects[p]
  BY <1>1, <1>3, <1>4
<1> QED
  BY <1>4, <1>5 DEF Grows, w

LEMMA GrownObjects ==
  ASSUME ShapesInv, ObjectsInv, KeysStay, NEW o \in Objects, NEW k \in Keys,
         NEW v \in {k, Hole}, NEW t \in DOMAIN shapes', NEW s, s = objects[o].shape,
         LeadsTo(s, k, t)', Grows(o, v, t)
  PROVE  ObjectsInv'
<1>1. ASSUME NEW p \in Objects \ {o} PROVE ObjectOK(p)'
  BY ObjectStays DEF Grows
<1>2. ObjectOK(o)'
  <2> DEFINE slots == objects[o].slots
  <2>1. /\ slots \in Seq(Keys \cup {Hole}) /\ s \in DOMAIN shapes
        /\ Len(slots) = shapes[s].len
        /\ \A i \in 1..shapes[s].len : slots[i] \in {KeyAt(s, i), Hole}
    BY DEF ObjectsInv, ObjectType, ObjectOK
  <2>2. /\ shapes'[s].len = shapes[s].len
        /\ \A i \in 1..shapes[s].len : KeyAt(s, i)' = KeyAt(s, i)
    BY <2>1 DEF KeysStay
  <2>3. /\ shapes'[t].len = shapes'[s].len + 1
        /\ KeyAt(t, shapes[t].len)' = k
        /\ \A i \in 1..shapes'[s].len : KeyAt(t, i)' = KeyAt(s, i)'
    BY DEF LeadsTo, KeyAt, CellAt
  <2>4. PICK n : n = shapes'[t].len
    OBVIOUS
  <2>5. KeyAt(t, n)' = k
    BY <2>3, <2>4 DEF KeyAt, CellAt
  <2>6. objects'[o].slots = Append(slots, v) /\ objects'[o].shape = t
    BY DEF Grows
  <2> HIDE DEF slots
  <2>7. Len(slots) \in Nat /\ n = Len(slots) + 1
    BY <2>1, <2>2, <2>3, <2>4
  <2>8. /\ Len(objects'[o].slots) = n
        /\ objects'[o].slots[n] = v
        /\ \A i \in 1..Len(slots) : objects'[o].slots[i] = slots[i]
    BY <2>1, <2>6, <2>7, AppendProperties
  <2>9. \A i \in 1..n : objects'[o].slots[i] \in {KeyAt(t, i)', Hole}
    <3>1. 1..n = (1..Len(slots)) \cup {n}
      BY <2>7
    <3>2. \A i \in 1..Len(slots) : objects'[o].slots[i] \in {KeyAt(t, i)', Hole}
      BY <2>1, <2>2, <2>3, <2>8
    <3> QED
      BY <3>1, <3>2, <2>5, <2>8
  <2> QED
    BY <2>4, <2>6, <2>8, <2>9 DEF ObjectOK, KeyAt, CellAt
<1> QED
  BY <1>1, <1>2 DEF ObjectsInv, Grows

(* o gets a shape without its i-th field, and loses the slot.               *)
Shrinks(o, i, t) ==
    /\ objects' \in [Objects -> ObjectType]
    /\ \A p \in Objects \ {o} : objects'[p] = objects[p]
    /\ objects'[o].shape = t
    /\ objects'[o].extensible = objects[o].extensible
    /\ Len(objects'[o].slots) = Len(objects[o].slots) - 1
    /\ \A j \in 1..(Len(objects[o].slots) - 1) :
          objects'[o].slots[j] = IF j < i THEN objects[o].slots[j] ELSE objects[o].slots[j + 1]

LEMMA ShrunkObjects ==
  ASSUME ShapesInv, ObjectsInv, KeysStay, NEW o \in Objects, NEW s, s = objects[o].shape,
         NEW i \in 1..shapes[s].len, NEW t \in DOMAIN shapes',
         ShapesInv', Shorter(s, i, t)', Shrinks(o, i, t)
  PROVE  ObjectsInv'
<1>1. ASSUME NEW p \in Objects \ {o} PROVE ObjectOK(p)'
  BY ObjectStays DEF Shrinks
<1>2. ObjectOK(o)'
  <2> DEFINE slots == objects[o].slots
  <2>1. /\ slots \in Seq(Keys \cup {Hole}) /\ s \in DOMAIN shapes
        /\ Len(slots) = shapes[s].len
        /\ \A j \in 1..shapes[s].len : slots[j] \in {KeyAt(s, j), Hole}
    BY DEF ObjectsInv, ObjectType, ObjectOK
  <2>2. /\ shapes'[s].len = shapes[s].len
        /\ \A j \in 1..shapes[s].len : KeyAt(s, j)' = KeyAt(s, j)
    BY <2>1 DEF KeysStay
  <2>3. PICK n : n = shapes'[t].len
    OBVIOUS
  <2>4. /\ n + 1 = shapes'[s].len
        /\ \A j \in 1..n : KeyAt(t, j)' = IF j < i THEN KeyAt(s, j)' ELSE KeyAt(s, j + 1)'
    BY <2>3 DEF Shorter, KeyAt, CellAt
  <2>5. /\ objects'[o].shape = t
        /\ Len(objects'[o].slots) = Len(slots) - 1
        /\ \A j \in 1..(Len(slots) - 1) :
              objects'[o].slots[j] = IF j < i THEN slots[j] ELSE slots[j + 1]
    BY DEF Shrinks
  <2> HIDE DEF slots
  <2>6. n \in Nat
    <3>1. shapes' \in Seq(ShapeType)
      BY DEF ShapesInv, ShapesType
    <3>2. shapes'[t] \in ShapeType
      BY <3>1
    <3> QED
      BY <2>3, <3>2 DEF ShapeType
  <2>7. Len(slots) \in Nat
    BY <2>1
  <2>8. n = Len(slots) - 1
    BY <2>1, <2>2, <2>4, <2>6, <2>7
  <2>9. ASSUME NEW j \in 1..n PROVE objects'[o].slots[j] \in {KeyAt(t, j)', Hole}
    <3>1. CASE j < i
      <4>1. j \in 1..shapes[s].len
        BY <2>1, <2>7, <2>8
      <4> QED
        BY <4>1, <3>1, <2>1, <2>2, <2>4, <2>5, <2>8
    <3>2. CASE ~(j < i)
      <4>1. j + 1 \in 1..shapes[s].len
        BY <2>1, <2>7, <2>8
      <4>2. slots[j + 1] \in {KeyAt(s, j + 1), Hole}
        BY <4>1, <2>1
      <4>3. PICK h \in 1..shapes[s].len : h = j + 1
        BY <4>1
      <4>4. KeyAt(s, h)' = KeyAt(s, h)
        BY <2>2
      <4>5. KeyAt(s, j + 1)' = KeyAt(s, h)'
        BY <4>3 DEF KeyAt, CellAt
      <4> QED
        BY <4>2, <4>3, <4>4, <4>5, <3>2, <2>4, <2>5, <2>8
    <3> QED
      BY <3>1, <3>2
  <2> QED
    BY <2>3, <2>5, <2>8, <2>9 DEF ObjectOK, KeyAt, CellAt
<1> QED
  BY <1>1, <1>2 DEF ObjectsInv, Shrinks

-----------------------------------------------------------------------------
(* What an operation on o may do to layouts.                                *)

FrozenCell(f) == ~f.configurable /\ (f.accessor \/ ~f.writable)

FrozenCellsStay ==
    \A t \in DOMAIN shapes : \A i \in 1..shapes[t].len :
       FrozenCell(CellAt(t, i)) => CellAt(t, i)' = CellAt(t, i)

KeepsShapes(o) ==
    /\ \A p \in Objects : objects'[p].shape = objects[p].shape
    /\ \A p \in Objects \ {o} : objects'[p].extensible = objects[p].extensible
    /\ objects'[o].extensible \in {objects[o].extensible, FALSE}

GetsKey(o) ==
    \E s, t, v : \E k \in Keys :
       /\ s = objects[o].shape
       /\ objects[o].extensible
       /\ LeadsTo(s, k, t)'
       /\ Grows(o, v, t)

LosesKey(o) ==
    \E s, t : \E i \in 1..shapes[s].len :
       /\ s = objects[o].shape
       /\ CellAt(s, i).configurable
       /\ Shorter(s, i, t)'
       /\ Shrinks(o, i, t)

SoundStep(o) ==
    /\ ShapesInv' /\ ObjectsInv'
    /\ KeysStay /\ FrozenCellsStay
    /\ KeepsShapes(o) \/ GetsKey(o) \/ LosesKey(o)

LEMMA ShapesUnchanged ==
  ASSUME ShapesInv, UNCHANGED <<arrays, shapes>>
  PROVE  ShapesInv' /\ FieldsStay /\ FrozenCellsStay
<1>1. ShapesInv'
  <2>1. ShapesType'
    BY DEF ShapesInv, ShapesType
  <2>2. FieldsFit'
    BY DEF ShapesInv, FieldsFit
  <2>3. FieldsInOrder'
    BY DEF ShapesInv, FieldsInOrder, KeyAt, CellAt
  <2>4. TransitionsLead'
    <3>1. ASSUME NEW t, NEW k, NEW r PROVE LeadsTo(t, k, r)' <=> LeadsTo(t, k, r)
      BY DEF LeadsTo, Has, KeyAt, CellAt
    <3>2. ASSUME NEW t \in DOMAIN shapes', NEW k \in Keys, shapes'[t].next[k] # None
          PROVE  LeadsTo(t, k, shapes[t].next[k])'
      <4>1. LeadsTo(t, k, shapes[t].next[k])
        BY <3>2 DEF ShapesInv, TransitionsLead
      <4> QED
        BY <3>1, <4>1, TransitionPrimed
    <3> QED
      BY <3>2 DEF TransitionsLead
  <2> QED
    BY <2>1, <2>2, <2>3, <2>4 DEF ShapesInv
<1>2. \A t \in DOMAIN shapes : \A i \in 1..shapes[t].len : CellAt(t, i)' = CellAt(t, i)
  BY DEF CellAt
<1>3. Len(shapes) <= Len(shapes')
  <2>1. shapes \in Seq(ShapeType)
    BY DEF ShapesInv, ShapesType
  <2>2. Len(shapes) \in Nat
    BY <2>1
  <2> QED
    BY <2>2
<1> QED
  BY <1>1, <1>2, <1>3 DEF FieldsStay, KeysStay, KeyAt, FrozenCellsStay

LEMMA FrozenCellsAreFields ==
  ASSUME FieldsStay
  PROVE  FrozenCellsStay
  BY DEF FieldsStay, FrozenCellsStay

(* The record of o is replaced by one of the same layout.                   *)
Sets(o, r) == objects' = [objects EXCEPT ![o] = r]

LEMMA SetsLayout ==
  ASSUME ObjectsInv, NEW o \in Objects, NEW r \in ObjectType,
         r.shape = objects[o].shape, r.slots = objects[o].slots, Sets(o, r)
  PROVE  /\ SameLayouts
         /\ \A p \in Objects \ {o} : objects'[p] = objects[p]
         /\ objects'[o] = r
<1>1. /\ objects' \in [Objects -> ObjectType] /\ objects'[o] = r
      /\ \A p \in Objects \ {o} : objects'[p] = objects[p]
  BY DEF Sets, ObjectsInv
<1> QED
  BY <1>1 DEF SameLayouts

LEMMA OverwriteIsSound ==
  ASSUME ShapesInv, ObjectsInv, NEW o \in Objects, NEW fields \in Seq(FieldType),
         NEW s, s = objects[o].shape,
         Len(fields) = shapes[s].len, Overwrite(s, fields),
         \A i \in 1..shapes[s].len :
            /\ fields[i].key = KeyAt(s, i)
            /\ fields[i].offset = i - 1
            /\ FrozenCell(CellAt(s, i)) => fields[i] = CellAt(s, i),
         SameLayouts,
         \A p \in Objects \ {o} : objects'[p].extensible = objects[p].extensible,
         objects'[o].extensible \in {objects[o].extensible, FALSE}
  PROVE  SoundStep(o)
<1>1. s \in DOMAIN shapes
  BY DEF ObjectsInv, ObjectOK
<1>2. ShapesInv' /\ KeysStay /\ Replaced(s, fields)
  BY <1>1, OverwriteKeeps
<1>3. ObjectsInv'
  BY <1>2, LayoutsStay
<1>4. FrozenCellsStay
  BY <1>2 DEF Replaced, FrozenCellsStay
<1>5. KeepsShapes(o)
  BY DEF KeepsShapes, SameLayouts
<1> QED
  BY <1>2, <1>3, <1>4, <1>5 DEF SoundStep

LEMMA ExtendIsSound ==
  ASSUME ShapesInv, ObjectsInv, NEW o \in Objects, NEW field \in FieldType,
         NEW link \in BOOLEAN, NEW s, s = objects[o].shape,
         field.offset = shapes[s].len, ~Has(s, field.key), objects[o].extensible,
         Extend(s, field, link),
         NEW v \in {field.key, Hole}, NEW t, t = Len(shapes) + 1, Grows(o, v, t)
  PROVE  SoundStep(o)
<1>1. s \in DOMAIN shapes
  BY DEF ObjectsInv, ObjectOK
<1>2. PICK m \in Nat : Extended(s, field, m)
  BY <1>1, ExtendExtends
<1>3. PICK new \in Nat :
         ShapesInv' /\ FieldsStay /\ new = Len(shapes) + 1 /\ Len(shapes') = new
         /\ LeadsTo(s, field.key, new)'
  BY <1>1, <1>2, ExtendedKeeps
<1>4. new = t
  BY <1>3
<1>5. t \in DOMAIN shapes'
  <2>1. shapes \in Seq(ShapeType) /\ shapes' \in Seq(ShapeType)
    BY <1>3 DEF ShapesInv, ShapesType
  <2>2. Len(shapes) \in Nat /\ DOMAIN shapes' = 1..Len(shapes')
    BY <2>1
  <2> QED
    BY <2>2, <1>3, <1>4
<1>6. field.key \in Keys
  BY DEF FieldType
<1>7. LeadsTo(s, field.key, t)'
  BY <1>3, <1>4
<1>8. ObjectsInv'
  BY <1>3, <1>5, <1>6, <1>7, GrownObjects DEF FieldsStay
<1>9. GetsKey(o)
  BY <1>6, <1>7 DEF GetsKey
<1> QED
  BY <1>3, <1>8, <1>9, FrozenCellsAreFields DEF SoundStep, FieldsStay

-----------------------------------------------------------------------------
(* The operations, one by one.                                              *)

LEMMA StoreIsSound ==
  ASSUME ShapesInv, ObjectsInv, NEW o \in Objects, NEW k \in Keys,
         HasOwn(o, k), Store(o, OwnField(o, k).offset, k)
  PROVE  /\ SameLayouts
         /\ \A p \in Objects : objects'[p].extensible = objects[p].extensible
<1>1. PICK i : i = IndexOf(FieldsOf(o), k)
  OBVIOUS
<1>2. /\ i \in 1..shapes[objects[o].shape].len
      /\ OwnField(o, k) = CellAt(objects[o].shape, i)
      /\ OwnField(o, k).key = k
      /\ OwnField(o, k).offset = i - 1
      /\ OwnField(o, k) \in FieldType
  BY <1>1, OwnIsFound
<1>3. PICK n \in Nat : n = OwnField(o, k).offset
  BY <1>2 DEF FieldType
<1>4. n + 1 = i
  BY <1>2, <1>3
<1>5. Store(o, n, k)
  BY <1>3
<1>6. n + 1 \in 1..shapes[objects[o].shape].len /\ KeyAt(objects[o].shape, n + 1) = k
  BY <1>2, <1>4 DEF KeyAt
<1> QED
  BY <1>5, <1>6, StoreStores

LEMMA SameObjects ==
  ASSUME ObjectsInv, UNCHANGED objects
  PROVE  SameLayouts /\ \A p \in Objects : objects'[p].extensible = objects[p].extensible
  BY DEF ObjectsInv, SameLayouts

LEMMA LayoutsOnly ==
  ASSUME ShapesInv, ObjectsInv, NEW o \in Objects, UNCHANGED <<arrays, shapes>>, SameLayouts,
         \A p \in Objects \ {o} : objects'[p].extensible = objects[p].extensible,
         objects'[o].extensible \in {objects[o].extensible, FALSE}
  PROVE  SoundStep(o)
<1>1. ShapesInv' /\ FieldsStay /\ FrozenCellsStay
  BY ShapesUnchanged
<1>2. ObjectsInv'
  BY <1>1, LayoutsStay DEF FieldsStay
<1>3. KeepsShapes(o)
  BY DEF KeepsShapes, SameLayouts
<1> QED
  BY <1>1, <1>2, <1>3 DEF SoundStep, FieldsStay

LEMMA NewField ==
  ASSUME NEW k \in Keys, NEW n \in Nat, NEW w \in BOOLEAN, NEW c \in BOOLEAN, NEW a \in BOOLEAN
  PROVE  /\ Field(k, n, w, c, a) \in FieldType
         /\ Field(k, n, w, c, a).key = k
         /\ Field(k, n, w, c, a).offset = n
         /\ Field(k, n, w, c, a).writable = w
         /\ Field(k, n, w, c, a).configurable = c
         /\ Field(k, n, w, c, a).accessor = a
  BY DEF Field, FieldType

LEMMA ShapeCount ==
  ASSUME ShapesInv
  PROVE  Len(shapes) \in Nat /\ Len(shapes) + 1 \in Nat
<1>1. shapes \in Seq(ShapeType)
  BY DEF ShapesInv, ShapesType
<1> QED
  BY <1>1

LEMMA SetOwnIsSound ==
  ASSUME ShapesInv, ObjectsInv, NEW o \in Objects, NEW k \in Keys,
         HasOwn(o, k) \/ objects[o].extensible, SetOwn(o, k)
  PROVE  SoundStep(o)
<1>1. PICK s : s = objects[o].shape
  OBVIOUS
<1>2. s \in DOMAIN shapes /\ shapes[s].len \in Nat /\ (HasOwn(o, k) <=> Has(s, k))
  BY <1>1, OwnIsFound
<1>3. CASE shapes[s].next[k] # None
  <2>1. PICK t \in DOMAIN shapes : t = shapes[s].next[k]
    BY <1>2, <1>3 DEF ShapesInv, ShapesType
  <2>2. Grow(o, t, k) /\ UNCHANGED <<arrays, shapes>>
    BY <1>1, <1>3, <2>1 DEF SetOwn
  <2>3. LeadsTo(s, k, t)
    BY <1>2, <1>3, <2>1 DEF ShapesInv, TransitionsLead
  <2>4. objects[o].extensible
    BY <2>3, <1>2 DEF LeadsTo
  <2>5. ShapesInv' /\ FieldsStay /\ FrozenCellsStay
    BY <2>2, ShapesUnchanged
  <2>6. LeadsTo(s, k, t)'
    BY <2>3, <2>5, <1>2, LeadingStays DEF FieldsStay
  <2>7. t \in Nat /\ t \in DOMAIN shapes'
    <3>1. shapes \in Seq(ShapeType)
      BY DEF ShapesInv, ShapesType
    <3> QED
      BY <3>1, <2>2
  <2>8. Grows(o, k, t)
    BY <2>2, <2>7, GrowGrows
  <2>9. ObjectsInv'
    BY <1>1, <2>5, <2>6, <2>7, <2>8, GrownObjects DEF FieldsStay
  <2>10. GetsKey(o)
    BY <1>1, <2>4, <2>6, <2>8 DEF GetsKey
  <2> QED
    BY <2>5, <2>9, <2>10 DEF SoundStep, FieldsStay
<1>4. CASE shapes[s].next[k] = None /\ HasOwn(o, k)
  <2>1. /\ Store(o, OwnField(o, k).offset, k) \/ UNCHANGED objects
        /\ UNCHANGED <<arrays, shapes>>
    BY <1>1, <1>4 DEF SetOwn
  <2>2. SameLayouts /\ \A p \in Objects : objects'[p].extensible = objects[p].extensible
    BY <1>4, <2>1, StoreIsSound, SameObjects
  <2> QED
    BY <2>1, <2>2, LayoutsOnly
<1>5. CASE shapes[s].next[k] = None /\ ~HasOwn(o, k)
  <2> DEFINE field == Field(k, shapes[s].len, TRUE, TRUE, FALSE)
  <2>1. Extend(s, field, TRUE) /\ Grow(o, Len(shapes) + 1, k)
    BY <1>1, <1>5 DEF SetOwn
  <2>2. field \in FieldType /\ field.key = k /\ field.offset = shapes[s].len
    BY <1>2, NewField, ZenonT(30)
  <2> HIDE DEF field
  <2>3. PICK t \in Nat : t = Len(shapes) + 1
    BY ShapeCount
  <2>4. Grows(o, k, t)
    BY <2>1, <2>3, GrowGrows
  <2>5. PICK f \in FieldType : f = field
    BY <2>2
  <2> QED
    BY <2>1, <2>2, <2>3, <2>4, <2>5, <1>1, <1>2, <1>5, ExtendIsSound
<1> QED
  BY <1>3, <1>4, <1>5

LEMMA FieldReplaced ==
  ASSUME ShapesInv, NEW s \in DOMAIN shapes, NEW i \in 1..shapes[s].len, NEW f \in FieldType,
         f.key = KeyAt(s, i), f.offset = i - 1,
         FrozenCell(CellAt(s, i)) => f = CellAt(s, i)
  PROVE  LET fields == [Fields(s) EXCEPT ![i] = f] IN
         /\ fields \in Seq(FieldType)
         /\ Len(fields) = shapes[s].len
         /\ \A j \in 1..shapes[s].len :
               /\ fields[j].key = KeyAt(s, j)
               /\ fields[j].offset = j - 1
               /\ FrozenCell(CellAt(s, j)) => fields[j] = CellAt(s, j)
<1>1. /\ Fields(s) \in Seq(FieldType) /\ Len(Fields(s)) = shapes[s].len
      /\ \A j \in 1..shapes[s].len : Fields(s)[j] = CellAt(s, j)
  BY FieldsAreCells
<1>2. \A j \in 1..shapes[s].len : CellAt(s, j).offset = j - 1
  BY DEF ShapesInv, FieldsInOrder
<1> DEFINE fields == [Fields(s) EXCEPT ![i] = f]
<1>3. /\ fields \in Seq(FieldType) /\ Len(fields) = shapes[s].len
      /\ \A j \in 1..shapes[s].len : fields[j] = IF j = i THEN f ELSE Fields(s)[j]
  BY <1>1, ExceptSeq
<1> HIDE DEF fields
<1>4. \A j \in 1..shapes[s].len :
         /\ fields[j].key = KeyAt(s, j)
         /\ fields[j].offset = j - 1
         /\ FrozenCell(CellAt(s, j)) => fields[j] = CellAt(s, j)
  BY <1>1, <1>2, <1>3 DEF KeyAt
<1> QED
  BY <1>3, <1>4 DEF fields

LEMMA DefineOwnIsSound ==
  ASSUME ShapesInv, ObjectsInv, NEW o \in Objects, NEW k \in Keys,
         NEW w \in BOOLEAN, NEW c \in BOOLEAN, DefineOwnProperty(o, k, w, c)
  PROVE  SoundStep(o)
<1>1. PICK s, i : s = objects[o].shape /\ i = IndexOf(FieldsOf(o), k)
  OBVIOUS
<1>2. s \in DOMAIN shapes /\ shapes[s].len \in Nat /\ (HasOwn(o, k) <=> Has(s, k))
  BY <1>1, OwnIsFound
<1>3. CASE HasOwn(o, k)
  <2>1. PICK f : f = OwnField(o, k)
    OBVIOUS
  <2>2. /\ i \in 1..shapes[s].len /\ f = CellAt(s, i) /\ f.key = k /\ f.offset = i - 1
        /\ f \in FieldType
    BY <1>1, <1>3, <2>1, OwnIsFound
  <2> DEFINE g == Field(k, f.offset, w, c, FALSE)
  <2>3. /\ Redefinable(f, w, c)
        /\ Store(o, f.offset, k) \/ UNCHANGED objects
        /\ Overwrite(s, [Fields(s) EXCEPT ![i] = g])
    BY <1>1, <1>3, <2>1 DEF DefineOwnProperty, FieldsOf
  <2>4. SameLayouts /\ \A p \in Objects : objects'[p].extensible = objects[p].extensible
    BY <1>3, <2>1, <2>3, StoreIsSound, SameObjects
  <2>5. f.offset \in Nat
    BY <2>2 DEF FieldType
  <2>6. g \in FieldType /\ g.key = k /\ g.offset = i - 1
    BY <2>2, <2>5 DEF Field, FieldType
  <2>7. ASSUME FrozenCell(f) PROVE g = f
    <3>1. ~f.configurable /\ ~f.accessor /\ ~f.writable /\ ~c /\ ~w
      BY <2>3, <2>7 DEF Redefinable, FrozenCell
    <3> QED
      BY <3>1, <2>2 DEF Field, FieldType
  <2> HIDE DEF g
  <2> DEFINE fields == [Fields(s) EXCEPT ![i] = g]
  <2>8. /\ fields \in Seq(FieldType)
        /\ Len(fields) = shapes[s].len
        /\ \A j \in 1..shapes[s].len :
              /\ fields[j].key = KeyAt(s, j)
              /\ fields[j].offset = j - 1
              /\ FrozenCell(CellAt(s, j)) => fields[j] = CellAt(s, j)
    BY <1>2, <2>2, <2>6, <2>7, FieldReplaced DEF KeyAt
  <2>9. Overwrite(s, fields)
    BY <2>3
  <2> HIDE DEF fields
  <2> QED
    BY <1>1, <2>4, <2>8, <2>9, OverwriteIsSound
<1>4. CASE ~HasOwn(o, k)
  <2> DEFINE field == Field(k, shapes[s].len, w, c, FALSE)
  <2>1. objects[o].extensible /\ Extend(s, field, FALSE) /\ Grow(o, Len(shapes) + 1, k)
    BY <1>1, <1>4 DEF DefineOwnProperty
  <2>2. field \in FieldType /\ field.key = k /\ field.offset = shapes[s].len
    BY <1>2 DEF Field, FieldType
  <2> HIDE DEF field
  <2>3. PICK t \in Nat : t = Len(shapes) + 1
    BY ShapeCount
  <2>4. Grows(o, k, t)
    BY <2>1, <2>3, GrowGrows
  <2>5. PICK f \in FieldType : f = field
    BY <2>2
  <2> QED
    BY <2>1, <2>2, <2>3, <2>4, <2>5, <1>1, <1>2, <1>4, ExtendIsSound
<1> QED
  BY <1>3, <1>4

LEMMA DefineAccessorIsSound ==
  ASSUME ShapesInv, ObjectsInv, NEW o \in Objects, NEW k \in Keys,
         NEW c \in BOOLEAN, DefineAccessorProperty(o, k, c)
  PROVE  SoundStep(o)
<1>1. PICK s, i : s = objects[o].shape /\ i = IndexOf(FieldsOf(o), k)
  OBVIOUS
<1>2. /\ s \in DOMAIN shapes /\ shapes[s].len \in Nat /\ (HasOwn(o, k) <=> Has(s, k))
      /\ objects[o] \in ObjectType
  BY <1>1, OwnIsFound
<1>3. CASE HasOwn(o, k)
  <2>1. PICK f : f = OwnField(o, k)
    OBVIOUS
  <2>2. /\ i \in 1..shapes[s].len /\ f = CellAt(s, i) /\ f.key = k /\ f.offset = i - 1
        /\ f \in FieldType
    BY <1>1, <1>3, <2>1, OwnIsFound
  <2> DEFINE g == [f EXCEPT !.accessor = TRUE, !.configurable = c]
             r == [objects[o] EXCEPT !.getters = TRUE]
  <2>3. /\ f.configurable
        /\ Sets(o, r)
        /\ Overwrite(s, [Fields(s) EXCEPT ![i] = g])
    BY <1>1, <1>3, <2>1 DEF DefineAccessorProperty, FieldsOf, Sets
  <2>4. r \in ObjectType /\ r.shape = objects[o].shape /\ r.slots = objects[o].slots
        /\ r.extensible = objects[o].extensible
    BY <1>2 DEF ObjectType
  <2> HIDE DEF r
  <2>5. /\ SameLayouts
        /\ \A p \in Objects \ {o} : objects'[p].extensible = objects[p].extensible
        /\ objects'[o].extensible = objects[o].extensible
    BY <2>3, <2>4, SetsLayout
  <2>6. g \in FieldType /\ g.key = k /\ g.offset = i - 1
    BY <2>2 DEF FieldType
  <2>7. ~FrozenCell(f)
    BY <2>3 DEF FrozenCell
  <2> HIDE DEF g
  <2> DEFINE fields == [Fields(s) EXCEPT ![i] = g]
  <2>8. /\ fields \in Seq(FieldType)
        /\ Len(fields) = shapes[s].len
        /\ \A j \in 1..shapes[s].len :
              /\ fields[j].key = KeyAt(s, j)
              /\ fields[j].offset = j - 1
              /\ FrozenCell(CellAt(s, j)) => fields[j] = CellAt(s, j)
    BY <1>2, <2>2, <2>6, <2>7, FieldReplaced DEF KeyAt
  <2>9. Overwrite(s, fields)
    BY <2>3
  <2> HIDE DEF fields
  <2> QED
    BY <1>1, <2>5, <2>8, <2>9, OverwriteIsSound
<1>4. CASE ~HasOwn(o, k)
  <2> DEFINE field == Field(k, shapes[s].len, FALSE, c, TRUE)
             w == Append(objects[o].slots, Hole)
             r == [objects[o] EXCEPT !.shape = Len(shapes) + 1, !.slots = w, !.getters = TRUE]
  <2>1. objects[o].extensible /\ Extend(s, field, FALSE) /\ Sets(o, r)
    BY <1>1, <1>4 DEF DefineAccessorProperty, Sets
  <2>2. field \in FieldType /\ field.key = k /\ field.offset = shapes[s].len
    BY <1>2 DEF Field, FieldType
  <2> HIDE DEF field
  <2>3. PICK t \in Nat : t = Len(shapes) + 1
    BY ShapeCount
  <2>4. Grows(o, Hole, t)
    <3>1. w \in Seq(Keys \cup {Hole})
      BY <1>2 DEF ObjectType
    <3> HIDE DEF w
    <3>2. /\ r \in ObjectType /\ r.shape = t /\ r.slots = w
          /\ r.extensible = objects[o].extensible
      BY <3>1, <1>2, <2>3 DEF ObjectType
    <3> HIDE DEF r
    <3>3. /\ objects' \in [Objects -> ObjectType] /\ objects'[o] = r
          /\ \A p \in Objects \ {o} : objects'[p] = objects[p]
      BY <2>1, <3>2 DEF Sets, ObjectsInv
    <3> QED
      BY <3>2, <3>3 DEF Grows, w
  <2>5. PICK f \in FieldType : f = field
    BY <2>2
  <2> QED
    BY <2>1, <2>2, <2>3, <2>4, <2>5, <1>1, <1>2, <1>4, ExtendIsSound
<1> QED
  BY <1>3, <1>4

LEMMA SlotIsTakenOut ==
  ASSUME NEW T, NEW slots \in Seq(T), NEW i \in 1..Len(slots)
  PROVE  /\ WithoutSlot(slots, i - 1) \in Seq(T)
         /\ Len(WithoutSlot(slots, i - 1)) = Len(slots) - 1
         /\ \A j \in 1..(Len(slots) - 1) :
               WithoutSlot(slots, i - 1)[j] = IF j < i THEN slots[j] ELSE slots[j + 1]
<1> DEFINE a == SubSeq(slots, 1, i - 1)
           b == SubSeq(slots, i + 1, Len(slots))
<1>1. Len(slots) \in Nat /\ i \in Nat
  OBVIOUS
<1>2. /\ a \in Seq(T) /\ Len(a) = i - 1
      /\ \A j \in 1..(i - 1) : a[j] = slots[j]
  BY <1>1
<1>3. /\ b \in Seq(T) /\ Len(b) = Len(slots) - i
      /\ \A j \in 1..(Len(slots) - i) : b[j] = slots[i + j]
  BY <1>1
<1>4. WithoutSlot(slots, i - 1) = a \o b
  <2>1. (i - 1) + 2 = i + 1
    BY <1>1
  <2> QED
    BY <2>1 DEF WithoutSlot
<1> HIDE DEF a, b
<1>5. /\ a \o b \in Seq(T) /\ Len(a \o b) = Len(slots) - 1
      /\ \A j \in 1..(Len(slots) - 1) : (a \o b)[j] = IF j <= i - 1 THEN a[j] ELSE b[j - (i - 1)]
  <2>1. a \in Seq(T) /\ b \in Seq(T) /\ Len(a) = i - 1 /\ Len(b) = Len(slots) - i
    BY <1>2, <1>3
  <2>2. /\ a \o b \in Seq(T) /\ Len(a \o b) = Len(a) + Len(b)
        /\ \A j \in 1..(Len(a) + Len(b)) :
              (a \o b)[j] = IF j <= Len(a) THEN a[j] ELSE b[j - Len(a)]
    BY <2>1, ConcatProperties
  <2>3. Len(a) + Len(b) = Len(slots) - 1
    BY <2>1, <1>1
  <2> QED
    BY <2>1, <2>2, <2>3
<1>6. ASSUME NEW j \in 1..(Len(slots) - 1)
      PROVE  (a \o b)[j] = IF j < i THEN slots[j] ELSE slots[j + 1]
  <2>1. CASE j < i
    BY <2>1, <1>1, <1>2, <1>5
  <2>2. CASE ~(j < i)
    <3>1. j - (i - 1) \in 1..(Len(slots) - i) /\ i + (j - (i - 1)) = j + 1
      BY <2>2, <1>1
    <3> QED
      BY <3>1, <2>2, <1>1, <1>3, <1>5
  <2> QED
    BY <2>1, <2>2
<1> QED
  BY <1>4, <1>5, <1>6

LEMMA DeleteOwnIsSound ==
  ASSUME ShapesInv, ObjectsInv, NEW o \in Objects, NEW k \in Keys, DeleteOwn(o, k)
  PROVE  SoundStep(o)
<1>1. PICK s, i, f : s = objects[o].shape /\ i = IndexOf(FieldsOf(o), k) /\ f = OwnField(o, k)
  OBVIOUS
<1>2. HasOwn(o, k) /\ f.configurable
  BY <1>1 DEF DeleteOwn
<1>3. /\ s \in DOMAIN shapes /\ shapes[s].len \in Nat
      /\ objects[o] \in ObjectType /\ Len(objects[o].slots) = shapes[s].len
      /\ i \in 1..shapes[s].len /\ f = CellAt(s, i) /\ f.offset = i - 1
  BY <1>1, <1>2, OwnIsFound
<1> DEFINE w == WithoutSlot(objects[o].slots, f.offset)
           r == [objects[o] EXCEPT !.shape = Len(shapes) + 1, !.slots = w]
<1>4. Deletes(s, i) /\ Sets(o, r)
  BY <1>1 DEF DeleteOwn, Deletes, Sets, FieldsOf
<1>5. PICK t \in Nat : /\ ShapesInv' /\ FieldsStay
                       /\ t = Len(shapes) + 1 /\ Len(shapes') = t /\ Shorter(s, i, t)'
  BY <1>3, <1>4, DeleteKeeps
<1>6. t \in DOMAIN shapes'
  <2>1. shapes' \in Seq(ShapeType)
    BY <1>5 DEF ShapesInv, ShapesType
  <2>2. t # 0
    BY <1>5, ShapeCount
  <2> QED
    BY <2>1, <2>2, <1>5
<1>7. Shrinks(o, i, t)
  <2>1. /\ w \in Seq(Keys \cup {Hole})
        /\ Len(w) = Len(objects[o].slots) - 1
        /\ \A j \in 1..(Len(objects[o].slots) - 1) :
              w[j] = IF j < i THEN objects[o].slots[j] ELSE objects[o].slots[j + 1]
    <3>1. objects[o].slots \in Seq(Keys \cup {Hole}) /\ i \in 1..Len(objects[o].slots)
      BY <1>3 DEF ObjectType
    <3>2. w = WithoutSlot(objects[o].slots, i - 1)
      BY <1>3
    <3> HIDE DEF w
    <3> QED
      BY <3>1, <3>2, SlotIsTakenOut
  <2> HIDE DEF w
  <2>2. /\ r \in ObjectType /\ r.shape = t /\ r.slots = w
        /\ r.extensible = objects[o].extensible
    BY <2>1, <1>3, <1>5 DEF ObjectType
  <2> HIDE DEF r
  <2>3. /\ objects' \in [Objects -> ObjectType] /\ objects'[o] = r
        /\ \A p \in Objects \ {o} : objects'[p] = objects[p]
    BY <1>4, <2>2 DEF Sets, ObjectsInv
  <2> QED
    BY <2>1, <2>2, <2>3 DEF Shrinks
<1>8. ObjectsInv'
  BY <1>1, <1>3, <1>5, <1>6, <1>7, ShrunkObjects DEF FieldsStay
<1>9. LosesKey(o)
  BY <1>1, <1>2, <1>3, <1>5, <1>7 DEF LosesKey
<1> QED
  BY <1>5, <1>8, <1>9, FrozenCellsAreFields DEF SoundStep, FieldsStay

LEMMA ClosingKeepsLayouts ==
  ASSUME ObjectsInv, NEW o \in Objects,
         Sets(o, [objects[o] EXCEPT !.extensible = FALSE])
  PROVE  /\ SameLayouts
         /\ \A p \in Objects \ {o} : objects'[p].extensible = objects[p].extensible
         /\ objects'[o].extensible = FALSE
<1> DEFINE r == [objects[o] EXCEPT !.extensible = FALSE]
<1>1. objects[o] \in ObjectType
  BY DEF ObjectsInv
<1>2. r \in ObjectType /\ r.shape = objects[o].shape /\ r.slots = objects[o].slots
      /\ r.extensible = FALSE
  BY <1>1 DEF ObjectType
<1>3. Sets(o, r)
  OBVIOUS
<1> HIDE DEF r
<1> QED
  BY <1>2, <1>3, SetsLayout

LEMMA PreventExtensionsIsSound ==
  ASSUME ShapesInv, ObjectsInv, NEW o \in Objects, PreventExtensions(o)
  PROVE  SoundStep(o)
<1>1. /\ Sets(o, [objects[o] EXCEPT !.extensible = FALSE])
      /\ UNCHANGED <<arrays, shapes>>
  BY DEF PreventExtensions, Sets
<1> QED
  BY <1>1, ClosingKeepsLayouts, LayoutsOnly

(* All fields of a shape are rewritten, each by one that keeps its place.   *)
LEMMA FieldsMapped ==
  ASSUME ShapesInv, NEW s \in DOMAIN shapes, NEW fields,
         fields = [i \in DOMAIN Fields(s) |-> fields[i]],
         \A i \in 1..shapes[s].len :
            /\ fields[i] \in FieldType
            /\ fields[i].key = CellAt(s, i).key
            /\ fields[i].offset = CellAt(s, i).offset
            /\ FrozenCell(CellAt(s, i)) => fields[i] = CellAt(s, i)
  PROVE  /\ fields \in Seq(FieldType)
         /\ Len(fields) = shapes[s].len
         /\ \A i \in 1..shapes[s].len :
               /\ fields[i].key = KeyAt(s, i)
               /\ fields[i].offset = i - 1
               /\ FrozenCell(CellAt(s, i)) => fields[i] = CellAt(s, i)
<1>1. DOMAIN Fields(s) = 1..shapes[s].len /\ shapes[s].len \in Nat
  BY FieldsAreCells DEF ShapeType
<1>2. fields \in Seq(FieldType) /\ Len(fields) = shapes[s].len
  <2>1. PICK n \in Nat : n = shapes[s].len
    BY <1>1
  <2>2. fields = [i \in 1..n |-> fields[i]] /\ \A i \in 1..n : fields[i] \in FieldType
    BY <1>1, <2>1
  <2>3. fields \in [1..n -> FieldType]
    BY <2>2, Zenon
  <2>4. fields \in Seq(FieldType) /\ Len(fields) = n
    BY <2>3
  <2> QED
    BY <2>1, <2>4
<1>3. \A i \in 1..shapes[s].len : CellAt(s, i).offset = i - 1
  BY DEF ShapesInv, FieldsInOrder
<1> QED
  BY <1>1, <1>2, <1>3 DEF KeyAt

LEMMA FreezeIsSound ==
  ASSUME ShapesInv, ObjectsInv, NEW o \in Objects, Freeze(o)
  PROVE  SoundStep(o)
<1>1. PICK s : s = objects[o].shape
  OBVIOUS
<1>2. s \in DOMAIN shapes
  BY <1>1 DEF ObjectsInv, ObjectOK
<1>3. /\ DOMAIN Fields(s) = 1..shapes[s].len
      /\ \A i \in 1..shapes[s].len :
            Fields(s)[i] = CellAt(s, i) /\ CellAt(s, i) \in FieldType
  BY <1>2, FieldsAreCells
<1> DEFINE frozen(f) == [f EXCEPT !.configurable = FALSE, !.writable = @ /\ f.accessor]
           fields == [i \in DOMAIN Fields(s) |-> frozen(Fields(s)[i])]
<1>4. /\ Sets(o, [objects[o] EXCEPT !.extensible = FALSE])
      /\ Overwrite(s, fields)
  BY <1>1 DEF Freeze, FieldsOf, Sets
<1>5. ASSUME NEW i \in 1..shapes[s].len
      PROVE  /\ fields[i] \in FieldType
             /\ fields[i].key = CellAt(s, i).key
             /\ fields[i].offset = CellAt(s, i).offset
             /\ FrozenCell(CellAt(s, i)) => fields[i] = CellAt(s, i)
  <2>1. PICK f \in FieldType : f = CellAt(s, i)
    BY <1>3
  <2>2. fields[i] = frozen(f)
    BY <1>3, <2>1
  <2>3. frozen(f) \in FieldType /\ frozen(f).key = f.key /\ frozen(f).offset = f.offset
    BY DEF FieldType
  <2>4. FrozenCell(f) => frozen(f) = f
    BY DEF FieldType, FrozenCell
  <2> QED
    BY <2>1, <2>2, <2>3, <2>4
<1>6. fields = [i \in DOMAIN Fields(s) |-> fields[i]]
  OBVIOUS
<1> HIDE DEF fields
<1>7. /\ fields \in Seq(FieldType)
      /\ Len(fields) = shapes[s].len
      /\ \A i \in 1..shapes[s].len :
            /\ fields[i].key = KeyAt(s, i)
            /\ fields[i].offset = i - 1
            /\ FrozenCell(CellAt(s, i)) => fields[i] = CellAt(s, i)
  BY <1>2, <1>5, <1>6, FieldsMapped
<1>8. /\ SameLayouts
      /\ \A p \in Objects \ {o} : objects'[p].extensible = objects[p].extensible
      /\ objects'[o].extensible = FALSE
  BY <1>4, ClosingKeepsLayouts
<1> QED
  BY <1>1, <1>4, <1>7, <1>8, OverwriteIsSound

LEMMA SealIsSound ==
  ASSUME ShapesInv, ObjectsInv, NEW o \in Objects, Seal(o)
  PROVE  SoundStep(o)
<1>1. PICK s : s = objects[o].shape
  OBVIOUS
<1>2. s \in DOMAIN shapes
  BY <1>1 DEF ObjectsInv, ObjectOK
<1>3. /\ DOMAIN Fields(s) = 1..shapes[s].len
      /\ \A i \in 1..shapes[s].len :
            Fields(s)[i] = CellAt(s, i) /\ CellAt(s, i) \in FieldType
  BY <1>2, FieldsAreCells
<1> DEFINE sealed(f) == [f EXCEPT !.configurable = FALSE]
           fields == [i \in DOMAIN Fields(s) |-> sealed(Fields(s)[i])]
<1>4. /\ Sets(o, [objects[o] EXCEPT !.extensible = FALSE])
      /\ Overwrite(s, fields)
  BY <1>1 DEF Seal, FieldsOf, Sets
<1>5. ASSUME NEW i \in 1..shapes[s].len
      PROVE  /\ fields[i] \in FieldType
             /\ fields[i].key = CellAt(s, i).key
             /\ fields[i].offset = CellAt(s, i).offset
             /\ FrozenCell(CellAt(s, i)) => fields[i] = CellAt(s, i)
  <2>1. PICK f \in FieldType : f = CellAt(s, i)
    BY <1>3
  <2>2. fields[i] = sealed(f)
    BY <1>3, <2>1
  <2>3. sealed(f) \in FieldType /\ sealed(f).key = f.key /\ sealed(f).offset = f.offset
    BY DEF FieldType
  <2>4. FrozenCell(f) => sealed(f) = f
    BY DEF FieldType, FrozenCell
  <2> QED
    BY <2>1, <2>2, <2>3, <2>4
<1>6. fields = [i \in DOMAIN Fields(s) |-> fields[i]]
  OBVIOUS
<1> HIDE DEF fields
<1>7. /\ fields \in Seq(FieldType)
      /\ Len(fields) = shapes[s].len
      /\ \A i \in 1..shapes[s].len :
            /\ fields[i].key = KeyAt(s, i)
            /\ fields[i].offset = i - 1
            /\ FrozenCell(CellAt(s, i)) => fields[i] = CellAt(s, i)
  BY <1>2, <1>5, <1>6, FieldsMapped
<1>8. /\ SameLayouts
      /\ \A p \in Objects \ {o} : objects'[p].extensible = objects[p].extensible
      /\ objects'[o].extensible = FALSE
  BY <1>4, ClosingKeepsLayouts
<1> QED
  BY <1>1, <1>4, <1>7, <1>8, OverwriteIsSound

LEMMA SetPrototypeIsSound ==
  ASSUME ShapesInv, ObjectsInv, NEW o \in Objects, NEW p \in Objects \cup {Null},
         SetPrototype(o, p)
  PROVE  SoundStep(o)
<1> DEFINE r == [objects[o] EXCEPT !.prototype = p]
<1>1. objects[o] \in ObjectType
  BY DEF ObjectsInv
<1>2. Sets(o, r) /\ UNCHANGED <<arrays, shapes>>
  BY DEF SetPrototype, Sets
<1>3. r \in ObjectType /\ r.shape = objects[o].shape /\ r.slots = objects[o].slots
      /\ r.extensible = objects[o].extensible
  BY <1>1 DEF ObjectType
<1> HIDE DEF r
<1>4. /\ SameLayouts
      /\ \A q \in Objects \ {o} : objects'[q] = objects[q]
      /\ objects'[o] = r
  BY <1>2, <1>3, SetsLayout
<1> QED
  BY <1>2, <1>3, <1>4, LayoutsOnly

LEMMA ReshapeIsSound ==
  ASSUME ShapesInv, ObjectsInv, NEW o \in Objects, Reshape(o)
  PROVE  SoundStep(o)
<1>1. CASE \E k \in Keys, d \in Descriptors : DefineProperty(o, k, d)
  <2>1. PICK k \in Keys, d \in Descriptors : DefineProperty(o, k, d)
    BY <1>1
  <2>2. d.accessor \in BOOLEAN /\ d.writable \in BOOLEAN /\ d.configurable \in BOOLEAN
    BY DescriptorsHaveAttributes
  <2>3. \/ DefineAccessorProperty(o, k, d.configurable)
        \/ DefineOwnProperty(o, k, d.writable, d.configurable)
    BY <2>1 DEF DefineProperty
  <2>4. CASE DefineAccessorProperty(o, k, d.configurable)
    BY <2>2, <2>4, DefineAccessorIsSound
  <2>5. CASE DefineOwnProperty(o, k, d.writable, d.configurable)
    BY <2>2, <2>5, DefineOwnIsSound
  <2> QED
    BY <2>3, <2>4, <2>5
<1>2. CASE \E k \in Keys : DefineDataProperty(o, k)
  <2>1. PICK k \in Keys : DefineDataProperty(o, k)
    BY <1>2
  <2>2. /\ objects[o].extensible
        /\ DefineOwnProperty(o, k, TRUE, TRUE) \/ SetOwn(o, k)
    BY <2>1 DEF DefineDataProperty
  <2> QED
    BY <2>2, DefineOwnIsSound, SetOwnIsSound
<1>3. CASE \E k \in Keys : DeleteOwn(o, k)
  BY <1>3, DeleteOwnIsSound
<1>4. CASE \E p \in Objects \cup {Null} : SetPrototype(o, p)
  BY <1>4, SetPrototypeIsSound
<1>5. CASE PreventExtensions(o)
  BY <1>5, PreventExtensionsIsSound
<1>6. CASE Freeze(o)
  BY <1>6, FreezeIsSound
<1>7. CASE Seal(o)
  BY <1>7, SealIsSound
<1> QED
  BY <1>1, <1>2, <1>3, <1>4, <1>5, <1>6, <1>7 DEF Reshape

-----------------------------------------------------------------------------
(* Prototype chains, of any length.                                         *)

LEMMA LeastNumber ==
  ASSUME NEW S \in SUBSET Nat, S # {}
  PROVE  \E n \in S : \A m \in S : n <= m
<1>1. PICK n \in S : \A m \in S : <<m, n>> \notin OpToRel(<, Nat)
  BY NatLessThanWellFounded, WFMin
<1>2. \A m \in S : ~(m < n)
  BY <1>1 DEF OpToRel
<1> QED
  BY <1>2

(* f is the chain of o up to depth n.                                       *)
ClimbsTo(f, o, n) ==
    f = [d \in 0..n |->
            IF d = 0 THEN o
            ELSE IF f[d - 1] = Null THEN Null ELSE objects[f[d - 1]].prototype]

LEMMA ChainsClimb ==
  ASSUME NEW o \in Objects, NEW n \in Nat
  PROVE  \E f : ClimbsTo(f, o, n)
<1> DEFINE S == {m \in Nat : ~ \E f : ClimbsTo(f, o, m)}
<1>1. SUFFICES ASSUME S # {} PROVE FALSE
  OBVIOUS
<1>2. PICK m \in S : \A i \in S : m <= i
  BY <1>1, LeastNumber
<1>3. CASE m = 0
  <2>1. [d \in 0..0 |-> o] = [d \in 0..0 |->
            IF d = 0 THEN o
            ELSE IF [e \in 0..0 |-> o][d - 1] = Null THEN Null
            ELSE objects[[e \in 0..0 |-> o][d - 1]].prototype]
    OBVIOUS
  <2>2. ClimbsTo([d \in 0..0 |-> o], o, 0)
    BY <2>1 DEF ClimbsTo
  <2> QED
    BY <2>2, <1>3
<1>4. CASE m # 0
  <2>1. PICK i \in Nat : i + 1 = m /\ i \notin S
    <3>1. m - 1 \in Nat /\ (m - 1) + 1 = m /\ m - 1 \notin S
      BY <1>2, <1>4
    <3> QED
      BY <3>1
  <2>2. PICK f : ClimbsTo(f, o, i)
    BY <2>1
  <2> DEFINE g == [d \in 0..m |->
                     IF d \in 0..i THEN f[d]
                     ELSE IF f[i] = Null THEN Null ELSE objects[f[i]].prototype]
             up(h, d) == IF d = 0 THEN o
                         ELSE IF h[d - 1] = Null THEN Null ELSE objects[h[d - 1]].prototype
  <2>3. \A d \in 0..i : f[d] = up(f, d)
    BY <2>2 DEF ClimbsTo
  <2>4. ASSUME NEW d \in 0..m PROVE g[d] = up(g, d)
    <3>1. CASE d \in 0..i
      <4>1. g[d] = up(f, d)
        BY <3>1, <2>3
      <4>2. d # 0 => d - 1 \in 0..m /\ d - 1 \in 0..i
        BY <3>1, <2>1
      <4>3. d # 0 => g[d - 1] = f[d - 1]
        BY <4>2
      <4> QED
        BY <4>1, <4>3
    <3>2. CASE d \notin 0..i
      <4>1. d = m /\ d # 0 /\ d - 1 = i /\ i \in 0..i /\ i \in 0..m
        BY <3>2, <2>1
      <4>2. g[i] = f[i]
        BY <4>1
      <4> QED
        BY <3>2, <4>1, <4>2
    <3> QED
      BY <3>1, <3>2
  <2>5. g = [d \in 0..m |-> g[d]]
    OBVIOUS
  <2> HIDE DEF g
  <2>6. ClimbsTo(g, o, m)
    BY <2>4, <2>5 DEF ClimbsTo
  <2> QED
    BY <2>6
<1> QED
  BY <1>3, <1>4

LEMMA ChainClimbs ==
  ASSUME objects \in [Objects -> ObjectType], NEW o \in Objects
  PROVE  /\ Chain(o)[0] = o
         /\ \A d \in 0..MaxDepth :
               Chain(o)[d + 1] = IF Chain(o)[d] = Null THEN Null
                                 ELSE objects[Chain(o)[d]].prototype
         /\ \A d \in 0..(MaxDepth + 1) : Chain(o)[d] \in Objects \cup {Null}
<1> DEFINE n == MaxDepth + 1
<1>1. n \in Nat /\ MaxDepth \in Nat
  BY BoundsAreNumbers
<1>2. Chain(o) = CHOOSE f : ClimbsTo(f, o, n)
  BY DEF Chain, ClimbsTo
<1>3. ClimbsTo(Chain(o), o, n)
  BY <1>1, <1>2, ChainsClimb
<1> DEFINE f == Chain(o)
<1>4. \A d \in 0..n : f[d] = IF d = 0 THEN o
                             ELSE IF f[d - 1] = Null THEN Null ELSE objects[f[d - 1]].prototype
  BY <1>3 DEF ClimbsTo
<1> HIDE DEF f
<1>5. f[0] = o
  BY <1>1, <1>4
<1>6. \A d \in 0..MaxDepth :
         f[d + 1] = IF f[d] = Null THEN Null ELSE objects[f[d]].prototype
  <2>1. ASSUME NEW d \in 0..MaxDepth
        PROVE  f[d + 1] = IF f[d] = Null THEN Null ELSE objects[f[d]].prototype
    <3>1. d + 1 \in 0..n /\ d + 1 # 0 /\ (d + 1) - 1 = d
      BY <1>1
    <3> QED
      BY <3>1, <1>4
  <2> QED
    BY <2>1
<1>7. \A d \in 0..n : f[d] \in Objects \cup {Null}
  <2> DEFINE S == {d \in Nat : d \in 0..n /\ f[d] \notin Objects \cup {Null}}
  <2>1. SUFFICES ASSUME S # {} PROVE FALSE
    OBVIOUS
  <2>2. PICK d \in S : \A e \in S : d <= e
    BY <2>1, LeastNumber
  <2>3. d # 0
    BY <2>2, <1>5
  <2>4. PICK e \in 0..MaxDepth : e + 1 = d /\ e \notin S
    <3>1. d - 1 \in 0..MaxDepth /\ (d - 1) + 1 = d /\ d - 1 \notin S
      BY <2>2, <2>3, <1>1
    <3> QED
      BY <3>1
  <2>5. f[e] \in Objects \cup {Null}
    BY <2>4, <1>1
  <2>6. f[d] = IF f[e] = Null THEN Null ELSE objects[f[e]].prototype
    BY <2>4, <1>6
  <2>7. f[e] \in Objects => objects[f[e]].prototype \in Objects \cup {Null}
    BY DEF ObjectType
  <2> QED
    BY <2>2, <2>5, <2>6, <2>7
<1> QED
  BY <1>5, <1>6, <1>7 DEF f

-----------------------------------------------------------------------------
(* The site.                                                                *)

LEMMA EntryStays ==
  ASSUME ShapesInv, KeysStay, NEW e \in EntryType, EntryOK(e)
  PROVE  EntryOK(e)'
<1>1. PICK s, t, k, i : s = e.shape /\ t = e.holderShape /\ k = e.key /\ i = e.offset + 1
  OBVIOUS
<1>2. s \in DOMAIN shapes /\ t \in DOMAIN shapes
  BY <1>1 DEF EntryOK
<1>3. /\ s \in DOMAIN shapes' /\ t \in DOMAIN shapes'
      /\ shapes'[s].len = shapes[s].len /\ shapes'[t].len = shapes[t].len
      /\ \A j \in 1..shapes[s].len : KeyAt(s, j)' = KeyAt(s, j)
      /\ \A j \in 1..shapes[t].len : KeyAt(t, j)' = KeyAt(t, j)
  BY <1>2 DEF KeysStay
<1>4. Has(s, k)' <=> Has(s, k)
  BY <1>3 DEF Has
<1>5. IF e.depth = 0
      THEN i \in 1..shapes'[s].len /\ KeyAt(s, i)' = k
      ELSE ~e.writable /\ ~Has(s, k)' /\ i \in 1..shapes'[t].len /\ KeyAt(t, i)' = k
  BY <1>1, <1>3, <1>4 DEF EntryOK
<1> QED
  BY <1>1, <1>3, <1>5 DEF EntryOK, Has, KeyAt, CellAt

LEMMA SiteStays ==
  ASSUME ShapesInv, KeysStay, SiteInv, UNCHANGED site
  PROVE  SiteInv'
<1>1. \A e \in site.entries : EntryOK(e)'
  BY EntryStays DEF SiteInv
<1> QED
  BY <1>1 DEF SiteInv

(* An entry is added, or takes the place of the one for its shape and key.  *)
Enters(e) ==
    \/ SameGuard(e.shape, e.key) = {} /\ site' = AddEntry(e)
    \/ \E old \in SameGuard(e.shape, e.key) : site' = ReplaceEntry(old, e)

LEMMA EntryEnters ==
  ASSUME ShapesInv, KeysStay, SiteInv, NEW e \in EntryType, EntryOK(e)', Enters(e)
  PROVE  SiteInv'
<1>1. /\ site \in [entries : SUBSET EntryType, mega : BOOLEAN]
      /\ \A f, g \in site.entries : f.shape = g.shape /\ f.key = g.key => f = g
      /\ IsFiniteSet(site.entries) /\ Cardinality(site.entries) <= MaxEntries
  BY DEF SiteInv
<1>2. \A f \in site.entries : EntryOK(f)'
  BY <1>1, EntryStays DEF SiteInv
<1>3. MaxEntries \in Nat /\ Cardinality(site.entries) \in Nat
  BY <1>1, SeveralEntries, FS_CardinalityType
<1>4. CASE SameGuard(e.shape, e.key) = {} /\ site' = AddEntry(e)
  <2>1. CASE site' = site
    BY <2>1, SiteStays
  <2>2. CASE Cardinality(site.entries) < MaxEntries
             /\ site' = [site EXCEPT !.entries = site.entries \cup {e}]
    <3>1. /\ site' \in [entries : SUBSET EntryType, mega : BOOLEAN]
          /\ site'.entries = site.entries \cup {e}
      BY <1>1, <2>2
    <3>2. \A f \in site.entries : ~(f.shape = e.shape /\ f.key = e.key)
      BY <1>4 DEF SameGuard
    <3>3. IsFiniteSet(site'.entries) /\ Cardinality(site'.entries) <= MaxEntries
      <4>1. e \notin site.entries
        BY <3>2
      <4>2. /\ IsFiniteSet(site.entries \cup {e})
            /\ Cardinality(site.entries \cup {e}) = Cardinality(site.entries) + 1
        BY <4>1, <1>1, FS_AddElement
      <4> QED
        BY <1>3, <2>2, <3>1, <4>2
    <3>4. \A f, g \in site'.entries : f.shape = g.shape /\ f.key = g.key => f = g
      BY <1>1, <3>1, <3>2
    <3>5. \A f \in site'.entries : EntryOK(f)'
      BY <1>2, <3>1
    <3> QED
      BY <3>1, <3>3, <3>4, <3>5 DEF SiteInv
  <2>3. CASE site' = [mega |-> TRUE, entries |-> {}]
    <3>1. site' \in [entries : SUBSET EntryType, mega : BOOLEAN] /\ site'.entries = {}
      BY <2>3
    <3>2. IsFiniteSet(site'.entries) /\ Cardinality(site'.entries) <= MaxEntries
      BY <3>1, <1>3, FS_EmptySet
    <3> QED
      BY <3>1, <3>2 DEF SiteInv
  <2> QED
    BY <1>4, <2>1, <2>2, <2>3 DEF AddEntry
<1>5. ASSUME NEW old \in SameGuard(e.shape, e.key), site' = ReplaceEntry(old, e)
      PROVE  SiteInv'
  <2>1. old \in site.entries /\ old.shape = e.shape /\ old.key = e.key
    BY DEF SameGuard
  <2> DEFINE rest == site.entries \ {old}
  <2>2. /\ site' \in [entries : SUBSET EntryType, mega : BOOLEAN]
        /\ site'.entries = rest \cup {e}
    BY <1>1, <1>5 DEF ReplaceEntry
  <2>3. IsFiniteSet(rest) /\ Cardinality(rest) = Cardinality(site.entries) - 1
    BY <1>1, <2>1, FS_RemoveElement
  <2>4. \A f \in rest : ~(f.shape = e.shape /\ f.key = e.key)
    BY <1>1, <2>1
  <2>5. e \notin rest
    BY <2>4
  <2> HIDE DEF rest
  <2>6. IsFiniteSet(rest \cup {e}) /\ Cardinality(rest \cup {e}) = Cardinality(rest) + 1
    BY <2>3, <2>5, FS_AddElement
  <2>7. IsFiniteSet(site'.entries) /\ Cardinality(site'.entries) <= MaxEntries
    BY <1>1, <1>3, <2>2, <2>3, <2>6
  <2>8. \A f, g \in site'.entries : f.shape = g.shape /\ f.key = g.key => f = g
    BY <1>1, <2>2, <2>4 DEF rest
  <2>9. \A f \in site'.entries : EntryOK(f)'
    BY <1>2, <2>2 DEF rest
  <2> QED
    BY <2>2, <2>7, <2>8, <2>9 DEF SiteInv
<1> QED
  BY <1>4, <1>5 DEF Enters

LEMMA UpdateCacheEnters ==
  ASSUME ShapesInv, ShapesInv', KeysStay, SiteInv,
         NEW s \in DOMAIN shapes', NEW k \in Keys, NEW version \in Nat, NEW f \in FieldType,
         f.offset + 1 \in 1..shapes'[s].len, KeyAt(s, f.offset + 1)' = k,
         UpdateCache(s, k, version, f)
  PROVE  SiteInv'
<1>1. s \in Nat /\ RootShape \in DOMAIN shapes'
  <2>1. shapes' \in Seq(ShapeType)
    BY DEF ShapesInv, ShapesType
  <2> QED
    BY <2>1 DEF RootShape
<1>2. CASE SameGuard(s, k) = {}
  <2> DEFINE e == [shape |-> s, version |-> version, key |-> k,
                   offset |-> f.offset, accessor |-> f.accessor,
                   writable |-> f.writable, depth |-> 0,
                   holderShape |-> RootShape, holderVersion |-> 0]
  <2>1. /\ e \in EntryType
        /\ e.shape = s /\ e.key = k /\ e.offset = f.offset /\ e.depth = 0
        /\ e.holderShape = RootShape
    BY <1>1, BoundsAreNumbers DEF EntryType, FieldType, RootShape
  <2>2. site' = AddEntry(e)
    BY <1>2 DEF UpdateCache
  <2> HIDE DEF e
  <2>3. Enters(e)
    BY <1>2, <2>1, <2>2 DEF Enters
  <2>4. PICK g \in EntryType : g = e
    BY <2>1
  <2>5. EntryOK(g)'
    BY <2>1, <2>4, <1>1 DEF EntryOK, KeyAt, CellAt
  <2>6. Enters(g)
    BY <2>3, <2>4
  <2> QED
    BY <2>5, <2>6, EntryEnters
<1>3. CASE SameGuard(s, k) # {}
  <2>1. PICK old \in SameGuard(s, k) :
           site' = ReplaceEntry(old, [old EXCEPT !.version = version, !.offset = f.offset,
                                                 !.accessor = f.accessor,
                                                 !.writable = f.writable])
    BY <1>3 DEF UpdateCache
  <2>2. /\ old \in EntryType /\ EntryOK(old) /\ old.shape = s /\ old.key = k
    BY DEF SameGuard, SiteInv
  <2>3. s \in DOMAIN shapes /\ old.holderShape \in DOMAIN shapes
    BY <2>2 DEF EntryOK
  <2>4. Has(s, k)
    <3>1. PICK i \in 1..shapes'[s].len : i = f.offset + 1
      OBVIOUS
    <3>2. i \in 1..shapes[s].len /\ KeyAt(s, i)' = KeyAt(s, i)
      BY <2>3 DEF KeysStay
    <3>3. KeyAt(s, i)' = k
      BY <3>1 DEF KeyAt, CellAt
    <3> QED
      BY <3>2, <3>3 DEF Has
  <2>5. old.depth = 0
    BY <2>2, <2>4 DEF EntryOK
  <2> DEFINE e == [old EXCEPT !.version = version, !.offset = f.offset,
                              !.accessor = f.accessor, !.writable = f.writable]
  <2>6. /\ e \in EntryType
        /\ e.shape = s /\ e.key = k /\ e.offset = f.offset /\ e.depth = 0
        /\ e.holderShape = old.holderShape
    BY <2>2, <2>5 DEF EntryType, FieldType
  <2>7. site' = ReplaceEntry(old, e)
    BY <2>1
  <2> HIDE DEF e
  <2>8. Enters(e)
    BY <2>1, <2>6, <2>7 DEF Enters
  <2>9. PICK g \in EntryType : g = e
    BY <2>6
  <2>10. old.holderShape \in DOMAIN shapes'
    BY <2>3 DEF KeysStay
  <2>11. EntryOK(g)'
    BY <2>6, <2>9, <2>10 DEF EntryOK, KeyAt, CellAt
  <2>12. Enters(g)
    BY <2>8, <2>9
  <2> QED
    BY <2>11, <2>12, EntryEnters
<1> QED
  BY <1>2, <1>3

LEMMA UpdateProtoEnters ==
  ASSUME ShapesInv, UNCHANGED <<arrays, shapes>>, SiteInv,
         NEW s \in DOMAIN shapes, NEW t \in DOMAIN shapes, NEW k \in Keys, NEW f \in FieldType,
         NEW d \in 1..MaxDepth, ~Has(s, k),
         f.offset + 1 \in 1..shapes[t].len, KeyAt(t, f.offset + 1) = k,
         UpdateCacheProto(s, k, t, f, d)
  PROVE  SiteInv'
<1> DEFINE e == [shape |-> s, version |-> shapes[s].version, key |-> k,
                 offset |-> f.offset, accessor |-> f.accessor,
                 writable |-> FALSE, depth |-> d,
                 holderShape |-> t, holderVersion |-> shapes[t].version]
<1>1. s \in Nat /\ t \in Nat /\ shapes[s].version \in Nat /\ shapes[t].version \in Nat
  <2>1. DOMAIN shapes = 1..Len(shapes) /\ Len(shapes) \in Nat
    BY DEF ShapesInv, ShapesType
  <2>2. shapes[s] \in ShapeType /\ shapes[t] \in ShapeType
    BY FieldsAreCells
  <2>3. s \in Nat /\ t \in Nat
    BY <2>1
  <2> QED
    BY <2>2, <2>3 DEF ShapeType
<1>2. /\ e \in EntryType
      /\ e.shape = s /\ e.key = k /\ e.offset = f.offset /\ e.depth = d /\ ~e.writable
      /\ e.holderShape = t
  BY <1>1, BoundsAreNumbers DEF EntryType, FieldType
<1>3. \/ SameGuard(s, k) = {} /\ site' = AddEntry(e)
      \/ \E old \in SameGuard(s, k) : site' = ReplaceEntry(old, e)
  BY DEF UpdateCacheProto
<1> HIDE DEF e
<1>4. Enters(e)
  BY <1>2, <1>3 DEF Enters
<1>5. EntryOK(e)
  BY <1>2 DEF EntryOK
<1>6. KeysStay
  BY ShapesUnchanged DEF FieldsStay
<1>7. PICK g \in EntryType : g = e
  BY <1>2
<1>8. EntryOK(g)'
  BY <1>5, <1>6, <1>7, EntryStays
<1> QED
  BY <1>4, <1>6, <1>7, <1>8, EntryEnters

LEMMA NearestIsFound ==
  ASSUME ShapesInv, ObjectsInv, NEW o \in Objects, NEW k \in Keys, Holders(o, k) # {}
  PROVE  LET d == Nearest(Holders(o, k)) IN
         /\ d \in 0..MaxDepth
         /\ Chain(o)[d] \in Objects
         /\ HasOwn(Chain(o)[d], k)
         /\ \A e \in Holders(o, k) : d <= e
         /\ d = 0 => Chain(o)[d] = o
         /\ d # 0 => ~HasOwn(o, k)
<1>1. MaxDepth \in Nat
  BY BoundsAreNumbers
<1>2. PICK m \in Holders(o, k) : \A e \in Holders(o, k) : m <= e
  <2>1. Holders(o, k) \in SUBSET Nat
    BY <1>1 DEF Holders
  <2> QED
    BY <2>1, LeastNumber
<1> DEFINE d == Nearest(Holders(o, k))
<1>3. d \in Holders(o, k) /\ \A e \in Holders(o, k) : d <= e
  BY <1>2 DEF Nearest
<1> HIDE DEF d
<1>4. d \in 0..MaxDepth /\ Chain(o)[d] # Null /\ HasOwn(Chain(o)[d], k)
  BY <1>3 DEF Holders
<1>5. Chain(o)[0] = o /\ Chain(o)[d] \in Objects \cup {Null}
  BY <1>1, <1>4, ChainClimbs DEF ObjectsInv
<1>6. HasOwn(o, k) => 0 \in Holders(o, k)
  BY <1>1, <1>5, NamesAreDistinct DEF Holders
<1>7. d # 0 => ~HasOwn(o, k)
  BY <1>1, <1>3, <1>4, <1>6
<1> QED
  BY <1>3, <1>4, <1>5, <1>7 DEF d

-----------------------------------------------------------------------------
(* The steps of the specification.                                          *)

(* Own properties are where their fields say.                               *)
OwnFound ==
    \A o \in Objects, k \in Keys :
       /\ objects[o].shape \in DOMAIN shapes
       /\ HasOwn(o, k) <=> Has(objects[o].shape, k)
       /\ HasOwn(o, k) =>
             /\ OwnField(o, k) \in FieldType
             /\ OwnField(o, k).offset + 1 \in 1..shapes[objects[o].shape].len
             /\ KeyAt(objects[o].shape, OwnField(o, k).offset + 1) = k

LEMMA OwnsAreFound == ShapesInv /\ ObjectsInv => OwnFound
<1>1. SUFFICES ASSUME ShapesInv, ObjectsInv, NEW o \in Objects, NEW k \in Keys
               PROVE  /\ objects[o].shape \in DOMAIN shapes
                      /\ HasOwn(o, k) <=> Has(objects[o].shape, k)
                      /\ HasOwn(o, k) =>
                            /\ OwnField(o, k) \in FieldType
                            /\ OwnField(o, k).offset + 1 \in 1..shapes[objects[o].shape].len
                            /\ KeyAt(objects[o].shape, OwnField(o, k).offset + 1) = k
  BY DEF OwnFound
<1>2. /\ objects[o].shape \in DOMAIN shapes
      /\ HasOwn(o, k) <=> Has(objects[o].shape, k)
  BY <1>1, OwnIsFound
<1>3. ASSUME HasOwn(o, k)
      PROVE  /\ OwnField(o, k) \in FieldType
             /\ OwnField(o, k).offset + 1 \in 1..shapes[objects[o].shape].len
             /\ KeyAt(objects[o].shape, OwnField(o, k).offset + 1) = k
  <2>1. PICK i : i = IndexOf(FieldsOf(o), k)
    OBVIOUS
  <2>2. /\ i \in 1..shapes[objects[o].shape].len
        /\ OwnField(o, k) = CellAt(objects[o].shape, i)
        /\ OwnField(o, k).key = k
        /\ OwnField(o, k).offset = i - 1
        /\ OwnField(o, k) \in FieldType
    BY <1>1, <1>3, <2>1, OwnIsFound
  <2>3. OwnField(o, k).offset + 1 = i
    BY <2>2
  <2> QED
    BY <2>2, <2>3 DEF KeyAt
<1> QED
  BY <1>2, <1>3

LEMMA OwnsAreFoundNext == (ShapesInv /\ ObjectsInv)' => OwnFound'
  BY OwnsAreFound, PTL

LEMMA LedToHas ==
  ASSUME KeysStay, ShapesInv, NEW s \in DOMAIN shapes, NEW k \in Keys, NEW t,
         LeadsTo(s, k, t)'
  PROVE  Has(t, k)'
<1>1. shapes[s].len \in Nat /\ shapes'[s].len = shapes[s].len
  BY FieldsAreCells DEF ShapeType, KeysStay
<1>2. shapes'[t].len = shapes'[s].len + 1 /\ KeyAt(t, shapes[t].len)' = k
  BY DEF LeadsTo
<1>3. shapes'[t].len \in 1..shapes'[t].len
  BY <1>1, <1>2
<1> QED
  BY <1>2, <1>3 DEF Has

(* After an assignment the object has the key.                              *)
LEMMA SetOwnSets ==
  ASSUME ShapesInv, ObjectsInv, NEW o \in Objects, NEW k \in Keys,
         HasOwn(o, k) \/ objects[o].extensible, SetOwn(o, k)
  PROVE  Has(objects[o].shape, k)'
<1>1. PICK s : s = objects[o].shape
  OBVIOUS
<1>2. s \in DOMAIN shapes /\ shapes[s].len \in Nat /\ (HasOwn(o, k) <=> Has(s, k))
  BY <1>1, OwnIsFound
<1>3. KeysStay
  BY SetOwnIsSound DEF SoundStep
<1>4. CASE shapes[s].next[k] # None
  <2>1. PICK t \in DOMAIN shapes : t = shapes[s].next[k]
    BY <1>2, <1>4 DEF ShapesInv, ShapesType
  <2>2. Grow(o, t, k)
    BY <1>1, <1>4, <2>1 DEF SetOwn
  <2>3. LeadsTo(s, k, t)
    BY <1>2, <1>4, <2>1 DEF ShapesInv, TransitionsLead
  <2>4. LeadsTo(s, k, t)'
    BY <2>3, <1>2, <1>3, LeadingStays
  <2>5. Has(t, k)'
    BY <2>4, <1>2, <1>3, LedToHas
  <2>6. t \in Nat
    <3>1. shapes \in Seq(ShapeType)
      BY DEF ShapesInv, ShapesType
    <3> QED
      BY <3>1
  <2>7. objects'[o].shape = t
    BY <2>2, <2>6, GrowGrows DEF Grows
  <2> QED
    BY <2>5, <2>7 DEF Has, KeyAt, CellAt
<1>5. CASE shapes[s].next[k] = None /\ HasOwn(o, k)
  <2>1. Store(o, OwnField(o, k).offset, k) \/ UNCHANGED objects
    BY <1>1, <1>5 DEF SetOwn
  <2>2. SameLayouts
    BY <1>5, <2>1, StoreIsSound, SameObjects
  <2>3. objects'[o].shape = s
    BY <2>2, <1>1 DEF SameLayouts
  <2>4. PICK i \in 1..shapes[s].len : KeyAt(s, i) = k
    BY <1>2, <1>5 DEF Has
  <2>5. i \in 1..shapes'[s].len /\ KeyAt(s, i)' = k
    BY <2>4, <1>2, <1>3 DEF KeysStay
  <2>6. Has(s, k)'
    BY <2>5 DEF Has
  <2> QED
    BY <2>3, <2>6 DEF Has, KeyAt, CellAt
<1>6. CASE shapes[s].next[k] = None /\ ~HasOwn(o, k)
  <2> DEFINE field == Field(k, shapes[s].len, TRUE, TRUE, FALSE)
  <2>1. Extend(s, field, TRUE) /\ Grow(o, Len(shapes) + 1, k)
    BY <1>1, <1>6 DEF SetOwn
  <2>2. field \in FieldType /\ field.key = k /\ field.offset = shapes[s].len
    BY <1>2, NewField, ZenonT(30)
  <2> HIDE DEF field
  <2>3. PICK f \in FieldType : f = field
    BY <2>2
  <2>4. Extend(s, f, TRUE) /\ f.key = k /\ f.offset = shapes[s].len
    BY <2>1, <2>2, <2>3
  <2>5. PICK m \in Nat : Extended(s, f, m)
    BY <2>4, <1>2, ExtendExtends
  <2>6. PICK t \in Nat : t = Len(shapes) + 1 /\ LeadsTo(s, f.key, t)'
    BY <2>4, <2>5, <1>2, <1>6, ExtendedKeeps
  <2>7. LeadsTo(s, k, t)'
    BY <2>4, <2>6
  <2>8. Has(t, k)'
    BY <2>7, <1>2, <1>3, LedToHas
  <2>9. objects'[o].shape = t
    BY <2>1, <2>6, GrowGrows DEF Grows
  <2> QED
    BY <2>8, <2>9 DEF Has, KeyAt, CellAt
<1> QED
  BY <1>4, <1>5, <1>6

LEMMA LayoutUnchanged ==
  ASSUME ShapesInv, ObjectsInv, SiteInv, UNCHANGED layout, NEW o \in Objects
  PROVE  SoundStep(o)
<1>1. UNCHANGED <<arrays, shapes>> /\ UNCHANGED objects
  BY DEF layout
<1>2. SameLayouts /\ \A p \in Objects : objects'[p].extensible = objects[p].extensible
  BY <1>1, SameObjects
<1> QED
  BY <1>1, <1>2, LayoutsOnly

(* The entry that lets a write through is for an own property.              *)
LEMMA FastWriteIsOwn ==
  ASSUME ShapesInv, ObjectsInv, SiteInv, NEW o \in Objects, NEW k \in Keys,
         NEW e \in FastWrites(o, k)
  PROVE  /\ e.offset \in Nat
         /\ e.offset + 1 \in 1..shapes[objects[o].shape].len
         /\ KeyAt(objects[o].shape, e.offset + 1) = k
<1>1. e \in site.entries /\ e.shape = objects[o].shape /\ e.key = k /\ e.writable
  BY DEF FastWrites, Hit
<1>2. e \in EntryType /\ EntryOK(e)
  BY <1>1 DEF SiteInv
<1>3. e.depth = 0
  BY <1>1, <1>2 DEF EntryOK
<1> QED
  BY <1>1, <1>2, <1>3 DEF EntryOK, EntryType

LEMMA SetPropIsSound ==
  ASSUME ShapesInv, ObjectsInv, SiteInv, NEW o \in Objects, NEW k \in Keys, SetProp(o, k)
  PROVE  SoundStep(o) /\ SiteInv'
<1>1. CASE FastWrites(o, k) # {}
  <2>1. PICK e \in FastWrites(o, k) :
           Store(o, e.offset, k) /\ UNCHANGED <<arrays, shapes>> /\ UNCHANGED site
    BY <1>1 DEF SetProp
  <2>2. PICK n \in Nat : n = e.offset
    BY FastWriteIsOwn
  <2>3. n + 1 \in 1..shapes[objects[o].shape].len /\ KeyAt(objects[o].shape, n + 1) = k
    BY <2>2, FastWriteIsOwn
  <2>4. /\ SameLayouts
        /\ \A p \in Objects : objects'[p].extensible = objects[p].extensible
    BY <2>1, <2>2, <2>3, StoreStores
  <2>5. SoundStep(o)
    BY <2>1, <2>4, LayoutsOnly
  <2> QED
    BY <2>1, <2>5, SiteStays DEF SoundStep
<1>2. CASE FastWrites(o, k) = {} /\ (AccessorTakes(o, k) \/ Refused(o, k))
  <2>1. UNCHANGED layout /\ UNCHANGED site
    BY <1>2 DEF SetProp
  <2>2. SoundStep(o)
    BY <2>1, LayoutUnchanged
  <2> QED
    BY <2>1, <2>2, SiteStays DEF SoundStep
<1>3. CASE FastWrites(o, k) = {} /\ ~AccessorTakes(o, k) /\ ~Refused(o, k)
  <2>1. PICK t, version, f :
           /\ t = objects'[o].shape /\ version = shapes'[t].version /\ f = OwnField(o, k)'
           /\ SetOwn(o, k)
           /\ UpdateCache(t, k, version, f)
    BY <1>3 DEF SetProp
  <2>2. HasOwn(o, k) \/ objects[o].extensible
    BY <1>3 DEF Refused
  <2>3. SoundStep(o)
    BY <2>1, <2>2, SetOwnIsSound
  <2>4. Has(t, k)'
    <3>1. Has(objects[o].shape, k)'
      BY <2>1, <2>2, SetOwnSets
    <3> QED
      BY <3>1, <2>1 DEF Has, KeyAt, CellAt
  <2>5. OwnFound'
    BY <2>3, OwnsAreFoundNext DEF SoundStep
  <2>6. HasOwn(o, k)'
    BY <2>1, <2>4, <2>5 DEF OwnFound, Has, KeyAt, CellAt
  <2>7. /\ t \in DOMAIN shapes'
        /\ f \in FieldType
        /\ f.offset + 1 \in 1..shapes'[t].len
    BY <2>1, <2>5, <2>6 DEF OwnFound
  <2>8. KeyAt(t, f.offset + 1)' = k
    <3>1. PICK n : n = f.offset + 1
      OBVIOUS
    <3>2. arrays'[shapes'[t].array].cells[n].key = k
      BY <2>1, <2>5, <2>6, <3>1 DEF OwnFound, KeyAt, CellAt
    <3> QED
      BY <3>1, <3>2 DEF KeyAt, CellAt
  <2>9. version \in Nat
    <3>1. shapes' \in Seq(ShapeType)
      BY <2>3 DEF SoundStep, ShapesInv, ShapesType
    <3>2. shapes'[t] \in ShapeType
      BY <3>1, <2>7, ElementOfSeq
    <3> QED
      BY <2>1, <3>2 DEF ShapeType
  <2> QED
    BY <2>1, <2>3, <2>7, <2>8, <2>9, UpdateCacheEnters DEF SoundStep
<1> QED
  BY <1>1, <1>2, <1>3

LEMMA GetPropIsSound ==
  ASSUME ShapesInv, ObjectsInv, SiteInv, NEW o \in Objects, NEW k \in Keys, GetProp(o, k)
  PROVE  SoundStep(o) /\ SiteInv'
<1>1. UNCHANGED layout /\ UNCHANGED <<arrays, shapes>>
  BY DEF GetProp, layout
<1>2. SoundStep(o)
  BY <1>1, LayoutUnchanged
<1>3. CASE UNCHANGED site
  BY <1>2, <1>3, SiteStays DEF SoundStep
<1>4. CASE ~ UNCHANGED site
  <2>1. PICK d, h, s, t, f, version :
           /\ d = Nearest(Holders(o, k)) /\ h = Chain(o)[d]
           /\ s = objects[o].shape /\ t = objects[h].shape
           /\ f = OwnField(h, k) /\ version = shapes[s].version
           /\ Holders(o, k) # {}
           /\ IF d = 0 THEN UpdateCache(s, k, version, OwnField(o, k))
                       ELSE UpdateCacheProto(s, k, t, f, d)
    BY <1>4 DEF GetProp
  <2>2. /\ d \in 0..MaxDepth /\ h \in Objects /\ HasOwn(h, k)
        /\ d = 0 => h = o
        /\ d # 0 => ~HasOwn(o, k)
    BY <2>1, NearestIsFound
  <2>3. OwnFound
    BY OwnsAreFound
  <2>4. /\ s \in DOMAIN shapes /\ t \in DOMAIN shapes /\ f \in FieldType
        /\ f.offset + 1 \in 1..shapes[t].len
        /\ KeyAt(t, f.offset + 1) = k
        /\ HasOwn(o, k) <=> Has(s, k)
    BY <2>1, <2>2, <2>3 DEF OwnFound
  <2>5. version \in Nat
    BY <2>1, <2>4, FieldsAreCells DEF ShapeType
  <2>6. CASE d = 0
    <3>1. UpdateCache(t, k, version, f) /\ t \in DOMAIN shapes'
      BY <1>1, <2>1, <2>2, <2>4, <2>6
    <3>2. f.offset + 1 \in 1..shapes'[t].len /\ KeyAt(t, f.offset + 1)' = k
      BY <1>1, <2>4 DEF KeyAt, CellAt
    <3> QED
      BY <1>2, <2>4, <2>5, <3>1, <3>2, UpdateCacheEnters DEF SoundStep
  <2>7. CASE d # 0
    <3>1. d \in 1..MaxDepth /\ ~Has(s, k) /\ UpdateCacheProto(s, k, t, f, d)
      BY <2>1, <2>2, <2>4, <2>7
    <3>2. SiteInv'
      BY <1>1, <2>4, <3>1, UpdateProtoEnters
    <3> QED
      BY <1>2, <3>2
  <2> QED
    BY <2>6, <2>7
<1> QED
  BY <1>3, <1>4

LEMMA InitInv ==
  ASSUME CacheInit
  PROVE  IInv
<1>1. /\ arrays = <<[cells |-> <<>>, cap |-> 0]>>
      /\ shapes = <<[array |-> 1, len |-> 0, next |-> [k \in Keys |-> None],
                     version |-> 0, childExtended |-> FALSE, owned |-> TRUE]>>
      /\ objects = [o \in Objects |->
                      [shape |-> RootShape, slots |-> <<>>, prototype |-> Null,
                       extensible |-> TRUE, getters |-> FALSE]]
      /\ site = [entries |-> {}, mega |-> FALSE]
  BY DEF CacheInit, Init
<1>2. /\ arrays \in Seq(ArrayType) /\ DOMAIN arrays = {1}
      /\ Len(arrays[1].cells) = 0 /\ arrays[1].cap = 0
  <2>1. <<>> \in Seq(FieldType) /\ Len(<<>>) = 0
    OBVIOUS
  <2>2. [cells |-> <<>>, cap |-> 0] \in ArrayType
    BY <2>1 DEF ArrayType
  <2> QED
    BY <1>1, <2>1, <2>2
<1>3. /\ shapes \in Seq(ShapeType) /\ DOMAIN shapes = {1}
      /\ shapes[1].array = 1 /\ shapes[1].len = 0
      /\ \A k \in Keys : shapes[1].next[k] = None
  <2> DEFINE root == [array |-> 1, len |-> 0, next |-> [k \in Keys |-> None],
                      version |-> 0, childExtended |-> FALSE, owned |-> TRUE]
  <2>1. /\ root \in ShapeType /\ root.array = 1 /\ root.len = 0
        /\ \A k \in Keys : root.next[k] = None
    BY DEF ShapeType, None
  <2> HIDE DEF root
  <2>2. shapes = <<root>>
    BY <1>1 DEF root
  <2> QED
    BY <2>1, <2>2
<1>4. ShapesInv
  <2>1. ShapesType
    BY <1>2, <1>3 DEF ShapesType
  <2>2. FieldsFit
    BY <1>2, <1>3 DEF FieldsFit
  <2>3. FieldsInOrder
    BY <1>3 DEF FieldsInOrder
  <2>4. TransitionsLead
    BY <1>3 DEF TransitionsLead
  <2> QED
    BY <2>1, <2>2, <2>3, <2>4 DEF ShapesInv
<1>5. ObjectsInv
  <2> DEFINE r == [shape |-> RootShape, slots |-> <<>>, prototype |-> Null,
                   extensible |-> TRUE, getters |-> FALSE]
  <2>1. r \in ObjectType /\ r.shape = 1 /\ Len(r.slots) = 0
    <3>1. <<>> \in Seq(Keys \cup {Hole}) /\ Len(<<>>) = 0
      OBVIOUS
    <3> QED
      BY <3>1 DEF ObjectType, RootShape
  <2> HIDE DEF r
  <2>2. objects = [o \in Objects |-> r]
    BY <1>1 DEF r
  <2>3. \A o \in Objects : ObjectOK(o)
    BY <1>3, <2>1, <2>2 DEF ObjectOK
  <2> QED
    BY <2>1, <2>2, <2>3 DEF ObjectsInv
<1>6. SiteInv
  <2>1. MaxEntries \in Nat /\ IsFiniteSet({}) /\ Cardinality({}) = 0
    BY SeveralEntries, FS_EmptySet
  <2> QED
    BY <1>1, <2>1 DEF SiteInv
<1> QED
  BY <1>4, <1>5, <1>6 DEF IInv

(* Every step is one operation on one object, which keeps the invariant.    *)
LEMMA StepsAreSound ==
  ASSUME IInv, [Next]_vars
  PROVE  IInv' /\ (UNCHANGED layout \/ \E o \in Objects : SoundStep(o))
<1> USE DEF IInv
<1>1. CASE UNCHANGED vars
  <2>1. UNCHANGED <<arrays, shapes>> /\ UNCHANGED objects /\ UNCHANGED layout /\ UNCHANGED site
    BY <1>1 DEF vars, layout
  <2>2. ShapesInv' /\ FieldsStay
    BY <2>1, ShapesUnchanged
  <2>3. ObjectsInv'
    BY <2>1, <2>2, SameObjects, LayoutsStay DEF FieldsStay
  <2>4. SiteInv'
    BY <2>1, <2>2, SiteStays DEF FieldsStay
  <2> QED
    BY <2>1, <2>2, <2>3, <2>4
<1>2. ASSUME NEW o \in Objects, Reshape(o), UNCHANGED site
      PROVE  IInv' /\ SoundStep(o)
  <2>1. SoundStep(o)
    BY <1>2, ReshapeIsSound
  <2> QED
    BY <2>1, <1>2, SiteStays DEF SoundStep
<1>3. ASSUME NEW o \in Objects, NEW k \in Keys, GetProp(o, k)
      PROVE  IInv' /\ SoundStep(o)
  BY <1>3, GetPropIsSound DEF SoundStep
<1>4. ASSUME NEW o \in Objects, NEW k \in Keys, SetProp(o, k)
      PROVE  IInv' /\ SoundStep(o)
  BY <1>4, SetPropIsSound DEF SoundStep
<1> QED
  BY <1>1, <1>2, <1>3, <1>4 DEF Next

LEMMA InvHolds == Spec => []IInv
<1>1. CacheInit => IInv
  BY InitInv
<1>2. IInv /\ [Next]_vars => IInv'
  BY StepsAreSound
<1> QED
  BY <1>1, <1>2, PTL DEF Spec

-----------------------------------------------------------------------------
(* What the invariant says of layouts and of the cache.                     *)

LEMMA LayoutsAreSound ==
  ASSUME ShapesInv, ObjectsInv
  PROVE  ShapesAreSound
<1>1. SlotsHoldTheirKeys
  <2>1. SUFFICES ASSUME NEW o \in Objects
                 PROVE  /\ Len(objects[o].slots) = Len(FieldsOf(o))
                        /\ \A i \in DOMAIN FieldsOf(o) :
                              /\ FieldsOf(o)[i].offset = i - 1
                              /\ objects[o].slots[FieldsOf(o)[i].offset + 1]
                                    \in {FieldsOf(o)[i].key, Hole}
    BY DEF SlotsHoldTheirKeys
  <2>2. PICK s : s = objects[o].shape
    OBVIOUS
  <2>3. /\ s \in DOMAIN shapes /\ Len(objects[o].slots) = shapes[s].len
        /\ \A i \in 1..shapes[s].len : objects[o].slots[i] \in {KeyAt(s, i), Hole}
    BY <2>2 DEF ObjectsInv, ObjectOK
  <2>4. /\ Len(Fields(s)) = shapes[s].len
        /\ DOMAIN Fields(s) = 1..shapes[s].len
        /\ \A i \in 1..shapes[s].len : Fields(s)[i] = CellAt(s, i)
    BY <2>3, FieldsAreCells
  <2>5. \A i \in 1..shapes[s].len : CellAt(s, i).offset = i - 1
    BY <2>3 DEF ShapesInv, FieldsInOrder
  <2>6. FieldsOf(o) = Fields(s)
    BY <2>2 DEF FieldsOf
  <2>7. ASSUME NEW i \in 1..shapes[s].len
        PROVE  /\ Fields(s)[i].offset = i - 1
               /\ objects[o].slots[Fields(s)[i].offset + 1] \in {Fields(s)[i].key, Hole}
    <3>1. Fields(s)[i].offset = i - 1 /\ Fields(s)[i].key = KeyAt(s, i)
      BY <2>4, <2>5 DEF KeyAt
    <3>2. Fields(s)[i].offset + 1 = i
      BY <3>1
    <3> QED
      BY <3>1, <3>2, <2>3
  <2> QED
    BY <2>3, <2>4, <2>6, <2>7
<1>2. TransitionsAppend
  <2>1. SUFFICES ASSUME NEW s \in DOMAIN shapes, NEW k \in Keys, shapes[s].next[k] # None,
                        NEW t, t = shapes[s].next[k]
                 PROVE  /\ ~HasField(Fields(s), k)
                        /\ shapes[t].len = shapes[s].len + 1
                        /\ Fields(t)[shapes[t].len].key = k
                        /\ \A i \in DOMAIN Fields(s) :
                              /\ Fields(t)[i].key = Fields(s)[i].key
                              /\ Fields(t)[i].offset = Fields(s)[i].offset
    BY DEF TransitionsAppend
  <2>2. t \in DOMAIN shapes /\ LeadsTo(s, k, t)
    BY <2>1 DEF ShapesInv, ShapesType, TransitionsLead
  <2>3. /\ shapes[s].len \in Nat /\ shapes[t].len \in Nat
        /\ DOMAIN Fields(s) = 1..shapes[s].len
        /\ \A i \in 1..shapes[s].len : Fields(s)[i] = CellAt(s, i)
        /\ \A i \in 1..shapes[t].len : Fields(t)[i] = CellAt(t, i)
    BY <2>2, FieldsAreCells DEF ShapeType
  <2>4. /\ ~Has(s, k)
        /\ shapes[t].len = shapes[s].len + 1
        /\ KeyAt(t, shapes[t].len) = k
        /\ \A i \in 1..shapes[s].len : KeyAt(t, i) = KeyAt(s, i)
    BY <2>2 DEF LeadsTo
  <2>5. /\ \A i \in 1..shapes[s].len : CellAt(s, i).offset = i - 1
        /\ \A i \in 1..shapes[t].len : CellAt(t, i).offset = i - 1
    BY <2>2 DEF ShapesInv, FieldsInOrder
  <2>6. ~HasField(Fields(s), k)
    BY <2>4, KeysAreFound
  <2>7. Fields(t)[shapes[t].len].key = k
    <3>1. shapes[t].len \in 1..shapes[t].len
      BY <2>3, <2>4
    <3> QED
      BY <2>3, <2>4, <3>1 DEF KeyAt
  <2>8. ASSUME NEW i \in 1..shapes[s].len
        PROVE  Fields(t)[i].key = Fields(s)[i].key /\ Fields(t)[i].offset = Fields(s)[i].offset
    <3>1. i \in 1..shapes[t].len
      BY <2>3, <2>4
    <3> QED
      BY <2>3, <2>4, <2>5, <3>1 DEF KeyAt
  <2> QED
    BY <2>3, <2>4, <2>6, <2>7, <2>8
<1> QED
  BY <1>1, <1>2 DEF ShapesAreSound

(* Where a key is, its field is the one that a scan finds.                  *)
LEMMA KeyDecidesField ==
  ASSUME ShapesInv, ObjectsInv, NEW o \in Objects, NEW k \in Keys, NEW n \in Nat,
         n + 1 \in 1..shapes[objects[o].shape].len,
         KeyAt(objects[o].shape, n + 1) = k
  PROVE  HasOwn(o, k) /\ OwnField(o, k).offset = n
<1>1. PICK s, i : s = objects[o].shape /\ i = IndexOf(FieldsOf(o), k)
  OBVIOUS
<1>2. PICK j \in 1..shapes[s].len : j = n + 1 /\ KeyAt(s, j) = k
  BY <1>1
<1>3. HasOwn(o, k)
  BY <1>1, <1>2, OwnIsFound DEF Has
<1>4. /\ i \in 1..shapes[s].len
      /\ OwnField(o, k) = CellAt(s, i) /\ OwnField(o, k).key = k
      /\ OwnField(o, k).offset = i - 1 /\ s \in DOMAIN shapes
  BY <1>1, <1>3, OwnIsFound
<1>5. KeyAt(s, i) = k
  BY <1>4 DEF KeyAt
<1>6. i = j
  BY <1>2, <1>4, <1>5 DEF ShapesInv, FieldsInOrder
<1> QED
  BY <1>2, <1>3, <1>4, <1>6

LEMMA WritesAreSound ==
  ASSUME IInv
  PROVE  WritesLandInOwnSlot
<1>1. SUFFICES ASSUME NEW o \in Objects, NEW k \in Keys, NEW e \in FastWrites(o, k)
               PROVE  HasOwn(o, k) /\ OwnField(o, k).offset = e.offset
  BY DEF WritesLandInOwnSlot
<1>2. PICK n \in Nat : n = e.offset
  BY FastWriteIsOwn DEF IInv
<1>3. n + 1 \in 1..shapes[objects[o].shape].len /\ KeyAt(objects[o].shape, n + 1) = k
  BY <1>2, FastWriteIsOwn DEF IInv
<1> QED
  BY <1>2, <1>3, KeyDecidesField DEF IInv

(* What the cache answers is a property of an object of the chain, in its   *)
(* slot; and if it is inherited, the object has no such property itself.    *)
AnswersAreProperties ==
    \A o \in Objects, k \in Keys : \A r \in Answers(o, k) :
       \E d \in 0..MaxDepth :
          /\ r.holder = Chain(o)[d]
          /\ r.holder \in Objects
          /\ HasOwn(r.holder, k)
          /\ r.offset = OwnField(r.holder, k).offset
          /\ d # 0 => ~HasOwn(o, k)

LEMMA AnswersAreSound ==
  ASSUME IInv
  PROVE  AnswersAreProperties
<1>1. SUFFICES ASSUME NEW o \in Objects, NEW k \in Keys, NEW r \in Answers(o, k)
               PROVE  \E d \in 0..MaxDepth :
                         /\ r.holder = Chain(o)[d]
                         /\ r.holder \in Objects
                         /\ HasOwn(r.holder, k)
                         /\ r.offset = OwnField(r.holder, k).offset
                         /\ d # 0 => ~HasOwn(o, k)
  BY DEF AnswersAreProperties
<1>2. PICK e \in Hit(o, k), g \in Hit(o, k) :
         \E h \in Guarded(o, g) : r = Found(h, e.offset, e.accessor)
  BY DEF Answers, FastReads
<1>3. /\ e \in site.entries /\ e.shape = objects[o].shape /\ e.key = k
      /\ g \in site.entries /\ g.shape = objects[o].shape /\ g.key = k
  BY DEF Hit
<1>4. g = e /\ e \in EntryType /\ EntryOK(e)
  BY <1>3 DEF IInv, SiteInv
<1>5. PICK h \in Guarded(o, e) : r.holder = h /\ r.offset = e.offset
  BY <1>2, <1>4 DEF Found
<1>6. PICK n \in Nat : n = e.offset
  BY <1>4 DEF EntryType
<1>7. MaxDepth \in Nat /\ objects \in [Objects -> ObjectType]
  BY BoundsAreNumbers DEF IInv, ObjectsInv
<1>8. /\ Chain(o)[0] = o
      /\ \A d \in 0..MaxDepth : Chain(o)[d] \in Objects \cup {Null}
  BY <1>7, ChainClimbs
<1>9. CASE e.depth = 0
  <2>1. h = o
    BY <1>4, <1>9 DEF Guarded
  <2>2. n + 1 \in 1..shapes[objects[o].shape].len /\ KeyAt(objects[o].shape, n + 1) = k
    BY <1>3, <1>4, <1>6, <1>9 DEF EntryOK
  <2>3. HasOwn(o, k) /\ OwnField(o, k).offset = n
    BY <1>3, <2>2, KeyDecidesField DEF IInv
  <2> QED
    BY <1>5, <1>6, <1>7, <1>8, <2>1, <2>3
<1>10. CASE e.depth # 0
  <2>1. PICK d \in 0..MaxDepth : d = e.depth
    BY <1>4 DEF EntryType
  <2>2. h = Chain(o)[d] /\ h # Null /\ objects[h].shape = e.holderShape
    BY <1>4, <1>10, <2>1 DEF Guarded
  <2>3. h \in Objects
    BY <1>8, <2>2
  <2>4. /\ ~Has(objects[o].shape, k)
        /\ n + 1 \in 1..shapes[objects[h].shape].len /\ KeyAt(objects[h].shape, n + 1) = k
    BY <1>3, <1>4, <1>6, <1>10, <2>2 DEF EntryOK
  <2>5. HasOwn(h, k) /\ OwnField(h, k).offset = n
    BY <2>3, <2>4, KeyDecidesField DEF IInv
  <2>6. ~HasOwn(o, k)
    BY <2>4, OwnIsFound DEF IInv
  <2> QED
    BY <1>5, <1>6, <2>2, <2>3, <2>5, <2>6
<1> QED
  BY <1>9, <1>10

LEMMA ReadsAreSound ==
  ASSUME IInv, MaxDepth <= 1
  PROVE  ReadsFindTheSlot
<1>1. SUFFICES ASSUME NEW o \in Objects, NEW k \in Keys
               PROVE  /\ Read(o, k).holder = Lookup(o, k).holder
                      /\ Read(o, k).offset = Lookup(o, k).offset
  BY DEF ReadsFindTheSlot
<1>2. CASE Answers(o, k) = {}
  BY <1>2 DEF Read
<1>3. CASE Answers(o, k) # {}
  <2>1. PICK r \in Answers(o, k) : Read(o, k) = r
    BY <1>3 DEF Read
  <2>2. PICK d \in 0..MaxDepth :
           /\ r.holder = Chain(o)[d]
           /\ r.holder \in Objects
           /\ HasOwn(r.holder, k)
           /\ r.offset = OwnField(r.holder, k).offset
           /\ d # 0 => ~HasOwn(o, k)
    BY AnswersAreSound DEF AnswersAreProperties
  <2>3. MaxDepth \in Nat /\ objects \in [Objects -> ObjectType]
    BY BoundsAreNumbers DEF IInv, ObjectsInv
  <2>4. d \in Holders(o, k)
    BY <2>2, NamesAreDistinct DEF Holders
  <2>5. PICK n : n = Nearest(Holders(o, k))
    OBVIOUS
  <2>6. /\ n \in 0..MaxDepth /\ n <= d
        /\ HasOwn(Chain(o)[n], k)
        /\ n = 0 => Chain(o)[n] = o
    BY <2>4, <2>5, NearestIsFound DEF IInv
  <2>7. n = d
    <3>1. d = 0 => n = d
      BY <2>3, <2>6
    <3>2. d # 0 => n # 0
      BY <2>2, <2>6
    <3> QED
      BY <2>3, <2>6, <3>1, <3>2
  <2>8. Lookup(o, k) = Found(r.holder, OwnField(r.holder, k).offset,
                             OwnField(r.holder, k).accessor)
    BY <2>2, <2>4, <2>5, <2>7 DEF Lookup
  <2>9. Lookup(o, k).holder = r.holder /\ Lookup(o, k).offset = OwnField(r.holder, k).offset
    BY <2>8 DEF Found
  <2> QED
    BY <2>1, <2>2, <2>9
<1> QED
  BY <1>2, <1>3

(* Objects and the shapes they share agree on where properties are, for any *)
(* number of objects, keys and shapes and whatever the program does to them *)
(* (object.go:extendFields, privatizeFields, SetOwn, DeleteOwnByKey).       *)
THEOREM ShapesStaySound == Spec => []ShapesAreSound
<1>1. IInv => ShapesAreSound
  BY LayoutsAreSound DEF IInv
<1> QED
  BY <1>1, InvHolds, PTL

(* The write fast path never stores into the slot of another property, with *)
(* sites of any size and prototype chains of any length: no entry for an    *)
(* inherited property is ever writable (op_setprop.go:491, cache.go:170).   *)
THEOREM FastWritesAreOwn == Spec => []WritesLandInOwnSlot
<1>1. IInv => WritesLandInOwnSlot
  BY WritesAreSound
<1> QED
  BY <1>1, InvHolds, PTL

(* Whatever the length of the chains, a read that the cache answers comes   *)
(* from the slot of that very key in an object of the receiver's chain, and *)
(* never passes over a property of the receiver (op_getprop.go:282).        *)
THEOREM CachedReadsAreProperties == Spec => []AnswersAreProperties
<1>1. IInv => AnswersAreProperties
  BY AnswersAreSound
<1> QED
  BY <1>1, InvHolds, PTL

(* With chains of one prototype a cached read finds the object and the slot *)
(* that a scan of the chain finds. The hypothesis is needed: from two       *)
(* prototypes on the one in between can get the key and nothing notices     *)
(* (op_getprop.go:351, the guard looks at the two ends).                    *)
THEOREM CachedReadsFindTheSlot ==
  ASSUME MaxDepth <= 1
  PROVE  Spec => []ReadsFindTheSlot
<1>1. IInv => ReadsFindTheSlot
  BY ReadsAreSound
<1> QED
  BY <1>1, InvHolds, PTL

-----------------------------------------------------------------------------
(* What is frozen stays so.                                                 *)

FieldsFound ==
    \A s \in DOMAIN shapes :
       /\ shapes[s].len \in Nat
       /\ Fields(s) = [i \in 1..shapes[s].len |-> CellAt(s, i)]

LEMMA FieldsAreFound == ShapesInv => FieldsFound
<1>1. SUFFICES ASSUME ShapesInv, NEW s \in DOMAIN shapes
               PROVE  /\ shapes[s].len \in Nat
                      /\ Fields(s) = [i \in 1..shapes[s].len |-> CellAt(s, i)]
  BY DEF FieldsFound
<1>2. PICK f : f = Fields(s)
  OBVIOUS
<1>3. /\ f \in Seq(FieldType) /\ DOMAIN f = 1..shapes[s].len
      /\ \A i \in 1..shapes[s].len : f[i] = CellAt(s, i)
      /\ shapes[s].len \in Nat
  BY <1>1, <1>2, FieldsAreCells DEF ShapeType
<1>4. f = [i \in DOMAIN f |-> f[i]]
  BY <1>3
<1>5. f = [i \in 1..shapes[s].len |-> CellAt(s, i)]
  BY <1>3, <1>4
<1> QED
  BY <1>2, <1>3, <1>5

LEMMA FieldsAreFoundNext == ShapesInv' => FieldsFound'
  BY FieldsAreFound, PTL

LEMMA OneStepKeepsFrozen ==
  ASSUME ShapesInv, ObjectsInv, NEW p \in Objects, SoundStep(p),
         NEW o \in Objects, Frozen(o)
  PROVE  Frozen(o)' /\ FieldsOf(o)' = FieldsOf(o)
<1>1. FieldsFound /\ FieldsFound'
  BY FieldsAreFound, FieldsAreFoundNext DEF SoundStep
<1>2. PICK s : s = objects[o].shape
  OBVIOUS
<1>3. s \in DOMAIN shapes
  BY <1>2 DEF ObjectsInv, ObjectOK
<1>4. FieldsOf(o) = [i \in 1..shapes[s].len |-> CellAt(s, i)] /\ shapes[s].len \in Nat
  BY <1>1, <1>2, <1>3 DEF FieldsFound, FieldsOf
<1>5. ~objects[o].extensible /\ \A i \in 1..shapes[s].len : FrozenCell(CellAt(s, i))
  BY <1>4 DEF Frozen, FrozenCell
<1>6. objects'[o].shape = s /\ ~objects'[o].extensible
  <2>1. CASE KeepsShapes(p)
    BY <2>1, <1>2, <1>5 DEF KeepsShapes
  <2>2. CASE GetsKey(p)
    <3>1. o # p
      BY <2>2, <1>5 DEF GetsKey
    <3> QED
      BY <2>2, <3>1, <1>2, <1>5 DEF GetsKey, Grows
  <2>3. CASE LosesKey(p)
    <3>1. o # p
      BY <2>3, <1>2, <1>5 DEF LosesKey, FrozenCell
    <3> QED
      BY <2>3, <3>1, <1>2, <1>5 DEF LosesKey, Shrinks
  <2> QED
    BY <2>1, <2>2, <2>3 DEF SoundStep
<1>7. s \in DOMAIN shapes' /\ shapes'[s].len = shapes[s].len
  BY <1>3 DEF SoundStep, KeysStay
<1>8. \A i \in 1..shapes[s].len : CellAt(s, i)' = CellAt(s, i)
  BY <1>3, <1>5 DEF SoundStep, FrozenCellsStay
<1>9. Fields(s)' = [i \in 1..shapes[s].len |-> CellAt(s, i)]
  <2>1. Fields(s)' = [i \in 1..shapes'[s].len |-> CellAt(s, i)']
    BY <1>1, <1>7 DEF FieldsFound
  <2> QED
    BY <2>1, <1>7, <1>8
<1>10. FieldsOf(o)' = FieldsOf(o)
  BY <1>4, <1>6, <1>9 DEF FieldsOf, Fields
<1> QED
  BY <1>6, <1>10 DEF Frozen

(* Freezing is forever: no operation on any object makes a frozen object    *)
(* extensible or changes a field of it, though shapes and backing arrays    *)
(* are shared and are overwritten in place (object.go:1321,                 *)
(* object.go:privatizeFields, object.go:extendFields).                      *)
THEOREM FrozenIsForever == Spec => FrozenStaysFrozen
<1>1. IInv /\ [Next]_vars => [\A o \in Objects : Frozen(o) => Frozen(o)' /\ FieldsOf(o)' = FieldsOf(o)]_vars
  <2>1. SUFFICES ASSUME IInv, [Next]_vars, NEW o \in Objects, Frozen(o)
                 PROVE  Frozen(o)' /\ FieldsOf(o)' = FieldsOf(o)
    OBVIOUS
  <2>2. CASE UNCHANGED layout
    BY <2>1, <2>2 DEF layout, Frozen, FieldsOf, Fields
  <2>3. CASE \E p \in Objects : SoundStep(p)
    BY <2>1, <2>3, OneStepKeepsFrozen DEF IInv
  <2> QED
    BY <2>1, <2>2, <2>3, StepsAreSound
<1> QED
  BY <1>1, InvHolds, PTL DEF Spec, FrozenStaysFrozen

-----------------------------------------------------------------------------
(* The refinement of OrdinaryObjects.                                       *)

KeysOf(o) == [i \in DOMAIN FieldsOf(o) |-> FieldsOf(o)[i].key]

KeysFound ==
    \A o \in Objects :
       /\ objects[o].shape \in DOMAIN shapes
       /\ shapes[objects[o].shape].len \in Nat
       /\ KeysOf(o) = [i \in 1..shapes[objects[o].shape].len |-> KeyAt(objects[o].shape, i)]

LEMMA KeysOfAreFound == ShapesInv /\ ObjectsInv => KeysFound
<1>1. SUFFICES ASSUME ShapesInv, ObjectsInv, NEW o \in Objects, NEW s, s = objects[o].shape
               PROVE  /\ s \in DOMAIN shapes
                      /\ shapes[s].len \in Nat
                      /\ KeysOf(o) = [i \in 1..shapes[s].len |-> KeyAt(s, i)]
  BY DEF KeysFound
<1>2. s \in DOMAIN shapes
  BY <1>1 DEF ObjectsInv, ObjectOK
<1>3. /\ shapes[s].len \in Nat
      /\ FieldsOf(o) = [i \in 1..shapes[s].len |-> CellAt(s, i)]
  BY <1>1, <1>2, FieldsAreFound DEF FieldsFound, FieldsOf
<1> QED
  BY <1>2, <1>3 DEF KeysOf, KeyAt

LEMMA KeysOfAreFoundNext == (ShapesInv /\ ObjectsInv)' => KeysFound'
  BY KeysOfAreFound, PTL

(* An object that keeps its shape keeps its keys.                           *)
LEMMA SameShapeSameKeys ==
  ASSUME KeysFound, KeysFound', KeysStay, NEW o \in Objects,
         objects'[o].shape = objects[o].shape
  PROVE  KeysOf(o)' = KeysOf(o)
<1>1. PICK s : s = objects[o].shape
  OBVIOUS
<1>2. KeysOf(o) = [i \in 1..shapes[s].len |-> KeyAt(s, i)] /\ s \in DOMAIN shapes
  BY <1>1 DEF KeysFound
<1>3. KeysOf(o)' = [i \in 1..shapes'[s].len |-> KeyAt(s, i)']
  BY <1>1 DEF KeysFound, KeyAt, CellAt
<1> QED
  BY <1>2, <1>3 DEF KeysStay

LEMMA ClosingRefines ==
  ASSUME KeysFound, KeysFound', KeysStay, NEW p \in Objects, KeepsShapes(p)
  PROVE  [Ordinary!Next]_(Ordinary!vars)
<1>1. \A o \in Objects : KeysOf(o)' = KeysOf(o)
  BY SameShapeSameKeys DEF KeepsShapes
<1>2. [o \in Objects |-> KeysOf(o)]' = [o \in Objects |-> KeysOf(o)]
  BY <1>1
<1>3. CASE objects'[p].extensible = objects[p].extensible
  <2>1. \A o \in Objects : objects'[o].extensible = objects[o].extensible
    BY <1>3 DEF KeepsShapes
  <2>2. [o \in Objects |-> objects[o].extensible]' = [o \in Objects |-> objects[o].extensible]
    BY <2>1
  <2> QED
    BY <1>2, <2>2 DEF Ordinary!vars, KeysOf
<1>4. CASE objects'[p].extensible = FALSE
  <2>1. [o \in Objects |-> objects[o].extensible]'
           = [[o \in Objects |-> objects[o].extensible] EXCEPT ![p] = FALSE]
    BY <1>4 DEF KeepsShapes
  <2>2. Ordinary!PreventExtensions(p)
    BY <1>2, <2>1 DEF Ordinary!PreventExtensions, KeysOf
  <2> QED
    BY <2>2 DEF Ordinary!Next
<1> QED
  BY <1>3, <1>4 DEF KeepsShapes

LEMMA GettingRefines ==
  ASSUME KeysFound, KeysFound', KeysStay, NEW p \in Objects, GetsKey(p)
  PROVE  Ordinary!Next
<1>1. PICK s, t, v : \E k \in Keys :
         /\ s = objects[p].shape
         /\ objects[p].extensible
         /\ LeadsTo(s, k, t)'
         /\ Grows(p, v, t)
  BY DEF GetsKey
<1>2. PICK k \in Keys :
         /\ s = objects[p].shape
         /\ objects[p].extensible
         /\ LeadsTo(s, k, t)'
         /\ Grows(p, v, t)
  BY <1>1
<1> DEFINE before == [o \in Objects |-> KeysOf(o)]
           open == [o \in Objects |-> objects[o].extensible]
<1>3. /\ objects'[p].shape = t
      /\ \A o \in Objects \ {p} : objects'[o] = objects[o]
      /\ objects'[p].extensible = objects[p].extensible
  BY <1>2 DEF Grows
<1>4. /\ s \in DOMAIN shapes /\ shapes[s].len \in Nat
      /\ KeysOf(p) = [i \in 1..shapes[s].len |-> KeyAt(s, i)]
  BY <1>2 DEF KeysFound
<1>5. KeysOf(p)' = [i \in 1..shapes'[t].len |-> KeyAt(t, i)']
  BY <1>3 DEF KeysFound, KeyAt, CellAt
<1>6. /\ shapes'[s].len = shapes[s].len
      /\ \A i \in 1..shapes[s].len : KeyAt(s, i)' = KeyAt(s, i)
  BY <1>4 DEF KeysStay
<1>7. /\ ~Has(s, k)'
      /\ shapes'[t].len = shapes[s].len + 1
      /\ KeyAt(t, shapes[t].len)' = k
      /\ \A i \in 1..shapes[s].len : KeyAt(t, i)' = KeyAt(s, i)'
  BY <1>2, <1>6 DEF LeadsTo
<1>8. PICK n : n = shapes[s].len + 1
  OBVIOUS
<1>9. KeyAt(t, n)' = k
  BY <1>7, <1>8 DEF KeyAt, CellAt
<1>10. KeysOf(p)' = Append(KeysOf(p), k)
  <2> DEFINE w == [i \in 1..shapes[s].len |-> KeyAt(s, i)]
             u == [i \in 1..n |-> KeyAt(t, i)']
  <2>1. n \in Nat /\ shapes[s].len \in Nat /\ n = shapes[s].len + 1
    BY <1>4, <1>8
  <2>2. Append(w, k) = [i \in 1..n |-> IF i = n THEN k ELSE w[i]]
    <3>1. PICK S : S = {KeyAt(s, i) : i \in 1..shapes[s].len} \cup {k}
      OBVIOUS
    <3>2. w \in Seq(S) /\ Len(w) = shapes[s].len /\ k \in S
      BY <1>4, <3>1
    <3> HIDE DEF w
    <3>3. PICK x : x = Append(w, k)
      OBVIOUS
    <3>4. /\ x \in Seq(S) /\ Len(x) = n /\ x[n] = k
          /\ \A i \in 1..shapes[s].len : x[i] = w[i]
      BY <3>2, <3>3, <2>1, AppendProperties
    <3>5. x = [i \in 1..n |-> x[i]]
      BY <3>4
    <3>6. \A i \in 1..n : x[i] = IF i = n THEN k ELSE w[i]
      BY <3>4, <2>1
    <3>7. x = [i \in 1..n |-> IF i = n THEN k ELSE w[i]]
      BY <3>5, <3>6
    <3> QED
      BY <3>3, <3>7
  <2>3. \A i \in 1..n : KeyAt(t, i)' = IF i = n THEN k ELSE w[i]
    BY <2>1, <1>6, <1>7, <1>9
  <2>4. u = [i \in 1..n |-> IF i = n THEN k ELSE w[i]]
    BY <2>3
  <2>5. KeysOf(p)' = u /\ KeysOf(p) = w
    BY <1>4, <1>5, <1>7, <1>8
  <2> QED
    BY <2>2, <2>4, <2>5
<1>11. \A o \in Objects \ {p} : KeysOf(o)' = KeysOf(o)
  BY <1>3, SameShapeSameKeys
<1>12. before' = [before EXCEPT ![p] = Append(before[p], k)]
  <2>1. \A o \in Objects :
           KeysOf(o)' = IF o = p THEN Append(KeysOf(p), k) ELSE KeysOf(o)
    BY <1>10, <1>11
  <2> QED
    BY <2>1
<1>13. open' = open /\ open[p]
  <2>1. \A o \in Objects : objects'[o].extensible = objects[o].extensible
    BY <1>3
  <2> QED
    BY <1>2, <2>1
<1>14. ~ \E i \in DOMAIN before[p] : before[p][i] = k
  <2>1. \A i \in 1..shapes[s].len : KeyAt(s, i) # k
    BY <1>6, <1>7 DEF Has
  <2> QED
    BY <2>1, <1>4
<1>15. Ordinary!Add(p, k)
  BY <1>12, <1>13, <1>14 DEF Ordinary!Add, Ordinary!Has, KeysOf
<1> QED
  BY <1>15 DEF Ordinary!Next

LEMMA LosingRefines ==
  ASSUME ShapesInv, KeysFound, KeysFound', KeysStay, NEW p \in Objects, LosesKey(p)
  PROVE  Ordinary!Next
<1>1. PICK s, t : \E i \in 1..shapes[s].len :
         s = objects[p].shape /\ Shorter(s, i, t)' /\ Shrinks(p, i, t)
  BY DEF LosesKey
<1>2. PICK i \in 1..shapes[s].len :
         s = objects[p].shape /\ Shorter(s, i, t)' /\ Shrinks(p, i, t)
  BY <1>1
<1> DEFINE before == [o \in Objects |-> KeysOf(o)]
           open == [o \in Objects |-> objects[o].extensible]
<1>3. /\ objects'[p].shape = t
      /\ \A o \in Objects \ {p} : objects'[o] = objects[o]
      /\ objects'[p].extensible = objects[p].extensible
  BY <1>2 DEF Shrinks
<1>4. /\ s \in DOMAIN shapes /\ shapes[s].len \in Nat
      /\ KeysOf(p) = [j \in 1..shapes[s].len |-> KeyAt(s, j)]
  BY <1>2 DEF KeysFound
<1>5. KeysOf(p)' = [j \in 1..shapes'[t].len |-> KeyAt(t, j)'] /\ shapes'[t].len \in Nat
  BY <1>3 DEF KeysFound, KeyAt, CellAt
<1>6. /\ shapes'[s].len = shapes[s].len
      /\ \A j \in 1..shapes[s].len : KeyAt(s, j)' = KeyAt(s, j)
  BY <1>4 DEF KeysStay
<1>7. /\ shapes'[t].len + 1 = shapes[s].len
      /\ \A j \in 1..shapes'[t].len :
            KeyAt(t, j)' = IF j < i THEN KeyAt(s, j)' ELSE KeyAt(s, j + 1)'
  BY <1>2, <1>6 DEF Shorter
<1>8. KeysOf(p)' = [j \in 1..(Len(KeysOf(p)) - 1) |->
                      IF j < i THEN KeysOf(p)[j] ELSE KeysOf(p)[j + 1]]
  <2>1. PICK n \in Nat : n = shapes'[t].len /\ n + 1 = shapes[s].len
    BY <1>5, <1>7
  <2>2. Len(KeysOf(p)) = n + 1
    BY <1>4, <2>1
  <2>3. \A j \in 1..n : KeyAt(t, j)' = IF j < i THEN KeysOf(p)[j] ELSE KeysOf(p)[j + 1]
    <3>1. SUFFICES ASSUME NEW j \in 1..n
                   PROVE  KeyAt(t, j)' = IF j < i THEN KeysOf(p)[j] ELSE KeysOf(p)[j + 1]
      OBVIOUS
    <3>2. PICK m : m = j + 1
      OBVIOUS
    <3>3. j \in 1..shapes[s].len /\ m \in 1..shapes[s].len
      BY <2>1, <3>2
    <3>4. KeysOf(p)[j] = KeyAt(s, j)' /\ KeysOf(p)[m] = KeyAt(s, m)'
      BY <1>4, <1>6, <3>3
    <3>5. KeyAt(t, j)' = IF j < i THEN KeyAt(s, j)' ELSE KeyAt(s, j + 1)'
      BY <1>7, <2>1
    <3>6. KeyAt(s, j + 1)' = KeyAt(s, m)'
      BY <3>2 DEF KeyAt, CellAt
    <3> QED
      BY <3>2, <3>4, <3>5, <3>6
  <2>4. (n + 1) - 1 = n
    OBVIOUS
  <2> QED
    BY <1>5, <2>1, <2>2, <2>3, <2>4
<1>9. \A o \in Objects \ {p} : KeysOf(o)' = KeysOf(o)
  BY <1>3, SameShapeSameKeys
<1> DEFINE left == [j \in 1..(Len(before[p]) - 1) |->
                      IF j < i THEN before[p][j] ELSE before[p][j + 1]]
<1>10. before' = [before EXCEPT ![p] = left]
  <2>1. before[p] = KeysOf(p)
    OBVIOUS
  <2>2. KeysOf(p)' = left
    BY <1>8, <2>1
  <2> HIDE DEF left
  <2>3. \A o \in Objects : KeysOf(o)' = IF o = p THEN left ELSE KeysOf(o)
    BY <1>9, <2>2
  <2> QED
    BY <2>3
<1>11. open' = open
  <2>1. \A o \in Objects : objects'[o].extensible = objects[o].extensible
    BY <1>3
  <2> QED
    BY <2>1
<1>12. i \in DOMAIN before[p]
  BY <1>4
<1>13. PICK k \in Keys : k = before[p][i]
  <2>1. CellAt(s, i) \in FieldType
    BY <1>4, FieldsAreCells
  <2> QED
    BY <2>1, <1>4 DEF FieldType, KeyAt
<1>14. Ordinary!Remove(p, k)
  BY <1>10, <1>11, <1>12, <1>13 DEF Ordinary!Remove, KeysOf
<1> QED
  BY <1>14 DEF Ordinary!Next

(* Every object has its own list of keys: the machinery of shared shapes,   *)
(* transitions and shared arrays implements OrdinaryObjects, one operation  *)
(* on one object at a time (object.go:SetOwn, DefineOwnProperty,            *)
(* DefineAccessorProperty, DeleteOwnByKey, FreezeAllProperties).            *)
THEOREM LayoutsImplementObjects == Spec => KeepsKeys
<1>1. CacheInit => Ordinary!Init
  <2>1. SUFFICES ASSUME CacheInit PROVE Ordinary!Init
    OBVIOUS
  <2>2. IInv /\ KeysFound
    BY <2>1, InitInv, KeysOfAreFound DEF IInv
  <2>3. \A o \in Objects : objects[o].shape = 1 /\ objects[o].extensible = TRUE
    BY <2>1 DEF CacheInit, Init, RootShape
  <2>4. shapes[1].len = 0
    BY <2>1 DEF CacheInit, Init
  <2>5. \A o \in Objects : KeysOf(o) = <<>>
    BY <2>2, <2>3, <2>4 DEF KeysFound
  <2> QED
    BY <2>3, <2>5 DEF Ordinary!Init, KeysOf
<1>2. IInv /\ [Next]_vars => [Ordinary!Next]_(Ordinary!vars)
  <2>1. SUFFICES ASSUME IInv, [Next]_vars PROVE [Ordinary!Next]_(Ordinary!vars)
    OBVIOUS
  <2>2. CASE UNCHANGED layout
    BY <2>2 DEF layout, Ordinary!vars, FieldsOf, Fields
  <2>3. ASSUME NEW p \in Objects, SoundStep(p)
        PROVE  [Ordinary!Next]_(Ordinary!vars)
    <3>1. KeysFound /\ KeysFound' /\ KeysStay
      BY <2>1, <2>3, KeysOfAreFound, KeysOfAreFoundNext DEF IInv, SoundStep
    <3>2. CASE KeepsShapes(p)
      BY <3>1, <3>2, ClosingRefines
    <3>3. CASE GetsKey(p)
      BY <3>1, <3>3, GettingRefines
    <3>4. CASE LosesKey(p)
      BY <2>1, <3>1, <3>4, LosingRefines DEF IInv
    <3> QED
      BY <2>3, <3>2, <3>3, <3>4 DEF SoundStep
  <2> QED
    BY <2>1, <2>2, <2>3, StepsAreSound
<1> QED
  BY <1>1, <1>2, InvHolds, PTL DEF Spec, KeepsKeys, Ordinary!Spec

(* The types of layouts and entries: fields fit the capacity of their       *)
(* array, transitions lead to shapes there are, and a site has no more      *)
(* entries than it has room for (object.go:89, cache.go:155).               *)
THEOREM CacheTypes == Spec => []TypeOK
<1>1. IInv => TypeOK
  <2>1. SUFFICES ASSUME IInv PROVE TypeOK
    OBVIOUS
  <2>2. arrays \in Seq(ArrayType) /\ shapes \in Seq(ShapeType)
    BY <2>1 DEF IInv, ShapesInv, ShapesType
  <2>3. \A a \in DOMAIN arrays :
           /\ \A i \in DOMAIN arrays[a].cells : arrays[a].cells[i] \in FieldType
           /\ Len(arrays[a].cells) <= arrays[a].cap
    <3>1. \A a \in DOMAIN arrays : arrays[a] \in ArrayType
      BY <2>2
    <3>2. \A a \in DOMAIN arrays : Len(arrays[a].cells) <= arrays[a].cap
      BY <2>1 DEF IInv, ShapesInv, FieldsFit
    <3>3. ASSUME NEW a \in DOMAIN arrays, NEW i \in DOMAIN arrays[a].cells
          PROVE  arrays[a].cells[i] \in FieldType
      <4>1. arrays[a].cells \in Seq(FieldType)
        BY <3>1 DEF ArrayType
      <4> QED
        BY <4>1
    <3> QED
      BY <3>2, <3>3
  <2>4. ASSUME NEW s \in DOMAIN shapes
        PROVE  shapes[s] \in [array : DOMAIN arrays, len : Nat,
                              next : [Keys -> {None} \cup DOMAIN shapes], version : Nat,
                              childExtended : BOOLEAN, owned : BOOLEAN]
    <3>1. /\ shapes[s].array \in DOMAIN arrays
          /\ \A k \in Keys : shapes[s].next[k] \in {None} \cup DOMAIN shapes
      BY <2>1 DEF IInv, ShapesInv, ShapesType
    <3>2. shapes[s] \in ShapeType
      BY <2>2
    <3>3. shapes[s].next \in [Keys -> {None} \cup DOMAIN shapes]
      BY <3>1, <3>2 DEF ShapeType
    <3> QED
      BY <3>1, <3>2, <3>3 DEF ShapeType
  <2>5. ASSUME NEW o \in Objects
        PROVE  /\ objects[o].shape \in DOMAIN shapes
               /\ \A i \in DOMAIN objects[o].slots : objects[o].slots[i] \in Keys \cup {Hole}
               /\ objects[o].prototype \in Objects \cup {Null}
               /\ objects[o].extensible \in BOOLEAN /\ objects[o].getters \in BOOLEAN
    <3>1. objects[o] \in ObjectType /\ objects[o].shape \in DOMAIN shapes
      BY <2>1 DEF IInv, ObjectsInv, ObjectOK
    <3>2. objects[o].slots \in Seq(Keys \cup {Hole})
      BY <3>1 DEF ObjectType
    <3>3. \A i \in DOMAIN objects[o].slots : objects[o].slots[i] \in Keys \cup {Hole}
      BY <3>2
    <3> QED
      BY <3>1, <3>3 DEF ObjectType
  <2>6. /\ \A e \in site.entries : e.shape \in DOMAIN shapes /\ e.holderShape \in DOMAIN shapes
        /\ Cardinality(site.entries) <= MaxEntries
    BY <2>1 DEF IInv, SiteInv, EntryOK
  <2> QED
    BY <2>3, <2>4, <2>5, <2>6 DEF TypeOK
<1> QED
  BY <1>1, InvHolds, PTL
=============================================================================
