------------------------------- MODULE Shapes -------------------------------
(* The layout of plain objects, pkg/vm/object.go.                           *)
(*                                                                          *)
(* An object has a shape, which says at which offset each of its properties *)
(* is and with which attributes, and a slice of slots. Objects that got the *)
(* same keys in the same order share a shape: a shape remembers, for every  *)
(* key that was added to it by an assignment, the shape that resulted. A    *)
(* shape's fields are a prefix of a backing array, and the first shape that *)
(* extends another writes into the array of the other one.                  *)
(*                                                                          *)
(* What a slot holds is abstracted to the key it was stored under, so that  *)
(* a slot that is found under the wrong key shows. Left out: enumerable     *)
(* (nothing here depends on it), symbol keys and SetOwnNonEnumerable, whose *)
(* shapes are linked from a second table in the same way.                   *)
EXTENDS Integers, Sequences, FiniteSets

CONSTANTS
    Objects,     \* the plain objects
    Keys,        \* the property names
    Null,        \* the prototype of an object that has none
    Hole,        \* what is in a slot that no value was stored in
    Descriptors, \* what Object.defineProperty is called with
    MaxShapes,   \* bound: shapes ever created
    MaxDepth     \* bound: length of a prototype chain

ASSUME NamesAreDistinct == Null \notin Objects /\ Hole \notin Keys
ASSUME DescriptorsHaveAttributes ==
    Descriptors \subseteq [accessor : BOOLEAN, writable : BOOLEAN, configurable : BOOLEAN]
ASSUME BoundsAreNumbers ==
    /\ MaxShapes \in Nat
    /\ MaxDepth \in 0..9      \* the code's walks give up at depth 10

VARIABLES
    arrays,   \* backing arrays of fields: their cells and their capacity
    shapes,   \* the Shapes: which prefix of which array, and the transitions
    objects   \* the PlainObjects

layout == <<arrays, shapes, objects>>

None == 0         \* no transition
RootShape == 1

Field(key, offset, writable, configurable, accessor) ==
    [key |-> key, offset |-> offset, writable |-> writable,
     configurable |-> configurable, accessor |-> accessor]

Init ==
    /\ arrays = <<[cells |-> <<>>, cap |-> 0]>>
    /\ shapes = <<[array |-> 1, len |-> 0, next |-> [k \in Keys |-> None],
                   version |-> 0, childExtended |-> FALSE, owned |-> TRUE]>>
    /\ objects = [o \in Objects |->
                    [shape |-> RootShape, slots |-> <<>>, prototype |-> Null,
                     extensible |-> TRUE, getters |-> FALSE]]

-----------------------------------------------------------------------------
(* Reading a layout.                                                       *)

(* A shape's fields: the prefix of its array.                              *)
Fields(s) == SubSeq(arrays[shapes[s].array].cells, 1, shapes[s].len)

FieldsOf(o) == Fields(objects[o].shape)

HasField(fields, k) == \E i \in DOMAIN fields : fields[i].key = k

(* The first field under a key: every scan of the code stops there.        *)
IndexOf(fields, k) ==
    CHOOSE i \in DOMAIN fields :
       /\ fields[i].key = k
       /\ \A j \in 1..(i - 1) : fields[j].key # k

HasOwn(o, k) == HasField(FieldsOf(o), k)
OwnField(o, k) == FieldsOf(o)[IndexOf(FieldsOf(o), k)]

(* The chain of o: itself at depth 0, then its prototypes, then Null.      *)
Chain(o) ==
    LET up[d \in 0..(MaxDepth + 1)] ==
            IF d = 0 THEN o
            ELSE IF up[d - 1] = Null THEN Null ELSE objects[up[d - 1]].prototype
    IN  up

-----------------------------------------------------------------------------
(* The three ways to change a shape.                                       *)

(* A write into a slice: the array keeps what lies beyond.                 *)
WriteCell(cells, i, field) ==
    [j \in 1..(IF i > Len(cells) THEN i ELSE Len(cells)) |->
        IF j = i THEN field ELSE cells[j]]

(* The capacity of a fresh array, with room to extend it in place.         *)
FreshCap(n) == IF n < 8 THEN 8 ELSE IF n < 32 THEN 2 * n ELSE n + n \div 2

(* extendFields writes into the array of s if nobody has extended s and    *)
(* there is room behind its fields.                                        *)
SharesBacking(s) ==
    ~shapes[s].childExtended /\ arrays[shapes[s].array].cap > shapes[s].len

RoomForShape == Len(shapes) < MaxShapes

(* extendFields and the child shape made of it; link says whether the      *)
(* child is remembered under its key.                                      *)
Extend(s, field, link) ==
    LET shared == SharesBacking(s)
        n == shapes[s].len + 1
        a == IF shared THEN shapes[s].array ELSE Len(arrays) + 1
        child == [array |-> a, len |-> n, next |-> [k \in Keys |-> None],
                  version |-> shapes[s].version + 1,
                  childExtended |-> FALSE, owned |-> ~shared]
        parent == [shapes[s] EXCEPT
                      !.childExtended = @ \/ shared,
                      !.next[field.key] = IF link THEN Len(shapes) + 1 ELSE @]
    IN  /\ RoomForShape
        /\ arrays' = IF shared
                     THEN [arrays EXCEPT ![a].cells = WriteCell(@, n, field)]
                     ELSE Append(arrays, [cells |-> Append(Fields(s), field),
                                          cap |-> FreshCap(n)])
        /\ shapes' = Append([shapes EXCEPT ![s] = parent], child)

(* privatizeFields, then the fields of s are overwritten in place and its  *)
(* version goes up.                                                        *)
Overwrite(s, fields) ==
    LET private == [shapes[s] EXCEPT !.version = @ + 1, !.array = Len(arrays) + 1,
                                     !.owned = TRUE, !.childExtended = FALSE]
    IN
    IF shapes[s].owned
    THEN /\ arrays' = [arrays EXCEPT ![shapes[s].array].cells =
                          [j \in DOMAIN @ |-> IF j <= shapes[s].len THEN fields[j] ELSE @[j]]]
         /\ shapes' = [shapes EXCEPT ![s].version = @ + 1]
    ELSE /\ arrays' = Append(arrays, [cells |-> fields, cap |-> shapes[s].len])
         /\ shapes' = [shapes EXCEPT ![s] = private]

(* DeleteOwnByKey: the fields but the i-th, later slots moved down.        *)
Without(fields, i) ==
    LET gone == fields[i].offset IN
    [j \in 1..(Len(fields) - 1) |->
        LET f == IF j < i THEN fields[j] ELSE fields[j + 1]
        IN  IF f.offset > gone THEN [f EXCEPT !.offset = @ - 1] ELSE f]

WithoutSlot(slots, offset) ==
    SubSeq(slots, 1, offset) \o SubSeq(slots, offset + 2, Len(slots))

(* Mutant: the transitions are kept.                                       *)
ShapeWithoutOldTransitions(s, array) ==
    [shapes[s] EXCEPT !.array = array, !.len = @ - 1, !.version = @ + 1,
                      !.childExtended = FALSE, !.owned = TRUE]

(* The shape after a deletion: an array of its own, no transitions.        *)
ShapeWithout(s, array) ==
    [array |-> array, len |-> shapes[s].len - 1, next |-> [k \in Keys |-> None],
     version |-> shapes[s].version + 1, childExtended |-> FALSE, owned |-> TRUE]

-----------------------------------------------------------------------------
(* The operations of a PlainObject.                                        *)

Store(o, offset, v) == objects' = [objects EXCEPT ![o].slots[offset + 1] = v]

Grow(o, s, v) ==
    LET grown == [objects[o] EXCEPT !.shape = s, !.slots = Append(@, v)]
    IN  objects' = [objects EXCEPT ![o] = grown]

(* SetOwn: by a known transition without a look at the fields, else into   *)
(* the field there is, else into a new shape.                              *)
SetOwn(o, k) ==
    LET s == objects[o].shape IN
    IF shapes[s].next[k] # None
    THEN Grow(o, shapes[s].next[k], k) /\ UNCHANGED <<arrays, shapes>>
    ELSE IF HasOwn(o, k)
    THEN /\ IF OwnField(o, k).writable
            THEN Store(o, OwnField(o, k).offset, k)
            ELSE UNCHANGED objects
         /\ UNCHANGED <<arrays, shapes>>
    ELSE /\ Extend(s, Field(k, shapes[s].len, TRUE, TRUE, FALSE), TRUE)
         /\ Grow(o, Len(shapes) + 1, k)

(* Mutant: a read-only property can become writable.                       *)
RedefinableAsWritable(f, writable, configurable) ==
    f.configurable \/ (~f.accessor /\ ~configurable)

(* A property that is not configurable can only become read-only.          *)
Redefinable(f, writable, configurable) ==
    f.configurable \/ (~f.accessor /\ ~configurable /\ (writable => f.writable))

(* DefineOwnProperty with a value, as Object.defineProperty calls it with  *)
(* the attributes the descriptor leaves out filled in; a call that it      *)
(* rejects changes nothing.                                                *)
DefineOwnProperty(o, k, writable, configurable) ==
    LET s == objects[o].shape
        f == OwnField(o, k)
        i == IndexOf(FieldsOf(o), k)
    IN  IF HasOwn(o, k)
        THEN /\ Redefinable(f, writable, configurable)
             /\ IF f.configurable \/ f.writable
                THEN Store(o, f.offset, k)
                ELSE UNCHANGED objects
             /\ Overwrite(s, [FieldsOf(o) EXCEPT
                                 ![i] = Field(k, f.offset, writable, configurable, FALSE)])
        ELSE /\ objects[o].extensible
             /\ Extend(s, Field(k, shapes[s].len, writable, configurable, FALSE), FALSE)
             /\ Grow(o, Len(shapes) + 1, k)

(* DefineAccessorProperty: writable is kept, the value stays in its slot.  *)
DefineAccessorProperty(o, k, configurable) ==
    LET s == objects[o].shape
        f == OwnField(o, k)
        i == IndexOf(FieldsOf(o), k)
        grown == [objects[o] EXCEPT !.shape = Len(shapes) + 1,
                                    !.slots = Append(@, Hole), !.getters = TRUE]
    IN  IF HasOwn(o, k)
        THEN /\ f.configurable
             /\ objects' = [objects EXCEPT ![o].getters = TRUE]
             /\ Overwrite(s, [FieldsOf(o) EXCEPT
                                 ![i] = [f EXCEPT !.accessor = TRUE,
                                                  !.configurable = configurable]])
        ELSE /\ objects[o].extensible
             /\ Extend(s, Field(k, shapes[s].len, FALSE, configurable, TRUE), FALSE)
             /\ objects' = [objects EXCEPT ![o] = grown]

DefineProperty(o, k, d) ==
    IF d.accessor
    THEN DefineAccessorProperty(o, k, d.configurable)
    ELSE DefineOwnProperty(o, k, d.writable, d.configurable)

DeleteOwn(o, k) ==
    LET f == OwnField(o, k)
        i == IndexOf(FieldsOf(o), k)
        s == objects[o].shape
        shrunk == [objects[o] EXCEPT !.shape = Len(shapes) + 1,
                                     !.slots = WithoutSlot(@, f.offset)]
    IN  /\ HasOwn(o, k)
        /\ f.configurable
        /\ RoomForShape
        /\ arrays' = Append(arrays, [cells |-> Without(FieldsOf(o), i),
                                     cap |-> shapes[s].len - 1])
        /\ shapes' = Append(shapes, ShapeWithout(s, Len(arrays) + 1))
        /\ objects' = [objects EXCEPT ![o] = shrunk]

PreventExtensions(o) ==
    /\ objects' = [objects EXCEPT ![o].extensible = FALSE]
    /\ UNCHANGED <<arrays, shapes>>

(* Object.freeze: not extensible, then FreezeAllProperties.                *)
Freeze(o) ==
    /\ objects' = [objects EXCEPT ![o].extensible = FALSE]
    /\ Overwrite(objects[o].shape,
                 [i \in DOMAIN FieldsOf(o) |->
                    [FieldsOf(o)[i] EXCEPT
                        !.configurable = FALSE,
                        !.writable = @ /\ FieldsOf(o)[i].accessor]])

(* Object.seal: not extensible, then SealAllProperties.                    *)
Seal(o) ==
    /\ objects' = [objects EXCEPT ![o].extensible = FALSE]
    /\ Overwrite(objects[o].shape,
                 [i \in DOMAIN FieldsOf(o) |->
                    [FieldsOf(o)[i] EXCEPT !.configurable = FALSE]])

(* SetPrototype: refused on a closed object and when it makes a cycle.     *)
SetPrototype(o, p) ==
    /\ objects[o].prototype # p
    /\ objects[o].extensible
    /\ p # Null => \A d \in 0..MaxDepth : Chain(p)[d] # o
    /\ objects' = [objects EXCEPT ![o].prototype = p]
    /\ \A q \in Objects : (Chain(q)[MaxDepth + 1])' = Null
    /\ UNCHANGED <<arrays, shapes>>

(* OpDefineDataProperty, the properties of an object literal.              *)
DefineDataProperty(o, k) ==
    /\ objects[o].extensible
    /\ IF HasOwn(o, k) /\ OwnField(o, k).accessor
       THEN DefineOwnProperty(o, k, TRUE, TRUE)
       ELSE SetOwn(o, k)

(* What a program does to the layout other than by an assignment.          *)
Reshape(o) ==
    \/ \E k \in Keys, d \in Descriptors : DefineProperty(o, k, d)
    \/ \E k \in Keys : DefineDataProperty(o, k)
    \/ \E k \in Keys : DeleteOwn(o, k)
    \/ \E p \in Objects \cup {Null} : SetPrototype(o, p)
    \/ PreventExtensions(o)
    \/ Freeze(o)
    \/ Seal(o)
=============================================================================
