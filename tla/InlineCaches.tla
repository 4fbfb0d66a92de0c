---------------------------- MODULE InlineCaches ----------------------------
(* Property reads and writes through an inline cache, pkg/vm/cache.go with   *)
(* opGetProp and opSetProp, over the layouts of Shapes. One access site is   *)
(* modelled: sites share nothing. It is used for reads and for writes and    *)
(* with any key, as the sites of computed accesses are, which is more than   *)
(* most sites see.                                                           *)
(*                                                                           *)
(* A getter or a setter that runs is a program step of its own; the order of *)
(* the entries, which a hit changes, decides nothing.                        *)
EXTENDS Shapes

CONSTANTS
    MaxEntries,   \* entries of a site, 4 in the code
    MaxReshapes   \* bound: steps that change a layout other than by an assignment

ASSUME SeveralEntries == MaxEntries \in Nat /\ MaxEntries >= 2 /\ MaxReshapes \in Nat

VARIABLES
    site,      \* the PropInlineCache: its entries, and whether it is megamorphic
    reshapes   \* how many such steps there were

vars == <<layout, site, reshapes>>

NotFound == [holder |-> Null, offset |-> 0, accessor |-> FALSE]

Found(holder, offset, accessor) ==
    [holder |-> holder, offset |-> offset, accessor |-> accessor]

-----------------------------------------------------------------------------
(* The cache.                                                              *)

(* lookupEntry: the entry for the object's shape at its version.           *)
Hit(o, k) ==
    {e \in site.entries :
        e.shape = objects[o].shape /\ e.version = shapes[e.shape].version /\ e.key = k}

SameGuard(s, k) == {e \in site.entries : e.shape = s /\ e.key = k}

(* What updateCache and updateCacheProto do with an entry for a new pair   *)
(* of shape and key: too many make the site megamorphic for good.          *)
AddEntry(e) ==
    IF site.mega THEN site
    ELSE IF Cardinality(site.entries) < MaxEntries
    THEN [site EXCEPT !.entries = @ \cup {e}]
    ELSE [mega |-> TRUE, entries |-> {}]

ReplaceEntry(old, e) == [site EXCEPT !.entries = (@ \ {old}) \cup {e}]

(* updateCache, in the layout after the step: an entry for the pair keeps  *)
(* all but its offset, version and flags.                                  *)
UpdateCache(s, k, version, f) ==
    site' = IF SameGuard(s, k) # {}
            THEN LET old == CHOOSE e \in SameGuard(s, k) : TRUE
                 IN  ReplaceEntry(old, [old EXCEPT !.version = version, !.offset = f.offset,
                                                   !.accessor = f.accessor,
                                                   !.writable = f.writable])
            ELSE AddEntry([shape |-> s, version |-> version, key |-> k,
                           offset |-> f.offset, accessor |-> f.accessor,
                           writable |-> f.writable, depth |-> 0,
                           holderShape |-> RootShape, holderVersion |-> 0])

(* Mutant: the flags of the inherited property are kept.                   *)
UpdateCacheProtoWritable(s, k, holderShape, f, depth) ==
    LET new == [shape |-> s, version |-> shapes[s].version, key |-> k,
                offset |-> f.offset, accessor |-> f.accessor,
                writable |-> f.writable, depth |-> depth,
                holderShape |-> holderShape,
                holderVersion |-> shapes[holderShape].version]
    IN  site' = IF SameGuard(s, k) # {}
                THEN ReplaceEntry(CHOOSE e \in SameGuard(s, k) : TRUE, new)
                ELSE AddEntry(new)

(* updateCacheProto.                                                       *)
UpdateCacheProto(s, k, holderShape, f, depth) ==
    LET new == [shape |-> s, version |-> shapes[s].version, key |-> k,
                offset |-> f.offset, accessor |-> f.accessor,
                writable |-> FALSE, depth |-> depth,
                holderShape |-> holderShape,
                holderVersion |-> shapes[holderShape].version]
    IN  site' = IF SameGuard(s, k) # {}
                THEN ReplaceEntry(CHOOSE e \in SameGuard(s, k) : TRUE, new)
                ELSE AddEntry(new)

-----------------------------------------------------------------------------
(* Reads.                                                                  *)

Holders(o, k) ==
    {d \in 0..MaxDepth : Chain(o)[d] # Null /\ HasOwn(Chain(o)[d], k)}

Nearest(depths) == CHOOSE d \in depths : \A e \in depths : d <= e

(* resolvePropertyMeta: the property that a scan of the chain finds.       *)
Lookup(o, k) ==
    IF Holders(o, k) = {} THEN NotFound
    ELSE LET holder == Chain(o)[Nearest(Holders(o, k))]
             f == OwnField(holder, k)
         IN  Found(holder, f.offset, f.accessor)

(* Mutant: the holder's shape is not looked at again.                      *)
GuardedByShape(o, e) ==
    IF e.depth = 0 THEN {o}
    ELSE IF Chain(o)[e.depth] # Null THEN {Chain(o)[e.depth]} ELSE {}

(* The object that an entry points to from o, if its guards hold: an own   *)
(* entry has none but its hit, an inherited one looks at the holder again. *)
Guarded(o, e) ==
    LET holder == Chain(o)[e.depth] IN
    IF e.depth = 0 THEN {o}
    ELSE IF /\ holder # Null
            /\ objects[holder].shape = e.holderShape
            /\ shapes[e.holderShape].version = e.holderVersion
    THEN {holder}
    ELSE {}

FastReads(o, k) ==
    {Found(h, e.offset, e.accessor) :
        h \in UNION {Guarded(o, e) : e \in Hit(o, k)}, e \in Hit(o, k)}

Answers(o, k) ==
    {r \in FastReads(o, k) : r.accessor \/ r.offset < Len(objects[r.holder].slots)}

(* What opGetProp finds: by the cache, or else by the chain.               *)
Read(o, k) ==
    IF Answers(o, k) # {} THEN CHOOSE r \in Answers(o, k) : TRUE ELSE Lookup(o, k)

(* opGetProp: a hit leaves the cache alone, a miss enters what it found.   *)
GetProp(o, k) ==
    /\ UNCHANGED <<layout, reshapes>>
    /\ IF Answers(o, k) # {} \/ Holders(o, k) = {}
       THEN UNCHANGED site
       ELSE LET d == Nearest(Holders(o, k))
                holder == Chain(o)[d]
                s == objects[o].shape
            IN  IF d = 0
                THEN UpdateCache(s, k, shapes[s].version, OwnField(o, k))
                ELSE UpdateCacheProto(s, k, objects[holder].shape, OwnField(holder, k), d)

-----------------------------------------------------------------------------
(* Writes.                                                                 *)

(* The slot that opSetProp writes without a look at the fields.            *)
FastWrites(o, k) ==
    {e \in Hit(o, k) : ~e.accessor /\ e.writable /\ e.offset < Len(objects[o].slots)}

OwnDataProperty(o, k) == HasOwn(o, k) /\ ~OwnField(o, k).accessor

(* GetOwnAccessor: an object has one only if it ever defined any.          *)
OwnAccessor(o, k) == objects[o].getters /\ HasOwn(o, k) /\ OwnField(o, k).accessor

(* An accessor of the chain takes the assignment, or refuses it.           *)
AccessorTakes(o, k) ==
    /\ ~OwnDataProperty(o, k)
    /\ \E d \in 0..MaxDepth : Chain(o)[d] # Null /\ OwnAccessor(Chain(o)[d], k)

(* Mutant: a closed object takes new properties.                           *)
RefusedIfReadOnly(o, k) ==
    IF HasOwn(o, k) THEN ~OwnField(o, k).writable
    ELSE \E d \in 1..MaxDepth :
            /\ Chain(o)[d] # Null
            /\ OwnDataProperty(Chain(o)[d], k)
            /\ ~OwnField(Chain(o)[d], k).writable

(* A read-only property refuses it, the object's own or an inherited one;  *)
(* and so does an object that takes no new properties.                     *)
Refused(o, k) ==
    IF HasOwn(o, k) THEN ~OwnField(o, k).writable
    ELSE \/ \E d \in 1..MaxDepth :
              /\ Chain(o)[d] # Null
              /\ OwnDataProperty(Chain(o)[d], k)
              /\ ~OwnField(Chain(o)[d], k).writable
         \/ ~objects[o].extensible

(* opSetProp: the fast path; the checks; SetOwn, and the entry for it.     *)
SetProp(o, k) ==
    /\ UNCHANGED reshapes
    /\ IF FastWrites(o, k) # {}
       THEN /\ Store(o, (CHOOSE e \in FastWrites(o, k) : TRUE).offset, k)
            /\ UNCHANGED <<arrays, shapes, site>>
       ELSE IF AccessorTakes(o, k) \/ Refused(o, k)
       THEN UNCHANGED <<layout, site>>
       ELSE /\ SetOwn(o, k)
            /\ UpdateCache(objects'[o].shape, k, shapes'[objects'[o].shape].version,
                           OwnField(o, k)')

-----------------------------------------------------------------------------
CacheInit == Init /\ site = [entries |-> {}, mega |-> FALSE] /\ reshapes = 0

Next ==
    \E o \in Objects :
       \/ /\ reshapes < MaxReshapes
          /\ Reshape(o)
          /\ reshapes' = reshapes + 1
          /\ UNCHANGED site
       \/ \E k \in Keys : GetProp(o, k) \/ SetProp(o, k)

Spec == CacheInit /\ [][Next]_vars

-----------------------------------------------------------------------------
(* Properties.                                                             *)

FieldType ==
    [key : Keys, offset : Nat, writable : BOOLEAN, configurable : BOOLEAN, accessor : BOOLEAN]

(* Types; a shape's fields fit the capacity of its array.                  *)
TypeOK ==
    /\ \A a \in DOMAIN arrays :
          /\ \A i \in DOMAIN arrays[a].cells : arrays[a].cells[i] \in FieldType
          /\ Len(arrays[a].cells) <= arrays[a].cap
    /\ \A s \in DOMAIN shapes :
          shapes[s] \in [array : DOMAIN arrays, len : Nat,
                         next : [Keys -> {None} \cup DOMAIN shapes], version : Nat,
                         childExtended : BOOLEAN, owned : BOOLEAN]
    /\ \A o \in Objects :
          /\ objects[o].shape \in DOMAIN shapes
          /\ \A i \in DOMAIN objects[o].slots : objects[o].slots[i] \in Keys \cup {Hole}
          /\ objects[o].prototype \in Objects \cup {Null}
          /\ objects[o].extensible \in BOOLEAN /\ objects[o].getters \in BOOLEAN
    /\ \A e \in site.entries : e.shape \in DOMAIN shapes /\ e.holderShape \in DOMAIN shapes
    /\ Cardinality(site.entries) <= MaxEntries

(* Whatever shapes and arrays objects share, a property is found in a slot *)
(* that no other property was stored in, and no slot is without a property *)
(* (object.go:SetOwn, extendFields, DeleteOwnByKey).                       *)
SlotsHoldTheirKeys ==
    \A o \in Objects :
       /\ Len(objects[o].slots) = Len(FieldsOf(o))
       /\ \A i \in DOMAIN FieldsOf(o) :
             LET f == FieldsOf(o)[i] IN
             /\ f.offset = i - 1
             /\ objects[o].slots[f.offset + 1] \in {f.key, Hole}

(* SetOwn takes a transition without a look at the fields: it must lead to *)
(* the same keys at the same offsets and the one it is for, which is new.  *)
TransitionsAppend ==
    \A s \in DOMAIN shapes : \A k \in Keys :
       shapes[s].next[k] # None =>
          LET t == shapes[s].next[k] IN
          /\ ~HasField(Fields(s), k)
          /\ shapes[t].len = shapes[s].len + 1
          /\ Fields(t)[shapes[t].len].key = k
          /\ \A i \in DOMAIN Fields(s) :
                /\ Fields(t)[i].key = Fields(s)[i].key
                /\ Fields(t)[i].offset = Fields(s)[i].offset

(* Objects and the shapes they share agree on where properties are, also   *)
(* where a shape leads to the next (object.go:extendFields, SetOwn).       *)
ShapesAreSound == SlotsHoldTheirKeys /\ TransitionsAppend

(* A read that the cache answers finds the object and the slot that a scan *)
(* of the chain finds (op_getprop.go:282, the guards of its entries).      *)
ReadsFindTheSlot ==
    \A o \in Objects, k \in Keys :
       /\ Read(o, k).holder = Lookup(o, k).holder
       /\ Read(o, k).offset = Lookup(o, k).offset

(* A write that the cache lets through goes into the object's own slot for *)
(* that key, never into one at the offset of an inherited property         *)
(* (op_setprop.go:491, which does not ask whether an entry is inherited).  *)
WritesLandInOwnSlot ==
    \A o \in Objects, k \in Keys : \A e \in FastWrites(o, k) :
       HasOwn(o, k) /\ OwnField(o, k).offset = e.offset

(* Object.isFrozen.                                                        *)
Frozen(o) ==
    /\ ~objects[o].extensible
    /\ \A i \in DOMAIN FieldsOf(o) :
          /\ ~FieldsOf(o)[i].configurable
          /\ FieldsOf(o)[i].accessor \/ ~FieldsOf(o)[i].writable

(* What is frozen stays so, though its shape, its array and the arrays its *)
(* shape came from belong to other objects too (object.go:1321).           *)
FrozenStaysFrozen ==
    [][\A o \in Objects : Frozen(o) => Frozen(o)' /\ FieldsOf(o)' = FieldsOf(o)]_vars

(* The keys of every object are its own, in the order they were added.     *)
Ordinary == INSTANCE OrdinaryObjects WITH
    keys <- [o \in Objects |-> [i \in DOMAIN FieldsOf(o) |-> FieldsOf(o)[i].key]],
    extensible <- [o \in Objects |-> objects[o].extensible]

KeepsKeys == Ordinary!Spec

(* object.go:95, "Bumped on any layout/flags change": entries of a shape   *)
(* whose fields have changed miss.                                         *)
VersionTracksFields ==
    [][\A s \in DOMAIN shapes :
          Fields(s)' # Fields(s) => shapes'[s].version > shapes[s].version]_vars

(* Not checked by a run, as it fails: a read that the cache answers also   *)
(* agrees with the fields about whether the property is an accessor.       *)
ReadsSeeAccessors ==
    \A o \in Objects, k \in Keys : Read(o, k) = Lookup(o, k)

(* Not checked by a run, as it fails: what is done to one object leaves    *)
(* the fields of every other one alone.                                    *)
ObjectsAreIndependent ==
    [][\E o \in Objects : \A p \in Objects \ {o} : FieldsOf(p)' = FieldsOf(p)]_vars
=============================================================================
