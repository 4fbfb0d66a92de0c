---------------------------- MODULE Collections ----------------------------
(***************************************************************************)
(* Map and Set objects and the cursors that run over them while the        *)
(* program goes on changing them (pkg/vm: value.go, array_iterator.go;     *)
(* pkg/builtins: map_init.go, set_init.go).                                *)
(*                                                                         *)
(* A collection keeps its keys in a slice, in the order in which they were *)
(* added.  Deleting a key leaves it in the slice and marks it by its name, *)
(* not by its place; adding it again kills the old place and appends a new *)
(* one.  A cursor is an index into the slice: an iterator object, or the   *)
(* loop of forEach and of the methods of Set that call the program for     *)
(* each key.                                                               *)
(*                                                                         *)
(* The values of a Map, size (which counts the keys), the equality of keys *)
(* and the sets that the methods of Set build up are left out.             *)
(***************************************************************************)
EXTENDS Sequences, Integers

CONSTANTS
    Keys,
    Dead,        \* the mapKey that is no key
    None,
    Cursors,     \* iterators and loops
    MaxOrder,    \* bound: the places of the slice
    Patterns     \* which programs are considered besides: those that clear the
                 \* collection when a cursor is under way ("clears")

ASSUME DeadAssumption == Dead \notin Keys
ASSUME PatternsAssumption == Patterns \subseteq {"clears"}

VARIABLES
    entries,     \* the keys that have an entry
    order,       \* the slice
    tombstones,  \* the keys that were deleted and are still in it
    status,      \* of each cursor: "closed" when it does not exist
    index,       \* how many places it has passed
    current      \* the key it gave the program last

vars == <<entries, order, tombstones, status, index, current>>

collection == <<entries, order, tombstones>>
cursors    == <<status, index, current>>

Init ==
    /\ entries = {}
    /\ order = <<>>
    /\ tombstones = {}
    /\ status = [c \in Cursors |-> "closed"]
    /\ index = [c \in Cursors |-> 0]
    /\ current = [c \in Cursors |-> None]

-----------------------------------------------------------------------------
(* The collection.                                                         *)

(* Mutant: the old place of a key that is added again stays as it is.      *)
BuriedNot(k) == order

Buried(k) == [i \in DOMAIN order |-> IF order[i] = k THEN Dead ELSE order[i]]

(* MapObject.Set and SetObject.Add of a key that has no entry; of one that *)
(* has, only the value changes.                                            *)
Set(k) ==
    /\ k \notin entries
    /\ Len(order) < MaxOrder
    /\ entries' = entries \cup {k}
    /\ order' = Append(IF k \in tombstones THEN Buried(k) ELSE order, k)
    /\ tombstones' = tombstones \ {k}
    /\ UNCHANGED cursors

Delete(k) ==
    /\ k \in entries
    /\ entries' = entries \ {k}
    /\ tombstones' = tombstones \cup {k}
    /\ UNCHANGED <<order, cursors>>

Clear ==
    /\ "clears" \in Patterns \/ \A c \in Cursors : status[c] = "open" => index[c] = 0
    /\ entries' = {}
    /\ order' = <<>>
    /\ tombstones' = {}
    /\ UNCHANGED cursors

-----------------------------------------------------------------------------
(* Cursors.                                                                *)

(* GetEntryAt and GetValueAt find something there.                         *)
HasEntryAt(i) == order[i] \in entries /\ order[i] \notin tombstones

Open(c) ==
    /\ status[c] = "closed"
    /\ status' = [status EXCEPT ![c] = "open"]
    /\ index' = [index EXCEPT ![c] = 0]
    /\ current' = [current EXCEPT ![c] = None]
    /\ UNCHANGED collection

(* One round: the cursor passes what is dead and gives the first key that  *)
(* is not to the program.                                                  *)
Visit(c) ==
    /\ status[c] = "open"
    /\ \E i \in DOMAIN order :
        /\ i > index[c]
        /\ HasEntryAt(i)
        /\ \A j \in index[c] + 1 .. i - 1 : ~HasEntryAt(j)
        /\ index' = [index EXCEPT ![c] = i]
        /\ current' = [current EXCEPT ![c] = order[i]]
    /\ UNCHANGED <<collection, status>>

(* There is nothing left: an iterator stays exhausted.                     *)
Exhaust(c) ==
    /\ status[c] = "open"
    /\ \A i \in DOMAIN order : i > index[c] => ~HasEntryAt(i)
    /\ status' = [status EXCEPT ![c] = "exhausted"]
    /\ UNCHANGED <<collection, index, current>>

(* The program drops the iterator, or the callback of a loop throws.       *)
Abandon(c) ==
    /\ status[c] # "closed"
    /\ status' = [status EXCEPT ![c] = "closed"]
    /\ UNCHANGED <<collection, index, current>>

Next ==
    \/ \E k \in Keys : Set(k) \/ Delete(k)
    \/ Clear
    \/ \E c \in Cursors : Open(c) \/ Visit(c) \/ Exhaust(c) \/ Abandon(c)

Spec == Init /\ [][Next]_vars

-----------------------------------------------------------------------------
(* Properties.                                                             *)

(* The order of the slice, for the keys that have an entry.                *)
Before ==
    {p \in entries \X entries :
        \E i, j \in DOMAIN order : i < j /\ order[i] = p[1] /\ order[j] = p[2]}

(* The keys with an entry at a place that the cursor has not passed.       *)
Ahead ==
    [c \in Cursors |->
        IF status[c] = "open"
        THEN {k \in entries : \E i \in DOMAIN order : i > index[c] /\ order[i] = k}
        ELSE {}]

Abstract == INSTANCE InsertionOrder WITH items <- entries, before <- Before, ahead <- Ahead

(* Map and Set keep their promise to those who iterate: however adding,    *)
(* deleting, adding again and the rounds of several cursors interleave,    *)
(* each cursor visits every key in the order of insertion, once for each   *)
(* time it was added, none that is gone, and misses none (MapObject.Set,   *)
(* Delete, Clear, GetEntryAt, BuiltinIterState.Step).                      *)
KeepsInsertionOrder == Abstract!Spec
=============================================================================
