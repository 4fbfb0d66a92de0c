-------------------------- MODULE OrdinaryObjects --------------------------
(* What the layout machinery of pkg/vm/object.go promises a program about   *)
(* the keys of its objects: each object has its own list of keys, in the    *)
(* order in which they were added, whatever it shares with the others.      *)
EXTENDS Naturals, Sequences

CONSTANTS Objects, Keys

VARIABLES
    keys,       \* keys[o]: the own keys of o, oldest first
    extensible  \* extensible[o]: o may get new keys

vars == <<keys, extensible>>

Init ==
    /\ keys = [o \in Objects |-> <<>>]
    /\ extensible = [o \in Objects |-> TRUE]

Has(o, k) == \E i \in DOMAIN keys[o] : keys[o][i] = k

(* A new key goes to the end.                                              *)
Add(o, k) ==
    /\ extensible[o]
    /\ ~Has(o, k)
    /\ keys' = [keys EXCEPT ![o] = Append(@, k)]
    /\ UNCHANGED extensible

(* The keys that remain keep their order.                                  *)
Remove(o, k) ==
    /\ \E i \in DOMAIN keys[o] :
          /\ keys[o][i] = k
          /\ keys' = [keys EXCEPT
                        ![o] = [j \in 1..(Len(@) - 1) |-> IF j < i THEN @[j] ELSE @[j + 1]]]
    /\ UNCHANGED extensible

PreventExtensions(o) ==
    /\ extensible' = [extensible EXCEPT ![o] = FALSE]
    /\ UNCHANGED keys

Next ==
    \E o \in Objects :
       \/ PreventExtensions(o)
       \/ \E k \in Keys : Add(o, k) \/ Remove(o, k)

Spec == Init /\ [][Next]_vars
=============================================================================
