--------------------------- MODULE MCInlineCaches ---------------------------
(* InlineCaches for TLC: all objects start alike, and so do all keys.       *)
EXTENDS InlineCaches, TLC

Interchangeable == Permutations(Objects) \cup Permutations(Keys)

(* Read-only; not configurable; an accessor. Freeze and Seal give the rest. *)
SomeDescriptors ==
    {[accessor |-> FALSE, writable |-> FALSE, configurable |-> TRUE],
     [accessor |-> FALSE, writable |-> TRUE, configurable |-> FALSE],
     [accessor |-> TRUE, writable |-> FALSE, configurable |-> TRUE]}
=============================================================================
