-------------------------- MODULE InsertionOrder ---------------------------
(***************************************************************************)
(* What a Map or a Set promises to whoever iterates over it while it       *)
(* changes: keys come in the order in which they were added, a key that is *)
(* added while a cursor is under way is still visited, one that is deleted *)
(* before its turn is not, one that is deleted and added again comes last, *)
(* and a cursor ends only when nothing is left for it.                     *)
(***************************************************************************)
CONSTANTS Keys, None, Cursors

VARIABLES
    items,     \* the keys
    before,    \* the pairs of keys of which the first was added first
    status,    \* "closed", "open" or "exhausted", for each cursor
    ahead,     \* the keys an open cursor has yet to visit
    current    \* the key it visited last

vars == <<items, before, status, ahead, current>>

Init ==
    /\ items = {}
    /\ before = {}
    /\ status = [c \in Cursors |-> "closed"]
    /\ ahead = [c \in Cursors |-> {}]
    /\ current = [c \in Cursors |-> None]

Add(k) ==
    /\ k \notin items
    /\ items' = items \cup {k}
    /\ before' = before \cup (items \X {k})
    /\ ahead' = [c \in Cursors |-> IF status[c] = "open" THEN ahead[c] \cup {k} ELSE {}]
    /\ UNCHANGED <<status, current>>

Remove(S) ==
    /\ items' = items \ S
    /\ before' = before \cap (items' \X items')
    /\ ahead' = [c \in Cursors |-> ahead[c] \ S]
    /\ UNCHANGED <<status, current>>

Open(c) ==
    /\ status[c] = "closed"
    /\ status' = [status EXCEPT ![c] = "open"]
    /\ ahead' = [ahead EXCEPT ![c] = items]
    /\ current' = [current EXCEPT ![c] = None]
    /\ UNCHANGED <<items, before>>

Visit(c) ==
    /\ status[c] = "open"
    /\ \E k \in ahead[c] :
        /\ \A other \in ahead[c] : <<other, k>> \notin before
        /\ ahead' = [ahead EXCEPT ![c] = ahead[c] \ {k}]
        /\ current' = [current EXCEPT ![c] = k]
    /\ UNCHANGED <<items, before, status>>

Exhaust(c) ==
    /\ status[c] = "open"
    /\ ahead[c] = {}
    /\ status' = [status EXCEPT ![c] = "exhausted"]
    /\ UNCHANGED <<items, before, ahead, current>>

Abandon(c) ==
    /\ status[c] # "closed"
    /\ status' = [status EXCEPT ![c] = "closed"]
    /\ ahead' = [ahead EXCEPT ![c] = {}]
    /\ UNCHANGED <<items, before, current>>

Next ==
    \/ \E k \in Keys : Add(k)
    \/ \E k \in items : Remove({k})
    \/ Remove(items)
    \/ \E c \in Cursors : Open(c) \/ Visit(c) \/ Exhaust(c) \/ Abandon(c)

Spec == Init /\ [][Next]_vars
=============================================================================
