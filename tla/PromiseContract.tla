-------------------------- MODULE PromiseContract --------------------------
(***************************************************************************)
(* What promises give the code that uses them: a promise gets at most one  *)
(* outcome and keeps it; a continuation (what then was given, or the rest  *)
(* of an async body) registered on a promise runs once, after the promise  *)
(* has its outcome and with that outcome.                                  *)
(***************************************************************************)
CONSTANTS
    Promise,       \* promises, which also name their continuations
    Outcome,       \* what a promise may end with
    Pending        \* not an Outcome: the promise has none yet

VARIABLES
    outcome,   \* of each promise
    waitsOn,   \* the promises a continuation is registered on: none or one
    got        \* the outcome a continuation last ran with

contractVars == <<outcome, waitsOn, got>>

Init ==
    /\ outcome = [p \in Promise |-> Pending]
    /\ waitsOn = [q \in Promise |-> {}]
    /\ got = [q \in Promise |-> Pending]

Settle(p) ==
    /\ outcome[p] = Pending
    /\ \E o \in Outcome : outcome' = [outcome EXCEPT ![p] = o]

Register(q, p) ==
    /\ waitsOn[q] = {}
    /\ waitsOn' = [waitsOn EXCEPT ![q] = {p}]
    /\ UNCHANGED got

Deliver(q) ==
    /\ \E p \in waitsOn[q] :
          /\ outcome[p] # Pending
          /\ got' = [got EXCEPT ![q] = outcome[p]]
    /\ waitsOn' = [waitsOn EXCEPT ![q] = {}]

(* One step of the program may settle a promise and register or run a      *)
(* continuation.                                                           *)
Next ==
    /\ (\E p \in Promise : Settle(p)) \/ UNCHANGED outcome
    /\ \/ \E p, q \in Promise : Register(q, p)
       \/ \E q \in Promise : Deliver(q)
       \/ UNCHANGED <<waitsOn, got>>

Spec == Init /\ [][Next]_contractVars
=============================================================================
