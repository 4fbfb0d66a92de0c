------------------------------ MODULE CallStack ------------------------------
(***************************************************************************)
(* What a script may rely on: calls return to their callers, an exception  *)
(* goes to the innermost try block around the throw, and the body of a     *)
(* generator is in one place at a time.  Native functions that are called  *)
(* in between are transparent.                                             *)
(***************************************************************************)
EXTENDS Integers, Sequences

CONSTANTS Generators, Null

VARIABLES
    stack,    \* the active calls: whose body, and whether a try block is around its call
    bodies,   \* where each generator is suspended, if it is
    outcome   \* how the script ended

(* An active call, of a function or of the body of g.                      *)
Active(g) == [gen |-> g, covered |-> FALSE]

Suspended == {"start", "yield"}

CSInit ==
    /\ stack = <<Active(Null)>>
    /\ bodies = [g \in Generators |-> [state |-> "start", covered |-> FALSE]]
    /\ outcome = "none"

(* The innermost call is at an instruction in a try block, or not.         *)
Within(c) == [stack EXCEPT ![Len(stack)].covered = c]

(* Call n goes on.                                                         *)
BackTo(s, n) == IF n = 0 THEN <<>> ELSE [SubSeq(s, 1, n) EXCEPT ![n].covered = FALSE]

InState(g, state) == [bodies EXCEPT ![g] = [state |-> state, covered |-> FALSE]]

Enter(c) ==
    /\ stack' = Append(Within(c), Active(Null))
    /\ UNCHANGED <<bodies, outcome>>

Resume(g, c) ==
    /\ bodies[g].state \in Suspended
    /\ stack' = Append(Within(c), Active(g))
    /\ bodies' = InState(g, "executing")
    /\ UNCHANGED outcome

Suspend(c) ==
    LET g == stack[Len(stack)].gen
    IN  /\ g # Null
        /\ stack' = BackTo(stack, Len(stack) - 1)
        /\ bodies' = [bodies EXCEPT ![g] = [state |-> "yield", covered |-> c]]
        /\ UNCHANGED outcome

Leave ==
    LET g == stack[Len(stack)].gen
    IN  /\ stack' = BackTo(stack, Len(stack) - 1)
        /\ bodies' = IF g = Null THEN bodies ELSE InState(g, "completed")
        /\ outcome' = IF Len(stack) = 1 THEN "ok" ELSE outcome

(* The calls above the handler end, and with them the generators.          *)
Unwound(s, b) ==
    LET handlers == {i \in DOMAIN s : s[i].covered}
        h == IF handlers = {} THEN 0 ELSE CHOOSE i \in handlers : \A j \in handlers : j <= i
    IN  /\ stack' = BackTo(s, h)
        /\ bodies' = [g \in Generators |->
                         IF \E i \in DOMAIN s : i > h /\ s[i].gen = g
                         THEN [state |-> "completed", covered |-> FALSE] ELSE b[g]]
        /\ outcome' = IF h = 0 THEN "error" ELSE outcome

Raise(c) == Unwound(Within(c), bodies)

(* The exception is raised at the yield, and leaves the body if it is not  *)
(* handled there.                                                          *)
RaiseIn(g, c) ==
    IF bodies[g].covered THEN Resume(g, c)
    ELSE /\ bodies[g].state # "executing"
         /\ Unwound(Within(c), InState(g, "completed"))

Close(g) ==
    /\ bodies[g].state # "executing"
    /\ bodies' = InState(g, "completed")
    /\ UNCHANGED <<stack, outcome>>

CSNext ==
    /\ stack # <<>>
    /\ \/ Leave
       \/ \E g \in Generators : Close(g)
       \/ \E c \in BOOLEAN :
             \/ Enter(c) \/ Suspend(c) \/ Raise(c)
             \/ \E g \in Generators : Resume(g, c) \/ RaiseIn(g, c)

CSSpec == CSInit /\ [][CSNext]_<<stack, bodies, outcome>>
=============================================================================
