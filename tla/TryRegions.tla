----------------------------- MODULE TryRegions -----------------------------
(***************************************************************************)
(* Where a running function stands among its loops and try statements, and *)
(* which handlers of its exception table cover that place.                 *)
(*                                                                         *)
(* A frame is the sequence of the statements the program counter is in,    *)
(* outermost first.  A try statement is in its "body", its "catch" or its  *)
(* "finally" part; "ahead" is a try statement whose first instruction is   *)
(* the next to be executed: the counter is in its range already.           *)
(***************************************************************************)
EXTENDS Integers, Sequences

(* Completion records.                                                     *)
Normal         == [type |-> "normal"]
Thrown(v)      == [type |-> "throw", value |-> v]
Returned(v)    == [type |-> "return", value |-> v]
Exit(kind, t)  == [type |-> kind, target |-> t]    \* break or continue of loop t

(* "after" is what is to be completed when the finally part has run.       *)
Loop == [part |-> "loop", catch |-> FALSE, finally |-> FALSE, after |-> Normal]

Try(part, catch, finally) ==
    [part |-> part, catch |-> catch, finally |-> finally, after |-> Normal]

(* The try statements of a program have a handler of at least one kind.    *)
Tries(part) == {Try(part, c, f) : c \in BOOLEAN, f \in BOOLEAN} \ {Try(part, FALSE, FALSE)}

-----------------------------------------------------------------------------
(* Ranges of the handlers: a catch handler covers the body, a finally      *)
(* handler covers the body and the catch part, neither covers the finally. *)
Catches(r)   == r.catch /\ r.part \in {"ahead", "body"}
Finalizes(r) == r.finally /\ r.part \in {"ahead", "body", "catch"}

Handlers(fr, type) ==
    {i \in DOMAIN fr : Finalizes(fr[i]) \/ (type = "throw" /\ Catches(fr[i]))}

Innermost(S) == CHOOSE i \in S : \A j \in S : j <= i

(* Control goes to the handler of statement i: of one statement the catch  *)
(* handler is found first.                                                 *)
Enter(fr, i, c) ==
    Append(SubSeq(fr, 1, i - 1),
           IF c.type = "throw" /\ Catches(fr[i])
           THEN [fr[i] EXCEPT !.part = "catch"]
           ELSE [fr[i] EXCEPT !.part = "finally", !.after = c])

(* A break leaves its loop, a continue goes on with it.                    *)
LoopEnd(fr, c) == SubSeq(fr, 1, IF c.type = "break" THEN c.target - 1 ELSE c.target)

Top(fs)         == fs[Len(fs)]
Pop(s)          == SubSeq(s, 1, Len(s) - 1)
SetTop(fs, fr)  == [fs EXCEPT ![Len(fs)] = fr]

InFinally(fr) == \E i \in DOMAIN fr : fr[i].part = "finally"

(* The number of statements entered, in all frames: the size of a program. *)
Depth(fs) ==
    LET upTo[f \in 0..Len(fs)] == IF f = 0 THEN 0 ELSE upTo[f - 1] + Len(fs[f])
    IN  upTo[Len(fs)]
=============================================================================
