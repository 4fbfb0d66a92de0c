---------------------------- MODULE Completions ----------------------------
(***************************************************************************)
(* What try statements promise: every finally block that is left behind by *)
(* a throw, a return or a loop exit runs, and the completion it was run    *)
(* for is resumed when the block ends normally, whatever else ran in       *)
(* between; a block that ends abruptly replaces that completion.           *)
(***************************************************************************)
EXTENDS TryRegions

CONSTANTS Values

VARIABLES frames, outcome

vars == <<frames, outcome>>

Running == [type |-> "running"]

Init == frames = << <<>> >> /\ outcome = Running

(* The stack after completion c at the innermost place of fs.              *)
AfterThrow(fs, c) ==
    LET found == {f \in DOMAIN fs : Handlers(fs[f], "throw") # {}}
        f     == Innermost(found)
    IN  IF found = {} THEN <<>>
        ELSE Append(SubSeq(fs, 1, f - 1),
                    Enter(fs[f], Innermost(Handlers(fs[f], "throw")), c))

AfterReturn(fs, c) ==
    LET on == Handlers(Top(fs), "return")
    IN  IF on = {} THEN Pop(fs) ELSE SetTop(fs, Enter(Top(fs), Innermost(on), c))

AfterExit(fs, c) ==
    LET on == {i \in Handlers(Top(fs), c.type) : i > c.target}
    IN  SetTop(fs, IF on = {} THEN LoopEnd(Top(fs), c) ELSE Enter(Top(fs), Innermost(on), c))

Complete(fs, c) ==
    /\ frames' = CASE c.type = "throw"  -> AfterThrow(fs, c)
                   [] c.type = "return" -> AfterReturn(fs, c)
                   [] c.type \in {"break", "continue"} -> AfterExit(fs, c)
                   [] OTHER -> fs
    /\ outcome' = IF frames' = <<>> THEN c ELSE outcome

Abrupt ==
    \/ \E v \in Values : Complete(frames, Thrown(v))
    \/ Len(frames) > 1 /\ \E v \in Values : Complete(frames, Returned(v))
    \/ \E t \in DOMAIN Top(frames), kind \in {"break", "continue"} :
          Top(frames)[t].part = "loop" /\ Complete(frames, Exit(kind, t))

(* A statement or a function is entered; a call whose value is returned    *)
(* needs no frame of its own when no handler is left in the caller's.      *)
Begin ==
    /\ \/ \E r \in Tries("body") \cup {Loop} : frames' = SetTop(frames, Append(Top(frames), r))
       \/ frames' = Append(frames, <<>>)
       \/ Handlers(Top(frames), "throw") = {} /\ frames' = SetTop(frames, <<>>)
    /\ UNCHANGED outcome

(* A block ends normally.                                                  *)
End ==
    LET fr == Top(frames)
        r  == fr[Len(fr)]
    IN  /\ fr # <<>>
        /\ IF r.part \in {"body", "catch"} /\ r.finally
           THEN frames' = SetTop(frames, Enter(fr, Len(fr), Normal)) /\ UNCHANGED outcome
           ELSE Complete(SetTop(frames, Pop(fr)), r.after)

(* The script ends with its last statement.                                *)
EndScript ==
    /\ frames = << <<>> >>
    /\ frames' = <<>>
    /\ outcome' = Normal

Next == frames # <<>> /\ (Abrupt \/ Begin \/ End \/ EndScript)

Spec == Init /\ [][Next]_vars
=============================================================================
