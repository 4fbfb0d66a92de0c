----------------------------- MODULE TryFinally -----------------------------
(***************************************************************************)
(* try, catch and finally as the compiler and the virtual machine do them  *)
(* (pkg/compiler/compile_exception.go, pkg/vm/exceptions.go, OpReturn-     *)
(* Finally, OpPushBreak and OpHandlePending in pkg/vm/vm.go).  What a      *)
(* finally block interrupts is not kept with the block: the machine has    *)
(* one pendingAction and one stack of loop exits for all frames.           *)
(*                                                                         *)
(* A behaviour is one run of some program: each step is what its next      *)
(* statement does.  The constants say which programs are considered.       *)
(* Native calls, generators and iterator cleanup are left out.             *)
(***************************************************************************)
EXTENDS TryRegions, FiniteSets

CONSTANTS
    Values,         \* what is thrown and returned
    Undefined,      \* what a plain "return;" returns
    MaxFrames,      \* bound: nested calls
    MaxStatements,  \* bound: loops and try statements entered at a time
    LoopExits,      \* the statements that leave a loop: break, continue
    Overrides,      \* <<what a finally block may end with, what it was run for>>
    FinallyTries,   \* a finally block may run a try statement
    TailCalls,      \* "return f()" may leave a try-finally statement
    DeepExits,      \* a loop exit may leave two try-finally statements at once
    AdjacentTries   \* a call, a "return;" or a finally block may be followed directly by a try

ASSUME BoundsAssumption == MaxFrames \in Nat \ {0} /\ MaxStatements \in Nat

ASSUME ValuesAssumption == Undefined \in Values

ASSUME ExitsAssumption == LoopExits \subseteq {"break", "continue"}

VARIABLES
    frames,           \* where each call stands, the callers at their return address
    outcome,          \* how the script ended
    pending,          \* pendingAction with pendingValue
    completionStack,  \* loop exits to be done after finally blocks
    finallyDepth,     \* finallyDepth > 0, all that is asked of it
    stray             \* history: what was handed to a try statement not yet entered

vars    == <<frames, outcome, pending, completionStack, finallyDepth, stray>>
machine == <<pending, completionStack, finallyDepth>>

C == INSTANCE Completions

Init ==
    /\ C!Init
    /\ pending = Normal
    /\ completionStack = <<>>
    /\ finallyDepth = FALSE
    /\ stray = {}

-----------------------------------------------------------------------------
(* Which programs are considered.                                          *)

(* A finally block has interrupted something.                              *)
Interrupted ==
    \E f \in DOMAIN frames : \E i \in DOMAIN frames[f] : frames[f][i].after # Normal

(* The try statement directly after an instruction: the program counter    *)
(* that the instruction leaves behind is the first of that statement's     *)
(* range, so the handlers looked up from there include its handlers.       *)
Following ==
    {<<>>} \cup
        IF AdjacentTries /\ Depth(frames) < MaxStatements /\ (Interrupted => FinallyTries)
        THEN {<<r>> : r \in Tries("ahead")} ELSE {}

(* The finally blocks that an exit of loop t passes over: only the         *)
(* innermost is entered, and none from within a finally block.             *)
Skipped(fr, t) ==
    LET left == {i \in DOMAIN fr : i > t /\ Finalizes(fr[i])}
    IN  IF InFinally(fr) \/ left = {} THEN left ELSE left \ {Innermost(left)}

(* The step leaves finally block i of frame f for good.                    *)
Leaves(f, i) ==
    /\ frames[f][i].part = "finally"
    /\ ~(f \in DOMAIN frames' /\ i \in DOMAIN frames'[f] /\ frames'[f][i] = frames[f][i])

(* What the finally blocks that the step leaves were run for is considered *)
(* to be overridden by a completion of this type.                          *)
Overriding(type) ==
    \A f \in DOMAIN frames : \A i \in DOMAIN frames[f] :
        Leaves(f, i) => <<type, frames[f][i].after.type>> \in Overrides

-----------------------------------------------------------------------------
(* The machine.                                                            *)

(* Execution goes on in the top frame: a try statement ahead is entered.   *)
Resume(fs) ==
    LET fr == Top(fs)
    IN  IF fr # <<>> /\ fr[Len(fr)].part = "ahead"
        THEN SetTop(fs, [fr EXCEPT ![Len(fr)].part = "body"])
        ELSE fs

EnterHandler(fs, fr, i, c) ==
    /\ frames' = Append(fs, Enter(fr, i, c))
    /\ stray' = IF fr[i].part = "ahead" THEN stray \cup {c.type} ELSE stray
    /\ UNCHANGED outcome

Terminate(c) ==
    /\ frames' = <<>>
    /\ outcome' = c
    /\ UNCHANGED stray

(* Mutant: finallyDepth is not counted up.                                 *)
handleFinallyBlockUncounted(c) ==
    /\ pending' = c
    /\ UNCHANGED finallyDepth

(* What a finally block was entered for is pending.                        *)
handleFinallyBlock(c) ==
    /\ pending' = c
    /\ finallyDepth' = TRUE

(* The stack is unwound to the innermost handler.  With p pending.         *)
throwException(fs, p, v) ==
    LET c     == Thrown(v)
        found == {f \in DOMAIN fs : Handlers(fs[f], "throw") # {}}
        f     == Innermost(found)
        i     == Innermost(Handlers(fs[f], "throw"))
        left  == IF finallyDepth /\ p.type = "throw" THEN Normal ELSE p
    IN  IF found = {}
        THEN Terminate(c) /\ pending' = left /\ UNCHANGED finallyDepth
        ELSE /\ EnterHandler(SubSeq(fs, 1, f - 1), fs[f], i, c)
             /\ IF Catches(fs[f][i])
                THEN pending' = left /\ UNCHANGED finallyDepth
                ELSE handleFinallyBlock(c)

(* The frame is popped; from the script's own frame the run ends.          *)
PopFrame(fs, c) ==
    IF Len(fs) = 1 THEN Terminate(c)
    ELSE frames' = Resume(Pop(fs)) /\ UNCHANGED <<outcome, stray>>

(* A return runs the finally block around it, if there is one, first.      *)
ReturnThrough(fs, c) ==
    LET on == Handlers(Top(fs), "return")
    IN  IF on # {}
        THEN /\ EnterHandler(Pop(fs), Top(fs), Innermost(on), c)
             /\ handleFinallyBlock(c)
        ELSE /\ PopFrame(fs, c)
             /\ pending' = Normal

(* Mutant: a return in a finally block keeps what is pending.              *)
OpReturnFinallyKeeping(at, v) ==
    LET left == Handlers(Top(at), "return") = {} /\ pending # Normal
    IN  /\ IF left THEN PopFrame(at, Returned(v)) /\ UNCHANGED <<pending, finallyDepth>>
           ELSE /\ ReturnThrough(at, Returned(v))
                /\ Handlers(Top(at), "return") = {} => finallyDepth' = FALSE
        /\ UNCHANGED completionStack

(* A return in a function's try-finally; at = the stack with the counter   *)
(* behind the instruction.                                                 *)
OpReturnFinally(at, v) ==
    /\ ReturnThrough(at, Returned(v))
    /\ Handlers(Top(at), "return") = {} => finallyDepth' = FALSE
    /\ UNCHANGED completionStack

(* Any other return.  When a finally handler is found the return is left   *)
(* pending and execution goes on behind it; without finallyDepth the main  *)
(* loop drops what is pending after the next instruction.                  *)
OpReturn(at, v) ==
    IF Handlers(Top(at), "return") = {}
    THEN PopFrame(at, Returned(v)) /\ UNCHANGED machine
    ELSE /\ frames' = Resume(at)
         /\ stray' = stray \cup {"return"}
         /\ pending' = IF finallyDepth THEN Returned(v) ELSE Normal
         /\ UNCHANGED <<outcome, completionStack, finallyDepth>>

OpThrow(v) ==
    /\ throwException(frames, pending, v)
    /\ UNCHANGED completionStack

(* The end of a finally block, at = the stack as the counter after it      *)
(* stands.                                                                 *)
OpHandlePending(at) ==
    IF completionStack # <<>>
    THEN LET c == completionStack[Len(completionStack)]
         IN  /\ completionStack' = Pop(completionStack)
             /\ IF c.target \in DOMAIN Top(at) /\ Top(at)[c.target].part = "loop"
                THEN frames' = SetTop(at, LoopEnd(Top(at), c)) /\ UNCHANGED <<outcome, stray>>
                ELSE Terminate(c)
             /\ UNCHANGED <<pending, finallyDepth>>
    ELSE /\ UNCHANGED completionStack
         /\ CASE pending.type = "return" ->
                   ReturnThrough(at, pending)
                   /\ (Handlers(Top(at), "return") = {} => UNCHANGED finallyDepth)
              [] pending.type = "throw" ->
                   throwException(at, Normal, pending.value)
              [] OTHER ->
                   frames' = Resume(at) /\ UNCHANGED <<outcome, pending, finallyDepth, stray>>

-----------------------------------------------------------------------------
(* The program.                                                            *)

Statement == frames[Len(frames)][Len(Top(frames))]

EnterLoop ==
    /\ Depth(frames) < MaxStatements
    /\ frames' = SetTop(frames, Append(Top(frames), Loop))
    /\ UNCHANGED <<outcome, machine, stray>>

EnterTry ==
    /\ Depth(frames) < MaxStatements
    /\ Interrupted => FinallyTries
    /\ \E r \in Tries("body") : frames' = SetTop(frames, Append(Top(frames), r))
    /\ UNCHANGED <<outcome, machine, stray>>

(* A loop ends, or a try statement without finally, or the jump to the     *)
(* finally block of one that has it.                                       *)
EndBlock ==
    /\ Top(frames) # <<>> /\ Statement.part \in {"loop", "body", "catch"}
    /\ frames' = SetTop(frames, IF Statement.finally
                                THEN Enter(Top(frames), Len(Top(frames)), Normal)
                                ELSE Pop(Top(frames)))
    /\ UNCHANGED <<outcome, machine, stray>>

EndFinally ==
    /\ Top(frames) # <<>> /\ Statement.part = "finally"
    /\ \E next \in Following :
          OpHandlePending(SetTop(frames, Pop(Top(frames)) \o next))

(* The caller's counter is the return address.                             *)
Call ==
    /\ Len(frames) < MaxFrames
    /\ \E next \in Following : frames' = Append(SetTop(frames, Top(frames) \o next), <<>>)
    /\ UNCHANGED <<outcome, machine, stray>>

(* "return f()" outside try bodies: f gets the frame of its caller.        *)
TailCall ==
    /\ Len(frames) > 1
    /\ Handlers(Top(frames), "throw") \subseteq {i \in DOMAIN Top(frames) : Top(frames)[i].part = "catch"}
    /\ TailCalls \/ \A i \in DOMAIN Top(frames) : ~Top(frames)[i].finally
    /\ frames' = SetTop(frames, <<>>)
    /\ UNCHANGED <<outcome, machine, stray>>

Throw ==
    /\ \E v \in Values : OpThrow(v)
    /\ Overriding("throw")

(* Only a plain "return;" is not followed by a move of its value.          *)
Return ==
    /\ Len(frames) > 1
    /\ \E v \in Values : \E next \in IF v = Undefined THEN Following ELSE {<<>>} :
          LET at == SetTop(frames, Top(frames) \o next)
          IN  IF \E i \in DOMAIN Top(frames) : Top(frames)[i].finally
              THEN OpReturnFinally(at, v)
              ELSE OpReturn(at, v)
    /\ Overriding("return")

(* Mutant: every exit jumps straight to the end of its loop.               *)
LeaveDirectly(kind, t) ==
    /\ frames' = SetTop(frames, LoopEnd(Top(frames), Exit(kind, t)))
    /\ UNCHANGED <<outcome, machine, stray>>

(* An exit that leaves the innermost try-finally is pushed and the finally *)
(* block entered; in a finally block the exit is a plain jump.             *)
Leave(kind, t) ==
    LET fr    == Top(frames)
        c     == Exit(kind, t)
        tries == {i \in DOMAIN fr : fr[i].finally}
    IN  IF tries # {} /\ ~InFinally(fr) /\ t < Innermost(tries)
        THEN /\ completionStack' = Append(completionStack, c)
             /\ frames' = SetTop(frames, Enter(fr, Innermost(tries), c))
             /\ UNCHANGED <<outcome, pending, finallyDepth, stray>>
        ELSE /\ frames' = SetTop(frames, LoopEnd(fr, c))
             /\ UNCHANGED <<outcome, machine, stray>>

LeaveLoop ==
    \E t \in DOMAIN Top(frames), kind \in LoopExits :
        /\ Top(frames)[t].part = "loop"
        /\ DeepExits \/ Skipped(Top(frames), t) = {}
        /\ Len(completionStack) < MaxStatements
        /\ Leave(kind, t)
        /\ Overriding(kind)

(* The script's last instruction reports an exception left pending.        *)
EndScript ==
    /\ frames = << <<>> >>
    /\ Terminate(IF pending.type = "throw" THEN pending ELSE Normal)
    /\ UNCHANGED machine

Next ==
    /\ frames # <<>>
    /\ \/ EnterLoop
       \/ EnterTry
       \/ EndBlock
       \/ EndFinally
       \/ Call
       \/ TailCall
       \/ Throw
       \/ Return
       \/ LeaveLoop
       \/ EndScript

Spec == Init /\ [][Next]_vars

-----------------------------------------------------------------------------
(* Properties.                                                             *)

Completion ==
    {Normal} \cup {Thrown(v) : v \in Values} \cup {Returned(v) : v \in Values}
        \cup {Exit(kind, t) : kind \in LoopExits, t \in 1..MaxStatements}

(* Types; the script has an outcome once its last frame is gone.           *)
TypeOK ==
    /\ \A f \in DOMAIN frames : \A i \in DOMAIN frames[f] :
          frames[f][i] \in [part : {"loop", "ahead", "body", "catch", "finally"},
                            catch : BOOLEAN, finally : BOOLEAN, after : Completion]
    /\ {pending} \cup {completionStack[k] : k \in DOMAIN completionStack} \subseteq Completion
    /\ finallyDepth \in BOOLEAN
    /\ stray \subseteq {"throw", "return"}
    /\ outcome \in Completion \cup {C!Running}
    /\ frames = <<>> <=> outcome # C!Running

(* What OpHandlePending would do now.                                      *)
Resumption ==
    IF completionStack # <<>> THEN completionStack[Len(completionStack)] ELSE pending

(* A finally block, when it ends, resumes what it was run for: the state   *)
(* shared by all frames holds exactly the completion of the block.         *)
FinallyResumes ==
    frames # <<>> /\ Top(frames) # <<>> /\ Statement.part = "finally" =>
        Resumption = Statement.after

(* When no finally block is running nothing is left to be resumed: a       *)
(* leftover would be done by the next block that ends, anywhere.           *)
NothingLeftPending ==
    frames # <<>> /\ ~Interrupted => pending = Normal /\ completionStack = <<>>

(* A pending action is always covered by finallyDepth: the main loop drops *)
(* or throws anything else at the next instruction, and a throw replaces a *)
(* pending throw only then.                                                *)
DepthCoversPending ==
    /\ finallyDepth \in BOOLEAN
    /\ pending # Normal => finallyDepth

(* The machine runs every program as Completions says.                     *)
KeepsCompletions == C!Spec

-----------------------------------------------------------------------------
(* What the code does not keep when AdjacentTries holds.                   *)

(* An exception is handled only by try statements that were entered.       *)
ThrowsStayInRange == "throw" \notin stray

(* A return leaves its function unless it is in a try statement.           *)
ReturnsLeave == "return" \notin stray
=============================================================================
