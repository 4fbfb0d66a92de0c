----------------------------- MODULE CallFrames -----------------------------
(***************************************************************************)
(* Calls, exceptions and generators across native boundaries (pkg/vm:      *)
(* vm.go, exceptions.go, call.go, vm_init.go).                             *)
(*                                                                         *)
(* All calls of a script share one stack of frames.  A native function     *)
(* that calls back into the script, and a generator that is resumed, run a *)
(* new interpreter loop on that stack, on top of a sentinel frame; the     *)
(* loops nest on the Go stack.  An exception that no frame above such a    *)
(* boundary handles ends the loop, becomes a Go error of the native        *)
(* function, and is thrown again by the loop below.                        *)
(*                                                                         *)
(* A behaviour is one run of some program: each step is what its next      *)
(* instruction or the native function in progress does.  Finally blocks    *)
(* (see TryFinally), upvalues, yield* and the prologue of a generator are  *)
(* left out; the overflow of the stack and of the registers is too, and so *)
(* is a call of a native function or a generator method that directly      *)
(* follows a native call that has failed.                                  *)
(***************************************************************************)
EXTENDS Integers, Sequences, FiniteSets

CONSTANTS
    Generators,      \* the generator objects, suspended before their first statement
    Values,          \* what is thrown
    ErrText,         \* stands for the errors the machine makes up itself
    Null,            \* no exception, no generator
    Sizes,           \* register windows of the functions that are called
    Natives,         \* what a native function does with the exception of its callback:
                     \* "propagates" it, "swallows" it, or handles and "clears" it
    MaxFrames,       \* bound: calls at a time
    MaxSteps,        \* bound: instructions and decisions of native functions
    Patterns         \* which programs are considered besides: those where an exception
                     \* leaves two loops ("nested"), where a "throw", "yield" or "call",
                     \* or the "return" of a generator, directly follows a native call
                     \* that has failed, where such a call ends a generator that throw()
                     \* has "resumed"

ASSUME WindowsAssumption == Sizes \subseteq Nat \ {0} /\ 1 \in Sizes

ASSUME NullAssumption == Null \notin Generators \cup Values \cup {ErrText}

ASSUME NativesAssumption == Natives \subseteq {"propagates", "swallows", "clears"}

ASSUME PatternsAssumption ==
    Patterns \subseteq {"nested", "throw", "return", "yield", "call", "resumed"}

VARIABLES
    frames,       \* the frames below frameCount
    nextRegSlot,  \* the registers in use
    exception,    \* unwinding, unwindingCrossedNative and currentException
    loops,        \* activations of run(): their cached frame, the native call they wait for
    reply,        \* how the loop ended that a native call, or the script, waits for
    generators,   \* State of each generator, and whether its yield is in a try block
    fuel,         \* steps left
    due           \* history: the frame that is to catch the exception in flight

frameVars == <<frames, nextRegSlot, exception, loops, reply, generators, fuel, due>>

-----------------------------------------------------------------------------
(* "covered": the instruction the frame is at lies in a try block; alloc is *)
(* allocatedRegSize, size the RegisterSize of the function.                *)
Code(base, size) ==
    [kind |-> "code", direct |-> FALSE, gen |-> Null, base |-> base,
     alloc |-> size, size |-> size, covered |-> FALSE]

Sentinel == [Code(0, 0) EXCEPT !.kind = "sentinel"]

GeneratorSize == 1

NoReply  == [status |-> "none", value |-> Null]
Ok       == [status |-> "ok", value |-> Null]
Err(v)   == [status |-> "error", value |-> v]

NoCall   == [native |-> "none", entry |-> "none", gen |-> Null, count |-> 0]
Loop(at) == [at |-> at, call |-> NoCall]

Quiet    == [unwinding |-> FALSE, crossed |-> FALSE, current |-> Null]

Top(s) == s[Len(s)]
Pop(s) == SubSeq(s, 1, Len(s) - 1)

IsSentinel(fs, i) == i \in DOMAIN fs /\ fs[i].kind = "sentinel"
PopSentinel(fs)   == IF IsSentinel(fs, Len(fs)) THEN Pop(fs) ELSE fs

Innermost(S) == IF S = {} THEN 0 ELSE CHOOSE i \in S : \A j \in S : j <= i

Handler(fs)  == Innermost({i \in DOMAIN fs : fs[i].covered})
Boundary(fs) == Innermost({i \in DOMAIN fs : fs[i].direct \/ fs[i].kind = "sentinel"})

FramesInit ==
    /\ frames = <<Code(0, 1)>>
    /\ nextRegSlot = 1
    /\ exception = Quiet
    /\ loops = <<Loop(1)>>
    /\ reply = NoReply
    /\ generators = [g \in Generators |-> [state |-> "start", covered |-> FALSE]]
    /\ fuel = MaxSteps
    /\ due = 0

-----------------------------------------------------------------------------
(* Exceptions.                                                             *)

(* Mutant: a boundary is noticed before its own handlers are looked up.    *)
unwindExceptionTooSoon(fs, v, crossed) ==
    LET h == Handler(fs)
        b == Boundary(fs)
    IN  IF b > 0 /\ b >= h /\ ~crossed
        THEN [frames |-> SubSeq(fs, 1, b),
              exception |-> [unwinding |-> TRUE, crossed |-> TRUE, current |-> v]]
        ELSE IF h > 0
        THEN [frames |-> [SubSeq(fs, 1, h) EXCEPT ![h].covered = FALSE], exception |-> Quiet]
        ELSE [frames |-> <<>>,
              exception |-> [unwinding |-> TRUE, crossed |-> crossed, current |-> v]]

(* The frames and the exception state after unwinding: at the innermost    *)
(* handler, or at a native boundary above it if none was crossed yet.      *)
unwindException(fs, v, crossed) ==
    LET h == Handler(fs)
        b == Boundary(fs)
    IN  IF b > h /\ ~crossed
        THEN [frames |-> SubSeq(fs, 1, b),
              exception |-> [unwinding |-> TRUE, crossed |-> TRUE, current |-> v]]
        ELSE IF h > 0
        THEN [frames |-> [SubSeq(fs, 1, h) EXCEPT ![h].covered = FALSE], exception |-> Quiet]
        ELSE [frames |-> <<>>,
              exception |-> [unwinding |-> TRUE, crossed |-> crossed, current |-> v]]

(* Throwing again what is being unwound already has no effect, unless a    *)
(* native boundary was crossed.                                            *)
throwException(fs, ex, v) ==
    IF ex.unwinding /\ ~ex.crossed /\ ex.current = v
    THEN [frames |-> fs, exception |-> ex]
    ELSE unwindException(fs, v, ex.unwinding /\ ex.crossed)

(* History: a throw is due at the innermost try block around it, whatever  *)
(* boundaries lie between.                                                 *)
Due(fs, ex, r) ==
    IF ~r.exception.unwinding THEN 0 ELSE IF ex.unwinding THEN due ELSE Handler(fs)

-----------------------------------------------------------------------------
(* Loops.                                                                  *)

(* The innermost loop goes on with the top frame of fs.                    *)
GoesOn(fs) ==
    /\ frames' = fs
    /\ loops' = Append(Pop(loops), Loop(Len(fs)))
    /\ reply' = NoReply

(* The innermost loop returns.                                             *)
Ends(fs, r) ==
    /\ frames' = fs
    /\ loops' = Pop(loops)
    /\ reply' = r

(* A native call returned no error: the frame is looked up again if frames *)
(* were lost, else the loop goes on with the frame it knows.               *)
NativeSucceeds(fs, ex) ==
    LET call == Top(loops).call
    IN  /\ exception' = ex
        /\ due' = IF ex.unwinding THEN due ELSE 0
        /\ IF ex.unwinding /\ ex.crossed /\ call.native # "swallows"
           THEN Ends(fs, Err(ex.current))
           ELSE /\ frames' = fs
                /\ reply' = NoReply
                /\ loops' = [loops EXCEPT ![Len(loops)].call = NoCall,
                                          ![Len(loops)].at =
                                              IF ~ex.unwinding /\ Len(fs) < call.count
                                              THEN Len(fs) ELSE @]

(* It returned an error: thrown in the frame of the call.  The loop goes on *)
(* even if a boundary was reached, and notices one instruction later; in a *)
(* sentinel frame there is no code to go on with, and run() recovers from  *)
(* its panic as if it had ended well.                                      *)
NativeFails(fs, ex, v) ==
    LET r     == throwException(fs, ex, v)
        panic == IsSentinel(r.frames, Len(r.frames))
    IN  /\ panic /\ Len(loops) > 1 /\ loops[Len(loops) - 1].call.entry = "throw"
               => "resumed" \in Patterns
        /\ exception' = r.exception
        /\ due' = Due(fs, ex, r)
        /\ IF r.frames = <<>> THEN Ends(<<>>, Err(r.exception.current))
           ELSE IF panic THEN Ends(r.frames, Ok) ELSE GoesOn(r.frames)

(* The native function in progress has called back, with this outcome.     *)
CallbackEnds(fs, ex, r) ==
    LET native == Top(loops).call.native
    IN  IF native = "generator"
        THEN IF r.status = "ok" THEN NativeSucceeds(fs, ex) ELSE NativeFails(fs, ex, r.value)
        ELSE IF r.status = "error" /\ native = "propagates"
        THEN NativeFails(fs, ex, r.value)
        ELSE IF r.status = "error"
        THEN NativeSucceeds(fs, IF native = "clears" THEN Quiet ELSE ex)
        ELSE /\ frames' = fs
             /\ exception' = ex
             /\ reply' = NoReply
             /\ loops' = [loops EXCEPT ![Len(loops)].call.entry = "none",
                                       ![Len(loops)].call.gen = Null]
             /\ due' = IF ex.unwinding THEN due ELSE 0

-----------------------------------------------------------------------------
(* Instructions of the top frame.                                          *)

InScript ==
    /\ loops # <<>>
    /\ reply = NoReply
    /\ Top(loops).call = NoCall

Running ==
    /\ InScript
    /\ Top(loops).at = Len(frames)    \* a loop that lost its frame is not followed

Instruction ==
    /\ Running
    /\ fuel > 0
    /\ fuel' = fuel - 1

Unhindered == Instruction /\ ~exception.unwinding

(* The instruction calls a function of the script.  After a native call    *)
(* that failed, run() goes on with the next instruction of the frame where *)
(* the throw has stopped: the outer call of f(native()) is made.           *)
Calling == Instruction /\ (exception.unwinding => "call" \in Patterns)

(* The next instruction lies in a try block, or not.                       *)
At(c) == [frames EXCEPT ![Len(frames)].covered = c]

(* The check at the end of an instruction: the loop returns if a boundary  *)
(* was reached.                                                            *)
EndOfInstruction ==
    /\ Running
    /\ exception.unwinding
    /\ Ends(frames, Err(exception.current))
    /\ UNCHANGED <<nextRegSlot, exception, generators, fuel, due>>

(* A new frame for a function, on top of fs.                               *)
prepareCall(fs, size, direct) ==
    /\ frames' = Append(fs, [Code(nextRegSlot, size) EXCEPT !.direct = direct])
    /\ nextRegSlot' = nextRegSlot + size

Call(size, c) ==
    /\ Calling
    /\ Len(frames) < MaxFrames
    /\ prepareCall(At(c), size, FALSE)
    /\ loops' = [loops EXCEPT ![Len(loops)].at = Len(frames')]
    /\ UNCHANGED <<exception, reply, generators, due>>

(* Mutant: the window is moved down by the size of the callee.             *)
TailCallTooLow(size) ==
    LET f    == Top(frames)
        base == nextRegSlot - size
    IN  /\ Calling
        /\ Len(frames) > 1
        /\ f.gen = Null
        /\ size > f.alloc
        /\ frames' = [frames EXCEPT ![Len(frames)] = Code(base, size)]
        /\ UNCHANGED <<nextRegSlot, exception, loops, reply, generators, due>>

(* The frame is used for the callee; its window moves up to the registers  *)
(* in use last when it is too small.  Not compiled inside a try block.     *)
TailCall(size) ==
    LET f    == Top(frames)
        base == nextRegSlot - f.alloc
    IN  /\ Calling
        /\ Len(frames) > 1
        /\ f.gen = Null
        /\ IF size > f.alloc
           THEN /\ frames' = [frames EXCEPT ![Len(frames)] = Code(base, size)]
                /\ nextRegSlot' = base + size
           ELSE /\ frames' = [frames EXCEPT ![Len(frames)] =
                                  [Code(f.base, size) EXCEPT !.alloc = f.alloc]]
                /\ UNCHANGED nextRegSlot
        /\ UNCHANGED <<exception, loops, reply, generators, due>>

Throw(v, c) ==
    LET r == throwException(At(c), exception, v)
    IN  /\ Instruction
        /\ exception.unwinding => "throw" \in Patterns
        /\ exception' = r.exception
        /\ due' = Due(At(c), exception, r)
        /\ IF r.exception.unwinding THEN Ends(r.frames, Err(r.exception.current))
           ELSE GoesOn(r.frames)
        /\ UNCHANGED <<nextRegSlot, generators>>

ScriptReturns ==
    /\ Instruction
    /\ Len(frames) = 1
    /\ IF exception.unwinding THEN Ends(<<>>, Err(exception.current)) ELSE Ends(frames, Ok)
    /\ UNCHANGED <<nextRegSlot, exception, generators, due>>

(* OpReturn gives back what was allocated, OpReturnUndefined the size of   *)
(* the function that returns, and fails to notice an exception.            *)
Return(undefined) ==
    LET f    == Top(frames)
        rest == Pop(frames)
    IN  /\ Instruction
        /\ Len(frames) > 1
        /\ exception.unwinding => f.gen = Null \/ "return" \in Patterns
        /\ nextRegSlot' = nextRegSlot - (IF undefined THEN f.size ELSE f.alloc)
        /\ generators' = IF f.gen = Null THEN generators
                         ELSE [generators EXCEPT ![f.gen].state = "completed"]
        /\ IF IsSentinel(rest, Len(rest))
           THEN Ends(Pop(rest), IF exception.unwinding /\ ~undefined
                                THEN Err(exception.current) ELSE Ok)
           ELSE IF f.direct THEN Ends(rest, Ok) ELSE GoesOn(rest)
        /\ UNCHANGED <<exception, due>>

(* The frames of a generator that yields are left to resumeGenerator.      *)
Yield(c) ==
    LET g == Top(frames).gen
    IN  /\ Instruction
        /\ exception.unwinding => "yield" \in Patterns
        /\ g # Null
        /\ generators' = [generators EXCEPT ![g] = [state |-> "yield", covered |-> c]]
        /\ Ends(frames, Ok)
        /\ UNCHANGED <<nextRegSlot, exception, due>>

-----------------------------------------------------------------------------
(* Native functions.                                                       *)

(* A new loop is begun on top of fs.  A try block lies above the innermost *)
(* boundary there: no exception that comes out of the loop crosses both.   *)
Guarded(fs) == "nested" \in Patterns \/ Len(loops) = 1 \/ Handler(fs) >= Boundary(fs)

Awaiting(native, entry, g) ==
    [native |-> native, entry |-> entry, gen |-> g, count |-> Len(frames)]

CallNative(native, c) ==
    /\ Unhindered
    /\ frames' = At(c)
    /\ loops' = [loops EXCEPT ![Len(loops)].call = Awaiting(native, "none", Null)]
    /\ UNCHANGED <<nextRegSlot, exception, reply, generators, due>>

InNative ==
    /\ loops # <<>>
    /\ reply = NoReply
    /\ Top(loops).call.native \in Natives
    /\ Top(loops).call.entry = "none"
    /\ fuel > 0
    /\ fuel' = fuel - 1

NativeReturns ==
    /\ InNative
    /\ NativeSucceeds(frames, exception)
    /\ UNCHANGED <<nextRegSlot, generators>>

NativeThrows(v) ==
    /\ InNative
    /\ NativeFails(frames, exception, v)
    /\ UNCHANGED <<nextRegSlot, generators>>

(* executeUserFunctionSafe: the callback runs in a loop of its own.        *)
CallBack(size) ==
    /\ InNative
    /\ Guarded(frames)
    /\ Len(frames) + 2 <= MaxFrames
    /\ exception' = IF exception.unwinding /\ exception.current = Null THEN Quiet ELSE exception
    /\ prepareCall(Append(frames, Sentinel), size, TRUE)
    /\ loops' = Append([loops EXCEPT ![Len(loops)].call.entry = "call"], Loop(Len(frames')))
    /\ UNCHANGED <<reply, generators, due>>

(* Mutant: the error leaves the frames it left behind unmarked.            *)
UserFunctionReturnsQuiet ==
    LET failed == exception.unwinding /\ exception.current # Null
    IN  /\ loops # <<>>
        /\ reply # NoReply
        /\ Top(loops).call.entry = "call"
        /\ CallbackEnds(frames,
                        IF failed THEN Quiet ELSE exception,
                        IF failed THEN Err(exception.current)
                        ELSE IF reply.status = "error" THEN Err(ErrText) ELSE Ok)
        /\ UNCHANGED <<nextRegSlot, generators, fuel>>

(* ... and the exception that ended it becomes an error; what is left of   *)
(* it are the flags, and the frames from the sentinel on.                  *)
UserFunctionReturns ==
    LET failed == exception.unwinding /\ exception.current # Null
    IN  /\ loops # <<>>
        /\ reply # NoReply
        /\ Top(loops).call.entry = "call"
        /\ CallbackEnds(frames,
                        IF failed THEN [exception EXCEPT !.current = Null] ELSE exception,
                        IF failed THEN Err(exception.current)
                        ELSE IF reply.status = "error" THEN Err(ErrText) ELSE Ok)
        /\ UNCHANGED <<nextRegSlot, generators, fuel>>

-----------------------------------------------------------------------------
(* Generators.                                                             *)

SetState(g, state) == [generators EXCEPT ![g] = [state |-> state, covered |-> FALSE]]

Generator(g) == [Code(nextRegSlot, GeneratorSize) EXCEPT !.gen = g]

Resumed(fs, g) == fs \o <<Sentinel, Generator(g)>>

(* The body of g runs in a loop of its own, on top of fs.                  *)
Resume(fs, native, entry, g) ==
    /\ Guarded(SubSeq(fs, 1, Len(frames)))
    /\ Len(frames) + 2 <= MaxFrames
    /\ frames' = fs
    /\ nextRegSlot' = nextRegSlot + GeneratorSize
    /\ generators' = SetState(g, "executing")
    /\ loops' = Append([loops EXCEPT ![Len(loops)].call = Awaiting(native, entry, g)],
                       Loop(Len(fs)))
    /\ UNCHANGED reply

(* resumeGenerator: the frame of the generator is a boundary itself.       *)
ResumeNext(fs, native, g) ==
    /\ generators[g].state \in {"start", "yield"}
    /\ Resume([Resumed(fs, g) EXCEPT ![Len(fs) + 2].direct = TRUE], native, "next", g)
    /\ UNCHANGED <<exception, due>>

GeneratorNext(g, c) ==
    /\ Unhindered
    /\ \/ ResumeNext(At(c), "generator", g)
       \/ /\ generators[g].state = "executing"
          /\ NativeFails(At(c), exception, ErrText)
          /\ UNCHANGED <<nextRegSlot, generators>>
       \/ /\ generators[g].state = "completed"
          /\ NativeSucceeds(At(c), exception)
          /\ UNCHANGED <<nextRegSlot, generators>>

(* A native function iterates over g.                                      *)
NativeNext(g) ==
    /\ InNative
    /\ \/ ResumeNext(frames, Top(loops).call.native, g)
       \/ /\ generators[g].state = "executing"
          /\ CallbackEnds(frames, exception, Err(ErrText))
          /\ UNCHANGED <<nextRegSlot, generators>>
       \/ /\ generators[g].state = "completed"
          /\ CallbackEnds(frames, exception, Ok)
          /\ UNCHANGED <<nextRegSlot, generators>>

(* The exception is thrown at the yield.  If the body does not handle it   *)
(* the generator is completed, and nothing of it is left.                  *)
GeneratorThrow(g, v, c) ==
    LET fs == [Resumed(At(c), g) EXCEPT ![Len(frames) + 2].covered = generators[g].covered]
        r  == throwException(fs, exception, v)
    IN  /\ Unhindered
        /\ \/ /\ generators[g].state = "yield"
              /\ ~r.exception.unwinding
              /\ Resume(r.frames, "generator", "throw", g)
              /\ exception' = r.exception
              /\ due' = Due(fs, exception, r)
           \/ /\ generators[g].state = "yield"
              /\ r.exception.unwinding
              /\ generators' = SetState(g, "completed")
              /\ NativeFails(PopSentinel(Pop(r.frames)), Quiet, v)
              /\ UNCHANGED nextRegSlot
           \/ /\ generators[g].state \in {"start", "completed"}
              /\ generators' = SetState(g, "completed")
              /\ NativeFails(At(c), exception, v)
              /\ UNCHANGED nextRegSlot
           \/ /\ generators[g].state = "executing"
              /\ NativeFails(At(c), exception, ErrText)
              /\ UNCHANGED <<nextRegSlot, generators>>

(* Without a finally block at the yield, return() runs nothing.            *)
GeneratorReturn(g, c) ==
    /\ Unhindered
    /\ \/ /\ generators[g].state = "executing"
          /\ NativeFails(At(c), exception, ErrText)
          /\ UNCHANGED <<nextRegSlot, generators>>
       \/ /\ generators[g].state # "executing"
          /\ generators' = SetState(g, "completed")
          /\ NativeSucceeds(At(c), exception)
          /\ UNCHANGED nextRegSlot

(* The loop of a generator has ended: on an error, by a yield, or because  *)
(* the body has returned.  The frames it leaves behind are popped.         *)
GeneratorReturns ==
    LET call   == Top(loops).call
        g      == call.gen
        rest   == Pop(frames)
        failed == exception.current # Null /\ (exception.unwinding \/ call.entry = "throw")
        error  == Err(IF failed THEN exception.current ELSE ErrText)
    IN  /\ loops # <<>>
        /\ reply # NoReply
        /\ call.entry \in {"next", "throw"}
        /\ \/ /\ reply.status = "error"
              /\ call.entry = "next"
              /\ generators' = SetState(g, "completed")
              /\ nextRegSlot' = IF rest = <<>> THEN nextRegSlot ELSE nextRegSlot - GeneratorSize
              /\ CallbackEnds(PopSentinel(rest), exception, error)
           \/ /\ reply.status = "error"
              /\ call.entry = "throw"
              /\ generators' = SetState(g, "completed")
              /\ CallbackEnds(frames, exception, error)
              /\ UNCHANGED nextRegSlot
           \/ /\ reply.status = "ok"
              /\ generators[g].state = "yield"
              /\ nextRegSlot' = nextRegSlot - GeneratorSize
              /\ CallbackEnds(PopSentinel(rest), exception, reply)
              /\ UNCHANGED generators
           \/ /\ reply.status = "ok"
              /\ generators[g].state = "completed"
              /\ CallbackEnds(PopSentinel(frames), exception, reply)
              /\ UNCHANGED <<nextRegSlot, generators>>
           \/ /\ reply.status = "ok"
              /\ generators[g].state = "executing"
              /\ CallbackEnds(frames, exception, reply)
              /\ UNCHANGED <<nextRegSlot, generators>>
        /\ UNCHANGED fuel

-----------------------------------------------------------------------------
FramesNext ==
    \/ EndOfInstruction
    \/ ScriptReturns
    \/ NativeReturns
    \/ UserFunctionReturns
    \/ GeneratorReturns
    \/ \E size \in Sizes : TailCall(size) \/ CallBack(size)
    \/ \E undefined \in BOOLEAN : Return(undefined)
    \/ \E v \in Values : NativeThrows(v)
    \/ \E g \in Generators : NativeNext(g)
    \/ \E c \in BOOLEAN :
          \/ \E size \in Sizes : Call(size, c)
          \/ \E v \in Values : Throw(v, c)
          \/ \E native \in Natives : CallNative(native, c)
          \/ Yield(c)
          \/ \E g \in Generators :
                \/ GeneratorNext(g, c)
                \/ GeneratorReturn(g, c)
                \/ \E v \in Values : GeneratorThrow(g, v, c)

FramesSpec == FramesInit /\ [][FramesNext]_frameVars

-----------------------------------------------------------------------------
FrameType(f) ==
    /\ f.kind \in {"code", "sentinel"}
    /\ {f.direct, f.covered} \subseteq BOOLEAN
    /\ f.gen \in Generators \cup {Null}
    /\ {f.base, f.alloc, f.size} \subseteq Nat

LoopType(l) ==
    /\ l.at \in Nat \ {0}
    /\ l.call.native \in Natives \cup {"none", "generator"}
    /\ l.call.entry \in {"none", "call", "next", "throw"}
    /\ l.call.gen \in Generators \cup {Null}
    /\ l.call.count \in Nat

FrameTypesOK ==
    /\ \A i \in DOMAIN frames : FrameType(frames[i])
    /\ nextRegSlot \in Nat
    /\ {exception.unwinding, exception.crossed} \subseteq BOOLEAN
    /\ exception.current \in Values \cup {ErrText, Null}
    /\ \A i \in DOMAIN loops : LoopType(loops[i])
    /\ reply.status \in {"none", "ok", "error"}
    /\ reply.value \in Values \cup {ErrText, Null}
    /\ \A g \in Generators :
          /\ generators[g].state \in {"start", "yield", "executing", "completed"}
          /\ generators[g].covered \in BOOLEAN
    /\ fuel \in 0..MaxSteps

(* Each loop finds its frame again when control comes back to it, however  *)
(* the calls above it ended: below every nested loop lies its sentinel, on *)
(* the frame of the call, and the innermost loop executes the top frame.   *)
LoopsOwnFrames ==
    /\ \A i \in 1..Len(loops) - 1 :
          /\ loops[i].call # NoCall
          /\ loops[i].at < loops[i + 1].at
          /\ reply = NoReply => IsSentinel(frames, loops[i].at + 1)
    /\ loops # <<>> /\ reply = NoReply =>
          /\ Top(loops).at = Len(frames)
          /\ Top(frames).kind = "code"

(* No two active functions share a register.                               *)
WindowsDisjoint ==
    LET active == {i \in DOMAIN frames : frames[i].kind = "code"}
    IN  \A i \in active :
          /\ frames[i].base + frames[i].alloc <= nextRegSlot
          /\ \A j \in active : i < j => frames[i].base + frames[i].alloc <= frames[j].base

(* Natives left aside, the frames behave as a stack of calls: a call       *)
(* returns to its caller, an exception arrives at the innermost try block  *)
(* around the throw over any boundary on the way, or ends the script, and  *)
(* each generator is resumed only where it is suspended.                   *)
LiveTop ==
    IF exception.unwinding THEN IF due \in DOMAIN frames THEN due ELSE 0
    ELSE IF loops = <<>> THEN 0 ELSE Top(loops).at

(* The code frames among the first n are calls, each at its rank.          *)
CallsOf(fs, n) ==
    LET Gaps(i)  == Cardinality({j \in 1..i : fs[j].kind = "sentinel"})
        Frame(k) == CHOOSE i \in k..n : fs[i].kind = "code" /\ i - Gaps(i) = k
        View(i)  == [gen |-> fs[i].gen, covered |-> fs[i].covered /\ i # n]
    IN  [k \in 1..n - Gaps(n) |-> View(Frame(k))]

CallsMade == CallsOf(frames, LiveTop)

Bodies ==
    [g \in Generators |->
        IF generators[g].state = "executing" /\ \A i \in 1..LiveTop : frames[i].gen # g
        THEN [generators[g] EXCEPT !.state = "completed"] ELSE generators[g]]

CS == INSTANCE CallStack WITH
        stack   <- CallsMade,
        bodies  <- Bodies,
        outcome <- IF exception.unwinding /\ due = 0 THEN "error"
                   ELSE IF loops = <<>> THEN reply.status ELSE "none"

KeepsCallStack == CS!CSSpec

(* The registers of the frames that an exception unwinds are given back    *)
(* ("Register cleanup is handled by the frame management", exceptions.go). *)
RegistersReclaimed ==
    Running /\ ~exception.unwinding =>
        nextRegSlot = Top(frames).base + Top(frames).alloc
=============================================================================
