----------------------------- MODULE Upvalues ------------------------------
(***************************************************************************)
(* Closures and the variables they share (pkg/vm: vm.go, function.go).     *)
(*                                                                         *)
(* A local variable lives in a register of its function's window.  A       *)
(* closure that captures it holds an Upvalue, which points at the register *)
(* while the function runs; when the register is about to be given to      *)
(* something else the upvalue is closed: it takes the value along.  The    *)
(* machine has no record of variables.  It has the map of open upvalues by *)
(* register, and a flag per frame that says whether there is anything to   *)
(* close.                                                                  *)
(*                                                                         *)
(* The variables themselves are history: which register holds which one    *)
(* and what the program last assigned to it.  Spilled variables, whose     *)
(* slots are not reused, the uninitialised marker of let, the sentinel     *)
(* frame under a generator and await, which saves registers as yield does, *)
(* are left out.                                                           *)
(***************************************************************************)
EXTENDS Integers

CONSTANTS
    Values,          \* what a variable may be
    Undefined,
    Generators,      \* the generator objects
    NoGenerator,     \* stands for a frame without one
    Sizes,           \* register windows of the functions that are called
    RegFileSize,     \* registers of the machine
    MaxFrames,       \* frames of the machine
    MaxVariables,    \* bound: variables a program declares
    MaxUpvalues,     \* bound: upvalues it makes
    Patterns         \* which programs are considered besides: those that "redeclare" a
                     \* captured variable (a loop comes back to the let in its body), that
                     \* throw through ("throws") or yield from ("yields") a function whose
                     \* variables are captured

ASSUME SizesAssumption == Sizes \subseteq Nat \ {0}

ASSUME BoundsAssumption ==
    /\ RegFileSize \in Nat \ {0}
    /\ MaxFrames \in Nat \ {0}
    /\ MaxVariables \in Nat
    /\ MaxUpvalues \in Nat

ASSUME PatternsAssumption == Patterns \subseteq {"redeclares", "throws", "yields"}

ASSUME UndefinedAssumption == Undefined \in Values

ASSUME NoGeneratorAssumption == NoGenerator \notin Generators

VARIABLES
    registerStack,   \* the value in each register
    nextRegSlot,     \* the registers handed out
    frames,          \* vm.frames: the window, the closure and the generator of each call
    frameCount,
    hasOwnUpvalues,  \* the flag of each frame; it outlives the calls that use the frame
    location,        \* where each upvalue points; 0 when it is closed
    closed,          \* the value of each closed upvalue
    upvalueCount,    \* the upvalues made so far
    generators,      \* the state of each generator object and what it saved
    holds,           \* history: the variable in each register; 0 for none
    variableCount,   \* history: the variables declared so far
    current,         \* history: what the program last assigned to each
    captures         \* history: the <<upvalue, variable>> of the closures made

vars == <<registerStack, nextRegSlot, frames, frameCount, hasOwnUpvalues, location, closed,
          upvalueCount, generators, holds, variableCount, current, captures>>

stack     == <<nextRegSlot, frames, frameCount>>
upvalues  == <<location, closed, upvalueCount, captures>>
variables == <<variableCount, current>>

-----------------------------------------------------------------------------
Slots     == 1..RegFileSize
Variables == 1..MaxVariables
Upvals    == 1..MaxUpvalues
Depths    == 1..MaxFrames

NoClosure   == <<0, 0>>

(* A call: alloc is allocatedRegSize, size the RegisterSize of the function. *)
Frame(base, size, closure, gen) ==
    [base |-> base, alloc |-> size, size |-> size, closure |-> closure, gen |-> gen]

Top         == frames[frameCount]
Window(f)   == frames[f].base + 1 .. frames[f].base + frames[f].alloc
Captured(s) == \E u \in Upvals : location[u] = s

(* What the patterns are about: a captured variable in the topmost window. *)
TopIsCaptured == \E s \in Window(frameCount) : Captured(s)

(* OpLoadFree, Upvalue.Resolve.                                            *)
Resolve(u) == IF location[u] = 0 THEN closed[u] ELSE registerStack[location[u]]

Init ==
    /\ registerStack = [s \in Slots |-> Undefined]
    /\ nextRegSlot = 1
    /\ frames = [f \in Depths |-> Frame(0, 1, NoClosure, NoGenerator)]
    /\ frameCount = 1
    /\ hasOwnUpvalues = [f \in Depths |-> FALSE]
    /\ location = [u \in Upvals |-> 0]
    /\ closed = [u \in Upvals |-> Undefined]
    /\ upvalueCount = 0
    /\ generators = [g \in Generators |->
                        [state |-> "new", size |-> 0, closure |-> NoClosure,
                         registers |-> registerStack, holds |-> [s \in Slots |-> 0]]]
    /\ holds = [s \in Slots |-> 0]
    /\ variableCount = 0
    /\ current = [x \in Variables |-> Undefined]
    /\ captures = {}

-----------------------------------------------------------------------------
(* Variables of the running function.                                      *)

(* let and const: the register allocator gives no register twice while its *)
(* variable is captured, but a loop comes back to the same instruction.    *)
Declare(s, v) ==
    /\ s \in Window(frameCount)
    /\ variableCount < MaxVariables
    /\ "redeclares" \in Patterns \/ ~Captured(s)
    /\ registerStack' = [registerStack EXCEPT ![s] = v]
    /\ holds' = [holds EXCEPT ![s] = variableCount + 1]
    /\ variableCount' = variableCount + 1
    /\ current' = [current EXCEPT ![variableCount + 1] = v]
    /\ UNCHANGED <<stack, hasOwnUpvalues, upvalues, generators>>

Assign(s, v) ==
    /\ s \in Window(frameCount)
    /\ holds[s] # 0
    /\ registerStack' = [registerStack EXCEPT ![s] = v]
    /\ current' = [current EXCEPT ![holds[s]] = v]
    /\ UNCHANGED <<stack, hasOwnUpvalues, upvalues, generators, holds, variableCount>>

(* Mutant: each closure gets an upvalue of its own.                        *)
captureUpvalueEach(s) ==
    /\ upvalueCount < MaxUpvalues
    /\ upvalueCount' = upvalueCount + 1
    /\ location' = [location EXCEPT ![upvalueCount + 1] = s]
    /\ hasOwnUpvalues' = [hasOwnUpvalues EXCEPT ![frameCount] = TRUE]
    /\ captures' = captures \cup {<<upvalueCount + 1, holds[s]>>}

(* The closures that capture a variable share the upvalue of its register. *)
captureUpvalue(s) ==
    \/ \E u \in Upvals :
        /\ location[u] = s
        /\ captures' = captures \cup {<<u, holds[s]>>}
        /\ UNCHANGED <<upvalueCount, location, hasOwnUpvalues>>
    \/ /\ ~Captured(s)
       /\ upvalueCount < MaxUpvalues
       /\ upvalueCount' = upvalueCount + 1
       /\ location' = [location EXCEPT ![upvalueCount + 1] = s]
       /\ hasOwnUpvalues' = [hasOwnUpvalues EXCEPT ![frameCount] = TRUE]
       /\ captures' = captures \cup {<<upvalueCount + 1, holds[s]>>}

(* OpClosure.  A variable of an outer function is captured by taking the   *)
(* upvalue of the running closure over, which changes nothing here.        *)
Capture(s) ==
    /\ s \in Window(frameCount)
    /\ holds[s] # 0
    /\ captureUpvalue(s)
    /\ UNCHANGED <<registerStack, stack, closed, generators, holds, variables>>

(* OpSetUpvalue: an assignment to a captured variable of an outer function. *)
SetUpvalue(v) ==
    LET u == Top.closure[1]
        x == Top.closure[2]
    IN  /\ Top.closure # NoClosure
        /\ IF location[u] = 0
           THEN /\ closed' = [closed EXCEPT ![u] = v]
                /\ UNCHANGED registerStack
           ELSE /\ registerStack' = [registerStack EXCEPT ![location[u]] = v]
                /\ UNCHANGED closed
        /\ current' = [current EXCEPT ![x] = v]
        /\ UNCHANGED <<stack, hasOwnUpvalues, location, upvalueCount, captures, generators,
                       holds, variableCount>>

(* Upvalues into S take the values of their registers along.               *)
Close(S) ==
    /\ location' = [u \in Upvals |-> IF location[u] \in S THEN 0 ELSE location[u]]
    /\ closed' = [u \in Upvals |->
                    IF location[u] \in S THEN registerStack[location[u]] ELSE closed[u]]
    /\ UNCHANGED <<upvalueCount, captures>>

(* OpCloseUpvalue at the end of an iteration: the variable of a loop head  *)
(* becomes another one, with the same value.                               *)
NextIteration(s) ==
    /\ s \in Window(frameCount)
    /\ holds[s] # 0
    /\ variableCount < MaxVariables
    /\ Close({s})
    /\ holds' = [holds EXCEPT ![s] = variableCount + 1]
    /\ variableCount' = variableCount + 1
    /\ current' = [current EXCEPT ![variableCount + 1] = registerStack[s]]
    /\ UNCHANGED <<registerStack, stack, hasOwnUpvalues, generators>>

-----------------------------------------------------------------------------
(* Calls.                                                                  *)

Closures == {NoClosure} \cup captures

Push(size, closure, gen) ==
    /\ frameCount < MaxFrames
    /\ nextRegSlot + size <= RegFileSize
    /\ frames' = [frames EXCEPT ![frameCount + 1] = Frame(nextRegSlot, size, closure, gen)]
    /\ frameCount' = frameCount + 1
    /\ nextRegSlot' = nextRegSlot + size

NewWindow(base, size) == base + 1 .. base + size

Forget(S) == holds' = [s \in Slots |-> IF s \in S THEN 0 ELSE holds[s]]

(* prepareCall.  Parameters are declared by the steps that follow.         *)
Call(size, closure) ==
    /\ Push(size, closure, NoGenerator)
    /\ Forget(NewWindow(nextRegSlot, size))
    /\ UNCHANGED <<registerStack, hasOwnUpvalues, upvalues, generators, variables>>

StartGenerator(g, size, closure) ==
    /\ generators[g].state = "new"
    /\ Push(size, closure, g)
    /\ generators' = [generators EXCEPT ![g].state = "executing"]
    /\ Forget(NewWindow(nextRegSlot, size))
    /\ UNCHANGED <<registerStack, hasOwnUpvalues, upvalues, variables>>

closeUpvalues ==
    /\ hasOwnUpvalues' = [hasOwnUpvalues EXCEPT ![frameCount] = FALSE]
    /\ Close(IF hasOwnUpvalues[frameCount] THEN Window(frameCount) ELSE {})

Completed ==
    generators' = [g \in Generators |->
                    IF g = Top.gen THEN [generators[g] EXCEPT !.state = "completed"]
                                   ELSE generators[g]]

(* OpReturn gives back what was allocated, OpReturnUndefined what the      *)
(* function needs, which after a tail call may be less.                    *)
Return ==
    /\ frameCount > 1
    /\ closeUpvalues
    /\ frameCount' = frameCount - 1
    /\ \E size \in {Top.alloc, Top.size} : nextRegSlot' = nextRegSlot - size
    /\ Completed
    /\ UNCHANGED <<registerStack, frames, holds, variables>>

(* OpTailCall takes the frame over.  A window that is too small moves to   *)
(* the registers handed out last, none is made smaller.                    *)
TailCall(size, closure) ==
    LET grows == size > Top.alloc
        base  == IF grows THEN nextRegSlot - Top.alloc ELSE Top.base
        alloc == IF grows THEN size ELSE Top.alloc
    IN  /\ frameCount > 1
        /\ Top.gen = NoGenerator
        /\ size <= RegFileSize - nextRegSlot + Top.alloc
        /\ closeUpvalues
        /\ frames' = [frames EXCEPT ![frameCount] =
                        [Frame(base, size, closure, NoGenerator) EXCEPT !.alloc = alloc]]
        /\ nextRegSlot' = IF grows THEN base + size ELSE nextRegSlot
        /\ registerStack' = [s \in Slots |->
                IF s \in NewWindow(base, alloc) THEN Undefined ELSE registerStack[s]]
        /\ Forget(NewWindow(base, alloc))
        /\ UNCHANGED <<frameCount, generators, variables>>

(* unwindException pops a frame without a handler: nothing is closed, and  *)
(* registers are given back for generators only, by the function that      *)
(* resumed them.                                                           *)
Unwind ==
    /\ frameCount > 1
    /\ "throws" \in Patterns \/ ~TopIsCaptured
    /\ frameCount' = frameCount - 1
    /\ nextRegSlot' = IF Top.gen = NoGenerator THEN nextRegSlot ELSE nextRegSlot - Top.size
    /\ Completed
    /\ UNCHANGED <<registerStack, frames, hasOwnUpvalues, upvalues, holds, variables>>

(* OpYield and what resumeGenerator does when the loop is back.            *)
Yield ==
    LET Saved(f) == [i \in Slots |-> IF i <= Top.alloc THEN f[Top.base + i] ELSE f[i]]
    IN  /\ frameCount > 1
        /\ Top.gen \in Generators
        /\ "yields" \in Patterns \/ ~TopIsCaptured
        /\ generators' = [generators EXCEPT ![Top.gen] =
                            [state |-> "suspended", size |-> Top.size, closure |-> Top.closure,
                             registers |-> Saved(registerStack), holds |-> Saved(holds)]]
        /\ frameCount' = frameCount - 1
        /\ nextRegSlot' = nextRegSlot - Top.size
        /\ UNCHANGED <<registerStack, frames, hasOwnUpvalues, upvalues, holds, variables>>

(* resumeGenerator: the registers are copied to a window of any frame.     *)
Resume(g) ==
    LET from == generators[g]
        Restored(f, now) ==
            [s \in Slots |-> IF s \in NewWindow(nextRegSlot, from.size)
                             THEN f[s - nextRegSlot] ELSE now[s]]
    IN  /\ from.state = "suspended"
        /\ Push(from.size, from.closure, g)
        /\ registerStack' = Restored(from.registers, registerStack)
        /\ holds' = Restored(from.holds, holds)
        /\ generators' = [generators EXCEPT ![g].state = "executing"]
        /\ UNCHANGED <<hasOwnUpvalues, upvalues, variables>>

Next ==
    \/ \E s \in Slots, v \in Values : Declare(s, v) \/ Assign(s, v)
    \/ \E s \in Slots : Capture(s) \/ NextIteration(s)
    \/ \E v \in Values : SetUpvalue(v)
    \/ \E size \in Sizes, closure \in Closures :
        \/ Call(size, closure)
        \/ TailCall(size, closure)
        \/ \E g \in Generators : StartGenerator(g, size, closure)
    \/ Return
    \/ Unwind
    \/ Yield
    \/ \E g \in Generators : Resume(g)

Spec == Init /\ [][Next]_vars

-----------------------------------------------------------------------------
(* Properties.                                                             *)

(* The closures that captured a variable and the function that declares it *)
(* see one variable: whoever reads it, through an upvalue that is open or  *)
(* closed, in its register or in the registers of a suspended generator,   *)
(* reads what the program last assigned to it, however often its register  *)
(* has changed hands (captureUpvalue, closeUpvalues, OpCloseUpvalue).      *)
VariablesAreShared ==
    /\ \A c \in captures : Resolve(c[1]) = current[c[2]]
    /\ \A f \in 1..frameCount : \A s \in Window(f) :
        holds[s] # 0 => registerStack[s] = current[holds[s]]
    /\ \A g \in Generators : \A i \in 1..generators[g].size :
        generators[g].state = "suspended" /\ generators[g].holds[i] # 0
            => generators[g].registers[i] = current[generators[g].holds[i]]
=============================================================================
