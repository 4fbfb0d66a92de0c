--------------------------- MODULE UpvaluesProofs ---------------------------
(***************************************************************************)
(* Captured variables are shared, proved for any number of registers,      *)
(* frames, variables and upvalues, and for any functions and values.       *)
(*                                                                         *)
(* VariablesAreShared is not inductive: it says nothing of the machine's   *)
(* own records.  What keeps it is that every open upvalue points into the  *)
(* window of a call that is still running and whose flag is set, that no   *)
(* two of them point at one register, that the windows are disjoint, and   *)
(* that a variable has one home: a register in use, a saved register, or,  *)
(* once no register holds it, its closed upvalue.                          *)
(***************************************************************************)
EXTENDS Upvalues, TLAPS

Pair == Nat \X Nat

FrameType ==
    [base: Nat, alloc: Nat, size: Nat, closure: Pair, gen: Generators \cup {NoGenerator}]

GeneratorType ==
    [state: {"new", "executing", "suspended", "completed"}, size: Nat, closure: Pair,
     registers: [Slots -> Values], holds: [Slots -> 0..MaxVariables]]

StackType ==
    /\ nextRegSlot \in 0..RegFileSize
    /\ frames \in [Depths -> FrameType]
    /\ frameCount \in Depths
    /\ generators \in [Generators -> GeneratorType]

DataType ==
    /\ registerStack \in [Slots -> Values]
    /\ holds \in [Slots -> 0..MaxVariables]
    /\ hasOwnUpvalues \in [Depths -> BOOLEAN]
    /\ location \in [Upvals -> 0..RegFileSize]
    /\ closed \in [Upvals -> Values]
    /\ upvalueCount \in 0..MaxUpvalues
    /\ variableCount \in 0..MaxVariables
    /\ current \in [Variables -> Values]
    /\ captures \subseteq (1..upvalueCount) \X (1..variableCount)

(* The windows of the calls in progress, from below, within what is handed *)
(* out.  What an exception leaves behind lies between them.                *)
Layout ==
    /\ \A f \in 1..frameCount :
        /\ frames[f].size <= frames[f].alloc
        /\ frames[f].base + frames[f].alloc <= nextRegSlot
        /\ frames[f].gen # NoGenerator => frames[f].alloc = frames[f].size
        /\ frames[f].closure \in Closures
    /\ \A f, h \in 1..frameCount :
        f < h => frames[f].base + frames[f].alloc <= frames[h].base
    /\ \A g \in Generators : generators[g].state = "suspended" =>
        /\ generators[g].size <= RegFileSize
        /\ generators[g].closure \in Closures

InUse == {s \in Slots : \E f \in 1..frameCount : s \in Window(f)}

Suspended(g) == generators[g].state = "suspended"

(* Where variables live: registers in use and saved registers.             *)
Homes == {s \in InUse : holds[s] # 0}

SavedHomes == {p \in Generators \X Slots :
    Suspended(p[1]) /\ p[2] <= generators[p[1]].size /\ generators[p[1]].holds[p[2]] # 0}

SavedVariable(p) == generators[p[1]].holds[p[2]]
SavedValue(p)    == generators[p[1]].registers[p[2]]

(* A frame whose variables are captured says so.                           *)
FlagsCover ==
    \A f \in 1..frameCount, u \in Upvals :
        location[u] \in Window(f) => hasOwnUpvalues[f]

OpenUpvalues ==
    /\ \A u \in Upvals : location[u] # 0 => location[u] \in Homes /\ u <= upvalueCount
    /\ \A u, w \in Upvals : location[u] # 0 /\ location[u] = location[w] => u = w

(* One home for each variable that has one.                                *)
OneHome ==
    /\ \A s \in Homes : holds[s] <= variableCount
    /\ \A s, t \in Homes : holds[s] = holds[t] => s = t
    /\ \A p \in SavedHomes : SavedVariable(p) <= variableCount
    /\ \A p, q \in SavedHomes : SavedVariable(p) = SavedVariable(q) => p = q
    /\ \A p \in SavedHomes, s \in Homes : SavedVariable(p) # holds[s]
    /\ \A p \in SavedHomes, c \in captures : SavedVariable(p) # c[2]

CapturesMatch ==
    /\ \A c \in captures :
        /\ location[c[1]] # 0 => holds[location[c[1]]] = c[2]
        /\ location[c[1]] = 0 => /\ closed[c[1]] = current[c[2]]
                                 /\ \A s \in Homes : holds[s] # c[2]
    /\ \A c, d \in captures : c[1] = d[1] <=> c[2] = d[2]

RegistersMatch ==
    /\ \A s \in Homes : registerStack[s] = current[holds[s]]
    /\ \A p \in SavedHomes : SavedValue(p) = current[SavedVariable(p)]

DataInv == OpenUpvalues /\ OneHome /\ CapturesMatch /\ RegistersMatch

IInv == StackType /\ DataType /\ Layout /\ FlagsCover /\ DataInv

USE BoundsAssumption, SizesAssumption, UndefinedAssumption, NoGeneratorAssumption

-----------------------------------------------------------------------------
(* The stack of windows.                                                   *)

LEMMA WindowsApart ==
  ASSUME StackType, Layout
  PROVE  /\ \A f \in 1..frameCount : f \in Depths /\ frames[f] \in FrameType
         /\ \A f \in 1..frameCount : Window(f) \subseteq 1..nextRegSlot
         /\ \A f \in 1..frameCount : Window(f) \subseteq InUse
         /\ \A f, h \in 1..frameCount : f # h => Window(f) \cap Window(h) = {}
<1>1. ASSUME NEW f \in 1..frameCount PROVE f \in Depths /\ frames[f] \in FrameType
  BY DEF StackType, Depths
<1>2. ASSUME NEW f \in 1..frameCount
      PROVE  Window(f) \subseteq 1..nextRegSlot /\ Window(f) \subseteq InUse
  <2>1. Window(f) \subseteq 1..nextRegSlot
    BY <1>1 DEF Layout, Window, StackType, FrameType
  <2>2. 1..nextRegSlot \subseteq Slots
    BY DEF StackType, Slots
  <2> QED
    BY <2>1, <2>2 DEF InUse
<1>3. ASSUME NEW f \in 1..frameCount, NEW h \in 1..frameCount, f < h
      PROVE  Window(f) \cap Window(h) = {}
  BY <1>1, <1>3 DEF Layout, Window, FrameType
<1>4. ASSUME NEW f \in 1..frameCount, NEW h \in 1..frameCount, f # h
      PROVE  Window(f) \cap Window(h) = {}
  <2>1. f < h \/ h < f
    BY <1>4 DEF StackType, Depths
  <2> QED
    BY <1>3, <2>1
<1> QED
  BY <1>1, <1>2, <1>4

LEMMA InUseIsHandedOut ==
  ASSUME StackType, Layout
  PROVE  \A s \in InUse : s \in Slots /\ s <= nextRegSlot
BY WindowsApart DEF InUse, Slots, StackType

(* A call ends: its window is no longer in use, the others are.            *)
LEMMA PopLayout ==
  ASSUME StackType, Layout, frameCount > 1, frameCount' = frameCount - 1,
         frames' = frames, captures' = captures,
         NEW given \in 0..Top.alloc, nextRegSlot' = nextRegSlot - given,
         generators' \in [Generators -> GeneratorType],
         \A g \in Generators : Suspended(g)' =>
            generators'[g].size <= RegFileSize /\ generators'[g].closure \in Closures
  PROVE  StackType' /\ Layout' /\ InUse' = InUse \ Window(frameCount)
<1> USE DEF StackType
<1>1. Top \in FrameType /\ frameCount \in 1..frameCount
  BY DEF Top, Depths
<1>2. Top.base + Top.alloc <= nextRegSlot /\ Top.base \in Nat /\ Top.alloc \in Nat
  BY <1>1 DEF Layout, Top, FrameType
<1>3. nextRegSlot' \in 0..RegFileSize /\ Top.base <= nextRegSlot'
  BY <1>2
<1>4. frameCount' \in Depths
  BY DEF Depths
<1>5. StackType'
  BY <1>3, <1>4
<1>6. ASSUME NEW f \in 1..frameCount' PROVE f \in 1..frameCount /\ f < frameCount
  BY DEF Depths
<1>7. ASSUME NEW f \in 1..frameCount'
      PROVE  /\ frames[f].base + frames[f].alloc <= Top.base
             /\ frames[f] \in FrameType
  BY <1>1, <1>6 DEF Layout, Top, Depths
<1>8. Layout'
  <2>1. ASSUME NEW f \in 1..frameCount'
        PROVE  /\ frames'[f].size <= frames'[f].alloc
               /\ frames'[f].base + frames'[f].alloc <= nextRegSlot'
               /\ frames'[f].gen # NoGenerator => frames'[f].alloc = frames'[f].size
               /\ frames'[f].closure \in Closures'
    BY <1>2, <1>3, <1>6, <1>7 DEF Layout, FrameType, Closures
  <2>2. \A f, h \in 1..frameCount' :
            f < h => frames'[f].base + frames'[f].alloc <= frames'[h].base
    BY <1>6 DEF Layout
  <2>3. \A g \in Generators : generators'[g].state = "suspended" =>
            generators'[g].size <= RegFileSize /\ generators'[g].closure \in Closures'
    BY DEF Suspended, Closures
  <2> QED
    BY <2>1, <2>2, <2>3 DEF Layout
<1>9. InUse' = InUse \ Window(frameCount)
  <2>1. \A f \in 1..frameCount' : Window(f)' = Window(f) /\ Window(f) \cap Window(frameCount) = {}
    BY <1>1, <1>6, WindowsApart DEF Window
  <2>2. \A f \in 1..frameCount : f \in 1..frameCount' \/ f = frameCount
    BY DEF Depths
  <2> QED
    BY <1>6, <2>1, <2>2 DEF InUse
<1> QED
  BY <1>5, <1>8, <1>9

(* A call begins: its window is new.                                       *)
LEMMA PushLayout ==
  ASSUME StackType, Layout, NEW size \in Nat, NEW closure \in Closures,
         NEW gen \in Generators \cup {NoGenerator}, Push(size, closure, gen),
         captures' = captures, captures \subseteq Pair,
         generators' \in [Generators -> GeneratorType],
         \A g \in Generators : Suspended(g)' =>
            Suspended(g) /\ generators'[g].size = generators[g].size
                         /\ generators'[g].closure = generators[g].closure
  PROVE  /\ StackType' /\ Layout'
         /\ InUse' = InUse \cup NewWindow(nextRegSlot, size)
         /\ InUse \cap NewWindow(nextRegSlot, size) = {}
         /\ \A f \in Depths : f = frameCount + 1 => Window(f)' = NewWindow(nextRegSlot, size)
         /\ \A f \in 1..frameCount : Window(f)' = Window(f)
         /\ 1..frameCount' = (1..frameCount) \cup {frameCount'}
<1> DEFINE new == Frame(nextRegSlot, size, closure, gen)
<1>1. /\ new \in FrameType
      /\ new.base = nextRegSlot /\ new.alloc = size /\ new.size = size
      /\ new.closure = closure /\ new.gen = gen
  BY DEF Frame, FrameType, StackType, Closures, NoClosure, Pair
<1> HIDE DEF new
<1>2. /\ frames' = [frames EXCEPT ![frameCount + 1] = new]
      /\ frameCount' = frameCount + 1 /\ frameCount + 1 \in Depths
      /\ nextRegSlot' = nextRegSlot + size /\ nextRegSlot + size <= RegFileSize
  BY DEF Push, new, StackType, Depths
<1>3. StackType'
  BY <1>1, <1>2 DEF StackType
<1>4. /\ \A f \in 1..frameCount : frames'[f] = frames[f]
      /\ frames'[frameCount'] = new
      /\ 1..frameCount' = (1..frameCount) \cup {frameCount'}
      /\ \A f \in 1..frameCount : f < frameCount'
  BY <1>2 DEF StackType, Depths
<1>5. Layout'
  <2>1. ASSUME NEW f \in 1..frameCount
        PROVE  /\ frames'[f].size <= frames'[f].alloc
               /\ frames'[f].base + frames'[f].alloc <= nextRegSlot
               /\ frames'[f].base + frames'[f].alloc <= nextRegSlot'
               /\ frames'[f].gen # NoGenerator => frames'[f].alloc = frames'[f].size
               /\ frames'[f].closure \in Closures'
    BY <1>2, <1>4, WindowsApart DEF Layout, FrameType, Closures, StackType
  <2>2. /\ new.size <= new.alloc /\ new.base + new.alloc <= nextRegSlot'
        /\ new.alloc = new.size /\ new.closure \in Closures'
    BY <1>1, <1>2 DEF StackType, Closures
  <2>3. ASSUME NEW f \in 1..frameCount', NEW h \in 1..frameCount', f < h
        PROVE  frames'[f].base + frames'[f].alloc <= frames'[h].base
    <3>1. CASE h = frameCount'
      BY <3>1, <2>3, <1>1, <1>4, <2>1 DEF StackType, Depths
    <3>2. CASE h \in 1..frameCount
      <4>1. f \in 1..frameCount
        BY <3>2, <2>3, <1>4 DEF StackType, Depths
      <4> QED
        BY <3>2, <2>3, <4>1, <1>4 DEF Layout
    <3> QED
      BY <3>1, <3>2, <1>4
  <2>4. \A g \in Generators : generators'[g].state = "suspended" =>
            generators'[g].size <= RegFileSize /\ generators'[g].closure \in Closures'
    BY DEF Suspended, Closures, Layout
  <2> QED
    BY <1>4, <2>1, <2>2, <2>3, <2>4 DEF Layout
<1>6. /\ \A f \in 1..frameCount : Window(f)' = Window(f)
      /\ \A f \in Depths : f = frameCount + 1 => Window(f)' = NewWindow(nextRegSlot, size)
  BY <1>1, <1>2, <1>4 DEF Window, NewWindow
<1>7. NewWindow(nextRegSlot, size) \subseteq Slots
  BY <1>2 DEF NewWindow, Slots, StackType
<1>8. InUse' = InUse \cup NewWindow(nextRegSlot, size)
  <2>1. \A s : (\E f \in 1..frameCount' : s \in Window(f)')
                <=> (\E f \in 1..frameCount : s \in Window(f)) \/ s \in NewWindow(nextRegSlot, size)
    BY <1>2, <1>4, <1>6
  <2> QED
    BY <1>7, <2>1 DEF InUse
<1>9. InUse \cap NewWindow(nextRegSlot, size) = {}
  BY InUseIsHandedOut DEF NewWindow, StackType, Slots
<1> QED
  BY <1>3, <1>4, <1>5, <1>6, <1>8, <1>9

LEMMA TailCallLayout ==
  ASSUME StackType, DataType, Layout, NEW size \in Sizes, NEW closure \in Closures,
         TailCall(size, closure)
  PROVE  /\ StackType' /\ Layout'
         /\ InUse' = (InUse \ Window(frameCount)) \cup Window(frameCount)'
         /\ (InUse \ Window(frameCount)) \cap Window(frameCount)' = {}
         /\ \A f \in 1..frameCount : f # frameCount => Window(f)' = Window(f)
         /\ \A s \in Window(frameCount)' : holds'[s] = 0
         /\ \A s \in Slots \ Window(frameCount)' :
                holds'[s] = holds[s] /\ registerStack'[s] = registerStack[s]
<1> DEFINE grows == size > Top.alloc
           base  == IF grows THEN nextRegSlot - Top.alloc ELSE Top.base
           alloc == IF grows THEN size ELSE Top.alloc
           new   == [Frame(base, size, closure, NoGenerator) EXCEPT !.alloc = alloc]
<1>1. /\ frameCount \in Depths /\ frameCount \in 1..frameCount /\ Top \in FrameType
      /\ size \in Nat /\ closure \in Pair
  BY DEF StackType, Depths, Top, Closures, NoClosure, Pair, DataType
<1>2. /\ Top.base \in Nat /\ Top.alloc \in Nat /\ Top.base + Top.alloc <= nextRegSlot
      /\ nextRegSlot \in 0..RegFileSize
  BY <1>1 DEF Layout, Top, FrameType, StackType
<1>3. /\ base \in Nat /\ alloc \in Nat /\ size <= alloc /\ Top.base <= base
      /\ base + alloc <= RegFileSize
  BY <1>1, <1>2 DEF TailCall
<1>4. nextRegSlot' \in 0..RegFileSize /\ base + alloc <= nextRegSlot'
  BY <1>1, <1>2, <1>3 DEF TailCall
<1>5. /\ new \in FrameType /\ new.base = base /\ new.alloc = alloc /\ new.size = size
      /\ new.closure = closure /\ new.gen = NoGenerator
  BY <1>1, <1>3 DEF Frame, FrameType
<1>6. /\ frames' = [frames EXCEPT ![frameCount] = new]
      /\ frameCount' = frameCount /\ generators' = generators /\ captures' = captures
  BY DEF TailCall, closeUpvalues, Close
<1>7. /\ registerStack' = [s \in Slots |->
            IF s \in NewWindow(base, alloc) THEN Undefined ELSE registerStack[s]]
      /\ holds' = [s \in Slots |-> IF s \in NewWindow(base, alloc) THEN 0 ELSE holds[s]]
  BY DEF TailCall, Forget
<1> HIDE DEF grows, base, alloc, new
<1>8. StackType'
  BY <1>4, <1>5, <1>6 DEF StackType
<1>9. /\ frames'[frameCount] = new
      /\ \A f \in 1..frameCount : f # frameCount => f \in Depths /\ frames'[f] = frames[f]
  BY <1>1, <1>6 DEF StackType, Depths
<1>10. Layout'
  <2>1. ASSUME NEW f \in 1..frameCount'
        PROVE  /\ frames'[f].size <= frames'[f].alloc
               /\ frames'[f].base + frames'[f].alloc <= nextRegSlot'
               /\ frames'[f].gen # NoGenerator => frames'[f].alloc = frames'[f].size
               /\ frames'[f].closure \in Closures'
    <3>1. CASE f = frameCount
      BY <3>1, <1>3, <1>4, <1>5, <1>6, <1>9 DEF Closures
    <3>2. CASE f # frameCount
      <4>1. /\ f \in 1..frameCount /\ f < frameCount /\ frames'[f] = frames[f]
            /\ frames[f] \in FrameType
        BY <3>2, <1>6, <1>9, <1>1 DEF StackType, Depths
      <4>2. frames[f].base + frames[f].alloc <= Top.base
        BY <4>1, <1>1 DEF Layout, Top
      <4>3. frames'[f].base + frames'[f].alloc <= nextRegSlot'
        BY <4>1, <4>2, <1>2, <1>3, <1>4 DEF FrameType
      <4> QED
        BY <4>1, <4>3, <1>6 DEF Layout, Closures
    <3> QED
      BY <3>1, <3>2
  <2>2. ASSUME NEW f \in 1..frameCount', NEW h \in 1..frameCount', f < h
        PROVE  frames'[f].base + frames'[f].alloc <= frames'[h].base
    <3>1. /\ f \in 1..frameCount /\ h \in 1..frameCount /\ f # frameCount
          /\ frames'[f] = frames[f] /\ frames[f] \in FrameType
      BY <2>2, <1>1, <1>6, <1>9 DEF StackType, Depths
    <3>2. CASE h = frameCount
      <4>1. frames[f].base + frames[f].alloc <= Top.base
        BY <2>2, <3>1, <3>2 DEF Layout, Top
      <4> QED
        BY <3>1, <3>2, <4>1, <1>2, <1>3, <1>5, <1>9 DEF FrameType
    <3>3. CASE h # frameCount
      BY <2>2, <3>1, <3>3, <1>9 DEF Layout
    <3> QED
      BY <3>2, <3>3
  <2>3. \A g \in Generators : generators'[g].state = "suspended" =>
            generators'[g].size <= RegFileSize /\ generators'[g].closure \in Closures'
    BY <1>6 DEF Layout, Closures
  <2> QED
    BY <2>1, <2>2, <2>3 DEF Layout
<1>11. /\ Window(frameCount)' = NewWindow(base, alloc)
       /\ NewWindow(base, alloc) \subseteq Slots
       /\ \A f \in 1..frameCount : f # frameCount => Window(f)' = Window(f)
  BY <1>3, <1>5, <1>6, <1>9 DEF Window, NewWindow, Slots
<1>12. \A f \in 1..frameCount : f # frameCount =>
            Window(f) \cap NewWindow(base, alloc) = {}
  <2> SUFFICES ASSUME NEW f \in 1..frameCount, f # frameCount
               PROVE  Window(f) \cap NewWindow(base, alloc) = {}
    OBVIOUS
  <2>1. f < frameCount /\ frames[f] \in FrameType
    BY <1>1, <1>9 DEF StackType, Depths
  <2>2. frames[f].base + frames[f].alloc <= Top.base
    BY <2>1, <1>1 DEF Layout, Top
  <2> QED
    BY <2>1, <2>2, <1>2, <1>3 DEF Window, NewWindow, FrameType
<1>13. \A f \in 1..frameCount : f # frameCount => Window(f) \cap Window(frameCount) = {}
  BY <1>1, WindowsApart
<1>14. /\ InUse' = (InUse \ Window(frameCount)) \cup Window(frameCount)'
       /\ (InUse \ Window(frameCount)) \cap Window(frameCount)' = {}
  <2>1. \A s : (\E f \in 1..frameCount' : s \in Window(f)')
                <=> \/ s \in NewWindow(base, alloc)
                    \/ s \notin Window(frameCount) /\ \E f \in 1..frameCount : s \in Window(f)
    BY <1>1, <1>6, <1>11, <1>13
  <2> QED
    BY <1>11, <1>12, <2>1 DEF InUse
<1> QED
  BY <1>7, <1>8, <1>10, <1>11, <1>14

-----------------------------------------------------------------------------
(* What the homes of variables go through.                                 *)

LEMMA HomesAreSlots ==
  /\ Homes \subseteq Slots /\ Homes \subseteq InUse /\ 0 \notin Slots
  /\ \A s \in Homes : holds[s] # 0
  /\ \A s \in InUse : holds[s] # 0 => s \in Homes
BY DEF Homes, InUse, Slots

(* Saved registers stay, or a generator is done with them.                 *)
LEMMA SavedStay ==
  ASSUME \A g \in Generators : Suspended(g)' =>
            /\ Suspended(g)
            /\ generators'[g].size = generators[g].size
            /\ generators'[g].holds = generators[g].holds
            /\ generators'[g].registers = generators[g].registers
  PROVE  /\ SavedHomes' \subseteq SavedHomes
         /\ \A p \in SavedHomes' :
                SavedVariable(p)' = SavedVariable(p) /\ SavedValue(p)' = SavedValue(p)
BY DEF SavedHomes, SavedVariable, SavedValue

(* Some registers are given up, others are left as they are; the upvalues  *)
(* into the former are closed.                                             *)
LEMMA DropHomes ==
  ASSUME DataType, DataInv, UNCHANGED <<variableCount, current>>,
         Homes' \subseteq Homes,
         \A s \in Homes' : holds'[s] = holds[s] /\ registerStack'[s] = registerStack[s],
         SavedHomes' \subseteq SavedHomes,
         \A p \in SavedHomes' :
            SavedVariable(p)' = SavedVariable(p) /\ SavedValue(p)' = SavedValue(p),
         NEW S, Close(S), 0 \notin S,
         \A u \in Upvals : location[u] \in Homes => (location[u] \in Homes' <=> location[u] \notin S)
  PROVE  DataInv'
<1>1. /\ location' = [u \in Upvals |-> IF location[u] \in S THEN 0 ELSE location[u]]
      /\ closed' = [u \in Upvals |->
                        IF location[u] \in S THEN registerStack[location[u]] ELSE closed[u]]
      /\ upvalueCount' = upvalueCount /\ captures' = captures
  BY DEF Close
<1>2. OpenUpvalues'
  BY <1>1 DEF DataInv, OpenUpvalues
<1>3. OneHome'
  BY <1>1 DEF DataInv, OneHome
<1>4. CapturesMatch'
  <2>1. \A c \in captures : c[1] \in Upvals
    BY DEF DataType, Upvals
  <2>2. ASSUME NEW c \in captures, location'[c[1]] # 0
        PROVE  holds'[location'[c[1]]] = c[2]
    <3>1. location'[c[1]] = location[c[1]] /\ location[c[1]] \notin S
      BY <1>1, <2>1, <2>2
    <3>2. location[c[1]] \in Homes'
      BY <2>1, <2>2, <3>1 DEF DataInv, OpenUpvalues
    <3> QED
      BY <2>2, <3>1, <3>2 DEF DataInv, CapturesMatch
  <2>3. ASSUME NEW c \in captures, location'[c[1]] = 0
        PROVE  closed'[c[1]] = current'[c[2]] /\ \A s \in Homes' : holds'[s] # c[2]
    <3>1. CASE location[c[1]] \in S
      <4>1. /\ closed'[c[1]] = registerStack[location[c[1]]]
            /\ location[c[1]] \in Homes /\ location[c[1]] \notin Homes'
            /\ holds[location[c[1]]] = c[2]
        BY <1>1, <2>1, <3>1 DEF DataInv, OpenUpvalues, CapturesMatch
      <4> QED
        BY <4>1 DEF DataInv, OneHome, RegistersMatch
    <3>2. CASE location[c[1]] \notin S
      BY <1>1, <2>1, <2>3, <3>2 DEF DataInv, CapturesMatch
    <3> QED
      BY <3>1, <3>2
  <2>4. \A c, d \in captures' : c[1] = d[1] <=> c[2] = d[2]
    BY <1>1 DEF DataInv, CapturesMatch
  <2> QED
    BY <1>1, <2>2, <2>3, <2>4 DEF CapturesMatch
<1>5. RegistersMatch'
  BY DEF DataInv, RegistersMatch, OneHome
<1> QED
  BY <1>2, <1>3, <1>4, <1>5 DEF DataInv

(* Nothing changes but who runs: a call begins, or its window is empty.    *)
LEMMA KeepHomes ==
  ASSUME DataType, DataInv, UNCHANGED <<variableCount, current, upvalues>>,
         Homes' \subseteq Homes,
         \A u \in Upvals : location[u] \in Homes => location[u] \in Homes',
         \A s \in Homes' : holds'[s] = holds[s] /\ registerStack'[s] = registerStack[s],
         SavedHomes' \subseteq SavedHomes,
         \A p \in SavedHomes' :
            SavedVariable(p)' = SavedVariable(p) /\ SavedValue(p)' = SavedValue(p)
  PROVE  DataInv'
<1>1. location = [u \in Upvals |-> location[u]] /\ closed = [u \in Upvals |-> closed[u]]
  BY DEF DataType
<1>2. Close({})
  BY <1>1 DEF Close, upvalues
<1> QED
  BY <1>2, DropHomes

(* The topmost call closes what it has to when it ends or is replaced.     *)
LEMMA CloseTop ==
  ASSUME StackType, DataType, Layout, FlagsCover, closeUpvalues
  PROVE  /\ Close(Window(frameCount)) /\ 0 \notin Window(frameCount)
         /\ \A u \in Upvals : location'[u] # 0 =>
                location'[u] = location[u] /\ location[u] \notin Window(frameCount)
         /\ \A f \in 1..frameCount : f # frameCount => hasOwnUpvalues'[f] = hasOwnUpvalues[f]
         /\ hasOwnUpvalues' \in [Depths -> BOOLEAN]
<1>1. frameCount \in 1..frameCount /\ frameCount \in Depths
  BY DEF StackType, Depths
<1>2. Window(frameCount) \subseteq Slots
  BY <1>1, WindowsApart DEF InUse
<1>3. Close(Window(frameCount))
  <2>1. CASE hasOwnUpvalues[frameCount]
    BY <2>1 DEF closeUpvalues
  <2>2. CASE ~hasOwnUpvalues[frameCount]
    <3>1. \A u \in Upvals : location[u] \notin Window(frameCount)
      BY <2>2, <1>1 DEF FlagsCover
    <3> QED
      BY <2>2, <3>1 DEF closeUpvalues, Close
  <2> QED
    BY <2>1, <2>2
<1>4. \A u \in Upvals : location'[u] # 0 =>
            location'[u] = location[u] /\ location[u] \notin Window(frameCount)
  BY <1>3 DEF Close
<1>5. hasOwnUpvalues' = [hasOwnUpvalues EXCEPT ![frameCount] = FALSE]
  BY DEF closeUpvalues
<1>6. \A f \in 1..frameCount : f # frameCount => hasOwnUpvalues'[f] = hasOwnUpvalues[f]
  BY <1>1, <1>5 DEF DataType, Depths, StackType
<1>7. hasOwnUpvalues' \in [Depths -> BOOLEAN]
  BY <1>5 DEF DataType
<1> QED
  BY <1>2, <1>3, <1>4, <1>6, <1>7 DEF Slots

-----------------------------------------------------------------------------
(* The steps of the running function.                                      *)

LEMMA SameCalls ==
  ASSUME StackType, Layout, UNCHANGED <<stack, generators>>, captures \subseteq captures'
  PROVE  /\ StackType' /\ Layout' /\ InUse' = InUse
         /\ \A f \in 1..frameCount : Window(f)' = Window(f)
<1>1. StackType' /\ Layout'
  BY DEF StackType, Layout, stack, Closures
<1>2. \A f \in 1..frameCount : Window(f)' = Window(f)
  BY DEF Window, stack
<1> QED
  BY <1>1, <1>2 DEF InUse, stack

LEMMA SameSaved ==
  ASSUME UNCHANGED generators
  PROVE  /\ SavedHomes' = SavedHomes
         /\ \A p \in SavedHomes :
                SavedVariable(p)' = SavedVariable(p) /\ SavedValue(p)' = SavedValue(p)
BY DEF SavedHomes, SavedVariable, SavedValue, Suspended

LEMMA TopIsInUse ==
  ASSUME StackType, Layout
  PROVE  Window(frameCount) \subseteq InUse /\ Window(frameCount) \subseteq Slots
<1>1. frameCount \in 1..frameCount
  BY DEF StackType, Depths
<1> QED
  BY <1>1, WindowsApart DEF InUse

LEMMA DeclareStep ==
  ASSUME IInv, Patterns = {}, NEW s \in Slots, NEW v \in Values, Declare(s, v)
  PROVE  IInv'
<1> USE DEF IInv
<1>1. /\ s \in Window(frameCount) /\ ~Captured(s) /\ variableCount < MaxVariables
      /\ registerStack' = [registerStack EXCEPT ![s] = v]
      /\ holds' = [holds EXCEPT ![s] = variableCount + 1]
      /\ variableCount' = variableCount + 1
      /\ current' = [current EXCEPT ![variableCount + 1] = v]
      /\ UNCHANGED <<stack, generators>> /\ UNCHANGED hasOwnUpvalues /\ UNCHANGED upvalues
  BY DEF Declare
<1>2. variableCount \in Nat /\ variableCount + 1 \in Variables
  BY <1>1 DEF DataType, Variables
<1>3. DataType'
  <2>1. captures' \subseteq (1..upvalueCount') \X (1..variableCount')
    BY <1>1, <1>2 DEF DataType, upvalues
  <2> QED
    BY <1>1, <1>2, <2>1 DEF DataType, upvalues, Variables
<1>4. /\ StackType' /\ Layout' /\ InUse' = InUse
      /\ \A f \in 1..frameCount : Window(f)' = Window(f)
  BY <1>1, SameCalls DEF upvalues
<1>5. FlagsCover'
  BY <1>1, <1>4 DEF FlagsCover, upvalues, stack
<1>6. /\ s \in InUse /\ Homes' = Homes \cup {s}
      /\ holds'[s] = variableCount + 1 /\ registerStack'[s] = v
      /\ \A t \in Homes : t # s => holds'[t] = holds[t] /\ registerStack'[t] = registerStack[t]
  BY <1>1, <1>2, <1>4, TopIsInUse DEF Homes, InUse, DataType
<1>7. /\ SavedHomes' = SavedHomes
      /\ \A p \in SavedHomes :
            SavedVariable(p)' = SavedVariable(p) /\ SavedValue(p)' = SavedValue(p)
  BY <1>1, SameSaved
<1>8. \A u \in Upvals : location[u] # s
  BY <1>1 DEF Captured
<1>9. OpenUpvalues'
  BY <1>1, <1>6 DEF DataInv, OpenUpvalues, upvalues
<1>10. \A c \in captures : c[1] \in Upvals /\ c[2] \in 1..variableCount
  BY DEF DataType, Upvals
<1>11. /\ \A t \in Homes : holds[t] \in 1..variableCount
       /\ \A p \in SavedHomes : SavedVariable(p) \in 1..variableCount
  <2>1. \A t \in Homes : holds[t] \in 1..variableCount
    BY <1>2 DEF DataInv, OneHome, Homes, InUse, DataType
  <2>2. \A p \in SavedHomes : SavedVariable(p) \in Nat /\ SavedVariable(p) # 0
    BY DEF SavedHomes, SavedVariable, StackType, GeneratorType
  <2> QED
    BY <2>1, <2>2, <1>2 DEF DataInv, OneHome
<1>12. OneHome'
  <2>1. \A t \in Homes' : holds'[t] <= variableCount'
    BY <1>1, <1>2, <1>6, <1>11
  <2>2. \A t, w \in Homes' : holds'[t] = holds'[w] => t = w
    BY <1>2, <1>6, <1>11 DEF DataInv, OneHome
  <2>3. \A p \in SavedHomes' : SavedVariable(p)' <= variableCount'
    BY <1>1, <1>2, <1>7, <1>11
  <2>4. \A p, q \in SavedHomes' : SavedVariable(p)' = SavedVariable(q)' => p = q
    BY <1>7 DEF DataInv, OneHome
  <2>5. \A p \in SavedHomes', t \in Homes' : SavedVariable(p)' # holds'[t]
    BY <1>2, <1>6, <1>7, <1>11 DEF DataInv, OneHome
  <2>6. \A p \in SavedHomes', c \in captures' : SavedVariable(p)' # c[2]
    BY <1>1, <1>7 DEF DataInv, OneHome, upvalues
  <2> QED
    BY <2>1, <2>2, <2>3, <2>4, <2>5, <2>6 DEF OneHome
<1>13. CapturesMatch'
  <2>1. ASSUME NEW c \in captures, location[c[1]] # 0
        PROVE  holds'[location[c[1]]] = c[2]
    BY <2>1, <1>6, <1>8, <1>10 DEF DataInv, OpenUpvalues, CapturesMatch
  <2>2. ASSUME NEW c \in captures, location[c[1]] = 0
        PROVE  closed[c[1]] = current'[c[2]] /\ \A t \in Homes' : holds'[t] # c[2]
    <3>1. current'[c[2]] = current[c[2]]
      BY <1>1, <1>2, <1>10 DEF DataType, Variables
    <3> QED
      BY <2>2, <3>1, <1>2, <1>6, <1>10 DEF DataInv, CapturesMatch
  <2>3. \A c, d \in captures : c[1] = d[1] <=> c[2] = d[2]
    BY DEF DataInv, CapturesMatch
  <2> QED
    BY <1>1, <2>1, <2>2, <2>3 DEF CapturesMatch, upvalues
<1>14. RegistersMatch'
  <2>1. \A x \in 1..variableCount : current'[x] = current[x]
    BY <1>1, <1>2 DEF DataType, Variables
  <2>2. current'[variableCount + 1] = v
    BY <1>1, <1>2 DEF DataType
  <2>3. \A t \in Homes' : registerStack'[t] = current'[holds'[t]]
    BY <1>6, <1>11, <2>1, <2>2 DEF DataInv, RegistersMatch
  <2>4. \A p \in SavedHomes' : SavedValue(p)' = current'[SavedVariable(p)']
    BY <1>7, <1>11, <2>1 DEF DataInv, RegistersMatch
  <2> QED
    BY <2>3, <2>4 DEF RegistersMatch
<1> QED
  BY <1>3, <1>4, <1>5, <1>9, <1>12, <1>13, <1>14 DEF DataInv

(* Assigning to variable x wherever it lives: in a register, and that is   *)
(* the register of its open upvalue, or in its closed upvalue.             *)
LEMMA AssignAnywhere ==
  ASSUME IInv, NEW v \in Values, NEW x \in 1..variableCount,
         current' = [current EXCEPT ![x] = v],
         UNCHANGED <<stack, generators>>, UNCHANGED <<holds, variableCount>>,
         UNCHANGED hasOwnUpvalues, UNCHANGED <<location, upvalueCount, captures>>,
         registerStack' \in [Slots -> Values], closed' \in [Upvals -> Values],
         \A s \in Homes : registerStack'[s] = IF holds[s] = x THEN v ELSE registerStack[s],
         \A c \in captures : location[c[1]] = 0 =>
            closed'[c[1]] = IF c[2] = x THEN v ELSE closed[c[1]],
         \A p \in SavedHomes : SavedVariable(p) # x
  PROVE  IInv'
<1> USE DEF IInv
<1>1. x \in Variables /\ variableCount \in Nat
  BY DEF DataType, Variables
<1>2. DataType'
  BY <1>1 DEF DataType
<1>3. /\ StackType' /\ Layout' /\ InUse' = InUse
      /\ \A f \in 1..frameCount : Window(f)' = Window(f)
  BY SameCalls
<1>4. FlagsCover'
  BY <1>3 DEF FlagsCover, stack
<1>5. Homes' = Homes
  BY <1>3 DEF Homes
<1>6. /\ SavedHomes' = SavedHomes
      /\ \A p \in SavedHomes :
            SavedVariable(p)' = SavedVariable(p) /\ SavedValue(p)' = SavedValue(p)
  BY SameSaved
<1>7. \A y \in 1..variableCount : current'[y] = IF y = x THEN v ELSE current[y]
  BY <1>1 DEF DataType, Variables
<1>8. OpenUpvalues' /\ OneHome'
  BY <1>5, <1>6 DEF DataInv, OpenUpvalues, OneHome
<1>9. \A c \in captures : c[2] \in 1..variableCount
  BY DEF DataType
<1>10. CapturesMatch'
  BY <1>5, <1>7, <1>9 DEF DataInv, CapturesMatch
<1>11. /\ \A t \in Homes : holds[t] \in 1..variableCount
       /\ \A p \in SavedHomes : SavedVariable(p) \in 1..variableCount
  <2>1. \A t \in Homes : holds[t] \in 1..variableCount
    BY <1>1 DEF DataInv, OneHome, Homes, InUse, DataType
  <2>2. \A p \in SavedHomes : SavedVariable(p) \in Nat /\ SavedVariable(p) # 0
    BY DEF SavedHomes, SavedVariable, StackType, GeneratorType
  <2> QED
    BY <2>1, <2>2, <1>1 DEF DataInv, OneHome
<1>12. RegistersMatch'
  BY <1>5, <1>6, <1>7, <1>11 DEF DataInv, RegistersMatch
<1> QED
  BY <1>2, <1>3, <1>4, <1>8, <1>10, <1>12 DEF DataInv

LEMMA AssignStep ==
  ASSUME IInv, NEW s \in Slots, NEW v \in Values, Assign(s, v)
  PROVE  IInv'
<1> USE DEF IInv
<1>1. /\ s \in Window(frameCount) /\ holds[s] # 0
      /\ registerStack' = [registerStack EXCEPT ![s] = v]
      /\ current' = [current EXCEPT ![holds[s]] = v]
      /\ UNCHANGED <<stack, generators>> /\ UNCHANGED <<holds, variableCount>>
      /\ UNCHANGED hasOwnUpvalues /\ UNCHANGED <<location, upvalueCount, captures>>
      /\ closed' = closed
  BY DEF Assign, upvalues
<1>2. s \in Homes
  BY <1>1, TopIsInUse DEF Homes
<1>3. holds[s] \in 1..variableCount
  BY <1>1, <1>2 DEF DataInv, OneHome, DataType
<1>4. \A t \in Homes : registerStack'[t] = IF holds[t] = holds[s] THEN v ELSE registerStack[t]
  BY <1>1, <1>2, HomesAreSlots DEF DataInv, OneHome, DataType
<1>5. \A c \in captures : location[c[1]] = 0 =>
            closed'[c[1]] = IF c[2] = holds[s] THEN v ELSE closed[c[1]]
  BY <1>1, <1>2 DEF DataInv, CapturesMatch
<1>6. \A p \in SavedHomes : SavedVariable(p) # holds[s]
  BY <1>2 DEF DataInv, OneHome
<1>7. registerStack' \in [Slots -> Values] /\ closed' \in [Upvals -> Values]
  BY <1>1 DEF DataType
<1> QED
  BY <1>1, <1>3, <1>4, <1>5, <1>6, <1>7, AssignAnywhere

(* The closure of the topmost frame was made by a capture.                 *)
LEMMA SetUpvalueStep ==
  ASSUME IInv, NEW v \in Values, SetUpvalue(v)
  PROVE  IInv'
<1> USE DEF IInv
<1> DEFINE u == Top.closure[1]
           x == Top.closure[2]
<1>1. /\ Top.closure # NoClosure
      /\ IF location[u] = 0
         THEN closed' = [closed EXCEPT ![u] = v] /\ registerStack' = registerStack
         ELSE registerStack' = [registerStack EXCEPT ![location[u]] = v] /\ closed' = closed
      /\ current' = [current EXCEPT ![x] = v]
      /\ UNCHANGED <<stack, generators>> /\ UNCHANGED <<holds, variableCount>>
      /\ UNCHANGED hasOwnUpvalues /\ UNCHANGED <<location, upvalueCount, captures>>
  BY DEF SetUpvalue
<1>2. Top.closure \in captures
  BY <1>1 DEF Layout, Top, Closures, StackType, Depths
<1> DEFINE k == Top.closure
<1> HIDE DEF k
<1>3. k \in captures /\ u = k[1] /\ x = k[2]
  BY <1>2 DEF k
<1> HIDE DEF u, x
<1>4. /\ u \in Upvals /\ x \in 1..variableCount
      /\ \A c \in captures : c[1] \in Upvals
  BY <1>3 DEF DataType, Upvals
<1>5. \A c \in captures : c[1] = u <=> c[2] = x
  BY <1>3 DEF DataInv, CapturesMatch
<1>6. CASE location[u] = 0
  <2>1. \A s \in Homes : holds[s] # x
    BY <1>3, <1>6 DEF DataInv, CapturesMatch
  <2>2. \A s \in Homes : registerStack'[s] = IF holds[s] = x THEN v ELSE registerStack[s]
    BY <1>1, <1>6, <2>1
  <2>3. \A c \in captures : location[c[1]] = 0 =>
            closed'[c[1]] = IF c[2] = x THEN v ELSE closed[c[1]]
    BY <1>1, <1>4, <1>5, <1>6 DEF DataType
  <2>4. \A p \in SavedHomes : SavedVariable(p) # x
    BY <1>3 DEF DataInv, OneHome
  <2>5. registerStack' \in [Slots -> Values] /\ closed' \in [Upvals -> Values]
    BY <1>1, <1>6 DEF DataType
  <2> QED
    BY <1>1, <1>4, <2>2, <2>3, <2>4, <2>5, AssignAnywhere
<1>7. CASE location[u] # 0
  <2>1. location[u] \in Homes /\ holds[location[u]] = x
    BY <1>3, <1>4, <1>7 DEF DataInv, OpenUpvalues, CapturesMatch
  <2>2. \A s \in Homes : registerStack'[s] = IF holds[s] = x THEN v ELSE registerStack[s]
    BY <1>1, <1>7, <2>1, HomesAreSlots DEF DataInv, OneHome, DataType
  <2>3. \A c \in captures : location[c[1]] = 0 =>
            closed'[c[1]] = IF c[2] = x THEN v ELSE closed[c[1]]
    BY <1>1, <1>5, <1>7
  <2>4. \A p \in SavedHomes : SavedVariable(p) # x
    BY <2>1 DEF DataInv, OneHome
  <2>5. registerStack' \in [Slots -> Values] /\ closed' \in [Upvals -> Values]
    BY <1>1, <1>7 DEF DataType
  <2> QED
    BY <1>1, <1>4, <2>2, <2>3, <2>4, <2>5, AssignAnywhere
<1> QED
  BY <1>6, <1>7

LEMMA CaptureStep ==
  ASSUME IInv, NEW s \in Slots, Capture(s)
  PROVE  IInv'
<1> USE DEF IInv
<1> DEFINE x == holds[s]
<1>1. /\ s \in Window(frameCount) /\ x # 0 /\ captureUpvalue(s)
      /\ UNCHANGED <<stack, generators>> /\ UNCHANGED <<registerStack, closed, holds>>
      /\ UNCHANGED <<variableCount, current>>
  BY DEF Capture, variables
<1>2. s \in Homes /\ s \in InUse
  BY <1>1, TopIsInUse DEF Homes
<1>3. x \in 1..variableCount
  BY <1>1, <1>2 DEF DataInv, OneHome, DataType
<1>4. captures \subseteq captures'
  BY <1>1 DEF captureUpvalue
<1>5. /\ StackType' /\ Layout' /\ InUse' = InUse
      /\ \A f \in 1..frameCount : Window(f)' = Window(f)
  BY <1>1, <1>4, SameCalls
<1>6. Homes' = Homes
  BY <1>1, <1>5 DEF Homes
<1>7. /\ SavedHomes' = SavedHomes
      /\ \A p \in SavedHomes :
            SavedVariable(p)' = SavedVariable(p) /\ SavedValue(p)' = SavedValue(p)
      /\ \A p \in SavedHomes : SavedVariable(p) # x
  BY <1>1, <1>2, SameSaved DEF DataInv, OneHome
<1>8. RegistersMatch'
  BY <1>1, <1>6, <1>7 DEF DataInv, RegistersMatch
<1>9. \A c \in captures : c[1] \in 1..upvalueCount /\ c[1] \in Upvals
  BY DEF DataType, Upvals
<1>10. upvalueCount \in Nat /\ upvalueCount \in 0..MaxUpvalues
  BY DEF DataType
<1>11. ASSUME NEW u \in Upvals, location[u] = s, captures' = captures \cup {<<u, x>>},
              UNCHANGED <<upvalueCount, location, hasOwnUpvalues>>
       PROVE  IInv'
  <2>1. u <= upvalueCount /\ u \in 1..upvalueCount
    BY <1>10, <1>11 DEF DataInv, OpenUpvalues, Slots, Upvals
  <2>2. captures' \subseteq (1..upvalueCount') \X (1..variableCount')
    BY <1>1, <1>3, <1>11, <2>1 DEF DataType
  <2>3. DataType'
    BY <1>1, <1>11, <2>2 DEF DataType
  <2>4. FlagsCover'
    BY <1>1, <1>5, <1>11 DEF FlagsCover, stack
  <2>5. OpenUpvalues'
    BY <1>6, <1>11 DEF DataInv, OpenUpvalues
  <2>6. OneHome'
    <3>1. \A p \in SavedHomes, c \in captures' : SavedVariable(p) # c[2]
      BY <1>7, <1>11 DEF DataInv, OneHome
    <3> QED
      BY <1>1, <1>6, <1>7, <3>1 DEF DataInv, OneHome
  <2>7. \A d \in captures : d[1] = u <=> d[2] = x
    <3>1. ASSUME NEW d \in captures, d[1] = u PROVE d[2] = x
      BY <1>11, <3>1, <1>2 DEF DataInv, CapturesMatch, Slots
    <3>2. ASSUME NEW d \in captures, d[2] = x PROVE d[1] = u
      <4>1. location[d[1]] # 0 /\ holds[location[d[1]]] = x
        BY <1>2, <3>2 DEF DataInv, CapturesMatch
      <4>2. location[d[1]] = s
        BY <4>1, <1>2, <1>9 DEF DataInv, OpenUpvalues, OneHome
      <4> QED
        BY <4>1, <4>2, <1>9, <1>11 DEF DataInv, OpenUpvalues
    <3> QED
      BY <3>1, <3>2
  <2>8. CapturesMatch'
    <3>1. ASSUME NEW c \in captures', NEW d \in captures'
          PROVE  c[1] = d[1] <=> c[2] = d[2]
      BY <1>11, <2>7 DEF DataInv, CapturesMatch
    <3>2. ASSUME NEW c \in captures'
          PROVE  /\ location'[c[1]] # 0 => holds'[location'[c[1]]] = c[2]
                 /\ location'[c[1]] = 0 => /\ closed'[c[1]] = current'[c[2]]
                                           /\ \A t \in Homes' : holds'[t] # c[2]
      <4>1. CASE c = <<u, x>>
        BY <4>1, <1>1, <1>11 DEF Slots
      <4>2. CASE c \in captures
        BY <4>2, <1>1, <1>6, <1>11 DEF DataInv, CapturesMatch
      <4> QED
        BY <4>1, <4>2, <1>11
    <3> QED
      BY <3>1, <3>2 DEF CapturesMatch
  <2> QED
    BY <1>5, <1>8, <2>3, <2>4, <2>5, <2>6, <2>8 DEF DataInv
<1>12. ASSUME ~Captured(s), upvalueCount < MaxUpvalues, upvalueCount' = upvalueCount + 1,
              location' = [location EXCEPT ![upvalueCount + 1] = s],
              hasOwnUpvalues' = [hasOwnUpvalues EXCEPT ![frameCount] = TRUE],
              captures' = captures \cup {<<upvalueCount + 1, x>>}
       PROVE  IInv'
  <2> DEFINE u == upvalueCount + 1
  <2>1. /\ u \in Upvals /\ u \in 1..upvalueCount' /\ upvalueCount' \in 0..MaxUpvalues
        /\ 1..upvalueCount \subseteq 1..upvalueCount' /\ upvalueCount' = u
    BY <1>10, <1>12 DEF Upvals
  <2> HIDE DEF u
  <2>2. captures' = captures \cup {<<u, x>>} /\ location' = [location EXCEPT ![u] = s]
    BY <1>12 DEF u
  <2>3. captures' \subseteq (1..upvalueCount') \X (1..variableCount')
    BY <1>1, <1>3, <2>1, <2>2 DEF DataType
  <2>4. location' \in [Upvals -> 0..RegFileSize] /\ hasOwnUpvalues' \in [Depths -> BOOLEAN]
    <3>1. location' \in [Upvals -> 0..RegFileSize]
      BY <2>1, <2>2 DEF DataType, Slots
    <3>2. hasOwnUpvalues' \in [Depths -> BOOLEAN]
      BY <1>12, Zenon DEF DataType
    <3> QED
      BY <3>1, <3>2
  <2>5. DataType'
    BY <1>1, <2>1, <2>3, <2>4 DEF DataType
  <2>6. /\ \A w \in Upvals : w # u => location'[w] = location[w]
        /\ location'[u] = s /\ s # 0
        /\ \A w \in Upvals : location[w] # s
        /\ \A c \in captures : c[1] # u
    BY <1>9, <1>10, <1>12, <2>1, <2>2 DEF DataType, Slots, Captured, u
  <2>7. FlagsCover'
    <3>1. ASSUME NEW f \in 1..frameCount, NEW w \in Upvals, location'[w] \in Window(f)
          PROVE  hasOwnUpvalues'[f]
      <4>1. f \in Depths /\ frameCount \in Depths /\ frameCount \in 1..frameCount
        BY DEF StackType, Depths
      <4>2. CASE f = frameCount
        BY <4>1, <4>2, <1>12 DEF DataType
      <4>3. CASE f # frameCount
        <5>1. Window(f) \cap Window(frameCount) = {}
          BY <4>1, <4>3, WindowsApart
        <5>2. w # u
          BY <5>1, <3>1, <1>1, <2>6
        <5>3. hasOwnUpvalues[f]
          BY <3>1, <5>2, <2>6 DEF FlagsCover
        <5> QED
          BY <4>1, <4>3, <5>3, <1>12 DEF DataType
      <4> QED
        BY <4>2, <4>3
    <3> QED
      BY <3>1, <1>1, <1>5 DEF FlagsCover, stack
  <2>8. OpenUpvalues'
    <3>1. ASSUME NEW w \in Upvals, location'[w] # 0
          PROVE  location'[w] \in Homes /\ w <= upvalueCount'
      BY <3>1, <1>2, <1>10, <2>1, <2>6 DEF DataInv, OpenUpvalues, Upvals
    <3>2. ASSUME NEW w \in Upvals, NEW y \in Upvals,
                 location'[w] # 0, location'[w] = location'[y]
          PROVE  w = y
      BY <3>2, <2>6 DEF DataInv, OpenUpvalues
    <3> QED
      BY <1>6, <3>1, <3>2 DEF OpenUpvalues
  <2>9. OneHome'
    <3>1. \A p \in SavedHomes, c \in captures' : SavedVariable(p) # c[2]
      BY <1>7, <2>2 DEF DataInv, OneHome
    <3> QED
      BY <1>1, <1>6, <1>7, <3>1 DEF DataInv, OneHome
  <2>10. \A d \in captures : d[1] # u /\ d[2] # x
    <3>1. ASSUME NEW d \in captures, d[2] = x PROVE FALSE
      <4>1. location[d[1]] # 0 /\ holds[location[d[1]]] = x
        BY <1>2, <3>1 DEF DataInv, CapturesMatch
      <4>2. location[d[1]] = s
        BY <4>1, <1>2, <1>9 DEF DataInv, OpenUpvalues, OneHome
      <4> QED
        BY <4>2, <1>9, <2>6
    <3> QED
      BY <3>1, <2>6
  <2>11. CapturesMatch'
    <3>1. ASSUME NEW c \in captures', NEW d \in captures'
          PROVE  c[1] = d[1] <=> c[2] = d[2]
      BY <2>2, <2>10 DEF DataInv, CapturesMatch
    <3>2. ASSUME NEW c \in captures'
          PROVE  /\ location'[c[1]] # 0 => holds'[location'[c[1]]] = c[2]
                 /\ location'[c[1]] = 0 => /\ closed'[c[1]] = current'[c[2]]
                                           /\ \A t \in Homes' : holds'[t] # c[2]
      <4>1. CASE c = <<u, x>>
        BY <4>1, <1>1, <2>6
      <4>2. CASE c \in captures
        <5>1. location'[c[1]] = location[c[1]]
          BY <4>2, <1>9, <2>6
        <5> QED
          BY <4>2, <5>1, <1>1, <1>6 DEF DataInv, CapturesMatch
      <4> QED
        BY <4>1, <4>2, <2>2
    <3> QED
      BY <3>1, <3>2 DEF CapturesMatch
  <2> QED
    BY <1>5, <1>8, <2>5, <2>7, <2>8, <2>9, <2>11 DEF DataInv
<1> QED
  BY <1>1, <1>11, <1>12 DEF captureUpvalue

LEMMA NextIterationStep ==
  ASSUME IInv, NEW s \in Slots, NextIteration(s)
  PROVE  IInv'
<1> USE DEF IInv
<1> DEFINE n == variableCount + 1
<1>1. /\ s \in Window(frameCount) /\ holds[s] # 0 /\ variableCount < MaxVariables
      /\ holds' = [holds EXCEPT ![s] = n] /\ variableCount' = n
      /\ current' = [current EXCEPT ![n] = registerStack[s]]
      /\ UNCHANGED <<stack, generators>> /\ UNCHANGED <<registerStack, hasOwnUpvalues>>
  BY DEF NextIteration
<1>2. /\ location' = [u \in Upvals |-> IF location[u] = s THEN 0 ELSE location[u]]
      /\ closed' = [u \in Upvals |-> IF location[u] = s THEN registerStack[s] ELSE closed[u]]
      /\ upvalueCount' = upvalueCount /\ captures' = captures
  BY DEF NextIteration, Close
<1>3. /\ variableCount \in Nat /\ n \in Variables /\ n \in 1..n /\ n # 0
      /\ \A y \in 1..variableCount : y # n /\ y <= n /\ y \in Variables
  BY <1>1 DEF DataType, Variables
<1> HIDE DEF n
<1>4. DataType'
  <2>1. /\ location' \in [Upvals -> 0..RegFileSize] /\ closed' \in [Upvals -> Values]
        /\ registerStack' \in [Slots -> Values] /\ current' \in [Variables -> Values]
    BY <1>1, <1>2, <1>3 DEF DataType
  <2>2. /\ holds' \in [Slots -> 0..MaxVariables] /\ variableCount' \in 0..MaxVariables
    BY <1>1, <1>3 DEF DataType, Variables
  <2>3. captures' \subseteq (1..upvalueCount') \X (1..variableCount')
    BY <1>1, <1>2 DEF DataType, n
  <2> QED
    BY <1>1, <1>2, <2>1, <2>2, <2>3 DEF DataType
<1>5. /\ StackType' /\ Layout' /\ InUse' = InUse
      /\ \A f \in 1..frameCount : Window(f)' = Window(f)
  BY <1>1, <1>2, SameCalls
<1>6. FlagsCover'
  <2>1. \A u \in Upvals : location'[u] = location[u] \/ location'[u] = 0
    BY <1>2
  <2>2. \A f \in 1..frameCount : 0 \notin Window(f)
    BY WindowsApart DEF StackType
  <2> QED
    BY <1>1, <1>5, <2>1, <2>2 DEF FlagsCover, stack
<1>7. /\ s \in Homes /\ Homes' = Homes /\ holds'[s] = n
      /\ \A t \in Homes : t # s => holds'[t] = holds[t]
  BY <1>1, <1>3, <1>5, TopIsInUse DEF Homes, InUse, DataType
<1>8. /\ SavedHomes' = SavedHomes
      /\ \A p \in SavedHomes :
            SavedVariable(p)' = SavedVariable(p) /\ SavedValue(p)' = SavedValue(p)
  BY <1>1, SameSaved
<1>9. \A c \in captures : c[1] \in Upvals /\ c[2] \in 1..variableCount
  BY DEF DataType, Upvals
<1>10. /\ \A t \in Homes : holds[t] \in 1..variableCount
       /\ \A p \in SavedHomes : SavedVariable(p) \in 1..variableCount
  <2>1. \A t \in Homes : holds[t] \in 1..variableCount
    BY <1>3 DEF DataInv, OneHome, Homes, InUse, DataType
  <2>2. \A p \in SavedHomes : SavedVariable(p) \in Nat /\ SavedVariable(p) # 0
    BY DEF SavedHomes, SavedVariable, StackType, GeneratorType
  <2> QED
    BY <2>1, <2>2, <1>3 DEF DataInv, OneHome
<1>11. OpenUpvalues'
  BY <1>2, <1>7 DEF DataInv, OpenUpvalues
<1>12. OneHome'
  <2>1. \A t \in Homes' : holds'[t] <= variableCount'
    BY <1>1, <1>3, <1>7, <1>10
  <2>2. \A t, w \in Homes' : holds'[t] = holds'[w] => t = w
    BY <1>3, <1>7, <1>10 DEF DataInv, OneHome
  <2>3. \A p \in SavedHomes' : SavedVariable(p)' <= variableCount'
    BY <1>1, <1>3, <1>8, <1>10
  <2>4. \A p, q \in SavedHomes' : SavedVariable(p)' = SavedVariable(q)' => p = q
    BY <1>8 DEF DataInv, OneHome
  <2>5. \A p \in SavedHomes', t \in Homes' : SavedVariable(p)' # holds'[t]
    BY <1>3, <1>7, <1>8, <1>10 DEF DataInv, OneHome
  <2>6. \A p \in SavedHomes', c \in captures' : SavedVariable(p)' # c[2]
    BY <1>2, <1>8 DEF DataInv, OneHome
  <2> QED
    BY <2>1, <2>2, <2>3, <2>4, <2>5, <2>6 DEF OneHome
<1>13. \A y \in 1..variableCount : current'[y] = current[y]
  <2>1. ASSUME NEW y \in 1..variableCount PROVE current'[y] = current[y]
    <3>1. y \in Variables /\ y # n
      BY <1>3
    <3> QED
      BY <3>1, <1>1 DEF DataType
  <2> QED
    BY <2>1
<1>14. CapturesMatch'
  <2>1. ASSUME NEW c \in captures, location'[c[1]] # 0
        PROVE  holds'[location'[c[1]]] = c[2]
    <3>1. location'[c[1]] = location[c[1]] /\ location[c[1]] # s
      BY <2>1, <1>2, <1>9
    <3> QED
      BY <2>1, <3>1, <1>7, <1>9 DEF DataInv, OpenUpvalues, CapturesMatch
  <2>2. ASSUME NEW c \in captures, location'[c[1]] = 0
        PROVE  closed'[c[1]] = current'[c[2]] /\ \A t \in Homes' : holds'[t] # c[2]
    <3>1. current'[c[2]] = current[c[2]] /\ c[2] # n
      BY <1>3, <1>9, <1>13
    <3>2. CASE location[c[1]] = s
      <4>1. holds[s] = c[2] /\ closed'[c[1]] = registerStack[s]
        BY <3>2, <1>2, <1>9 DEF DataInv, CapturesMatch, Slots
      <4> QED
        BY <4>1, <3>1, <1>7 DEF DataInv, OneHome, RegistersMatch
    <3>3. CASE location[c[1]] # s
      <4>1. location[c[1]] = 0 /\ closed'[c[1]] = closed[c[1]]
        BY <2>2, <3>3, <1>2, <1>9
      <4> QED
        BY <4>1, <3>1, <1>7 DEF DataInv, CapturesMatch
    <3> QED
      BY <3>2, <3>3
  <2>3. \A c, d \in captures : c[1] = d[1] <=> c[2] = d[2]
    BY DEF DataInv, CapturesMatch
  <2> QED
    BY <1>2, <2>1, <2>2, <2>3 DEF CapturesMatch
<1>15. RegistersMatch'
  <2>1. current'[n] = registerStack[s]
    BY <1>1, <1>3 DEF DataType
  <2>2. \A t \in Homes' : registerStack'[t] = current'[holds'[t]]
    BY <1>1, <1>7, <1>10, <1>13, <2>1 DEF DataInv, RegistersMatch
  <2>3. \A p \in SavedHomes' : SavedValue(p)' = current'[SavedVariable(p)']
    BY <1>8, <1>10, <1>13 DEF DataInv, RegistersMatch
  <2> QED
    BY <2>2, <2>3 DEF RegistersMatch
<1> QED
  BY <1>4, <1>5, <1>6, <1>11, <1>12, <1>14, <1>15 DEF DataInv

-----------------------------------------------------------------------------
(* Calls and returns.                                                      *)

(* A new window: what was in its registers is forgotten or restored, the   *)
(* windows below and their flags are as they were.                         *)
LEMMA PushFlags ==
  ASSUME StackType, Layout, FlagsCover, OpenUpvalues, UNCHANGED <<location, hasOwnUpvalues>>,
         NEW new, frameCount' = frameCount + 1,
         1..frameCount' = (1..frameCount) \cup {frameCount'},
         \A f \in 1..frameCount : Window(f)' = Window(f),
         \A f \in Depths : f = frameCount + 1 => Window(f)' = new,
         frameCount' \in Depths, InUse \cap new = {}, 0 \notin new
  PROVE  FlagsCover'
<1>1. ASSUME NEW f \in 1..frameCount', NEW u \in Upvals, location[u] \in Window(f)'
      PROVE  hasOwnUpvalues[f]
  <2>1. CASE f \in 1..frameCount
    BY <1>1, <2>1 DEF FlagsCover
  <2>2. CASE f = frameCount'
    <3>1. location[u] \in new
      BY <1>1, <2>2
    <3>2. location[u] \in InUse
      BY <3>1, HomesAreSlots DEF OpenUpvalues
    <3> QED
      BY <3>1, <3>2
  <2> QED
    BY <2>1, <2>2
<1> QED
  BY <1>1 DEF FlagsCover

LEMMA CallStep ==
  ASSUME IInv, NEW size \in Sizes, NEW closure \in Closures,
         NEW gen \in Generators \cup {NoGenerator},
         Push(size, closure, gen), Forget(NewWindow(nextRegSlot, size)),
         generators' = [g \in Generators |->
            IF g = gen THEN [generators[g] EXCEPT !.state = "executing"] ELSE generators[g]],
         UNCHANGED <<registerStack, hasOwnUpvalues>>, UNCHANGED upvalues, UNCHANGED variables
  PROVE  IInv'
<1> USE DEF IInv
<1> DEFINE new == NewWindow(nextRegSlot, size)
<1>1. /\ size \in Nat /\ captures \subseteq Pair /\ captures' = captures
      /\ holds' = [s \in Slots |-> IF s \in new THEN 0 ELSE holds[s]]
      /\ 0 \notin new
  BY DEF DataType, Pair, upvalues, Forget, NewWindow, StackType
<1>2. /\ generators' \in [Generators -> GeneratorType]
      /\ \A g \in Generators : Suspended(g)' =>
            /\ Suspended(g) /\ generators'[g].size = generators[g].size
            /\ generators'[g].closure = generators[g].closure
            /\ generators'[g].holds = generators[g].holds
            /\ generators'[g].registers = generators[g].registers
  BY DEF StackType, GeneratorType, Suspended
<1>3. /\ StackType' /\ Layout' /\ InUse' = InUse \cup new /\ InUse \cap new = {}
      /\ \A f \in 1..frameCount : Window(f)' = Window(f)
      /\ \A f \in Depths : f = frameCount + 1 => Window(f)' = new
      /\ 1..frameCount' = (1..frameCount) \cup {frameCount'}
  BY <1>1, <1>2, PushLayout
<1> HIDE DEF new
<1>4. frameCount' \in Depths /\ frameCount' = frameCount + 1
  BY <1>3 DEF StackType, Push
<1>5. FlagsCover'
  BY <1>1, <1>3, <1>4, PushFlags DEF upvalues, DataInv
<1>6. /\ Homes' = Homes
      /\ \A s \in Homes : holds'[s] = holds[s] /\ registerStack'[s] = registerStack[s]
  BY <1>1, <1>3 DEF Homes, InUse
<1>7. /\ SavedHomes' \subseteq SavedHomes
      /\ \A p \in SavedHomes' :
            SavedVariable(p)' = SavedVariable(p) /\ SavedValue(p)' = SavedValue(p)
  BY <1>2, SavedStay
<1>8. DataInv'
  BY <1>6, <1>7, KeepHomes DEF variables
<1>9. DataType'
  BY <1>1 DEF DataType, upvalues, variables
<1> QED
  BY <1>3, <1>5, <1>8, <1>9

LEMMA ReturnStep ==
  ASSUME IInv, Return
  PROVE  IInv'
<1> USE DEF IInv
<1>1. /\ frameCount > 1 /\ closeUpvalues /\ frameCount' = frameCount - 1
      /\ frames' = frames /\ UNCHANGED <<registerStack, holds>>
      /\ UNCHANGED <<variableCount, current>>
  BY DEF Return, variables
<1>2. PICK given \in {Top.alloc, Top.size} : nextRegSlot' = nextRegSlot - given
  BY DEF Return
<1>3. given \in 0..Top.alloc
  <2>1. frameCount \in 1..frameCount /\ Top \in FrameType /\ Top.size <= Top.alloc
    BY DEF StackType, Depths, Top, Layout
  <2> QED
    BY <2>1 DEF FrameType
<1>4. /\ generators' \in [Generators -> GeneratorType]
      /\ \A g \in Generators : Suspended(g)' =>
            /\ Suspended(g) /\ generators'[g].size = generators[g].size
            /\ generators'[g].closure = generators[g].closure
            /\ generators'[g].holds = generators[g].holds
            /\ generators'[g].registers = generators[g].registers
  BY SMTT(20) DEF Return, Completed, StackType, GeneratorType, Suspended
<1>5. /\ Close(Window(frameCount)) /\ 0 \notin Window(frameCount)
      /\ \A u \in Upvals : location'[u] # 0 =>
            location'[u] = location[u] /\ location[u] \notin Window(frameCount)
      /\ \A f \in 1..frameCount : f # frameCount => hasOwnUpvalues'[f] = hasOwnUpvalues[f]
      /\ hasOwnUpvalues' \in [Depths -> BOOLEAN]
  BY <1>1, CloseTop
<1>6. captures' = captures /\ upvalueCount' = upvalueCount
  BY <1>5 DEF Close
<1>7. \A g \in Generators : Suspended(g)' =>
            generators'[g].size <= RegFileSize /\ generators'[g].closure \in Closures
  BY <1>4 DEF Layout, Suspended
<1>8. StackType' /\ Layout' /\ InUse' = InUse \ Window(frameCount)
  BY <1>1, <1>2, <1>3, <1>4, <1>6, <1>7, PopLayout
<1>9. /\ 1..frameCount' \subseteq 1..frameCount /\ \A f \in 1..frameCount' : f # frameCount
      /\ \A f \in 1..frameCount' : Window(f)' = Window(f) /\ 0 \notin Window(f)
  <2>1. 1..frameCount' \subseteq 1..frameCount /\ \A f \in 1..frameCount' : f # frameCount
    BY <1>1 DEF StackType, Depths
  <2> QED
    BY <1>1, <2>1, WindowsApart DEF Window, StackType
<1>10. FlagsCover'
  BY <1>5, <1>9 DEF FlagsCover
<1>11. Homes' = Homes \ Window(frameCount)
  BY <1>1, <1>8 DEF Homes
<1>12. /\ SavedHomes' \subseteq SavedHomes
       /\ \A p \in SavedHomes' :
            SavedVariable(p)' = SavedVariable(p) /\ SavedValue(p)' = SavedValue(p)
  BY <1>4, SavedStay
<1>13. DataInv'
  BY <1>1, <1>5, <1>11, <1>12, DropHomes
<1>14. DataType'
  <2>1. location' \in [Upvals -> 0..RegFileSize] /\ closed' \in [Upvals -> Values]
    <3>1. \A u \in Upvals : location[u] \in Window(frameCount) => location[u] \in Slots
      BY TopIsInUse
    <3> QED
      BY <1>5, <3>1 DEF Close, DataType
  <2> QED
    BY <1>1, <1>5, <1>6, <2>1 DEF DataType
<1> QED
  BY <1>8, <1>10, <1>13, <1>14

LEMMA TailCallStep ==
  ASSUME IInv, NEW size \in Sizes, NEW closure \in Closures, TailCall(size, closure)
  PROVE  IInv'
<1> USE DEF IInv
<1>1. /\ closeUpvalues /\ frameCount' = frameCount /\ generators' = generators
      /\ UNCHANGED <<variableCount, current>>
      /\ registerStack' \in [Slots -> Values] /\ holds' \in [Slots -> 0..MaxVariables]
  BY DEF TailCall, variables, Forget, DataType
<1>2. /\ StackType' /\ Layout'
      /\ InUse' = (InUse \ Window(frameCount)) \cup Window(frameCount)'
      /\ (InUse \ Window(frameCount)) \cap Window(frameCount)' = {}
      /\ \A f \in 1..frameCount : f # frameCount => Window(f)' = Window(f)
      /\ \A s \in Window(frameCount)' : holds'[s] = 0
      /\ \A s \in Slots \ Window(frameCount)' :
            holds'[s] = holds[s] /\ registerStack'[s] = registerStack[s]
  BY TailCallLayout
<1>3. /\ Close(Window(frameCount)) /\ 0 \notin Window(frameCount)
      /\ \A u \in Upvals : location'[u] # 0 =>
            location'[u] = location[u] /\ location[u] \notin Window(frameCount)
      /\ \A f \in 1..frameCount : f # frameCount => hasOwnUpvalues'[f] = hasOwnUpvalues[f]
      /\ hasOwnUpvalues' \in [Depths -> BOOLEAN]
  BY <1>1, CloseTop
<1>4. captures' = captures /\ upvalueCount' = upvalueCount
  BY <1>3 DEF Close
<1>5. /\ Homes' = Homes \ Window(frameCount)
      /\ \A s \in Homes' : holds'[s] = holds[s] /\ registerStack'[s] = registerStack[s]
  BY <1>2 DEF Homes, InUse
<1>6. /\ SavedHomes' \subseteq SavedHomes
      /\ \A p \in SavedHomes' :
            SavedVariable(p)' = SavedVariable(p) /\ SavedValue(p)' = SavedValue(p)
  BY <1>1, SameSaved
<1>7. DataInv'
  BY <1>1, <1>3, <1>5, <1>6, DropHomes
<1>8. FlagsCover'
  <2>1. ASSUME NEW f \in 1..frameCount', NEW u \in Upvals, location'[u] \in Window(f)'
        PROVE  hasOwnUpvalues'[f]
    <3>1. location'[u] # 0
      <4>1. f \in Depths /\ frames' \in [Depths -> FrameType]
        BY <2>1, <1>1, <1>2 DEF StackType, Depths
      <4>2. frames'[f].base \in Nat /\ frames'[f].alloc \in Nat
        BY <4>1 DEF FrameType
      <4>3. \A s \in Window(f)' : s # 0
        BY <4>2 DEF Window
      <4> QED
        BY <4>3, <2>1
    <3>2. location[u] = location'[u] /\ location[u] \in Homes /\ location[u] \notin Window(frameCount)
      BY <3>1, <1>3 DEF DataInv, OpenUpvalues
    <3>3. location[u] \in InUse \ Window(frameCount)
      BY <3>2, HomesAreSlots
    <3>4. f \in 1..frameCount /\ f # frameCount
      BY <2>1, <1>1, <1>2, <3>2, <3>3
    <3> QED
      BY <2>1, <1>2, <1>3, <3>2, <3>4 DEF FlagsCover
  <2> QED
    BY <2>1 DEF FlagsCover
<1>9. DataType'
  <2>1. location' \in [Upvals -> 0..RegFileSize] /\ closed' \in [Upvals -> Values]
    <3>1. \A u \in Upvals : location[u] \in Window(frameCount) => location[u] \in Slots
      BY TopIsInUse
    <3> QED
      BY <1>3, <3>1 DEF Close, DataType
  <2> QED
    BY <1>1, <1>3, <1>4, <2>1 DEF DataType
<1> QED
  BY <1>2, <1>7, <1>8, <1>9

(* A call ends without closing anything, as none of its variables is       *)
(* captured.                                                               *)
LEMMA LeaveOpen ==
  ASSUME StackType, DataType, Layout, FlagsCover, ~TopIsCaptured, frameCount > 1,
         frames' = frames, frameCount' = frameCount - 1,
         UNCHANGED <<hasOwnUpvalues, location>>, UNCHANGED holds,
         InUse' = InUse \ Window(frameCount)
  PROVE  /\ FlagsCover' /\ Homes' = Homes \ Window(frameCount)
         /\ \A u \in Upvals : location[u] \notin Window(frameCount)
<1>1. \A u \in Upvals : location[u] \notin Window(frameCount)
  BY DEF TopIsCaptured, Captured
<1>2. /\ 1..frameCount' \subseteq 1..frameCount
      /\ \A f \in 1..frameCount' : Window(f)' = Window(f)
  BY DEF StackType, Depths, Window
<1> QED
  BY <1>1, <1>2 DEF FlagsCover, Homes

LEMMA UnwindStep ==
  ASSUME IInv, Patterns = {}, Unwind
  PROVE  IInv'
<1> USE DEF IInv
<1>1. /\ frameCount > 1 /\ ~TopIsCaptured /\ frameCount' = frameCount - 1
      /\ frames' = frames /\ UNCHANGED <<registerStack, holds>>
      /\ UNCHANGED upvalues /\ hasOwnUpvalues' = hasOwnUpvalues
      /\ UNCHANGED <<variableCount, current>> /\ captures' = captures
  BY DEF Unwind, variables, upvalues
<1>2. \E given \in 0..Top.alloc : nextRegSlot' = nextRegSlot - given
  <2>1. /\ Top.size \in Nat /\ Top.size <= Top.alloc /\ Top.alloc \in Nat
        /\ nextRegSlot \in Nat
    BY DEF StackType, Depths, Top, Layout, FrameType
  <2>2. nextRegSlot' = nextRegSlot - 0 \/ nextRegSlot' = nextRegSlot - Top.size
    BY <2>1 DEF Unwind
  <2> QED
    BY <2>1, <2>2
<1>3. PICK given \in 0..Top.alloc : nextRegSlot' = nextRegSlot - given
  BY <1>2
<1>4. /\ generators' \in [Generators -> GeneratorType]
      /\ \A g \in Generators : Suspended(g)' =>
            /\ Suspended(g) /\ generators'[g].size = generators[g].size
            /\ generators'[g].closure = generators[g].closure
            /\ generators'[g].holds = generators[g].holds
            /\ generators'[g].registers = generators[g].registers
  BY DEF Unwind, Completed, StackType, GeneratorType, Suspended
<1>5. \A g \in Generators : Suspended(g)' =>
            generators'[g].size <= RegFileSize /\ generators'[g].closure \in Closures
  BY <1>4 DEF Layout, Suspended
<1>6. StackType' /\ Layout' /\ InUse' = InUse \ Window(frameCount)
  BY <1>1, <1>3, <1>4, <1>5, PopLayout
<1>7. /\ FlagsCover' /\ Homes' = Homes \ Window(frameCount)
      /\ \A u \in Upvals : location[u] \notin Window(frameCount)
  BY <1>1, <1>6, LeaveOpen DEF upvalues
<1>8. /\ SavedHomes' \subseteq SavedHomes
      /\ \A p \in SavedHomes' :
            SavedVariable(p)' = SavedVariable(p) /\ SavedValue(p)' = SavedValue(p)
  BY <1>4, SavedStay
<1>9. DataInv'
  BY <1>1, <1>7, <1>8, KeepHomes
<1>10. DataType'
  BY <1>1 DEF DataType, upvalues
<1> QED
  BY <1>6, <1>7, <1>9, <1>10

(* The variables of the window move to the saved registers.                *)
LEMMA YieldStep ==
  ASSUME IInv, Patterns = {}, Yield
  PROVE  IInv'
<1> USE DEF IInv
<1> DEFINE base == Top.base
           size == Top.size
           k    == Top.gen
           W    == Window(frameCount)
           regs == [i \in Slots |-> IF i <= Top.alloc THEN registerStack[base + i]
                                                      ELSE registerStack[i]]
           vbls == [i \in Slots |-> IF i <= Top.alloc THEN holds[base + i] ELSE holds[i]]
           rec  == [state |-> "suspended", size |-> size, closure |-> Top.closure,
                    registers |-> regs, holds |-> vbls]
<1>1. /\ k \in Generators /\ ~TopIsCaptured /\ frameCount > 1 /\ frameCount' = frameCount - 1
      /\ nextRegSlot' = nextRegSlot - size
      /\ generators' = [generators EXCEPT ![k] = rec]
      /\ frames' = frames /\ UNCHANGED <<registerStack, holds>>
      /\ UNCHANGED upvalues /\ hasOwnUpvalues' = hasOwnUpvalues
      /\ UNCHANGED <<variableCount, current>> /\ captures' = captures
  BY DEF Yield, variables, upvalues
<1>2. /\ frameCount \in 1..frameCount /\ frameCount \in Depths
      /\ Top = frames[frameCount] /\ Top \in FrameType
  BY DEF StackType, Depths, Top
<1>3. /\ base \in Nat /\ size \in Nat /\ Top.alloc = size /\ base + size <= nextRegSlot
      /\ nextRegSlot \in 0..RegFileSize /\ Top.closure \in Closures /\ Top.closure \in Pair
  BY <1>1, <1>2, NoGeneratorAssumption DEF Layout, FrameType, StackType
<1>4. /\ W = base + 1 .. base + size /\ W \subseteq Slots /\ W \subseteq InUse
      /\ \A i \in Slots : i <= size => base + i \in W /\ base + i \in Slots
  BY <1>2, <1>3, TopIsInUse DEF Window, Slots
<1>5. /\ regs \in [Slots -> Values] /\ vbls \in [Slots -> 0..MaxVariables]
      /\ \A i \in Slots : i <= size =>
            regs[i] = registerStack[base + i] /\ vbls[i] = holds[base + i]
  BY <1>3, <1>4 DEF DataType
<1> HIDE DEF regs, vbls, W, base, size
<1>6. rec \in GeneratorType
  BY <1>3, <1>5 DEF GeneratorType
<1>7. /\ rec.state = "suspended" /\ rec.size = size /\ rec.closure = Top.closure
      /\ rec.registers = regs /\ rec.holds = vbls
  OBVIOUS
<1> HIDE DEF rec
<1>8. /\ generators' \in [Generators -> GeneratorType]
      /\ generators'[k] = rec /\ \A g \in Generators : g # k => generators'[g] = generators[g]
  BY <1>1, <1>6 DEF StackType
<1> HIDE DEF k
<1>9. \A g \in Generators : Suspended(g)' =>
            generators'[g].size <= RegFileSize /\ generators'[g].closure \in Closures
  BY <1>3, <1>7, <1>8 DEF Layout, Suspended
<1>10. /\ size \in 0..Top.alloc
  BY <1>3
<1>11. StackType' /\ Layout' /\ InUse' = InUse \ W
  BY <1>1, <1>8, <1>9, <1>10, PopLayout DEF W
<1>12. /\ FlagsCover' /\ Homes' = Homes \ W
       /\ \A u \in Upvals : location[u] \notin W
  BY <1>1, <1>11, LeaveOpen DEF upvalues, W
<1>13. \A p \in SavedHomes' :
            \/ /\ p \in SavedHomes
               /\ SavedVariable(p)' = SavedVariable(p) /\ SavedValue(p)' = SavedValue(p)
            \/ /\ p = <<k, p[2]>> /\ p[2] \in Slots /\ base + p[2] \in Homes /\ base + p[2] \in W
               /\ SavedVariable(p)' = holds[base + p[2]]
               /\ SavedValue(p)' = registerStack[base + p[2]]
  <2> SUFFICES ASSUME NEW p \in SavedHomes'
               PROVE  \/ /\ p \in SavedHomes
                         /\ SavedVariable(p)' = SavedVariable(p)
                         /\ SavedValue(p)' = SavedValue(p)
                      \/ /\ p = <<k, p[2]>> /\ p[2] \in Slots
                         /\ base + p[2] \in Homes /\ base + p[2] \in W
                         /\ SavedVariable(p)' = holds[base + p[2]]
                         /\ SavedValue(p)' = registerStack[base + p[2]]
    OBVIOUS
  <2>1. /\ p \in Generators \X Slots /\ generators'[p[1]].state = "suspended"
        /\ p[2] <= generators'[p[1]].size /\ generators'[p[1]].holds[p[2]] # 0
    BY DEF SavedHomes, Suspended
  <2>2. CASE p[1] = k
    <3>1. /\ p = <<k, p[2]>> /\ p[2] \in Slots /\ p[2] <= size /\ vbls[p[2]] # 0
      BY <2>1, <2>2, <1>7, <1>8
    <3>2. base + p[2] \in W /\ base + p[2] \in Homes
      BY <3>1, <1>4, <1>5 DEF Homes
    <3> QED
      BY <2>2, <3>1, <3>2, <1>5, <1>7, <1>8 DEF SavedVariable, SavedValue
  <2>3. CASE p[1] # k
    BY <2>1, <2>3, <1>8 DEF SavedHomes, Suspended, SavedVariable, SavedValue
  <2> QED
    BY <2>2, <2>3
<1>14. OpenUpvalues'
  BY <1>1, <1>12 DEF DataInv, OpenUpvalues, upvalues
<1>15. OneHome'
  <2>1. \A s \in Homes' : holds'[s] <= variableCount'
    BY <1>1, <1>12 DEF DataInv, OneHome
  <2>2. \A s, t \in Homes' : holds'[s] = holds'[t] => s = t
    BY <1>1, <1>12 DEF DataInv, OneHome
  <2>3. \A p \in SavedHomes' : SavedVariable(p)' <= variableCount'
    BY <1>1, <1>13 DEF DataInv, OneHome
  <2>4. ASSUME NEW p \in SavedHomes', NEW q \in SavedHomes',
               SavedVariable(p)' = SavedVariable(q)'
        PROVE  p = q
    <3> DEFINE Old(r) == /\ r \in SavedHomes
                         /\ SavedVariable(r)' = SavedVariable(r)
               New(r) == /\ r = <<k, r[2]>> /\ r[2] \in Slots /\ base + r[2] \in Homes
                         /\ SavedVariable(r)' = holds[base + r[2]]
    <3>1. (Old(p) \/ New(p)) /\ (Old(q) \/ New(q))
      BY <1>13
    <3>2. CASE Old(p) /\ Old(q)
      BY <2>4, <3>2 DEF DataInv, OneHome
    <3>3. CASE New(p) /\ New(q)
      <4>1. base + p[2] = base + q[2]
        BY <2>4, <3>3 DEF DataInv, OneHome
      <4>2. p[2] = q[2]
        BY <3>3, <4>1, <1>3 DEF Slots
      <4> QED
        BY <3>3, <4>2
    <3>4. CASE (Old(p) /\ New(q)) \/ (New(p) /\ Old(q))
      BY <2>4, <3>4 DEF DataInv, OneHome
    <3> QED
      BY <3>1, <3>2, <3>3, <3>4
  <2>5. ASSUME NEW p \in SavedHomes', NEW s \in Homes' PROVE SavedVariable(p)' # holds'[s]
    BY <1>1, <1>12, <1>13 DEF DataInv, OneHome
  <2>6. ASSUME NEW p \in SavedHomes', NEW c \in captures PROVE SavedVariable(p)' # c[2]
    <3>1. c[1] \in Upvals
      BY DEF DataType, Upvals
    <3>2. ASSUME NEW s \in Homes, s \in W PROVE holds[s] # c[2]
      BY <3>1, <3>2, <1>12 DEF DataInv, OpenUpvalues, OneHome, CapturesMatch
    <3> QED
      BY <3>2, <1>13 DEF DataInv, OneHome
  <2> QED
    BY <2>1, <2>2, <2>3, <2>4, <2>5, <2>6, <1>1 DEF OneHome
<1>16. CapturesMatch'
  BY <1>1, <1>12 DEF DataInv, CapturesMatch, upvalues
<1>17. RegistersMatch'
  BY <1>1, <1>12, <1>13 DEF DataInv, RegistersMatch
<1>18. DataType'
  BY <1>1 DEF DataType, upvalues
<1> QED
  BY <1>11, <1>12, <1>14, <1>15, <1>16, <1>17, <1>18 DEF DataInv

(* And back, into another window.                                          *)
LEMMA ResumeStep ==
  ASSUME IInv, NEW k \in Generators, Resume(k)
  PROVE  IInv'
<1> USE DEF IInv
<1> DEFINE size == generators[k].size
           base == nextRegSlot
           W    == NewWindow(nextRegSlot, size)
           From(s) == <<k, s - base>>
<1>1. /\ Suspended(k) /\ Push(size, generators[k].closure, k)
      /\ registerStack' = [s \in Slots |-> IF s \in W THEN generators[k].registers[s - base]
                                                       ELSE registerStack[s]]
      /\ holds' = [s \in Slots |-> IF s \in W THEN generators[k].holds[s - base]
                                              ELSE holds[s]]
      /\ generators' = [generators EXCEPT ![k].state = "executing"]
      /\ UNCHANGED upvalues /\ hasOwnUpvalues' = hasOwnUpvalues
      /\ UNCHANGED <<variableCount, current>> /\ captures' = captures
  BY DEF Resume, Suspended, variables, upvalues
<1>2. /\ generators[k] \in GeneratorType /\ size \in Nat /\ base \in Nat
      /\ generators[k].closure \in Closures /\ captures \subseteq Pair
      /\ base + size <= RegFileSize /\ base \in Nat
  BY <1>1 DEF StackType, GeneratorType, Layout, DataType, Pair, Suspended, Push
<1>3. /\ generators' \in [Generators -> GeneratorType]
      /\ \A g \in Generators : Suspended(g)' =>
            /\ g # k /\ Suspended(g) /\ generators'[g] = generators[g]
  BY <1>1 DEF StackType, GeneratorType, Suspended
<1>4. /\ StackType' /\ Layout' /\ InUse' = InUse \cup W /\ InUse \cap W = {}
      /\ \A f \in 1..frameCount : Window(f)' = Window(f)
      /\ \A f \in Depths : f = frameCount + 1 => Window(f)' = W
      /\ 1..frameCount' = (1..frameCount) \cup {frameCount'}
  BY <1>1, <1>2, <1>3, PushLayout
<1>5. frameCount' \in Depths /\ frameCount' = frameCount + 1 /\ 0 \notin W
  BY <1>1, <1>2, <1>4 DEF StackType, Push, NewWindow
<1>6. FlagsCover'
  BY <1>1, <1>4, <1>5, PushFlags DEF upvalues, DataInv
<1>7. \A s \in W : /\ s \in Slots /\ s - base \in Slots /\ s - base <= size
                   /\ <<k, s - base>> \in Generators \X Slots
  BY <1>2 DEF NewWindow, Slots
<1> HIDE DEF W, base, size
<1>8. /\ \A s \in W : From(s)[1] = k /\ From(s)[2] = s - base
      /\ \A s, t \in W : From(s) = From(t) => s = t
  <2>1. \A s : From(s)[1] = k /\ From(s)[2] = s - base
    OBVIOUS
  <2> HIDE DEF From
  <2>2. ASSUME NEW s \in W, NEW t \in W, From(s) = From(t) PROVE s = t
    <3>a. From(s)[2] = s - base /\ From(t)[2] = t - base
      BY <2>1
    <3>b. From(s)[2] = From(t)[2]
      BY <2>2
    <3>1. s - base = t - base
      BY <3>a, <3>b
    <3>2. s \in Slots /\ t \in Slots /\ base \in Nat
      BY <1>2, <1>7
    <3>3. s \in Int /\ t \in Int
      BY <3>2 DEF Slots
    <3> QED
      BY <3>1, <3>2, <3>3
  <2> QED
    BY <2>1, <2>2
<1>9. DataType'
  <2>1. registerStack' \in [Slots -> Values] /\ holds' \in [Slots -> 0..MaxVariables]
    BY <1>1, <1>2, <1>7 DEF DataType, GeneratorType
  <2> QED
    BY <1>1, <2>1 DEF DataType, upvalues
<1>10. \A s \in Homes' :
            \/ /\ s \in Homes /\ s \notin W
               /\ holds'[s] = holds[s] /\ registerStack'[s] = registerStack[s]
            \/ /\ s \in W /\ From(s) \in SavedHomes
               /\ holds'[s] = SavedVariable(From(s))
               /\ registerStack'[s] = SavedValue(From(s))
  <2> SUFFICES ASSUME NEW s \in Homes'
               PROVE  \/ /\ s \in Homes /\ s \notin W
                         /\ holds'[s] = holds[s] /\ registerStack'[s] = registerStack[s]
                      \/ /\ s \in W /\ From(s) \in SavedHomes
                         /\ holds'[s] = SavedVariable(From(s))
                         /\ registerStack'[s] = SavedValue(From(s))
    OBVIOUS
  <2>1. s \in Slots /\ s \in InUse' /\ holds'[s] # 0
    BY DEF Homes, InUse
  <2>2. CASE s \in W
    <3>1. holds'[s] = generators[k].holds[s - base]
      BY <2>1, <2>2, <1>1
    <3>2. registerStack'[s] = generators[k].registers[s - base]
      BY <2>1, <2>2, <1>1
    <3>3. From(s) \in SavedHomes
      BY <2>1, <2>2, <3>1, <1>1, <1>7, <1>8 DEF SavedHomes, size
    <3> QED
      BY <2>2, <3>1, <3>2, <3>3, <1>8 DEF SavedVariable, SavedValue
  <2>3. CASE s \notin W
    BY <2>1, <2>3, <1>1, <1>4 DEF Homes
  <2> QED
    BY <2>2, <2>3
<1> HIDE DEF From
<1>11. \A s \in Homes : s \in Homes' /\ holds'[s] = holds[s]
  BY <1>1, <1>4 DEF Homes, InUse
<1>12. \A p \in SavedHomes' :
            /\ p \in SavedHomes /\ p[1] # k
            /\ SavedVariable(p)' = SavedVariable(p) /\ SavedValue(p)' = SavedValue(p)
  BY <1>3 DEF SavedHomes, SavedVariable, SavedValue
<1>13. OpenUpvalues'
  BY <1>1, <1>11 DEF DataInv, OpenUpvalues, upvalues
<1>14. OneHome'
  <2>1. \A s \in Homes' : holds'[s] <= variableCount'
    BY <1>1, <1>10 DEF DataInv, OneHome
  <2>2. ASSUME NEW s \in Homes', NEW t \in Homes', holds'[s] = holds'[t] PROVE s = t
    <3>1. CASE s \in W /\ t \in W
      <4>1. From(s) = From(t)
        BY <2>2, <3>1, <1>10 DEF DataInv, OneHome
      <4> QED
        BY <3>1, <4>1, <1>8
    <3>2. CASE s \notin W /\ t \notin W
      BY <2>2, <3>2, <1>10 DEF DataInv, OneHome
    <3>3. CASE (s \in W /\ t \notin W) \/ (s \notin W /\ t \in W)
      BY <2>2, <3>3, <1>10 DEF DataInv, OneHome
    <3> QED
      BY <3>1, <3>2, <3>3
  <2>3. \A p \in SavedHomes' : SavedVariable(p)' <= variableCount'
    BY <1>1, <1>12 DEF DataInv, OneHome
  <2>4. \A p, q \in SavedHomes' : SavedVariable(p)' = SavedVariable(q)' => p = q
    BY <1>12 DEF DataInv, OneHome
  <2>5. ASSUME NEW p \in SavedHomes', NEW s \in Homes' PROVE SavedVariable(p)' # holds'[s]
    <3>1. CASE s \in W
      <4>1. p # From(s)
        BY <3>1, <1>12, <1>8
      <4> QED
        BY <3>1, <4>1, <1>10, <1>12 DEF DataInv, OneHome
    <3>2. CASE s \notin W
      BY <3>2, <1>10, <1>12 DEF DataInv, OneHome
    <3> QED
      BY <3>1, <3>2
  <2>6. \A p \in SavedHomes', c \in captures' : SavedVariable(p)' # c[2]
    BY <1>1, <1>12 DEF DataInv, OneHome
  <2> QED
    BY <2>1, <2>2, <2>3, <2>4, <2>5, <2>6 DEF OneHome
<1>15. CapturesMatch'
  <2>1. \A c \in captures : c[1] \in Upvals
    BY DEF DataType, Upvals
  <2>2. ASSUME NEW c \in captures, location[c[1]] # 0 PROVE holds'[location[c[1]]] = c[2]
    BY <2>1, <2>2, <1>11 DEF DataInv, OpenUpvalues, CapturesMatch
  <2>3. ASSUME NEW c \in captures, location[c[1]] = 0
        PROVE  closed[c[1]] = current[c[2]] /\ \A s \in Homes' : holds'[s] # c[2]
    BY <2>3, <1>10 DEF DataInv, CapturesMatch, OneHome
  <2>4. \A c, d \in captures : c[1] = d[1] <=> c[2] = d[2]
    BY DEF DataInv, CapturesMatch
  <2> QED
    BY <2>2, <2>3, <2>4, <1>1 DEF CapturesMatch, upvalues
<1>16. RegistersMatch'
  BY <1>1, <1>10, <1>12 DEF DataInv, RegistersMatch
<1> QED
  BY <1>4, <1>6, <1>9, <1>13, <1>14, <1>15, <1>16 DEF DataInv

-----------------------------------------------------------------------------
LEMMA InitIInv == Init => IInv
<1> SUFFICES ASSUME Init PROVE IInv
  OBVIOUS
<1> USE DEF Init
<1>1. 1 \in Depths /\ 1..frameCount = {1}
  BY DEF Depths
<1>2. /\ Frame(0, 1, NoClosure, NoGenerator) \in FrameType
      /\ \A f \in Depths : frames[f] = Frame(0, 1, NoClosure, NoGenerator)
  BY DEF Frame, FrameType, NoClosure, Pair
<1>3. StackType
  <2>1. generators \in [Generators -> GeneratorType]
    BY DEF GeneratorType, NoClosure, Pair, Slots
  <2> QED
    BY <1>1, <1>2, <2>1 DEF StackType
<1>4. DataType
  BY DEF DataType
<1>5. Layout
  BY <1>1, <1>2 DEF Layout, Frame, Closures
<1>6. \A f \in 1..frameCount : Window(f) = 1..1
  BY <1>1, <1>2 DEF Window, Frame
<1>7. FlagsCover
  BY <1>6 DEF FlagsCover
<1>8. Homes = {} /\ SavedHomes = {}
  BY DEF Homes, InUse, SavedHomes, Suspended
<1>9. DataInv
  BY <1>8 DEF DataInv, OpenUpvalues, OneHome, CapturesMatch, RegistersMatch
<1> QED
  BY <1>3, <1>4, <1>5, <1>7, <1>9 DEF IInv

LEMMA NextIInv ==
  ASSUME Patterns = {}, IInv, [Next]_vars
  PROVE  IInv'
<1>1. ASSUME NEW s \in Slots, NEW v \in Values, Declare(s, v) \/ Assign(s, v) PROVE IInv'
  BY <1>1, DeclareStep, AssignStep
<1>2. ASSUME NEW s \in Slots, Capture(s) \/ NextIteration(s) PROVE IInv'
  BY <1>2, CaptureStep, NextIterationStep
<1>3. ASSUME NEW v \in Values, SetUpvalue(v) PROVE IInv'
  BY <1>3, SetUpvalueStep
<1>4. ASSUME NEW size \in Sizes, NEW closure \in Closures, Call(size, closure) PROVE IInv'
  <2>1. generators = [g \in Generators |->
            IF g = NoGenerator THEN [generators[g] EXCEPT !.state = "executing"]
                               ELSE generators[g]]
    BY DEF IInv, StackType
  <2>2. generators' = [g \in Generators |->
            IF g = NoGenerator THEN [generators[g] EXCEPT !.state = "executing"]
                               ELSE generators[g]]
    BY <1>4, <2>1 DEF Call
  <2> QED
    BY <1>4, <2>2, CallStep DEF Call
<1>5. ASSUME NEW size \in Sizes, NEW closure \in Closures, NEW k \in Generators,
             StartGenerator(k, size, closure)
      PROVE  IInv'
  <2>1. generators' = [g \in Generators |->
            IF g = k THEN [generators[g] EXCEPT !.state = "executing"] ELSE generators[g]]
    BY <1>5 DEF StartGenerator, IInv, StackType
  <2> QED
    BY <1>5, <2>1, CallStep DEF StartGenerator
<1>6. ASSUME NEW size \in Sizes, NEW closure \in Closures, TailCall(size, closure) PROVE IInv'
  BY <1>6, TailCallStep
<1>7. CASE Return
  BY <1>7, ReturnStep
<1>8. CASE Unwind
  BY <1>8, UnwindStep
<1>9. CASE Yield
  BY <1>9, YieldStep
<1>10. ASSUME NEW k \in Generators, Resume(k) PROVE IInv'
  BY <1>10, ResumeStep
<1>11. CASE UNCHANGED vars
  <2>1. UNCHANGED <<stack, generators>> /\ captures \subseteq captures'
    BY <1>11 DEF vars, stack
  <2>2. StackType' /\ Layout' /\ InUse' = InUse
        /\ \A f \in 1..frameCount : Window(f)' = Window(f)
    BY <2>1, SameCalls DEF IInv
  <2>3. DataType' /\ FlagsCover' /\ Homes' = Homes
    BY <1>11, <2>2 DEF vars, DataType, FlagsCover, Homes, IInv
  <2>4. SavedHomes' \subseteq SavedHomes
        /\ \A p \in SavedHomes' :
             SavedVariable(p)' = SavedVariable(p) /\ SavedValue(p)' = SavedValue(p)
    BY <2>1, SameSaved
  <2>5. DataInv'
    BY <1>11, <2>3, <2>4, KeepHomes DEF vars, upvalues, IInv
  <2> QED
    BY <2>2, <2>3, <2>5 DEF IInv
<1> QED
  BY <1>1, <1>2, <1>3, <1>4, <1>5, <1>6, <1>7, <1>8, <1>9, <1>10, <1>11 DEF Next

LEMMA SharedFromIInv == IInv => VariablesAreShared
<1> SUFFICES ASSUME IInv PROVE VariablesAreShared
  OBVIOUS
<1> USE DEF IInv
<1>1. ASSUME NEW c \in captures PROVE Resolve(c[1]) = current[c[2]]
  <2>1. c[1] \in Upvals
    BY DEF DataType, Upvals
  <2> QED
    BY <2>1 DEF DataInv, OpenUpvalues, CapturesMatch, RegistersMatch, Resolve
<1>2. ASSUME NEW f \in 1..frameCount, NEW s \in Window(f), holds[s] # 0
      PROVE  registerStack[s] = current[holds[s]]
  <2>1. s \in Homes
    BY <1>2, WindowsApart DEF Homes
  <2> QED
    BY <2>1 DEF DataInv, RegistersMatch
<1>3. ASSUME NEW g \in Generators, NEW i \in 1..generators[g].size,
             generators[g].state = "suspended", generators[g].holds[i] # 0
      PROVE  generators[g].registers[i] = current[generators[g].holds[i]]
  <2>1. i \in Slots /\ i <= generators[g].size
    BY <1>3 DEF Layout, Slots, StackType, GeneratorType
  <2>2. <<g, i>> \in SavedHomes
    BY <1>3, <2>1 DEF SavedHomes, Suspended
  <2> QED
    BY <2>2 DEF DataInv, RegistersMatch, SavedVariable, SavedValue
<1> QED
  BY <1>1, <1>2, <1>3 DEF VariablesAreShared

(* In every program without the patterns, however its functions call,      *)
(* tail-call, throw through and suspend each other, the closures that      *)
(* captured a variable and the function that declares it share it.         *)
THEOREM CapturedVariablesAreShared ==
  ASSUME Patterns = {}
  PROVE  Spec => []VariablesAreShared
<1>1. Init => IInv
  BY InitIInv
<1>2. IInv /\ [Next]_vars => IInv'
  BY NextIInv
<1>3. IInv => VariablesAreShared
  BY SharedFromIInv
<1> QED
  BY <1>1, <1>2, <1>3, PTL DEF Spec
=============================================================================
