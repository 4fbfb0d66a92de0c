------------------------- MODULE RegisterAllocator -------------------------
(***************************************************************************)
(* The register allocator of one function being compiled                   *)
(* (pkg/compiler/regalloc.go), with the calls the compiler makes on it:    *)
(* temporaries, locals, hinted and contiguous blocks, closure captures and *)
(* the reclamation of a block's locals at scope exit.                      *)
(*                                                                         *)
(* A Register is a uint8: NumRegs stands for 256 and every addition on a   *)
(* Register is taken modulo NumRegs.                                       *)
(***************************************************************************)
EXTENDS Integers, FiniteSets, SequencesExt

CONSTANTS
    NumRegs,                    \* 2^width of the Register type
    VariableRegisterThreshold,  \* locals live below it, temporaries anywhere
    MaxBlock                    \* largest contiguous block asked for (a bound)

ASSUME SizesAssumption ==
    /\ NumRegs \in Nat /\ NumRegs >= 3
    /\ VariableRegisterThreshold \in 0..(NumRegs - 1)
    /\ MaxBlock \in Nat

Register == 0..(NumRegs - 1)

NoHint == NumRegs - 1

VARIABLES
    nextReg,       \* next register never handed out
    maxReg,        \* highest register handed out so far
    freeRegs,      \* stack of registers given back
    pinnedRegs,    \* registers Free ignores
    capturedRegs,  \* registers a closure refers to until the function ends
    panicked,      \* the allocator panicked: the compilation is abandoned
    result,        \* history: the registers the last call returned
    live,          \* history: the registers the compiler holds
    wrapped        \* history: nextReg has overflowed the Register type

code == <<nextReg, maxReg, freeRegs, pinnedRegs, capturedRegs>>
vars == <<code, panicked, result, live, wrapped>>

IsInFreeList(r) == Contains(freeRegs, r)

MaxRegs == IF nextReg = 0 THEN 0 ELSE (maxReg + 1) % NumRegs

-----------------------------------------------------------------------------
(* Helpers on the free list.                                               *)

(* s without the members of B, in the same order.                          *)
Without(s, B) ==
    LET kept    == {i \in DOMAIN s : s[i] \notin B}
        rank(i) == Cardinality({k \in kept : k <= i})
    IN  [j \in 1..Cardinality(kept) |-> s[CHOOSE i \in kept : rank(i) = j]]

(* The n registers from first on.                                          *)
Block(first, n) == {(first + j) % NumRegs : j \in 0..(n - 1)}

(* The free list in ascending order, as both searches below go through it: *)
(* the register at position j has fewer than j below it, and at least j    *)
(* with itself.                                                            *)
SortedFree ==
    [j \in DOMAIN freeRegs |->
        CHOOSE r \in ToSet(freeRegs) :
            /\ Cardinality({i \in DOMAIN freeRegs : freeRegs[i] < r}) < j
            /\ Cardinality({i \in DOMAIN freeRegs : freeRegs[i] <= r}) >= j]

(* TryAllocContiguous: the positions from which n free registers follow,   *)
(* each compared with the first of them.                                   *)
FreeBlocks(n) ==
    {i \in 1..(Len(freeRegs) - n + 1) :
        \A j \in 1..(n - 1) : SortedFree[i + j] = (SortedFree[i] + j) % NumRegs}

FirstFreeBlock(n) == Block(SortedFree[Min(FreeBlocks(n))], n)

(* MaxContiguousAvailable: the length of the run that the scan is in at    *)
(* position i, each register compared with its neighbour.                  *)
RunLen[i \in DOMAIN freeRegs] ==
    IF i > 1 /\ SortedFree[i] = (SortedFree[i - 1] + 1) % NumRegs
    THEN RunLen[i - 1] + 1
    ELSE 1

(* Mutant: a run is counted when the next one begins, the last run never.  *)
MaxContiguousBeforeLast ==
    Max({NumRegs - nextReg} \cup
        {RunLen[i] : i \in {k \in DOMAIN freeRegs :
                               k < Len(freeRegs) /\ RunLen[k + 1] = 1}})

MaxContiguousAvailable ==
    Max({NumRegs - nextReg} \cup {RunLen[i] : i \in DOMAIN freeRegs})

-----------------------------------------------------------------------------
(* Mutant: an allocation that forgets the high-water mark.                 *)
HandOutForgettingMax(R) ==
    /\ result' = R
    /\ live' = live \cup R
    /\ UNCHANGED <<pinnedRegs, panicked, maxReg>>

(* What every successful allocation does: the caller holds R, and maxReg   *)
(* covers it.                                                              *)
HandOut(R) ==
    /\ result' = R
    /\ live' = live \cup R
    /\ maxReg' = Max(R \cup {maxReg})
    /\ UNCHANGED <<pinnedRegs, panicked>>

Refuse ==
    /\ result' = {}
    /\ UNCHANGED <<code, panicked, live, wrapped>>

Panic ==
    /\ panicked' = TRUE
    /\ result' = {}
    /\ UNCHANGED <<code, live, wrapped>>

PopFree ==
    /\ freeRegs # <<>>
    /\ HandOut({Last(freeRegs)})
    /\ freeRegs' = Front(freeRegs)
    /\ UNCHANGED <<nextReg, capturedRegs, wrapped>>

TakeNext(limit) ==
    /\ nextReg < limit
    /\ HandOut({nextReg})
    /\ nextReg' = nextReg + 1
    /\ UNCHANGED <<freeRegs, capturedRegs, wrapped>>

Alloc ==
    \/ PopFree
    \/ freeRegs = <<>> /\ TakeNext(NumRegs - 1)
    \/ freeRegs = <<>> /\ nextReg >= NumRegs - 1 /\ Panic

LowFree == {i \in DOMAIN freeRegs : freeRegs[i] < VariableRegisterThreshold}

(* A local takes the topmost low register of the free list, then a new     *)
(* one; when the low registers are used up the caller spills the variable. *)
TryAllocForVariable ==
    \/ /\ LowFree # {}
       /\ HandOut({freeRegs[Max(LowFree)]})
       /\ freeRegs' = RemoveAt(freeRegs, Max(LowFree))
       /\ UNCHANGED <<nextReg, capturedRegs, wrapped>>
    \/ LowFree = {} /\ TakeNext(VariableRegisterThreshold)
    \/ LowFree = {} /\ nextReg >= VariableRegisterThreshold /\ Refuse

IsAvailable(r) == r \notin pinnedRegs /\ (IsInFreeList(r) \/ r >= nextReg)

Reserve(r) ==
    \/ /\ IsInFreeList(r)
       /\ result' = {r}
       /\ live' = live \cup {r}
       /\ freeRegs' = RemoveFirst(freeRegs, r)
       /\ UNCHANGED <<nextReg, maxReg, pinnedRegs, capturedRegs, panicked, wrapped>>
    \/ /\ ~IsInFreeList(r)
       /\ HandOut({r})
       /\ nextReg' = (r + 1) % NumRegs
       /\ UNCHANGED <<freeRegs, capturedRegs, wrapped>>

AllocHinted(hint) ==
    \/ hint # NoHint /\ IsAvailable(hint) /\ Reserve(hint)
    \/ (hint = NoHint \/ ~IsAvailable(hint)) /\ Alloc

(* Mutant: a reused run that stays in the free list.                       *)
TakeRunKeepingList(n) ==
    /\ FreeBlocks(n) # {}
    /\ HandOut(FirstFreeBlock(n))
    /\ UNCHANGED <<nextReg, freeRegs, capturedRegs, wrapped>>

(* A block of n >= 2: the lowest run of free registers, else the tail.  A  *)
(* tail block that ends at the last register leaves nextReg = 0.           *)
TakeRun(n) ==
    /\ FreeBlocks(n) # {}
    /\ HandOut(FirstFreeBlock(n))
    /\ freeRegs' = Without(freeRegs, FirstFreeBlock(n))
    /\ UNCHANGED <<nextReg, capturedRegs, wrapped>>

TakeTail(n) ==
    /\ FreeBlocks(n) = {}
    /\ nextReg + n <= NumRegs
    /\ HandOut(Block(nextReg, n))
    /\ nextReg' = (nextReg + n) % NumRegs
    /\ wrapped' = (wrapped \/ nextReg + n = NumRegs)
    /\ UNCHANGED <<freeRegs, capturedRegs>>

NoBlock(n) == FreeBlocks(n) = {} /\ nextReg + n > NumRegs

TryAllocContiguous(n) ==
    \/ n <= 0 /\ Refuse
    \/ n = 1 /\ Alloc
    \/ n >= 2 /\ (TakeRun(n) \/ TakeTail(n) \/ (NoBlock(n) /\ Refuse))

AllocContiguous(n) ==
    \/ n <= 0 /\ Panic
    \/ n = 1 /\ Alloc
    \/ n >= 2 /\ (TakeRun(n) \/ TakeTail(n) \/ (NoBlock(n) /\ Panic))

-----------------------------------------------------------------------------
(* Giving registers back.  The compiler frees registers it holds, and may  *)
(* free one again that is already in the free list.                        *)

(* Mutant: Free without the guard against a double free.                   *)
ReleaseTwice(r, pins) ==
    /\ pinnedRegs' = pins
    /\ freeRegs' = IF r \in pins THEN freeRegs ELSE Append(freeRegs, r)
    /\ live' = IF r \in pins THEN live ELSE live \ {r}
    /\ result' = {}
    /\ UNCHANGED <<nextReg, maxReg, capturedRegs, panicked, wrapped>>

Release(r, pins) ==
    /\ pinnedRegs' = pins
    /\ freeRegs' = IF r \in pins \/ IsInFreeList(r) THEN freeRegs
                                                    ELSE Append(freeRegs, r)
    /\ live' = IF r \in pins THEN live ELSE live \ {r}
    /\ result' = {}
    /\ UNCHANGED <<nextReg, maxReg, capturedRegs, panicked, wrapped>>

Free(r) ==
    /\ r \in live \cup ToSet(freeRegs)
    /\ Release(r, pinnedRegs)

(* Mutant: scope exit that does not look at the captures.                  *)
FreeScopeRegisterCaptured(r) ==
    /\ r \in live
    /\ Release(r, pinnedRegs \ {r})

(* Scope exit: drop the pin of a local and free it, unless a closure       *)
(* captured it.                                                            *)
FreeScopeRegister(r) ==
    /\ r \in live
    /\ \/ r \in capturedRegs /\ Refuse
       \/ r \notin capturedRegs /\ Release(r, pinnedRegs \ {r})

Pin(r) ==
    /\ r \in live
    /\ pinnedRegs' = pinnedRegs \cup {r}
    /\ result' = {}
    /\ UNCHANGED <<nextReg, maxReg, freeRegs, capturedRegs, panicked, live, wrapped>>

PinCapture(r) ==
    /\ r \in live
    /\ pinnedRegs' = pinnedRegs \cup {r}
    /\ capturedRegs' = capturedRegs \cup {r}
    /\ result' = {}
    /\ UNCHANGED <<nextReg, maxReg, freeRegs, panicked, live, wrapped>>

Reset ==
    /\ nextReg' = 0 /\ maxReg' = 0 /\ freeRegs' = <<>>
    /\ pinnedRegs' = {} /\ capturedRegs' = {}
    /\ result' = {} /\ live' = {} /\ wrapped' = FALSE
    /\ UNCHANGED panicked

-----------------------------------------------------------------------------
Init ==
    /\ nextReg = 0 /\ maxReg = 0 /\ freeRegs = <<>>
    /\ pinnedRegs = {} /\ capturedRegs = {}
    /\ panicked = FALSE /\ result = {} /\ live = {} /\ wrapped = FALSE

Next ==
    /\ ~panicked
    /\ \/ Alloc
       \/ TryAllocForVariable
       \/ Reset
       \/ \E n \in 0..MaxBlock : AllocContiguous(n) \/ TryAllocContiguous(n)
       \/ \E r \in Register :
             \/ AllocHinted(r)
             \/ Free(r)
             \/ FreeScopeRegister(r)
             \/ Pin(r)
             \/ PinCapture(r)

Spec == Init /\ [][Next]_vars

-----------------------------------------------------------------------------
(* Types.  pinnedRegs and capturedRegs are Go maps, used as sets.          *)
TypeOK ==
    /\ nextReg \in Register
    /\ maxReg \in Register
    /\ freeRegs \in Seq(Register)
    /\ pinnedRegs \subseteq Register
    /\ capturedRegs \subseteq Register
    /\ result \subseteq Register
    /\ live \subseteq Register
    /\ panicked \in BOOLEAN
    /\ wrapped \in BOOLEAN

(* The named parts of the inductive invariant.  The free list never has    *)
(* duplicates; until nextReg overflows it holds no register in use, every  *)
(* register in play lies below nextReg and within maxReg, pins are on      *)
(* registers in use and captures are pinned.                               *)
FreeListDistinct == IsInjective(freeRegs)
FreeListUnused   == ToSet(freeRegs) \cap live = {}
InPlayBelowNext  == \A r \in live \cup ToSet(freeRegs) : r < nextReg /\ r <= maxReg
MaxBelowNext     == maxReg < nextReg \/ (maxReg = 0 /\ nextReg = 0)
PinsAreLive      == capturedRegs \subseteq pinnedRegs /\ pinnedRegs \subseteq live

NotOverflowedInv == FreeListUnused /\ InPlayBelowNext /\ MaxBelowNext /\ PinsAreLive

Inv == TypeOK /\ FreeListDistinct /\ (~wrapped => NotOverflowedInv)

(* A register in use is never handed out again: none of the eight ways to  *)
(* allocate returns a register somebody still holds, as long as nextReg    *)
(* has not overflowed (regalloc.go:58-287, guard against double hand-out   *)
(* at 418-421).                                                            *)
HandOutIsFresh == [][~wrapped => result' \cap live = {}]_vars

(* A register captured by a closure stays reserved until the function ends *)
(* whatever is freed, unpinned or reclaimed in between (regalloc.go:36-38, *)
(* compiler.go:1130-1134).                                                 *)
CapturedStaysReserved == ~wrapped => capturedRegs \subseteq live \ ToSet(freeRegs)

(* The frame of MaxRegs slots the VM allocates for the function has a slot *)
(* for every register the compiler holds, until nextReg overflows.         *)
FrameCoversLive == ~wrapped => \A r \in live : r < MaxRegs

(* MaxContiguousAvailable (regalloc.go:299-332), which compares neighbours *)
(* in one scan, and TryAllocContiguous (218-287), which compares each      *)
(* register with the first of the block, agree on the free list and the    *)
(* tail: a block of n >= 2 is refused exactly when the maximum is below n. *)
AvailabilityIsExact ==
    \A n \in 2..NumRegs : NoBlock(n) <=> n > MaxContiguousAvailable

(* What the comment of MaxRegs says (regalloc.go:383-384: the maximum      *)
(* register index allocated plus one, the number of slots needed), with no *)
(* condition.  A tail block that ends at register NumRegs - 1 breaks it.   *)
MaxRegsIsFrameSize == \A r \in live : r < MaxRegs

=============================================================================
