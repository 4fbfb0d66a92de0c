-------------------------- MODULE TryFinallyProofs --------------------------
(***************************************************************************)
(* Proofs about TryFinally, for programs of any size.  In all of them a  *)
(* pending action is covered by finallyDepth; that is inductive by itself.*)
(* In the programs that the machine keeps up with (KeptUpWith) it holds  *)
(* exactly what one finally block, the only one that has interrupted     *)
(* something, is to resume (IInv), and so implements Completions.        *)
(***************************************************************************)
EXTENDS TryFinally, SequenceTheorems, WellFoundedInduction, TLAPS

(* Starting an exception keeps pending actions covered, when what is     *)
(* pending beforehand is.                                                *)
LEMMA ThrowCovers ==
    ASSUME NEW fs, NEW p, NEW v,
           finallyDepth \in BOOLEAN, p # Normal => finallyDepth,
           throwException(fs, p, v)
    PROVE  DepthCoversPending'
<1> DEFINE c     == Thrown(v)
           found == {f \in DOMAIN fs : Handlers(fs[f], "throw") # {}}
           left  == IF finallyDepth /\ p.type = "throw" THEN Normal ELSE p
<1>1. left # Normal => finallyDepth
  OBVIOUS
<1>2. \/ pending' = left /\ UNCHANGED finallyDepth
      \/ pending' = c /\ finallyDepth' = TRUE
  BY Zenon DEF throwException, handleFinallyBlock
<1>3. CASE pending' = left /\ UNCHANGED finallyDepth
  BY <1>1, <1>3 DEF DepthCoversPending
<1>4. CASE pending' = c /\ finallyDepth' = TRUE
  BY <1>4 DEF DepthCoversPending
<1> QED
  BY <1>2, <1>3, <1>4

(* What a return does to the pending action.                             *)
LEMMA ReturnCovers ==
    ASSUME NEW fs, NEW c, ReturnThrough(fs, c)
    PROVE  \/ finallyDepth' = TRUE
           \/ Handlers(Top(fs), "return") = {} /\ pending' = Normal
BY Zenon DEF ReturnThrough, handleFinallyBlock

(* No step leaves a pending action uncovered.                            *)
LEMMA NextCovers ==
    DepthCoversPending /\ [Next]_vars => DepthCoversPending'
<1> SUFFICES ASSUME DepthCoversPending, [Next]_vars PROVE DepthCoversPending'
  OBVIOUS
<1> USE DEF machine
<1>0. finallyDepth \in BOOLEAN /\ (pending # Normal => finallyDepth)
  BY DEF DepthCoversPending
<1>1. ASSUME UNCHANGED <<pending, finallyDepth>> PROVE DepthCoversPending'
  <2>1. pending' = pending
    BY <1>1
  <2>2. finallyDepth' = finallyDepth
    BY <1>1, Zenon
  <2> QED
    BY <1>0, <2>1, <2>2, Zenon DEF DepthCoversPending
<1>2. CASE EnterLoop \/ EnterTry \/ EndBlock \/ Call \/ TailCall \/ EndScript
  <2>1. UNCHANGED machine
    BY <1>2, Zenon DEF EnterLoop, EnterTry, EndBlock, Call, TailCall, EndScript
  <2> QED
    BY <1>1, <2>1, Zenon
<1>3. CASE EndFinally
  <2>1. PICK next \in Following : OpHandlePending(SetTop(frames, Pop(Top(frames)) \o next))
    BY <1>3 DEF EndFinally
  <2> DEFINE at == SetTop(frames, Pop(Top(frames)) \o next)
  <2>2. OpHandlePending(at)
    BY <2>1
  <2> HIDE DEF at
  <2>3. CASE completionStack # <<>>
    <3>1. UNCHANGED <<pending, finallyDepth>>
      BY <2>2, <2>3, Zenon DEF OpHandlePending
    <3> QED
      BY <1>1, <3>1
  <2>4. CASE completionStack = <<>> /\ pending.type = "return"
    <3>1. /\ ReturnThrough(at, pending)
          /\ Handlers(Top(at), "return") = {} => UNCHANGED finallyDepth
      BY <2>2, <2>4 DEF OpHandlePending
    <3>2. CASE finallyDepth' = TRUE
      BY <3>2 DEF DepthCoversPending
    <3>3. CASE Handlers(Top(at), "return") = {} /\ pending' = Normal
      <4>1. finallyDepth' = finallyDepth
        BY <3>1, <3>3, Zenon
      <4> QED
        BY <1>0, <3>3, <4>1, Zenon DEF DepthCoversPending
    <3> QED
      BY <3>1, <3>2, <3>3, ReturnCovers
  <2>5. CASE completionStack = <<>> /\ pending.type = "throw"
    <3>1. throwException(at, Normal, pending.value)
      BY <2>2, <2>5 DEF OpHandlePending
    <3> QED
      BY <1>0, <3>1, ThrowCovers
  <2>6. CASE completionStack = <<>> /\ pending.type \notin {"return", "throw"}
    <3>1. UNCHANGED <<pending, finallyDepth>>
      BY <2>2, <2>6 DEF OpHandlePending
    <3> QED
      BY <1>1, <3>1
  <2> QED
    BY <2>3, <2>4, <2>5, <2>6
<1>4. CASE Throw
  <2>1. PICK v \in Values : throwException(frames, pending, v)
    BY <1>4 DEF Throw, OpThrow
  <2> QED
    BY <1>0, <2>1, ThrowCovers
<1>5. CASE Return
  <2>1. PICK fs, v : OpReturnFinally(fs, v) \/ OpReturn(fs, v)
    BY <1>5, Zenon DEF Return
  <2>2. CASE OpReturnFinally(fs, v)
    <3>1. /\ ReturnThrough(fs, Returned(v))
          /\ Handlers(Top(fs), "return") = {} => finallyDepth' = FALSE
      BY <2>2, Zenon DEF OpReturnFinally
    <3>2. CASE finallyDepth' = TRUE
      BY <3>2 DEF DepthCoversPending
    <3>3. CASE Handlers(Top(fs), "return") = {} /\ pending' = Normal
      BY <3>1, <3>3 DEF DepthCoversPending
    <3> QED
      BY <3>1, <3>2, <3>3, ReturnCovers
  <2>3. CASE OpReturn(fs, v) /\ Handlers(Top(fs), "return") = {}
    <3>1. UNCHANGED machine
      BY <2>3, Zenon DEF OpReturn
    <3> QED
      BY <1>1, <3>1, Zenon
  <2>4. CASE OpReturn(fs, v) /\ Handlers(Top(fs), "return") # {}
    <3>1. pending' = IF finallyDepth THEN Returned(v) ELSE Normal
      BY <2>4, Zenon DEF OpReturn
    <3>2. finallyDepth' = finallyDepth
      BY <2>4, Zenon DEF OpReturn
    <3> QED
      BY <1>0, <3>1, <3>2, Zenon DEF DepthCoversPending
  <2> QED
    BY <2>1, <2>2, <2>3, <2>4
<1>6. CASE LeaveLoop
  <2>1. UNCHANGED <<pending, finallyDepth>>
    <3>1. PICK kind, t : Leave(kind, t)
      BY <1>6, Zenon DEF LeaveLoop
    <3> QED
      BY <3>1, Zenon DEF Leave
  <2> QED
    BY <1>1, <2>1
<1>7. CASE UNCHANGED vars
  BY <1>1, <1>7, Zenon DEF vars
<1> QED
  BY <1>2, <1>3, <1>4, <1>5, <1>6, <1>7, Zenon DEF Next

(* In any program, whatever a finally block interrupted is kept from the *)
(* main loop, which at finallyDepth 0 drops pending returns and throws   *)
(* pending exceptions (the end of run's loop in pkg/vm/vm.go).  The one  *)
(* return the loop does drop is dropped within OpReturn.                 *)
THEOREM PendingIsCovered == Spec => []DepthCoversPending
<1>1. Init => DepthCoversPending
  BY DEF Init, DepthCoversPending
<1>2. DepthCoversPending /\ [Next]_vars => DepthCoversPending'
  BY NextCovers
<1> QED
  BY <1>1, <1>2, PTL DEF Spec

-----------------------------------------------------------------------------
(* The programs that the machine keeps up with, of any size: no try in a *)
(* finally block that has interrupted something, no tail call out of a try-*)
(* finally, no loop exit that leaves two of them at once, no try directly*)
(* behind a call, a "return;" or a finally block; and a finally block does*)
(* not end with an exit, nor override one.                               *)
KeptUpWith ==
    /\ Overrides \subseteq
          ({"throw", "return", "break", "continue"} \X {"normal"})
             \cup {<<"return", "throw">>, <<"return", "return">>, <<"throw", "throw">>}
    /\ FinallyTries = FALSE
    /\ TailCalls = FALSE
    /\ DeepExits = FALSE
    /\ AdjacentTries = FALSE

Completed ==
    {Normal} \cup [type : {"throw", "return"}, value : Values]
             \cup [type : {"break", "continue"}, target : Nat]

Statements ==
    [part : {"loop", "body", "catch", "finally"}, catch : BOOLEAN, finally : BOOLEAN,
     after : Completed]

StatementOK(r) ==
    /\ r \in Statements
    /\ r.part = "loop" => ~r.finally /\ ~r.catch
    /\ r.part = "finally" => r.finally
    /\ r.part # "finally" => r.after = Normal

(* A stack of frames; no try statement is ahead.                         *)
Good(fs) ==
    /\ fs \in Seq(Seq(Statements))
    /\ \A f \in DOMAIN fs : \A i \in DOMAIN fs[f] : StatementOK(fs[f][i])

Before(g, j, f, i) == g < f \/ (g = f /\ j < i)

(* Nothing below statement i of frame f has interrupted anything.        *)
QuietBelow(fs, f, i) ==
    \A g \in DOMAIN fs : \A j \in DOMAIN fs[g] :
       Before(g, j, f, i) => fs[g][j].after = Normal

Quiet(fs) == \A g \in DOMAIN fs : \A j \in DOMAIN fs[g] : fs[g][j].after = Normal

(* The loop that an exit ends is below in the frame, with no finally block*)
(* to be run in between.                                                 *)
ReachesLoop(fr, i, c) ==
    c.type \in {"break", "continue"} =>
       /\ c.target \in 1..(i - 1)
       /\ fr[c.target].part = "loop"
       /\ \A j \in (c.target + 1)..(i - 1) : ~Finalizes(fr[j])

(* Only statement i of frame f has interrupted something, and it has come*)
(* to nothing but loops since.                                           *)
Stands(fs, f, i) ==
    /\ f \in DOMAIN fs /\ i \in DOMAIN fs[f]
    /\ fs[f][i].after # Normal
    /\ QuietBelow(fs, f, i)
    /\ \A g \in DOMAIN fs : \A j \in DOMAIN fs[g] :
          Before(f, i, g, j) => fs[g][j].part = "loop"
    /\ ReachesLoop(fs[f], i, fs[f][i].after)

(* The machine holds completion c and nothing else.                      *)
Holds(c) ==
    /\ pending = IF c.type \in {"throw", "return"} THEN c ELSE Normal
    /\ completionStack = IF c.type \in {"break", "continue"} THEN <<c>> ELSE <<>>

(* What the machine holds is what one finally block has interrupted.     *)
HoldsInterrupted ==
    \/ Quiet(frames) /\ Holds(Normal)
    \/ \E f \in DOMAIN frames : \E i \in DOMAIN frames[f] :
          Stands(frames, f, i) /\ Holds(frames[f][i].after)

IInv ==
    /\ Good(frames)
    /\ frames # <<>> => HoldsInterrupted
    /\ DepthCoversPending

-----------------------------------------------------------------------------
(* Stacks that are cut, and go on from there.                            *)

(* gs is fs cut behind statement n of frame f.                           *)
CutTo(fs, gs, f, n) ==
    /\ f \in DOMAIN fs /\ n \in 0..Len(fs[f])
    /\ gs \in Seq(Seq(Statements)) /\ Len(gs) = f
    /\ \A g \in 1..(f - 1) : gs[g] = fs[g]
    /\ Len(gs[f]) = n
    /\ \A j \in 1..n : gs[f][j] = fs[f][j]

(* And then goes on with statement r.                                    *)
CutPlus(fs, gs, f, n, r) ==
    /\ f \in DOMAIN fs /\ n \in 0..Len(fs[f])
    /\ gs \in Seq(Seq(Statements)) /\ Len(gs) = f
    /\ \A g \in 1..(f - 1) : gs[g] = fs[g]
    /\ Len(gs[f]) = n + 1
    /\ \A j \in 1..n : gs[f][j] = fs[f][j]
    /\ gs[f][n + 1] = r

LEMMA GoodStacks ==
  ASSUME NEW fs, Good(fs)
  PROVE  /\ fs \in Seq(Seq(Statements)) /\ Len(fs) \in Nat /\ DOMAIN fs = 1..Len(fs)
         /\ \A f \in DOMAIN fs :
               /\ fs[f] \in Seq(Statements) /\ Len(fs[f]) \in Nat
               /\ DOMAIN fs[f] = 1..Len(fs[f])
               /\ \A i \in DOMAIN fs[f] : StatementOK(fs[f][i])
         /\ fs # <<>> => Len(fs) \in DOMAIN fs
<1>1. fs \in Seq(Seq(Statements))
  BY DEF Good
<1>2. \A f \in DOMAIN fs : fs[f] \in Seq(Statements)
  BY <1>1
<1> QED
  BY <1>1, <1>2 DEF Good

LEMMA SubSeqs ==
  ASSUME NEW S, NEW s \in Seq(S), NEW n \in 0..Len(s)
  PROVE  /\ SubSeq(s, 1, n) \in Seq(S)
         /\ Len(SubSeq(s, 1, n)) = n
         /\ \A i \in 1..n : SubSeq(s, 1, n)[i] = s[i]
  OBVIOUS

LEMMA SetTopCuts ==
  ASSUME NEW fs, Good(fs), fs # <<>>, NEW n \in 0..Len(Top(fs))
  PROVE  CutTo(fs, SetTop(fs, SubSeq(Top(fs), 1, n)), Len(fs), n)
<1> DEFINE m == Len(fs)
           fr == SubSeq(fs[m], 1, n)
<1>1. fs \in Seq(Seq(Statements)) /\ m \in DOMAIN fs /\ m \in Nat /\ fs[m] \in Seq(Statements)
  BY GoodStacks
<1>2. n \in 0..Len(fs[m])
  BY DEF Top
<1>3. fr \in Seq(Statements) /\ Len(fr) = n /\ \A i \in 1..n : fr[i] = fs[m][i]
  BY <1>1, <1>2, SubSeqs
<1> HIDE DEF fr
<1>4. PICK gs : gs = [fs EXCEPT ![m] = fr]
  OBVIOUS
<1>5. /\ gs \in Seq(Seq(Statements)) /\ Len(gs) = m /\ gs[m] = fr
      /\ \A g \in 1..(m - 1) : gs[g] = fs[g]
  BY <1>1, <1>3, <1>4
<1>6. CutTo(fs, gs, m, n)
  BY <1>1, <1>2, <1>3, <1>5 DEF CutTo
<1> QED
  BY <1>4, <1>6 DEF SetTop, Top, fr

LEMMA SetTopPlus ==
  ASSUME NEW fs, Good(fs), fs # <<>>, NEW n \in 0..Len(Top(fs)), NEW r \in Statements
  PROVE  CutPlus(fs, SetTop(fs, Append(SubSeq(Top(fs), 1, n), r)), Len(fs), n, r)
<1> DEFINE m == Len(fs)
           fr == SubSeq(fs[m], 1, n)
           plus == Append(fr, r)
<1>1. fs \in Seq(Seq(Statements)) /\ m \in DOMAIN fs /\ m \in Nat /\ fs[m] \in Seq(Statements)
  BY GoodStacks
<1>2. n \in 0..Len(fs[m])
  BY DEF Top
<1>3. fr \in Seq(Statements) /\ Len(fr) = n /\ \A i \in 1..n : fr[i] = fs[m][i]
  BY <1>1, <1>2, SubSeqs
<1> HIDE DEF fr
<1>4. /\ plus \in Seq(Statements) /\ Len(plus) = n + 1 /\ plus[n + 1] = r
      /\ \A i \in 1..n : plus[i] = fs[m][i]
  BY <1>3, AppendProperties
<1> HIDE DEF plus
<1>5. PICK gs : gs = [fs EXCEPT ![m] = plus]
  OBVIOUS
<1>6. /\ gs \in Seq(Seq(Statements)) /\ Len(gs) = m /\ gs[m] = plus
      /\ \A g \in 1..(m - 1) : gs[g] = fs[g]
  BY <1>1, <1>4, <1>5
<1>7. CutPlus(fs, gs, m, n, r)
  BY <1>1, <1>2, <1>4, <1>6 DEF CutPlus
<1> QED
  BY <1>5, <1>7 DEF SetTop, Top, fr, plus

LEMMA PopCuts ==
  ASSUME NEW fs, Good(fs), Len(fs) > 1
  PROVE  CutTo(fs, Pop(fs), Len(fs) - 1, Len(fs[Len(fs) - 1]))
<1>1. /\ fs \in Seq(Seq(Statements)) /\ Len(fs) \in Nat /\ Len(fs) - 1 \in DOMAIN fs
      /\ Len(fs) - 1 \in 0..Len(fs)
  BY GoodStacks
<1>2. Len(fs[Len(fs) - 1]) \in Nat
  BY <1>1, GoodStacks
<1>3. PICK m, gs : m = Len(fs) - 1 /\ gs = Pop(fs)
  OBVIOUS
<1>4. /\ gs \in Seq(Seq(Statements)) /\ Len(gs) = m
      /\ \A g \in 1..m : gs[g] = fs[g]
  BY <1>1, <1>3, SubSeqs DEF Pop
<1>5. gs[m] = fs[m] /\ m \in Nat
  <2>1. m \in 1..m
    BY <1>1, <1>3, GoodStacks
  <2> QED
    BY <1>4, <2>1
<1>6. CutTo(fs, gs, m, Len(fs[m]))
  BY <1>1, <1>2, <1>3, <1>4, <1>5 DEF CutTo
<1> QED
  BY <1>3, <1>6

LEMMA UnwindPlus ==
  ASSUME NEW fs, Good(fs), NEW f \in DOMAIN fs, NEW n \in 0..Len(fs[f]), NEW r \in Statements
  PROVE  CutPlus(fs, Append(SubSeq(fs, 1, f - 1), Append(SubSeq(fs[f], 1, n), r)), f, n, r)
<1> DEFINE fr == SubSeq(fs[f], 1, n)
           plus == Append(fr, r)
           low == SubSeq(fs, 1, f - 1)
<1>1. /\ fs \in Seq(Seq(Statements)) /\ fs[f] \in Seq(Statements)
      /\ f \in Nat /\ f - 1 \in 0..Len(fs)
  BY GoodStacks
<1>2. fr \in Seq(Statements) /\ Len(fr) = n /\ \A i \in 1..n : fr[i] = fs[f][i]
  BY <1>1, SubSeqs
<1> HIDE DEF fr
<1>3. /\ plus \in Seq(Statements) /\ Len(plus) = n + 1 /\ plus[n + 1] = r
      /\ \A i \in 1..n : plus[i] = fs[f][i]
  BY <1>2, AppendProperties
<1> HIDE DEF plus
<1>4. low \in Seq(Seq(Statements)) /\ Len(low) = f - 1 /\ \A g \in 1..(f - 1) : low[g] = fs[g]
  BY <1>1, SubSeqs
<1> HIDE DEF low
<1>5. PICK gs : gs = Append(low, plus)
  OBVIOUS
<1>6. /\ gs \in Seq(Seq(Statements)) /\ Len(gs) = (f - 1) + 1 /\ gs[(f - 1) + 1] = plus
      /\ \A g \in 1..(f - 1) : gs[g] = fs[g]
  BY <1>3, <1>4, <1>5, AppendProperties
<1>7. (f - 1) + 1 = f
  BY <1>1
<1>8. CutPlus(fs, gs, f, n, r)
  BY <1>1, <1>3, <1>6, <1>7 DEF CutPlus
<1> QED
  BY <1>5, <1>8 DEF fr, plus, low

(* Entering handler i of frame f, in any of the two forms of the code.   *)
LEMMA EntersPlus ==
  ASSUME NEW fs, Good(fs), NEW f \in DOMAIN fs, NEW i \in DOMAIN fs[f], NEW c \in Completed
  PROVE  LET r == IF c.type = "throw" /\ Catches(fs[f][i])
                  THEN [fs[f][i] EXCEPT !.part = "catch"]
                  ELSE [fs[f][i] EXCEPT !.part = "finally", !.after = c]
         IN  /\ r \in Statements
             /\ CutPlus(fs, Append(SubSeq(fs, 1, f - 1), Enter(fs[f], i, c)), f, i - 1, r)
             /\ f = Len(fs) => CutPlus(fs, SetTop(fs, Enter(Top(fs), i, c)), f, i - 1, r)
             /\ f = Len(fs) => Append(Pop(fs), Enter(Top(fs), i, c)) = SetTop(fs, Enter(Top(fs), i, c))
<1> DEFINE r == IF c.type = "throw" /\ Catches(fs[f][i])
                THEN [fs[f][i] EXCEPT !.part = "catch"]
                ELSE [fs[f][i] EXCEPT !.part = "finally", !.after = c]
<1>1. StatementOK(fs[f][i]) /\ i - 1 \in 0..Len(fs[f]) /\ fs # <<>>
  BY GoodStacks
<1>2. r \in Statements
  BY <1>1 DEF StatementOK, Statements
<1>3. Enter(fs[f], i, c) = Append(SubSeq(fs[f], 1, i - 1), r)
  BY DEF Enter
<1> HIDE DEF r
<1>4. PICK s \in Statements : s = r
  BY <1>2
<1>5. CutPlus(fs, Append(SubSeq(fs, 1, f - 1), Enter(fs[f], i, c)), f, i - 1, r)
  BY <1>1, <1>3, <1>4, UnwindPlus
<1>6. ASSUME f = Len(fs)
      PROVE  CutPlus(fs, SetTop(fs, Enter(Top(fs), i, c)), f, i - 1, r)
  <2>1. Top(fs) = fs[f]
    BY <1>6 DEF Top
  <2> QED
    BY <1>1, <1>3, <1>4, <1>6, <2>1, SetTopPlus
<1>7. ASSUME f = Len(fs)
      PROVE  Append(Pop(fs), Enter(Top(fs), i, c)) = SetTop(fs, Enter(Top(fs), i, c))
  <2>1. Top(fs) = fs[f]
    BY <1>6, <1>7 DEF Top
  <2>2. PICK gs, hs : /\ gs = Append(Pop(fs), Enter(Top(fs), i, c))
                      /\ hs = SetTop(fs, Enter(Top(fs), i, c))
    OBVIOUS
  <2>3. CutPlus(fs, gs, f, i - 1, r) /\ CutPlus(fs, hs, f, i - 1, r)
    BY <1>5, <1>6, <1>7, <2>1, <2>2 DEF Pop
  <2>4. /\ gs \in Seq(Seq(Statements)) /\ hs \in Seq(Seq(Statements))
        /\ Len(gs) = f /\ Len(hs) = f
        /\ \A g \in 1..(f - 1) : gs[g] = hs[g]
    BY <2>3 DEF CutPlus
  <2>5. gs[f] = Enter(fs[f], i, c) /\ hs[f] = Enter(fs[f], i, c)
    <3>1. PICK e : e = Enter(fs[f], i, c)
      OBVIOUS
    <3>2. e \in Seq(Statements)
      BY <1>1, <1>3, <1>4, <3>1, SubSeqs, AppendProperties, GoodStacks
    <3>3. Pop(fs) \in Seq(Seq(Statements)) /\ Len(Pop(fs)) = f - 1 /\ f \in Nat
      BY <1>7, <1>1, GoodStacks, SubSeqs DEF Pop
    <3>4. gs[(f - 1) + 1] = e
      BY <2>1, <2>2, <3>1, <3>2, <3>3, AppendProperties
    <3>5. hs = [fs EXCEPT ![f] = e]
      BY <1>7, <2>1, <2>2, <3>1 DEF SetTop
    <3>6. (f - 1) + 1 = f
      BY <3>3
    <3> QED
      BY <3>1, <3>4, <3>5, <3>6
  <2>6. \A g \in 1..f : gs[g] = hs[g]
    BY <2>4, <2>5, GoodStacks
  <2> QED
    BY <2>2, <2>4, <2>6, SeqEqual
<1> QED
  BY <1>2, <1>5, <1>6, <1>7 DEF r

LEMMA CutStaysGood ==
  ASSUME NEW fs, Good(fs), NEW gs, NEW f, NEW n, CutTo(fs, gs, f, n)
  PROVE  Good(gs)
<1>1. /\ f \in DOMAIN fs /\ n \in 0..Len(fs[f]) /\ n \in Nat /\ f \in Nat
      /\ gs \in Seq(Seq(Statements)) /\ Len(gs) = f
      /\ \A g \in 1..(f - 1) : gs[g] = fs[g]
      /\ Len(gs[f]) = n /\ \A j \in 1..n : gs[f][j] = fs[f][j]
  BY GoodStacks DEF CutTo
<1>2. /\ \A g \in DOMAIN fs : \A i \in 1..Len(fs[g]) : StatementOK(fs[g][i])
      /\ DOMAIN fs = 1..Len(fs) /\ Len(fs) \in Nat /\ Len(fs[f]) \in Nat
  BY <1>1, GoodStacks
<1>3. ASSUME NEW g \in DOMAIN gs, NEW i \in DOMAIN gs[g] PROVE StatementOK(gs[g][i])
  <2>1. g \in 1..f /\ gs[g] \in Seq(Statements) /\ i \in 1..Len(gs[g])
    BY <1>1
  <2>2. CASE g = f
    BY <1>1, <1>2, <2>1, <2>2
  <2>3. CASE g # f
    BY <1>1, <1>2, <2>1, <2>3, SMTT(20)
  <2> QED
    BY <2>2, <2>3
<1> QED
  BY <1>1, <1>3 DEF Good

LEMMA PlusStaysGood ==
  ASSUME NEW fs, Good(fs), NEW gs, NEW f, NEW n, NEW r, StatementOK(r), CutPlus(fs, gs, f, n, r)
  PROVE  Good(gs) /\ gs # <<>>
<1>1. /\ f \in DOMAIN fs /\ n \in 0..Len(fs[f]) /\ n \in Nat /\ f \in Nat /\ f # 0
      /\ gs \in Seq(Seq(Statements)) /\ Len(gs) = f
      /\ \A g \in 1..(f - 1) : gs[g] = fs[g]
      /\ Len(gs[f]) = n + 1 /\ \A j \in 1..n : gs[f][j] = fs[f][j]
      /\ gs[f][n + 1] = r
  BY GoodStacks DEF CutPlus
<1>2. /\ \A g \in DOMAIN fs : \A i \in 1..Len(fs[g]) : StatementOK(fs[g][i])
      /\ DOMAIN fs = 1..Len(fs) /\ Len(fs) \in Nat /\ Len(fs[f]) \in Nat
  BY <1>1, GoodStacks
<1>3. ASSUME NEW g \in DOMAIN gs, NEW i \in DOMAIN gs[g] PROVE StatementOK(gs[g][i])
  <2>1. g \in 1..f /\ gs[g] \in Seq(Statements) /\ i \in 1..Len(gs[g])
    BY <1>1
  <2>2. CASE g = f
    BY <1>1, <1>2, <2>1, <2>2
  <2>3. CASE g # f
    <3>1. g \in 1..(f - 1) /\ g \in DOMAIN fs
      BY <1>1, <1>2, <2>1, <2>3
    <3>2. gs[g] = fs[g]
      BY <1>1, <3>1
    <3> QED
      BY <1>2, <2>1, <3>1, <3>2
  <2> QED
    BY <2>2, <2>3
<1> QED
  BY <1>1, <1>3 DEF Good

(* Where a statement of the cut stack comes from.                        *)
LEMMA CutComesFrom ==
  ASSUME NEW fs, Good(fs), NEW gs, NEW f, NEW n, CutTo(fs, gs, f, n),
         NEW g \in DOMAIN gs, NEW j \in DOMAIN gs[g]
  PROVE  /\ g \in DOMAIN fs /\ j \in DOMAIN fs[g] /\ gs[g][j] = fs[g][j]
         /\ Before(g, j, f, n + 1) /\ g \in Nat /\ j \in Nat
<1>1. /\ f \in DOMAIN fs /\ n \in 0..Len(fs[f]) /\ n \in Nat /\ f \in Nat
      /\ gs \in Seq(Seq(Statements)) /\ Len(gs) = f
      /\ \A h \in 1..(f - 1) : gs[h] = fs[h]
      /\ Len(gs[f]) = n /\ \A i \in 1..n : gs[f][i] = fs[f][i]
      /\ DOMAIN fs = 1..Len(fs) /\ Len(fs) \in Nat
      /\ Len(fs[f]) \in Nat /\ DOMAIN fs[f] = 1..Len(fs[f])
  BY GoodStacks DEF CutTo
<1>2. g \in 1..f /\ gs[g] \in Seq(Statements) /\ j \in 1..Len(gs[g])
  BY <1>1
<1>3. CASE g = f
  BY <1>1, <1>2, <1>3 DEF Before
<1>4. CASE g # f
  <2>1. g \in 1..(f - 1) /\ g \in DOMAIN fs /\ g < f
    BY <1>1, <1>2, <1>4
  <2>2. gs[g] = fs[g]
    BY <1>1, <2>1
  <2> QED
    BY <1>2, <2>1, <2>2 DEF Before
<1> QED
  BY <1>3, <1>4

LEMMA PlusComesFrom ==
  ASSUME NEW fs, Good(fs), NEW gs, NEW f, NEW n, NEW r, CutPlus(fs, gs, f, n, r),
         NEW g \in DOMAIN gs, NEW j \in DOMAIN gs[g]
  PROVE  /\ g \in Nat /\ j \in Nat
         /\ \/ /\ g \in DOMAIN fs /\ j \in DOMAIN fs[g] /\ gs[g][j] = fs[g][j]
               /\ Before(g, j, f, n + 1)
            \/ g = f /\ j = n + 1 /\ gs[g][j] = r
<1>1. /\ f \in DOMAIN fs /\ n \in 0..Len(fs[f]) /\ n \in Nat /\ f \in Nat
      /\ gs \in Seq(Seq(Statements)) /\ Len(gs) = f
      /\ \A h \in 1..(f - 1) : gs[h] = fs[h]
      /\ Len(gs[f]) = n + 1 /\ \A i \in 1..n : gs[f][i] = fs[f][i]
      /\ gs[f][n + 1] = r
      /\ DOMAIN fs = 1..Len(fs) /\ Len(fs) \in Nat
      /\ Len(fs[f]) \in Nat /\ DOMAIN fs[f] = 1..Len(fs[f])
  BY GoodStacks DEF CutPlus
<1>2. g \in 1..f /\ gs[g] \in Seq(Statements) /\ j \in 1..Len(gs[g])
  BY <1>1
<1>3. CASE g = f
  BY <1>1, <1>2, <1>3 DEF Before
<1>4. CASE g # f
  <2>1. g \in 1..(f - 1) /\ g \in DOMAIN fs /\ g < f
    BY <1>1, <1>2, <1>4
  <2>2. gs[g] = fs[g]
    BY <1>1, <2>1
  <2> QED
    BY <1>2, <2>1, <2>2 DEF Before
<1> QED
  BY <1>3, <1>4

LEMMA CutQuiet ==
  ASSUME NEW fs, Good(fs), NEW gs, NEW f, NEW n, CutTo(fs, gs, f, n),
         QuietBelow(fs, f, n + 1)
  PROVE  Quiet(gs)
  BY CutComesFrom DEF Quiet, QuietBelow

LEMMA PlusQuiet ==
  ASSUME NEW fs, Good(fs), NEW gs, NEW f, NEW n, NEW r, CutPlus(fs, gs, f, n, r),
         QuietBelow(fs, f, n + 1), r.after = Normal
  PROVE  Quiet(gs)
  BY PlusComesFrom DEF Quiet, QuietBelow

(* What the cut leaves where it was.                                     *)
LEMMA CutLeaves ==
  ASSUME NEW fs, Good(fs), NEW gs, NEW f, NEW n,
         NEW r, CutTo(fs, gs, f, n) \/ CutPlus(fs, gs, f, n, r),
         NEW p \in DOMAIN fs, NEW q \in DOMAIN fs[p], Before(p, q, f, n + 1)
  PROVE  /\ p \in DOMAIN gs /\ q \in DOMAIN gs[p]
         /\ \A j \in 1..q : gs[p][j] = fs[p][j]
<1>1. /\ f \in DOMAIN fs /\ n \in 0..Len(fs[f]) /\ n \in Nat /\ f \in Nat
      /\ gs \in Seq(Seq(Statements)) /\ Len(gs) = f
      /\ \A h \in 1..(f - 1) : gs[h] = fs[h]
      /\ Len(gs[f]) \in {n, n + 1} /\ \A i \in 1..n : gs[f][i] = fs[f][i]
      /\ DOMAIN fs = 1..Len(fs) /\ Len(fs) \in Nat
      /\ fs[p] \in Seq(Statements) /\ p \in Nat /\ q \in Nat
  BY GoodStacks, SMTT(20) DEF CutTo, CutPlus
<1>2. p \in DOMAIN gs /\ gs[f] \in Seq(Statements)
  BY <1>1 DEF Before
<1>3. CASE p = f
  BY <1>1, <1>2, <1>3 DEF Before
<1>4. CASE p # f
  <2>1. p \in 1..(f - 1)
    BY <1>1, <1>2, <1>4 DEF Before
  <2>2. gs[p] = fs[p]
    BY <1>1, <2>1
  <2> QED
    BY <1>2, <2>2
<1> QED
  BY <1>3, <1>4

(* gs is fs cut behind statement n of frame f; or goes on with a loop.   *)
CutOrLoop(fs, gs, f, n) ==
    CutTo(fs, gs, f, n) \/ \E r : r.part = "loop" /\ CutPlus(fs, gs, f, n, r)

(* A finally block that is not left still stands.                        *)
LEMMA CutStands ==
  ASSUME NEW fs, Good(fs), NEW gs, NEW f, NEW n, CutOrLoop(fs, gs, f, n),
         NEW p, NEW q, Stands(fs, p, q), Before(p, q, f, n + 1)
  PROVE  Stands(gs, p, q) /\ gs[p][q] = fs[p][q]
<1>1. /\ p \in DOMAIN fs /\ q \in DOMAIN fs[p]
      /\ fs[p][q].after # Normal
      /\ \A g \in DOMAIN fs : \A j \in DOMAIN fs[g] :
            /\ Before(g, j, p, q) => fs[g][j].after = Normal
            /\ Before(p, q, g, j) => fs[g][j].part = "loop"
      /\ ReachesLoop(fs[p], q, fs[p][q].after)
  BY DEF Stands, QuietBelow
<1>2. /\ p \in DOMAIN gs /\ q \in DOMAIN gs[p]
      /\ \A j \in 1..q : gs[p][j] = fs[p][j]
  <2>1. PICK r : CutTo(fs, gs, f, n) \/ CutPlus(fs, gs, f, n, r)
    BY DEF CutOrLoop
  <2>2. p \in DOMAIN fs /\ q \in DOMAIN fs[p]
    BY <1>1
  <2>3. CASE CutTo(fs, gs, f, n)
    BY <2>2, <2>3, CutLeaves
  <2>4. CASE CutPlus(fs, gs, f, n, r)
    BY <2>2, <2>4, CutLeaves
  <2> QED
    BY <2>1, <2>3, <2>4
<1>3. q \in Nat /\ q # 0 /\ p \in Nat
  BY <1>1, GoodStacks
<1>4. gs[p][q] = fs[p][q]
  BY <1>2, <1>3
<1>5. f \in Nat /\ n \in Nat
  BY GoodStacks DEF CutOrLoop, CutTo, CutPlus
<1>6. ASSUME NEW g \in DOMAIN gs, NEW j \in DOMAIN gs[g]
      PROVE  /\ Before(g, j, p, q) => gs[g][j].after = Normal
             /\ Before(p, q, g, j) => gs[g][j].part = "loop"
  <2>1. CASE g \in DOMAIN fs /\ j \in DOMAIN fs[g] /\ gs[g][j] = fs[g][j]
    BY <1>1, <2>1
  <2>2. CASE g = f /\ j = n + 1 /\ gs[g][j].part = "loop"
    BY <2>2, <1>3, <1>5 DEF Before
  <2> QED
    BY <2>1, <2>2, CutComesFrom, PlusComesFrom DEF CutOrLoop
<1>7. ReachesLoop(gs[p], q, gs[p][q].after)
  <2>1. PICK c : c = fs[p][q].after
    OBVIOUS
  <2>2. SUFFICES ASSUME c.type \in {"break", "continue"}
                 PROVE  /\ c.target \in 1..(q - 1)
                        /\ gs[p][c.target].part = "loop"
                        /\ \A j \in (c.target + 1)..(q - 1) : ~Finalizes(gs[p][j])
    BY <1>4, <2>1 DEF ReachesLoop
  <2>3. /\ c.target \in 1..(q - 1)
        /\ fs[p][c.target].part = "loop"
        /\ \A j \in (c.target + 1)..(q - 1) : ~Finalizes(fs[p][j])
    BY <1>1, <2>1, <2>2 DEF ReachesLoop
  <2>4. PICK t \in 1..(q - 1) : t = c.target
    BY <2>3
  <2>5. t \in 1..q /\ \A j \in (t + 1)..(q - 1) : j \in 1..q
    BY <1>3
  <2> QED
    BY <1>2, <2>3, <2>4, <2>5
<1> QED
  BY <1>1, <1>2, <1>4, <1>6, <1>7 DEF Stands, QuietBelow

(* A finally block is entered that has something to resume.              *)
LEMMA PlusInterrupts ==
  ASSUME NEW fs, Good(fs), NEW gs, NEW f, NEW n, NEW r, CutPlus(fs, gs, f, n, r),
         QuietBelow(fs, f, n + 1), r.after # Normal, ReachesLoop(fs[f], n + 1, r.after)
  PROVE  Stands(gs, f, n + 1) /\ gs[f][n + 1] = r
<1>1. /\ f \in DOMAIN fs /\ n \in 0..Len(fs[f]) /\ n \in Nat /\ f \in Nat /\ f # 0
      /\ gs \in Seq(Seq(Statements)) /\ Len(gs) = f
      /\ Len(gs[f]) = n + 1 /\ \A i \in 1..n : gs[f][i] = fs[f][i]
      /\ gs[f][n + 1] = r
  BY GoodStacks, SMTT(20) DEF CutPlus
<1>2. f \in DOMAIN gs /\ n + 1 \in DOMAIN gs[f]
  <2>1. f \in DOMAIN gs /\ gs[f] \in Seq(Statements)
    BY <1>1
  <2> QED
    BY <1>1, <2>1
<1>3. ASSUME NEW g \in DOMAIN gs, NEW j \in DOMAIN gs[g]
      PROVE  /\ Before(g, j, f, n + 1) => gs[g][j].after = Normal
             /\ ~Before(f, n + 1, g, j)
  BY <1>1, PlusComesFrom DEF QuietBelow, Before
<1>4. ReachesLoop(gs[f], n + 1, r.after)
  <2>1. SUFFICES ASSUME r.after.type \in {"break", "continue"}
                 PROVE  /\ r.after.target \in 1..((n + 1) - 1)
                        /\ gs[f][r.after.target].part = "loop"
                        /\ \A j \in (r.after.target + 1)..((n + 1) - 1) : ~Finalizes(gs[f][j])
    BY DEF ReachesLoop
  <2>2. /\ r.after.target \in 1..((n + 1) - 1)
        /\ fs[f][r.after.target].part = "loop"
        /\ \A j \in (r.after.target + 1)..((n + 1) - 1) : ~Finalizes(fs[f][j])
    BY <2>1 DEF ReachesLoop
  <2>3. PICK t \in 1..n : t = r.after.target
    BY <2>2, <1>1
  <2>4. (n + 1) - 1 = n /\ \A j \in (t + 1)..n : j \in 1..n
    BY <1>1
  <2> QED
    BY <1>1, <2>2, <2>3, <2>4
<1> QED
  BY <1>1, <1>2, <1>3, <1>4 DEF Stands, QuietBelow

LEMMA HandlersAreBelow ==
  ASSUME NEW fs, Good(fs), NEW p, NEW q, Stands(fs, p, q),
         NEW g \in DOMAIN fs, NEW type, NEW j \in Handlers(fs[g], type)
  PROVE  Before(g, j, p, q)
<1>1. /\ p \in DOMAIN fs /\ q \in DOMAIN fs[p] /\ fs[p][q].after # Normal
      /\ Before(p, q, g, j) => fs[g][j].part = "loop"
      /\ j \in DOMAIN fs[g]
  BY DEF Stands, Handlers
<1>2. g \in Nat /\ j \in Nat /\ p \in Nat /\ q \in Nat
  BY <1>1, GoodStacks
<1>3. fs[g][j].part \in {"ahead", "body", "catch"}
  BY DEF Handlers, Finalizes, Catches
<1>4. StatementOK(fs[p][q])
  BY <1>1, GoodStacks
<1>5. fs[p][q].part = "finally"
  BY <1>1, <1>4 DEF StatementOK
<1> QED
  BY <1>1, <1>2, <1>3, <1>5 DEF Before

(* Where a handler is found nothing below has interrupted anything.      *)
LEMMA HandlersAreQuiet ==
  ASSUME NEW fs, Good(fs), Quiet(fs) \/ \E p, q : Stands(fs, p, q),
         NEW g \in DOMAIN fs, NEW type, NEW j \in Handlers(fs[g], type)
  PROVE  QuietBelow(fs, g, j)
<1>1. CASE Quiet(fs)
  BY <1>1 DEF Quiet, QuietBelow
<1>2. ASSUME NEW p, NEW q, Stands(fs, p, q) PROVE QuietBelow(fs, g, j)
  <2>1. Before(g, j, p, q) /\ QuietBelow(fs, p, q)
    BY <1>2, HandlersAreBelow DEF Stands
  <2>2. /\ p \in Nat /\ q \in Nat /\ g \in Nat /\ j \in Nat
        /\ \A h \in DOMAIN fs : h \in Nat /\ \A i \in DOMAIN fs[h] : i \in Nat
    BY <1>2, GoodStacks DEF Stands, Handlers
  <2> QED
    BY <2>1, <2>2 DEF QuietBelow, Before
<1> QED
  BY <1>1, <1>2

-----------------------------------------------------------------------------
(* The machine and the completions.                                      *)

LEMMA InnermostIs ==
  ASSUME NEW n \in Nat, NEW S \in SUBSET (1..n), S # {}
  PROVE  Innermost(S) \in S /\ \A j \in S : j <= Innermost(S)
<1> DEFINE T == {n - i : i \in S}
<1>1. T \in SUBSET Nat /\ T # {}
  <2>1. \A i \in S : n - i \in Nat
    OBVIOUS
  <2> QED
    BY <2>1
<1>2. PICK m \in T : \A k \in T : <<k, m>> \notin OpToRel(<, Nat)
  BY <1>1, NatLessThanWellFounded, WFMin
<1>3. PICK i \in S : m = n - i
  BY <1>2
<1>4. ASSUME NEW j \in S PROVE j <= i
  <2>1. n - j \in T /\ n - j \in Nat /\ m \in Nat
    BY <1>1, <1>2
  <2>2. ~(n - j < m)
    BY <1>2, <2>1 DEF OpToRel
  <2> QED
    BY <1>3, <2>1, <2>2
<1> QED
  BY <1>4 DEF Innermost

LEMMA HandlersAreThere ==
  ASSUME NEW fs, Good(fs), NEW type
  PROVE  /\ \A g \in DOMAIN fs :
               Handlers(fs[g], type) # {} =>
                  /\ Innermost(Handlers(fs[g], type)) \in Handlers(fs[g], type)
                  /\ Innermost(Handlers(fs[g], type)) \in DOMAIN fs[g]
                  /\ \A j \in Handlers(fs[g], type) : j <= Innermost(Handlers(fs[g], type))
         /\ LET found == {g \in DOMAIN fs : Handlers(fs[g], type) # {}}
            IN  found # {} =>
                   Innermost(found) \in DOMAIN fs /\ Handlers(fs[Innermost(found)], type) # {}
<1>1. ASSUME NEW g \in DOMAIN fs, Handlers(fs[g], type) # {}
      PROVE  /\ Innermost(Handlers(fs[g], type)) \in Handlers(fs[g], type)
             /\ Innermost(Handlers(fs[g], type)) \in DOMAIN fs[g]
             /\ \A j \in Handlers(fs[g], type) : j <= Innermost(Handlers(fs[g], type))
  <2>1. Handlers(fs[g], type) \in SUBSET (1..Len(fs[g])) /\ Len(fs[g]) \in Nat
    BY GoodStacks DEF Handlers
  <2>2. Innermost(Handlers(fs[g], type)) \in Handlers(fs[g], type)
        /\ \A j \in Handlers(fs[g], type) : j <= Innermost(Handlers(fs[g], type))
    BY <1>1, <2>1, InnermostIs
  <2> QED
    BY <2>2 DEF Handlers
<1>2. ASSUME NEW found, found = {g \in DOMAIN fs : Handlers(fs[g], type) # {}}, found # {}
      PROVE  Innermost(found) \in DOMAIN fs /\ Handlers(fs[Innermost(found)], type) # {}
  <2>1. found \in SUBSET (1..Len(fs)) /\ Len(fs) \in Nat
    BY <1>2, GoodStacks
  <2>2. Innermost(found) \in found
    BY <1>2, <2>1, InnermostIs
  <2> QED
    BY <1>2, <2>2
<1> QED
  BY <1>1, <1>2

LEMMA ResumeIs ==
  ASSUME NEW fs, Good(fs), fs # <<>>
  PROVE  Resume(fs) = fs
<1>1. PICK m, fr : m = Len(fs) /\ fr = fs[m]
  OBVIOUS
<1>2. /\ m \in DOMAIN fs /\ fr \in Seq(Statements) /\ Len(fr) \in Nat
      /\ DOMAIN fr = 1..Len(fr)
      /\ \A i \in DOMAIN fr : StatementOK(fr[i])
  BY <1>1, GoodStacks
<1>3. ASSUME fr # <<>> PROVE fr[Len(fr)].part # "ahead"
  <2>1. Len(fr) \in DOMAIN fr
    BY <1>2, <1>3
  <2>2. StatementOK(fr[Len(fr)])
    BY <1>2, <2>1
  <2> QED
    BY <2>2 DEF StatementOK, Statements
<1> QED
  BY <1>1, <1>3 DEF Resume, Top

LEMMA CompletionKinds ==
  ASSUME NEW v \in Values, NEW kind \in {"break", "continue"}, NEW t \in Nat
  PROVE  /\ Thrown(v) \in Completed /\ Thrown(v).type = "throw" /\ Thrown(v).value = v
         /\ Returned(v) \in Completed /\ Returned(v).type = "return" /\ Returned(v).value = v
         /\ Exit(kind, t) \in Completed /\ Exit(kind, t).type = kind /\ Exit(kind, t).target = t
         /\ Normal \in Completed /\ Normal.type = "normal"
  BY DEF Thrown, Returned, Exit, Normal, Completed

LEMMA CompletedIs ==
  ASSUME NEW c \in Completed
  PROVE  /\ c.type \in {"normal", "throw", "return", "break", "continue"}
         /\ c.type = "normal" <=> c = Normal
         /\ c.type = "throw" => c.value \in Values /\ c = Thrown(c.value)
         /\ c.type = "return" => c.value \in Values /\ c = Returned(c.value)
         /\ c.type \in {"break", "continue"} => c.target \in Nat /\ c = Exit(c.type, c.target)
  BY DEF Thrown, Returned, Exit, Normal, Completed

(* A handler is entered for completion c, in the form the code has for   *)
(* exceptions; EntersPlus says that the other forms come to the same.    *)
Entered(fs, gs, g, j, c) == gs = Append(SubSeq(fs, 1, g - 1), Enter(fs[g], j, c))

LEMMA EnteredStack ==
  ASSUME NEW fs, Good(fs), NEW g \in DOMAIN fs, NEW j \in DOMAIN fs[g],
         NEW c \in Completed, NEW gs, Entered(fs, gs, g, j, c),
         (c.type = "throw" /\ Catches(fs[g][j])) \/ fs[g][j].finally
  PROVE  /\ Good(gs) /\ gs # <<>> /\ \E r : CutPlus(fs, gs, g, j - 1, r)
         /\ QuietBelow(fs, g, j) => 
               IF c = Normal \/ (c.type = "throw" /\ Catches(fs[g][j]))
               THEN Quiet(gs)
               ELSE ReachesLoop(fs[g], j, c) => Stands(gs, g, j) /\ gs[g][j].after = c
<1>1. StatementOK(fs[g][j]) /\ j \in Nat /\ g \in Nat /\ (j - 1) + 1 = j
  BY GoodStacks
<1>2. PICK r : r = IF c.type = "throw" /\ Catches(fs[g][j])
                   THEN [fs[g][j] EXCEPT !.part = "catch"]
                   ELSE [fs[g][j] EXCEPT !.part = "finally", !.after = c]
  OBVIOUS
<1>3. r \in Statements /\ CutPlus(fs, gs, g, j - 1, r)
  BY <1>2, EntersPlus DEF Entered
<1>4. fs[g][j] \in Statements
  BY <1>1 DEF StatementOK
<1>5. /\ r.after = IF c.type = "throw" /\ Catches(fs[g][j]) THEN fs[g][j].after ELSE c
      /\ r.part = IF c.type = "throw" /\ Catches(fs[g][j]) THEN "catch" ELSE "finally"
      /\ r.finally = fs[g][j].finally
  BY <1>2, <1>4 DEF Statements
<1>6. Catches(fs[g][j]) => fs[g][j].after = Normal
  BY <1>1 DEF StatementOK, Catches
<1>7. StatementOK(r)
  BY <1>3, <1>5, <1>6 DEF StatementOK
<1>8. Good(gs) /\ gs # <<>>
  BY <1>3, <1>7, PlusStaysGood
<1>9. ASSUME QuietBelow(fs, g, j), c = Normal \/ (c.type = "throw" /\ Catches(fs[g][j]))
      PROVE  Quiet(gs)
  <2>1. r.after = Normal
    BY <1>5, <1>6, <1>9
  <2> QED
    BY <1>1, <1>3, <1>9, <2>1, PlusQuiet
<1>10. ASSUME QuietBelow(fs, g, j), c # Normal, ~(c.type = "throw" /\ Catches(fs[g][j])),
              ReachesLoop(fs[g], j, c)
       PROVE  Stands(gs, g, j) /\ gs[g][j].after = c
  <2>1. r.after = c
    BY <1>5, <1>10
  <2> QED
    BY <1>1, <1>3, <1>10, <2>1, PlusInterrupts
<1> QED
  BY <1>3, <1>8, <1>9, <1>10

LEMMA ThrowGoes ==
  ASSUME NEW fs, Good(fs), fs # <<>>, Quiet(fs) \/ \E p, q : Stands(fs, p, q),
         NEW x, NEW v \in Values, throwException(fs, x, v), completionStack' = <<>>,
         frames' # <<>> => x = Normal \/ (finallyDepth /\ x.type = "throw")
  PROVE  Good(frames') /\ (frames' # <<>> => HoldsInterrupted')
<1> DEFINE c     == Thrown(v)
           found == {g \in DOMAIN fs : Handlers(fs[g], "throw") # {}}
           left  == IF finallyDepth /\ x.type = "throw" THEN Normal ELSE x
<1>1. c \in Completed /\ c.type = "throw" /\ c # Normal
  BY CompletionKinds, CompletedIs
<1>2. CASE found = {}
  <2>1. frames' = <<>>
    BY <1>2, Zenon DEF throwException, Terminate
  <2> QED
    BY <2>1 DEF Good
<1>3. CASE found # {}
  <2>1. PICK g : g = Innermost(found)
    OBVIOUS
  <2>2. PICK j : j = Innermost(Handlers(fs[g], "throw"))
    OBVIOUS
  <2>3. g \in DOMAIN fs /\ j \in Handlers(fs[g], "throw") /\ j \in DOMAIN fs[g]
    BY <1>3, <2>1, <2>2, HandlersAreThere
  <2>4. /\ frames' = Append(SubSeq(fs, 1, g - 1), Enter(fs[g], j, c))
        /\ IF Catches(fs[g][j]) THEN pending' = left ELSE pending' = c
    BY <1>3, <2>1, <2>2 DEF throwException, EnterHandler, handleFinallyBlock
  <2>5. (c.type = "throw" /\ Catches(fs[g][j])) \/ fs[g][j].finally
    BY <1>1, <2>3 DEF Handlers, Finalizes
  <2>6. QuietBelow(fs, g, j)
    BY <2>3, HandlersAreQuiet
  <2>7. ReachesLoop(fs[g], j, c)
    BY <1>1 DEF ReachesLoop
  <2> HIDE DEF c
  <2>8. /\ Good(frames') /\ frames' # <<>>
        /\ IF Catches(fs[g][j]) THEN Quiet(frames')
           ELSE Stands(frames', g, j) /\ frames'[g][j].after = c
    <3>1. PICK d, gs : d \in Completed /\ d = c /\ gs = frames'
      BY <1>1
    <3>2. Entered(fs, gs, g, j, d)
      BY <2>4, <3>1 DEF Entered
    <3>3. (d.type = "throw" /\ Catches(fs[g][j])) \/ fs[g][j].finally
      BY <2>5, <3>1
    <3>4. /\ Good(gs) /\ gs # <<>>
          /\ QuietBelow(fs, g, j) =>
                IF d = Normal \/ (d.type = "throw" /\ Catches(fs[g][j]))
                THEN Quiet(gs)
                ELSE ReachesLoop(fs[g], j, d) => Stands(gs, g, j) /\ gs[g][j].after = d
      BY <2>3, <3>1, <3>2, <3>3, EnteredStack
    <3> QED
      BY <1>1, <2>6, <2>7, <3>1, <3>4
  <2>9. left = Normal
    BY <2>8
  <2>10. CASE Catches(fs[g][j])
    <3>1. Quiet(frames') /\ pending' = Normal
      BY <2>4, <2>8, <2>9, <2>10
    <3>2. Normal.type = "normal"
      BY DEF Normal
    <3> QED
      BY <2>8, <3>1, <3>2 DEF HoldsInterrupted, Holds
  <2>11. CASE ~Catches(fs[g][j])
    <3>1. pending' = c /\ Stands(frames', g, j) /\ frames'[g][j].after = c
      BY <2>4, <2>8, <2>11
    <3>2. g \in DOMAIN frames' /\ j \in DOMAIN frames'[g]
      BY <3>1 DEF Stands
    <3> QED
      BY <1>1, <2>8, <3>1, <3>2 DEF HoldsInterrupted, Holds
  <2> QED
    BY <2>10, <2>11
<1> QED
  BY <1>2, <1>3

(* A frame is left while everything that was interrupted is in it.       *)
LEMMA PopIsQuiet ==
  ASSUME NEW fs, Good(fs), Len(fs) > 1,
         Quiet(fs) \/ \E q : Stands(fs, Len(fs), q)
  PROVE  Good(Pop(fs)) /\ Pop(fs) # <<>> /\ Quiet(Pop(fs))
<1>1. PICK f, n, gs : f = Len(fs) - 1 /\ n = Len(fs[f]) /\ gs = Pop(fs)
  OBVIOUS
<1>2. CutTo(fs, gs, f, n)
  BY <1>1, PopCuts
<1>3. Good(gs)
  BY <1>2, CutStaysGood
<1>4. gs # <<>>
  BY <1>1, <1>2, GoodStacks DEF CutTo
<1>5. QuietBelow(fs, f, n + 1)
  <2>1. f \in Nat /\ Len(fs) \in Nat /\ f < Len(fs)
    BY <1>1, GoodStacks
  <2>2. \A g \in DOMAIN fs : g \in Nat
    BY GoodStacks
  <2> QED
    BY <2>1, <2>2 DEF Quiet, Stands, QuietBelow, Before
<1>6. Quiet(gs)
  BY <1>2, <1>5, CutQuiet
<1> QED
  BY <1>1, <1>3, <1>4, <1>6

LEMMA ReturnGoes ==
  ASSUME NEW fs, Good(fs), fs # <<>>, Quiet(fs) \/ \E q : Stands(fs, Len(fs), q),
         NEW c \in Completed, c.type = "return", ReturnThrough(fs, c), completionStack' = <<>>
  PROVE  Good(frames') /\ (frames' # <<>> => HoldsInterrupted')
<1> DEFINE on == Handlers(Top(fs), "return")
           m == Len(fs)
<1>1. m \in DOMAIN fs /\ m \in Nat /\ m # 0 /\ Top(fs) = fs[m]
  BY GoodStacks DEF Top
<1>2. CASE on = {} /\ m = 1
  <2>1. frames' = <<>>
    BY <1>2, Zenon DEF ReturnThrough, PopFrame, Terminate
  <2> QED
    BY <2>1 DEF Good
<1>3. CASE on = {} /\ m # 1
  <2>1. frames' = Resume(Pop(fs)) /\ pending' = Normal
    BY <1>3, Zenon DEF ReturnThrough, PopFrame
  <2>2. Good(Pop(fs)) /\ Pop(fs) # <<>> /\ Quiet(Pop(fs))
    <3>1. m \in Nat /\ m # 0 /\ m # 1
      BY <1>1, <1>3
    <3> HIDE DEF m
    <3>2. m > 1
      BY <3>1
    <3>3. Len(fs) > 1
      BY <3>2 DEF m
    <3> QED
      BY <3>3, PopIsQuiet
  <2>3. frames' = Pop(fs)
    BY <2>1, <2>2, ResumeIs
  <2> QED
    BY <2>1, <2>2, <2>3 DEF HoldsInterrupted, Holds, Normal
<1>4. CASE on # {}
  <2>1. PICK j : j = Innermost(on)
    OBVIOUS
  <2>2. j \in Handlers(fs[m], "return") /\ j \in DOMAIN fs[m]
    BY <1>1, <1>4, <2>1, HandlersAreThere
  <2>3. frames' = Append(Pop(fs), Enter(Top(fs), j, c)) /\ pending' = c
    BY <1>4, <2>1 DEF ReturnThrough, EnterHandler, handleFinallyBlock
  <2>4. PICK gs : gs = frames'
    OBVIOUS
  <2>5. Entered(fs, gs, m, j, c)
    BY <1>1, <2>3, <2>4 DEF Entered, Pop
  <2>6. fs[m][j].finally
    BY <2>2 DEF Handlers, Finalizes
  <2>7. QuietBelow(fs, m, j)
    BY <1>1, <2>2, HandlersAreQuiet
  <2>8. ReachesLoop(fs[m], j, c) /\ c # Normal /\ ~(c.type = "throw")
    BY CompletedIs DEF ReachesLoop
  <2>9. Good(gs) /\ gs # <<>> /\ Stands(gs, m, j) /\ gs[m][j].after = c
    BY <1>1, <2>2, <2>5, <2>6, <2>7, <2>8, EnteredStack
  <2>10. m \in DOMAIN gs /\ j \in DOMAIN gs[m]
    BY <2>9 DEF Stands
  <2> QED
    BY <2>3, <2>4, <2>9, <2>10 DEF HoldsInterrupted, Holds
<1> QED
  BY <1>2, <1>3, <1>4

(* The regions of the abstract specification are the same.               *)
LEMMA AfterThrowIs ==
  ASSUME NEW fs, NEW c
  PROVE  C!AfterThrow(fs, c) =
            LET found == {f \in DOMAIN fs : Handlers(fs[f], "throw") # {}}
                f     == Innermost(found)
            IN  IF found = {} THEN <<>>
                ELSE Append(SubSeq(fs, 1, f - 1),
                            Enter(fs[f], Innermost(Handlers(fs[f], "throw")), c))
  BY DEF C!AfterThrow, C!Handlers, C!Finalizes, C!Catches, C!Enter, C!Innermost,
         Handlers, Finalizes, Catches, Enter, Innermost

LEMMA AfterReturnIs ==
  ASSUME NEW fs, NEW c
  PROVE  C!AfterReturn(fs, c) =
            LET on == Handlers(Top(fs), "return")
            IN  IF on = {} THEN Pop(fs) ELSE SetTop(fs, Enter(Top(fs), Innermost(on), c))
  BY DEF C!AfterReturn, C!Handlers, C!Finalizes, C!Catches, C!Enter, C!Innermost, C!Top,
         C!Pop, C!SetTop, Handlers, Finalizes, Catches, Enter, Innermost, Top, Pop, SetTop

LEMMA AfterExitIs ==
  ASSUME NEW fs, NEW c
  PROVE  C!AfterExit(fs, c) =
            LET on == {i \in Handlers(Top(fs), c.type) : i > c.target}
            IN  SetTop(fs, IF on = {} THEN LoopEnd(Top(fs), c)
                           ELSE Enter(Top(fs), Innermost(on), c))
  BY DEF C!AfterExit, C!Handlers, C!Finalizes, C!Catches, C!Enter, C!Innermost, C!Top,
         C!SetTop, C!LoopEnd, Handlers, Finalizes, Catches, Enter, Innermost, Top, SetTop, LoopEnd

LEMMA SameNames ==
  ASSUME NEW v, NEW k, NEW t, NEW part, NEW fs, NEW fr, NEW i, NEW c, NEW type
  PROVE  /\ C!Thrown(v) = Thrown(v) /\ C!Returned(v) = Returned(v) /\ C!Exit(k, t) = Exit(k, t)
         /\ C!Normal = Normal /\ C!Loop = Loop /\ C!Tries(part) = Tries(part)
         /\ C!Top(fs) = Top(fs) /\ C!Pop(fs) = Pop(fs) /\ C!SetTop(fs, fr) = SetTop(fs, fr)
         /\ C!Enter(fr, i, c) = Enter(fr, i, c)
         /\ C!Handlers(fr, type) = Handlers(fr, type)
<1>1. C!Thrown(v) = Thrown(v) /\ C!Returned(v) = Returned(v) /\ C!Exit(k, t) = Exit(k, t)
  BY DEF C!Thrown, C!Returned, C!Exit, Thrown, Returned, Exit
<1>2. C!Normal = Normal /\ C!Loop = Loop /\ C!Tries(part) = Tries(part)
  BY DEF C!Normal, C!Loop, C!Tries, C!Try, Normal, Loop, Tries, Try
<1>3. C!Top(fs) = Top(fs) /\ C!Pop(fs) = Pop(fs) /\ C!SetTop(fs, fr) = SetTop(fs, fr)
  BY DEF C!Top, C!Pop, C!SetTop, Top, Pop, SetTop
<1>4. C!Enter(fr, i, c) = Enter(fr, i, c) /\ C!Handlers(fr, type) = Handlers(fr, type)
  BY DEF C!Enter, C!Handlers, C!Finalizes, C!Catches, Enter, Handlers, Finalizes, Catches
<1> QED
  BY <1>1, <1>2, <1>3, <1>4

(* A completion that the abstract specification takes for the same stack.*)
LEMMA CompletesIs ==
  ASSUME NEW fs, NEW c
  PROVE  /\ c.type = "throw" => 
               (C!Complete(fs, c) <=> /\ frames' = C!AfterThrow(fs, c)
                                      /\ outcome' = IF frames' = <<>> THEN c ELSE outcome)
         /\ c.type = "return" => 
               (C!Complete(fs, c) <=> /\ frames' = C!AfterReturn(fs, c)
                                      /\ outcome' = IF frames' = <<>> THEN c ELSE outcome)
         /\ c.type \in {"break", "continue"} => 
               (C!Complete(fs, c) <=> /\ frames' = C!AfterExit(fs, c)
                                      /\ outcome' = IF frames' = <<>> THEN c ELSE outcome)
         /\ c.type = "normal" => 
               (C!Complete(fs, c) <=> /\ frames' = fs
                                      /\ outcome' = IF frames' = <<>> THEN c ELSE outcome)
  BY DEF C!Complete

LEMMA ThrowCompletes ==
  ASSUME NEW fs, Good(fs), NEW x, NEW v \in Values, throwException(fs, x, v)
  PROVE  C!Complete(fs, Thrown(v))
<1> DEFINE c     == Thrown(v)
           found == {g \in DOMAIN fs : Handlers(fs[g], "throw") # {}}
<1>1. c.type = "throw" /\ c \in Completed
  BY CompletionKinds
<1>2. CASE found = {}
  <2>1. frames' = <<>> /\ outcome' = c
    BY <1>2, Zenon DEF throwException, Terminate
  <2>2. C!AfterThrow(fs, c) = <<>>
    BY <1>2, AfterThrowIs, Zenon
  <2> QED
    BY <1>1, <2>1, <2>2, CompletesIs
<1>3. CASE found # {}
  <2>1. PICK g, j : g = Innermost(found) /\ j = Innermost(Handlers(fs[g], "throw"))
    OBVIOUS
  <2>2. g \in DOMAIN fs /\ j \in Handlers(fs[g], "throw") /\ j \in DOMAIN fs[g]
    BY <1>3, <2>1, HandlersAreThere
  <2>3. /\ frames' = Append(SubSeq(fs, 1, g - 1), Enter(fs[g], j, c))
        /\ outcome' = outcome
    BY <1>3, <2>1, Zenon DEF throwException, EnterHandler
  <2>4. C!AfterThrow(fs, c) = Append(SubSeq(fs, 1, g - 1), Enter(fs[g], j, c))
    BY <1>3, <2>1, AfterThrowIs, Zenon
  <2>5. frames' # <<>>
    <3>1. PICK gs, d : gs = frames' /\ d = c
      OBVIOUS
    <3>2. Entered(fs, gs, g, j, d) /\ d \in Completed
      BY <1>1, <2>3, <3>1 DEF Entered
    <3>3. (d.type = "throw" /\ Catches(fs[g][j])) \/ fs[g][j].finally
      BY <1>1, <2>2, <3>1 DEF Handlers, Finalizes
    <3> QED
      BY <2>2, <3>1, <3>2, <3>3, EnteredStack
  <2> QED
    BY <1>1, <2>3, <2>4, <2>5, CompletesIs
<1> QED
  BY <1>2, <1>3

LEMMA ReturnCompletes ==
  ASSUME NEW fs, Good(fs), fs # <<>>, NEW c \in Completed, c.type = "return",
         ReturnThrough(fs, c)
  PROVE  C!Complete(fs, c)
<1> DEFINE on == Handlers(Top(fs), "return")
           m  == Len(fs)
<1>1. m \in DOMAIN fs /\ m \in Nat /\ m # 0 /\ Top(fs) = fs[m]
  BY GoodStacks DEF Top
<1>2. CASE on = {} /\ m = 1
  <2>1. frames' = <<>> /\ outcome' = c
    BY <1>2, Zenon DEF ReturnThrough, PopFrame, Terminate
  <2>2. Pop(fs) = <<>>
    <3>1. fs \in Seq(Seq(Statements))
      BY DEF Good
    <3> QED
      BY <1>2, <3>1 DEF Pop
  <2>3. C!AfterReturn(fs, c) = Pop(fs)
    BY <1>2, AfterReturnIs, Zenon
  <2> QED
    BY <2>1, <2>2, <2>3, CompletesIs
<1>3. CASE on = {} /\ m # 1
  <2>1. frames' = Resume(Pop(fs)) /\ outcome' = outcome
    BY <1>3, Zenon DEF ReturnThrough, PopFrame
  <2>2. Good(Pop(fs)) /\ Pop(fs) # <<>>
    <3>1. PICK f, n, gs : f = m - 1 /\ n = Len(fs[f]) /\ gs = Pop(fs)
      OBVIOUS
    <3>2. CutTo(fs, gs, f, n)
      BY <1>1, <1>3, <3>1, PopCuts
    <3>3. Good(gs)
      BY <3>2, CutStaysGood
    <3>4. Len(gs) = m - 1
      BY <3>1, <3>2 DEF CutTo
    <3>5. gs # <<>>
      BY <1>1, <1>3, <3>4
    <3> QED
      BY <3>1, <3>3, <3>5
  <2>3. frames' = Pop(fs)
    BY <2>1, <2>2, ResumeIs
  <2>4. C!AfterReturn(fs, c) = Pop(fs)
    BY <1>3, AfterReturnIs, Zenon
  <2> QED
    BY <2>1, <2>2, <2>3, <2>4, CompletesIs
<1>4. CASE on # {}
  <2>1. PICK j, e : j = Innermost(on) /\ e = Enter(Top(fs), j, c)
    OBVIOUS
  <2>2. j \in DOMAIN fs[m]
    BY <1>1, <1>4, <2>1, HandlersAreThere
  <2>3. frames' = Append(Pop(fs), e) /\ outcome' = outcome
    BY <1>4, <2>1, Zenon DEF ReturnThrough, EnterHandler
  <2>4. Append(Pop(fs), e) = SetTop(fs, e)
    BY <1>1, <2>1, <2>2, EntersPlus
  <2>5. C!AfterReturn(fs, c) = SetTop(fs, e)
    BY <1>4, <2>1, AfterReturnIs, Zenon
  <2>6. SetTop(fs, e) # <<>>
    BY <1>1 DEF SetTop
  <2> QED
    BY <2>3, <2>4, <2>5, <2>6, CompletesIs
<1> QED
  BY <1>2, <1>3, <1>4

-----------------------------------------------------------------------------
(* One step of a program that the machine keeps up with.                 *)

(* A step leaves the machine holding what is interrupted, and is a step of*)
(* the abstract specification.                                           *)
KeepsUp ==
    /\ Good(frames')
    /\ frames' # <<>> => HoldsInterrupted'
    /\ [C!Next]_(C!vars)

(* What the steps below start from.                                      *)
Running == KeptUpWith /\ IInv /\ frames # <<>>

LEMMA RunningIs ==
  ASSUME Running
  PROVE  /\ Good(frames) /\ frames # <<>> /\ HoldsInterrupted
         /\ Len(frames) \in DOMAIN frames /\ Len(frames) \in Nat /\ Len(frames) # 0
         /\ DOMAIN frames = 1..Len(frames)
         /\ Top(frames) = frames[Len(frames)]
         /\ Top(frames) \in Seq(Statements) /\ Len(Top(frames)) \in Nat
         /\ DOMAIN Top(frames) = 1..Len(Top(frames))
         /\ \A i \in DOMAIN Top(frames) : StatementOK(Top(frames)[i])
         /\ Quiet(frames) \/ \E p, q : Stands(frames, p, q)
<1>1. Good(frames) /\ frames # <<>> /\ HoldsInterrupted
  BY DEF Running, IInv
<1>2. Top(frames) = frames[Len(frames)]
  BY DEF Top
<1>3. Quiet(frames) \/ \E p, q : Stands(frames, p, q)
  BY <1>1 DEF HoldsInterrupted
<1>4. Len(frames) \in DOMAIN frames /\ Len(frames) \in Nat /\ DOMAIN frames = 1..Len(frames)
  BY <1>1, GoodStacks
<1> QED
  BY <1>1, <1>2, <1>3, <1>4, GoodStacks

(* A block that has interrupted something is a finally block in a frame  *)
(* that has nothing but loops above it.                                  *)
LEMMA StandingIs ==
  ASSUME NEW fs, Good(fs), NEW p, NEW q, Stands(fs, p, q)
  PROVE  /\ p \in DOMAIN fs /\ p \in Nat /\ q \in DOMAIN fs[p] /\ q \in Nat
         /\ StatementOK(fs[p][q]) /\ fs[p][q].after \in Completed /\ fs[p][q].after # Normal
         /\ fs[p][q].part = "finally" /\ fs[p][q].finally
         /\ p <= Len(fs) /\ Len(fs) \in Nat
         /\ \A i \in DOMAIN fs[Len(fs)] :
               p # Len(fs) \/ q < i => fs[Len(fs)][i].part = "loop" /\ ~fs[Len(fs)][i].finally
<1>1. /\ p \in DOMAIN fs /\ p \in Nat /\ q \in DOMAIN fs[p] /\ q \in Nat
      /\ p <= Len(fs) /\ Len(fs) \in Nat /\ Len(fs) \in DOMAIN fs
  BY GoodStacks DEF Stands
<1>2. StatementOK(fs[p][q]) /\ fs[p][q].after # Normal
  BY <1>1, GoodStacks DEF Stands
<1>3. fs[p][q].part = "finally" /\ fs[p][q].finally /\ fs[p][q].after \in Completed
  BY <1>2 DEF StatementOK, Statements
<1>4. ASSUME NEW i \in DOMAIN fs[Len(fs)], p # Len(fs) \/ q < i
      PROVE  fs[Len(fs)][i].part = "loop" /\ ~fs[Len(fs)][i].finally
  <2>1. Before(p, q, Len(fs), i)
    BY <1>1, <1>4 DEF Before
  <2>2. fs[Len(fs)][i].part = "loop"
    BY <1>1, <2>1 DEF Stands
  <2>3. StatementOK(fs[Len(fs)][i])
    BY <1>1, GoodStacks
  <2> QED
    BY <2>2, <2>3 DEF StatementOK
<1> QED
  BY <1>1, <1>2, <1>3, <1>4

(* What a block that is left was run for is one of the three overridden. *)
LEMMA OverriddenIs ==
  ASSUME Running, NEW p, NEW q, Stands(frames, p, q), NEW type, Overriding(type),
         ~(p \in DOMAIN frames' /\ q \in DOMAIN frames'[p] /\ frames'[p][q] = frames[p][q])
  PROVE  <<type, frames[p][q].after.type>> \in
            {<<"return", "throw">>, <<"return", "return">>, <<"throw", "throw">>}
<1>1. /\ p \in DOMAIN frames /\ q \in DOMAIN frames[p] /\ frames[p][q].part = "finally"
      /\ frames[p][q].after \in Completed /\ frames[p][q].after # Normal
  BY RunningIs, StandingIs
<1>2. Leaves(p, q)
  BY <1>1, Zenon DEF Leaves
<1>3. <<type, frames[p][q].after.type>> \in Overrides
  BY <1>1, <1>2, Zenon DEF Overriding
<1>4. frames[p][q].after.type # "normal"
  BY <1>1, CompletedIs
<1> QED
  BY <1>3, <1>4 DEF Running, KeptUpWith

(* The machine is left alone and the stack is cut above what is interrupted*)
(* or goes on from there with a statement.                               *)
LEMMA CutKeeps ==
  ASSUME Running, UNCHANGED <<pending, completionStack>>, NEW f, NEW n, 
         \/ CutTo(frames, frames', f, n)
         \/ \E r : /\ CutPlus(frames, frames', f, n, r)
                   /\ StatementOK(r) /\ r.after = Normal
                   /\ r.part = "loop" \/ Quiet(frames),
         \A p, q : Stands(frames, p, q) => Before(p, q, f, n + 1)
  PROVE  Good(frames') /\ HoldsInterrupted'
<1>1. Good(frames) /\ frames # <<>> /\ HoldsInterrupted
  BY RunningIs
<1>2. Good(frames')
  BY <1>1, CutStaysGood, PlusStaysGood
<1>3. CASE Quiet(frames) /\ Holds(Normal)
  <2>1. QuietBelow(frames, f, n + 1)
    BY <1>3 DEF Quiet, QuietBelow
  <2>2. Quiet(frames')
    BY <1>1, <2>1, CutQuiet, PlusQuiet
  <2> QED
    BY <1>2, <1>3, <2>2 DEF HoldsInterrupted, Holds
<1>4. ASSUME NEW p \in DOMAIN frames, NEW q \in DOMAIN frames[p],
             Stands(frames, p, q), Holds(frames[p][q].after)
      PROVE  HoldsInterrupted'
  <2>1. ~Quiet(frames)
    BY <1>4 DEF Stands, Quiet
  <2>2. CutTo(frames, frames', f, n) \/ \E r : r.part = "loop" /\ CutPlus(frames, frames', f, n, r)
    BY <2>1
  <2>3. Before(p, q, f, n + 1)
    BY <1>4
  <2>4. PICK gs : gs = frames'
    OBVIOUS
  <2>5. CutOrLoop(frames, gs, f, n)
    BY <2>2, <2>4 DEF CutOrLoop
  <2>6. Stands(gs, p, q) /\ gs[p][q] = frames[p][q]
    BY <1>1, <1>4, <2>3, <2>5, CutStands
  <2>7. p \in DOMAIN gs /\ q \in DOMAIN gs[p]
    BY <2>6 DEF Stands
  <2> QED
    BY <1>4, <2>4, <2>6, <2>7 DEF HoldsInterrupted, Holds
<1> QED
  BY <1>1, <1>2, <1>3, <1>4 DEF HoldsInterrupted

LEMMA QuietHolds ==
  ASSUME Good(frames), Quiet(frames), HoldsInterrupted
  PROVE  Holds(Normal)
  BY DEF HoldsInterrupted, Quiet, Stands

(* The top frame goes on with statement r.                               *)
LEMMA TopGrows ==
  ASSUME Running, NEW r \in Statements
  PROVE  /\ CutPlus(frames, SetTop(frames, Append(Top(frames), r)),
                    Len(frames), Len(Top(frames)), r)
         /\ \A p, q : Stands(frames, p, q) => Before(p, q, Len(frames), Len(Top(frames)) + 1)
<1>1. /\ Good(frames) /\ frames # <<>> /\ Len(Top(frames)) \in Nat
      /\ Top(frames) \in Seq(Statements) /\ Top(frames) = frames[Len(frames)]
      /\ DOMAIN Top(frames) = 1..Len(Top(frames))
  BY RunningIs
<1>2. SubSeq(Top(frames), 1, Len(Top(frames))) = Top(frames)
  <2>1. PICK s \in Seq(Statements) : s = Top(frames)
    BY <1>1
  <2>2. SubSeq(s, 1, Len(s)) = s
    OBVIOUS
  <2> QED
    BY <2>1, <2>2
<1>3. Len(Top(frames)) \in 0..Len(Top(frames))
  BY <1>1
<1>4. CutPlus(frames, SetTop(frames, Append(SubSeq(Top(frames), 1, Len(Top(frames))), r)),
              Len(frames), Len(Top(frames)), r)
  BY <1>1, <1>3, SetTopPlus
<1>5. ASSUME NEW p, NEW q, Stands(frames, p, q)
      PROVE  Before(p, q, Len(frames), Len(Top(frames)) + 1)
  BY <1>1, <1>5, StandingIs DEF Before
<1> QED
  BY <1>2, <1>4, <1>5

LEMMA EnterLoopKeepsUp == Running /\ EnterLoop => KeepsUp
<1> SUFFICES ASSUME Running, EnterLoop PROVE KeepsUp
  OBVIOUS
<1>1. /\ frames' = SetTop(frames, Append(Top(frames), Loop))
      /\ outcome' = outcome /\ pending' = pending /\ completionStack' = completionStack
  BY DEF EnterLoop, machine
<1>2. StatementOK(Loop) /\ Loop \in Statements /\ Loop.part = "loop" /\ Loop.after = Normal
  BY CompletionKinds DEF Loop, StatementOK, Statements, Completed
<1>3. Good(frames') /\ HoldsInterrupted'
  BY <1>1, <1>2, TopGrows, CutKeeps
<1>4. C!Begin
  BY <1>1, SameNames, Zenon DEF C!Begin
<1> QED
  BY <1>3, <1>4 DEF KeepsUp, C!Next, Running

LEMMA EnterTryKeepsUp == Running /\ EnterTry => KeepsUp
<1> SUFFICES ASSUME Running, EnterTry PROVE KeepsUp
  OBVIOUS
<1>1. PICK r \in Tries("body") : frames' = SetTop(frames, Append(Top(frames), r))
  BY DEF EnterTry
<1>2. outcome' = outcome /\ pending' = pending /\ completionStack' = completionStack
  BY DEF EnterTry, machine
<1>3. StatementOK(r) /\ r \in Statements /\ r.after = Normal
  BY DEF Tries, Try, StatementOK, Statements, Completed
<1>4. Quiet(frames)
  BY DEF EnterTry, Running, KeptUpWith, Interrupted, Quiet
<1>5. Good(frames') /\ HoldsInterrupted'
  BY <1>1, <1>2, <1>3, <1>4, TopGrows, CutKeeps
<1>6. C!Begin
  BY <1>1, <1>2, SameNames, Zenon DEF C!Begin
<1> QED
  BY <1>5, <1>6 DEF KeepsUp, C!Next, Running

LEMMA NormalIs == Normal \in Completed /\ Normal.type = "normal"
  BY DEF Normal, Completed

(* The top frame is cut back to n statements.                            *)
LEMMA TopShrinks ==
  ASSUME Running, NEW n \in 0..Len(Top(frames))
  PROVE  /\ CutTo(frames, SetTop(frames, SubSeq(Top(frames), 1, n)), Len(frames), n)
         /\ SetTop(frames, SubSeq(Top(frames), 1, n)) # <<>>
<1>1. CutTo(frames, SetTop(frames, SubSeq(Top(frames), 1, n)), Len(frames), n)
  BY RunningIs, SetTopCuts
<1>2. PICK gs : gs = SetTop(frames, SubSeq(Top(frames), 1, n))
  OBVIOUS
<1>3. Len(gs) # 0 /\ gs \in Seq(Seq(Statements))
  BY <1>1, <1>2, RunningIs DEF CutTo
<1> QED
  BY <1>1, <1>2, <1>3

LEMMA EndBlockKeepsUp == Running /\ EndBlock => KeepsUp
<1> SUFFICES ASSUME Running, EndBlock PROVE KeepsUp
  OBVIOUS
<1>1. PICK m, n, fr, r : m = Len(frames) /\ fr = Top(frames) /\ n = Len(fr) /\ r = fr[n]
  OBVIOUS
<1>2. /\ r.part \in {"loop", "body", "catch"} /\ fr # <<>>
      /\ frames' = SetTop(frames, IF r.finally THEN Enter(fr, n, Normal) ELSE Pop(fr))
      /\ outcome' = outcome /\ pending' = pending /\ completionStack' = completionStack
  BY <1>1 DEF EndBlock, Statement, machine, Top
<1>3. /\ Good(frames) /\ frames # <<>> /\ HoldsInterrupted
      /\ m \in DOMAIN frames /\ m \in Nat /\ m # 0 /\ fr = frames[m]
      /\ fr \in Seq(Statements) /\ n \in Nat /\ n # 0 /\ n \in DOMAIN fr
      /\ StatementOK(r)
  BY <1>1, <1>2, RunningIs
<1>4. ASSUME NEW p, NEW q, Stands(frames, p, q)
      PROVE  Before(p, q, m, n) /\ ~r.finally
  <2>1. ~(p = m /\ q = n)
    BY <1>1, <1>2, <1>3, <1>4, StandingIs
  <2>2. Before(p, q, m, n) /\ (p # m \/ q < n)
    <3>1. p = m => q <= n
      BY <1>1, <1>3, <1>4, StandingIs
    <3> QED
      BY <1>1, <1>3, <1>4, <2>1, <3>1, StandingIs DEF Before
  <2> QED
    BY <1>1, <1>3, <1>4, <2>2, StandingIs
<1>5. CASE r.finally
  <2>1. Quiet(frames) /\ Holds(Normal)
    BY <1>3, <1>4, <1>5, RunningIs, QuietHolds
  <2>2. r.part \in {"body", "catch"}
    BY <1>2, <1>3, <1>5 DEF StatementOK
  <2>3. PICK e, gs : e = Enter(fr, n, Normal) /\ gs = frames'
    OBVIOUS
  <2>4. gs = SetTop(frames, e)
    BY <1>2, <1>5, <2>3
  <2>5. Entered(frames, gs, m, n, Normal)
    <3>1. Append(Pop(frames), Enter(Top(frames), n, Normal))
             = SetTop(frames, Enter(Top(frames), n, Normal))
      BY <1>1, <1>3, EntersPlus, NormalIs
    <3> QED
      BY <1>1, <1>3, <2>3, <2>4, <3>1 DEF Entered, Pop
  <2>6. QuietBelow(frames, m, n)
    BY <2>1 DEF Quiet, QuietBelow
  <2>7. Good(gs) /\ gs # <<>> /\ Quiet(gs)
    BY <1>1, <1>3, <1>5, <2>5, <2>6, EnteredStack, NormalIs
  <2>8. HoldsInterrupted'
    BY <1>2, <2>1, <2>3, <2>7 DEF HoldsInterrupted, Holds
  <2>9. C!End
    <3>1. frames' = C!SetTop(frames, C!Enter(fr, n, C!Normal)) /\ C!Top(frames) = fr
      <4>1. C!Normal = Normal /\ C!Top(frames) = fr
        BY <1>1, SameNames
      <4>2. C!Enter(fr, n, Normal) = e
        BY <2>3, SameNames
      <4>3. C!SetTop(frames, e) = frames'
        BY <2>3, <2>4, SameNames
      <4> QED
        BY <4>1, <4>2, <4>3
    <3> QED
      BY <1>1, <1>2, <1>5, <2>2, <3>1, Zenon DEF C!End
  <2> QED
    BY <1>3, <2>3, <2>7, <2>8, <2>9 DEF KeepsUp, C!Next
<1>6. CASE ~r.finally
  <2>1. frames' = SetTop(frames, SubSeq(fr, 1, n - 1))
    BY <1>1, <1>2, <1>6 DEF Pop
  <2>2. n - 1 \in 0..Len(fr) /\ (n - 1) + 1 = n
    BY <1>1, <1>3
  <2>3. CutTo(frames, frames', m, n - 1) /\ frames' # <<>>
    BY <1>1, <2>1, <2>2, TopShrinks
  <2>4. Good(frames') /\ HoldsInterrupted'
    BY <1>2, <1>4, <2>2, <2>3, CutKeeps
  <2>5. r.after = Normal
    BY <1>2, <1>3 DEF StatementOK
  <2>6. C!Complete(SetTop(frames, Pop(fr)), Normal)
    BY <1>2, <1>6, <2>3, CompletesIs, NormalIs
  <2>7. C!End
    <3>1. C!Complete(C!SetTop(frames, C!Pop(fr)), r.after)
      BY <2>5, <2>6, SameNames, Zenon
    <3> QED
      BY <1>1, <1>2, <1>6, <3>1, SameNames, Zenon DEF C!End
  <2> QED
    BY <1>3, <2>4, <2>7 DEF KeepsUp, C!Next
<1> QED
  BY <1>5, <1>6

LEMMA FollowingIs ==
  ASSUME Running
  PROVE  Following = {<<>>} /\ SetTop(frames, Top(frames) \o <<>>) = frames
<1>1. Following = {<<>>}
  BY Zenon DEF Running, KeptUpWith, Following
<1>2. PICK fr \in Seq(Statements) : fr = Top(frames)
  BY RunningIs
<1>3. fr \o <<>> = fr
  BY ConcatEmptySeq
<1>4. frames \in Seq(Seq(Statements))
  BY RunningIs DEF Good
<1>5. [frames EXCEPT ![Len(frames)] = frames[Len(frames)]] = frames
  BY <1>4
<1> QED
  BY <1>1, <1>2, <1>3, <1>5, RunningIs DEF SetTop

LEMMA CallKeepsUp == Running /\ Call => KeepsUp
<1> SUFFICES ASSUME Running, Call PROVE KeepsUp
  OBVIOUS
<1>1. frames' = Append(frames, <<>>)
  BY FollowingIs DEF Call
<1>2. outcome' = outcome /\ pending' = pending /\ completionStack' = completionStack
  BY DEF Call, machine
<1>3. /\ Good(frames) /\ HoldsInterrupted /\ frames \in Seq(Seq(Statements))
      /\ DOMAIN frames = 1..Len(frames) /\ Len(frames) \in Nat
  BY RunningIs DEF Good
<1>4. PICK gs : gs = Append(frames, <<>>)
  OBVIOUS
<1>5. /\ gs \in Seq(Seq(Statements)) /\ gs # <<>>
      /\ DOMAIN gs = 1..(Len(frames) + 1)
      /\ gs[Len(frames) + 1] = <<>>
      /\ \A g \in DOMAIN frames : gs[g] = frames[g]
  <2>1. <<>> \in Seq(Statements)
    OBVIOUS
  <2>2. PICK e \in Seq(Statements) : e = <<>>
    BY <2>1
  <2>3. gs = Append(frames, e)
    BY <1>4, <2>2
  <2>4. /\ gs \in Seq(Seq(Statements)) /\ Len(gs) = Len(frames) + 1
        /\ gs[Len(frames) + 1] = e /\ \A g \in 1..Len(frames) : gs[g] = frames[g]
    BY <1>3, <2>3, AppendProperties
  <2>5. gs # <<>>
    BY <1>3, <2>4
  <2> QED
    BY <1>3, <2>2, <2>4, <2>5
<1>6. ASSUME NEW g \in DOMAIN gs, NEW j \in DOMAIN gs[g]
      PROVE  g \in DOMAIN frames /\ gs[g] = frames[g]
  BY <1>3, <1>5, <1>6
<1>7. Good(gs)
  BY <1>3, <1>5, <1>6 DEF Good
<1>8. ASSUME Quiet(frames), Holds(Normal) PROVE HoldsInterrupted'
  <2>1. Quiet(gs)
    BY <1>6, <1>8 DEF Quiet
  <2> QED
    BY <1>1, <1>2, <1>4, <1>8, <2>1 DEF HoldsInterrupted, Holds
<1>9. ASSUME NEW p \in DOMAIN frames, NEW q \in DOMAIN frames[p],
             Stands(frames, p, q), Holds(frames[p][q].after)
      PROVE  HoldsInterrupted'
  <2>1. /\ p \in DOMAIN gs /\ gs[p] = frames[p] /\ q \in DOMAIN gs[p]
    BY <1>3, <1>5
  <2>2. Stands(gs, p, q)
    BY <1>6, <1>9, <2>1 DEF Stands, QuietBelow
  <2> QED
    BY <1>1, <1>2, <1>4, <1>9, <2>1, <2>2 DEF HoldsInterrupted, Holds
<1>10. C!Begin
  BY <1>1, <1>2, Zenon DEF C!Begin
<1> QED
  BY <1>1, <1>3, <1>4, <1>7, <1>8, <1>9, <1>10 DEF KeepsUp, C!Next, Running, HoldsInterrupted

LEMMA TailCallKeepsUp == Running /\ TailCall => KeepsUp
<1> SUFFICES ASSUME Running, TailCall PROVE KeepsUp
  OBVIOUS
<1>1. PICK m, fr : m = Len(frames) /\ fr = Top(frames)
  OBVIOUS
<1>2. /\ Handlers(fr, "throw") \subseteq {i \in DOMAIN fr : fr[i].part = "catch"}
      /\ \A i \in DOMAIN fr : ~fr[i].finally
      /\ frames' = SetTop(frames, <<>>)
      /\ outcome' = outcome /\ pending' = pending /\ completionStack' = completionStack
  BY <1>1 DEF TailCall, machine, Running, KeptUpWith
<1>3. /\ Good(frames) /\ frames # <<>> /\ HoldsInterrupted
      /\ m \in DOMAIN frames /\ m \in Nat /\ fr = frames[m]
      /\ fr \in Seq(Statements) /\ Len(fr) \in Nat
  BY <1>1, RunningIs
<1>4. SubSeq(fr, 1, 0) = <<>>
  BY <1>3
<1>5. CutTo(frames, frames', m, 0)
  <2>1. 0 \in 0..Len(fr)
    BY <1>3
  <2> QED
    BY <1>1, <1>2, <1>4, <2>1, TopShrinks
<1>6. ASSUME NEW p, NEW q, Stands(frames, p, q) PROVE Before(p, q, m, 0 + 1)
  <2>1. p # m
    BY <1>2, <1>3, <1>6, StandingIs
  <2> QED
    BY <1>1, <1>3, <1>6, <2>1, StandingIs DEF Before
<1>7. Good(frames') /\ HoldsInterrupted'
  BY <1>2, <1>5, <1>6, CutKeeps
<1>8. Handlers(fr, "throw") = {}
  BY <1>2 DEF Handlers, Finalizes, Catches
<1>9. C!Begin
  BY <1>1, <1>2, <1>8, SameNames, Zenon DEF C!Begin
<1> QED
  BY <1>3, <1>7, <1>9 DEF KeepsUp, C!Next

(* A handler is entered below a block that has interrupted something: that*)
(* block is left.                                                        *)
LEMMA EnteringLeaves ==
  ASSUME NEW fs, Good(fs), NEW p, NEW q, Stands(fs, p, q),
         NEW g \in DOMAIN fs, NEW type, NEW j \in Handlers(fs[g], type),
         NEW c \in Completed, NEW gs, Entered(fs, gs, g, j, c)
  PROVE  ~(p \in DOMAIN gs /\ q \in DOMAIN gs[p])
<1>1. Before(g, j, p, q)
  BY HandlersAreBelow
<1>2. j \in DOMAIN fs[g]
  BY DEF Handlers
<1>3. PICK r : CutPlus(fs, gs, g, j - 1, r)
  BY <1>2, EntersPlus DEF Entered
<1>4. j \in Nat /\ g \in Nat /\ p \in Nat /\ q \in Nat
  BY <1>2, GoodStacks, StandingIs
<1>5. /\ gs \in Seq(Seq(Statements)) /\ Len(gs) = g /\ Len(gs[g]) = (j - 1) + 1
  BY <1>3 DEF CutPlus
<1>6. /\ DOMAIN gs = 1..g
      /\ g \in DOMAIN gs => gs[g] \in Seq(Statements)
  BY <1>5
<1>7. g \in DOMAIN gs => DOMAIN gs[g] = 1..j
  BY <1>4, <1>5, <1>6
<1> QED
  BY <1>1, <1>4, <1>6, <1>7 DEF Before

LEMMA ThrowLeaves ==
  ASSUME NEW fs, Good(fs), NEW p, NEW q, Stands(fs, p, q),
         NEW x, NEW v \in Values, throwException(fs, x, v)
  PROVE  ~(p \in DOMAIN frames' /\ q \in DOMAIN frames'[p])
<1> DEFINE c     == Thrown(v)
           found == {g \in DOMAIN fs : Handlers(fs[g], "throw") # {}}
<1>1. CASE found = {}
  <2>1. frames' = <<>>
    BY <1>1, Zenon DEF throwException, Terminate
  <2> QED
    BY <2>1
<1>2. CASE found # {}
  <2>1. PICK g, j : g = Innermost(found) /\ j = Innermost(Handlers(fs[g], "throw"))
    OBVIOUS
  <2>2. g \in DOMAIN fs /\ j \in Handlers(fs[g], "throw")
    BY <1>2, <2>1, HandlersAreThere
  <2>3. frames' = Append(SubSeq(fs, 1, g - 1), Enter(fs[g], j, c))
    BY <1>2, <2>1, Zenon DEF throwException, EnterHandler
  <2>4. PICK d, gs : d \in Completed /\ d = c /\ gs = frames'
    BY CompletionKinds
  <2>5. Entered(fs, gs, g, j, d)
    BY <2>3, <2>4 DEF Entered
  <2> QED
    BY <2>2, <2>4, <2>5, EnteringLeaves
<1> QED
  BY <1>1, <1>2

LEMMA ThrowKeepsUp == Running /\ Throw => KeepsUp
<1> SUFFICES ASSUME Running, Throw PROVE KeepsUp
  OBVIOUS
<1>1. PICK v \in Values : throwException(frames, pending, v)
  BY DEF Throw, OpThrow
<1>2. completionStack' = completionStack /\ Overriding("throw")
  BY DEF Throw, OpThrow
<1>3. /\ Good(frames) /\ frames # <<>> /\ HoldsInterrupted
      /\ Quiet(frames) \/ \E p, q : Stands(frames, p, q)
  BY RunningIs
<1>4. /\ completionStack = <<>>
      /\ pending = Normal \/ (finallyDepth /\ pending.type = "throw")
  <2>1. CASE Quiet(frames)
    BY <1>3, <2>1, QuietHolds, NormalIs DEF Holds
  <2>2. ASSUME NEW p \in DOMAIN frames, NEW q \in DOMAIN frames[p],
               Stands(frames, p, q), Holds(frames[p][q].after)
        PROVE  /\ completionStack = <<>>
               /\ finallyDepth /\ pending.type = "throw"
    <3>1. ~(p \in DOMAIN frames' /\ q \in DOMAIN frames'[p] /\ frames'[p][q] = frames[p][q])
      BY <1>1, <1>3, <2>2, ThrowLeaves
    <3>2. frames[p][q].after.type = "throw"
      BY <1>2, <2>2, <3>1, OverriddenIs
    <3>3. completionStack = <<>> /\ pending = frames[p][q].after
      BY <2>2, <3>2 DEF Holds
    <3>4. pending # Normal
      BY <2>2, <3>3 DEF Stands
    <3> QED
      BY <3>2, <3>3, <3>4 DEF Running, IInv, DepthCoversPending
  <2> QED
    BY <1>3, <2>1, <2>2 DEF HoldsInterrupted
<1>5. Good(frames') /\ (frames' # <<>> => HoldsInterrupted')
  <2>1. completionStack' = <<>>
    BY <1>2, <1>4
  <2> QED
    BY <1>1, <1>3, <1>4, <2>1, ThrowGoes
<1>6. C!Complete(frames, C!Thrown(v))
  BY <1>1, <1>3, ThrowCompletes, SameNames
<1> QED
  BY <1>3, <1>5, <1>6 DEF KeepsUp, C!Next, C!Abrupt

LEMMA OpReturnFinallyKeepsUp ==
  ASSUME Running, NEW v \in Values, OpReturnFinally(frames, v), Overriding("return"),
         Len(frames) > 1, NEW i \in DOMAIN Top(frames), Top(frames)[i].finally
  PROVE  KeepsUp
<1> DEFINE c  == Returned(v)
           m  == Len(frames)
           on == Handlers(Top(frames), "return")
<1>1. c \in Completed /\ c.type = "return"
  BY CompletionKinds
<1>2. ReturnThrough(frames, c) /\ completionStack' = completionStack
  BY DEF OpReturnFinally
<1>3. /\ Good(frames) /\ frames # <<>> /\ HoldsInterrupted
      /\ Quiet(frames) \/ \E p, q : Stands(frames, p, q)
      /\ m \in DOMAIN frames /\ m \in Nat /\ Top(frames) = frames[m]
  BY RunningIs
<1>4. ASSUME NEW p, NEW q, Stands(frames, p, q) PROVE p = m
  BY <1>3, <1>4, StandingIs
<1>5. ASSUME NEW q, Stands(frames, m, q)
      PROVE  ~(m \in DOMAIN frames' /\ q \in DOMAIN frames'[m])
  <2>1. CASE on = {}
    <3>1. frames' = Resume(Pop(frames))
      <4>1. PopFrame(frames, c)
        BY <1>2, <2>1, Zenon DEF ReturnThrough
      <4>2. Len(frames) # 1
        BY <1>3
      <4> QED
        BY <4>1, <4>2, Zenon DEF PopFrame
    <3>2. PICK f, n, gs : f = m - 1 /\ n = Len(frames[f]) /\ gs = Pop(frames)
      OBVIOUS
    <3>3. CutTo(frames, gs, f, n)
      BY <1>3, <3>2, PopCuts
    <3>4. Good(gs) /\ gs \in Seq(Seq(Statements)) /\ Len(gs) = m - 1
      BY <1>3, <3>2, <3>3, CutStaysGood DEF CutTo
    <3>5. gs # <<>> /\ m \notin DOMAIN gs
      BY <1>3, <3>4
    <3>6. frames' = gs
      BY <3>1, <3>2, <3>4, <3>5, ResumeIs
    <3> QED
      BY <3>5, <3>6
  <2>2. CASE on # {}
    <3>1. PICK j : j = Innermost(on)
      OBVIOUS
    <3>2. j \in Handlers(frames[m], "return")
      BY <1>3, <2>2, <3>1, HandlersAreThere
    <3>3. frames' = Append(Pop(frames), Enter(Top(frames), j, c))
      BY <1>2, <2>2, <3>1, Zenon DEF ReturnThrough, EnterHandler
    <3>4. PICK gs : gs = frames'
      OBVIOUS
    <3>5. Entered(frames, gs, m, j, c)
      BY <1>3, <3>3, <3>4 DEF Entered, Pop
    <3> HIDE DEF c
    <3> QED
      BY <1>1, <1>3, <1>5, <3>2, <3>4, <3>5, EnteringLeaves
  <2> QED
    BY <2>1, <2>2
<1>6. completionStack = <<>>
  <2>1. CASE Quiet(frames)
    BY <1>3, <2>1, QuietHolds, NormalIs DEF Holds
  <2>2. ASSUME NEW p \in DOMAIN frames, NEW q \in DOMAIN frames[p],
               Stands(frames, p, q), Holds(frames[p][q].after)
        PROVE  completionStack = <<>>
    <3>1. ~(p \in DOMAIN frames' /\ q \in DOMAIN frames'[p] /\ frames'[p][q] = frames[p][q])
      BY <1>4, <1>5, <2>2
    <3>2. frames[p][q].after.type \in {"return", "throw"}
      BY <2>2, <3>1, OverriddenIs
    <3> QED
      BY <2>2, <3>2 DEF Holds
  <2> QED
    BY <1>3, <2>1, <2>2 DEF HoldsInterrupted
<1>7. Good(frames') /\ (frames' # <<>> => HoldsInterrupted')
  <2>1. completionStack' = <<>>
    BY <1>2, <1>6
  <2>2. Quiet(frames) \/ \E q : Stands(frames, Len(frames), q)
    BY <1>3, <1>4
  <2> HIDE DEF c
  <2> QED
    BY <1>1, <1>2, <1>3, <2>1, <2>2, ReturnGoes
<1>8. C!Complete(frames, C!Returned(v))
  <2>1. C!Complete(frames, c)
    <3> HIDE DEF c
    <3> QED
      BY <1>1, <1>2, <1>3, ReturnCompletes
  <2> QED
    BY <2>1, SameNames
<1> QED
  BY <1>3, <1>7, <1>8 DEF KeepsUp, C!Next, C!Abrupt

LEMMA OpReturnKeepsUp ==
  ASSUME Running, NEW v \in Values, OpReturn(frames, v),
         Len(frames) > 1, \A i \in DOMAIN Top(frames) : ~Top(frames)[i].finally
  PROVE  KeepsUp
<1> DEFINE c == Returned(v)
<1>1. PICK m, f, n : m = Len(frames) /\ f = m - 1 /\ n = Len(frames[f])
  OBVIOUS
<1>2. /\ Good(frames) /\ frames # <<>> /\ m \in DOMAIN frames /\ m \in Nat
      /\ Top(frames) = frames[m]
  BY <1>1, RunningIs
<1>3. Handlers(Top(frames), "return") = {}
  BY DEF Handlers, Finalizes, Catches
<1>4. /\ frames' = Resume(Pop(frames)) /\ outcome' = outcome
      /\ pending' = pending /\ completionStack' = completionStack
  <2>1. PopFrame(frames, c) /\ UNCHANGED machine
    BY <1>3, Zenon DEF OpReturn
  <2>2. Len(frames) # 1
    BY <1>1, <1>2
  <2>3. frames' = Resume(Pop(frames)) /\ outcome' = outcome
    BY <2>1, <2>2, Zenon DEF PopFrame
  <2> QED
    BY <2>1, <2>3 DEF machine
<1>5. PICK gs : gs = Pop(frames)
  OBVIOUS
<1>6. CutTo(frames, gs, f, n)
  BY <1>1, <1>2, <1>5, PopCuts
<1>7. gs # <<>> /\ Good(gs)
  <2>1. gs \in Seq(Seq(Statements)) /\ Len(gs) = m - 1
    BY <1>1, <1>6 DEF CutTo
  <2> QED
    BY <1>1, <1>2, <1>6, <2>1, CutStaysGood
<1>8. frames' = gs
  BY <1>4, <1>5, <1>7, ResumeIs
<1>9. ASSUME NEW p, NEW q, Stands(frames, p, q) PROVE Before(p, q, f, n + 1)
  <2>1. p # m
    BY <1>2, <1>9, StandingIs
  <2>2. p < f \/ p = f
    BY <1>1, <1>2, <1>9, <2>1, StandingIs
  <2>3. p = f => q <= n
    BY <1>1, <1>2, <1>9, StandingIs, GoodStacks
  <2>4. n \in Nat
    BY <1>2, <1>6, GoodStacks DEF CutTo
  <2> QED
    BY <1>2, <1>9, <2>2, <2>3, <2>4, StandingIs DEF Before
<1>10. Good(frames') /\ HoldsInterrupted'
  BY <1>4, <1>6, <1>8, <1>9, CutKeeps
<1>11. C!Complete(frames, C!Returned(v))
  <2>1. c.type = "return"
    BY CompletionKinds
  <2>2. C!AfterReturn(frames, c) = gs
    BY <1>3, <1>5, AfterReturnIs, Zenon
  <2>3. C!Complete(frames, c)
    BY <1>4, <1>7, <1>8, <2>1, <2>2, CompletesIs
  <2> QED
    BY <2>3, SameNames
<1> QED
  BY <1>2, <1>10, <1>11 DEF KeepsUp, C!Next, C!Abrupt

LEMMA ReturnKeepsUp == Running /\ Return => KeepsUp
<1> SUFFICES ASSUME Running, Return PROVE KeepsUp
  OBVIOUS
<1>1. Len(frames) > 1 /\ Overriding("return")
  BY DEF Return
<1>2. PICK v \in Values : \E next \in {<<>>} :
         LET at == SetTop(frames, Top(frames) \o next)
         IN  IF \E i \in DOMAIN Top(frames) : Top(frames)[i].finally
             THEN OpReturnFinally(at, v)
             ELSE OpReturn(at, v)
  <2>1. PICK v \in Values : \E next \in IF v = Undefined THEN Following ELSE {<<>>} :
           LET at == SetTop(frames, Top(frames) \o next)
           IN  IF \E i \in DOMAIN Top(frames) : Top(frames)[i].finally
               THEN OpReturnFinally(at, v)
               ELSE OpReturn(at, v)
    BY Zenon DEF Return
  <2>2. (IF v = Undefined THEN Following ELSE {<<>>}) = {<<>>}
    BY FollowingIs
  <2> QED
    BY <2>1, <2>2, Zenon
<1>3. IF \E i \in DOMAIN Top(frames) : Top(frames)[i].finally
      THEN OpReturnFinally(frames, v)
      ELSE OpReturn(frames, v)
  BY <1>2, FollowingIs
<1>4. CASE \E i \in DOMAIN Top(frames) : Top(frames)[i].finally
  BY <1>1, <1>3, <1>4, OpReturnFinallyKeepsUp
<1>5. CASE ~\E i \in DOMAIN Top(frames) : Top(frames)[i].finally
  BY <1>1, <1>3, <1>5, OpReturnKeepsUp
<1> QED
  BY <1>4, <1>5

(* The finally blocks that an exit of loop t leaves in the top frame.    *)
LEMMA LeftIs ==
  ASSUME Running, NEW t \in DOMAIN Top(frames), Skipped(Top(frames), t) = {},
         NEW kind \in {"break", "continue"}
  PROVE  LET fr    == Top(frames)
             left  == {i \in DOMAIN fr : i > t /\ Finalizes(fr[i])}
             tries == {i \in DOMAIN fr : fr[i].finally}
             c     == Exit(kind, t)
         IN  /\ {i \in Handlers(fr, c.type) : i > c.target} = left
             /\ tries # {} /\ ~InFinally(fr) /\ t < Innermost(tries) =>
                   /\ Innermost(tries) \in DOMAIN fr /\ fr[Innermost(tries)].finally
                   /\ left = {Innermost(tries)}
             /\ ~(tries # {} /\ ~InFinally(fr) /\ t < Innermost(tries)) => left = {}
<1> DEFINE c == Exit(kind, t)
<1>1. PICK fr : fr = Top(frames)
  OBVIOUS
<1>2. PICK left, tries : /\ left  = {i \in DOMAIN fr : i > t /\ Finalizes(fr[i])}
                         /\ tries = {i \in DOMAIN fr : fr[i].finally}
  OBVIOUS
<1>3. /\ fr \in Seq(Statements) /\ Len(fr) \in Nat /\ DOMAIN fr = 1..Len(fr) /\ t \in Nat
      /\ \A i \in DOMAIN fr : StatementOK(fr[i])
  BY <1>1, RunningIs
<1>4. {i \in Handlers(fr, c.type) : i > c.target} = left
  <2>1. c.type = kind /\ c.target = t
    BY DEF Exit
  <2> QED
    BY <1>2, <2>1 DEF Handlers
<1>5. InFinally(fr) \/ left = {} \/ left \ {Innermost(left)} = {}
  BY <1>1, <1>2, Zenon DEF Skipped
<1>6. tries # {} => Innermost(tries) \in tries /\ \A i \in tries : i <= Innermost(tries)
  <2>1. tries \in SUBSET (1..Len(fr))
    BY <1>2, <1>3
  <2> QED
    BY <1>3, <2>1, InnermostIs
<1>7. left \subseteq tries
  BY <1>2 DEF Finalizes
<1>8. ASSUME tries # {}, ~InFinally(fr), t < Innermost(tries)
      PROVE  /\ Innermost(tries) \in DOMAIN fr /\ fr[Innermost(tries)].finally
             /\ left = {Innermost(tries)}
  <2>1. PICK k \in DOMAIN fr : k = Innermost(tries) /\ fr[k].finally
    BY <1>2, <1>6, <1>8
  <2>2. fr[k].part \in {"body", "catch"}
    BY <1>3, <1>8, <2>1 DEF StatementOK, Statements, InFinally
  <2>3. k \in left
    BY <1>2, <1>8, <2>1, <2>2 DEF Finalizes
  <2>4. left = {Innermost(left)}
    BY <1>5, <1>8, <2>3
  <2> QED
    BY <2>1, <2>3, <2>4
<1>9. ASSUME ~(tries # {} /\ ~InFinally(fr) /\ t < Innermost(tries)) PROVE left = {}
  <2>1. CASE InFinally(fr)
    BY <1>1, <1>2, <2>1, Zenon DEF Skipped
  <2>2. CASE tries = {}
    BY <1>7, <2>2
  <2>3. CASE tries # {} /\ ~(t < Innermost(tries))
    <3>1. PICK k \in 1..Len(fr) : k = Innermost(tries)
      BY <1>2, <1>3, <1>6, <2>3
    <3>2. \A i \in left : i \in 1..Len(fr) /\ i > t /\ i <= k
      BY <1>2, <1>3, <1>6, <1>7, <2>3, <3>1
    <3>3. ~(t < k)
      BY <2>3, <3>1
    <3> QED
      BY <1>3, <3>1, <3>2, <3>3
  <2> QED
    BY <1>9, <2>1, <2>2, <2>3
<1> QED
  BY <1>1, <1>2, <1>4, <1>8, <1>9

LEMMA LeaveLoopKeepsUp == Running /\ LeaveLoop => KeepsUp
<1> SUFFICES ASSUME Running, LeaveLoop PROVE KeepsUp
  OBVIOUS
<1>1. PICK t \in DOMAIN Top(frames), kind \in LoopExits :
         /\ Top(frames)[t].part = "loop"
         /\ Skipped(Top(frames), t) = {}
         /\ Leave(kind, t)
         /\ Overriding(kind)
  BY DEF LeaveLoop, Running, KeptUpWith
<1>2. PICK m, fr, c, left, tries :
         /\ m = Len(frames) /\ fr = Top(frames) /\ c = Exit(kind, t)
         /\ left  = {i \in DOMAIN fr : i > t /\ Finalizes(fr[i])}
         /\ tries = {i \in DOMAIN fr : fr[i].finally}
  OBVIOUS
<1>3. /\ Good(frames) /\ frames # <<>> /\ HoldsInterrupted
      /\ Quiet(frames) \/ \E p, q : Stands(frames, p, q)
      /\ m \in DOMAIN frames /\ m \in Nat /\ fr = frames[m]
      /\ fr \in Seq(Statements) /\ Len(fr) \in Nat /\ DOMAIN fr = 1..Len(fr) /\ t \in 1..Len(fr)
  BY <1>2, RunningIs
<1>4. kind \in {"break", "continue"}
  BY ExitsAssumption
<1>5. c \in Completed /\ c.type = kind /\ c.target = t
  BY <1>2, <1>3, <1>4, ValuesAssumption, CompletionKinds
<1>6. /\ {i \in Handlers(fr, c.type) : i > c.target} = left
      /\ tries # {} /\ ~InFinally(fr) /\ t < Innermost(tries) =>
            Innermost(tries) \in DOMAIN fr /\ fr[Innermost(tries)].finally /\ left = {Innermost(tries)}
      /\ ~(tries # {} /\ ~InFinally(fr) /\ t < Innermost(tries)) => left = {}
  <2> DEFINE Fr    == Top(frames)
             Left  == {i \in DOMAIN Fr : i > t /\ Finalizes(Fr[i])}
             These == {i \in DOMAIN Fr : Fr[i].finally}
             C0    == Exit(kind, t)
  <2>1. /\ {i \in Handlers(Fr, C0.type) : i > C0.target} = Left
        /\ These # {} /\ ~InFinally(Fr) /\ t < Innermost(These) =>
              /\ Innermost(These) \in DOMAIN Fr /\ Fr[Innermost(These)].finally
              /\ Left = {Innermost(These)}
        /\ ~(These # {} /\ ~InFinally(Fr) /\ t < Innermost(These)) => Left = {}
    BY <1>1, <1>4, LeftIs
  <2>2. fr = Fr /\ left = Left /\ tries = These /\ c = C0
    BY <1>2
  <2> HIDE DEF Fr, Left, These, C0
  <2> QED
    BY <2>1, <2>2
<1>7. SUFFICES /\ Good(frames') /\ frames' # <<>> /\ HoldsInterrupted'
               /\ frames' = C!AfterExit(frames, c) /\ outcome' = outcome
  <2>1. C!Complete(frames, C!Exit(kind, t))
    <3>1. C!Complete(frames, c)
      BY <1>4, <1>5, <1>7, CompletesIs
    <3> QED
      BY <1>2, <3>1, SameNames
  <2>2. C!Top(frames)[t].part = "loop" /\ t \in DOMAIN C!Top(frames)
    BY <1>1, SameNames
  <2>3. C!Abrupt
    BY <1>4, <2>1, <2>2, Zenon DEF C!Abrupt
  <2> QED
    BY <1>3, <1>7, <2>3 DEF KeepsUp, C!Next
<1>8. C!AfterExit(frames, c) = SetTop(frames, IF left = {} THEN LoopEnd(fr, c)
                                              ELSE Enter(fr, Innermost(left), c))
  BY <1>2, <1>6, AfterExitIs, Zenon
<1>9. CASE tries # {} /\ ~InFinally(fr) /\ t < Innermost(tries)
  <2>1. PICK k \in DOMAIN fr : k = Innermost(tries) /\ fr[k].finally /\ left = {k}
    BY <1>6, <1>9
  <2>2. PICK e, gs : e = Enter(fr, k, c) /\ gs = frames'
    OBVIOUS
  <2>3. /\ completionStack' = Append(completionStack, c)
        /\ gs = SetTop(frames, e)
        /\ outcome' = outcome /\ pending' = pending
    BY <1>1, <1>2, <1>9, <2>1, <2>2 DEF Leave
  <2>4. Quiet(frames)
    <3>1. ASSUME NEW p, NEW q, Stands(frames, p, q) PROVE FALSE
      <4>1. p = m => InFinally(fr)
        BY <1>3, <3>1, StandingIs DEF InFinally
      <4>2. p # m => ~fr[k].finally
        BY <1>2, <1>3, <3>1, StandingIs
      <4> QED
        BY <1>9, <2>1, <4>1, <4>2
    <3> QED
      BY <1>3, <3>1
  <2>5. Holds(Normal)
    BY <1>3, <2>4, QuietHolds
  <2>6. Entered(frames, gs, m, k, c)
    <3>1. Append(Pop(frames), Enter(Top(frames), k, c)) = SetTop(frames, Enter(Top(frames), k, c))
      BY <1>2, <1>3, <1>5, EntersPlus
    <3> QED
      BY <1>2, <1>3, <2>2, <2>3, <3>1 DEF Entered, Pop
  <2>7. QuietBelow(frames, m, k)
    BY <2>4 DEF Quiet, QuietBelow
  <2>8. ReachesLoop(frames[m], k, c)
    <3>1. t \in 1..(k - 1)
      BY <1>3, <1>9, <2>1
    <3>2. ASSUME NEW j \in (t + 1)..(k - 1) PROVE ~Finalizes(fr[j])
      BY <1>2, <1>3, <2>1
    <3> QED
      BY <1>1, <1>2, <1>3, <1>5, <3>1, <3>2 DEF ReachesLoop
  <2>9. c # Normal /\ c.type # "throw"
    BY <1>4, <1>5, NormalIs
  <2>10. Good(gs) /\ gs # <<>> /\ Stands(gs, m, k) /\ gs[m][k].after = c
    BY <1>3, <1>5, <2>1, <2>6, <2>7, <2>8, <2>9, EnteredStack
  <2>11. completionStack' = <<c>> /\ pending' = Normal
    <3>1. completionStack = <<>> /\ pending = Normal
      BY <2>5, NormalIs DEF Holds
    <3> QED
      BY <2>3, <3>1
  <2>12. HoldsInterrupted'
    <3>1. m \in DOMAIN gs /\ k \in DOMAIN gs[m]
      BY <2>10 DEF Stands
    <3> QED
      BY <1>4, <1>5, <2>2, <2>10, <2>11, <3>1 DEF HoldsInterrupted, Holds
  <2>13. Innermost(left) = k
    <3>1. PICK S \in SUBSET (1..Len(fr)) : S = left
      BY <1>3, <2>1
    <3> QED
      BY <1>3, <2>1, <3>1, InnermostIs
  <2>14. frames' = C!AfterExit(frames, c)
    BY <1>8, <2>1, <2>2, <2>3, <2>13
  <2> QED
    BY <2>2, <2>3, <2>10, <2>12, <2>14
<1>10. CASE ~(tries # {} /\ ~InFinally(fr) /\ t < Innermost(tries))
  <2>1. /\ frames' = SetTop(frames, LoopEnd(fr, c))
        /\ outcome' = outcome /\ pending' = pending /\ completionStack' = completionStack
    BY <1>1, <1>2, <1>10, Zenon DEF Leave, machine
  <2>2. PICK n \in 0..Len(fr) : LoopEnd(fr, c) = SubSeq(fr, 1, n)
    BY <1>3, <1>5 DEF LoopEnd
  <2>3. CutTo(frames, frames', m, n) /\ frames' # <<>>
    BY <1>2, <2>1, <2>2, TopShrinks
  <2>4. ASSUME NEW p, NEW q, Stands(frames, p, q) PROVE Before(p, q, m, n + 1)
    <3>1. SUFFICES ASSUME p = m, q > n PROVE FALSE
      BY <1>2, <1>3, <2>4, StandingIs DEF Before
    <3>2. PICK gs : gs = frames'
      OBVIOUS
    <3>3. /\ gs \in Seq(Seq(Statements)) /\ Len(gs) = m /\ Len(gs[m]) = n
          /\ m \in 1..Len(frames) /\ Len(frames) \in Nat
      BY <1>2, <1>3, <2>3, <3>2, RunningIs DEF CutTo
    <3>4. q \notin DOMAIN frames'[m]
      <4>1. gs[m] \in Seq(Statements)
        BY <3>3
      <4> QED
        BY <3>1, <3>2, <3>3, <4>1
    <3>5. <<kind, frames[p][q].after.type>> \in
             {<<"return", "throw">>, <<"return", "return">>, <<"throw", "throw">>}
      BY <1>1, <2>4, <3>1, <3>4, OverriddenIs
    <3> QED
      BY <1>4, <3>5
  <2>5. Good(frames') /\ HoldsInterrupted'
    BY <2>1, <2>3, <2>4, CutKeeps
  <2>6. frames' = C!AfterExit(frames, c)
    BY <1>6, <1>8, <1>10, <2>1
  <2> QED
    BY <2>1, <2>3, <2>5, <2>6
<1> QED
  BY <1>9, <1>10

(* Where a finally block ends, everything that the machine holds is what *)
(* that block was run for, and the stack it leaves has interrupted nothing.*)
LEMMA FinallyEnds ==
  ASSUME Running, Top(frames) # <<>>, Statement.part = "finally"
  PROVE  LET n  == Len(Top(frames))
             at == SetTop(frames, Pop(Top(frames)))
             c  == Statement.after
         IN  /\ n \in Nat /\ n # 0 /\ CutTo(frames, at, Len(frames), n - 1)
             /\ Good(at) /\ at # <<>> /\ Quiet(at)
             /\ c \in Completed /\ Holds(c)
             /\ ReachesLoop(Top(frames), n, c)
<1>1. PICK m, n, fr, at, c : /\ m = Len(frames) /\ fr = Top(frames) /\ n = Len(fr)
                             /\ at = SetTop(frames, Pop(fr)) /\ c = fr[n].after
  OBVIOUS
<1>2. /\ Good(frames) /\ HoldsInterrupted /\ m \in DOMAIN frames /\ m \in Nat
      /\ fr = frames[m] /\ n \in Nat /\ n # 0 /\ n \in DOMAIN fr
      /\ Statement = fr[n] /\ fr[n].part = "finally" /\ StatementOK(fr[n])
      /\ DOMAIN frames = 1..m /\ DOMAIN fr = 1..n
  BY <1>1, RunningIs DEF Statement, Top
<1>3. c \in Completed
  BY <1>1, <1>2 DEF StatementOK, Statements
<1>4. CutTo(frames, at, m, n - 1) /\ at # <<>> /\ Good(at)
  <2>1. n - 1 \in 0..Len(fr) /\ Pop(fr) = SubSeq(fr, 1, n - 1)
    BY <1>1, <1>2 DEF Pop
  <2>2. CutTo(frames, at, m, n - 1) /\ at # <<>>
    BY <1>1, <2>1, TopShrinks
  <2> QED
    BY <1>2, <2>2, CutStaysGood
<1>5. Holds(c) /\ QuietBelow(frames, m, n) /\ ReachesLoop(fr, n, c)
  <2>1. CASE Quiet(frames) /\ Holds(Normal)
    <3>1. c = Normal
      BY <1>1, <1>2, <2>1 DEF Quiet
    <3> QED
      BY <2>1, <3>1, NormalIs DEF Quiet, QuietBelow, ReachesLoop
  <2>2. ASSUME NEW p \in DOMAIN frames, NEW q \in DOMAIN frames[p],
               Stands(frames, p, q), Holds(frames[p][q].after)
        PROVE  p = m /\ q = n
    <3>1. p = m
      BY <1>1, <1>2, <2>2, StandingIs
    <3>2. ~(q < n)
      BY <1>1, <1>2, <2>2, <3>1, StandingIs
    <3> QED
      BY <1>2, <3>1, <3>2
  <2>3. ASSUME Stands(frames, m, n), Holds(frames[m][n].after)
        PROVE  Holds(c) /\ QuietBelow(frames, m, n) /\ ReachesLoop(fr, n, c)
    BY <1>1, <1>2, <2>3 DEF Stands
  <2> QED
    BY <1>2, <2>1, <2>2, <2>3 DEF HoldsInterrupted
<1>6. Quiet(at)
  <2>1. (n - 1) + 1 = n
    BY <1>2
  <2> QED
    BY <1>2, <1>4, <1>5, <2>1, CutQuiet
<1> QED
  BY <1>1, <1>2, <1>3, <1>4, <1>5, <1>6

LEMMA EndFinallyKeepsUp == Running /\ EndFinally => KeepsUp
<1> SUFFICES ASSUME Running, EndFinally PROVE KeepsUp
  OBVIOUS
<1>1. PICK n, fr, at, c : /\ fr = Top(frames) /\ n = Len(fr)
                          /\ at = SetTop(frames, Pop(fr)) /\ c = Statement.after
  OBVIOUS
<1>2. fr # <<>> /\ Statement = fr[n] /\ Statement.part = "finally"
  BY <1>1 DEF EndFinally, Statement, Top
<1>3. /\ n \in Nat /\ n # 0 /\ CutTo(frames, at, Len(frames), n - 1)
      /\ Good(at) /\ at # <<>> /\ Quiet(at)
      /\ c \in Completed /\ Holds(c)
      /\ ReachesLoop(fr, n, c)
  BY <1>1, <1>2, FinallyEnds
<1>4. /\ frames # <<>> /\ fr \in Seq(Statements) /\ fr = frames[Len(frames)]
      /\ Len(frames) \in Nat /\ Len(frames) # 0
  BY <1>1, RunningIs
<1>5. OpHandlePending(at)
  <2>1. PICK next \in Following : OpHandlePending(SetTop(frames, Pop(Top(frames)) \o next))
    BY DEF EndFinally
  <2>2. next = <<>>
    BY FollowingIs
  <2>3. Pop(fr) \o <<>> = Pop(fr)
    <3>1. n - 1 \in 0..Len(fr)
      BY <1>1, <1>3
    <3>2. Pop(fr) \in Seq(Statements)
      BY <1>1, <1>4, <3>1, SubSeqs DEF Pop
    <3> QED
      BY <3>2, ConcatEmptySeq
  <2> QED
    BY <1>1, <2>1, <2>2, <2>3
<1>6. ASSUME C!Complete(at, c) PROVE [C!Next]_(C!vars)
  <2>1. C!Top(frames) = fr /\ C!SetTop(frames, C!Pop(fr)) = at
    <3>1. C!Top(frames) = fr /\ C!Pop(fr) = Pop(fr)
      BY <1>1, SameNames
    <3> QED
      BY <1>1, <3>1, SameNames
  <2>2. C!End
    BY <1>1, <1>2, <1>6, <2>1 DEF C!End
  <2> QED
    BY <1>4, <2>2 DEF C!Next
<1>7. CASE c.type \in {"break", "continue"}
  <2>1. completionStack = <<c>> /\ pending = Normal
    BY <1>3, <1>7 DEF Holds
  <2>2. PICK m, top : m = Len(at) /\ top = Top(at)
    OBVIOUS
  <2>3. /\ m \in DOMAIN at /\ top = at[m] /\ m = Len(frames)
        /\ top \in Seq(Statements) /\ Len(top) = n - 1 /\ DOMAIN top = 1..(n - 1)
        /\ \A j \in 1..(n - 1) : top[j] = fr[j]
    BY <1>3, <1>4, <2>2, GoodStacks DEF CutTo, Top
  <2>4. /\ c.target \in 1..(n - 1) /\ top[c.target].part = "loop"
        /\ \A j \in (c.target + 1)..(n - 1) : ~Finalizes(top[j])
    <3>1. /\ c.target \in 1..(n - 1) /\ fr[c.target].part = "loop"
          /\ \A j \in (c.target + 1)..(n - 1) : ~Finalizes(fr[j])
      BY <1>3, <1>7 DEF ReachesLoop
    <3>2. \A j \in (c.target + 1)..(n - 1) : j \in 1..(n - 1)
      BY <1>3, <3>1
    <3> QED
      BY <2>3, <3>1, <3>2
  <2>5. /\ completionStack' = Pop(completionStack)
        /\ frames' = SetTop(at, LoopEnd(top, c)) /\ outcome' = outcome
        /\ pending' = pending
    <3>1. completionStack # <<>> /\ completionStack[Len(completionStack)] = c
      BY <2>1
    <3> QED
      BY <1>5, <2>2, <2>3, <2>4, <3>1 DEF OpHandlePending
  <2>6. completionStack' = <<>> /\ pending' = Normal
    BY <2>1, <2>5 DEF Pop
  <2>7. PICK k \in 0..Len(top) : LoopEnd(top, c) = SubSeq(top, 1, k)
    BY <1>3, <2>3, <2>4 DEF LoopEnd
  <2>8. CutTo(at, frames', m, k)
    BY <1>3, <2>2, <2>5, <2>7, SetTopCuts
  <2>9. Good(frames') /\ Quiet(frames') /\ frames' # <<>>
    <3>1. QuietBelow(at, m, k + 1)
      BY <1>3 DEF Quiet, QuietBelow
    <3>2. Good(frames') /\ Quiet(frames')
      BY <1>3, <2>8, <3>1, CutStaysGood, CutQuiet
    <3>3. Len(frames') = m
      BY <2>8 DEF CutTo
    <3> QED
      BY <1>4, <2>3, <3>2, <3>3
  <2>10. HoldsInterrupted'
    BY <2>6, <2>9, NormalIs DEF HoldsInterrupted, Holds
  <2>11. {i \in Handlers(top, c.type) : i > c.target} = {}
    BY <1>3, <1>7, <2>3, <2>4 DEF Handlers
  <2>12. C!AfterExit(at, c) = SetTop(at, LoopEnd(top, c))
    BY <2>2, <2>11, AfterExitIs, Zenon
  <2>13. C!Complete(at, c)
    BY <1>7, <2>5, <2>9, <2>12, CompletesIs
  <2> QED
    BY <1>6, <2>9, <2>10, <2>13 DEF KeepsUp
<1>8. CASE c.type \notin {"break", "continue"}
  <2>1. completionStack = <<>> /\ completionStack' = <<>>
    <3>1. completionStack = <<>>
      BY <1>3, <1>8 DEF Holds
    <3> QED
      BY <1>5, <3>1, Zenon DEF OpHandlePending
  <2>2. CASE c.type = "return"
    <3>1. pending = c /\ ReturnThrough(at, c)
      <4>1. pending = c
        BY <1>3, <2>2 DEF Holds
      <4> QED
        BY <1>5, <2>1, <2>2, <4>1 DEF OpHandlePending
    <3>2. Good(frames') /\ (frames' # <<>> => HoldsInterrupted')
      BY <1>3, <2>1, <2>2, <3>1, ReturnGoes
    <3>3. C!Complete(at, c)
      BY <1>3, <2>2, <3>1, ReturnCompletes
    <3> QED
      BY <1>6, <3>2, <3>3 DEF KeepsUp
  <2>3. CASE c.type = "throw"
    <3>1. pending = c /\ throwException(at, Normal, c.value)
      <4>1. pending = c
        BY <1>3, <2>3 DEF Holds
      <4> QED
        BY <1>5, <2>1, <2>3, <4>1 DEF OpHandlePending
    <3>2. c.value \in Values /\ c = Thrown(c.value)
      BY <1>3, <2>3, CompletedIs
    <3>3. Good(frames') /\ (frames' # <<>> => HoldsInterrupted')
      BY <1>3, <2>1, <3>1, <3>2, ThrowGoes
    <3>4. C!Complete(at, c)
      BY <1>3, <3>1, <3>2, ThrowCompletes
    <3> QED
      BY <1>6, <3>3, <3>4 DEF KeepsUp
  <2>4. CASE c = Normal
    <3>1. pending = Normal
      BY <1>3, <2>4, NormalIs DEF Holds
    <3>2. frames' = Resume(at) /\ outcome' = outcome /\ pending' = pending
      BY <1>5, <2>1, <3>1, NormalIs DEF OpHandlePending
    <3>3. frames' = at
      BY <1>3, <3>2, ResumeIs
    <3>4. Good(frames') /\ HoldsInterrupted'
      BY <1>3, <2>1, <3>1, <3>2, <3>3, NormalIs DEF HoldsInterrupted, Holds
    <3>5. C!Complete(at, c)
      BY <1>3, <2>4, <3>2, <3>3, CompletesIs, NormalIs
    <3> QED
      BY <1>6, <3>4, <3>5 DEF KeepsUp
  <2> QED
    BY <1>3, <1>8, <2>2, <2>3, <2>4, CompletedIs
<1> QED
  BY <1>7, <1>8

LEMMA EndScriptKeepsUp == Running /\ EndScript => KeepsUp
<1> SUFFICES ASSUME Running, EndScript PROVE KeepsUp
  OBVIOUS
<1>1. /\ frames = << <<>> >> /\ frames' = <<>>
      /\ outcome' = IF pending.type = "throw" THEN pending ELSE Normal
  BY DEF EndScript, Terminate
<1>2. \A f \in DOMAIN frames : DOMAIN frames[f] = {}
  BY <1>1
<1>3. pending = Normal
  BY <1>2, RunningIs, NormalIs DEF HoldsInterrupted, Holds
<1>4. C!EndScript
  <2>1. outcome' = C!Normal
    BY <1>1, <1>3, NormalIs, SameNames
  <2> QED
    BY <1>1, <2>1 DEF C!EndScript
<1>5. Good(frames')
  BY <1>1 DEF Good
<1> QED
  BY <1>1, <1>4, <1>5 DEF KeepsUp, C!Next

LEMMA NextKeepsUp == KeptUpWith /\ IInv /\ [Next]_vars => IInv' /\ [C!Next]_(C!vars)
<1> SUFFICES ASSUME KeptUpWith, IInv, [Next]_vars PROVE IInv' /\ [C!Next]_(C!vars)
  OBVIOUS
<1>1. DepthCoversPending'
  BY NextCovers DEF IInv
<1>2. CASE Next
  <2>1. Running
    BY <1>2 DEF Running, Next
  <2>2. KeepsUp
    BY <1>2, <2>1, EnterLoopKeepsUp, EnterTryKeepsUp, EndBlockKeepsUp, EndFinallyKeepsUp,
       CallKeepsUp, TailCallKeepsUp, ThrowKeepsUp, ReturnKeepsUp, LeaveLoopKeepsUp,
       EndScriptKeepsUp, Zenon DEF Next
  <2> QED
    BY <1>1, <2>2, Zenon DEF KeepsUp, IInv
<1>3. CASE UNCHANGED vars
  <2>1. frames' = frames /\ outcome' = outcome /\ pending' = pending
        /\ completionStack' = completionStack
    BY <1>3 DEF vars
  <2> QED
    BY <1>1, <2>1 DEF IInv, HoldsInterrupted, Holds, C!vars
<1> QED
  BY <1>2, <1>3

LEMMA StartsQuiet == Init => IInv
<1> SUFFICES ASSUME Init PROVE IInv
  OBVIOUS
<1>1. /\ frames = << <<>> >> /\ pending = Normal /\ completionStack = <<>>
      /\ finallyDepth = FALSE
  BY DEF Init, C!Init
<1>2. \A f \in DOMAIN frames : DOMAIN frames[f] = {}
  BY <1>1
<1>3. Good(frames)
  <2>1. <<>> \in Seq(Statements)
    OBVIOUS
  <2>2. << <<>> >> \in Seq(Seq(Statements))
    BY <2>1
  <2> QED
    BY <1>1, <1>2, <2>2 DEF Good
<1>4. HoldsInterrupted
  BY <1>1, <1>2, NormalIs DEF HoldsInterrupted, Quiet, Holds
<1> QED
  BY <1>1, <1>3, <1>4 DEF IInv, DepthCoversPending

LEMMA QuietMeansNothingLeft == IInv => NothingLeftPending
<1> SUFFICES ASSUME IInv, frames # <<>>, ~Interrupted
             PROVE  pending = Normal /\ completionStack = <<>>
  BY DEF NothingLeftPending
<1>1. Good(frames) /\ HoldsInterrupted
  BY DEF IInv
<1>2. Quiet(frames)
  BY DEF Interrupted, Quiet
<1>3. Holds(Normal)
  BY <1>1, <1>2, QuietHolds
<1> QED
  BY <1>3, NormalIs DEF Holds

(* In the programs of KeptUpWith, of any size, nothing is left in the    *)
(* machine for a finally block that has interrupted nothing: the one     *)
(* pendingAction and the one completionStack that pkg/vm/vm.go has for all*)
(* frames are empty whenever no finally block is to resume something.    *)
THEOREM NothingIsLeft == ASSUME KeptUpWith PROVE Spec => []NothingLeftPending
<1>1. Init => IInv
  BY StartsQuiet
<1>2. IInv /\ [Next]_vars => IInv'
  BY NextKeepsUp
<1>3. IInv => NothingLeftPending
  BY QuietMeansNothingLeft
<1> QED
  BY <1>1, <1>2, <1>3, PTL DEF Spec

(* The machine runs these programs as the language says: whatever calls, *)
(* throws, returns and loop exits come together, each finally block that is*)
(* left runs, in order, and when it ends normally exactly the completion it*)
(* was run for goes on (throwException, OpReturnFinally, OpPushBreak and *)
(* OpHandlePending against Completions).                                 *)
THEOREM CompletionsAreKept == ASSUME KeptUpWith PROVE Spec => KeepsCompletions
<1>1. Init => IInv /\ C!Init
  BY StartsQuiet DEF Init
<1>2. IInv /\ [Next]_vars => IInv' /\ [C!Next]_(C!vars)
  BY NextKeepsUp
<1> QED
  BY <1>1, <1>2, PTL DEF Spec, KeepsCompletions, C!Spec

(* Each finally block, while it is where the program is, finds in the    *)
(* machine exactly what it was run for itself: the throw, return or loop *)
(* exit that it interrupted, or nothing.                                 *)
THEOREM BlocksResumeTheirOwn == ASSUME KeptUpWith PROVE Spec => []FinallyResumes
<1>1. Init => IInv
  BY StartsQuiet
<1>2. IInv /\ [Next]_vars => IInv'
  BY NextKeepsUp
<1>3. IInv => FinallyResumes
  <2>1. SUFFICES ASSUME IInv, frames # <<>>, Top(frames) # <<>>, Statement.part = "finally"
                 PROVE  Resumption = Statement.after
    BY DEF FinallyResumes
  <2>2. PICK c \in Completed : c = Statement.after /\ Holds(c)
    BY <2>1, FinallyEnds DEF Running
  <2>3. /\ c.type \in {"normal", "throw", "return", "break", "continue"}
        /\ c.type = "normal" => c = Normal
    BY CompletedIs
  <2> QED
    BY <2>2, <2>3 DEF Resumption, Holds
<1> QED
  BY <1>1, <1>2, <1>3, PTL DEF Spec
=============================================================================
