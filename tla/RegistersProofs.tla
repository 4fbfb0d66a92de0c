-------------------------- MODULE RegistersProofs --------------------------
(***************************************************************************)
(* Proofs about the two models in which registers are handed out.          *)
(*                                                                         *)
(* The first half is about RegisterAllocator, for every register width,    *)
(* threshold and block size.  Inv is inductive; the properties that TLC    *)
(* checks on a five-register instance follow from it.  First come facts    *)
(* about numbers, finite sets and sequences that all proofs here need:     *)
(* extrema of sets of naturals and what the operators of SequencesExt      *)
(* preserve.                                                               *)
(*                                                                         *)
(* The second half is about CallFrames, for every set of generators,       *)
(* values and window sizes and any number of frames and steps: FramesInv,  *)
(* which says how the loops and the frames between them fit together, is   *)
(* inductive; no two windows overlap, and the frames refine the stack of   *)
(* calls of CallStack.                                                     *)
(***************************************************************************)
EXTENDS RegisterAllocator, CallFrames, FiniteSetTheorems, SequenceTheorems,
        WellFoundedInduction, TLAPS

(* Every non-empty set of naturals has a least element.                    *)
LEMMA NatHasMin ==
    ASSUME NEW S \in SUBSET Nat, S # {}
    PROVE  \E m \in S : \A x \in S : m <= x
<1>1. PICK m \in S : \A y \in S : ~ (<<y, m>> \in OpToRel(<, Nat))
  BY NatLessThanWellFounded, WFMin
<1>2. \A y \in S : ~ (y < m)
  BY <1>1 DEF OpToRel
<1> QED
  BY <1>2

(* A non-empty set of naturals with an upper bound has a greatest element. *)
LEMMA NatHasMax ==
    ASSUME NEW S \in SUBSET Nat, S # {}, NEW b \in Nat, \A x \in S : x <= b
    PROVE  \E m \in S : \A x \in S : x <= m
<1> DEFINE T == {y \in Nat : \E x \in S : y = b - x}
<1>1. T # {} /\ T \in SUBSET Nat
  <2>1. PICK x \in S : TRUE
    OBVIOUS
  <2>2. b - x \in T
    OBVIOUS
  <2> QED
    BY <2>2
<1>2. PICK t \in T : \A y \in T : t <= y
  BY <1>1, NatHasMin
<1>3. PICK m \in S : t = b - m
  OBVIOUS
<1>4. ASSUME NEW x \in S PROVE x <= m
  <2>1. b - x \in T
    OBVIOUS
  <2> QED
    BY <2>1, <1>2, <1>3
<1> QED
  BY <1>4

(* Max of a set that has a greatest element is that element.               *)
LEMMA MaxIsGreatest ==
    ASSUME NEW S \in SUBSET Int, NEW m \in S, \A x \in S : x <= m
    PROVE  Max(S) = m
<1>1. PICK k \in S : k = Max(S) /\ \A y \in S : k >= y
  BY DEF Max
<1>2. k >= m /\ m >= k
  BY <1>1
<1> QED
  BY <1>1, <1>2

LEMMA MaxOfBounded ==
    ASSUME NEW S \in SUBSET Nat, S # {}, NEW b \in Nat, \A x \in S : x <= b
    PROVE  Max(S) \in S /\ \A x \in S : x <= Max(S)
<1>1. PICK m \in S : \A x \in S : x <= m
  BY NatHasMax
<1>2. Max(S) = m
  BY <1>1, MaxIsGreatest
<1> QED
  BY <1>1, <1>2

LEMMA MinIsLeast ==
    ASSUME NEW S \in SUBSET Nat, S # {}
    PROVE  Min(S) \in S /\ \A x \in S : Min(S) <= x
BY NatHasMin DEF Min

(* The scan of a run: a position either continues the run of the position  *)
(* before it or begins a run of one.  The recursive function is the length *)
(* of the longest stretch of positions that continue, with the one before. *)
LEMMA ScanCountsRuns ==
    ASSUME NEW m \in Nat, NEW B \in SUBSET (2..m), NEW f,
           f = CHOOSE h : h = [i \in 1..m |-> IF i \in B THEN h[i - 1] + 1 ELSE 1]
    PROVE  \A i \in 1..m :
              /\ f[i] \in 1..i
              /\ ((i - f[i]) + 2)..i \subseteq B
              /\ \A n \in 1..i : ((i - n) + 2)..i \subseteq B => n <= f[i]
<1> DEFINE R(i) == {n \in 1..i : ((i - n) + 2)..i \subseteq B}
           g == [i \in 1..m |-> Max(R(i))]
<1>1. ASSUME NEW i \in 1..m
      PROVE  g[i] \in R(i) /\ \A n \in R(i) : n <= g[i]
  <2>1. R(i) \in SUBSET Nat /\ 1 \in R(i) /\ i \in Nat /\ \A n \in R(i) : n <= i
    OBVIOUS
  <2>2. Max(R(i)) \in R(i) /\ \A n \in R(i) : n <= Max(R(i))
    <3> HIDE DEF R
    <3> QED
      BY <2>1, MaxOfBounded
  <2> QED
    BY <2>2
<1>2. ASSUME NEW i \in 1..m, i \notin B PROVE g[i] = 1
  <2>1. ASSUME NEW n \in R(i), n # 1 PROVE FALSE
    <3>1. i \in ((i - n) + 2)..i
      BY <2>1
    <3> QED
      BY <3>1, <2>1, <1>2
  <2> QED
    BY <2>1, <1>1
<1>3. ASSUME NEW i \in 1..m, i \in B PROVE g[i] = g[i - 1] + 1
  <2> DEFINE p == g[i - 1]
             q == g[i]
  <2>1. i - 1 \in 1..m /\ i \in 2..m
    BY <1>3
  <2>2. /\ p \in 1..(i - 1) /\ \A k \in ((i - 1 - p) + 2)..(i - 1) : k \in B
        /\ \A n \in R(i - 1) : n <= p
    BY <1>1, <2>1
  <2>3. /\ q \in 1..i /\ \A k \in ((i - q) + 2)..i : k \in B
        /\ \A n \in R(i) : n <= q
    BY <1>1
  <2> HIDE DEF p, q
  <2>4. p + 1 \in R(i)
    <3>1. ASSUME NEW k \in ((i - (p + 1)) + 2)..i PROVE k \in B
      <4>1. k = i \/ k \in ((i - 1 - p) + 2)..(i - 1)
        BY <2>1, <2>2
      <4> QED
        BY <4>1, <1>3, <2>2
    <3> QED
      BY <3>1, <2>1, <2>2
  <2>5. ASSUME q # 1 PROVE q - 1 \in R(i - 1)
    <3>1. ASSUME NEW k \in ((i - 1 - (q - 1)) + 2)..(i - 1) PROVE k \in B
      <4>1. k \in ((i - q) + 2)..i
        BY <2>1, <2>3
      <4> QED
        BY <4>1, <2>3
    <3> QED
      BY <3>1, <2>1, <2>3, <2>5
  <2>6. p + 1 <= q
    BY <2>3, <2>4
  <2>7. q <= p + 1
    <3>1. CASE q = 1
      BY <3>1, <2>2
    <3>2. CASE q # 1
      BY <3>2, <2>2, <2>3, <2>5
    <3> QED
      BY <3>1, <3>2
  <2>8. q = p + 1
    BY <2>2, <2>3, <2>6, <2>7
  <2> QED
    BY <2>8 DEF p, q
<1> HIDE DEF R
<1>4. g = [i \in 1..m |-> IF i \in B THEN g[i - 1] + 1 ELSE 1]
  <2> HIDE DEF g
  <2>1. \A i \in 1..m : g[i] = IF i \in B THEN g[i - 1] + 1 ELSE 1
    BY <1>2, <1>3
  <2>2. g = [i \in 1..m |-> g[i]]
    BY DEF g
  <2> QED
    BY <2>1, <2>2
<1> HIDE DEF g
<1>5. f = [i \in 1..m |-> IF i \in B THEN f[i - 1] + 1 ELSE 1]
  BY <1>4
<1>6. \A i \in 1..m : f[i] = g[i]
  <2> DEFINE W == {i \in 1..m : f[i] # g[i]}
  <2> SUFFICES ASSUME W # {} PROVE FALSE
    OBVIOUS
  <2>1. PICK i \in W : \A x \in W : i <= x
    <3>1. W \in SUBSET Nat
      OBVIOUS
    <3> HIDE DEF W
    <3> QED
      BY <3>1, NatHasMin
  <2>2. i \in B
    BY <1>2, <1>5, <2>1
  <2>3. i - 1 \in 1..m /\ i - 1 \notin W
    BY <2>1, <2>2
  <2>4. f[i - 1] = g[i - 1]
    BY <2>3
  <2>5. f[i] = f[i - 1] + 1
    BY <1>5, <2>1, <2>2
  <2> QED
    BY <1>3, <2>1, <2>2, <2>4, <2>5
<1> QED
  BY <1>1, <1>6 DEF R

-----------------------------------------------------------------------------
(* Sequences used as duplicate-free lists: what appending an element and   *)
(* removing one, at the end or in the middle, do to the list's elements.   *)

LEMMA ElementsOfList ==
    ASSUME NEW S, NEW s \in Seq(S)
    PROVE  ToSet(s) \subseteq S
<1>1. DOMAIN s = 1..Len(s)
  BY LenProperties
<1>2. \A i \in 1..Len(s) : s[i] \in S
  BY ElementOfSeq
<1> QED
  BY <1>1, <1>2 DEF ToSet

LEMMA AppendToList ==
    ASSUME NEW S, NEW s \in Seq(S), NEW e \in S
    PROVE  /\ Append(s, e) \in Seq(S)
           /\ ToSet(Append(s, e)) = ToSet(s) \cup {e}
           /\ IsInjective(s) /\ e \notin ToSet(s) => IsInjective(Append(s, e))
<1>1. /\ Append(s, e) \in Seq(S)
      /\ Len(Append(s, e)) = Len(s) + 1
      /\ \A i \in 1..Len(s) : Append(s, e)[i] = s[i]
      /\ Append(s, e)[Len(s) + 1] = e
      /\ DOMAIN Append(s, e) = 1..(Len(s) + 1)
      /\ DOMAIN s = 1..Len(s)
      /\ Len(s) \in Nat
  BY AppendProperties, LenProperties
<1> HIDE DEF IsInjective
<1>2. ToSet(Append(s, e)) = ToSet(s) \cup {e}
  BY <1>1 DEF ToSet
<1>3. ASSUME IsInjective(s), e \notin ToSet(s)
      PROVE  IsInjective(Append(s, e))
  BY <1>1, <1>3 DEF IsInjective, ToSet
<1> QED
  BY <1>1, <1>2, <1>3

LEMMA RemoveAtElements ==
    ASSUME NEW S, NEW s \in Seq(S), NEW i \in 1..Len(s)
    PROVE  /\ RemoveAt(s, i) \in Seq(S)
           /\ Len(RemoveAt(s, i)) = Len(s) - 1
           /\ \A j \in 1..(Len(s) - 1) :
                 RemoveAt(s, i)[j] = IF j < i THEN s[j] ELSE s[j + 1]
<1> DEFINE a == SubSeq(s, 1, i - 1)
           b == SubSeq(s, i + 1, Len(s))
<1>0. Len(s) \in Nat /\ \A j \in 1..Len(s) : s[j] \in S
  BY LenProperties, ElementOfSeq
<1>1. /\ a \in Seq(S) /\ Len(a) = i - 1
      /\ \A j \in 1..(i - 1) : a[j] = s[j]
  <2>1. \A j \in 1..(i - 1) : s[j] \in S
    BY <1>0
  <2> QED
    BY <1>0, <2>1, SubSeqProperties, i - 1 \in Int, 1 \in Int
<1>2. /\ b \in Seq(S) /\ Len(b) = Len(s) - i
      /\ \A j \in 1..(Len(s) - i) : b[j] = s[i + j]
  <2>1. \A j \in (i + 1)..Len(s) : s[j] \in S
    BY <1>0
  <2> QED
    BY <1>0, <2>1, SubSeqProperties, i + 1 \in Int, Len(s) \in Int
<1>3. /\ a \o b \in Seq(S)
      /\ Len(a \o b) = Len(a) + Len(b)
      /\ \A j \in 1..(Len(a) + Len(b)) :
            (a \o b)[j] = IF j <= Len(a) THEN a[j] ELSE b[j - Len(a)]
  BY <1>1, <1>2, ConcatProperties
<1> HIDE DEF a, b
<1>4. RemoveAt(s, i) = a \o b
  BY DEF RemoveAt, a, b
<1>5. Len(a \o b) = Len(s) - 1
  BY <1>0, <1>1, <1>2, <1>3
<1>6. ASSUME NEW j \in 1..(Len(s) - 1)
      PROVE  (a \o b)[j] = IF j < i THEN s[j] ELSE s[j + 1]
  <2>1. (a \o b)[j] = IF j <= i - 1 THEN a[j] ELSE b[j - (i - 1)]
    BY <1>0, <1>1, <1>2, <1>3
  <2>2. CASE j < i
    BY <2>1, <2>2, <1>1
  <2>3. CASE ~(j < i)
    <3>1. j - (i - 1) \in 1..(Len(s) - i) /\ i + (j - (i - 1)) = j + 1
      BY <2>3, <1>0
    <3>2. b[j - (i - 1)] = s[i + (j - (i - 1))]
      BY <1>2, <3>1
    <3>3. (a \o b)[j] = b[j - (i - 1)]
      BY <2>1, <2>3, <1>0
    <3> QED
      BY <2>3, <3>1, <3>2, <3>3
  <2> QED
    BY <2>2, <2>3
<1> QED
  BY <1>3, <1>4, <1>5, <1>6

LEMMA RemoveAtFromList ==
    ASSUME NEW S, NEW s \in Seq(S), NEW i \in 1..Len(s), IsInjective(s)
    PROVE  /\ RemoveAt(s, i) \in Seq(S)
           /\ IsInjective(RemoveAt(s, i))
           /\ ToSet(RemoveAt(s, i)) = ToSet(s) \ {s[i]}
<1> DEFINE t == RemoveAt(s, i)
<1>1. /\ t \in Seq(S) /\ Len(t) = Len(s) - 1 /\ Len(s) \in Nat
      /\ \A j \in 1..(Len(s) - 1) : t[j] = IF j < i THEN s[j] ELSE s[j + 1]
  BY RemoveAtElements, LenProperties
<1>2. DOMAIN t = 1..(Len(s) - 1) /\ DOMAIN s = 1..Len(s)
  BY <1>1, LenProperties
<1> HIDE DEF t
<1>3. IsInjective(t)
  BY <1>1, <1>2, SMTT(20) DEF IsInjective
<1>4. ToSet(t) \subseteq ToSet(s) \ {s[i]}
  BY <1>1, <1>2 DEF IsInjective, ToSet
<1>5. ASSUME NEW k \in 1..Len(s), k # i PROVE s[k] \in ToSet(t)
  <2>1. CASE k < i
    <3>1. k \in 1..(Len(s) - 1) /\ t[k] = s[k]
      BY <1>1, <2>1
    <3> QED
      BY <3>1, <1>2 DEF ToSet
  <2>2. CASE k > i
    <3>1. k - 1 \in 1..(Len(s) - 1) /\ t[k - 1] = s[k]
      BY <1>1, <2>2
    <3> QED
      BY <3>1, <1>2 DEF ToSet
  <2> QED
    BY <2>1, <2>2, <1>5
<1>6. ToSet(s) \ {s[i]} \subseteq ToSet(t)
  BY <1>5, <1>2 DEF ToSet
<1> QED
  BY <1>1, <1>3, <1>4, <1>6 DEF t

LEMMA FrontOfList ==
    ASSUME NEW S, NEW s \in Seq(S), s # <<>>, IsInjective(s)
    PROVE  /\ Front(s) \in Seq(S)
           /\ IsInjective(Front(s))
           /\ ToSet(Front(s)) = ToSet(s) \ {Last(s)}
           /\ Last(s) \in ToSet(s)
<1>1. Len(s) \in Nat \ {0} /\ DOMAIN s = 1..Len(s) /\ \A j \in 1..Len(s) : s[j] \in S
  BY EmptySeq, LenProperties, ElementOfSeq
<1>2. /\ Front(s) \in Seq(S) /\ Len(Front(s)) = Len(s) - 1
      /\ \A j \in 1..(Len(s) - 1) : Front(s)[j] = s[j]
  <2>1. \A j \in 1..(Len(s) - 1) : s[j] \in S
    BY <1>1
  <2>2. Len(s) - 1 \in Int /\ 1 \in Int
    BY <1>1
  <2>3. /\ SubSeq(s, 1, Len(s) - 1) \in Seq(S)
        /\ Len(SubSeq(s, 1, Len(s) - 1)) = IF 1 <= Len(s) - 1 THEN Len(s) - 1 - 1 + 1 ELSE 0
        /\ \A j \in 1..(Len(s) - 1 - 1 + 1) : SubSeq(s, 1, Len(s) - 1)[j] = s[1 + j - 1]
    BY <2>1, <2>2, SubSeqProperties
  <2> QED
    BY <2>3, <1>1 DEF Front
<1>3. DOMAIN Front(s) = 1..(Len(s) - 1)
  BY <1>2, LenProperties
<1>4. Last(s) = s[Len(s)] /\ Last(s) \in ToSet(s)
  BY <1>1 DEF Last, ToSet
<1>5. IsInjective(Front(s))
  BY <1>1, <1>2, <1>3 DEF IsInjective
<1>6. ToSet(Front(s)) = ToSet(s) \ {Last(s)}
  BY <1>1, <1>2, <1>3, <1>4 DEF IsInjective, ToSet
<1> QED
  BY <1>2, <1>4, <1>5, <1>6

LEMMA RemoveFirstFromList ==
    ASSUME NEW S, NEW s \in Seq(S), NEW e \in ToSet(s), IsInjective(s)
    PROVE  /\ RemoveFirst(s, e) \in Seq(S)
           /\ IsInjective(RemoveFirst(s, e))
           /\ ToSet(RemoveFirst(s, e)) = ToSet(s) \ {e}
<1>1. Len(s) \in Nat /\ DOMAIN s = 1..Len(s)
  BY LenProperties
<1> DEFINE I == {i \in 1..Len(s) : s[i] = e}
<1>2. I # {} /\ I \in SUBSET Nat
  BY <1>1 DEF ToSet
<1>3. Min(I) \in I
  BY <1>2, MinIsLeast
<1>4. RemoveFirst(s, e) = RemoveAt(s, Min(I))
  <2>1. \E i \in 1..Len(s) : s[i] = e
    BY <1>2
  <2>2. SelectInSeq(s, LAMBDA v : v = e) = Min(I)
    BY <1>2 DEF SelectInSeq
  <2> QED
    BY <2>1, <2>2 DEF RemoveFirst
<1>5. PICK m \in 1..Len(s) : m = Min(I) /\ s[m] = e
  BY <1>3
<1>6. RemoveFirst(s, e) = RemoveAt(s, m)
  BY <1>4, <1>5
<1>7. /\ RemoveAt(s, m) \in Seq(S)
      /\ IsInjective(RemoveAt(s, m))
      /\ ToSet(RemoveAt(s, m)) = ToSet(s) \ {s[m]}
  <2> HIDE DEF I
  <2> QED
    BY RemoveAtFromList
<1> QED
  BY <1>5, <1>6, <1>7

(* Filtering a list by ranks: if keep holds the positions that stay, the   *)
(* j-th element of the result is the one whose position has rank j.        *)
LEMMA RanksAreDense ==
    ASSUME NEW n \in Nat, NEW keep \in SUBSET (1..n)
    PROVE  LET rank(i) == Cardinality({k \in keep : k <= i})
           IN  /\ IsFiniteSet(keep) /\ Cardinality(keep) \in Nat
               /\ \A j \in 1..Cardinality(keep) : \E i \in keep : rank(i) = j
               /\ \A i \in keep : rank(i) \in 1..Cardinality(keep)
               /\ \A i, k \in keep : rank(i) = rank(k) => i = k
<1> DEFINE upTo(i) == {k \in keep : k <= i}
           rank(i) == Cardinality(upTo(i))
           f == [i \in keep |-> rank(i)]
           c == Cardinality(keep)
<1>1. IsFiniteSet(keep) /\ c \in Nat
  BY FS_Interval, FS_Subset, FS_CardinalityType, 1 \in Int, n \in Int
<1>2. ASSUME NEW i \in keep
      PROVE  IsFiniteSet(upTo(i)) /\ rank(i) \in 1..c
  <2>1. upTo(i) \in SUBSET keep /\ upTo(i) # {}
    OBVIOUS
  <2>2. IsFiniteSet(upTo(i)) /\ rank(i) <= c /\ rank(i) \in Nat
    BY <1>1, <2>1, FS_Subset, FS_CardinalityType
  <2>3. rank(i) # 0
    BY <2>1, <2>2, FS_EmptySet
  <2> QED
    BY <2>2, <2>3, <1>1
<1>3. ASSUME NEW i \in keep, NEW k \in keep, i < k
      PROVE  rank(i) < rank(k)
  <2>0. keep \in SUBSET Int
    OBVIOUS
  <2>1. upTo(i) \in SUBSET upTo(k) /\ k \in upTo(k) /\ k \notin upTo(i)
    <3>1. \A q \in keep : q <= i => q <= k
      BY <1>3, <2>0
    <3>2. k <= k /\ ~(k <= i)
      BY <1>3, <2>0
    <3> QED
      BY <3>1, <3>2
  <2>2. IsFiniteSet(upTo(k)) /\ rank(k) \in Nat /\ rank(i) \in Nat
    BY <1>2, <1>1
  <2>3. rank(i) <= rank(k) /\ (rank(i) = rank(k) => upTo(i) = upTo(k))
    BY <2>1, <2>2, FS_Subset
  <2> QED
    BY <2>1, <2>2, <2>3
<1>4. ASSUME NEW i \in keep, NEW k \in keep, rank(i) = rank(k)
      PROVE  i = k
  <2>1. i \in Int /\ k \in Int /\ rank(i) \in Int /\ rank(k) \in Int
    BY <1>2, <1>1
  <2>2. ~(i < k) /\ ~(k < i)
    BY <1>3, <1>4, <2>1
  <2> QED
    BY <2>1, <2>2
<1>5. f \in Injection(keep, 1..c)
  BY <1>2, <1>4 DEF Injection, IsInjective
<1>6. IsFiniteSet(1..c) /\ Cardinality(1..c) = c
  BY <1>1, FS_Interval, 1 \in Int, c \in Int
<1>7. f \in Surjection(keep, 1..c)
  BY <1>1, <1>5, <1>6, FS_Injection
<1>8. ASSUME NEW j \in 1..c PROVE \E i \in keep : rank(i) = j
  BY <1>7 DEF Surjection
<1> QED
  BY <1>1, <1>2, <1>4, <1>8

-----------------------------------------------------------------------------
(* The allocator.                                                          *)

USE DEF Register

LEMMA ModBelow ==
    ASSUME NEW a \in 0..(NumRegs - 1)
    PROVE  a % NumRegs = a
BY SizesAssumption

(* Filtering the free list keeps exactly the registers outside B, without  *)
(* introducing duplicates.                                                 *)
LEMMA WithoutFromList ==
    ASSUME NEW S, NEW s \in Seq(S), IsInjective(s), NEW B
    PROVE  /\ Without(s, B) \in Seq(S)
           /\ IsInjective(Without(s, B))
           /\ ToSet(Without(s, B)) = ToSet(s) \ B
<1> DEFINE kept    == {i \in DOMAIN s : s[i] \notin B}
           rank(i) == Cardinality({k \in kept : k <= i})
           c       == Cardinality(kept)
           pos(j)  == CHOOSE i \in kept : rank(i) = j
           t       == [j \in 1..c |-> s[pos(j)]]
<1>1. Len(s) \in Nat /\ DOMAIN s = 1..Len(s) /\ \A i \in 1..Len(s) : s[i] \in S
  BY LenProperties, ElementOfSeq
<1>2. kept \in SUBSET (1..Len(s))
  BY <1>1
<1>3. /\ c \in Nat
      /\ \A j \in 1..c : \E i \in kept : rank(i) = j
      /\ \A i \in kept : rank(i) \in 1..c
      /\ \A i, k \in kept : rank(i) = rank(k) => i = k
  <2> HIDE DEF kept
  <2> QED
    BY <1>1, <1>2, RanksAreDense
<1> HIDE DEF rank, c
<1>4. \A j \in 1..c : pos(j) \in kept /\ rank(pos(j)) = j
  BY <1>3
<1> HIDE DEF pos
<1>5. Without(s, B) = t
  BY DEF Without, rank, c, pos
<1>6. t \in Seq(S)
  <2>1. t \in [1..c -> S]
    BY <1>1, <1>4
  <2> QED
    BY <2>1, <1>3, SeqDef
<1>7. DOMAIN t = 1..c
  OBVIOUS
<1>8. IsInjective(t)
  <2>1. ASSUME NEW j \in 1..c, NEW k \in 1..c, t[j] = t[k] PROVE j = k
    <3>1. s[pos(j)] = s[pos(k)] /\ pos(j) \in DOMAIN s /\ pos(k) \in DOMAIN s
      BY <2>1, <1>4
    <3>2. pos(j) = pos(k)
      BY <3>1 DEF IsInjective
    <3> QED
      BY <3>2, <1>4
  <2> QED
    BY <2>1 DEF IsInjective
<1>9. ToSet(t) \subseteq ToSet(s) \ B
  BY <1>4 DEF ToSet
<1>10. ASSUME NEW i \in DOMAIN s, s[i] \notin B PROVE s[i] \in ToSet(t)
  <2>1. i \in kept
    BY <1>10
  <2>2. rank(i) \in 1..c /\ pos(rank(i)) = i
    BY <2>1, <1>3, <1>4
  <2> QED
    BY <2>2 DEF ToSet
<1> QED
  BY <1>5, <1>6, <1>8, <1>9, <1>10 DEF ToSet

-----------------------------------------------------------------------------
(* The pieces the actions are made of.                                     *)

LEMMA HandOutFacts ==
    ASSUME TypeOK, NEW R \in SUBSET Register, HandOut(R)
    PROVE  /\ maxReg' \in Register /\ maxReg' \in R \cup {maxReg}
           /\ maxReg <= maxReg' /\ \A r \in R : r <= maxReg'
<1>1. /\ R \cup {maxReg} \in SUBSET Nat
      /\ NumRegs \in Nat
      /\ \A x \in R \cup {maxReg} : x <= NumRegs
  BY SizesAssumption DEF TypeOK
<1>2. /\ Max(R \cup {maxReg}) \in R \cup {maxReg}
      /\ \A x \in R \cup {maxReg} : x <= Max(R \cup {maxReg})
  BY <1>1, MaxOfBounded
<1> QED
  BY <1>2 DEF HandOut, TypeOK

LEMMA ModStep ==
    ASSUME NEW a \in 0..(2 * NumRegs - 2)
    PROVE  ((a % NumRegs) + 1) % NumRegs = (a + 1) % NumRegs
<1>1. NumRegs \in Nat /\ NumRegs >= 3
  BY SizesAssumption
<1>2. ASSUME NEW b \in NumRegs..(2 * NumRegs - 1) PROVE b % NumRegs = b - NumRegs
  BY <1>1
<1>3. CASE a < NumRegs
  <2>1. a \in 0..(NumRegs - 1)
    BY <1>1, <1>3
  <2>2. a % NumRegs = a
    BY <2>1, ModBelow
  <2> QED
    BY <2>2
<1>4. CASE a >= NumRegs
  <2>1. a % NumRegs = a - NumRegs /\ (a + 1) % NumRegs = a + 1 - NumRegs
    BY <1>1, <1>2, <1>4
  <2>2. (a - NumRegs) + 1 \in 0..(NumRegs - 1) /\ (a - NumRegs) + 1 = a + 1 - NumRegs
    BY <1>1, <1>4
  <2>3. ((a - NumRegs) + 1) % NumRegs = (a - NumRegs) + 1
    BY <2>2, ModBelow
  <2> QED
    BY <2>1, <2>2, <2>3
<1> QED
  BY <1>1, <1>3, <1>4

(* Sorting: every position of the sorted list has a register, one of the   *)
(* free list.                                                              *)
LEMMA SortedFreeFacts ==
    ASSUME TypeOK
    PROVE  /\ Len(freeRegs) \in Nat /\ DOMAIN freeRegs = 1..Len(freeRegs)
           /\ \A j \in 1..Len(freeRegs) :
                 SortedFree[j] \in ToSet(freeRegs) /\ SortedFree[j] \in 0..(NumRegs - 1)
<1> DEFINE L == Len(freeRegs)
           under(r) == {i \in DOMAIN freeRegs : freeRegs[i] < r}
           upTo(r)  == {i \in DOMAIN freeRegs : freeRegs[i] <= r}
<1>1. L \in Nat /\ DOMAIN freeRegs = 1..L
  BY LenProperties DEF TypeOK
<1>2. \A i \in 1..L : freeRegs[i] \in 0..(NumRegs - 1)
  BY <1>1, ElementOfSeq DEF TypeOK
<1>3. IsFiniteSet(1..L) /\ Cardinality(1..L) = L
  <2>1. 1 \in Int /\ L \in Int
    BY <1>1
  <2>2. /\ IsFiniteSet(1..L)
        /\ Cardinality(1..L) = IF 1 > L THEN 0 ELSE L - 1 + 1
    BY <2>1, FS_Interval
  <2> QED
    BY <1>1, <2>2
<1>4. \A r : Cardinality(under(r)) \in Nat /\ Cardinality(upTo(r)) \in Nat
  <2>1. \A r : under(r) \in SUBSET (1..L) /\ upTo(r) \in SUBSET (1..L)
    BY <1>1
  <2> QED
    BY <1>3, <2>1, FS_Subset, FS_CardinalityType
<1>5. ASSUME NEW j \in 1..L
      PROVE  \E r \in ToSet(freeRegs) : Cardinality(under(r)) < j /\ Cardinality(upTo(r)) >= j
  <2> DEFINE T == {r \in Nat : Cardinality(upTo(r)) >= j}
  <2>1. T # {}
    <3>1. upTo(NumRegs) = 1..L
      BY <1>1, <1>2, SizesAssumption
    <3>2. Cardinality(upTo(NumRegs)) = L
      <4> HIDE DEF upTo
      <4> QED
        BY <3>1, <1>3
    <3>3. NumRegs \in Nat /\ L >= j
      BY <1>1, SizesAssumption
    <3> HIDE DEF upTo
    <3> QED
      BY <3>2, <3>3
  <2>2. PICK m \in T : \A x \in T : m <= x
    <3> HIDE DEF upTo
    <3> QED
      BY <2>1, NatHasMin
  <2>3. Cardinality(under(m)) < j
    <3>1. CASE m = 0
      <4>1. under(m) = {}
        BY <1>1, <1>2, <3>1
      <4> QED
        BY <4>1, FS_EmptySet
    <3>2. CASE m # 0
      <4>1. under(m) = upTo(m - 1)
        BY <1>1, <1>2, <3>2
      <4>2. m - 1 \in Nat /\ m - 1 \notin T
        BY <2>2, <3>2
      <4>3. ~(Cardinality(upTo(m - 1)) >= j)
        BY <4>2
      <4>4. Cardinality(upTo(m - 1)) < j
        <5>1. Cardinality(upTo(m - 1)) \in Nat
          BY <1>4
        <5> HIDE DEF upTo
        <5> QED
          BY <4>3, <5>1, <1>1
      <4> QED
        BY <4>1, <4>4
    <3> QED
      BY <3>1, <3>2
  <2>4. m \in ToSet(freeRegs)
    <3> SUFFICES ASSUME m \notin ToSet(freeRegs) PROVE FALSE
      OBVIOUS
    <3>1. \A i \in 1..L : freeRegs[i] # m
      BY <1>1 DEF ToSet
    <3>2. upTo(m) = under(m)
      BY <1>1, <1>2, <3>1
    <3>3. Cardinality(upTo(m)) >= j
      BY <2>2
    <3> HIDE DEF upTo, under
    <3> QED
      BY <1>1, <1>4, <2>3, <3>2, <3>3
  <2> QED
    BY <2>2, <2>3, <2>4
<1> HIDE DEF under, upTo
<1>6. \A j \in 1..L : SortedFree[j] \in ToSet(freeRegs)
  <2>1. SortedFree = [j \in 1..L |->
                        CHOOSE r \in ToSet(freeRegs) :
                            Cardinality(under(r)) < j /\ Cardinality(upTo(r)) >= j]
    BY <1>1 DEF SortedFree, under, upTo
  <2> QED
    BY <1>5, <2>1
<1> QED
  BY <1>1, <1>2, <1>6 DEF ToSet

(* What the search of TryAllocContiguous finds is free.                    *)
LEMMA FoundBlockIsFree ==
    ASSUME TypeOK, NEW n \in Nat \ {0}, FreeBlocks(n) # {}
    PROVE  FirstFreeBlock(n) \in SUBSET ToSet(freeRegs)
<1> DEFINE i == Min(FreeBlocks(n))
<1>1. i \in FreeBlocks(n)
  <2>1. FreeBlocks(n) \in SUBSET Nat
    BY DEF FreeBlocks
  <2> QED
    BY <2>1, MinIsLeast
<1> HIDE DEF i
<1>2. /\ i \in 1..(Len(freeRegs) - n + 1)
      /\ \A j \in 1..(n - 1) : SortedFree[i + j] = (SortedFree[i] + j) % NumRegs
  BY <1>1 DEF FreeBlocks
<1>3. ASSUME NEW j \in 0..(n - 1)
      PROVE  (SortedFree[i] + j) % NumRegs \in ToSet(freeRegs)
  <2>1. i \in 1..Len(freeRegs) /\ i + j \in 1..Len(freeRegs)
    BY <1>2, SortedFreeFacts
  <2>2. CASE j = 0
    <3>1. SortedFree[i] \in 0..(NumRegs - 1) /\ SortedFree[i] \in ToSet(freeRegs)
      BY <2>1, SortedFreeFacts
    <3>2. SortedFree[i] + j = SortedFree[i]
      BY <2>2, <3>1, SizesAssumption
    <3> QED
      BY <3>1, <3>2, ModBelow
  <2>3. CASE j # 0
    <3>1. SortedFree[i + j] = (SortedFree[i] + j) % NumRegs
      BY <1>2, <2>3
    <3> QED
      BY <2>1, <3>1, SortedFreeFacts
  <2> QED
    BY <2>2, <2>3
<1>4. FirstFreeBlock(n) = {(SortedFree[i] + j) % NumRegs : j \in 0..(n - 1)}
  BY DEF FirstFreeBlock, Block, i
<1> QED
  BY <1>3, <1>4

(* A block that ends at or below the last register is an interval.         *)
LEMMA BlockIsInterval ==
    ASSUME NEW a \in Register, NEW n \in Nat, a + n <= NumRegs
    PROVE  Block(a, n) = a..(a + n - 1)
<1>1. \A j \in 0..(n - 1) : (a + j) % NumRegs = a + j
  <2> TAKE j \in 0..(n - 1)
  <2>1. a + j \in 0..(NumRegs - 1)
    BY SizesAssumption
  <2> QED
    BY <2>1, ModBelow
<1>2. Block(a, n) = {a + j : j \in 0..(n - 1)}
  BY <1>1 DEF Block
<1>3. \A r \in a..(a + n - 1) : r - a \in 0..(n - 1) /\ r = a + (r - a)
  BY SizesAssumption
<1> QED
  BY <1>2, <1>3, SizesAssumption

(* An action that hands out registers of the free list and takes exactly   *)
(* those out of it.                                                        *)
LEMMA ReuseKeepsInv ==
    ASSUME Inv, NEW R \in SUBSET ToSet(freeRegs), HandOut(R),
           freeRegs' \in Seq(Register), IsInjective(freeRegs'),
           ToSet(freeRegs') = ToSet(freeRegs) \ R,
           UNCHANGED <<nextReg, capturedRegs, wrapped>>
    PROVE  Inv' /\ (~wrapped => result' \cap live = {})
<1>1. ToSet(freeRegs) \subseteq Register
  BY ElementsOfList DEF Inv, TypeOK
<1>2. /\ maxReg' \in Register /\ maxReg' \in R \cup {maxReg}
      /\ maxReg <= maxReg' /\ \A r \in R : r <= maxReg'
  BY <1>1, HandOutFacts DEF Inv
<1>3. TypeOK'
  BY <1>1, <1>2 DEF Inv, TypeOK, HandOut
<1>4. FreeListDistinct'
  BY DEF FreeListDistinct
<1>5. ASSUME ~wrapped PROVE NotOverflowedInv' /\ result' \cap live = {}
  <2>1. FreeListUnused' /\ result' \cap live = {}
    BY <1>5 DEF Inv, NotOverflowedInv, FreeListUnused, HandOut
  <2>2. InPlayBelowNext'
    <3>1. ASSUME NEW r \in (live \cup ToSet(freeRegs))' PROVE r < nextReg' /\ r <= maxReg'
      <4>1. r \in live \cup ToSet(freeRegs) /\ r \in Register
        BY <1>1 DEF HandOut, Inv, TypeOK
      <4>2. r < nextReg /\ r <= maxReg
        BY <4>1, <1>5 DEF Inv, NotOverflowedInv, InPlayBelowNext
      <4> QED
        BY <4>1, <4>2, <1>2 DEF Inv, TypeOK
    <3> QED
      BY <3>1 DEF InPlayBelowNext
  <2>3. MaxBelowNext'
    BY <1>1, <1>2, <1>5 DEF Inv, NotOverflowedInv, MaxBelowNext, InPlayBelowNext, TypeOK
  <2>4. PinsAreLive'
    BY <1>5 DEF Inv, NotOverflowedInv, PinsAreLive, HandOut
  <2> QED
    BY <2>1, <2>2, <2>3, <2>4 DEF NotOverflowedInv
<1> QED
  BY <1>3, <1>4, <1>5 DEF Inv

(* An action that hands out a block starting at or above nextReg, and      *)
(* moves nextReg just above it.                                            *)
LEMMA ExtendKeepsInv ==
    ASSUME Inv, NEW a \in Register, nextReg <= a,
           NEW n \in Nat \ {0}, a + n <= NumRegs,
           HandOut(Block(a, n)),
           nextReg' = (a + n) % NumRegs,
           wrapped' = (wrapped \/ a + n = NumRegs),
           UNCHANGED <<freeRegs, capturedRegs>>
    PROVE  Inv' /\ (~wrapped => result' \cap live = {})
<1> DEFINE R == Block(a, n)
<1>1. R \in SUBSET Register /\ a + n - 1 \in R /\ \A r \in R : a <= r /\ r < a + n
  <2>1. R = a..(a + n - 1)
    BY BlockIsInterval
  <2> QED
    BY <2>1, SizesAssumption
<1>2. /\ maxReg' \in Register /\ maxReg' \in R \cup {maxReg}
      /\ maxReg <= maxReg' /\ \A r \in R : r <= maxReg'
  BY <1>1, HandOutFacts DEF Inv
<1>3. ToSet(freeRegs) \subseteq Register
  BY ElementsOfList DEF Inv, TypeOK
<1>4. nextReg' \in Register
  BY SizesAssumption
<1>5. TypeOK'
  BY <1>1, <1>2, <1>4 DEF Inv, TypeOK, HandOut
<1>6. FreeListDistinct'
  BY DEF Inv, FreeListDistinct
<1>7. ASSUME ~wrapped PROVE result' \cap live = {} /\ R \cap ToSet(freeRegs) = {}
  BY <1>1, <1>3, <1>7 DEF Inv, NotOverflowedInv, InPlayBelowNext, HandOut, TypeOK
<1>8. ASSUME ~wrapped' PROVE NotOverflowedInv'
  <2>1. ~wrapped /\ nextReg' = a + n
    <3>1. ~wrapped /\ a + n # NumRegs
      BY <1>8
    <3>2. a + n \in 0..(NumRegs - 1)
      BY <3>1, SizesAssumption
    <3> QED
      BY <3>1, <3>2, ModBelow
  <2>2. FreeListUnused'
    BY <1>7, <2>1 DEF Inv, NotOverflowedInv, FreeListUnused, HandOut
  <2>3. ASSUME NEW r \in (live \cup ToSet(freeRegs))' PROVE r < nextReg' /\ r <= maxReg'
    <3>1. CASE r \in R
      BY <3>1, <1>1, <1>2, <2>1
    <3>2. CASE r \in live \cup ToSet(freeRegs)
      <4>1. r < nextReg /\ r <= maxReg /\ r \in Register
        BY <3>2, <2>1, <1>3 DEF Inv, NotOverflowedInv, InPlayBelowNext, TypeOK
      <4> QED
        BY <4>1, <1>2, <2>1 DEF Inv, TypeOK
    <3> QED
      BY <2>3, <3>1, <3>2 DEF HandOut
  <2>4. MaxBelowNext'
    <3>1. maxReg' < a + n
      BY <1>1, <1>2, <2>1 DEF Inv, NotOverflowedInv, MaxBelowNext, TypeOK
    <3> QED
      BY <3>1, <2>1 DEF MaxBelowNext
  <2>5. PinsAreLive'
    BY <2>1 DEF Inv, NotOverflowedInv, PinsAreLive, HandOut
  <2> QED
    BY <2>2, <2>3, <2>4, <2>5 DEF NotOverflowedInv, InPlayBelowNext
<1> QED
  BY <1>5, <1>6, <1>7, <1>8 DEF Inv

-----------------------------------------------------------------------------
(* One lemma per group of actions: each preserves Inv and hands out only   *)
(* registers nobody holds.                                                 *)

Fresh == ~wrapped => result' \cap live = {}

LEMMA SilentKeepsInv ==
    ASSUME Inv, UNCHANGED <<code, live, wrapped>>, result' = {}, panicked' \in BOOLEAN
    PROVE  Inv' /\ Fresh
<1>1. TypeOK'
  BY DEF Inv, TypeOK, code
<1>2. FreeListDistinct'
  BY DEF Inv, FreeListDistinct, code
<1>3. ~wrapped' => NotOverflowedInv'
  BY DEF Inv, NotOverflowedInv, FreeListUnused, InPlayBelowNext, MaxBelowNext,
         PinsAreLive, code
<1> QED
  BY <1>1, <1>2, <1>3 DEF Inv, Fresh

LEMMA RefuseStep == Inv /\ Refuse => Inv' /\ Fresh
BY SilentKeepsInv DEF Refuse, Inv, TypeOK

LEMMA PanicStep == Inv /\ Panic => Inv' /\ Fresh
BY SilentKeepsInv DEF Panic

LEMMA PopFreeStep == Inv /\ PopFree => Inv' /\ Fresh
<1> SUFFICES ASSUME Inv, PopFree PROVE Inv' /\ Fresh
  OBVIOUS
<1>1. /\ Front(freeRegs) \in Seq(Register)
      /\ IsInjective(Front(freeRegs))
      /\ ToSet(Front(freeRegs)) = ToSet(freeRegs) \ {Last(freeRegs)}
      /\ Last(freeRegs) \in ToSet(freeRegs)
  BY FrontOfList DEF PopFree, Inv, TypeOK, FreeListDistinct
<1> QED
  BY <1>1, ReuseKeepsInv DEF PopFree, Fresh

LEMMA TakeNextStep ==
    ASSUME NEW limit \in Register, Inv, TakeNext(limit)
    PROVE  Inv' /\ Fresh
<1>1. nextReg \in Register /\ nextReg + 1 < NumRegs /\ nextReg + 1 \in 0..(NumRegs - 1)
  BY SizesAssumption DEF TakeNext, Inv, TypeOK
<1>2. Block(nextReg, 1) = {nextReg}
  <2>1. Block(nextReg, 1) = nextReg..(nextReg + 1 - 1) /\ nextReg \in Int
    BY <1>1, SizesAssumption, BlockIsInterval
  <2> QED
    BY <2>1
<1>3. nextReg' = (nextReg + 1) % NumRegs
  BY <1>1, ModBelow DEF TakeNext
<1>4. /\ nextReg <= nextReg /\ 1 \in Nat \ {0} /\ nextReg + 1 <= NumRegs
      /\ HandOut(Block(nextReg, 1))
      /\ wrapped' = (wrapped \/ nextReg + 1 = NumRegs)
      /\ UNCHANGED <<freeRegs, capturedRegs>>
  <2>1. nextReg + 1 # NumRegs /\ wrapped \in BOOLEAN /\ wrapped' = wrapped
    BY <1>1, SizesAssumption DEF TakeNext, Inv, TypeOK
  <2>2. wrapped' = (wrapped \/ nextReg + 1 = NumRegs)
    BY <2>1, Zenon
  <2> QED
    BY <1>1, <1>2, <2>2, SizesAssumption DEF TakeNext
<1> QED
  BY <1>1, <1>3, <1>4, ExtendKeepsInv DEF Fresh

LEMMA AllocStep == Inv /\ Alloc => Inv' /\ Fresh
<1>1. NumRegs - 1 \in Register
  BY SizesAssumption
<1> QED
  BY <1>1, PopFreeStep, TakeNextStep, PanicStep DEF Alloc

LEMMA VariableStep == Inv /\ TryAllocForVariable => Inv' /\ Fresh
<1> SUFFICES ASSUME Inv, TryAllocForVariable PROVE Inv' /\ Fresh
  OBVIOUS
<1>1. CASE /\ LowFree # {}
           /\ HandOut({freeRegs[Max(LowFree)]})
           /\ freeRegs' = RemoveAt(freeRegs, Max(LowFree))
           /\ UNCHANGED <<nextReg, capturedRegs, wrapped>>
  <2>1. Len(freeRegs) \in Nat /\ DOMAIN freeRegs = 1..Len(freeRegs)
    BY LenProperties DEF Inv, TypeOK
  <2>2. LowFree \in SUBSET Nat /\ \A i \in LowFree : i <= Len(freeRegs)
    BY <2>1 DEF LowFree
  <2>3. Max(LowFree) \in LowFree
    BY <1>1, <2>1, <2>2, MaxOfBounded
  <2>4. PICK i \in 1..Len(freeRegs) : i = Max(LowFree)
    BY <2>1, <2>3 DEF LowFree
  <2>5. /\ RemoveAt(freeRegs, i) \in Seq(Register)
        /\ IsInjective(RemoveAt(freeRegs, i))
        /\ ToSet(RemoveAt(freeRegs, i)) = ToSet(freeRegs) \ {freeRegs[i]}
    BY RemoveAtFromList DEF Inv, TypeOK, FreeListDistinct
  <2>6. freeRegs[i] \in ToSet(freeRegs)
    BY <2>1 DEF ToSet
  <2> QED
    BY <1>1, <2>4, <2>5, <2>6, ReuseKeepsInv DEF Fresh
<1>2. CASE TakeNext(VariableRegisterThreshold)
  BY <1>2, TakeNextStep, SizesAssumption
<1>3. CASE Refuse
  BY <1>3, RefuseStep
<1> QED
  BY <1>1, <1>2, <1>3 DEF TryAllocForVariable

LEMMA HintedStep ==
    ASSUME NEW hint \in Register, Inv, AllocHinted(hint)
    PROVE  Inv' /\ Fresh
<1>1. CASE /\ IsInFreeList(hint)
           /\ result' = {hint}
           /\ live' = live \cup {hint}
           /\ freeRegs' = RemoveFirst(freeRegs, hint)
           /\ UNCHANGED <<nextReg, maxReg, pinnedRegs, capturedRegs, panicked, wrapped>>
  <2>1. hint \in ToSet(freeRegs)
    BY <1>1, LenProperties DEF IsInFreeList, Contains, ToSet, Inv, TypeOK
  <2>2. /\ freeRegs' \in Seq(Register) /\ IsInjective(freeRegs')
        /\ ToSet(freeRegs') = ToSet(freeRegs) \ {hint}
    BY <1>1, <2>1, RemoveFirstFromList DEF Inv, TypeOK, FreeListDistinct
  <2>3. TypeOK'
    BY <1>1, <2>2 DEF Inv, TypeOK
  <2>4. ASSUME ~wrapped PROVE NotOverflowedInv' /\ result' \cap live = {}
    BY <1>1, <2>1, <2>2, <2>4 DEF Inv, NotOverflowedInv, FreeListUnused,
       InPlayBelowNext, MaxBelowNext, PinsAreLive
  <2> QED
    BY <1>1, <2>2, <2>3, <2>4 DEF Inv, FreeListDistinct, Fresh
<1>2. CASE /\ hint # NoHint /\ IsAvailable(hint) /\ ~IsInFreeList(hint)
           /\ HandOut({hint})
           /\ nextReg' = (hint + 1) % NumRegs
           /\ UNCHANGED <<freeRegs, capturedRegs, wrapped>>
  <2>1. Block(hint, 1) = {hint}
    <3>1. Block(hint, 1) = hint..(hint + 1 - 1) /\ hint \in Int
      BY SizesAssumption, BlockIsInterval
    <3> QED
      BY <3>1
  <2>2. /\ nextReg <= hint /\ 1 \in Nat \ {0} /\ hint + 1 <= NumRegs
        /\ hint + 1 # NumRegs
    BY <1>2, SizesAssumption DEF IsAvailable, NoHint, Inv, TypeOK
  <2>3. /\ HandOut(Block(hint, 1))
        /\ nextReg' = (hint + 1) % NumRegs
        /\ wrapped' = (wrapped \/ hint + 1 = NumRegs)
        /\ UNCHANGED <<freeRegs, capturedRegs>>
    BY <1>2, <2>1, <2>2 DEF Inv, TypeOK
  <2> QED
    BY <2>2, <2>3, ExtendKeepsInv DEF Fresh
<1> QED
  BY <1>1, <1>2, AllocStep DEF AllocHinted, Reserve

LEMMA BlockStep ==
    ASSUME NEW n \in Nat, n >= 2, Inv, TakeRun(n) \/ TakeTail(n)
    PROVE  Inv' /\ Fresh
<1>1. CASE TakeRun(n)
  <2>1. FirstFreeBlock(n) \in SUBSET ToSet(freeRegs)
    BY <1>1, FoundBlockIsFree DEF TakeRun, Inv
  <2>2. /\ freeRegs' \in Seq(Register) /\ IsInjective(freeRegs')
        /\ ToSet(freeRegs') = ToSet(freeRegs) \ FirstFreeBlock(n)
    BY <1>1, WithoutFromList DEF TakeRun, Inv, TypeOK, FreeListDistinct
  <2> QED
    BY <1>1, <2>1, <2>2, ReuseKeepsInv DEF TakeRun, Fresh
<1>2. CASE TakeTail(n)
  <2>1. /\ nextReg \in Register /\ nextReg <= nextReg
        /\ n \in Nat \ {0} /\ nextReg + n <= NumRegs
    BY <1>2, SizesAssumption DEF TakeTail, Inv, TypeOK
  <2> QED
    BY <1>2, <2>1, ExtendKeepsInv DEF TakeTail, Fresh
<1> QED
  BY <1>1, <1>2

LEMMA ContiguousStep ==
    ASSUME NEW n \in 0..MaxBlock, Inv, AllocContiguous(n) \/ TryAllocContiguous(n)
    PROVE  Inv' /\ Fresh
<1>1. n \in Nat
  BY SizesAssumption
<1> QED
  BY <1>1, AllocStep, BlockStep, PanicStep, RefuseStep
     DEF AllocContiguous, TryAllocContiguous

LEMMA ReleaseStep ==
    ASSUME NEW r \in Register, NEW pins \in SUBSET pinnedRegs, Inv,
           r \in live \cup ToSet(freeRegs),
           ~wrapped => pins \subseteq pinnedRegs /\ (pinnedRegs \ pins) \subseteq {r}
                       /\ (capturedRegs \subseteq pins),
           Release(r, pins)
    PROVE  Inv' /\ Fresh
<1>0. IsInFreeList(r) <=> r \in ToSet(freeRegs)
  BY LenProperties DEF IsInFreeList, Contains, ToSet, Inv, TypeOK
<1>1. /\ freeRegs' \in Seq(Register) /\ IsInjective(freeRegs')
      /\ ToSet(freeRegs') = IF r \in pins THEN ToSet(freeRegs) ELSE ToSet(freeRegs) \cup {r}
  <2>1. CASE r \in pins \/ IsInFreeList(r)
    BY <2>1, <1>0 DEF Release, Inv, TypeOK, FreeListDistinct
  <2>2. CASE ~(r \in pins \/ IsInFreeList(r))
    <3>1. r \notin ToSet(freeRegs) /\ freeRegs' = Append(freeRegs, r)
      BY <2>2, <1>0 DEF Release
    <3>2. freeRegs \in Seq(Register) /\ IsInjective(freeRegs)
      BY DEF Inv, TypeOK, FreeListDistinct
    <3>3. /\ Append(freeRegs, r) \in Seq(Register)
          /\ IsInjective(Append(freeRegs, r))
          /\ ToSet(Append(freeRegs, r)) = ToSet(freeRegs) \cup {r}
      <4> HIDE DEF Register
      <4>1. r \in Register
        OBVIOUS
      <4> QED
        BY <3>1, <3>2, <4>1, AppendToList
    <3> QED
      BY <2>2, <3>1, <3>3
  <2> QED
    BY <2>1, <2>2
<1>2. TypeOK'
  BY <1>1 DEF Release, Inv, TypeOK
<1>3. ASSUME ~wrapped PROVE NotOverflowedInv'
  <2>1. FreeListUnused'
    BY <1>1, <1>3 DEF Release, Inv, NotOverflowedInv, FreeListUnused
  <2>2. InPlayBelowNext'
    BY <1>1, <1>3 DEF Release, Inv, NotOverflowedInv, InPlayBelowNext
  <2>3. MaxBelowNext'
    BY <1>3 DEF Release, Inv, NotOverflowedInv, MaxBelowNext
  <2>4. PinsAreLive'
    BY <1>3 DEF Release, Inv, NotOverflowedInv, PinsAreLive
  <2> QED
    BY <2>1, <2>2, <2>3, <2>4 DEF NotOverflowedInv
<1> QED
  BY <1>1, <1>2, <1>3 DEF Release, Inv, FreeListDistinct, Fresh

LEMMA FreeStep ==
    ASSUME NEW r \in Register, Inv, Free(r) \/ FreeScopeRegister(r)
    PROVE  Inv' /\ Fresh
<1>1. CASE Free(r)
  <2>1. ~wrapped => capturedRegs \subseteq pinnedRegs
    BY DEF Inv, NotOverflowedInv, PinsAreLive
  <2> QED
    BY <1>1, <2>1, ReleaseStep DEF Free
<1>2. CASE FreeScopeRegister(r) /\ r \notin capturedRegs
  <2>1. ~wrapped => capturedRegs \subseteq pinnedRegs \ {r}
    BY <1>2 DEF Inv, NotOverflowedInv, PinsAreLive
  <2> QED
    BY <1>2, <2>1, ReleaseStep DEF FreeScopeRegister
<1> QED
  BY <1>1, <1>2, RefuseStep DEF FreeScopeRegister

LEMMA PinStep ==
    ASSUME NEW r \in Register, Inv, Pin(r) \/ PinCapture(r)
    PROVE  Inv' /\ Fresh
<1>1. TypeOK' /\ FreeListDistinct' /\ Fresh
  BY DEF Pin, PinCapture, Inv, TypeOK, FreeListDistinct, Fresh
<1>2. ASSUME ~wrapped PROVE NotOverflowedInv'
  BY <1>2 DEF Pin, PinCapture, Inv, NotOverflowedInv, FreeListUnused,
     InPlayBelowNext, MaxBelowNext, PinsAreLive
<1> QED
  BY <1>1, <1>2 DEF Pin, PinCapture, Inv

LEMMA EmptyList == <<>> \in Seq(Register) /\ IsInjective(<<>>) /\ ToSet(<<>>) = {}
BY EmptySeq DEF IsInjective, ToSet

LEMMA ResetStep == Inv /\ Reset => Inv' /\ Fresh
<1> SUFFICES ASSUME Inv, Reset PROVE Inv' /\ Fresh
  OBVIOUS
<1>1. TypeOK' /\ FreeListDistinct'
  <2>1. 0 \in Register /\ panicked \in BOOLEAN
    BY SizesAssumption DEF Inv, TypeOK
  <2> HIDE DEF Register
  <2>2. TypeOK'
    BY <2>1, EmptyList DEF Reset, TypeOK
  <2>3. FreeListDistinct'
    BY EmptyList DEF Reset, FreeListDistinct
  <2> QED
    BY <2>2, <2>3
<1>2. NotOverflowedInv' /\ Fresh
  BY EmptyList DEF Reset, NotOverflowedInv, FreeListUnused, InPlayBelowNext,
     MaxBelowNext, PinsAreLive, Fresh
<1> QED
  BY <1>1, <1>2 DEF Inv

LEMMA InitInv == Init => Inv
<1> SUFFICES ASSUME Init PROVE Inv
  OBVIOUS
<1>1. TypeOK /\ FreeListDistinct
  <2>1. 0 \in Register
    BY SizesAssumption
  <2> HIDE DEF Register
  <2>2. TypeOK
    BY <2>1, EmptyList DEF Init, TypeOK
  <2>3. FreeListDistinct
    BY EmptyList DEF Init, FreeListDistinct
  <2> QED
    BY <2>2, <2>3
<1>2. NotOverflowedInv
  BY EmptyList DEF Init, NotOverflowedInv, FreeListUnused, InPlayBelowNext,
     MaxBelowNext, PinsAreLive
<1> QED
  BY <1>1, <1>2 DEF Inv

LEMMA NextInv == Inv /\ Next => Inv' /\ Fresh
<1> SUFFICES ASSUME Inv, Next PROVE Inv' /\ Fresh
  OBVIOUS
<1>1. CASE Alloc
  BY <1>1, AllocStep
<1>2. CASE TryAllocForVariable
  BY <1>2, VariableStep
<1>3. CASE Reset
  BY <1>3, ResetStep
<1>4. CASE \E n \in 0..MaxBlock : AllocContiguous(n) \/ TryAllocContiguous(n)
  BY <1>4, ContiguousStep
<1>5. CASE \E r \in Register : AllocHinted(r)
  BY <1>5, HintedStep
<1>6. CASE \E r \in Register : Free(r) \/ FreeScopeRegister(r)
  BY <1>6, FreeStep
<1>7. CASE \E r \in Register : Pin(r) \/ PinCapture(r)
  BY <1>7, PinStep
<1> QED
  BY <1>1, <1>2, <1>3, <1>4, <1>5, <1>6, <1>7 DEF Next

LEMMA StutterInv == Inv /\ UNCHANGED vars => Inv'
BY DEF Inv, TypeOK, FreeListDistinct, NotOverflowedInv, FreeListUnused,
   InPlayBelowNext, MaxBelowNext, PinsAreLive, vars, code

-----------------------------------------------------------------------------
(* The inductive invariant holds in every reachable state: types, a free   *)
(* list without duplicates, and until the register counter overflows a     *)
(* free list disjoint from the registers in use (regalloc.go:58-471).      *)
THEOREM InvHolds == Spec => []Inv
<1>1. Init => Inv
  BY InitInv
<1>2. Inv /\ [Next]_vars => Inv'
  BY NextInv, StutterInv
<1> QED
  BY <1>1, <1>2, PTL DEF Spec

(* No allocation returns a register that is still in use, on any register  *)
(* width, as long as the register counter has not overflowed.              *)
THEOREM NeverHandedOutTwice == Spec => HandOutIsFresh
<1>1. Inv /\ [Next]_vars => [~wrapped => result' \cap live = {}]_vars
  BY NextInv DEF Fresh
<1> QED
  BY <1>1, InvHolds, PTL DEF Spec, HandOutIsFresh

(* A captured register is in use and not in the free list, whatever was    *)
(* freed, unpinned or reclaimed since the capture.                         *)
THEOREM CapturesReserved == Spec => []CapturedStaysReserved
<1>1. Inv => CapturedStaysReserved
  BY DEF Inv, CapturedStaysReserved, NotOverflowedInv, PinsAreLive, FreeListUnused
<1> QED
  BY <1>1, InvHolds, PTL

(* The frame the VM allocates covers every register in use.                *)
THEOREM FrameIsLargeEnough == Spec => []FrameCoversLive
<1>1. ASSUME Inv, ~wrapped, NEW r \in live PROVE r < MaxRegs
  <2>1. r < nextReg /\ r <= maxReg /\ r \in Register /\ maxReg \in Register /\ nextReg \in Register
    BY <1>1 DEF Inv, TypeOK, NotOverflowedInv, InPlayBelowNext
  <2>2. maxReg < nextReg
    BY <1>1, <2>1 DEF Inv, NotOverflowedInv, MaxBelowNext
  <2>3. maxReg + 1 \in 0..(NumRegs - 1) /\ nextReg # 0
    BY <2>1, <2>2, SizesAssumption
  <2>4. MaxRegs = maxReg + 1
    BY <2>3, ModBelow DEF MaxRegs
  <2> QED
    BY <2>1, <2>4
<1>2. Inv => FrameCoversLive
  BY <1>1 DEF FrameCoversLive
<1> QED
  BY <1>2, InvHolds, PTL
-----------------------------------------------------------------------------
(* The two searches for a block.                                           *)

(* What the scan of MaxContiguousAvailable has counted at a position: the  *)
(* longest stretch of neighbours that ends there.                          *)
LEMMA ScanFacts ==
    ASSUME TypeOK, NEW i \in 1..Len(freeRegs)
    PROVE  /\ RunLen[i] \in 1..i
           /\ \A k \in ((i - RunLen[i]) + 2)..i :
                 k > 1 /\ SortedFree[k] = (SortedFree[k - 1] + 1) % NumRegs
           /\ \A n \in 1..i :
                 (\A k \in ((i - n) + 2)..i : SortedFree[k] = (SortedFree[k - 1] + 1) % NumRegs)
                 => n <= RunLen[i]
<1> DEFINE L == Len(freeRegs)
           B == {k \in 1..L : k > 1 /\ SortedFree[k] = (SortedFree[k - 1] + 1) % NumRegs}
<1>1. L \in Nat /\ DOMAIN freeRegs = 1..L
  BY SortedFreeFacts
<1>2. RunLen = CHOOSE h : h = [k \in 1..L |-> IF k \in B THEN h[k - 1] + 1 ELSE 1]
  <2>1. \A h : [k \in DOMAIN freeRegs |->
                   IF k > 1 /\ SortedFree[k] = (SortedFree[k - 1] + 1) % NumRegs
                   THEN h[k - 1] + 1 ELSE 1]
               = [k \in 1..L |-> IF k \in B THEN h[k - 1] + 1 ELSE 1]
    BY <1>1
  <2> QED
    BY <2>1 DEF RunLen
<1>3. B \in SUBSET (2..L)
  BY <1>1
<1>4. /\ RunLen[i] \in 1..i
      /\ ((i - RunLen[i]) + 2)..i \subseteq B
      /\ \A n \in 1..i : ((i - n) + 2)..i \subseteq B => n <= RunLen[i]
  <2> HIDE DEF B
  <2> QED
    BY <1>1, <1>2, <1>3, ScanCountsRuns
<1>5. ASSUME NEW n \in 1..i,
             \A k \in ((i - n) + 2)..i : SortedFree[k] = (SortedFree[k - 1] + 1) % NumRegs
      PROVE  ((i - n) + 2)..i \subseteq B
  BY <1>1, <1>5
<1> QED
  BY <1>4, <1>5

(* Comparing each register with the first of the block and comparing it    *)
(* with its neighbour find the same blocks: one of n begins somewhere      *)
(* exactly if the scan counts n or more somewhere.                         *)
LEMMA BlocksAreRuns ==
    ASSUME TypeOK, NEW n \in 1..NumRegs
    PROVE  FreeBlocks(n) # {} <=> \E i \in 1..Len(freeRegs) : n <= RunLen[i]
<1> DEFINE L == Len(freeRegs)
           s == SortedFree
<1>1. /\ L \in Nat /\ n \in Nat /\ NumRegs \in Nat /\ n <= NumRegs /\ n >= 1
      /\ \A k \in 1..L : s[k] \in 0..(NumRegs - 1)
  BY SortedFreeFacts, SizesAssumption
<1>2. ASSUME NEW i \in FreeBlocks(n)
      PROVE  i + n - 1 \in 1..L /\ n <= RunLen[i + n - 1]
  <2>1. /\ i \in 1..(L - n + 1)
        /\ \A j \in 1..(n - 1) : s[i + j] = (s[i] + j) % NumRegs
    BY DEF FreeBlocks
  <2>2. i \in 1..L /\ i + n - 1 \in 1..L /\ n \in 1..(i + n - 1)
        /\ ((i + n - 1) - n) + 2 = i + 1
    BY <1>1, <2>1
  <2>3. s[i] \in 0..(NumRegs - 1)
    BY <1>1, <2>2
  <2> HIDE DEF s
  <2>4. ASSUME NEW k \in (i + 1)..(i + n - 1)
        PROVE  s[k] = (s[k - 1] + 1) % NumRegs
    <3> DEFINE a == s[i] + (k - 1 - i)
    <3>1. k - i \in 1..(n - 1) /\ a \in 0..(2 * NumRegs - 2) /\ a + 1 = s[i] + (k - i)
          /\ i + (k - i) = k
      BY <1>1, <2>2, <2>3
    <3>2. s[k] = (a + 1) % NumRegs
      BY <2>1, <3>1
    <3>3. s[k - 1] = a % NumRegs
      <4>1. CASE k = i + 1
        <5>1. k - 1 = i /\ a = s[i]
          BY <2>2, <2>3, <4>1
        <5> HIDE DEF a
        <5> QED
          BY <2>3, <5>1, ModBelow
      <4>2. CASE k # i + 1
        <5>1. k - 1 - i \in 1..(n - 1) /\ i + (k - 1 - i) = k - 1
          BY <1>1, <2>2, <4>2
        <5> QED
          BY <2>1, <5>1
      <4> QED
        BY <4>1, <4>2
    <3> HIDE DEF a
    <3> QED
      BY <3>1, <3>2, <3>3, ModStep
  <2> QED
    BY <2>2, <2>4, ScanFacts DEF s
<1>3. ASSUME NEW e \in 1..L, n <= RunLen[e]
      PROVE  (e - n) + 1 \in FreeBlocks(n)
  <2> DEFINE i == (e - n) + 1
             W == {j \in 0..(n - 1) : s[i + j] # (s[i] + j) % NumRegs}
  <2>1. /\ RunLen[e] \in 1..e
        /\ \A k \in ((e - RunLen[e]) + 2)..e : s[k] = (s[k - 1] + 1) % NumRegs
    BY <1>3, ScanFacts
  <2> HIDE DEF s
  <2>2. i \in 1..L /\ i \in 1..(L - n + 1) /\ e = i + n - 1
        /\ \A k \in (i + 1)..e : k \in ((e - RunLen[e]) + 2)..e
    BY <1>1, <1>3, <2>1
  <2> HIDE DEF i
  <2>3. s[i] \in 0..(NumRegs - 1)
    BY <1>1, <2>2
  <2>4. W = {}
    <3> SUFFICES ASSUME W # {} PROVE FALSE
      OBVIOUS
    <3>1. PICK j \in W : \A x \in W : j <= x
      <4>1. W \in SUBSET Nat
        BY <1>1
      <4> HIDE DEF W
      <4> QED
        BY <4>1, NatHasMin
    <3>2. j # 0
      <4>1. i + 0 = i /\ s[i] + 0 = s[i]
        BY <2>2, <2>3
      <4> QED
        BY <3>1, <4>1, <2>3, ModBelow
    <3>3. j \in 1..(n - 1) /\ j - 1 \in 0..(n - 1)
      BY <1>1, <3>1, <3>2
    <3>4. j - 1 \notin W
      BY <3>1, <3>3
    <3> DEFINE a == s[i] + (j - 1)
    <3>5. s[i + (j - 1)] = a % NumRegs
      BY <3>3, <3>4
    <3>6. i + j \in (i + 1)..e /\ (i + j) - 1 = i + (j - 1)
      BY <1>1, <2>2, <3>3
    <3>9. a \in 0..(2 * NumRegs - 2) /\ a + 1 = s[i] + j
      <4>1. \A x \in 0..(NumRegs - 1), m \in 0..(n - 1) :
               x + m \in 0..(2 * NumRegs - 2)
        BY <1>1
      <4>2. \A x, m \in Int : (x + (m - 1)) + 1 = x + m
        OBVIOUS
      <4>3. s[i] \in Int /\ j \in Int
        BY <1>1, <2>3, <3>3
      <4> QED
        BY <2>3, <3>3, <4>1, <4>2, <4>3
    <3>7. s[i + j] = (s[i + (j - 1)] + 1) % NumRegs
      BY <2>1, <2>2, <3>6
    <3> HIDE DEF a
    <3>8. s[i + j] = (s[i] + j) % NumRegs
      BY <3>5, <3>6, <3>7, <3>9, ModStep
    <3> QED
      BY <3>1, <3>8
  <2>5. \A j \in 1..(n - 1) : s[i + j] = (s[i] + j) % NumRegs
    BY <1>1, <2>4
  <2> QED
    BY <2>2, <2>5 DEF FreeBlocks, i, s
<1> QED
  BY <1>2, <1>3

(* A block is refused exactly when MaxContiguousAvailable is below it,     *)
(* overflow of the counter or not.                                         *)
LEMMA SearchesAgree == TypeOK => AvailabilityIsExact
<1> SUFFICES ASSUME TypeOK, NEW n \in 2..NumRegs
             PROVE  NoBlock(n) <=> n > MaxContiguousAvailable
  BY DEF AvailabilityIsExact
<1> DEFINE runs == {RunLen[i] : i \in DOMAIN freeRegs}
           S == {NumRegs - nextReg} \cup runs
<1>0. /\ nextReg \in Nat /\ nextReg < NumRegs /\ NumRegs \in Nat
      /\ Len(freeRegs) \in Nat /\ DOMAIN freeRegs = 1..Len(freeRegs)
      /\ n \in Nat /\ n \in 1..NumRegs
  BY SizesAssumption, SortedFreeFacts DEF TypeOK
<1>1. \A i \in 1..Len(freeRegs) : RunLen[i] \in Nat /\ RunLen[i] <= Len(freeRegs)
  <2> TAKE i \in 1..Len(freeRegs)
  <2>1. RunLen[i] \in 1..i
    BY ScanFacts
  <2> QED
    BY <1>0, <2>1
<1>2. /\ S \in SUBSET Nat /\ S # {}
      /\ NumRegs + Len(freeRegs) \in Nat
      /\ \A x \in S : x <= NumRegs + Len(freeRegs)
  BY <1>0, <1>1
<1> DEFINE best == Max(S)
<1>3. best \in S /\ best \in Nat /\ \A x \in S : x <= best
  <2>1. Max(S) \in S /\ \A x \in S : x <= Max(S)
    <3> HIDE DEF S
    <3> QED
      BY <1>2, MaxOfBounded
  <2> QED
    BY <1>2, <2>1
<1>4. best = MaxContiguousAvailable
  BY DEF MaxContiguousAvailable
<1>5. FreeBlocks(n) # {} <=> \E i \in 1..Len(freeRegs) : n <= RunLen[i]
  BY <1>0, BlocksAreRuns
<1> HIDE DEF best
<1>6. ASSUME NoBlock(n) PROVE n > best
  <2>1. CASE best = NumRegs - nextReg
    BY <1>0, <1>6, <2>1 DEF NoBlock
  <2>2. CASE best \in runs
    BY <1>0, <1>1, <1>5, <1>6, <2>2 DEF NoBlock
  <2> QED
    BY <1>3, <2>1, <2>2
<1>7. ASSUME n > best PROVE NoBlock(n)
  <2>1. nextReg + n > NumRegs
    <3>1. NumRegs - nextReg \in S
      OBVIOUS
    <3>2. NumRegs - nextReg <= best
      BY <1>3, <3>1
    <3> HIDE DEF S, runs
    <3> QED
      BY <1>0, <1>3, <1>7, <3>2
  <2>2. ASSUME NEW i \in 1..Len(freeRegs), n <= RunLen[i] PROVE FALSE
    BY <1>0, <1>1, <1>3, <1>7, <2>2
  <2> QED
    BY <1>5, <2>1, <2>2 DEF NoBlock
<1> QED
  BY <1>4, <1>6, <1>7

(* MaxContiguousAvailable, which the compiler asks before it plans a call, *)
(* never promises a block that TryAllocContiguous then refuses, nor misses *)
(* one that it would find.                                                 *)
THEOREM AvailabilityHolds == Spec => []AvailabilityIsExact
<1>1. Inv => AvailabilityIsExact
  BY SearchesAgree DEF Inv
<1> QED
  BY <1>1, InvHolds, PTL

-----------------------------------------------------------------------------
(* Frames and loops.                                                       *)

(* The programs for which the machine is shown right: a native function    *)
(* passes on the exception of its callback, and none of the patterns.      *)
Plain == Patterns = {} /\ Natives \subseteq {"propagates"}

Bodied == Generators \cup {Null}
Thrown == Values \cup {ErrText}

Frame == [kind : {"code", "sentinel"}, direct : BOOLEAN, gen : Bodied, base : Nat,
          alloc : Nat, size : Nat, covered : BOOLEAN]

Awaited == [native : Natives \cup {"none", "generator"},
            entry : {"none", "call", "next", "throw"}, gen : Bodied, count : Nat]

Activation == [at : Nat \ {0}, call : Awaited]

Exceptions == [unwinding : BOOLEAN, crossed : BOOLEAN, current : Thrown \cup {Null}]

Replies == {NoReply, Ok} \cup {Err(v) : v \in Thrown}

Suspensions == [state : {"start", "yield", "executing", "completed"}, covered : BOOLEAN]

(* The first frame above those of the loops 1..w and their sentinels.      *)
Base(ls, w) == IF w = 0 THEN 1 ELSE ls[w].at + 2

FrameOK(f) ==
  /\ f.kind = "sentinel" => ~f.covered
  /\ f.kind = "code" => f.size <= f.alloc
  /\ f.gen # Null => f.alloc = GeneratorSize

(* What frame i is follows from where the loops 1..w wait: on each of them *)
(* lies a sentinel, and on that the frame that is run above it, which may  *)
(* be a boundary or a generator's.                                         *)
Fits(f, i, ls, w) ==
  /\ FrameOK(f)
  /\ f.kind = "sentinel" <=> \E k \in 1..w : i = ls[k].at + 1
  /\ f.direct \/ f.gen # Null => \E k \in 1..w : i = ls[k].at + 2
  /\ \A k \in 1..w : i = ls[k].at + 2 =>
        /\ f.gen = ls[k].call.gen
        /\ ls[k].call.entry = "next" => f.direct
        /\ ls[k].call.entry = "throw" => ~f.direct

(* A loop that waits for one above it; if it is itself above another, one  *)
(* of its own frames handles what comes out of that.                       *)
Waits(fs, ls, k) ==
  /\ ls[k].call.native # "none"
  /\ ls[k].call.entry # "none"
  /\ ls[k].call.gen # Null <=> ls[k].call.entry \in {"next", "throw"}
  /\ k > 1 => \E i \in ls[k - 1].at + 2 .. ls[k].at : fs[i].covered

Lower(fs, ls, w) ==
  /\ w \in 0..Len(ls)
  /\ w > 0 => ls[w].at <= Len(fs)
  /\ \A k, l \in 1..w : k < l => ls[k].at + 2 <= ls[l].at
  /\ \A i \in DOMAIN fs : Fits(fs[i], i, ls, w)
  /\ \A k \in 1..w : Waits(fs, ls, k)

(* A frame at i above the loops 1..w.                                      *)
Above(f, i, ls, w) ==
  /\ FrameOK(f)
  /\ f.kind = "code"
  /\ IF w > 0 /\ i = ls[w].at + 2
     THEN /\ f.gen = ls[w].call.gen
          /\ ls[w].call.entry = "next" => f.direct
          /\ ls[w].call.entry = "throw" => ~f.direct
     ELSE ~f.direct /\ f.gen = Null

LEMMA FrameFields ==
  ASSUME NEW f \in Frame
  PROVE  /\ f.kind = "code" \/ f.kind = "sentinel"
         /\ f.direct \in BOOLEAN /\ f.covered \in BOOLEAN /\ f.gen \in Bodied
         /\ f.base \in Nat /\ f.alloc \in Nat /\ f.size \in Nat
BY DEF Frame

LEMMA ActivationFields ==
  ASSUME NEW l \in Activation
  PROVE  /\ l.at \in Nat /\ l.at > 0
         /\ l.call \in Awaited /\ l.call.gen \in Bodied
         /\ l.call.native \in Natives \cup {"none", "generator"}
         /\ l.call.entry \in {"none", "call", "next", "throw"}
BY DEF Activation, Awaited

Ordered(ls, w) ==
  /\ w <= Len(ls)
  /\ Base(ls, w) \in Nat
  /\ Base(ls, w) > 0
  /\ w > 0 => Base(ls, w) = ls[w].at + 2 /\ ls[w].at \in Nat
  /\ \A k \in 1..w : /\ ls[k].at \in Nat
                     /\ ls[k].at > 0
                     /\ w > 0
                     /\ ls[k].at <= ls[w].at
  /\ \A k \in 1..w : k < w => ls[k].at + 2 <= ls[w].at
  /\ \A k \in 1..w : k \in DOMAIN ls

LEMMA InOrder ==
  ASSUME NEW fs, NEW ls \in Seq(Activation), NEW w \in Nat, Lower(fs, ls, w)
  PROVE  Ordered(ls, w)
<1>1. w \in 0..Len(ls) /\ \A k \in 1..w : k \in DOMAIN ls
  BY DEF Lower
<1>2. ASSUME NEW k \in 1..w PROVE ls[k] \in Activation /\ ls[k].at \in Nat \ {0}
  BY <1>1, ActivationFields
<1>3. ASSUME NEW k \in 1..w, k < w PROVE ls[k].at + 2 <= ls[w].at
  <2>1. w \in 1..w
    BY <1>3
  <2> QED
    BY <1>3, <2>1 DEF Lower
<1> QED
  BY <1>1, <1>2, <1>3 DEF Base, Ordered

LEMMA AboveIs ==
  ASSUME NEW fs \in Seq(Frame), NEW ls \in Seq(Activation), NEW w \in Nat,
         Lower(fs, ls, w)
  PROVE  /\ \A i \in DOMAIN fs : i >= Base(ls, w) => Above(fs[i], i, ls, w)
         /\ w > 0 /\ ls[w].at + 1 \in DOMAIN fs => fs[ls[w].at + 1].kind = "sentinel"
<1>1. Ordered(ls, w)
  BY InOrder
<1>2. ASSUME NEW i \in DOMAIN fs, i >= Base(ls, w) PROVE Above(fs[i], i, ls, w)
  <2>1. fs[i] \in Frame /\ Fits(fs[i], i, ls, w)
    BY DEF Lower
  <2>4. fs[i].kind = "code" \/ fs[i].kind = "sentinel"
    BY <2>1, FrameFields
  <2>2. \A k \in 1..w : i # ls[k].at + 1
    BY <1>1, <1>2 DEF Ordered
  <2>3. \A k \in 1..w : i = ls[k].at + 2 => k = w
    BY <1>1, <1>2 DEF Ordered
  <2> QED
    BY <2>1, <2>2, <2>3, <2>4 DEF Fits, Above
<1> QED
  BY <1>1, <1>2 DEF Lower, Fits

LEMMA FitsAlike ==
  ASSUME NEW f, NEW i, NEW ls, NEW ls2, NEW w \in Nat,
         \A k \in 1..w : ls2[k] = ls[k], Fits(f, i, ls, w)
  PROVE  Fits(f, i, ls2, w)
BY DEF Fits

LEMMA AboveFits ==
  ASSUME NEW f, NEW i \in Nat, NEW ls, NEW w \in Nat, Ordered(ls, w),
         i >= Base(ls, w), Above(f, i, ls, w)
  PROVE  Fits(f, i, ls, w)
<1>1. \A k \in 1..w : i # ls[k].at + 1
  BY DEF Ordered
<1>2. \A k \in 1..w : i = ls[k].at + 2 => k = w
  BY DEF Ordered
<1>3. CASE w > 0 /\ i = ls[w].at + 2
  BY <1>1, <1>2, <1>3 DEF Fits, Above
<1>4. CASE ~(w > 0 /\ i = ls[w].at + 2)
  <2>1. \A k \in 1..w : i # ls[k].at + 2
    BY <1>2, <1>4
  <2> QED
    BY <1>1, <1>4, <2>1 DEF Fits, Above
<1> QED
  BY <1>3, <1>4

(* Frames above the loops may change as long as they are such frames.      *)
LEMMA LowerStays ==
  ASSUME NEW fs \in Seq(Frame), NEW ls \in Seq(Activation), NEW w \in Nat,
         Lower(fs, ls, w),
         NEW fs2 \in Seq(Frame), NEW ls2 \in Seq(Activation),
         w <= Len(ls2), \A k \in 1..w : ls2[k] = ls[k],
         w > 0 => ls[w].at <= Len(fs2),
         \A i \in DOMAIN fs2 : i < Base(ls, w) => i \in DOMAIN fs /\ fs2[i] = fs[i],
         \A i \in DOMAIN fs2 : i >= Base(ls, w) => Above(fs2[i], i, ls, w)
  PROVE  Lower(fs2, ls2, w)
<1>1. Ordered(ls, w)
  BY InOrder
<1>2. ASSUME NEW i \in DOMAIN fs2 PROVE Fits(fs2[i], i, ls2, w)
  <2>1. CASE i < Base(ls, w)
    BY <2>1, FitsAlike DEF Lower
  <2>2. CASE i >= Base(ls, w)
    BY <1>1, <2>2, AboveFits, FitsAlike
  <2> QED
    BY <2>1, <2>2, <1>1 DEF Ordered
<1>3. ASSUME NEW k \in 1..w PROVE Waits(fs2, ls2, k)
  <2>1. Waits(fs, ls, k) /\ (k > 1 => k - 1 \in 1..w)
    BY DEF Lower
  <2>2. ASSUME k > 1 PROVE \E i \in ls[k - 1].at + 2 .. ls[k].at : fs2[i].covered
    <3>1. PICK i \in ls[k - 1].at + 2 .. ls[k].at : fs[i].covered
      BY <2>1, <2>2 DEF Waits
    <3>2. i \in Nat /\ i > 0 /\ i <= ls[k].at
      BY <1>1, <2>1, <2>2 DEF Ordered
    <3>3. i < Base(ls, w) /\ i <= ls[w].at
      BY <1>1, <3>2 DEF Ordered
    <3>4. i \in DOMAIN fs2
      BY <1>1, <3>2, <3>3 DEF Ordered
    <3> QED
      BY <3>1, <3>3, <3>4
  <2> QED
    BY <2>1, <2>2 DEF Waits
<1> QED
  BY <1>2, <1>3 DEF Lower

(* The innermost of the loops that wait goes on: what is above its frame   *)
(* is gone.                                                                *)
LEMMA LowerDrops ==
  ASSUME NEW fs \in Seq(Frame), NEW ls \in Seq(Activation), NEW w \in Nat, w > 0,
         Lower(fs, ls, w)
  PROVE  /\ Lower(SubSeq(fs, 1, ls[w].at), ls, w - 1)
         /\ Base(ls, w - 1) <= ls[w].at
<1> DEFINE n   == ls[w].at
           fs2 == SubSeq(fs, 1, n)
<1>1. Ordered(ls, w)
  BY InOrder
<1>2. n \in Nat /\ n > 0 /\ n <= Len(fs)
  BY <1>1 DEF Ordered, Lower
<1>3. fs2 \in Seq(Frame) /\ Len(fs2) = n /\ \A i \in 1..n : fs2[i] = fs[i]
  BY <1>2
<1>4. w > 1 => ls[w - 1].at \in Nat /\ ls[w - 1].at > 0 /\ ls[w - 1].at + 2 <= n
  <2>1. w > 1 => w - 1 \in 1..w /\ w - 1 < w
    OBVIOUS
  <2> QED
    BY <1>1, <2>1 DEF Ordered
<1>5. ASSUME NEW i \in DOMAIN fs2 PROVE Fits(fs2[i], i, ls, w - 1)
  <2>1. i \in 1..n /\ i \in DOMAIN fs /\ fs2[i] = fs[i]
    BY <1>2, <1>3
  <2>2. Fits(fs[i], i, ls, w)
    BY <2>1 DEF Lower
  <2>3. i # ls[w].at + 1 /\ i # ls[w].at + 2
    BY <2>1, <1>2
  <2>4. \A k \in 1..w : k = w \/ k \in 1..w - 1
    OBVIOUS
  <2>5. 1..w - 1 \subseteq 1..w
    OBVIOUS
  <2>6. (\E k \in 1..w : i = ls[k].at + 1) <=> (\E k \in 1..w - 1 : i = ls[k].at + 1)
    BY <2>3, <2>4, <2>5
  <2>7. (\E k \in 1..w : i = ls[k].at + 2) <=> (\E k \in 1..w - 1 : i = ls[k].at + 2)
    BY <2>3, <2>4, <2>5
  <2>8. Fits(fs[i], i, ls, w - 1)
    BY <2>2, <2>5, <2>6, <2>7 DEF Fits
  <2> QED
    BY <2>1, <2>8
<1>6. ASSUME NEW k \in 1..w - 1 PROVE Waits(fs2, ls, k)
  <2>1. k \in 1..w /\ Waits(fs, ls, k)
    BY DEF Lower
  <2>2. ls[k].at \in Nat /\ ls[k].at <= n
    BY <1>1, <2>1 DEF Ordered
  <2>3. ASSUME k > 1 PROVE \E i \in ls[k - 1].at + 2 .. ls[k].at : fs2[i].covered
    <3>1. k - 1 \in 1..w
      BY <2>3
    <3>2. ls[k - 1].at \in Nat
      BY <1>1, <3>1 DEF Ordered
    <3>3. PICK i \in ls[k - 1].at + 2 .. ls[k].at : fs[i].covered
      BY <2>1, <2>3 DEF Waits
    <3>4. i \in 1..n
      BY <1>2, <2>2, <3>2, SMTT(20)
    <3> QED
      BY <1>3, <3>3, <3>4
  <2> QED
    BY <2>1, <2>3 DEF Waits
<1>7. w - 1 > 0 => ls[w - 1].at <= Len(fs2)
  BY <1>2, <1>3, <1>4
<1>8. \A k, l \in 1..w - 1 : k < l => ls[k].at + 2 <= ls[l].at
  <2>1. 1..w - 1 \subseteq 1..w
    OBVIOUS
  <2> QED
    BY <2>1 DEF Lower
<1>9. w - 1 \in 0..Len(ls)
  BY DEF Lower
<1> QED
  BY <1>2, <1>4, <1>5, <1>6, <1>7, <1>8, <1>9 DEF Lower, Base

(* The loop w + 1 waits in the top frame of fs for one that runs f.        *)
LEMMA LowerPushed ==
  ASSUME NEW fs \in Seq(Frame), NEW ls \in Seq(Activation), NEW w \in Nat,
         Lower(fs, ls, w), Base(ls, w) <= Len(fs),
         NEW ls2 \in Seq(Activation), w + 1 <= Len(ls2),
         \A k \in 1..w : ls2[k] = ls[k], ls2[w + 1].at = Len(fs),
         Waits(fs, ls2, w + 1),
         NEW s \in Frame, s.kind = "sentinel", ~s.covered, ~s.direct, s.gen = Null,
         NEW f \in Frame, Above(f, Len(fs) + 2, ls2, w + 1),
         NEW fs2 \in Seq(Frame), Len(fs2) = Len(fs) + 2,
         \A i \in 1..Len(fs) : fs2[i] = fs[i],
         fs2[Len(fs) + 1] = s, fs2[Len(fs) + 2] = f
  PROVE  Lower(fs2, ls2, w + 1)
<1> DEFINE n == Len(fs)
<1>1. Ordered(ls, w)
  BY InOrder
<1>2. n \in Nat /\ n > 0
  BY <1>1 DEF Ordered
<1>3. \A k \in 1..w : ls2[k].at \in Nat /\ ls2[k].at + 2 <= n /\ ls2[k].at + 1 <= n
  BY <1>1, <1>2 DEF Ordered
<1>4. \A k \in 1..w + 1 : k = w + 1 \/ k \in 1..w
  OBVIOUS
<1>5. ASSUME NEW i \in 1..n PROVE Fits(fs2[i], i, ls2, w + 1)
  <2>1. Fits(fs2[i], i, ls2, w)
    BY FitsAlike DEF Lower
  <2>2. i # ls2[w + 1].at + 1 /\ i # ls2[w + 1].at + 2
    BY <1>2
  <2>3. w + 1 \in 1..w + 1 /\ 1..w \subseteq 1..w + 1
    OBVIOUS
  <2> QED
    BY <2>1, <2>2, <1>4 DEF Fits
<1>6. Fits(s, n + 1, ls2, w + 1)
  <2>1. \A k \in 1..w + 1 : n + 1 # ls2[k].at + 2
    BY <1>2, <1>3, <1>4
  <2>2. w + 1 \in 1..w + 1 /\ n + 1 = ls2[w + 1].at + 1
    OBVIOUS
  <2> QED
    BY <2>1, <2>2 DEF Fits, FrameOK
<1>7. Fits(f, n + 2, ls2, w + 1)
  <2>1. \A k \in 1..w + 1 : n + 2 # ls2[k].at + 1
    BY <1>2, <1>3, <1>4
  <2>2. \A k \in 1..w + 1 : n + 2 = ls2[k].at + 2 => k = w + 1
    BY <1>2, <1>3, <1>4
  <2>3. w + 1 \in 1..w + 1 /\ n + 2 = ls2[w + 1].at + 2 /\ w + 1 > 0
    OBVIOUS
  <2> QED
    BY <2>1, <2>2, <2>3 DEF Fits, Above
<1>8. ASSUME NEW i \in DOMAIN fs2 PROVE Fits(fs2[i], i, ls2, w + 1)
  <2>1. i \in 1..n \/ i = n + 1 \/ i = n + 2
    BY <1>2
  <2> QED
    BY <2>1, <1>5, <1>6, <1>7
<1>9. ASSUME NEW k \in 1..w + 1 PROVE Waits(fs2, ls2, k)
  <2>1. Waits(fs, ls2, k)
    <3>1. CASE k \in 1..w
      <4>1. Waits(fs, ls, k) /\ (k > 1 => k - 1 \in 1..w)
        BY <3>1 DEF Lower
      <4> QED
        BY <3>1, <4>1 DEF Waits
    <3> QED
      BY <3>1, <1>4
  <2>2. ls2[k].at <= n /\ ls2[k].at \in Nat /\ (k > 1 => ls2[k - 1].at \in Nat)
    <3>1. k > 1 => k - 1 \in 1..w
      OBVIOUS
    <3> QED
      BY <1>2, <1>3, <1>4, <3>1
  <2>3. ASSUME k > 1 PROVE \E i \in ls2[k - 1].at + 2 .. ls2[k].at : fs2[i].covered
    <3>1. PICK i \in ls2[k - 1].at + 2 .. ls2[k].at : fs[i].covered
      BY <2>1, <2>3 DEF Waits
    <3>2. i \in 1..n
      BY <1>2, <2>2, <2>3
    <3> QED
      BY <3>1, <3>2
  <2> QED
    BY <2>1, <2>3 DEF Waits
<1>10. ASSUME NEW k \in 1..w + 1, NEW l \in 1..w + 1, k < l PROVE ls2[k].at + 2 <= ls2[l].at
  <2>1. CASE l \in 1..w
    <3>1. k \in 1..w
      BY <1>10, <2>1
    <3> QED
      BY <1>10, <2>1, <3>1 DEF Lower
  <2>2. CASE l = w + 1
    <3>1. k \in 1..w
      BY <1>10, <2>2
    <3> QED
      BY <3>1, <2>2, <1>3
  <2> QED
    BY <2>1, <2>2, <1>4
<1>11. w + 1 \in 0..Len(ls2) /\ ls2[w + 1].at <= Len(fs2)
  BY <1>2
<1> QED
  BY <1>8, <1>9, <1>10, <1>11 DEF Lower

-----------------------------------------------------------------------------
(* Exceptions.                                                             *)

LEMMA InnermostIs ==
  ASSUME NEW n \in Nat, NEW S \in SUBSET (1..n)
  PROVE  /\ Innermost(S) \in 0..n
         /\ Innermost(S) > 0 => Innermost(S) \in S
         /\ \A j \in S : j <= Innermost(S)
<1>1. CASE S = {}
  BY <1>1 DEF Innermost
<1>2. CASE S # {}
  <2>1. S \in SUBSET Nat /\ \A x \in S : x <= n
    OBVIOUS
  <2>2. \E m \in S : \A j \in S : j <= m
    BY <1>2, <2>1, NatHasMax
  <2>3. Innermost(S) \in S /\ \A j \in S : j <= Innermost(S)
    BY <1>2, <2>2 DEF Innermost
  <2>4. Innermost(S) \in S
    BY <2>3
  <2>5. Innermost(S) \in 1..n
    BY <2>4
  <2> QED
    BY <2>3, <2>5
<1> QED
  BY <1>1, <1>2

Catches(fs, h) ==
  /\ h \in 0..Len(fs)
  /\ h > 0 => fs[h].covered
  /\ \A j \in DOMAIN fs : fs[j].covered => j <= h

LEMMA HandlerCatches ==
  ASSUME NEW fs \in Seq(Frame)
  PROVE  /\ Catches(fs, Handler(fs))
         /\ \A h : Catches(fs, h) => h = Handler(fs)
<1> DEFINE S == {i \in DOMAIN fs : fs[i].covered}
<1>1. Len(fs) \in Nat /\ S \in SUBSET (1..Len(fs)) /\ Handler(fs) = Innermost(S)
  BY DEF Handler
<1>2. Catches(fs, Handler(fs))
  <2>1. /\ Innermost(S) \in 0..Len(fs)
        /\ Innermost(S) > 0 => Innermost(S) \in S
        /\ \A j \in S : j <= Innermost(S)
    BY <1>1, InnermostIs
  <2> HIDE DEF S
  <2> QED
    BY <1>1, <2>1 DEF Catches, S
<1>3. ASSUME NEW h, Catches(fs, h) PROVE h = Handler(fs)
  <2> DEFINE g == Handler(fs)
  <2>1. g \in 0..Len(fs) /\ h \in 0..Len(fs)
    BY <1>2, <1>3 DEF Catches
  <2>2. h > 0 => h <= g
    BY <1>2, <1>3, <2>1 DEF Catches
  <2>3. g > 0 => g <= h
    BY <1>2, <1>3, <2>1 DEF Catches
  <2> HIDE DEF g
  <2>4. h = g
    BY <2>1, <2>2, <2>3
  <2> QED
    BY <2>4 DEF g
<1> QED
  BY <1>2, <1>3

(* The innermost boundary is that of the innermost loop: its frame, if     *)
(* that is direct, or the sentinel below.                                  *)
Bound(fs, ls, w) ==
  IF w = 0 THEN 0
  ELSE IF ls[w].at + 2 \in DOMAIN fs /\ fs[ls[w].at + 2].direct THEN ls[w].at + 2
  ELSE ls[w].at + 1

LEMMA BoundaryIs ==
  ASSUME NEW fs \in Seq(Frame), NEW ls \in Seq(Activation), NEW w \in Nat,
         Lower(fs, ls, w), w > 0 => ls[w].at < Len(fs)
  PROVE  Boundary(fs) = Bound(fs, ls, w)
<1> DEFINE S == {i \in DOMAIN fs : fs[i].direct \/ fs[i].kind = "sentinel"}
           b == Boundary(fs)
<1>1. Len(fs) \in Nat /\ S \in SUBSET (1..Len(fs)) /\ b = Innermost(S)
  BY DEF Boundary
<1>2. /\ b \in 0..Len(fs)
      /\ b > 0 => b \in S
      /\ \A j \in S : j <= b
  BY <1>1, InnermostIs
<1>3. Ordered(ls, w)
  BY InOrder
<1>4. \A i \in DOMAIN fs : Fits(fs[i], i, ls, w)
  BY DEF Lower
<1> HIDE DEF b
<1>5. CASE w = 0
  <2>1. S = {}
    BY <1>4, <1>5 DEF Fits
  <2> HIDE DEF S
  <2> QED
    BY <1>2, <1>5, <2>1 DEF Bound, b
<1>6. CASE w > 0
  <2> DEFINE a == ls[w].at
  <2>1. a \in Nat /\ a + 1 \in DOMAIN fs /\ w \in 1..w
    BY <1>3, <1>6 DEF Ordered
  <2>2. a + 1 \in S
    BY <1>4, <2>1 DEF Fits
  <2>3. ASSUME NEW i \in S PROVE i <= a + 1 \/ (i = a + 2 /\ fs[i].direct)
    <3>1. \A k \in 1..w : ls[k].at \in Nat /\ ls[k].at <= a /\ (k < w => ls[k].at + 2 <= a)
      BY <1>3 DEF Ordered
    <3>2. CASE fs[i].direct
      <4>1. PICK k \in 1..w : i = ls[k].at + 2
        BY <1>4, <3>2 DEF Fits
      <4>2. k < w \/ k = w
        OBVIOUS
      <4> QED
        BY <2>1, <3>1, <3>2, <4>1, <4>2, SMTT(20)
    <3>3. CASE fs[i].kind = "sentinel"
      <4>1. PICK k \in 1..w : i = ls[k].at + 1
        BY <1>4, <3>3 DEF Fits
      <4> QED
        BY <2>1, <3>1, <4>1
    <3> QED
      BY <3>2, <3>3
  <2>4. a + 2 \in DOMAIN fs /\ fs[a + 2].direct => a + 2 \in S
    OBVIOUS
  <2>5. \A i \in S : i \in DOMAIN fs
    OBVIOUS
  <2> HIDE DEF S
  <2>6. CASE a + 2 \in DOMAIN fs /\ fs[a + 2].direct
    <3>1. b \in S /\ a + 2 <= b
      BY <1>2, <2>1, <2>4, <2>6
    <3>2. b = a + 2
      BY <1>2, <2>1, <2>3, <3>1
    <3> QED
      BY <1>6, <2>6, <3>2 DEF Bound, b
  <2>7. CASE ~(a + 2 \in DOMAIN fs /\ fs[a + 2].direct)
    <3>1. b \in S /\ a + 1 <= b
      BY <1>2, <2>1, <2>2
    <3>2. ~(b = a + 2 /\ fs[b].direct)
      BY <2>5, <2>7, <3>1
    <3>3. b = a + 1
      BY <1>2, <2>1, <2>3, <3>1, <3>2
    <3> QED
      BY <1>6, <2>7, <3>3 DEF Bound, b
  <2> QED
    BY <2>6, <2>7
<1> QED
  BY <1>5, <1>6

(* The frames when frame h has caught an exception.                        *)
Caught(fs, h) == [SubSeq(fs, 1, h) EXCEPT ![h].covered = FALSE]

LEMMA CaughtIs ==
  ASSUME NEW fs \in Seq(Frame), NEW h \in 1..Len(fs)
  PROVE  /\ Caught(fs, h) \in Seq(Frame)
         /\ Len(Caught(fs, h)) = h
         /\ \A i \in 1..h : i # h => Caught(fs, h)[i] = fs[i]
         /\ Caught(fs, h)[h] = [fs[h] EXCEPT !.covered = FALSE]
<1> DEFINE s == SubSeq(fs, 1, h)
           f == [fs[h] EXCEPT !.covered = FALSE]
<1>1. s \in Seq(Frame) /\ Len(s) = h /\ \A i \in 1..h : s[i] = fs[i]
  OBVIOUS
<1>2. fs[h] \in Frame
  OBVIOUS
<1>3. f \in Frame
  BY <1>2 DEF Frame
<1>4. h \in 1..h /\ s[h] = fs[h]
  BY <1>1
<1>5. Caught(fs, h) = [s EXCEPT ![h] = f]
  BY <1>4 DEF Caught
<1> HIDE DEF s, f
<1>6. [s EXCEPT ![h] = f] \in Seq(Frame) /\ Len([s EXCEPT ![h] = f]) = Len(s)
  BY <1>1, <1>3, ExceptSeq
<1> QED
  BY <1>1, <1>3, <1>5, <1>6 DEF f


LEMMA BoundaryType == ASSUME NEW fs \in Seq(Frame) PROVE Boundary(fs) \in Nat
<1> DEFINE S == {i \in DOMAIN fs : fs[i].direct \/ fs[i].kind = "sentinel"}
<1>1. Len(fs) \in Nat /\ S \in SUBSET (1..Len(fs)) /\ Boundary(fs) = Innermost(S)
  BY DEF Boundary
<1> HIDE DEF S
<1>2. Innermost(S) \in 0..Len(fs)
  BY <1>1, InnermostIs
<1> QED
  BY <1>1, <1>2
LEMMA BlankCovers ==
  ASSUME NEW f \in Frame, NEW c \in BOOLEAN
  PROVE  LET g == [f EXCEPT !.covered = c]
         IN  /\ g \in Frame
             /\ g.kind = f.kind /\ g.direct = f.direct /\ g.gen = f.gen /\ g.covered = c
             /\ g.base = f.base /\ g.alloc = f.alloc /\ g.size = f.size
BY DEF Frame

LEMMA AboveCovers ==
  ASSUME NEW f \in Frame, NEW c \in BOOLEAN, NEW i, NEW ls, NEW w, Above(f, i, ls, w)
  PROVE  Above([f EXCEPT !.covered = c], i, ls, w)
<1> DEFINE g == [f EXCEPT !.covered = c]
<1>1. /\ g.kind = f.kind /\ g.direct = f.direct /\ g.gen = f.gen
      /\ g.base = f.base /\ g.alloc = f.alloc /\ g.size = f.size
  BY BlankCovers
<1>2. f.kind = "code"
  BY DEF Above
<1> HIDE DEF g
<1> QED
  BY <1>1, <1>2 DEF Above, FrameOK

LEMMA LowerCaught ==
  ASSUME NEW fs \in Seq(Frame), NEW ls \in Seq(Activation), NEW w \in Nat,
         Lower(fs, ls, w), NEW h \in 1..Len(fs), Base(ls, w) <= h
  PROVE  Lower(Caught(fs, h), ls, w)
<1> DEFINE fs2 == Caught(fs, h)
<1>1. /\ fs2 \in Seq(Frame)
      /\ Len(fs2) = h
      /\ \A i \in 1..h : i # h => fs2[i] = fs[i]
      /\ fs2[h] = [fs[h] EXCEPT !.covered = FALSE]
  BY CaughtIs
<1>2. Ordered(ls, w)
  BY InOrder
<1>3. \A i \in DOMAIN fs : i >= Base(ls, w) => Above(fs[i], i, ls, w)
  BY AboveIs
<1>4. Above(fs2[h], h, ls, w)
  <2>1. h \in DOMAIN fs /\ fs[h] \in Frame /\ Above(fs[h], h, ls, w)
    BY <1>3
  <2>2. Above([fs[h] EXCEPT !.covered = FALSE], h, ls, w)
    BY <2>1, AboveCovers
  <2> QED
    BY <2>2, <1>1
<1> HIDE DEF fs2
<1>5. DOMAIN fs2 = 1..h /\ 1..h \subseteq DOMAIN fs
  BY <1>1
<1>6. \A i \in DOMAIN fs2 : i < Base(ls, w) => i \in DOMAIN fs /\ fs2[i] = fs[i]
  BY <1>1, <1>2, <1>5 DEF Ordered
<1>7. \A i \in DOMAIN fs2 : i >= Base(ls, w) => Above(fs2[i], i, ls, w)
  BY <1>1, <1>3, <1>4, <1>5
<1>8. w > 0 => ls[w].at <= Len(fs2)
  BY <1>1, <1>2 DEF Ordered
<1>9. w <= Len(ls)
  BY <1>2 DEF Ordered
<1>10. Lower(fs2, ls, w)
  BY <1>1, <1>6, <1>7, <1>8, <1>9, LowerStays
<1> QED
  BY <1>10 DEF fs2

Stopped(fs, b, v) ==
  [frames |-> SubSeq(fs, 1, b),
   exception |-> [unwinding |-> TRUE, crossed |-> TRUE, current |-> v]]

Lost(v) ==
  [frames |-> <<>>, exception |-> [unwinding |-> TRUE, crossed |-> FALSE, current |-> v]]

LostAgain(v) ==
  [frames |-> <<>>, exception |-> [unwinding |-> TRUE, crossed |-> TRUE, current |-> v]]

CaughtAt(fs, h) == [frames |-> Caught(fs, h), exception |-> Quiet]

(* What is thrown again below a boundary does not stop at another one.     *)
LEMMA UnwindsTo ==
  ASSUME NEW fs, NEW v
  PROVE  LET h == Handler(fs)
             b == Boundary(fs)
         IN  /\ b > h => unwindException(fs, v, FALSE) = Stopped(fs, b, v)
             /\ ~(b > h) /\ h > 0 => unwindException(fs, v, FALSE) = CaughtAt(fs, h)
             /\ ~(b > h) /\ ~(h > 0) => unwindException(fs, v, FALSE) = Lost(v)
             /\ h > 0 => unwindException(fs, v, TRUE) = CaughtAt(fs, h)
             /\ ~(h > 0) => unwindException(fs, v, TRUE) = LostAgain(v)
BY Zenon DEF unwindException, Caught, CaughtAt, Stopped, Lost, LostAgain

FirstUnwind(fs, v) == unwindException(fs, v, FALSE)

SecondUnwind(fs, v) == unwindException(fs, v, TRUE)

LEMMA FirstUnwindsTo ==
  ASSUME NEW fs, NEW v
  PROVE  /\ Boundary(fs) > Handler(fs) => FirstUnwind(fs, v) = Stopped(fs, Boundary(fs), v)
         /\ ~(Boundary(fs) > Handler(fs)) /\ Handler(fs) > 0 =>
              FirstUnwind(fs, v) = CaughtAt(fs, Handler(fs))
         /\ ~(Boundary(fs) > Handler(fs)) /\ ~(Handler(fs) > 0) =>
              FirstUnwind(fs, v) = Lost(v)
BY UnwindsTo, Zenon DEF FirstUnwind

LEMMA SecondUnwindsTo ==
  ASSUME NEW fs, NEW v
  PROVE  /\ Handler(fs) > 0 => SecondUnwind(fs, v) = CaughtAt(fs, Handler(fs))
         /\ ~(Handler(fs) > 0) => SecondUnwind(fs, v) = LostAgain(v)
BY UnwindsTo, Zenon DEF SecondUnwind

(* An exception is thrown above the loops 1..w: it is caught there, or     *)
(* goes to the boundary below, or there is none and the script ends.       *)
ThrownFrom(fs, ls, w, v, r) ==
  LET h == Handler(fs)
  IN  /\ h \in 0..Len(fs)
      /\ h >= Base(ls, w) => r = CaughtAt(fs, h)
      /\ h < Base(ls, w) /\ w > 0 => r = Stopped(fs, Bound(fs, ls, w), v)
      /\ h < Base(ls, w) /\ w = 0 => h = 0 /\ r = Lost(v)

LEMMA FirstThrow ==
  ASSUME NEW fs \in Seq(Frame), NEW ls \in Seq(Activation), NEW w \in Nat,
         Lower(fs, ls, w), Base(ls, w) <= Len(fs), NEW v
  PROVE  ThrownFrom(fs, ls, w, v, FirstUnwind(fs, v))
<1> DEFINE h == Handler(fs)
           b == Bound(fs, ls, w)
<1>1. Ordered(ls, w)
  BY InOrder
<1>2. w > 0 => ls[w].at < Len(fs)
  BY <1>1 DEF Ordered
<1>3. Boundary(fs) = b
  BY <1>2, BoundaryIs
<1>4. Catches(fs, h)
  BY HandlerCatches
<1>5. h \in 0..Len(fs) /\ (h > 0 => h \in DOMAIN fs)
  BY <1>4 DEF Catches
<1>6. CASE w = 0
  <2>1. Boundary(fs) = 0 /\ Base(ls, w) = 1
    BY <1>3, <1>6 DEF Bound, Base
  <2>2. ~(Boundary(fs) > h) /\ (h >= 1 <=> h > 0) /\ (h < 1 => h = 0 /\ ~(h > 0))
    BY <1>5, <2>1
  <2> QED
    BY <1>5, <1>6, <2>1, <2>2, FirstUnwindsTo DEF ThrownFrom
<1>7. CASE w > 0
  <2> DEFINE a == ls[w].at
  <2>1. a \in Nat /\ Base(ls, w) = a + 2 /\ b \in {a + 1, a + 2} /\ b > 0
    BY <1>1, <1>7 DEF Ordered, Bound
  <2>2. h # a + 1
    <3>1. ASSUME h = a + 1 PROVE FALSE
      <4>1. h \in DOMAIN fs /\ h > 0 /\ fs[h].covered
        BY <1>4, <1>5, <2>1, <3>1 DEF Catches
      <4>2. w \in 1..w
        BY <1>7
      <4> QED
        BY <4>1, <4>2, <3>1 DEF Lower, Fits, FrameOK
    <3> QED
      BY <3>1
  <2> HIDE DEF b, h, a
  <2>3. CASE h >= Base(ls, w)
    <3>1. ~(b > h) /\ h > 0
      BY <1>5, <2>1, <2>3
    <3>2. FirstUnwind(fs, v) = CaughtAt(fs, h)
      BY <1>3, <3>1, FirstUnwindsTo DEF h
    <3> QED
      BY <1>5, <2>1, <2>3, <3>2 DEF ThrownFrom, h
  <2>4. CASE h < Base(ls, w)
    <3>1. b > h
      BY <1>5, <2>1, <2>2, <2>4
    <3>2. FirstUnwind(fs, v) = Stopped(fs, b, v)
      BY <1>3, <3>1, FirstUnwindsTo DEF h
    <3> QED
      BY <1>5, <1>7, <2>1, <2>4, <3>2 DEF ThrownFrom, h, b
  <2> QED
    BY <1>5, <2>1, <2>3, <2>4
<1> QED
  BY <1>6, <1>7

(* It is thrown again below: one of the frames of the loop catches it, or  *)
(* the loop is the script's.                                               *)
ThrownAgain(fs, ls, w, v, r) ==
  LET h == Handler(fs)
  IN  /\ h \in 0..ls[w].at
      /\ h > 0 => h >= Base(ls, w - 1) /\ r = CaughtAt(fs, h)
      /\ h = 0 => w = 1 /\ r = LostAgain(v)

LEMMA Rethrow ==
  ASSUME NEW fs \in Seq(Frame), NEW ls \in Seq(Activation), NEW w \in Nat, w > 0,
         Lower(fs, ls, w), \A i \in DOMAIN fs : i > ls[w].at => ~fs[i].covered, NEW v
  PROVE  ThrownAgain(fs, ls, w, v, SecondUnwind(fs, v))
<1> DEFINE h == Handler(fs)
<1>1. Ordered(ls, w) /\ w \in 1..w
  BY InOrder
<1>2. Catches(fs, h)
  BY HandlerCatches
<1>3. h \in 0..Len(fs) /\ (h > 0 => h \in DOMAIN fs /\ fs[h].covered)
  BY <1>2 DEF Catches
<1>4. h \in 0..ls[w].at
  <2>1. h > 0 => ~(h > ls[w].at)
    BY <1>3
  <2>2. ls[w].at \in Nat
    BY <1>1 DEF Ordered
  <2> QED
    BY <1>3, <2>1, <2>2
<1>5. CASE w = 1
  <2>1. Base(ls, w - 1) = 1 /\ (h > 0 => h >= 1) /\ (h = 0 => ~(h > 0))
    BY <1>3, <1>5 DEF Base
  <2> QED
    BY <1>4, <1>5, <2>1, SecondUnwindsTo DEF ThrownAgain
<1>6. CASE w > 1
  <2>1. PICK i \in ls[w - 1].at + 2 .. ls[w].at : fs[i].covered
    BY <1>1, <1>6 DEF Lower, Waits
  <2>2. w - 1 \in 1..w /\ ls[w - 1].at \in Nat /\ ls[w].at \in Nat /\ ls[w].at <= Len(fs)
    BY <1>1, <1>6 DEF Ordered, Lower
  <2>3. i \in DOMAIN fs /\ i \in Nat /\ i > 0
    BY <2>2
  <2>4. i <= h
    BY <1>2, <2>1, <2>3 DEF Catches
  <2>5. h > 0 /\ h >= Base(ls, w - 1)
    BY <1>3, <1>6, <2>2, <2>3, <2>4 DEF Base
  <2> HIDE DEF h
  <2>6. h # 0
    BY <2>5
  <2> QED
    BY <1>4, <2>5, <2>6, SecondUnwindsTo DEF ThrownAgain, h
<1> QED
  BY <1>5, <1>6

-----------------------------------------------------------------------------
(* Registers.                                                              *)

Windows(fs, next) ==
  \A i \in DOMAIN fs : fs[i].kind = "code" =>
     /\ fs[i].base + fs[i].alloc <= next
     /\ \A j \in DOMAIN fs : fs[j].kind = "code" /\ i < j =>
           fs[i].base + fs[i].alloc <= fs[j].base

LEMMA WindowsAre == WindowsDisjoint <=> Windows(frames, nextRegSlot)
BY DEF WindowsDisjoint, Windows

LEMMA WindowsStay ==
  ASSUME NEW fs \in Seq(Frame), NEW n \in Nat, Windows(fs, n),
         NEW fs2 \in Seq(Frame), Len(fs2) <= Len(fs),
         \A i \in DOMAIN fs2 : /\ fs2[i].kind = fs[i].kind
                               /\ fs2[i].base = fs[i].base
                               /\ fs2[i].alloc = fs[i].alloc
  PROVE  Windows(fs2, n)
<1>1. DOMAIN fs2 \subseteq DOMAIN fs
  OBVIOUS
<1> QED
  BY <1>1 DEF Windows

(* The registers of the top frame are given back.                          *)
LEMMA WindowsReclaimed ==
  ASSUME NEW fs \in Seq(Frame), NEW n \in Nat, Windows(fs, n), NEW t \in DOMAIN fs,
         fs[t].kind = "code", NEW k \in Nat, k <= fs[t].alloc,
         NEW fs2 \in Seq(Frame), Len(fs2) < t,
         \A i \in DOMAIN fs2 : /\ fs2[i].kind = fs[i].kind
                               /\ fs2[i].base = fs[i].base
                               /\ fs2[i].alloc = fs[i].alloc
  PROVE  n - k \in Nat /\ Windows(fs2, n - k)
<1>1. DOMAIN fs2 \subseteq DOMAIN fs /\ \A i \in DOMAIN fs2 : i < t
  OBVIOUS
<1>2. fs[t].base \in Nat /\ fs[t].alloc \in Nat /\ fs[t].base + fs[t].alloc <= n
  BY FrameFields DEF Windows
<1>3. \A i \in DOMAIN fs : fs[i].base \in Nat /\ fs[i].alloc \in Nat
  BY FrameFields
<1>4. fs[t].base <= n - k /\ n - k \in Nat
  BY <1>2
<1>5. ASSUME NEW i \in DOMAIN fs2, fs2[i].kind = "code"
      PROVE  fs2[i].base + fs2[i].alloc <= n - k
  <2>1. fs[i].base + fs[i].alloc <= fs[t].base
    BY <1>1, <1>5 DEF Windows
  <2>2. fs[i].base \in Nat /\ fs[i].alloc \in Nat
    BY <1>1, <1>3
  <2> QED
    BY <1>2, <1>4, <2>1, <2>2
<1> QED
  BY <1>1, <1>4, <1>5 DEF Windows

(* A function gets the registers above those in use.                       *)
LEMMA WindowsGrow ==
  ASSUME NEW fs \in Seq(Frame), NEW n \in Nat, Windows(fs, n),
         NEW fs2 \in Seq(Frame), NEW t \in DOMAIN fs2,
         \A i \in DOMAIN fs2 : i # t /\ fs2[i].kind = "code" =>
            /\ i \in DOMAIN fs /\ i < t
            /\ fs[i].kind = "code"
            /\ fs2[i].base = fs[i].base
            /\ fs2[i].alloc = fs[i].alloc,
         fs2[t].base = n, NEW k \in Nat, fs2[t].alloc = k
  PROVE  Windows(fs2, n + k)
<1>1. \A i \in DOMAIN fs : fs[i].base \in Nat /\ fs[i].alloc \in Nat
  BY FrameFields
<1>2. ASSUME NEW i \in DOMAIN fs2, fs2[i].kind = "code"
      PROVE  fs2[i].base + fs2[i].alloc <= n + k
  <2>1. CASE i = t
    BY <2>1
  <2>2. CASE i # t
    BY <1>1, <1>2, <2>2, SMTT(20) DEF Windows
  <2> QED
    BY <2>1, <2>2
<1>3. ASSUME NEW i \in DOMAIN fs2, NEW j \in DOMAIN fs2, fs2[i].kind = "code",
             fs2[j].kind = "code", i < j
      PROVE  fs2[i].base + fs2[i].alloc <= fs2[j].base
  <2>1. i # t
    BY <1>3
  <2>2. CASE j = t
    BY <1>1, <1>3, <2>1, <2>2 DEF Windows
  <2>3. CASE j # t
    BY <1>1, <1>3, <2>1, <2>3 DEF Windows
  <2> QED
    BY <2>2, <2>3
<1> QED
  BY <1>2, <1>3 DEF Windows

-----------------------------------------------------------------------------
(* The inductive invariant.                                                *)

(* A loop that executes instructions, or a native function.                *)
Idle(l) ==
  /\ l.call.gen = Null
  /\ l.call.entry = "none"
  /\ l.call.native # "generator"
  /\ l.call.native = "none" => l.call = NoCall

Runs(fs, ls) ==
  LET n == Len(ls)
  IN  /\ n > 0
      /\ Lower(fs, ls, n - 1)
      /\ Base(ls, n - 1) <= Len(fs)
      /\ Len(fs) = ls[n].at
      /\ Idle(ls[n])

(* A native call has failed and the loop is to end, one instruction later. *)
Stops(fs, ls) ==
  LET n == Len(ls)
  IN  /\ n > 1
      /\ ls[n].call = NoCall
      /\ ls[n - 1].call.entry \in {"call", "next"}
      /\ Len(fs) = ls[n - 1].at + 2
      /\ fs[Len(fs)].direct
      /\ ~fs[Len(fs)].covered

(* The loop above has ended.                                               *)
Over(fs, ls) == Len(fs) - ls[Len(ls)].at

Ended(fs, ls) ==
  LET n == Len(ls)
  IN  /\ n > 0
      /\ Lower(fs, ls, n)
      /\ Len(fs) <= ls[n].at + 2

EndedWell(fs, ls, rp, gs) ==
  LET call == ls[Len(ls)].call
  IN  /\ rp = Ok
      /\ \/ call.entry = "call" /\ Over(fs, ls) = 0
         \/ call.gen # Null /\ gs[call.gen].state = "completed" /\ Over(fs, ls) = 0
         \/ call.gen # Null /\ gs[call.gen].state = "yield" /\ Over(fs, ls) = 2

EndedBadly(fs, ls, rp, gs) ==
  LET call == ls[Len(ls)].call
  IN  /\ call.gen # Null => gs[call.gen].state = "executing"
      /\ rp = Ok => call.entry = "call"
      /\ call.entry = "next" => Over(fs, ls) = 2
      /\ call.entry = "throw" => Over(fs, ls) = 1
      /\ \A i \in DOMAIN fs : i > ls[Len(ls)].at => ~fs[i].covered

Unwinds(ex) == ex.unwinding /\ ex.crossed /\ ex.current # Null

Shape(fs, ex, ls, rp, gs) ==
  \/ ls = <<>> /\ rp # NoReply
  \/ /\ rp = NoReply
     /\ Runs(fs, ls)
     /\ ex = Quiet \/ (Unwinds(ex) /\ Stops(fs, ls))
  \/ /\ rp # NoReply
     /\ Ended(fs, ls)
     /\ \/ ex = Quiet /\ EndedWell(fs, ls, rp, gs)
        \/ Unwinds(ex) /\ EndedBadly(fs, ls, rp, gs)

(* Each body is run by one loop.                                           *)
Distinct(ls, w) ==
  \A k, l \in 1..w : ls[k].call.gen # Null /\ ls[k].call.gen = ls[l].call.gen => k = l

Executing(ls, gs, w) ==
  \A k \in 1..w : ls[k].call.gen # Null => gs[ls[k].call.gen].state = "executing"

NoOthers(ls, gs, w) ==
  \A g \in Generators : gs[g].state = "executing" => \E k \in 1..w : ls[k].call.gen = g

Owned(ls, gs, rp) ==
  LET w == IF rp = NoReply THEN Len(ls) - 1 ELSE Len(ls)
  IN  Distinct(ls, w) /\ Executing(ls, gs, Len(ls) - 1) /\ NoOthers(ls, gs, w)

Resting(gs) == \A g \in Generators : gs[g].covered => gs[g].state = "yield"

DueOK(fs, ex, d) == (ex = Quiet => d = 0) /\ (ex.unwinding => d = Handler(fs))

Good(fs, n, ex, ls, rp, gs, d) ==
  /\ fs \in Seq(Frame)
  /\ n \in Nat
  /\ ex \in Exceptions
  /\ ls \in Seq(Activation)
  /\ rp \in Replies
  /\ gs \in [Generators -> Suspensions]
  /\ Windows(fs, n)
  /\ Resting(gs)
  /\ DueOK(fs, ex, d)
  /\ Owned(ls, gs, rp)
  /\ Shape(fs, ex, ls, rp, gs)

FramesInv == Good(frames, nextRegSlot, exception, loops, reply, generators, due)

-----------------------------------------------------------------------------
(* Loops.                                                                  *)

TopBecomes(ls, ls2, l) ==
  /\ ls2 \in Seq(Activation)
  /\ Len(ls2) = Len(ls)
  /\ \A k \in 1..Len(ls) - 1 : ls2[k] = ls[k]
  /\ ls2[Len(ls)] = l

LEMMA TopPopped ==
  ASSUME NEW ls \in Seq(Activation), ls # <<>>
  PROVE  /\ Pop(ls) \in Seq(Activation) /\ Len(Pop(ls)) = Len(ls) - 1
         /\ Len(ls) \in Nat /\ Len(ls) > 0
         /\ \A k \in 1..Len(ls) - 1 : Pop(ls)[k] = ls[k]
<1>1. Len(ls) \in Nat /\ Len(ls) > 0
  BY EmptySeq
<1> QED
  BY <1>1 DEF Pop

LEMMA TopAppended ==
  ASSUME NEW ls \in Seq(Activation), ls # <<>>, NEW l \in Activation
  PROVE  TopBecomes(ls, Append(Pop(ls), l), l)
<1>1. Len(ls) \in Nat /\ Len(ls) > 0
  BY EmptySeq
<1>2. /\ Pop(ls) \in Seq(Activation) /\ Len(Pop(ls)) = Len(ls) - 1
      /\ \A k \in 1..Len(ls) - 1 : Pop(ls)[k] = ls[k]
  BY TopPopped
<1> HIDE DEF Pop
<1> QED
  BY <1>1, <1>2 DEF TopBecomes

LEMMA TopReplaced ==
  ASSUME NEW ls \in Seq(Activation), ls # <<>>, NEW l \in Activation
  PROVE  TopBecomes(ls, [ls EXCEPT ![Len(ls)] = l], l)
<1>1. Len(ls) \in Nat /\ Len(ls) > 0 /\ Len(ls) \in 1..Len(ls)
  BY EmptySeq
<1>2. [ls EXCEPT ![Len(ls)] = l] \in Seq(Activation)
      /\ Len([ls EXCEPT ![Len(ls)] = l]) = Len(ls)
  BY <1>1, ExceptSeq
<1>3. \A k \in 1..Len(ls) - 1 : k # Len(ls) /\ k \in DOMAIN ls
  BY <1>1
<1>4. \A k \in 1..Len(ls) - 1 : [ls EXCEPT ![Len(ls)] = l][k] = ls[k]
  BY <1>3
<1>5. [ls EXCEPT ![Len(ls)] = l][Len(ls)] = l
  BY <1>1
<1> QED
  BY <1>2, <1>4, <1>5 DEF TopBecomes

LEMMA OwnedBelow ==
  ASSUME NEW ls, NEW gs, NEW ls2, NEW l, Owned(ls, gs, NoReply), TopBecomes(ls, ls2, l)
  PROVE  Owned(ls2, gs, NoReply)
BY DEF Owned, TopBecomes, Distinct, Executing, NoOthers

(* A loop goes on above the others.                                        *)
LEMMA RunsOn ==
  ASSUME NEW fs \in Seq(Frame), NEW ls \in Seq(Activation), Runs(fs, ls),
         NEW fs2 \in Seq(Frame), Base(ls, Len(ls) - 1) <= Len(fs2),
         \A i \in DOMAIN fs2 : i < Base(ls, Len(ls) - 1) => fs2[i] = fs[i],
         \A i \in DOMAIN fs2 :
            i >= Base(ls, Len(ls) - 1) => Above(fs2[i], i, ls, Len(ls) - 1),
         NEW ls2, NEW l, TopBecomes(ls, ls2, l), l.at = Len(fs2), Idle(l)
  PROVE  Runs(fs2, ls2)
<1> DEFINE w == Len(ls) - 1
<1>1. w \in Nat /\ Lower(fs, ls, w) /\ Base(ls, w) <= Len(fs)
  BY DEF Runs
<1>2. Ordered(ls, w)
  BY <1>1, InOrder
<1>3. ls2 \in Seq(Activation) /\ Len(ls2) = w + 1 /\ (\A k \in 1..w : ls2[k] = ls[k]) /\ ls2[w + 1] = l
  BY DEF TopBecomes
<1>9. /\ Base(ls, w) <= Len(fs2)
      /\ \A i \in DOMAIN fs2 : i < Base(ls, w) => fs2[i] = fs[i]
      /\ \A i \in DOMAIN fs2 : i >= Base(ls, w) => Above(fs2[i], i, ls, w)
  OBVIOUS
<1> HIDE DEF w
<1>4. \A i \in DOMAIN fs2 : i < Base(ls, w) => i \in DOMAIN fs /\ fs2[i] = fs[i]
  <2>1. Base(ls, w) \in Nat
    BY <1>2 DEF Ordered
  <2>2. \A i \in DOMAIN fs2 : i < Base(ls, w) => i \in DOMAIN fs
    BY <1>1, <2>1
  <2> QED
    BY <1>9, <2>2
<1>5. w > 0 => ls[w].at <= Len(fs2)
  BY <1>2, <1>9 DEF Ordered
<1>6. Lower(fs2, ls2, w)
  <2>1. w <= Len(ls2)
    BY <1>1, <1>3
  <2> QED
    BY <1>1, <1>3, <1>4, <1>5, <1>9, <2>1, LowerStays
<1>7. Base(ls2, w) = Base(ls, w)
  BY <1>1, <1>3 DEF Base
<1>8. Len(ls2) - 1 = w /\ Len(ls2) > 0
  BY <1>1, <1>3
<1> QED
  BY <1>3, <1>6, <1>7, <1>8 DEF Runs, w

LEMMA GoodRunning ==
  ASSUME NEW fs \in Seq(Frame), NEW n \in Nat, NEW ex \in Exceptions,
         NEW ls \in Seq(Activation), NEW gs \in [Generators -> Suspensions], NEW d,
         Windows(fs, n), Resting(gs), Owned(ls, gs, NoReply), Runs(fs, ls),
         (ex = Quiet /\ d = 0) \/ (Unwinds(ex) /\ Stops(fs, ls) /\ d = Handler(fs))
  PROVE  Good(fs, n, ex, ls, NoReply, gs, d)
<1>1. NoReply \in Replies /\ Quiet.unwinding = FALSE
  BY DEF Replies, Quiet
<1>2. ex = Quiet => ~Unwinds(ex)
  BY <1>1 DEF Unwinds
<1>3. DueOK(fs, ex, d)
  BY <1>1, <1>2 DEF DueOK, Unwinds
<1> QED
  BY <1>1, <1>3 DEF Good, Shape

LEMMA ThrownIsNotNull == Null \notin Thrown
BY NullAssumption DEF Thrown

(* Changing whether the top frame is covered.                              *)
Covering(fs, c) == [fs EXCEPT ![Len(fs)].covered = c]

LEMMA CoveringIs ==
  ASSUME NEW fs \in Seq(Frame), Len(fs) > 0, NEW c \in BOOLEAN
  PROVE  /\ Covering(fs, c) \in Seq(Frame)
         /\ Len(Covering(fs, c)) = Len(fs)
         /\ \A i \in 1..Len(fs) : i # Len(fs) => Covering(fs, c)[i] = fs[i]
         /\ Covering(fs, c)[Len(fs)] = [fs[Len(fs)] EXCEPT !.covered = c]
<1> DEFINE f == [fs[Len(fs)] EXCEPT !.covered = c]
<1>1. Len(fs) \in 1..Len(fs) /\ fs[Len(fs)] \in Frame
  OBVIOUS
<1>2. f \in Frame
  BY <1>1, BlankCovers
<1>3. Covering(fs, c) = [fs EXCEPT ![Len(fs)] = f]
  BY DEF Covering
<1> HIDE DEF f
<1>4. [fs EXCEPT ![Len(fs)] = f] \in Seq(Frame) /\ Len([fs EXCEPT ![Len(fs)] = f]) = Len(fs)
  BY <1>1, <1>2, ExceptSeq
<1> QED
  BY <1>1, <1>2, <1>3, <1>4 DEF f

LEMMA LowerLoops ==
  ASSUME NEW fs \in Seq(Frame), NEW ls \in Seq(Activation), NEW w \in Nat, Lower(fs, ls, w),
         NEW ls2 \in Seq(Activation), w <= Len(ls2), \A k \in 1..w : ls2[k] = ls[k]
  PROVE  Lower(fs, ls2, w)
<1>1. \A i \in DOMAIN fs : i >= Base(ls, w) => Above(fs[i], i, ls, w)
  BY AboveIs
<1>2. w > 0 => ls[w].at <= Len(fs)
  BY DEF Lower
<1> QED
  BY <1>1, <1>2, LowerStays

LEMMA LowerCut ==
  ASSUME NEW fs \in Seq(Frame), NEW ls \in Seq(Activation), NEW w \in Nat, Lower(fs, ls, w),
         NEW m \in 0..Len(fs), w > 0 => ls[w].at <= m
  PROVE  /\ Lower(SubSeq(fs, 1, m), ls, w)
         /\ SubSeq(fs, 1, m) \in Seq(Frame)
         /\ Len(SubSeq(fs, 1, m)) = m
<1> DEFINE fs2 == SubSeq(fs, 1, m)
<1>1. fs2 \in Seq(Frame) /\ Len(fs2) = m /\ \A i \in 1..m : fs2[i] = fs[i]
  OBVIOUS
<1>2. DOMAIN fs2 = 1..m /\ 1..m \subseteq DOMAIN fs
  BY <1>1
<1>3. \A i \in DOMAIN fs : i >= Base(ls, w) => Above(fs[i], i, ls, w)
  BY AboveIs
<1> HIDE DEF fs2
<1>4. w <= Len(ls)
  BY DEF Lower
<1>5. /\ \A i \in DOMAIN fs2 : i < Base(ls, w) => i \in DOMAIN fs /\ fs2[i] = fs[i]
      /\ \A i \in DOMAIN fs2 : i >= Base(ls, w) => Above(fs2[i], i, ls, w)
  BY <1>1, <1>2, <1>3
<1>6. Lower(fs2, ls, w)
  BY <1>1, <1>4, <1>5, LowerStays
<1> QED
  BY <1>1, <1>6 DEF fs2

LEMMA HandlerOfPrefix ==
  ASSUME NEW fs \in Seq(Frame), NEW fs2 \in Seq(Frame), Len(fs2) <= Len(fs),
         Handler(fs) <= Len(fs2), \A i \in DOMAIN fs2 : fs2[i].covered = fs[i].covered
  PROVE  Handler(fs2) = Handler(fs)
<1> DEFINE h == Handler(fs)
<1>1. Catches(fs, h)
  BY HandlerCatches
<1> HIDE DEF h
<1>2. DOMAIN fs2 \subseteq DOMAIN fs
  OBVIOUS
<1>3. Catches(fs2, h)
  <2>1. h \in 0..Len(fs2)
    BY <1>1 DEF Catches, h
  <2>2. h > 0 => h \in DOMAIN fs2
    BY <2>1
  <2> QED
    BY <1>1, <1>2, <2>1, <2>2 DEF Catches
<1> QED
  BY <1>3, HandlerCatches DEF h

(* The loop ends and the one below it, which waits, is told.               *)
LEMMA OwnedEnds ==
  ASSUME NEW ls \in Seq(Activation), ls # <<>>, NEW gs, Owned(ls, gs, NoReply),
         NEW rp, rp # NoReply
  PROVE  Owned(Pop(ls), gs, rp)
<1>1. /\ Len(ls) \in Nat /\ Len(ls) > 0
      /\ Len(Pop(ls)) = Len(ls) - 1 /\ \A k \in 1..Len(ls) - 1 : Pop(ls)[k] = ls[k]
  BY TopPopped
<1> QED
  BY <1>1, SMTT(20) DEF Owned, Distinct, Executing, NoOthers

LEMMA GoodEndedBadly ==
  ASSUME NEW ls \in Seq(Activation), Len(ls) > 1, NEW fs \in Seq(Frame),
         Lower(fs, ls, Len(ls) - 1),
         NEW n \in Nat, NEW ex \in Exceptions, NEW rp \in Replies, rp # NoReply,
         NEW gs \in [Generators -> Suspensions],
         Windows(fs, n), Resting(gs), Owned(ls, gs, NoReply), Unwinds(ex),
         Len(fs) <= ls[Len(ls) - 1].at + 2,
         rp = Ok => ls[Len(ls) - 1].call.entry = "call",
         ls[Len(ls) - 1].call.entry = "next" => Len(fs) = ls[Len(ls) - 1].at + 2,
         ls[Len(ls) - 1].call.entry = "throw" => Len(fs) = ls[Len(ls) - 1].at + 1,
         \A i \in DOMAIN fs : i > ls[Len(ls) - 1].at => ~fs[i].covered
  PROVE  Good(fs, n, ex, Pop(ls), rp, gs, Handler(fs))
<1> DEFINE w == Len(ls) - 1
           ls2 == Pop(ls)
<1>1. w \in Nat /\ w > 0 /\ ls # <<>>
  OBVIOUS
<1>2. ls2 \in Seq(Activation) /\ Len(ls2) = w /\ \A k \in 1..w : ls2[k] = ls[k]
  BY <1>1, TopPopped
<1>3. Owned(ls2, gs, rp)
  BY <1>1, OwnedEnds
<1> HIDE DEF ls2
<1>4. Lower(fs, ls2, w)
  <2>1. Lower(fs, ls, w) /\ w <= Len(ls2)
    BY <1>1, <1>2
  <2> HIDE DEF w
  <2> QED
    BY <1>1, <1>2, <2>1, LowerLoops
<1>5. w \in 1..w /\ ls2[w] = ls[w] /\ ls[w] \in Activation
  BY <1>1, <1>2
<1>6. ls[w].at \in Nat
  BY <1>5, ActivationFields
<1>7. Ended(fs, ls2)
  BY <1>1, <1>2, <1>4, <1>5 DEF Ended
<1>8. ls[w].call.gen # Null => gs[ls[w].call.gen].state = "executing"
  BY <1>1 DEF Owned, Executing
<1>9. EndedBadly(fs, ls2, rp, gs)
  BY <1>1, <1>2, <1>5, <1>6, <1>8 DEF EndedBadly, Over
<1>10. ex # Quiet
  BY DEF Unwinds, Quiet
<1>11. DueOK(fs, ex, Handler(fs))
  BY <1>10 DEF DueOK
<1>12. Shape(fs, ex, ls2, rp, gs)
  BY <1>7, <1>9 DEF Shape
<1> QED
  BY <1>2, <1>3, <1>11, <1>12 DEF Good, ls2

(* The loop has ended well: the body of ls[n - 1] has returned or yielded. *)
LEMMA GoodEndedWell ==
  ASSUME NEW ls \in Seq(Activation), Len(ls) > 1, NEW fs \in Seq(Frame),
         Lower(fs, ls, Len(ls) - 1),
         NEW n \in Nat,
         NEW gs \in [Generators -> Suspensions], Owned(ls, gs, NoReply),
         NEW gs2 \in [Generators -> Suspensions], Resting(gs2), Windows(fs, n),
         \A g \in Generators : g # ls[Len(ls) - 1].call.gen => gs2[g] = gs[g],
         \/ /\ ls[Len(ls) - 1].call.entry = "call"
            /\ Len(fs) = ls[Len(ls) - 1].at
         \/ /\ ls[Len(ls) - 1].call.gen # Null
            /\ gs2[ls[Len(ls) - 1].call.gen].state = "completed"
            /\ Len(fs) = ls[Len(ls) - 1].at
         \/ /\ ls[Len(ls) - 1].call.gen # Null
            /\ gs2[ls[Len(ls) - 1].call.gen].state = "yield"
            /\ Len(fs) = ls[Len(ls) - 1].at + 2
  PROVE  Good(fs, n, Quiet, Pop(ls), Ok, gs2, 0)
<1> DEFINE w == Len(ls) - 1
           ls2 == Pop(ls)
<1>1. w \in Nat /\ w > 0 /\ ls # <<>>
  OBVIOUS
<1>2. ls2 \in Seq(Activation) /\ Len(ls2) = w /\ \A k \in 1..w : ls2[k] = ls[k]
  BY <1>1, TopPopped
<1>3. Ok # NoReply /\ Ok \in Replies
  BY DEF Ok, NoReply, Replies
<1>4. Owned(ls2, gs, Ok)
  BY <1>1, <1>3, OwnedEnds
<1> HIDE DEF ls2
<1>5. Lower(fs, ls2, w)
  <2>1. Lower(fs, ls, w) /\ w <= Len(ls2)
    BY <1>1, <1>2
  <2> HIDE DEF w
  <2> QED
    BY <1>1, <1>2, <2>1, LowerLoops
<1>6. w \in 1..w /\ ls2[w] = ls[w] /\ ls[w] \in Activation
  BY <1>1, <1>2
<1>7. ls[w].at \in Nat /\ ls[w].call.gen \in Bodied
  BY <1>6, ActivationFields
<1>8. Ended(fs, ls2)
  BY <1>1, <1>2, <1>5, <1>6, <1>7 DEF Ended
<1>9. EndedWell(fs, ls2, Ok, gs2)
  BY <1>1, <1>2, <1>6, <1>7 DEF EndedWell, Over
<1>10. Owned(ls2, gs2, Ok)
  <2>1. Distinct(ls2, w) /\ Executing(ls2, gs, w - 1) /\ NoOthers(ls2, gs, w)
    BY <1>2, <1>3, <1>4 DEF Owned
  <2>2. Executing(ls2, gs2, w - 1)
    <3>1. ASSUME NEW k \in 1..w - 1, ls2[k].call.gen # Null
          PROVE  gs2[ls2[k].call.gen].state = "executing"
      <4>1. k \in 1..w /\ k # w /\ ls2[k] \in Activation
        BY <1>1, <1>2
      <4>2. ls2[k].call.gen # ls2[w].call.gen
        BY <2>1, <3>1, <4>1, <1>6 DEF Distinct
      <4>3. ls2[k].call.gen \in Generators
        BY <3>1, <4>1, ActivationFields DEF Bodied
      <4> QED
        BY <2>1, <3>1, <4>2, <4>3, <1>6 DEF Executing
    <3> QED
      BY <3>1 DEF Executing
  <2>3. NoOthers(ls2, gs2, w)
    <3>1. ASSUME NEW g \in Generators, gs2[g].state = "executing"
          PROVE  \E k \in 1..w : ls2[k].call.gen = g
      <4>1. CASE g = ls[w].call.gen
        BY <4>1, <1>6
      <4>2. CASE g # ls[w].call.gen
        BY <2>1, <3>1, <4>2 DEF NoOthers
      <4> QED
        BY <4>1, <4>2
    <3> QED
      BY <3>1 DEF NoOthers
  <2> QED
    BY <1>2, <1>3, <2>1, <2>2, <2>3 DEF Owned
<1>11. Quiet \in Exceptions /\ Quiet.unwinding = FALSE
  BY DEF Quiet, Exceptions
<1>12. Shape(fs, Quiet, ls2, Ok, gs2) /\ DueOK(fs, Quiet, 0)
  BY <1>3, <1>8, <1>9, <1>11 DEF Shape, DueOK
<1> QED
  BY <1>2, <1>3, <1>10, <1>11, <1>12 DEF Good, ls2

(* The script's own loop ends.                                             *)
LEMMA GoodEnd ==
  ASSUME NEW ls \in Seq(Activation), Len(ls) = 1, NEW fs \in Seq(Frame), NEW n \in Nat,
         NEW ex \in Exceptions, NEW rp \in Replies, rp # NoReply,
         NEW gs \in [Generators -> Suspensions], NEW d,
         Windows(fs, n), Resting(gs), Owned(ls, gs, NoReply), DueOK(fs, ex, d)
  PROVE  Good(fs, n, ex, Pop(ls), rp, gs, d)
<1>0. ls # <<>>
  <2>1. ASSUME ls = <<>> PROVE FALSE
    <3>1. Len(ls) = 0
      BY <2>1, EmptySeq
    <3> QED
      BY <3>1
  <2> QED
    BY <2>1
<1>1. Pop(ls) \in Seq(Activation) /\ Len(Pop(ls)) = 0 /\ ls # <<>>
  BY <1>0, TopPopped
<1>2. Pop(ls) = <<>>
  BY <1>1, EmptySeq
<1>3. Owned(Pop(ls), gs, rp)
  BY <1>1, OwnedEnds
<1>4. Shape(fs, ex, Pop(ls), rp, gs)
  BY <1>2 DEF Shape
<1> QED
  BY <1>1, <1>3, <1>4 DEF Good


-----------------------------------------------------------------------------
(* A native call fails.                                                    *)

LEMMA LoopFields ==
  ASSUME NEW at \in Nat \ {0}
  PROVE  Loop(at) \in Activation /\ Loop(at).at = at /\ Loop(at).call = NoCall /\ Idle(Loop(at))
BY DEF Loop, NoCall, Activation, Awaited, Bodied, Idle

(* A loop goes on with the top frame of fs.                                *)
LEMMA GoesOnRuns ==
  ASSUME NEW fs \in Seq(Frame), NEW ls \in Seq(Activation), ls # <<>>,
         Lower(fs, ls, Len(ls) - 1), Base(ls, Len(ls) - 1) <= Len(fs)
  PROVE  /\ Runs(fs, Append(Pop(ls), Loop(Len(fs))))
         /\ TopBecomes(ls, Append(Pop(ls), Loop(Len(fs))), Loop(Len(fs)))
         /\ Append(Pop(ls), Loop(Len(fs))) \in Seq(Activation)
         /\ fs # <<>> /\ ~IsSentinel(fs, Len(fs))
<1> DEFINE w   == Len(ls) - 1
           l   == Loop(Len(fs))
           ls2 == Append(Pop(ls), l)
<1>1. w \in Nat
  BY EmptySeq
<1>2. Lower(fs, ls, w) /\ Base(ls, w) <= Len(fs)
  OBVIOUS
<1>3. Ordered(ls, w) /\ \A i \in DOMAIN fs : i >= Base(ls, w) => Above(fs[i], i, ls, w)
  BY <1>1, <1>2, InOrder, AboveIs
<1>4. Len(fs) \in Nat \ {0}
  BY <1>2, <1>3 DEF Ordered
<1>5. l \in Activation /\ l.at = Len(fs) /\ Idle(l)
  BY <1>4, LoopFields
<1> HIDE DEF l
<1>6. TopBecomes(ls, ls2, l)
  BY <1>5, TopAppended
<1> HIDE DEF ls2
<1>7. ls2 \in Seq(Activation) /\ Len(ls2) = w + 1 /\ ls2[w + 1] = l /\ \A k \in 1..w : ls2[k] = ls[k]
  BY <1>1, <1>6 DEF TopBecomes
<1> HIDE DEF w
<1>8. Lower(fs, ls2, w)
  <2>1. w <= Len(ls2)
    BY <1>1, <1>7
  <2> QED
    BY <1>1, <1>2, <1>7, <2>1, LowerLoops
<1>9. Base(ls2, w) = Base(ls, w)
  BY <1>1, <1>7 DEF Base
<1>10. Runs(fs, ls2)
  <2>1. Len(ls2) - 1 = w /\ Len(ls2) > 0 /\ Len(ls2) = w + 1
    BY <1>1, <1>7
  <2> QED
    BY <1>2, <1>5, <1>7, <1>8, <1>9, <2>1 DEF Runs
<1>11. fs # <<>> /\ ~IsSentinel(fs, Len(fs))
  <2>1. Above(fs[Len(fs)], Len(fs), ls, w)
    BY <1>2, <1>3, <1>4
  <2> QED
    BY <1>4, <2>1, EmptySeq DEF IsSentinel, Above
<1> QED
  BY <1>6, <1>7, <1>10, <1>11 DEF l, ls2

LEMMA CaughtRuns ==
  ASSUME NEW fs \in Seq(Frame), NEW ls \in Seq(Activation), ls # <<>>,
         Lower(fs, ls, Len(ls) - 1), NEW h \in 1..Len(fs), Base(ls, Len(ls) - 1) <= h
  PROVE  /\ Caught(fs, h) \in Seq(Frame) /\ Len(Caught(fs, h)) = h
         /\ Lower(Caught(fs, h), ls, Len(ls) - 1)
         /\ \A n \in Nat : Windows(fs, n) => Windows(Caught(fs, h), n)
<1>1. Len(ls) - 1 \in Nat
  BY EmptySeq
<1>2. Lower(Caught(fs, h), ls, Len(ls) - 1)
  BY <1>1, LowerCaught
<1>3. /\ Caught(fs, h) \in Seq(Frame)
      /\ Len(Caught(fs, h)) = h
      /\ \A i \in 1..h : i # h => Caught(fs, h)[i] = fs[i]
      /\ Caught(fs, h)[h] = [fs[h] EXCEPT !.covered = FALSE]
  BY CaughtIs
<1>4. Caught(fs, h)[h].kind = fs[h].kind /\ Caught(fs, h)[h].base = fs[h].base
      /\ Caught(fs, h)[h].alloc = fs[h].alloc
  BY <1>3, BlankCovers
<1>5. ASSUME NEW n \in Nat, Windows(fs, n) PROVE Windows(Caught(fs, h), n)
  <2>1. DOMAIN Caught(fs, h) = 1..h
    BY <1>3
  <2>2. \A i \in DOMAIN Caught(fs, h) : /\ Caught(fs, h)[i].kind = fs[i].kind
                                        /\ Caught(fs, h)[i].base = fs[i].base
                                        /\ Caught(fs, h)[i].alloc = fs[i].alloc
    BY <1>3, <1>4, <2>1
  <2>3. Len(Caught(fs, h)) <= Len(fs)
    BY <1>3
  <2> QED
    BY <1>3, <1>5, <2>2, <2>3, WindowsStay
<1> QED
  BY <1>2, <1>3, <1>5

LEMMA CutWindows ==
  ASSUME NEW fs \in Seq(Frame), NEW n \in Nat, Windows(fs, n), NEW m \in 0..Len(fs)
  PROVE  Windows(SubSeq(fs, 1, m), n)
<1> DEFINE fs2 == SubSeq(fs, 1, m)
<1>1. fs2 \in Seq(Frame) /\ Len(fs2) = m /\ \A i \in 1..m : fs2[i] = fs[i]
  OBVIOUS
<1>2. DOMAIN fs2 = 1..m /\ Len(fs2) <= Len(fs)
  BY <1>1
<1> HIDE DEF fs2
<1>3. Windows(fs2, n)
  BY <1>1, <1>2, WindowsStay
<1> QED
  BY <1>3 DEF fs2

(* What remains at the boundary of the innermost loop.                     *)
LEMMA CutAtBoundary ==
  ASSUME NEW fs \in Seq(Frame), NEW ls \in Seq(Activation), NEW w \in Nat, w > 0,
         Lower(fs, ls, w), Base(ls, w) <= Len(fs), Handler(fs) < Base(ls, w),
         NEW m \in {ls[w].at + 1, ls[w].at + 2}
  PROVE  LET fs2 == SubSeq(fs, 1, m)
         IN  /\ fs2 \in Seq(Frame) /\ Len(fs2) = m /\ m \in Nat
             /\ Lower(fs2, ls, w)
             /\ Handler(fs2) = Handler(fs)
             /\ \A i \in DOMAIN fs2 : i > ls[w].at => ~fs2[i].covered
             /\ fs2[m] = fs[m]
             /\ fs2 # <<>>
<1> DEFINE fs2 == SubSeq(fs, 1, m)
<1>1. Ordered(ls, w) /\ w \in 1..w
  BY InOrder
<1>2. Base(ls, w) = ls[w].at + 2 /\ ls[w].at \in Nat
  BY <1>1 DEF Ordered
<1>3. m \in 0..Len(fs) /\ m > 0 /\ m > ls[w].at
  BY <1>2
<1>4. Lower(fs2, ls, w) /\ fs2 \in Seq(Frame) /\ Len(fs2) = m
  <2>1. ls[w].at <= m
    BY <1>2, <1>3
  <2> QED
    BY <1>3, <2>1, LowerCut
<1>5. \A i \in 1..m : fs2[i] = fs[i]
  BY <1>3
<1>6. Catches(fs, Handler(fs))
  BY HandlerCatches
<1> HIDE DEF fs2
<1>7. DOMAIN fs2 = 1..m /\ 1..m \subseteq DOMAIN fs
  BY <1>3, <1>4
<1>8. ls[w].at + 1 \in DOMAIN fs /\ ~fs[ls[w].at + 1].covered
  <2>1. ls[w].at + 1 \in DOMAIN fs
    BY <1>2
  <2> QED
    BY <1>1, <2>1 DEF Lower, Fits, FrameOK
<1>9. Handler(fs) \in 0..Len(fs) /\ Handler(fs) # ls[w].at + 1
  BY <1>2, <1>6, <1>8 DEF Catches
<1>10. Handler(fs) <= ls[w].at
  BY <1>2, <1>9
<1>11. ASSUME NEW i \in DOMAIN fs2, i > ls[w].at PROVE ~fs2[i].covered
  BY <1>2, <1>5, <1>6, <1>7, <1>9, <1>10, <1>11 DEF Catches
<1>12. Handler(fs2) = Handler(fs)
  BY <1>2, <1>3, <1>4, <1>5, <1>7, <1>9, <1>10, HandlerOfPrefix
<1>13. fs2 # <<>> /\ fs2[m] = fs[m]
  BY <1>3, <1>4, <1>5, EmptySeq
<1> QED
  BY <1>3, <1>4, <1>11, <1>12, <1>13 DEF fs2

LEMMA ThrowFirst ==
  ASSUME NEW fs, NEW v
  PROVE  /\ throwException(fs, Quiet, v) = FirstUnwind(fs, v)
         /\ \A r : Due(fs, Quiet, r) = IF ~r.exception.unwinding THEN 0 ELSE Handler(fs)
<1>1. Quiet.unwinding = FALSE /\ Quiet.crossed = FALSE
  BY DEF Quiet
<1>2. (Quiet.unwinding /\ Quiet.crossed) = FALSE /\ ~(Quiet.unwinding /\ ~Quiet.crossed /\ Quiet.current = v)
  BY <1>1
<1>3. throwException(fs, Quiet, v) = FirstUnwind(fs, v)
  BY <1>2, Zenon DEF throwException, FirstUnwind
<1>4. \A r : Due(fs, Quiet, r) = IF ~r.exception.unwinding THEN 0 ELSE Handler(fs)
  BY <1>1, Zenon DEF Due
<1> QED
  BY <1>3, <1>4

LEMMA OutcomeFields ==
  ASSUME NEW fs, NEW m, NEW v \in Thrown
  PROVE  /\ Stopped(fs, m, v).frames = SubSeq(fs, 1, m)
         /\ Unwinds(Stopped(fs, m, v).exception) /\ Stopped(fs, m, v).exception.unwinding
         /\ Stopped(fs, m, v).exception.current = v
         /\ Stopped(fs, m, v).exception \in Exceptions
         /\ Lost(v).frames = <<>> /\ LostAgain(v).frames = <<>>
         /\ Lost(v).exception.current = v /\ LostAgain(v).exception.current = v
         /\ Lost(v).exception.unwinding /\ LostAgain(v).exception.unwinding
         /\ Lost(v).exception \in Exceptions /\ LostAgain(v).exception \in Exceptions
BY ThrownIsNotNull DEF Stopped, Lost, LostAgain, Unwinds, Exceptions

LEMMA CaughtFields ==
  ASSUME NEW fs, NEW m
  PROVE  CaughtAt(fs, m).frames = Caught(fs, m) /\ CaughtAt(fs, m).exception = Quiet
BY DEF CaughtAt

LEMMA QuietFields == Quiet \in Exceptions /\ Quiet.unwinding = FALSE
BY DEF Quiet, Exceptions

LEMMA ReplyFields ==
  ASSUME NEW v \in Thrown
  PROVE  /\ Err(v) \in Replies /\ Ok \in Replies /\ NoReply \in Replies
         /\ Err(v) # NoReply /\ Ok # NoReply /\ Err(v) # Ok
         /\ Err(v).status = "error" /\ Err(v).value = v /\ Ok.status = "ok"
BY DEF Err, Ok, NoReply, Replies

LEMMA NoFrames ==
  /\ <<>> \in Seq(Frame)
  /\ Handler(<<>>) = 0
  /\ \A n \in Nat : Windows(<<>>, n)
<1>1. <<>> \in Seq(Frame) /\ Len(<<>>) = 0 /\ DOMAIN <<>> = {}
  BY EmptySeq
<1>2. Catches(<<>>, 0)
  BY <1>1 DEF Catches
<1> QED
  BY <1>1, <1>2, HandlerCatches DEF Windows

(* The state when the innermost loop throws v in its frame.                *)
Throws(fs, gs, v) ==
  /\ fs \in Seq(Frame) /\ loops \in Seq(Activation) /\ gs \in [Generators -> Suspensions]
  /\ nextRegSlot \in Nat
  /\ v \in Thrown
  /\ Runs(fs, loops)
  /\ Windows(fs, nextRegSlot)
  /\ Resting(gs)
  /\ Owned(loops, gs, NoReply)

LEMMA LoopsBelow ==
  ASSUME NEW fs, NEW ls \in Seq(Activation), Runs(fs, ls)
  PROVE  /\ Len(ls) \in Nat /\ Len(ls) > 0 /\ Len(ls) - 1 \in Nat /\ ls # <<>>
         /\ Lower(fs, ls, Len(ls) - 1) /\ Base(ls, Len(ls) - 1) <= Len(fs)
BY EmptySeq DEF Runs

(* One of its frames catches the exception.                                *)
LEMMA CaughtIsGood ==
  ASSUME NEW fs, NEW gs, NEW v, Throws(fs, gs, v),
         NEW h \in 1..Len(fs), h >= Base(loops, Len(loops) - 1)
  PROVE  /\ Good(Caught(fs, h), nextRegSlot, Quiet,
                 Append(Pop(loops), Loop(Len(Caught(fs, h)))), NoReply, gs, 0)
         /\ Caught(fs, h) # <<>> /\ ~IsSentinel(Caught(fs, h), Len(Caught(fs, h)))
<1> DEFINE fs2 == Caught(fs, h)
           ls2 == Append(Pop(loops), Loop(Len(fs2)))
<1>1. /\ fs \in Seq(Frame) /\ loops \in Seq(Activation) /\ gs \in [Generators -> Suspensions]
      /\ Runs(fs, loops) /\ Windows(fs, nextRegSlot) /\ nextRegSlot \in Nat
      /\ Resting(gs) /\ Owned(loops, gs, NoReply)
  BY DEF Throws
<1>2. loops # <<>> /\ Lower(fs, loops, Len(loops) - 1)
  BY <1>1, LoopsBelow
<1>3. fs2 \in Seq(Frame) /\ Len(fs2) = h /\ Lower(fs2, loops, Len(loops) - 1)
      /\ Windows(fs2, nextRegSlot)
  BY <1>1, <1>2, CaughtRuns
<1> HIDE DEF fs2
<1>4. /\ Runs(fs2, ls2) /\ TopBecomes(loops, ls2, Loop(Len(fs2))) /\ ls2 \in Seq(Activation)
      /\ fs2 # <<>> /\ ~IsSentinel(fs2, Len(fs2))
  BY <1>1, <1>2, <1>3, GoesOnRuns
<1> HIDE DEF ls2
<1>5. Owned(ls2, gs, NoReply)
  BY <1>1, <1>4, OwnedBelow
<1>6. Quiet \in Exceptions
  BY DEF Quiet, Exceptions
<1>7. Good(fs2, nextRegSlot, Quiet, ls2, NoReply, gs, 0)
  BY <1>1, <1>3, <1>4, <1>5, <1>6, GoodRunning
<1> QED
  BY <1>4, <1>7 DEF fs2, ls2

(* It reaches the frame that is a boundary itself.                         *)
LEMMA StoppedIsGood ==
  ASSUME NEW fs, NEW gs, NEW v, Throws(fs, gs, v), NEW w, w = Len(loops) - 1, w > 0,
         Handler(fs) < Base(loops, w), fs[loops[w].at + 2].direct,
         NEW fs2, fs2 = SubSeq(fs, 1, loops[w].at + 2),
         NEW ex \in Exceptions, Unwinds(ex)
  PROVE  /\ Good(fs2, nextRegSlot, ex,
                 Append(Pop(loops), Loop(Len(fs2))), NoReply, gs, Handler(fs))
         /\ fs2 # <<>> /\ ~IsSentinel(fs2, Len(fs2))
<1> DEFINE ls2 == Append(Pop(loops), Loop(Len(fs2)))
           m   == loops[w].at + 2
<1>1. /\ fs \in Seq(Frame) /\ loops \in Seq(Activation) /\ gs \in [Generators -> Suspensions]
      /\ Runs(fs, loops) /\ Windows(fs, nextRegSlot) /\ nextRegSlot \in Nat
      /\ Resting(gs) /\ Owned(loops, gs, NoReply)
  BY DEF Throws
<1>2. loops # <<>> /\ Lower(fs, loops, w) /\ w \in Nat /\ Base(loops, w) <= Len(fs)
  BY <1>1, LoopsBelow
<1>3. /\ fs2 \in Seq(Frame) /\ Len(fs2) = m /\ m \in Nat
      /\ Lower(fs2, loops, w)
      /\ Handler(fs2) = Handler(fs)
      /\ \A i \in DOMAIN fs2 : i > loops[w].at => ~fs2[i].covered
      /\ fs2[m] = fs[m]
  BY <1>1, <1>2, CutAtBoundary, ZenonT(30)
<1>4. Ordered(loops, w) /\ w \in 1..w
  BY <1>1, <1>2, InOrder
<1>5. Base(loops, w) = m /\ loops[w].at \in Nat /\ m \in 0..Len(fs) /\ m \in DOMAIN fs2
  BY <1>2, <1>3, <1>4 DEF Ordered
<1>6. Windows(fs2, nextRegSlot)
  BY <1>1, <1>5, CutWindows
<1>7. /\ Runs(fs2, ls2) /\ TopBecomes(loops, ls2, Loop(Len(fs2))) /\ ls2 \in Seq(Activation)
      /\ fs2 # <<>> /\ ~IsSentinel(fs2, Len(fs2))
  <2>1. Lower(fs2, loops, Len(loops) - 1) /\ Base(loops, Len(loops) - 1) <= Len(fs2)
    BY <1>3, <1>5
  <2> QED
    BY <1>1, <1>2, <1>3, <2>1, GoesOnRuns
<1>8. Owned(ls2, gs, NoReply)
  BY <1>1, <1>7, OwnedBelow
<1>9. Stops(fs2, ls2)
  <2>1. Above(fs[m], m, loops, w) /\ fs[m].direct
    BY <1>1, <1>2, <1>5, AboveIs
  <2>2. loops[w].call.entry # "throw"
    BY <1>2, <2>1 DEF Above
  <2>3. Waits(fs, loops, w) /\ loops[w] \in Activation
    BY <1>1, <1>2, <1>4 DEF Lower
  <2>4. loops[w].call.entry \in {"call", "next"}
    BY <2>2, <2>3, ActivationFields DEF Waits
  <2>5. Len(ls2) = w + 1 /\ ls2[w] = loops[w] /\ ls2[w + 1] = Loop(Len(fs2))
    <3>1. Len(loops) = w + 1 /\ w \in 1..Len(loops) - 1
      BY <1>1, <1>2, <1>4, LoopsBelow
    <3> HIDE DEF ls2
    <3> QED
      BY <1>7, <3>1 DEF TopBecomes
  <2>6. Len(ls2) - 1 = w /\ Len(ls2) > 1
    BY <1>2, <2>5
  <2>7. ~fs2[m].covered
    BY <1>3, <1>5
  <2>8. ls2[Len(ls2)].call = NoCall
    BY <2>5 DEF Loop
  <2> HIDE DEF ls2
  <2> QED
    BY <1>3, <2>1, <2>4, <2>5, <2>6, <2>7, <2>8 DEF Stops
<1> HIDE DEF ls2
<1>10. Good(fs2, nextRegSlot, ex, ls2, NoReply, gs, Handler(fs))
  BY <1>1, <1>3, <1>6, <1>7, <1>8, <1>9, GoodRunning
<1> QED
  BY <1>7, <1>10 DEF ls2

(* It reaches the sentinel, and run() panics.                              *)
LEMMA PanicIsGood ==
  ASSUME NEW fs, NEW gs, NEW v, Throws(fs, gs, v), NEW w, w = Len(loops) - 1, w > 0,
         Handler(fs) < Base(loops, w), NEW fs2, fs2 = SubSeq(fs, 1, loops[w].at + 1),
         NEW ex \in Exceptions, Unwinds(ex), NEW rp \in Replies, rp # NoReply,
         loops[w].call.entry # "next", rp = Ok => loops[w].call.entry = "call"
  PROVE  /\ Good(fs2, nextRegSlot, ex, Pop(loops), rp, gs, Handler(fs))
         /\ fs2 # <<>> /\ IsSentinel(fs2, Len(fs2))
<1> DEFINE m == loops[w].at + 1
<1>1. /\ fs \in Seq(Frame) /\ loops \in Seq(Activation) /\ gs \in [Generators -> Suspensions]
      /\ Runs(fs, loops) /\ Windows(fs, nextRegSlot) /\ nextRegSlot \in Nat
      /\ Resting(gs) /\ Owned(loops, gs, NoReply)
  BY DEF Throws
<1>2. loops # <<>> /\ Lower(fs, loops, w) /\ w \in Nat /\ Base(loops, w) <= Len(fs)
  BY <1>1, LoopsBelow
<1>3. /\ fs2 \in Seq(Frame) /\ Len(fs2) = m /\ m \in Nat
      /\ Lower(fs2, loops, w)
      /\ Handler(fs2) = Handler(fs)
      /\ \A i \in DOMAIN fs2 : i > loops[w].at => ~fs2[i].covered
      /\ fs2[m] = fs[m] /\ fs2 # <<>>
  BY <1>1, <1>2, CutAtBoundary
<1>4. Ordered(loops, w)
  BY <1>1, <1>2, InOrder
<1>5. Base(loops, w) = m + 1 /\ loops[w].at \in Nat /\ m \in 0..Len(fs)
  BY <1>2, <1>3, <1>4 DEF Ordered
<1>6. Windows(fs2, nextRegSlot)
  BY <1>1, <1>5, CutWindows
<1>7. Len(loops) > 1 /\ Len(fs2) <= loops[w].at + 2 /\ Len(fs2) = loops[w].at + 1
  BY <1>2, <1>3, <1>5
<1>8. IsSentinel(fs2, Len(fs2))
  <2>1. m \in DOMAIN fs /\ m \in DOMAIN fs2
    BY <1>2, <1>3, <1>5
  <2>2. fs[m].kind = "sentinel"
    BY <1>1, <1>2, <2>1, AboveIs
  <2> QED
    BY <1>3, <2>1, <2>2 DEF IsSentinel
<1>9. Good(fs2, nextRegSlot, ex, Pop(loops), rp, gs, Handler(fs))
  BY <1>1, <1>3, <1>6, <1>7, GoodEndedBadly
<1> QED
  BY <1>3, <1>8, <1>9

(* A native call fails while nothing is being unwound.                     *)
LEMMA FailsFirst ==
  ASSUME Plain, NEW fs, NEW gs, NEW v, Throws(fs, gs, v), NativeFails(fs, Quiet, v)
  PROVE  Good(frames', nextRegSlot, exception', loops', reply', gs, due')
<1> DEFINE w == Len(loops) - 1
           r == FirstUnwind(fs, v)
           h == Handler(fs)
           b == Bound(fs, loops, w)
<1>1. /\ fs \in Seq(Frame) /\ loops \in Seq(Activation) /\ gs \in [Generators -> Suspensions]
      /\ Runs(fs, loops) /\ Windows(fs, nextRegSlot) /\ nextRegSlot \in Nat
      /\ Resting(gs) /\ Owned(loops, gs, NoReply) /\ v \in Thrown
  BY DEF Throws
<1>2. loops # <<>> /\ Lower(fs, loops, w) /\ w \in Nat /\ Base(loops, w) <= Len(fs)
      /\ Len(loops) = w + 1
  BY <1>1, LoopsBelow
<1>3. Ordered(loops, w)
  BY <1>1, <1>2, InOrder
<1>4. ThrownFrom(fs, loops, w, v, r)
  BY <1>1, <1>2, FirstThrow
<1> HIDE DEF r
<1>5. /\ IsSentinel(r.frames, Len(r.frames)) /\ w > 0 => loops[w].call.entry # "throw"
      /\ exception' = r.exception
      /\ due' = IF ~r.exception.unwinding THEN 0 ELSE h
      /\ r.frames = <<>> => Ends(<<>>, Err(r.exception.current))
      /\ r.frames # <<>> /\ IsSentinel(r.frames, Len(r.frames)) => Ends(r.frames, Ok)
      /\ r.frames # <<>> /\ ~IsSentinel(r.frames, Len(r.frames)) => GoesOn(r.frames)
  <2>1. r = throwException(fs, Quiet, v) /\ Due(fs, Quiet, r) = IF ~r.exception.unwinding THEN 0 ELSE h
    BY ThrowFirst DEF r
  <2>2. "resumed" \notin Patterns
    BY DEF Plain
  <2>3. /\ IsSentinel(r.frames, Len(r.frames)) /\ Len(loops) > 1 /\ loops[Len(loops) - 1].call.entry = "throw"
               => "resumed" \in Patterns
        /\ exception' = r.exception
        /\ due' = Due(fs, Quiet, r)
        /\ IF r.frames = <<>> THEN Ends(<<>>, Err(r.exception.current))
           ELSE IF IsSentinel(r.frames, Len(r.frames)) THEN Ends(r.frames, Ok) ELSE GoesOn(r.frames)
    BY <2>1, Zenon DEF NativeFails
  <2>4. Len(loops) > 1 <=> w > 0
    BY <1>2
  <2> QED
    BY <2>1, <2>2, <2>3, <2>4
<1> HIDE DEF w, b, h
<1>6. CASE h >= Base(loops, w)
  <2>1. r = CaughtAt(fs, h) /\ h \in 0..Len(fs)
    BY <1>4, <1>6 DEF ThrownFrom, h
  <2>2. r.frames = Caught(fs, h) /\ r.exception = Quiet /\ ~Quiet.unwinding
    BY <2>1, CaughtFields, QuietFields
  <2>3. h \in 1..Len(fs)
    BY <1>3, <1>6, <2>1 DEF Ordered
  <2>4. /\ Good(Caught(fs, h), nextRegSlot, Quiet,
                 Append(Pop(loops), Loop(Len(Caught(fs, h)))), NoReply, gs, 0)
        /\ Caught(fs, h) # <<>> /\ ~IsSentinel(Caught(fs, h), Len(Caught(fs, h)))
    BY <1>6, <2>3, CaughtIsGood DEF w
  <2>5. GoesOn(Caught(fs, h)) /\ exception' = Quiet /\ due' = 0
    BY <1>5, <2>2, <2>4
  <2> QED
    BY <2>4, <2>5 DEF GoesOn
<1>7. CASE h < Base(loops, w) /\ w > 0
  <2>1. r = Stopped(fs, b, v)
    BY <1>4, <1>7 DEF ThrownFrom, h, b
  <2>2. /\ r.frames = SubSeq(fs, 1, b) /\ Unwinds(r.exception) /\ r.exception.unwinding
        /\ r.exception \in Exceptions
    BY <1>1, <2>1, OutcomeFields
  <2>3. due' = h /\ exception' \in Exceptions /\ Unwinds(exception')
    BY <1>5, <2>2
  <2>4. loops[w].at + 2 \in DOMAIN fs /\ Base(loops, w) = loops[w].at + 2 /\ loops[w].at \in Nat
    BY <1>1, <1>2, <1>3, <1>7 DEF Ordered
  <2>5. CASE fs[loops[w].at + 2].direct
    <3>1. b = loops[w].at + 2
      BY <1>7, <2>4, <2>5 DEF Bound, b
    <3>2. /\ Good(r.frames, nextRegSlot, exception',
                 Append(Pop(loops), Loop(Len(r.frames))), NoReply, gs, Handler(fs))
          /\ r.frames # <<>> /\ ~IsSentinel(r.frames, Len(r.frames))
      BY <1>7, <2>2, <2>3, <2>5, <3>1, StoppedIsGood DEF w, h
    <3> QED
      BY <1>5, <2>3, <3>2 DEF GoesOn, h
  <2>6. CASE ~fs[loops[w].at + 2].direct
    <3>1. b = loops[w].at + 1
      BY <1>7, <2>6 DEF Bound, b
    <3>7. loops[w].call.entry # "next"
      BY <1>1, <1>2, <1>7, <2>4, <2>6, AboveIs DEF Above
    <3>6. loops[w].call.entry # "throw"
      <4>1. r.frames = SubSeq(fs, 1, loops[w].at + 1)
        BY <2>2, <3>1
      <4>2. w = Len(loops) - 1
        BY DEF w
      <4>3. IsSentinel(r.frames, Len(r.frames))
        <5>1. Err(v) \in Replies /\ Err(v) # NoReply /\ Err(v) # Ok
          BY <1>1, ReplyFields
        <5> QED
          BY <1>7, <2>2, <2>3, <3>7, <4>1, <4>2, <5>1, PanicIsGood DEF h
      <4> QED
        BY <1>5, <1>7, <4>3
    <3>8. loops[w].call.entry = "call"
      <4>1. w \in 1..w /\ w \in DOMAIN loops
        BY <1>2, <1>7
      <4>2. Waits(fs, loops, w) /\ loops[w] \in Activation
        BY <1>1, <1>2, <4>1 DEF Lower
      <4> QED
        BY <3>6, <3>7, <4>2, ActivationFields DEF Waits
    <3>9. Ok \in Replies /\ Ok # NoReply
      BY <1>1, ReplyFields
    <3>10. w = Len(loops) - 1
      BY DEF w
    <3>11. /\ Good(r.frames, nextRegSlot, exception', Pop(loops), Ok, gs, Handler(fs))
           /\ r.frames # <<>> /\ IsSentinel(r.frames, Len(r.frames))
      BY <1>1, <1>7, <2>2, <2>3, <3>1, <3>7, <3>8, <3>9, <3>10, PanicIsGood DEF h
    <3> QED
      BY <1>5, <2>3, <3>11 DEF Ends, h
  <2> QED
    BY <2>5, <2>6
<1>8. CASE h < Base(loops, w) /\ w = 0
  <2>1. h = 0 /\ r = Lost(v)
    BY <1>4, <1>8 DEF ThrownFrom, h
  <2>2. /\ r.frames = <<>> /\ r.exception.current = v /\ r.exception.unwinding
        /\ r.exception \in Exceptions
    BY <1>1, <2>1, OutcomeFields
  <2>3. Ends(<<>>, Err(v)) /\ due' = 0 /\ exception' = r.exception
    BY <1>5, <2>1, <2>2
  <2>4. DueOK(<<>>, exception', 0)
    BY <2>2, <2>3, NoFrames DEF DueOK
  <2>5. Err(v) \in Replies /\ Err(v) # NoReply
    BY <1>1, ReplyFields
  <2>6. Len(loops) = 1 /\ exception' \in Exceptions /\ Windows(<<>>, nextRegSlot) /\ <<>> \in Seq(Frame)
    BY <1>1, <1>2, <1>8, <2>2, <2>3, NoFrames
  <2>7. Good(<<>>, nextRegSlot, exception', Pop(loops), Err(v), gs, 0)
    BY <1>1, <2>4, <2>5, <2>6, GoodEnd
  <2> QED
    BY <2>3, <2>7 DEF Ends
<1>9. h \in Nat /\ Base(loops, w) \in Nat
  BY <1>3, <1>4 DEF ThrownFrom, Ordered, h
<1> QED
  BY <1>2, <1>6, <1>7, <1>8, <1>9

-----------------------------------------------------------------------------
(* A native function is answered: the loop above it has ended.             *)

LEMMA AnsweredRuns ==
  ASSUME NEW fs \in Seq(Frame), NEW ls \in Seq(Activation), Len(ls) > 0,
         Lower(fs, ls, Len(ls)), Len(fs) = ls[Len(ls)].at,
         NEW ls2, NEW l, TopBecomes(ls, ls2, l), l.at = Len(fs), Idle(l)
  PROVE  Runs(fs, ls2)
<1> DEFINE n == Len(ls)
<1>1. n \in Nat /\ n > 0 /\ Lower(fs, ls, n) /\ Len(fs) = ls[n].at /\ Len(fs) \in Nat
  OBVIOUS
<1>2. ls2 \in Seq(Activation) /\ Len(ls2) = n /\ ls2[n] = l /\ \A k \in 1..n - 1 : ls2[k] = ls[k]
  BY DEF TopBecomes
<1> HIDE DEF n
<1>3. Lower(SubSeq(fs, 1, ls[n].at), ls, n - 1) /\ Base(ls, n - 1) <= ls[n].at
  BY <1>1, LowerDrops
<1>4. SubSeq(fs, 1, ls[n].at) = fs
  BY <1>1
<1>5. Lower(fs, ls2, n - 1)
  <2>1. n - 1 <= Len(ls2) /\ n - 1 \in Nat
    BY <1>1, <1>2
  <2> QED
    BY <1>2, <1>3, <1>4, <2>1, LowerLoops
<1>6. Base(ls2, n - 1) = Base(ls, n - 1)
  BY <1>1, <1>2 DEF Base
<1> QED
  BY <1>1, <1>2, <1>3, <1>5, <1>6 DEF Runs

(* The body that the loop above has run no longer executes.                *)
LEMMA OwnedAnswered ==
  ASSUME NEW ls \in Seq(Activation), Len(ls) > 0, NEW gs, NEW gs2, NEW rp, rp # NoReply,
         Owned(ls, gs, rp),
         \A x \in Generators : x # ls[Len(ls)].call.gen => gs2[x] = gs[x],
         ls[Len(ls)].call.gen # Null => gs2[ls[Len(ls)].call.gen].state # "executing"
  PROVE  Owned(ls, gs2, NoReply)
<1> DEFINE n == Len(ls)
           g == ls[n].call.gen
<1>1. n \in Nat /\ n > 0 /\ n \in 1..n /\ 1..n - 1 \subseteq 1..n
  OBVIOUS
<1>2. Distinct(ls, n) /\ Executing(ls, gs, n - 1) /\ NoOthers(ls, gs, n)
  BY DEF Owned
<1> HIDE DEF n
<1>3. Distinct(ls, n - 1)
  BY <1>1, <1>2 DEF Distinct
<1>4. ASSUME NEW k \in 1..n - 1, ls[k].call.gen # Null
      PROVE  ls[k].call.gen \in Generators /\ ls[k].call.gen # g
  <2>1. k \in 1..n /\ k # n /\ ls[k] \in Activation
    BY <1>1 DEF n
  <2>2. ls[k].call.gen # g
    BY <1>1, <1>2, <1>4, <2>1 DEF Distinct
  <2> QED
    BY <1>4, <2>1, <2>2, ActivationFields DEF Bodied
<1>5. Executing(ls, gs2, n - 1)
  <2>1. ASSUME NEW k \in 1..n - 1, ls[k].call.gen # Null
        PROVE  gs2[ls[k].call.gen].state = "executing"
    BY <1>2, <1>4, <2>1 DEF Executing, n
  <2> QED
    BY <2>1 DEF Executing
<1>6. NoOthers(ls, gs2, n - 1)
  <2>1. ASSUME NEW x \in Generators, gs2[x].state = "executing"
        PROVE  \E k \in 1..n - 1 : ls[k].call.gen = x
    <3>1. x # Null
      BY NullAssumption
    <3>2. x # g
      BY <2>1, <3>1 DEF n
    <3>3. gs[x].state = "executing"
      BY <2>1, <3>2 DEF n
    <3>4. PICK k \in 1..n : ls[k].call.gen = x
      BY <1>2, <3>3 DEF NoOthers
    <3>5. k # n
      BY <3>2, <3>4
    <3> QED
      BY <3>4, <3>5, <1>1
  <2> QED
    BY <2>1 DEF NoOthers
<1> QED
  BY <1>3, <1>5, <1>6 DEF Owned, n

(* What is left below the loop, with n registers and these bodies.         *)
Waited(fs, n, gs) ==
  /\ fs \in Seq(Frame) /\ loops \in Seq(Activation) /\ gs \in [Generators -> Suspensions]
  /\ n \in Nat
  /\ Len(loops) > 0
  /\ Lower(fs, loops, Len(loops))
  /\ Windows(fs, n)
  /\ Resting(gs)
  /\ Owned(loops, gs, NoReply)

LEMMA Answered ==
  ASSUME NEW fs, NEW n, NEW gs, Waited(fs, n, gs), Len(fs) = Top(loops).at,
         NEW l \in Activation, l.at = Len(fs), Idle(l)
  PROVE  Good(fs, n, Quiet, [loops EXCEPT ![Len(loops)] = l], NoReply, gs, 0)
<1> DEFINE ls2 == [loops EXCEPT ![Len(loops)] = l]
<1>1. /\ fs \in Seq(Frame) /\ loops \in Seq(Activation) /\ gs \in [Generators -> Suspensions]
      /\ n \in Nat /\ Len(loops) > 0 /\ Lower(fs, loops, Len(loops))
      /\ Windows(fs, n) /\ Resting(gs) /\ Owned(loops, gs, NoReply)
      /\ loops # <<>>
  BY EmptySeq DEF Waited
<1>2. TopBecomes(loops, ls2, l)
  BY <1>1, TopReplaced
<1> HIDE DEF ls2
<1>3. Runs(fs, ls2)
  BY <1>1, <1>2, AnsweredRuns DEF Top
<1>4. Owned(ls2, gs, NoReply) /\ ls2 \in Seq(Activation)
  BY <1>1, <1>2, OwnedBelow DEF TopBecomes
<1>5. Good(fs, n, Quiet, ls2, NoReply, gs, 0)
  BY <1>1, <1>3, <1>4, GoodRunning, QuietFields
<1> QED
  BY <1>5 DEF ls2

(* The activation when its native call is over, or its callback.           *)
LEMMA CallOver ==
  ASSUME NEW l \in Activation, NEW at \in Nat \ {0}
  PROVE  LET l2 == [[l EXCEPT !.call = NoCall] EXCEPT !.at = at]
         IN  l2 \in Activation /\ l2.at = at /\ Idle(l2)
BY DEF Activation, NoCall, Awaited, Idle, Bodied

LEMMA EntryOver ==
  ASSUME NEW l \in Activation
  PROVE  LET l2 == [l EXCEPT !.call.entry = "none", !.call.gen = Null]
         IN  /\ l2 \in Activation /\ l2.at = l.at /\ l2.call.native = l.call.native
             /\ l2.call.entry = "none" /\ l2.call.gen = Null
BY DEF Activation, Awaited, Bodied

LEMMA AnswersWell ==
  ASSUME NEW fs, NEW n, NEW gs, NEW r, Waited(fs, n, gs), Len(fs) = Top(loops).at,
         r.status = "ok", CallbackEnds(fs, Quiet, r)
  PROVE  Good(frames', n, exception', loops', reply', gs, due')
<1> DEFINE m == Len(loops)
           l == loops[m]
<1>1. loops \in Seq(Activation) /\ m \in Nat /\ m > 0 /\ m \in DOMAIN loops /\ Lower(fs, loops, m)
  BY DEF Waited
<1>2. l \in Activation /\ l.at \in Nat /\ l.at > 0
  BY <1>1, ActivationFields
<1>3. l.call.native # "none" /\ Len(fs) = l.at /\ Top(loops) = l
  BY <1>1 DEF Lower, Waits, Top
<1>4. ~Quiet.unwinding
  BY QuietFields
<1>5. CASE l.call.native = "generator"
  <2> DEFINE l2 == [[l EXCEPT !.call = NoCall] EXCEPT !.at = l.at]
  <2>1. NativeSucceeds(fs, Quiet)
    BY <1>3, <1>5 DEF CallbackEnds
  <2>2. /\ exception' = Quiet /\ due' = 0 /\ frames' = fs /\ reply' = NoReply
        /\ loops' = [loops EXCEPT ![m].call = NoCall, ![m].at = l.at]
    BY <1>3, <1>4, <2>1 DEF NativeSucceeds
  <2>3. [loops EXCEPT ![m].call = NoCall, ![m].at = l.at] = [loops EXCEPT ![m] = l2]
    BY <1>1
  <2>4. l2 \in Activation /\ l2.at = l.at /\ Idle(l2)
    <3>1. l.at \in Nat \ {0}
      BY <1>2
    <3> HIDE DEF l
    <3> QED
      BY <1>2, <3>1, CallOver
  <2> HIDE DEF l2
  <2>5. l2.at = Len(fs) /\ Len(fs) = Top(loops).at
    BY <1>3, <2>4
  <2>6. Good(fs, n, Quiet, [loops EXCEPT ![m] = l2], NoReply, gs, 0)
    BY <2>4, <2>5, Answered
  <2> QED
    BY <2>2, <2>3, <2>6
<1>6. CASE l.call.native # "generator"
  <2> DEFINE l2 == [l EXCEPT !.call.entry = "none", !.call.gen = Null]
  <2>1. /\ exception' = Quiet /\ due' = 0 /\ frames' = fs /\ reply' = NoReply
        /\ loops' = [loops EXCEPT ![m].call.entry = "none", ![m].call.gen = Null]
    BY <1>3, <1>4, <1>6 DEF CallbackEnds
  <2>2. [loops EXCEPT ![m].call.entry = "none", ![m].call.gen = Null] = [loops EXCEPT ![m] = l2]
    BY <1>1
  <2>3. /\ l2 \in Activation /\ l2.at = l.at /\ l2.call.native = l.call.native
        /\ l2.call.entry = "none" /\ l2.call.gen = Null
    BY <1>2, EntryOver
  <2> HIDE DEF l2
  <2>4. Idle(l2)
    BY <1>3, <1>6, <2>3 DEF Idle
  <2> QED
    BY <1>3, <2>1, <2>2, <2>3, <2>4, Answered
<1> QED
  BY <1>5, <1>6

LEMMA ThrowAgain ==
  ASSUME NEW fs, NEW v, NEW ex, ex.unwinding, ex.crossed
  PROVE  /\ throwException(fs, ex, v) = SecondUnwind(fs, v)
         /\ \A r : Due(fs, ex, r) = IF ~r.exception.unwinding THEN 0 ELSE due
<1>1. (ex.unwinding /\ ex.crossed) = TRUE /\ ~(ex.unwinding /\ ~ex.crossed /\ ex.current = v)
  OBVIOUS
<1>2. throwException(fs, ex, v) = SecondUnwind(fs, v)
  BY <1>1, Zenon DEF throwException, SecondUnwind
<1>3. \A r : Due(fs, ex, r) = IF ~r.exception.unwinding THEN 0 ELSE due
  BY Zenon DEF Due
<1> QED
  BY <1>2, <1>3

(* The exception that has ended the loop above is thrown again below: by   *)
(* the invariant it is caught there, or the script ends with it.           *)
LEMMA FailsAgain ==
  ASSUME NEW fs, NEW n, NEW gs, NEW ex, NEW v \in Thrown, Waited(fs, n, gs),
         ex.unwinding, ex.crossed, due = Handler(fs),
         \A i \in DOMAIN fs : i > loops[Len(loops)].at => ~fs[i].covered,
         NativeFails(fs, ex, v)
  PROVE  Good(frames', n, exception', loops', reply', gs, due')
<1> DEFINE w == Len(loops)
           r == SecondUnwind(fs, v)
           h == Handler(fs)
<1>1. /\ fs \in Seq(Frame) /\ loops \in Seq(Activation) /\ gs \in [Generators -> Suspensions]
      /\ n \in Nat /\ w \in Nat /\ w > 0 /\ Lower(fs, loops, w)
      /\ Windows(fs, n) /\ Resting(gs) /\ Owned(loops, gs, NoReply)
  BY DEF Waited
<1>2. ThrownAgain(fs, loops, w, v, r)
  BY <1>1, Rethrow
<1>3. Ordered(loops, w)
  BY <1>1, InOrder
<1> HIDE DEF r
<1>4. /\ exception' = r.exception
      /\ due' = IF ~r.exception.unwinding THEN 0 ELSE due
      /\ r.frames = <<>> => Ends(<<>>, Err(r.exception.current))
      /\ r.frames # <<>> /\ ~IsSentinel(r.frames, Len(r.frames)) => GoesOn(r.frames)
  <2>1. r = throwException(fs, ex, v) /\ Due(fs, ex, r) = IF ~r.exception.unwinding THEN 0 ELSE due
    BY ThrowAgain DEF r
  <2>2. /\ exception' = r.exception
        /\ due' = Due(fs, ex, r)
        /\ IF r.frames = <<>> THEN Ends(<<>>, Err(r.exception.current))
           ELSE IF IsSentinel(r.frames, Len(r.frames)) THEN Ends(r.frames, Ok) ELSE GoesOn(r.frames)
    BY <2>1, Zenon DEF NativeFails
  <2> QED
    BY <2>1, <2>2
<1>5. loops # <<>>
  BY <1>1, EmptySeq
<1> HIDE DEF w, h
<1>6. CASE h > 0
  <2>1. h >= Base(loops, w - 1) /\ r = CaughtAt(fs, h) /\ h \in 0..loops[w].at
    BY <1>2, <1>6 DEF ThrownAgain, h
  <2>2. r.frames = Caught(fs, h) /\ r.exception = Quiet /\ ~Quiet.unwinding
    BY <2>1, CaughtFields, QuietFields
  <2> DEFINE fs1 == SubSeq(fs, 1, loops[w].at)
             fs2 == Caught(fs, h)
             ls2 == Append(Pop(loops), Loop(Len(fs2)))
  <2>3. loops[w].at \in Nat /\ loops[w].at <= Len(fs)
    BY <1>1, <1>3 DEF Ordered, Lower
  <2>4. fs1 \in Seq(Frame) /\ Len(fs1) = loops[w].at /\ Lower(fs1, loops, w - 1)
    BY <1>1, <2>3, LowerDrops
  <2>5. h \in 1..Len(fs) /\ h \in 1..Len(fs1)
    BY <1>6, <2>1, <2>3, <2>4
  <2>6. Caught(fs1, h) = fs2
    <3>1. SubSeq(fs1, 1, h) = SubSeq(fs, 1, h)
      BY <2>3, <2>5
    <3> QED
      BY <3>1 DEF Caught
  <2>7. w = Len(loops)
    BY DEF w
  <2>8. /\ fs2 \in Seq(Frame) /\ Len(fs2) = h
        /\ Lower(fs2, loops, Len(loops) - 1)
    <3>1. Caught(fs1, h) \in Seq(Frame) /\ Len(Caught(fs1, h)) = h
        /\ Lower(Caught(fs1, h), loops, Len(loops) - 1)
      <4> HIDE DEF fs1, fs2
      <4> QED
        BY <1>1, <1>5, <2>1, <2>4, <2>5, <2>7, CaughtRuns
    <3> QED
      BY <2>6, <3>1
  <2>9. Windows(fs2, n)
    <3>1. Windows(fs1, n)
      <4>1. loops[w].at \in 0..Len(fs)
        BY <2>3
      <4> QED
        BY <1>1, <4>1, CutWindows
    <3>2. Windows(Caught(fs1, h), n)
      <4> HIDE DEF fs1, fs2
      <4> QED
        BY <1>1, <1>5, <2>1, <2>4, <2>5, <2>7, <3>1, CaughtRuns
    <3> QED
      BY <2>6, <3>2
  <2> HIDE DEF fs1, fs2
  <2>10. /\ Runs(fs2, ls2) /\ TopBecomes(loops, ls2, Loop(Len(fs2))) /\ ls2 \in Seq(Activation)
         /\ fs2 # <<>> /\ ~IsSentinel(fs2, Len(fs2))
    BY <1>1, <1>5, <2>1, <2>7, <2>8, GoesOnRuns
  <2> HIDE DEF ls2
  <2>11. Owned(ls2, gs, NoReply)
    BY <1>1, <2>10, OwnedBelow
  <2>12. Good(fs2, n, Quiet, ls2, NoReply, gs, 0)
    BY <1>1, <2>8, <2>9, <2>10, <2>11, GoodRunning, QuietFields
  <2>13. GoesOn(fs2) /\ exception' = Quiet /\ due' = 0
    BY <1>4, <2>2, <2>10 DEF fs2
  <2> QED
    BY <2>12, <2>13 DEF GoesOn, ls2
<1>7. CASE h = 0
  <2>1. w = 1 /\ r = LostAgain(v)
    BY <1>2, <1>7 DEF ThrownAgain, h
  <2>2. /\ r.frames = <<>> /\ r.exception.current = v /\ r.exception.unwinding
        /\ r.exception \in Exceptions
    BY <1>1, <2>1, OutcomeFields
  <2>3. Ends(<<>>, Err(v)) /\ due' = 0 /\ exception' = r.exception
    BY <1>4, <1>7, <2>2 DEF h
  <2>4. DueOK(<<>>, exception', 0)
    BY <2>2, <2>3, NoFrames DEF DueOK
  <2>5. Err(v) \in Replies /\ Err(v) # NoReply
    BY <1>1, ReplyFields
  <2>6. Len(loops) = 1 /\ exception' \in Exceptions /\ Windows(<<>>, n) /\ <<>> \in Seq(Frame)
    BY <1>1, <2>1, <2>2, <2>3, NoFrames DEF w
  <2>7. Good(<<>>, n, exception', Pop(loops), Err(v), gs, 0)
    BY <1>1, <2>4, <2>5, <2>6, GoodEnd
  <2> QED
    BY <2>3, <2>7 DEF Ends
<1>8. h \in Nat
  BY <1>2, <1>3 DEF ThrownAgain, Ordered, h
<1> QED
  BY <1>6, <1>7, <1>8

LEMMA AnswersBadly ==
  ASSUME Plain, NEW fs, NEW n, NEW gs, NEW ex, NEW r, Waited(fs, n, gs), r.status = "error",
         r.value \in Thrown, ex.unwinding, ex.crossed, due = Handler(fs),
         \A i \in DOMAIN fs : i > loops[Len(loops)].at => ~fs[i].covered,
         CallbackEnds(fs, ex, r)
  PROVE  Good(frames', n, exception', loops', reply', gs, due')
<1> DEFINE m == Len(loops)
<1>1. loops \in Seq(Activation) /\ m > 0 /\ m \in DOMAIN loops /\ Lower(fs, loops, m) /\ m \in 1..m
  BY DEF Waited
<1>2. Waits(fs, loops, m) /\ loops[m] \in Activation
  BY <1>1 DEF Lower
<1>3. loops[m].call.native \in {"propagates", "generator"}
  BY <1>2, ActivationFields DEF Waits, Plain
<1>4. NativeFails(fs, ex, r.value)
  BY <1>3 DEF CallbackEnds, Top
<1> QED
  BY <1>4, FailsAgain

-----------------------------------------------------------------------------
(* A loop is begun.                                                        *)

(* A loop is begun above one that is itself above another only when there  *)
(* is a try block among its frames: no exception has to cross both.        *)
LEMMA GuardedCovers ==
  ASSUME Plain, NEW fs \in Seq(Frame), loops \in Seq(Activation), Runs(fs, loops), Guarded(fs),
         Len(loops) > 1
  PROVE  \E i \in loops[Len(loops) - 1].at + 2 .. Len(fs) : fs[i].covered
<1> DEFINE w == Len(loops) - 1
           h == Handler(fs)
<1>1. w \in Nat /\ w > 0 /\ Lower(fs, loops, w) /\ Base(loops, w) <= Len(fs) /\ w \in 1..w
  BY LoopsBelow
<1>2. Ordered(loops, w)
  BY <1>1, InOrder
<1>3. Base(loops, w) = loops[w].at + 2 /\ loops[w].at \in Nat
  BY <1>1, <1>2 DEF Ordered
<1>4. Boundary(fs) = Bound(fs, loops, w)
  BY <1>1, <1>3, BoundaryIs
<1>5. h >= Boundary(fs)
  <2>1. Len(loops) # 1
    <3>1. \A x \in Nat : x > 1 => x # 1
      OBVIOUS
    <3>2. Len(loops) \in Nat
      BY LoopsBelow
    <3> QED
      BY <3>1, <3>2, Zenon
  <2>2. "nested" \notin Patterns
    BY DEF Plain
  <2> QED
    BY <2>1, <2>2 DEF Guarded
<1>6. Catches(fs, h)
  BY HandlerCatches
<1> HIDE DEF w, h
<1>7. Boundary(fs) >= loops[w].at + 1
  BY <1>1, <1>3, <1>4 DEF Bound
<1>8. h \in DOMAIN fs /\ fs[h].covered
  BY <1>3, <1>5, <1>6, <1>7, BoundaryType DEF Catches
<1>9. h # loops[w].at + 1
  BY <1>1, <1>8 DEF Lower, Fits, FrameOK
<1>10. h \in loops[w].at + 2 .. Len(fs)
  <2>1. h \in 0..Len(fs)
    BY <1>6 DEF Catches
  <2> QED
    BY <1>3, <1>5, <1>7, <1>9, <2>1, BoundaryType
<1> QED
  BY <1>8, <1>10 DEF w

(* An activation that waits for a loop that runs f.                        *)
Awaits(l, f) ==
  /\ l.call.native # "none"
  /\ l.call.entry # "none"
  /\ l.call.gen # Null <=> l.call.entry \in {"next", "throw"}
  /\ f.gen = l.call.gen
  /\ l.call.entry = "next" => f.direct
  /\ l.call.entry = "throw" => ~f.direct

(* fs2 is fs with a sentinel and f on top.                                 *)
Topped(fs, fs2, f) ==
  /\ fs2 \in Seq(Frame)
  /\ Len(fs2) = Len(fs) + 2
  /\ \A i \in 1..Len(fs) : fs2[i] = fs[i]
  /\ fs2[Len(fs) + 1] = Sentinel
  /\ fs2[Len(fs) + 2] = f

LEMMA SentinelFields ==
  /\ Sentinel \in Frame /\ Sentinel.kind = "sentinel" /\ ~Sentinel.covered
  /\ ~Sentinel.direct /\ Sentinel.gen = Null
BY DEF Sentinel, Code, Frame, Bodied

LEMMA PushedLower ==
  ASSUME Plain, NEW fs \in Seq(Frame), loops \in Seq(Activation), Runs(fs, loops), Guarded(fs),
         NEW f \in Frame, FrameOK(f), f.kind = "code",
         NEW l \in Activation, l.at = Len(fs), Awaits(l, f),
         NEW fs2, Topped(fs, fs2, f),
         NEW ls2 \in Seq(Activation), Len(ls2) >= Len(loops), ls2[Len(loops)] = l,
         \A k \in 1..Len(loops) - 1 : ls2[k] = loops[k]
  PROVE  Lower(fs2, ls2, Len(loops))
<1> DEFINE w == Len(loops) - 1
<1>1. w \in Nat /\ Lower(fs, loops, w) /\ Base(loops, w) <= Len(fs) /\ Len(loops) = w + 1
  BY LoopsBelow
<1>2. ls2[w + 1] = l /\ w + 1 <= Len(ls2) /\ \A k \in 1..w : ls2[k] = loops[k]
  BY <1>1
<1>3. w > 0 => \E i \in loops[w].at + 2 .. Len(fs) : fs[i].covered
  BY <1>1, GuardedCovers
<1> HIDE DEF w
<1>4. Waits(fs, ls2, w + 1)
  <2>1. w + 1 > 1 => w \in 1..w /\ w > 0 /\ (w + 1) - 1 = w
    BY <1>1
  <2>2. (w + 1) - 1 = w
    BY <1>1
  <2> QED
    BY <1>2, <1>3, <2>1, <2>2 DEF Waits, Awaits
<1>5. Above(f, Len(fs) + 2, ls2, w + 1)
  BY <1>1, <1>2 DEF Above, Awaits
<1>6. fs2 \in Seq(Frame) /\ Len(fs2) = Len(fs) + 2 /\ (\A i \in 1..Len(fs) : fs2[i] = fs[i])
      /\ fs2[Len(fs) + 1] = Sentinel /\ fs2[Len(fs) + 2] = f
  BY DEF Topped
<1>7. ls2[w + 1].at = Len(fs)
  BY <1>2
<1>8. Lower(fs2, ls2, w + 1)
  BY <1>1, <1>2, <1>4, <1>5, <1>6, <1>7, SentinelFields, LowerPushed
<1> QED
  BY <1>1, <1>8

(* The bodies when a loop is begun for l.                                  *)
Started(gs, gs2, l) ==
  IF l.call.gen = Null THEN gs2 = gs
  ELSE /\ gs[l.call.gen].state # "executing"
       /\ gs2 = [gs EXCEPT ![l.call.gen] = [state |-> "executing", covered |-> FALSE]]

LEMMA StartedBodies ==
  ASSUME NEW gs \in [Generators -> Suspensions], NEW l \in Activation, NEW gs2,
         Started(gs, gs2, l), Resting(gs)
  PROVE  /\ gs2 \in [Generators -> Suspensions] /\ Resting(gs2)
         /\ \A g \in Generators : g # l.call.gen => gs2[g] = gs[g]
         /\ l.call.gen # Null => /\ gs[l.call.gen].state # "executing"
                                 /\ gs2[l.call.gen].state = "executing"
<1>1. CASE l.call.gen = Null
  BY <1>1 DEF Started
<1>2. CASE l.call.gen # Null
  <2> DEFINE g == l.call.gen
             s == [state |-> "executing", covered |-> FALSE]
  <2>1. g \in Generators
    BY <1>2, ActivationFields DEF Bodied
  <2>2. s \in Suspensions /\ s.state = "executing" /\ ~s.covered
    BY DEF Suspensions
  <2>3. gs2 = [gs EXCEPT ![g] = s] /\ gs[g].state # "executing"
    BY <1>2 DEF Started
  <2> HIDE DEF s, g
  <2>4. gs2 \in [Generators -> Suspensions] /\ gs2[g] = s /\ \A x \in Generators : x # g => gs2[x] = gs[x]
    BY <2>1, <2>2, <2>3
  <2>5. Resting(gs2)
    BY <2>1, <2>2, <2>4 DEF Resting
  <2> QED
    BY <2>2, <2>3, <2>4, <2>5 DEF g
<1> QED
  BY <1>1, <1>2

LEMMA StartedOwned ==
  ASSUME NEW ls \in Seq(Activation), Len(ls) > 0, NEW gs \in [Generators -> Suspensions],
         Owned(ls, gs, NoReply), Resting(gs),
         NEW l \in Activation, NEW gs2, Started(gs, gs2, l),
         NEW ls2 \in Seq(Activation), Len(ls2) = Len(ls) + 1, ls2[Len(ls)] = l,
         \A k \in 1..Len(ls) - 1 : ls2[k] = ls[k]
  PROVE  Owned(ls2, gs2, NoReply)
<1> DEFINE n == Len(ls)
           g == l.call.gen
<1>1. n \in Nat /\ n > 0 /\ Len(ls2) - 1 = n /\ ls2[n] = l /\ \A k \in 1..n - 1 : ls2[k] = ls[k]
  OBVIOUS
<1>2. Distinct(ls, n - 1) /\ Executing(ls, gs, n - 1) /\ NoOthers(ls, gs, n - 1)
  BY DEF Owned
<1>3. /\ \A x \in Generators : x # g => gs2[x] = gs[x]
      /\ g # Null => gs[g].state # "executing" /\ gs2[g].state = "executing"
  BY StartedBodies
<1>4. g \in Bodied
  BY ActivationFields
<1>5. ASSUME NEW k \in 1..n - 1, ls[k].call.gen # Null
      PROVE  ls[k].call.gen \in Generators /\ ls[k].call.gen # g
  <2>1. ls[k] \in Activation
    OBVIOUS
  <2>2. ls[k].call.gen \in Generators
    BY <1>5, <2>1, ActivationFields DEF Bodied
  <2>3. gs[ls[k].call.gen].state = "executing"
    BY <1>2, <1>5 DEF Executing
  <2> QED
    BY <1>3, <1>5, <2>2, <2>3
<1> HIDE DEF n, g
<1>6. \A k \in 1..n : k = n \/ k \in 1..n - 1
  BY <1>1
<1>7. Distinct(ls2, n)
  <2>1. ASSUME NEW k \in 1..n, NEW j \in 1..n, ls2[k].call.gen # Null,
               ls2[k].call.gen = ls2[j].call.gen
        PROVE  k = j
    <3>1. CASE k = n /\ j = n
      BY <3>1
    <3>2. CASE k = n /\ j \in 1..n - 1
      BY <1>1, <1>5, <2>1, <3>2 DEF g
    <3>3. CASE j = n /\ k \in 1..n - 1
      BY <1>1, <1>5, <2>1, <3>3 DEF g
    <3>4. CASE k \in 1..n - 1 /\ j \in 1..n - 1
      BY <1>1, <1>2, <2>1, <3>4 DEF Distinct
    <3> QED
      BY <1>6, <3>1, <3>2, <3>3, <3>4
  <2> QED
    BY <2>1 DEF Distinct
<1>8. Executing(ls2, gs2, n)
  <2>1. ASSUME NEW k \in 1..n, ls2[k].call.gen # Null
        PROVE  gs2[ls2[k].call.gen].state = "executing"
    <3>1. CASE k = n
      BY <1>1, <1>3, <2>1, <3>1 DEF g
    <3>2. CASE k \in 1..n - 1
      BY <1>1, <1>2, <1>3, <1>5, <2>1, <3>2 DEF Executing
    <3> QED
      BY <1>6, <3>1, <3>2
  <2> QED
    BY <2>1 DEF Executing
<1>9. NoOthers(ls2, gs2, n)
  <2>1. ASSUME NEW x \in Generators, gs2[x].state = "executing"
        PROVE  \E k \in 1..n : ls2[k].call.gen = x
    <3>1. CASE x = g
      <4>1. n \in 1..n
        BY <1>1
      <4> QED
        BY <1>1, <3>1, <4>1 DEF g
    <3>2. CASE x # g
      <4>1. PICK k \in 1..n - 1 : ls[k].call.gen = x
        BY <1>2, <1>3, <2>1, <3>2 DEF NoOthers
      <4>2. k \in 1..n
        BY <1>1
      <4> QED
        BY <1>1, <4>1, <4>2
    <3> QED
      BY <3>1, <3>2
  <2> QED
    BY <2>1 DEF NoOthers
<1> QED
  BY <1>1, <1>7, <1>8, <1>9 DEF Owned

(* A new loop runs f above the frame of l.                                 *)
LEMMA PushedIsGood ==
  ASSUME Plain, NEW fs, NEW gs, NEW v, Throws(fs, gs, v), Guarded(fs),
         NEW f \in Frame, FrameOK(f), f.kind = "code", f.base = nextRegSlot,
         NEW l \in Activation, l.at = Len(fs), Awaits(l, f),
         NEW fs2, Topped(fs, fs2, f), NEW gs2, Started(gs, gs2, l)
  PROVE  Good(fs2, nextRegSlot + f.alloc, Quiet,
              Append([loops EXCEPT ![Len(loops)] = l], Loop(Len(fs2))), NoReply, gs2, 0)
<1> DEFINE n   == Len(loops)
           ls1 == [loops EXCEPT ![n] = l]
           l2  == Loop(Len(fs2))
           ls2 == Append(ls1, l2)
<1>1. /\ fs \in Seq(Frame) /\ loops \in Seq(Activation) /\ gs \in [Generators -> Suspensions]
      /\ Runs(fs, loops) /\ Windows(fs, nextRegSlot) /\ nextRegSlot \in Nat
      /\ Resting(gs) /\ Owned(loops, gs, NoReply)
  BY DEF Throws
<1>2. n \in Nat /\ n > 0 /\ loops # <<>>
  BY <1>1, LoopsBelow
<1>3. TopBecomes(loops, ls1, l)
  BY <1>1, <1>2, TopReplaced
<1>4. fs2 \in Seq(Frame) /\ Len(fs2) = Len(fs) + 2 /\ Len(fs) \in Nat
      /\ (\A i \in 1..Len(fs) : fs2[i] = fs[i])
      /\ fs2[Len(fs) + 1] = Sentinel /\ fs2[Len(fs) + 2] = f
  BY <1>1 DEF Topped
<1>5. l2 \in Activation /\ l2.at = Len(fs2) /\ Idle(l2)
  BY <1>4, LoopFields
<1> HIDE DEF ls1, l2
<1>6. ls2 \in Seq(Activation) /\ Len(ls2) = n + 1 /\ ls2[n] = l /\ ls2[n + 1] = l2
      /\ \A k \in 1..n - 1 : ls2[k] = loops[k]
  BY <1>2, <1>3, <1>5 DEF TopBecomes
<1> HIDE DEF ls2
<1>7. Lower(fs2, ls2, n)
  <2>1. Len(ls2) >= Len(loops)
    BY <1>2, <1>6
  <2> QED
    BY <1>1, <1>6, <2>1, PushedLower
<1>8. Runs(fs2, ls2)
  <2>1. Base(ls2, n) = Len(fs2) /\ Len(ls2) - 1 = n /\ Len(ls2) > 0
    BY <1>2, <1>4, <1>6 DEF Base
  <2>2. Base(ls2, n) <= Len(fs2)
    BY <1>4, <2>1
  <2> QED
    BY <1>5, <1>6, <1>7, <2>1, <2>2 DEF Runs
<1>9. Owned(ls2, gs2, NoReply) /\ gs2 \in [Generators -> Suspensions] /\ Resting(gs2)
  BY <1>1, <1>2, <1>6, StartedOwned, StartedBodies
<1>10. Windows(fs2, nextRegSlot + f.alloc)
  <2> DEFINE t == Len(fs) + 2
  <2>1. t \in DOMAIN fs2
    BY <1>4
  <2>2. f.alloc \in Nat /\ fs2[t].alloc = f.alloc /\ fs2[t].base = nextRegSlot
    BY <1>4, FrameFields
  <2>3. ASSUME NEW i \in DOMAIN fs2, i # t, fs2[i].kind = "code"
        PROVE  i \in DOMAIN fs /\ i < t /\ fs2[i] = fs[i]
    <3>1. i \in 1..Len(fs) \/ i = Len(fs) + 1
      BY <1>4, <2>3
    <3>2. i # Len(fs) + 1
      BY <1>4, <2>3, SentinelFields
    <3> QED
      BY <1>4, <3>1, <3>2
  <2> HIDE DEF t
  <2>4. \A i \in DOMAIN fs2 : i # t /\ fs2[i].kind = "code" =>
            /\ i \in DOMAIN fs /\ i < t
            /\ fs[i].kind = "code"
            /\ fs2[i].base = fs[i].base
            /\ fs2[i].alloc = fs[i].alloc
    BY <2>3
  <2> QED
    BY <1>1, <1>4, <2>1, <2>2, <2>4, WindowsGrow
<1>11. nextRegSlot + f.alloc \in Nat
  BY <1>1, FrameFields
<1>12. Good(fs2, nextRegSlot + f.alloc, Quiet, ls2, NoReply, gs2, 0)
  BY <1>4, <1>6, <1>8, <1>9, <1>10, <1>11, GoodRunning, QuietFields
<1> QED
  BY <1>12 DEF ls2, ls1, l2

-----------------------------------------------------------------------------
(* States in which a loop executes.                                        *)

LEMMA RunningIs ==
  ASSUME FramesInv, loops # <<>>, reply = NoReply
  PROVE  /\ frames \in Seq(Frame) /\ loops \in Seq(Activation)
         /\ generators \in [Generators -> Suspensions] /\ nextRegSlot \in Nat
         /\ Runs(frames, loops) /\ Windows(frames, nextRegSlot)
         /\ Resting(generators) /\ Owned(loops, generators, NoReply)
         /\ exception \in Exceptions /\ DueOK(frames, exception, due)
         /\ exception = Quiet \/ (exception.unwinding /\ Unwinds(exception) /\ Stops(frames, loops))
BY DEF FramesInv, Good, Shape, Unwinds

LEMMA QuietThrows ==
  ASSUME FramesInv, loops # <<>>, reply = NoReply, NEW v \in Thrown
  PROVE  Throws(frames, generators, v)
BY RunningIs DEF Throws

LEMMA AtThrows ==
  ASSUME FramesInv, loops # <<>>, reply = NoReply, NEW c \in BOOLEAN, NEW v \in Thrown
  PROVE  Throws(At(c), generators, v) /\ Len(At(c)) = Len(frames)
<1> DEFINE fs == Covering(frames, c)
           w  == Len(loops) - 1
           n  == Len(frames)
<1>1. /\ frames \in Seq(Frame) /\ loops \in Seq(Activation) /\ nextRegSlot \in Nat
      /\ generators \in [Generators -> Suspensions]
      /\ Runs(frames, loops) /\ Windows(frames, nextRegSlot)
      /\ Resting(generators) /\ Owned(loops, generators, NoReply)
  BY RunningIs
<1>2. At(c) = fs
  BY DEF At, Covering
<1>3. w \in Nat /\ Len(loops) > 0 /\ loops # <<>> /\ Lower(frames, loops, w) /\ Base(loops, w) <= n
  BY <1>1, LoopsBelow
<1>4. Ordered(loops, w)
  BY <1>1, <1>3, InOrder
<1>5. n \in Nat /\ n > 0
  <2>1. n \in Nat
    BY <1>1
  <2> HIDE DEF w, n
  <2> QED
    BY <1>3, <1>4, <2>1 DEF Ordered
<1>6. /\ fs \in Seq(Frame) /\ Len(fs) = n
      /\ \A i \in 1..n : i # n => fs[i] = frames[i]
      /\ fs[n] = [frames[n] EXCEPT !.covered = c]
  BY <1>1, <1>5, CoveringIs
<1>7. frames[n] \in Frame /\ n \in DOMAIN frames
  BY <1>1, <1>5
<1>8. fs[n].kind = frames[n].kind /\ fs[n].base = frames[n].base /\ fs[n].alloc = frames[n].alloc
  BY <1>6, <1>7, BlankCovers
<1>9. Above(fs[n], n, loops, w)
  <2>1. Above(frames[n], n, loops, w)
    BY <1>1, <1>3, <1>7, AboveIs
  <2> HIDE DEF fs, n, w
  <2> QED
    BY <1>6, <1>7, <2>1, AboveCovers
<1>10. \A i \in DOMAIN frames : i >= Base(loops, w) => Above(frames[i], i, loops, w)
  BY <1>1, <1>3, AboveIs
<1> HIDE DEF fs
<1>11. DOMAIN fs = 1..n /\ DOMAIN frames = 1..n
  BY <1>1, <1>6
<1>12. Runs(fs, loops)
  <2> DEFINE l == loops[Len(loops)]
  <2>1. TopBecomes(loops, loops, l) /\ l.at = Len(fs) /\ Idle(l)
    BY <1>1, <1>6 DEF TopBecomes, Runs
  <2>2. Base(loops, Len(loops) - 1) <= Len(fs)
    BY <1>3, <1>6
  <2>3. \A i \in DOMAIN fs : i < Base(loops, w) => fs[i] = frames[i]
    BY <1>3, <1>4, <1>6, <1>11 DEF Ordered
  <2>4. \A i \in DOMAIN fs : i >= Base(loops, w) => Above(fs[i], i, loops, w)
    BY <1>6, <1>9, <1>10, <1>11
  <2> HIDE DEF l
  <2> QED
    BY <1>1, <1>6, <2>1, <2>2, <2>3, <2>4, RunsOn
<1>13. Windows(fs, nextRegSlot)
  <2>1. \A i \in DOMAIN fs : /\ fs[i].kind = frames[i].kind
                             /\ fs[i].base = frames[i].base
                             /\ fs[i].alloc = frames[i].alloc
    BY <1>6, <1>8, <1>11
  <2>2. Len(fs) <= Len(frames)
    BY <1>5, <1>6
  <2> QED
    BY <1>1, <1>6, <2>1, <2>2, WindowsStay
<1> QED
  BY <1>1, <1>2, <1>6, <1>12, <1>13 DEF Throws

LEMMA UnhinderedIs ==
  ASSUME FramesInv, Unhindered
  PROVE  /\ loops # <<>> /\ reply = NoReply /\ exception = Quiet /\ due = 0
         /\ Top(loops).at = Len(frames) /\ Top(loops).call = NoCall
<1>1. loops # <<>> /\ reply = NoReply /\ ~exception.unwinding
      /\ Top(loops).at = Len(frames) /\ Top(loops).call = NoCall
  BY DEF Unhindered, Instruction, Running, InScript
<1>2. exception = Quiet
  BY <1>1, RunningIs
<1>3. due = 0
  BY <1>1, <1>2, RunningIs DEF DueOK
<1> QED
  BY <1>1, <1>2, <1>3

LEMMA CallingIs ==
  ASSUME Plain, FramesInv, Calling
  PROVE  /\ loops # <<>> /\ reply = NoReply /\ exception = Quiet /\ due = 0
         /\ Top(loops).at = Len(frames) /\ Top(loops).call = NoCall
<1>1. Unhindered
  BY DEF Calling, Unhindered, Plain
<1> QED
  BY <1>1, UnhinderedIs

LEMMA InNativeIs ==
  ASSUME Plain, FramesInv, InNative
  PROVE  /\ loops # <<>> /\ reply = NoReply /\ exception = Quiet /\ due = 0
         /\ Top(loops) = loops[Len(loops)] /\ loops[Len(loops)] \in Activation
         /\ Top(loops).at = Len(frames) /\ Top(loops).call.native = "propagates"
         /\ Top(loops).call.entry = "none" /\ Top(loops).call.gen = Null
<1>1. loops # <<>> /\ reply = NoReply /\ Top(loops).call.native = "propagates"
      /\ Top(loops).call.entry = "none"
  BY DEF InNative, Plain
<1>2. /\ Runs(frames, loops) /\ loops \in Seq(Activation) /\ DueOK(frames, exception, due)
      /\ exception = Quiet \/ (exception.unwinding /\ Unwinds(exception) /\ Stops(frames, loops))
  BY <1>1, RunningIs
<1>3. Top(loops).at = Len(frames) /\ Top(loops).call.gen = Null
  BY <1>2 DEF Runs, Top, Idle
<1>4. ~Stops(frames, loops)
  BY <1>1 DEF Stops, Top, NoCall
<1>5. Len(loops) \in DOMAIN loops
  BY <1>1, <1>2, LoopsBelow
<1> QED
  BY <1>1, <1>2, <1>3, <1>4, <1>5 DEF Top, DueOK

(* The loop goes on in its frame.                                          *)
LEMMA StaysIsGood ==
  ASSUME NEW fs, NEW gs, NEW v, Throws(fs, gs, v), NEW l \in Activation, l.at = Len(fs), Idle(l)
  PROVE  Good(fs, nextRegSlot, Quiet, [loops EXCEPT ![Len(loops)] = l], NoReply, gs, 0)
<1> DEFINE ls2 == [loops EXCEPT ![Len(loops)] = l]
           w   == Len(loops) - 1
<1>1. /\ fs \in Seq(Frame) /\ loops \in Seq(Activation) /\ gs \in [Generators -> Suspensions]
      /\ Runs(fs, loops) /\ Windows(fs, nextRegSlot) /\ nextRegSlot \in Nat
      /\ Resting(gs) /\ Owned(loops, gs, NoReply)
  BY DEF Throws
<1>2. loops # <<>> /\ w \in Nat /\ Lower(fs, loops, w) /\ Base(loops, w) <= Len(fs)
  BY <1>1, LoopsBelow
<1>3. TopBecomes(loops, ls2, l)
  BY <1>1, <1>2, TopReplaced
<1>4. \A i \in DOMAIN fs : i >= Base(loops, w) => Above(fs[i], i, loops, w)
  BY <1>1, <1>2, AboveIs
<1> HIDE DEF ls2
<1>5. Runs(fs, ls2)
  BY <1>1, <1>2, <1>3, <1>4, RunsOn
<1>6. Owned(ls2, gs, NoReply) /\ ls2 \in Seq(Activation)
  BY <1>1, <1>3, OwnedBelow DEF TopBecomes
<1>7. Good(fs, nextRegSlot, Quiet, ls2, NoReply, gs, 0)
  BY <1>1, <1>5, <1>6, GoodRunning, QuietFields
<1> QED
  BY <1>7 DEF ls2

(* A native call returns without an error, nothing being unwound.          *)
LEMMA SucceedsIsGood ==
  ASSUME NEW fs, NEW gs, NEW v, Throws(fs, gs, v), NativeSucceeds(fs, Quiet)
  PROVE  Good(frames', nextRegSlot, exception', loops', reply', gs, due')
<1> DEFINE m == Len(loops)
           l == loops[m]
           at == IF Len(fs) < l.call.count THEN Len(fs) ELSE l.at
           l2 == [[l EXCEPT !.call = NoCall] EXCEPT !.at = at]
<1>1. loops \in Seq(Activation) /\ m \in DOMAIN loops /\ l.at = Len(fs) /\ Top(loops) = l
  BY LoopsBelow DEF Throws, Runs, Top
<1>2. l \in Activation
  BY <1>1
<1>3. at = Len(fs) /\ Len(fs) \in Nat \ {0}
  BY <1>1, <1>2, ActivationFields
<1>4. /\ exception' = Quiet /\ due' = 0 /\ frames' = fs /\ reply' = NoReply
      /\ loops' = [loops EXCEPT ![m].call = NoCall, ![m].at = at]
  BY <1>1, QuietFields DEF NativeSucceeds
<1> HIDE DEF at
<1>5. [loops EXCEPT ![m].call = NoCall, ![m].at = at] = [loops EXCEPT ![m] = l2]
  BY <1>1
<1>6. l2 \in Activation /\ l2.at = at /\ Idle(l2)
  <2> HIDE DEF l
  <2> QED
    BY <1>2, <1>3, CallOver
<1> HIDE DEF l2
<1> QED
  BY <1>3, <1>4, <1>5, <1>6, StaysIsGood

-----------------------------------------------------------------------------
(* Each action keeps the invariant.                                        *)

LEMMA InvNext ==
  ASSUME Good(frames', nextRegSlot', exception', loops', reply', generators', due')
  PROVE  FramesInv'
BY DEF FramesInv

LEMMA EndOfInstructionKeeps ==
  ASSUME FramesInv, EndOfInstruction
  PROVE  FramesInv'
<1> DEFINE w == Len(loops) - 1
<1>1. loops # <<>> /\ reply = NoReply /\ exception.unwinding
      /\ Ends(frames, Err(exception.current))
      /\ nextRegSlot' = nextRegSlot /\ exception' = exception /\ generators' = generators
      /\ due' = due
  BY DEF EndOfInstruction, Running, InScript
<1>2. /\ frames \in Seq(Frame) /\ loops \in Seq(Activation)
      /\ generators \in [Generators -> Suspensions] /\ nextRegSlot \in Nat
      /\ Runs(frames, loops) /\ Windows(frames, nextRegSlot)
      /\ Resting(generators) /\ Owned(loops, generators, NoReply)
      /\ exception \in Exceptions /\ DueOK(frames, exception, due)
      /\ Unwinds(exception) /\ Stops(frames, loops)
  BY <1>1, RunningIs, QuietFields
<1>3. Lower(frames, loops, w) /\ w \in Nat /\ Len(loops) > 1 /\ w \in 1..w
  BY <1>2, LoopsBelow DEF Stops
<1>4. Ordered(loops, w)
  BY <1>2, <1>3, InOrder
<1>5. exception.current \in Thrown
  BY <1>2 DEF Exceptions, Unwinds
<1>6. /\ Err(exception.current) \in Replies /\ Err(exception.current) # NoReply
      /\ Err(exception.current) # Ok
  BY <1>5, ReplyFields
<1>7. loops[w].call.entry \in {"call", "next"} /\ Len(frames) = loops[w].at + 2
      /\ ~frames[Len(frames)].covered
  BY <1>2 DEF Stops
<1>8. ASSUME NEW i \in DOMAIN frames, i > loops[w].at PROVE ~frames[i].covered
  <2>1. i = loops[w].at + 1 \/ i = Len(frames)
    BY <1>2, <1>3, <1>4, <1>7, <1>8 DEF Ordered
  <2>2. CASE i = loops[w].at + 1
    BY <1>3, <2>2 DEF Lower, Fits, FrameOK
  <2> QED
    BY <1>7, <2>1, <2>2
<1>9. Good(frames, nextRegSlot, exception, Pop(loops), Err(exception.current), generators,
           Handler(frames))
  <2>1. Len(frames) <= loops[w].at + 2
    BY <1>2, <1>7
  <2> QED
    BY <1>2, <1>3, <1>6, <1>7, <1>8, <2>1, GoodEndedBadly
<1>10. due = Handler(frames)
  BY <1>1, <1>2 DEF DueOK
<1> QED
  BY <1>1, <1>9, <1>10, InvNext DEF Ends

LEMMA ScriptReturnsKeeps ==
  ASSUME FramesInv, ScriptReturns
  PROVE  FramesInv'
<1> DEFINE w == Len(loops) - 1
<1>1. loops # <<>> /\ reply = NoReply /\ Len(frames) = 1
      /\ (~exception.unwinding => Ends(frames, Ok))
      /\ nextRegSlot' = nextRegSlot /\ exception' = exception /\ generators' = generators
      /\ due' = due
  BY DEF ScriptReturns, Instruction, Running, InScript
<1>2. /\ frames \in Seq(Frame) /\ loops \in Seq(Activation)
      /\ generators \in [Generators -> Suspensions] /\ nextRegSlot \in Nat
      /\ Runs(frames, loops) /\ Windows(frames, nextRegSlot)
      /\ Resting(generators) /\ Owned(loops, generators, NoReply)
      /\ exception \in Exceptions /\ DueOK(frames, exception, due)
      /\ exception = Quiet \/ (Unwinds(exception) /\ Stops(frames, loops))
  BY <1>1, RunningIs
<1>3. Lower(frames, loops, w) /\ w \in Nat /\ Len(loops) = w + 1 /\ Base(loops, w) <= 1
  <2>1. Lower(frames, loops, w) /\ w \in Nat /\ Len(loops) \in Nat /\ Base(loops, w) <= Len(frames)
    BY <1>2, LoopsBelow
  <2>2. Len(loops) = w + 1
    BY <2>1
  <2> QED
    BY <1>1, <2>1, <2>2
<1>4. Ordered(loops, w)
  BY <1>2, <1>3, InOrder
<1> HIDE DEF w
<1>5. w = 0
  BY <1>3, <1>4 DEF Ordered
<1>6. exception = Quiet
  BY <1>2, <1>3, <1>5 DEF Stops
<1>7. Ok \in Replies /\ Ok # NoReply
  BY DEF Ok, NoReply, Replies
<1>8. Good(frames, nextRegSlot, exception, Pop(loops), Ok, generators, due)
  BY <1>2, <1>3, <1>5, <1>7, GoodEnd
<1> QED
  BY <1>1, <1>6, <1>8, QuietFields, InvNext DEF Ends

LEMMA NativeReturnsKeeps ==
  ASSUME Plain, FramesInv, NativeReturns
  PROVE  FramesInv'
<1>1. InNative /\ NativeSucceeds(frames, exception)
      /\ nextRegSlot' = nextRegSlot /\ generators' = generators
  BY DEF NativeReturns
<1>2. loops # <<>> /\ reply = NoReply /\ exception = Quiet
  BY <1>1, InNativeIs
<1>3. Throws(frames, generators, ErrText)
  BY <1>2, QuietThrows DEF Thrown
<1>4. NativeSucceeds(frames, Quiet)
  BY <1>1, <1>2
<1> QED
  BY <1>1, <1>3, <1>4, SucceedsIsGood, InvNext

LEMMA NativeThrowsKeeps ==
  ASSUME Plain, FramesInv, NEW v \in Values, NativeThrows(v)
  PROVE  FramesInv'
<1>1. InNative /\ NativeFails(frames, exception, v)
      /\ nextRegSlot' = nextRegSlot /\ generators' = generators
  BY DEF NativeThrows
<1>2. loops # <<>> /\ reply = NoReply /\ exception = Quiet
  BY <1>1, InNativeIs
<1>3. Throws(frames, generators, v)
  BY <1>2, QuietThrows DEF Thrown
<1>4. NativeFails(frames, Quiet, v)
  BY <1>1, <1>2
<1> QED
  BY <1>1, <1>3, <1>4, FailsFirst, InvNext

LEMMA CallNativeKeeps ==
  ASSUME Plain, FramesInv, NEW native \in Natives, NEW c \in BOOLEAN, CallNative(native, c)
  PROVE  FramesInv'
<1> DEFINE m == Len(loops)
           l == loops[m]
           call == Awaiting(native, "none", Null)
           l2 == [l EXCEPT !.call = call]
<1>1. Unhindered /\ frames' = At(c) /\ loops' = [loops EXCEPT ![m].call = call]
      /\ nextRegSlot' = nextRegSlot /\ generators' = generators /\ exception' = exception
      /\ reply' = reply /\ due' = due
  BY DEF CallNative
<1>2. loops # <<>> /\ reply = NoReply /\ exception = Quiet /\ due = 0 /\ Top(loops).at = Len(frames)
  BY <1>1, UnhinderedIs
<1>3. Throws(At(c), generators, ErrText) /\ Len(At(c)) = Len(frames)
  BY <1>2, AtThrows DEF Thrown
<1>4. m \in DOMAIN loops /\ loops \in Seq(Activation) /\ frames \in Seq(Frame)
  BY <1>2, RunningIs, LoopsBelow
<1>5. native = "propagates" /\ call \in Awaited /\ call.gen = Null /\ call.entry = "none"
      /\ call.native = "propagates"
  BY <1>4 DEF Plain, Awaiting, Awaited, Bodied
<1>6. l \in Activation /\ l.at = Len(frames)
  BY <1>2, <1>4 DEF Top
<1> HIDE DEF call, l
<1>7. l2 \in Activation /\ l2.at = l.at /\ l2.call = call
  BY <1>5, <1>6 DEF Activation
<1>8. Idle(l2)
  BY <1>5, <1>7 DEF Idle
<1>9. [loops EXCEPT ![m].call = call] = [loops EXCEPT ![m] = l2]
  BY <1>4 DEF l
<1> HIDE DEF l2
<1>10. Good(At(c), nextRegSlot, Quiet, [loops EXCEPT ![m] = l2], NoReply, generators, 0)
  BY <1>3, <1>6, <1>7, <1>8, StaysIsGood
<1> QED
  BY <1>1, <1>2, <1>9, <1>10, InvNext

LEMMA CodeFields ==
  ASSUME NEW base \in Nat, NEW size \in Nat
  PROVE  /\ Code(base, size) \in Frame /\ FrameOK(Code(base, size))
         /\ Code(base, size).kind = "code" /\ ~Code(base, size).direct
         /\ Code(base, size).gen = Null /\ Code(base, size).base = base
         /\ Code(base, size).alloc = size /\ ~Code(base, size).covered
BY DEF Code, Frame, FrameOK, Bodied

LEMMA DirectFields ==
  ASSUME NEW f \in Frame
  PROVE  LET g == [f EXCEPT !.direct = TRUE]
             h == [f EXCEPT !.direct = FALSE]
         IN  /\ g \in Frame /\ g.kind = f.kind /\ g.direct /\ g.gen = f.gen
             /\ g.covered = f.covered /\ g.base = f.base /\ g.alloc = f.alloc /\ g.size = f.size
             /\ h \in Frame /\ h.kind = f.kind /\ ~h.direct /\ h.gen = f.gen
             /\ h.covered = f.covered /\ h.base = f.base /\ h.alloc = f.alloc /\ h.size = f.size
BY DEF Frame

LEMMA CallKeeps ==
  ASSUME Plain, FramesInv, NEW size \in Sizes, NEW c \in BOOLEAN, Call(size, c)
  PROVE  FramesInv'
<1> DEFINE m  == Len(loops)
           w  == m - 1
           fs == At(c)
           f  == [Code(nextRegSlot, size) EXCEPT !.direct = FALSE]
           fs2 == Append(fs, f)
           l  == loops[m]
           l2 == [l EXCEPT !.at = Len(fs2)]
<1>1. /\ Calling /\ frames' = fs2 /\ nextRegSlot' = nextRegSlot + size
      /\ loops' = [loops EXCEPT ![m].at = Len(frames')]
      /\ generators' = generators /\ exception' = exception /\ reply' = reply /\ due' = due
  BY DEF Call, prepareCall
<1>2. loops # <<>> /\ reply = NoReply /\ exception = Quiet /\ due = 0
      /\ Top(loops).at = Len(frames) /\ Top(loops).call = NoCall
  BY <1>1, CallingIs
<1>3. Throws(fs, generators, ErrText) /\ Len(fs) = Len(frames)
  BY <1>2, AtThrows DEF Thrown
<1>4. /\ fs \in Seq(Frame) /\ loops \in Seq(Activation) /\ nextRegSlot \in Nat
      /\ generators \in [Generators -> Suspensions]
      /\ Runs(fs, loops) /\ Windows(fs, nextRegSlot)
      /\ Resting(generators) /\ Owned(loops, generators, NoReply)
  BY <1>3 DEF Throws
<1>5. m \in DOMAIN loops /\ w \in Nat /\ Lower(fs, loops, w) /\ Base(loops, w) <= Len(fs)
  BY <1>4, LoopsBelow
<1>6. Ordered(loops, w)
  BY <1>4, <1>5, InOrder
<1>7. size \in Nat
  BY WindowsAssumption
<1>8. /\ f \in Frame /\ FrameOK(f) /\ f.kind = "code" /\ ~f.direct /\ f.gen = Null
      /\ f.base = nextRegSlot /\ f.alloc = size
  <2> DEFINE e == Code(nextRegSlot, size)
  <2>1. /\ e \in Frame /\ FrameOK(e) /\ e.kind = "code" /\ e.gen = Null
        /\ e.base = nextRegSlot /\ e.alloc = size
    BY <1>4, <1>7, CodeFields
  <2> HIDE DEF e
  <2>2. /\ f \in Frame /\ f.kind = e.kind /\ ~f.direct /\ f.gen = e.gen
        /\ f.covered = e.covered /\ f.base = e.base /\ f.alloc = e.alloc /\ f.size = e.size
    BY <2>1, DirectFields DEF e
  <2> HIDE DEF f
  <2> QED
    BY <2>1, <2>2 DEF FrameOK
<1> HIDE DEF fs, f
<1>9. /\ fs2 \in Seq(Frame) /\ Len(fs2) = Len(fs) + 1 /\ Len(fs) \in Nat
      /\ fs2[Len(fs) + 1] = f /\ \A i \in 1..Len(fs) : fs2[i] = fs[i]
  BY <1>4, <1>8
<1> HIDE DEF fs2
<1>10. DOMAIN fs2 = 1..Len(fs) + 1 /\ DOMAIN fs = 1..Len(fs)
  BY <1>4, <1>9
<1>11. Above(f, Len(fs) + 1, loops, w)
  <2>1. ~(w > 0 /\ Len(fs) + 1 = loops[w].at + 2)
    <3> HIDE DEF w
    <3> QED
      BY <1>5, <1>6, <1>9 DEF Ordered
  <2> QED
    BY <1>8, <2>1 DEF Above
<1>12. \A i \in DOMAIN fs : i >= Base(loops, w) => Above(fs[i], i, loops, w)
  BY <1>4, <1>5, AboveIs
<1>13. /\ \A i \in DOMAIN fs2 : i < Base(loops, w) => fs2[i] = fs[i]
       /\ \A i \in DOMAIN fs2 : i >= Base(loops, w) => Above(fs2[i], i, loops, w)
       /\ Base(loops, w) <= Len(fs2)
  <2>1. \A i \in DOMAIN fs2 : i = Len(fs) + 1 \/ (i \in DOMAIN fs /\ fs2[i] = fs[i])
    BY <1>9, <1>10
  <2>2. Base(loops, w) \in Nat
    BY <1>6 DEF Ordered
  <2> HIDE DEF w
  <2> QED
    BY <1>5, <1>9, <1>11, <1>12, <2>1, <2>2
<1>14. l \in Activation /\ l.call = NoCall
  BY <1>2, <1>4, <1>5 DEF Top
<1> HIDE DEF l
<1>15. l2 \in Activation /\ l2.at = Len(fs2) /\ l2.call = NoCall
  <2>1. Len(fs2) \in Nat \ {0}
    BY <1>9
  <2> QED
    BY <1>14, <2>1 DEF Activation
<1>16. Idle(l2)
  BY <1>15 DEF Idle, NoCall
<1>17. loops' = [loops EXCEPT ![m] = l2]
  BY <1>1, <1>5 DEF l
<1> HIDE DEF l2
<1>18. TopBecomes(loops, loops', l2)
  BY <1>2, <1>4, <1>15, <1>17, TopReplaced
<1>19. Runs(fs2, loops')
  BY <1>4, <1>9, <1>13, <1>15, <1>16, <1>18, RunsOn
<1>20. Windows(fs2, nextRegSlot + size) /\ nextRegSlot + size \in Nat
  <2> DEFINE t == Len(fs) + 1
  <2>1. t \in DOMAIN fs2 /\ fs2[t].base = nextRegSlot /\ fs2[t].alloc = size
    BY <1>8, <1>9, <1>10
  <2>2. \A i \in DOMAIN fs2 : i # t /\ fs2[i].kind = "code" =>
            /\ i \in DOMAIN fs /\ i < t
            /\ fs[i].kind = "code"
            /\ fs2[i].base = fs[i].base
            /\ fs2[i].alloc = fs[i].alloc
    BY <1>9, <1>10
  <2> HIDE DEF t
  <2>3. /\ fs \in Seq(Frame) /\ fs2 \in Seq(Frame) /\ nextRegSlot \in Nat /\ size \in Nat
        /\ Windows(fs, nextRegSlot) /\ nextRegSlot + size \in Nat
    BY <1>4, <1>7, <1>9
  <2> HIDE DEF fs, fs2
  <2> QED
    BY <2>1, <2>2, <2>3, WindowsGrow
<1>21. Owned(loops', generators, NoReply) /\ loops' \in Seq(Activation)
  BY <1>4, <1>18, OwnedBelow DEF TopBecomes
<1>22. Good(fs2, nextRegSlot + size, Quiet, loops', NoReply, generators, 0)
  BY <1>4, <1>9, <1>19, <1>20, <1>21, GoodRunning, QuietFields
<1> QED
  BY <1>1, <1>2, <1>22, InvNext

(* The window of the top frame is taken from the registers in use last.    *)
LEMMA TailWindows ==
  ASSUME NEW fs \in Seq(Frame), NEW n \in Nat, Windows(fs, n), Len(fs) > 0,
         fs[Len(fs)].kind = "code", NEW size \in Nat, NEW fs2 \in Seq(Frame), Len(fs2) = Len(fs),
         \A i \in 1..Len(fs) : i # Len(fs) => fs2[i] = fs[i],
         fs2[Len(fs)].base = n - fs[Len(fs)].alloc, fs2[Len(fs)].alloc = size
  PROVE  n - fs[Len(fs)].alloc \in Nat /\ Windows(fs2, n - fs[Len(fs)].alloc + size)
<1> DEFINE t   == Len(fs)
           k   == fs[t].alloc
           fs1 == SubSeq(fs, 1, t - 1)
<1>1. t \in DOMAIN fs /\ t \in Nat /\ t > 0 /\ fs[t] \in Frame
  OBVIOUS
<1>2. k \in Nat /\ k <= k
  BY <1>1, FrameFields
<1>3. fs1 \in Seq(Frame) /\ Len(fs1) = t - 1 /\ \A i \in 1..t - 1 : fs1[i] = fs[i]
  BY <1>1
<1>4. DOMAIN fs1 = 1..t - 1 /\ Len(fs1) < t
  BY <1>1, <1>3
<1> HIDE DEF fs1, k
<1>5. n - k \in Nat /\ Windows(fs1, n - k)
  <2>1. \A i \in DOMAIN fs1 : /\ fs1[i].kind = fs[i].kind
                              /\ fs1[i].base = fs[i].base
                              /\ fs1[i].alloc = fs[i].alloc
    BY <1>3, <1>4
  <2>2. k <= fs[t].alloc
    BY <1>2 DEF k
  <2> HIDE DEF t
  <2> QED
    BY <1>1, <1>2, <1>3, <1>4, <2>1, <2>2, WindowsReclaimed DEF t
<1>6. DOMAIN fs2 = 1..t
  OBVIOUS
<1>7. /\ \A i \in 1..t : i # t => fs2[i] = fs[i]
      /\ fs2[t].base = n - k /\ fs2[t].alloc = size
  BY DEF k
<1> HIDE DEF t
<1>8. t \in DOMAIN fs2 /\ \A i \in DOMAIN fs2 : i # t /\ fs2[i].kind = "code" =>
            /\ i \in DOMAIN fs1 /\ i < t
            /\ fs1[i].kind = "code"
            /\ fs2[i].base = fs1[i].base
            /\ fs2[i].alloc = fs1[i].alloc
  <2>1. t \in DOMAIN fs2
    BY <1>1, <1>6
  <2>2. \A i \in DOMAIN fs2 : i # t => i \in 1..t - 1
    BY <1>1, <1>6
  <2>3. \A i \in 1..t - 1 : fs2[i] = fs1[i] /\ i < t /\ i \in DOMAIN fs1
    BY <1>1, <1>3, <1>4, <1>7
  <2> QED
    BY <2>1, <2>2, <2>3
<1>9. Windows(fs2, (n - k) + size)
  BY <1>3, <1>5, <1>7, <1>8, WindowsGrow
<1> QED
  BY <1>5, <1>9 DEF k, t

LEMMA AllocFields ==
  ASSUME NEW f \in Frame, NEW alloc \in Nat
  PROVE  LET g == [f EXCEPT !.alloc = alloc]
         IN  /\ g \in Frame /\ g.kind = f.kind /\ g.direct = f.direct /\ g.gen = f.gen
             /\ g.covered = f.covered /\ g.base = f.base /\ g.alloc = alloc /\ g.size = f.size
BY DEF Frame

LEMMA CodeSize ==
  ASSUME NEW base \in Nat, NEW size \in Nat
  PROVE  Code(base, size).size = size
BY DEF Code

LEMMA TailCallKeeps ==
  ASSUME Plain, FramesInv, NEW size \in Sizes, TailCall(size)
  PROVE  FramesInv'
<1> DEFINE n == Len(frames)
           m == Len(loops)
           w == m - 1
           f == frames[n]
           fs2 == frames'
<1>1. /\ Calling /\ n > 1 /\ f.gen = Null
      /\ loops' = loops
      /\ generators' = generators /\ exception' = exception /\ reply' = reply /\ due' = due
  BY DEF TailCall, Top
<1>2. loops # <<>> /\ reply = NoReply /\ exception = Quiet /\ due = 0
  BY <1>1, CallingIs
<1>3. /\ frames \in Seq(Frame) /\ loops \in Seq(Activation) /\ nextRegSlot \in Nat
      /\ generators \in [Generators -> Suspensions]
      /\ Runs(frames, loops) /\ Windows(frames, nextRegSlot)
      /\ Resting(generators) /\ Owned(loops, generators, NoReply)
  BY <1>2, RunningIs
<1>4. m \in DOMAIN loops /\ w \in Nat /\ Lower(frames, loops, w) /\ Base(loops, w) <= n
  BY <1>3, LoopsBelow
<1>5. Ordered(loops, w)
  BY <1>3, <1>4, InOrder
<1>6. size \in Nat
  BY WindowsAssumption
<1>7. \A i \in DOMAIN frames : i >= Base(loops, w) => Above(frames[i], i, loops, w)
  BY <1>3, <1>4, AboveIs
<1>8. n \in DOMAIN frames /\ n \in Nat /\ f \in Frame /\ Above(f, n, loops, w) /\ f.kind = "code"
  <2>1. n \in DOMAIN frames /\ n \in Nat
    BY <1>1, <1>3
  <2>2. Above(f, n, loops, w)
    BY <1>4, <1>7, <2>1
  <2> QED
    BY <1>3, <2>1, <2>2 DEF Above
<1>9. /\ f.base \in Nat /\ f.alloc \in Nat /\ f.size \in Nat
      /\ f.base + f.alloc <= nextRegSlot
  BY <1>3, <1>8, FrameFields DEF Windows
<1> HIDE DEF f, n, w
<1>10. ASSUME NEW f2 \in Frame, f2.kind = "code", ~f2.direct, f2.gen = Null, FrameOK(f2),
              frames' = [frames EXCEPT ![n] = f2], Windows(frames', nextRegSlot'),
              nextRegSlot' \in Nat
       PROVE  FramesInv'
  <2>1. /\ fs2 \in Seq(Frame) /\ Len(fs2) = n /\ fs2[n] = f2 /\ DOMAIN fs2 = DOMAIN frames
        /\ \A i \in DOMAIN frames : i # n => fs2[i] = frames[i]
    <3>1. [frames EXCEPT ![n] = f2] \in Seq(Frame) /\ Len([frames EXCEPT ![n] = f2]) = Len(frames)
      BY <1>3, <1>8, <1>10, ExceptSeq
    <3> QED
      BY <1>3, <1>8, <1>10, <3>1 DEF n
  <2>2. Above(f2, n, loops, w)
    <3>1. CASE w > 0 /\ n = loops[w].at + 2
      <4>1. loops[w].call.gen = Null
        BY <1>1, <1>8, <3>1 DEF Above
      <4>2. Waits(frames, loops, w)
        BY <1>4, <3>1 DEF Lower
      <4>3. loops[w].call.entry # "next"
        BY <4>1, <4>2 DEF Waits
      <4> QED
        BY <1>10, <3>1, <4>1, <4>3 DEF Above
    <3>2. CASE ~(w > 0 /\ n = loops[w].at + 2)
      BY <1>10, <3>2 DEF Above
    <3> QED
      BY <3>1, <3>2
  <2> DEFINE l == loops[m]
  <2>3. TopBecomes(loops, loops, l) /\ l.at = Len(frames) /\ Idle(l)
    BY <1>3 DEF TopBecomes, Runs
  <2>4. l.at = Len(fs2)
    BY <2>1, <2>3 DEF n
  <2>5. \A i \in DOMAIN fs2 : i < Base(loops, w) => fs2[i] = frames[i]
    BY <1>4, <1>5, <1>8, <2>1 DEF Ordered
  <2>6. \A i \in DOMAIN fs2 : i >= Base(loops, w) => Above(fs2[i], i, loops, w)
    BY <1>7, <2>1, <2>2
  <2> HIDE DEF fs2, l
  <2>7. Runs(fs2, loops)
    BY <1>3, <1>4, <2>1, <2>3, <2>4, <2>5, <2>6, RunsOn DEF w
  <2>8. Good(fs2, nextRegSlot', Quiet, loops, NoReply, generators, 0)
    BY <1>3, <1>10, <2>1, <2>7, GoodRunning, QuietFields DEF fs2
  <2> QED
    BY <1>1, <1>2, <2>8, InvNext DEF fs2
<1>11. CASE size > f.alloc
  <2> DEFINE base == nextRegSlot - f.alloc
             f2 == Code(base, size)
  <2>1. frames' = [frames EXCEPT ![n] = f2] /\ nextRegSlot' = base + size
    BY <1>11 DEF TailCall, Top, f, n
  <2>2. base \in Nat /\ base + size \in Nat
    BY <1>3, <1>6, <1>9
  <2> HIDE DEF base
  <2>3. /\ f2 \in Frame /\ f2.kind = "code" /\ ~f2.direct /\ f2.gen = Null /\ FrameOK(f2)
        /\ f2.base = base /\ f2.alloc = size
    BY <1>6, <2>2, CodeFields
  <2> HIDE DEF f2
  <2>4. Windows(frames', base + size)
    <3> DEFINE s == [frames EXCEPT ![n] = f2]
    <3>1. s \in Seq(Frame) /\ Len(s) = Len(frames)
      BY <1>3, <1>8, <2>3, ExceptSeq
    <3>2. s[n] = f2 /\ \A i \in 1..n : i # n => s[i] = frames[i]
      BY <1>3, <1>8 DEF n
    <3> HIDE DEF s
    <3>3. n > 0 /\ frames[n].kind = "code" /\ s[n].base = nextRegSlot - frames[n].alloc /\ s[n].alloc = size
      BY <1>1, <1>8, <2>3, <3>2 DEF base, f
    <3>4. Windows(s, nextRegSlot - frames[n].alloc + size)
      BY <1>3, <1>6, <3>1, <3>2, <3>3, TailWindows DEF n
    <3> QED
      BY <2>1, <3>4 DEF s, base, f
  <2> QED
    BY <1>10, <2>1, <2>2, <2>3, <2>4
<1>12. CASE ~(size > f.alloc)
  <2> DEFINE e  == Code(f.base, size)
             f2 == [e EXCEPT !.alloc = f.alloc]
  <2>1. frames' = [frames EXCEPT ![n] = f2] /\ nextRegSlot' = nextRegSlot
    BY <1>12 DEF TailCall, Top, f, n
  <2>2. /\ e \in Frame /\ e.kind = "code" /\ ~e.direct /\ e.gen = Null
        /\ e.base = f.base /\ e.size = size
    BY <1>6, <1>9, CodeFields, CodeSize
  <2> HIDE DEF e
  <2>3. /\ f2 \in Frame /\ f2.kind = "code" /\ ~f2.direct /\ f2.gen = Null
        /\ f2.base = f.base /\ f2.alloc = f.alloc /\ f2.size = size
    BY <1>9, <2>2, AllocFields
  <2> HIDE DEF f2
  <2>4. FrameOK(f2)
    BY <1>6, <1>9, <1>12, <2>3 DEF FrameOK
  <2>5. Windows(frames', nextRegSlot)
    <3> DEFINE s == [frames EXCEPT ![n] = f2]
    <3>1. s \in Seq(Frame) /\ Len(s) = Len(frames)
      BY <1>3, <1>8, <2>3, ExceptSeq
    <3>2. \A i \in DOMAIN s : /\ s[i].kind = frames[i].kind
                              /\ s[i].base = frames[i].base
                              /\ s[i].alloc = frames[i].alloc
      BY <1>3, <1>8, <2>3 DEF f
    <3> HIDE DEF s
    <3>3. Len(s) <= Len(frames)
      BY <1>3, <3>1
    <3>4. Windows(s, nextRegSlot)
      BY <1>3, <3>1, <3>2, <3>3, WindowsStay
    <3> QED
      BY <2>1, <3>4 DEF s
  <2> QED
    BY <1>3, <1>10, <2>1, <2>3, <2>4, <2>5
<1> QED
  BY <1>11, <1>12

(* fs with two frames on top.                                              *)
LEMMA ToppedIs ==
  ASSUME NEW fs \in Seq(Frame), NEW f \in Frame
  PROVE  Topped(fs, Append(Append(fs, Sentinel), f), f)
<1>1. Sentinel \in Frame
  BY SentinelFields
<1> QED
  BY <1>1 DEF Topped

LEMMA EntryFields ==
  ASSUME NEW l \in Activation
  PROVE  LET l2 == [l EXCEPT !.call.entry = "call"]
         IN  /\ l2 \in Activation /\ l2.at = l.at /\ l2.call.native = l.call.native
             /\ l2.call.entry = "call" /\ l2.call.gen = l.call.gen
BY DEF Activation, Awaited

LEMMA CallBackKeeps ==
  ASSUME Plain, FramesInv, NEW size \in Sizes, CallBack(size)
  PROVE  FramesInv'
<1> DEFINE m == Len(loops)
           l == loops[m]
           e == Code(nextRegSlot, size)
           f == [e EXCEPT !.direct = TRUE]
           l2 == [l EXCEPT !.call.entry = "call"]
           fs2 == Append(Append(frames, Sentinel), f)
<1>1. /\ InNative /\ Guarded(frames)
      /\ exception' = IF exception.unwinding /\ exception.current = Null THEN Quiet ELSE exception
      /\ frames' = fs2 /\ nextRegSlot' = nextRegSlot + size
      /\ loops' = Append([loops EXCEPT ![m].call.entry = "call"], Loop(Len(frames')))
      /\ generators' = generators /\ reply' = reply /\ due' = due
  BY DEF CallBack, prepareCall
<1>2. /\ loops # <<>> /\ reply = NoReply /\ exception = Quiet /\ due = 0
      /\ l \in Activation
      /\ l.at = Len(frames) /\ l.call.native = "propagates"
      /\ l.call.entry = "none" /\ l.call.gen = Null
  BY <1>1, InNativeIs DEF Top
<1>3. Throws(frames, generators, ErrText)
  BY <1>2, QuietThrows DEF Thrown
<1>4. /\ frames \in Seq(Frame) /\ loops \in Seq(Activation) /\ nextRegSlot \in Nat
      /\ m \in DOMAIN loops
  BY <1>2, <1>3, LoopsBelow DEF Throws
<1>5. size \in Nat
  BY WindowsAssumption
<1>6. /\ e \in Frame /\ FrameOK(e) /\ e.kind = "code" /\ e.gen = Null
      /\ e.base = nextRegSlot /\ e.alloc = size
  BY <1>4, <1>5, CodeFields
<1>7. [loops EXCEPT ![m].call.entry = "call"] = [loops EXCEPT ![m] = l2]
  BY <1>4
<1> HIDE DEF e, l
<1>8. /\ f \in Frame /\ FrameOK(f) /\ f.kind = "code" /\ f.gen = Null /\ f.direct
      /\ f.base = nextRegSlot /\ f.alloc = size
  BY <1>6, DirectFields DEF FrameOK
<1>9. /\ l2 \in Activation /\ l2.at = l.at /\ l2.call.native = l.call.native
      /\ l2.call.entry = "call" /\ l2.call.gen = l.call.gen
  BY <1>2, EntryFields
<1> HIDE DEF f, l2
<1>10. Topped(frames, fs2, f)
  BY <1>4, <1>8, ToppedIs
<1> HIDE DEF fs2
<1>11. Awaits(l2, f)
  BY <1>2, <1>8, <1>9 DEF Awaits
<1>12. Started(generators, generators, l2)
  BY <1>2, <1>9 DEF Started
<1>13. Good(fs2, nextRegSlot + f.alloc, Quiet,
              Append([loops EXCEPT ![m] = l2], Loop(Len(fs2))), NoReply, generators, 0)
  BY <1>1, <1>2, <1>3, <1>8, <1>9, <1>10, <1>11, <1>12, PushedIsGood
<1>14. exception' = Quiet
  BY <1>1, <1>2
<1> QED
  BY <1>1, <1>2, <1>7, <1>8, <1>13, <1>14, InvNext

LEMMA ThrowKeeps ==
  ASSUME Plain, FramesInv, NEW v \in Values, NEW c \in BOOLEAN, Throw(v, c)
  PROVE  FramesInv'
<1> DEFINE fs == At(c)
           r  == FirstUnwind(fs, v)
           w  == Len(loops) - 1
           h  == Handler(fs)
           b  == Bound(fs, loops, w)
<1>1. loops # <<>> /\ reply = NoReply /\ exception = Quiet
  <2>1. loops # <<>> /\ reply = NoReply /\ ~exception.unwinding
    BY DEF Throw, Instruction, Running, InScript, Plain
  <2> QED
    BY <2>1, RunningIs
<1>2. Throws(fs, generators, v)
  BY <1>1, AtThrows DEF Thrown
<1>3. /\ exception' = r.exception
      /\ due' = IF ~r.exception.unwinding THEN 0 ELSE h
      /\ r.exception.unwinding => Ends(r.frames, Err(r.exception.current))
      /\ ~r.exception.unwinding => GoesOn(r.frames)
      /\ nextRegSlot' = nextRegSlot /\ generators' = generators
  <2>1. r = throwException(At(c), exception, v)
        /\ Due(fs, exception, r) = IF ~r.exception.unwinding THEN 0 ELSE h
    BY <1>1, ThrowFirst
  <2> HIDE DEF r, h
  <2> QED
    BY <2>1 DEF Throw
<1>4. /\ fs \in Seq(Frame) /\ loops \in Seq(Activation) /\ generators \in [Generators -> Suspensions]
      /\ Runs(fs, loops) /\ Windows(fs, nextRegSlot) /\ nextRegSlot \in Nat
      /\ Resting(generators) /\ Owned(loops, generators, NoReply) /\ v \in Thrown
  BY <1>2 DEF Throws
<1>5. Lower(fs, loops, w) /\ w \in Nat /\ Base(loops, w) <= Len(fs) /\ Len(loops) \in Nat
  BY <1>4, LoopsBelow
<1>6. Ordered(loops, w)
  BY <1>4, <1>5, InOrder
<1> HIDE DEF fs
<1>7. ThrownFrom(fs, loops, w, v, r)
  BY <1>4, <1>5, FirstThrow
<1>8. Len(loops) = w + 1
  BY <1>5
<1>20. /\ Err(v) \in Replies /\ Err(v) # NoReply /\ Err(v) # Ok
  BY <1>4, ReplyFields
<1> HIDE DEF r, w, b, h
<1>9. CASE h >= Base(loops, w)
  <2>1. r = CaughtAt(fs, h) /\ h \in 0..Len(fs)
    BY <1>7, <1>9 DEF ThrownFrom, h
  <2>2. r.frames = Caught(fs, h) /\ r.exception = Quiet /\ ~Quiet.unwinding
    BY <2>1, CaughtFields, QuietFields
  <2>3. h \in 1..Len(fs)
    BY <1>6, <1>9, <2>1 DEF Ordered
  <2>4. Good(Caught(fs, h), nextRegSlot, Quiet,
                 Append(Pop(loops), Loop(Len(Caught(fs, h)))), NoReply, generators, 0)
    BY <1>2, <1>9, <2>3, CaughtIsGood DEF w, fs
  <2>5. GoesOn(Caught(fs, h)) /\ exception' = Quiet /\ due' = 0
    BY <1>3, <2>2
  <2> QED
    BY <1>3, <2>4, <2>5, InvNext DEF GoesOn
<1>10. CASE h < Base(loops, w) /\ w > 0
  <2>1. r = Stopped(fs, b, v)
    BY <1>7, <1>10 DEF ThrownFrom, h, b
  <2>2. /\ r.frames = SubSeq(fs, 1, b) /\ Unwinds(r.exception) /\ r.exception.unwinding
        /\ r.exception \in Exceptions /\ r.exception.current = v
    BY <1>4, <2>1, OutcomeFields
  <2>3. due' = h /\ exception' \in Exceptions /\ Unwinds(exception') /\ Ends(r.frames, Err(v))
    BY <1>3, <2>2
  <2>4. loops[w].at + 2 \in DOMAIN fs /\ Base(loops, w) = loops[w].at + 2 /\ loops[w].at \in Nat
    BY <1>4, <1>5, <1>6, <1>10 DEF Ordered
  <2>5. Above(fs[loops[w].at + 2], loops[w].at + 2, loops, w)
    BY <1>4, <1>5, <2>4, AboveIs
  <2>6. CASE fs[loops[w].at + 2].direct
    <3> DEFINE m   == loops[w].at + 2
               fs2 == SubSeq(fs, 1, m)
    <3>1. b = m
      BY <1>10, <2>4, <2>6 DEF Bound, b
    <3>2. Handler(fs) < Base(loops, w) /\ m \in {loops[w].at + 1, loops[w].at + 2}
      BY <1>10 DEF h
    <3>3. /\ fs2 \in Seq(Frame) /\ Len(fs2) = m /\ m \in Nat
          /\ Lower(fs2, loops, w)
          /\ Handler(fs2) = Handler(fs)
          /\ \A i \in DOMAIN fs2 : i > loops[w].at => ~fs2[i].covered
      BY <1>4, <1>5, <1>10, <3>2, CutAtBoundary
    <3>4. m \in 0..Len(fs)
      BY <1>4, <2>4
    <3>5. Windows(fs2, nextRegSlot)
      BY <1>4, <3>4, CutWindows
    <3>6. loops[w].call.entry # "throw"
      BY <1>10, <2>5, <2>6 DEF Above
    <3> HIDE DEF fs2
    <3>7. Len(loops) > 1 /\ w = Len(loops) - 1
      BY <1>5, <1>8, <1>10
    <3>8. Len(fs2) <= loops[w].at + 2
      BY <2>4, <3>3
    <3>9. loops[w].call.entry = "next" => Len(fs2) = loops[w].at + 2
      BY <3>3
    <3>10. Good(fs2, nextRegSlot, exception', Pop(loops), Err(v), generators, Handler(fs2))
      BY <1>4, <1>20, <2>3, <3>3, <3>5, <3>6, <3>7, <3>8, <3>9, GoodEndedBadly
    <3>11. r.frames = fs2
      BY <2>2, <3>1 DEF fs2
    <3> QED
      BY <1>3, <2>3, <3>3, <3>10, <3>11, InvNext DEF Ends, h
  <2>7. CASE ~fs[loops[w].at + 2].direct
    <3>1. b = loops[w].at + 1
      BY <1>10, <2>7 DEF Bound, b
    <3>2. loops[w].call.entry # "next"
      BY <1>10, <2>5, <2>7 DEF Above
    <3>3. Good(r.frames, nextRegSlot, exception', Pop(loops), Err(v), generators, Handler(fs))
      BY <1>2, <1>10, <1>20, <2>2, <2>3, <3>1, <3>2, PanicIsGood DEF w, h, fs
    <3> QED
      BY <1>3, <2>3, <3>3, InvNext DEF Ends, h
  <2> QED
    BY <2>6, <2>7
<1>11. CASE h < Base(loops, w) /\ w = 0
  <2>1. h = 0 /\ r = Lost(v)
    BY <1>7, <1>11 DEF ThrownFrom, h
  <2>2. /\ r.frames = <<>> /\ r.exception.current = v /\ r.exception.unwinding
        /\ r.exception \in Exceptions
    BY <1>4, <2>1, OutcomeFields
  <2>3. Ends(<<>>, Err(v)) /\ due' = 0 /\ exception' = r.exception
    BY <1>3, <2>1, <2>2
  <2>4. DueOK(<<>>, exception', 0)
    BY <2>2, <2>3, NoFrames DEF DueOK
  <2>6. Len(loops) = 1 /\ exception' \in Exceptions /\ Windows(<<>>, nextRegSlot) /\ <<>> \in Seq(Frame)
    BY <1>4, <1>8, <1>11, <2>2, <2>3, NoFrames
  <2>7. Good(<<>>, nextRegSlot, exception', Pop(loops), Err(v), generators, 0)
    BY <1>4, <1>20, <2>4, <2>6, GoodEnd
  <2> QED
    BY <1>3, <2>3, <2>7, InvNext DEF Ends
<1>12. h \in Nat /\ Base(loops, w) \in Nat
  BY <1>6, <1>7 DEF ThrownFrom, Ordered, h
<1> QED
  BY <1>5, <1>9, <1>10, <1>11, <1>12

(* The frame of a body is the first one of a loop that was begun for it.   *)
LEMMA BodyFrame ==
  ASSUME NEW fs \in Seq(Frame), NEW ls \in Seq(Activation), Runs(fs, ls)
  PROVE  LET n == Len(fs)
             w == Len(ls) - 1
         IN  /\ n \in DOMAIN fs /\ n \in Nat /\ fs[n].kind = "code" /\ Above(fs[n], n, ls, w)
             /\ fs[n].gen # Null \/ fs[n].direct => w > 0 /\ n = ls[w].at + 2
<1> DEFINE n == Len(fs)
           w == Len(ls) - 1
<1>1. w \in Nat /\ Lower(fs, ls, w) /\ Base(ls, w) <= n
  BY LoopsBelow
<1>2. Ordered(ls, w)
  BY <1>1, InOrder
<1>3. n \in DOMAIN fs /\ n \in Nat
  <2>1. n \in Nat
    OBVIOUS
  <2>2. n > 0
    <3> HIDE DEF w, n
    <3> QED
      BY <1>1, <1>2, <2>1 DEF Ordered
  <2> QED
    BY <2>1, <2>2
<1>4. Above(fs[n], n, ls, w)
  BY <1>1, <1>3, AboveIs
<1> QED
  BY <1>3, <1>4 DEF Above

LEMMA SetBody ==
  ASSUME NEW gs \in [Generators -> Suspensions], Resting(gs), NEW g \in Generators,
         NEW s \in Suspensions, s.covered => s.state = "yield"
  PROVE  LET gs2 == [gs EXCEPT ![g] = s]
         IN  /\ gs2 \in [Generators -> Suspensions] /\ Resting(gs2) /\ gs2[g] = s
             /\ \A x \in Generators : x # g => gs2[x] = gs[x]
BY DEF Resting

LEMMA BodiesAre ==
  ASSUME NEW c \in BOOLEAN
  PROVE  /\ [state |-> "yield", covered |-> c] \in Suspensions
         /\ [state |-> "completed", covered |-> FALSE] \in Suspensions
         /\ [state |-> "executing", covered |-> FALSE] \in Suspensions
BY DEF Suspensions

LEMMA YieldKeeps ==
  ASSUME Plain, FramesInv, NEW c \in BOOLEAN, Yield(c)
  PROVE  FramesInv'
<1> DEFINE n == Len(frames)
           w == Len(loops) - 1
           g == frames[n].gen
           s == [state |-> "yield", covered |-> c]
           gs2 == [generators EXCEPT ![g] = s]
<1>1. /\ loops # <<>> /\ reply = NoReply /\ ~exception.unwinding /\ g # Null
      /\ generators' = gs2 /\ Ends(frames, Ok)
      /\ nextRegSlot' = nextRegSlot /\ exception' = exception /\ due' = due
  BY DEF Yield, Instruction, Running, InScript, Plain, Top
<1>2. /\ frames \in Seq(Frame) /\ loops \in Seq(Activation)
      /\ generators \in [Generators -> Suspensions] /\ nextRegSlot \in Nat
      /\ Runs(frames, loops) /\ Windows(frames, nextRegSlot)
      /\ Resting(generators) /\ Owned(loops, generators, NoReply)
      /\ exception = Quiet /\ due = 0
  BY <1>1, RunningIs DEF DueOK
<1>3. w > 0 /\ n = loops[w].at + 2 /\ Above(frames[n], n, loops, w) /\ frames[n] \in Frame
  BY <1>1, <1>2, BodyFrame
<1>4. g = loops[w].call.gen /\ g \in Generators
  <2>1. g \in Bodied
    BY <1>3, FrameFields
  <2> QED
    BY <1>1, <1>3, <2>1 DEF Above, Bodied
<1>5. s \in Suspensions /\ s.state = "yield"
  BY BodiesAre
<1> HIDE DEF s, g
<1>6. /\ gs2 \in [Generators -> Suspensions] /\ Resting(gs2) /\ gs2[g] = s
      /\ \A x \in Generators : x # g => gs2[x] = generators[x]
  <2>1. generators \in [Generators -> Suspensions] /\ Resting(generators)
    BY <1>2
  <2>2. s \in Suspensions /\ (s.covered => s.state = "yield") /\ g \in Generators
    BY <1>4, <1>5
  <2> QED
    BY <2>1, <2>2, SMTT(20) DEF Resting
<1> HIDE DEF gs2
<1>7. Lower(frames, loops, w) /\ Len(loops) > 1
  BY <1>2, <1>3, LoopsBelow
<1>8. g # Null
  BY <1>1 DEF g
<1> HIDE DEF n
<1>9. Good(frames, nextRegSlot, Quiet, Pop(loops), Ok, gs2, 0)
  <2>1. /\ loops[Len(loops) - 1].call.gen # Null
        /\ gs2[loops[Len(loops) - 1].call.gen].state = "yield"
        /\ Len(frames) = loops[Len(loops) - 1].at + 2
    BY <1>3, <1>4, <1>5, <1>6, <1>8 DEF n
  <2>2. \A x \in Generators : x # loops[Len(loops) - 1].call.gen => gs2[x] = generators[x]
    BY <1>4, <1>6
  <2> QED
    BY <1>2, <1>6, <1>7, <2>1, <2>2, GoodEndedWell
<1> QED
  BY <1>1, <1>2, <1>9, InvNext DEF Ends

(* The top frame returns.                                                  *)
LEMMA ReturnWindows ==
  ASSUME NEW fs \in Seq(Frame), NEW n \in Nat, Windows(fs, n), Len(fs) > 0,
         fs[Len(fs)].kind = "code", FrameOK(fs[Len(fs)]),
         NEW k \in {fs[Len(fs)].alloc, fs[Len(fs)].size}, NEW m \in 0..Len(fs) - 1
  PROVE  n - k \in Nat /\ Windows(SubSeq(fs, 1, m), n - k)
<1> DEFINE t   == Len(fs)
           fs2 == SubSeq(fs, 1, m)
<1>1. t \in DOMAIN fs /\ t \in Nat /\ fs[t] \in Frame
  OBVIOUS
<1>2. k \in Nat /\ k <= fs[t].alloc
  BY <1>1, FrameFields DEF FrameOK
<1>3. fs2 \in Seq(Frame) /\ Len(fs2) = m /\ \A i \in 1..m : fs2[i] = fs[i]
  OBVIOUS
<1>4. DOMAIN fs2 = 1..m /\ Len(fs2) < t
  BY <1>1, <1>3
<1> HIDE DEF fs2, t
<1>5. fs[t].kind = "code"
  BY DEF t
<1> QED
  BY <1>1, <1>2, <1>3, <1>4, <1>5, WindowsReclaimed DEF fs2

LEMMA ReturnKeeps ==
  ASSUME Plain, FramesInv, NEW undefined \in BOOLEAN, Return(undefined)
  PROVE  FramesInv'
<1> DEFINE n    == Len(frames)
           w    == Len(loops) - 1
           f    == frames[n]
           rest == SubSeq(frames, 1, n - 1)
           fs2  == SubSeq(frames, 1, n - 2)
           s    == [generators[f.gen] EXCEPT !.state = "completed"]
           reclaimed == IF undefined THEN f.size ELSE f.alloc
           k    == nextRegSlot - reclaimed
           answer == IF exception.unwinding /\ ~undefined THEN Err(exception.current) ELSE Ok
<1>1. /\ loops # <<>> /\ reply = NoReply /\ n > 1
      /\ (exception.unwinding => f.gen = Null)
      /\ reclaimed \in {f.alloc, f.size}
      /\ nextRegSlot' = k
      /\ generators' = IF f.gen = Null THEN generators ELSE [generators EXCEPT ![f.gen] = s]
      /\ IF IsSentinel(rest, Len(rest))
         THEN Ends(Pop(rest), answer)
         ELSE IF f.direct THEN Ends(rest, Ok) ELSE GoesOn(rest)
      /\ exception' = exception /\ due' = due
  BY DEF Return, Instruction, Running, InScript, Plain, Top, Pop
<1>2. /\ frames \in Seq(Frame) /\ loops \in Seq(Activation)
      /\ generators \in [Generators -> Suspensions] /\ nextRegSlot \in Nat
      /\ Runs(frames, loops) /\ Windows(frames, nextRegSlot)
      /\ Resting(generators) /\ Owned(loops, generators, NoReply)
      /\ exception \in Exceptions /\ DueOK(frames, exception, due)
      /\ exception = Quiet \/ (exception.unwinding /\ Unwinds(exception) /\ Stops(frames, loops))
  BY <1>1, RunningIs
<1>3. /\ Above(f, n, loops, w) /\ f \in Frame /\ f.kind = "code" /\ n \in Nat
      /\ f.gen # Null \/ f.direct => w > 0 /\ n = loops[w].at + 2
  BY <1>2, BodyFrame
<1>4. Lower(frames, loops, w) /\ w \in Nat /\ Base(loops, w) <= n /\ Len(loops) \in Nat
  BY <1>2, LoopsBelow
<1>5. Ordered(loops, w) /\ Len(loops) = w + 1
  BY <1>2, <1>4, InOrder
<1>6. rest \in Seq(Frame) /\ Len(rest) = n - 1 /\ \A i \in 1..n - 1 : rest[i] = frames[i]
  BY <1>1, <1>2
<1>7. Pop(rest) = fs2
  BY <1>1, <1>2, <1>6 DEF Pop
<1>8. k \in Nat /\ Windows(rest, k) /\ Windows(fs2, k)
  <2>1. n - 1 \in 0..n - 1 /\ n - 2 \in 0..n - 1 /\ n > 0
    BY <1>1, <1>3
  <2>2. FrameOK(f)
    BY <1>3 DEF Above
  <2> QED
    BY <1>1, <1>2, <1>3, <2>1, <2>2, ReturnWindows
<1> HIDE DEF f, w, rest, fs2, s, k, n
<1>9. \A i \in DOMAIN frames : i >= Base(loops, w) => Above(frames[i], i, loops, w)
  BY <1>2, <1>4, AboveIs
<1>10. DOMAIN frames = 1..n /\ DOMAIN rest = 1..n - 1
  BY <1>2, <1>3, <1>6 DEF n
<1>11. CASE w > 0 /\ n = loops[w].at + 2
  <2>1. loops[w].at \in Nat /\ loops[w].at + 1 = n - 1 /\ Base(loops, w) = n
        /\ loops[w].at = n - 2 /\ n - 1 \in DOMAIN frames /\ n - 1 \in DOMAIN rest
    BY <1>1, <1>3, <1>5, <1>10, <1>11 DEF Ordered
  <2>2. frames[n - 1].kind = "sentinel"
    BY <1>2, <1>4, <1>11, <2>1, AboveIs
  <2>3. IsSentinel(rest, Len(rest))
    BY <1>6, <2>1, <2>2 DEF IsSentinel
  <2>4. Ends(fs2, answer)
    BY <1>1, <1>7, <2>3
  <2>5. w \in 1..w /\ w \in DOMAIN loops /\ Len(loops) > 1 /\ w = Len(loops) - 1
    BY <1>2, <1>4, <1>5, <1>11
  <2>6. Waits(frames, loops, w) /\ loops[w] \in Activation
    BY <1>2, <1>4, <2>5 DEF Lower
  <2>7. f.gen = loops[w].call.gen
    BY <1>3, <1>11 DEF Above
  <2>8. Lower(fs2, loops, w) /\ fs2 \in Seq(Frame) /\ Len(fs2) = n - 2
    <3>1. n - 2 \in 0..Len(frames) /\ loops[w].at <= n - 2
      BY <1>1, <1>2, <2>1 DEF n
    <3> QED
      BY <1>2, <1>4, <3>1, LowerCut DEF fs2
  <2>9. f.gen = Null => loops[w].call.entry = "call"
    BY <2>6, <2>7, ActivationFields DEF Waits
  <2>10. CASE exception = Quiet
    <3>1. due' = 0 /\ exception' = Quiet /\ Ends(fs2, Ok)
      BY <1>1, <1>2, <2>4, <2>10, QuietFields DEF DueOK
    <3>2. CASE f.gen = Null
      <4>1. Good(fs2, k, Quiet, Pop(loops), Ok, generators, 0)
        BY <1>2, <1>4, <1>8, <2>1, <2>5, <2>8, <2>9, <3>2, GoodEndedWell
      <4> QED
        BY <1>1, <3>1, <3>2, <4>1, InvNext DEF Ends
    <3>3. CASE f.gen # Null
      <4> DEFINE g == f.gen
                 gs2 == [generators EXCEPT ![g] = s]
      <4>1. g \in Generators
        BY <1>3, <3>3, FrameFields DEF Bodied
      <4>2. generators[g].state = "executing" /\ generators[g] \in Suspensions
        BY <1>2, <2>5, <2>7, <3>3, <4>1 DEF Owned, Executing
      <4>3. ~generators[g].covered
        BY <1>2, <4>1, <4>2 DEF Resting
      <4>4. s \in Suspensions /\ s.state = "completed" /\ ~s.covered
        BY <4>2, <4>3 DEF Suspensions, s
      <4> HIDE DEF g
      <4>5. /\ gs2 \in [Generators -> Suspensions] /\ Resting(gs2) /\ gs2[g] = s
            /\ \A x \in Generators : x # g => gs2[x] = generators[x]
        BY <1>2, <4>1, <4>4, SetBody
      <4> HIDE DEF gs2
      <4>6. loops[w].call.gen # Null /\ gs2[loops[w].call.gen].state = "completed"
            /\ Len(fs2) = loops[w].at
            /\ \A x \in Generators : x # loops[w].call.gen => gs2[x] = generators[x]
        BY <2>1, <2>7, <2>8, <3>3, <4>4, <4>5 DEF g
      <4>7. Good(fs2, k, Quiet, Pop(loops), Ok, gs2, 0)
        BY <1>2, <1>4, <1>8, <2>5, <2>8, <4>5, <4>6, GoodEndedWell
      <4> QED
        BY <1>1, <3>1, <3>3, <4>7, InvNext DEF Ends, g, gs2
    <3> QED
      BY <3>2, <3>3
  <2>11. CASE exception.unwinding /\ Unwinds(exception) /\ Stops(frames, loops)
    <3>1. f.gen = Null /\ Ends(fs2, answer) /\ generators' = generators
      BY <1>1, <2>4, <2>11
    <3>2. exception.current \in Thrown
      BY <1>2, <2>11 DEF Exceptions, Unwinds
    <3>3. answer \in Replies /\ answer # NoReply
      BY <3>2, ReplyFields
    <3>4. \A i \in DOMAIN fs2 : ~(i > loops[w].at)
      BY <2>1, <2>8
    <3>5. due' = Handler(fs2)
      <4>1. due' = Handler(frames)
        BY <1>1, <1>2, <2>11 DEF DueOK
      <4>2. ~frames[n].covered /\ ~frames[n - 1].covered
        <5>1. ~frames[n - 1].covered
          BY <1>4, <2>1, <2>2 DEF Lower, Fits, FrameOK
        <5> QED
          BY <2>11, <5>1 DEF Stops, n
      <4>3. Catches(frames, Handler(frames))
        BY <1>2, HandlerCatches
      <4>4. Handler(frames) \in 0..n /\ Handler(frames) # n /\ Handler(frames) # n - 1
        <5>1. Handler(frames) \in 0..n /\ (Handler(frames) > 0 => frames[Handler(frames)].covered)
          BY <4>3 DEF Catches, n
        <5> QED
          BY <1>1, <1>3, <4>2, <5>1
      <4>5. Handler(frames) <= Len(fs2) /\ Len(fs2) <= Len(frames)
        BY <1>1, <1>3, <2>8, <4>4 DEF n
      <4>6. \A i \in DOMAIN fs2 : fs2[i] = frames[i]
        <5>1. DOMAIN fs2 = 1..n - 2
          BY <2>8
        <5> QED
          BY <1>1, <1>2, <5>1 DEF fs2, n
      <4>7. Handler(fs2) = Handler(frames)
        BY <1>2, <2>8, <4>5, <4>6, HandlerOfPrefix
      <4> QED
        BY <4>1, <4>7
    <3>6. Len(fs2) <= loops[w].at + 2
      BY <2>1, <2>8
    <3>7. loops[w].call.entry = "call"
      BY <2>9, <3>1
    <3>8. Good(fs2, k, exception, Pop(loops), answer, generators, Handler(fs2))
      BY <1>2, <1>4, <1>8, <2>5, <2>8, <2>11, <3>3, <3>4, <3>6, <3>7, GoodEndedBadly
    <3> QED
      BY <1>1, <3>1, <3>5, <3>8, InvNext DEF Ends
  <2> QED
    BY <1>2, <2>10, <2>11
<1>12. CASE ~(w > 0 /\ n = loops[w].at + 2)
  <2>1. f.gen = Null /\ ~f.direct
    BY <1>3, <1>12
  <2>2. Base(loops, w) <= n - 1 /\ Base(loops, w) \in Nat /\ Base(loops, w) > 0
    <3>1. Base(loops, w) # n
      BY <1>1, <1>4, <1>5, <1>12 DEF Ordered, Base
    <3> QED
      BY <1>3, <1>4, <1>5, <3>1 DEF Ordered
  <2>3. exception = Quiet
    <3>1. ~Stops(frames, loops)
      <4>1. w = Len(loops) - 1 /\ (Len(loops) > 1 => w > 0)
        BY <1>4, <1>5
      <4> QED
        BY <1>12, <4>1 DEF Stops, n
    <3> QED
      BY <1>2, <3>1
  <2>4. Lower(rest, loops, w)
    <3>1. n - 1 \in 0..Len(frames) /\ (w > 0 => loops[w].at <= n - 1)
      BY <1>1, <1>2, <1>3, <1>5, <2>2 DEF Ordered, n
    <3> QED
      BY <1>2, <1>4, <3>1, LowerCut DEF rest
  <2>5. /\ Runs(rest, Append(Pop(loops), Loop(Len(rest))))
        /\ TopBecomes(loops, Append(Pop(loops), Loop(Len(rest))), Loop(Len(rest)))
        /\ Append(Pop(loops), Loop(Len(rest))) \in Seq(Activation)
        /\ ~IsSentinel(rest, Len(rest))
    <3>1. Lower(rest, loops, Len(loops) - 1) /\ Base(loops, Len(loops) - 1) <= Len(rest)
      BY <1>6, <2>2, <2>4 DEF w
    <3> QED
      BY <1>1, <1>2, <1>6, <3>1, GoesOnRuns
  <2> DEFINE ls2 == Append(Pop(loops), Loop(Len(rest)))
  <2> HIDE DEF ls2
  <2>6. GoesOn(rest) /\ generators' = generators
    BY <1>1, <2>1, <2>5
  <2>7. Owned(ls2, generators, NoReply)
    BY <1>2, <2>5, OwnedBelow DEF ls2
  <2>8. Good(rest, k, Quiet, ls2, NoReply, generators, 0)
    BY <1>2, <1>6, <1>8, <2>5, <2>7, GoodRunning, QuietFields DEF ls2
  <2>9. due' = 0 /\ exception' = Quiet
    BY <1>1, <1>2, <2>3 DEF DueOK
  <2> QED
    BY <1>1, <2>6, <2>8, <2>9, InvNext DEF GoesOn, ls2
<1> QED
  BY <1>11, <1>12

-----------------------------------------------------------------------------
(* A loop has ended.                                                       *)

LEMMA EndedIs ==
  ASSUME FramesInv, loops # <<>>, reply # NoReply
  PROVE  /\ frames \in Seq(Frame) /\ loops \in Seq(Activation) /\ reply \in Replies
         /\ generators \in [Generators -> Suspensions] /\ nextRegSlot \in Nat
         /\ Windows(frames, nextRegSlot)
         /\ Resting(generators) /\ Owned(loops, generators, reply)
         /\ exception \in Exceptions /\ DueOK(frames, exception, due)
         /\ Len(loops) > 0 /\ Len(loops) \in DOMAIN loops /\ loops[Len(loops)] \in Activation
         /\ Lower(frames, loops, Len(loops)) /\ Waits(frames, loops, Len(loops))
         /\ loops[Len(loops)].at \in Nat
         /\ Len(frames) \in Nat
         /\ loops[Len(loops)].at <= Len(frames) /\ Len(frames) <= loops[Len(loops)].at + 2
         /\ \/ exception = Quiet /\ EndedWell(frames, loops, reply, generators)
            \/ /\ Unwinds(exception) /\ exception.unwinding /\ exception.crossed
               /\ exception.current \in Thrown
               /\ EndedBadly(frames, loops, reply, generators)
<1> DEFINE n == Len(loops)
<1>1. /\ frames \in Seq(Frame) /\ loops \in Seq(Activation) /\ reply \in Replies
      /\ generators \in [Generators -> Suspensions] /\ nextRegSlot \in Nat
      /\ Windows(frames, nextRegSlot)
      /\ Resting(generators) /\ Owned(loops, generators, reply)
      /\ exception \in Exceptions /\ DueOK(frames, exception, due)
      /\ Ended(frames, loops)
      /\ \/ exception = Quiet /\ EndedWell(frames, loops, reply, generators)
         \/ Unwinds(exception) /\ EndedBadly(frames, loops, reply, generators)
  BY DEF FramesInv, Good, Shape
<1>2. n > 0 /\ Lower(frames, loops, n) /\ Len(frames) <= loops[n].at + 2
  BY <1>1 DEF Ended
<1>3. n \in Nat /\ n \in DOMAIN loops /\ n \in 1..n
  BY <1>1, <1>2
<1>4. loops[n] \in Activation /\ Waits(frames, loops, n) /\ loops[n].at <= Len(frames)
  BY <1>1, <1>2, <1>3 DEF Lower
<1>5. loops[n].at \in Nat /\ Len(frames) \in Nat
  BY <1>1, <1>4, ActivationFields
<1>6. Unwinds(exception) => /\ exception.unwinding /\ exception.crossed
                            /\ exception.current \in Thrown
  BY <1>1 DEF Unwinds, Exceptions
<1> QED
  BY <1>1, <1>2, <1>3, <1>4, <1>5, <1>6

LEMMA QuietError ==
  ASSUME NEW ex \in Exceptions, ex.unwinding
  PROVE  LET ex2 == [ex EXCEPT !.current = Null]
         IN  ex2.unwinding = ex.unwinding /\ ex2.crossed = ex.crossed
BY DEF Exceptions

LEMMA StatusFields ==
  /\ Ok.status = "ok" /\ NoReply.status = "none"
  /\ \A v : Err(v).status = "error" /\ Err(v).value = v
BY DEF Ok, Err, NoReply

LEMMA UserFunctionReturnsKeeps ==
  ASSUME Plain, FramesInv, UserFunctionReturns
  PROVE  FramesInv'
<1> DEFINE n == Len(loops)
           failed == exception.unwinding /\ exception.current # Null
           ex == IF failed THEN [exception EXCEPT !.current = Null] ELSE exception
           r == IF failed THEN Err(exception.current)
                ELSE IF reply.status = "error" THEN Err(ErrText) ELSE Ok
<1>1. /\ loops # <<>> /\ reply # NoReply /\ loops[n].call.entry = "call"
      /\ CallbackEnds(frames, ex, r)
      /\ nextRegSlot' = nextRegSlot /\ generators' = generators
  BY DEF UserFunctionReturns, Top
<1>2. /\ frames \in Seq(Frame) /\ loops \in Seq(Activation)
      /\ generators \in [Generators -> Suspensions] /\ nextRegSlot \in Nat
      /\ Windows(frames, nextRegSlot)
      /\ Resting(generators) /\ Owned(loops, generators, reply)
      /\ exception \in Exceptions /\ DueOK(frames, exception, due)
      /\ n > 0 /\ Lower(frames, loops, n) /\ Waits(frames, loops, n)
      /\ loops[n].at \in Nat /\ Len(frames) \in Nat
      /\ \/ exception = Quiet /\ EndedWell(frames, loops, reply, generators)
         \/ /\ exception.unwinding /\ exception.crossed /\ exception.current \in Thrown
            /\ EndedBadly(frames, loops, reply, generators)
  BY <1>1, EndedIs
<1>3. loops[n].call.gen = Null
  BY <1>1, <1>2 DEF Waits
<1>4. Waited(frames, nextRegSlot, generators)
  <2>1. Owned(loops, generators, NoReply)
    BY <1>1, <1>2, <1>3, OwnedAnswered
  <2> QED
    BY <1>2, <2>1 DEF Waited
<1>5. CASE exception = Quiet /\ EndedWell(frames, loops, reply, generators)
  <2>1. reply = Ok /\ Len(frames) = loops[n].at
    BY <1>2, <1>3, <1>5 DEF EndedWell, Over
  <2>2. ~failed
    BY <1>5, QuietFields
  <2>3. ex = Quiet /\ r = Ok
    BY <1>5, <2>1, <2>2, StatusFields
  <2>4. CallbackEnds(frames, Quiet, Ok) /\ Ok.status = "ok"
    BY <1>1, <2>3, StatusFields
  <2> HIDE DEF ex, r
  <2> QED
    BY <1>1, <1>4, <2>1, <2>4, AnswersWell, InvNext DEF Top
<1>6. CASE /\ exception.unwinding /\ exception.crossed /\ exception.current \in Thrown
           /\ EndedBadly(frames, loops, reply, generators)
  <2>1. exception.current # Null
    BY <1>6, ThrownIsNotNull
  <2>2. failed
    BY <1>6, <2>1
  <2>3. ex = [exception EXCEPT !.current = Null] /\ r = Err(exception.current)
    BY <2>2
  <2>4. ex.unwinding /\ ex.crossed
    BY <1>2, <1>6, <2>3, QuietError
  <2>5. r.status = "error" /\ r.value \in Thrown
    BY <1>6, <2>3, StatusFields
  <2>6. due = Handler(frames) /\ \A i \in DOMAIN frames : i > loops[n].at => ~frames[i].covered
    BY <1>2, <1>6 DEF DueOK, EndedBadly
  <2> HIDE DEF ex, r
  <2> QED
    BY <1>1, <1>4, <2>4, <2>5, <2>6, AnswersBadly, InvNext
<1> QED
  BY <1>2, <1>5, <1>6

(* What the loop of a generator leaves is popped.                          *)
LEMMA LeftPopped ==
  ASSUME NEW fs \in Seq(Frame), NEW ls \in Seq(Activation), NEW n \in Nat, n > 0,
         Lower(fs, ls, n), Len(fs) = ls[n].at + 2, ls[n].call.gen # Null,
         NEW k \in Nat, Windows(fs, k)
  PROVE  LET fs2 == SubSeq(fs, 1, ls[n].at)
         IN  /\ PopSentinel(Pop(fs)) = fs2 /\ Pop(fs) # <<>>
             /\ fs2 \in Seq(Frame) /\ Len(fs2) = ls[n].at /\ Lower(fs2, ls, n)
             /\ k - GeneratorSize \in Nat /\ Windows(fs2, k - GeneratorSize)
             /\ (\A i \in DOMAIN fs : i > ls[n].at => ~fs[i].covered) =>
                   Handler(fs2) = Handler(fs) /\ \A i \in DOMAIN fs2 : ~(i > ls[n].at)
<1> DEFINE at   == ls[n].at
           t    == at + 2
           rest == SubSeq(fs, 1, t - 1)
           fs2  == SubSeq(fs, 1, at)
<1>1. Ordered(ls, n) /\ n \in 1..n
  BY InOrder
<1>2. at \in Nat /\ at > 0 /\ Base(ls, n) = t
  BY <1>1 DEF Ordered
<1>3. t \in DOMAIN fs /\ t - 1 \in DOMAIN fs /\ t - 1 = at + 1 /\ DOMAIN fs = 1..t
  BY <1>2
<1>4. Above(fs[t], t, ls, n) /\ fs[t - 1].kind = "sentinel"
  <2>1. t >= Base(ls, n) /\ at + 1 \in DOMAIN fs
    BY <1>2, <1>3
  <2>2. Above(fs[t], t, ls, n)
    <3> HIDE DEF t
    <3> QED
      BY <1>3, <2>1, AboveIs
  <2>3. fs[at + 1].kind = "sentinel"
    BY <2>1, AboveIs
  <2> QED
    BY <1>3, <2>2, <2>3
<1>5. fs[t].kind = "code" /\ fs[t].gen = ls[n].call.gen /\ fs[t].alloc = GeneratorSize
  BY <1>4 DEF Above, FrameOK
<1>6. rest \in Seq(Frame) /\ Len(rest) = t - 1 /\ \A i \in 1..t - 1 : rest[i] = fs[i]
  BY <1>2, <1>3
<1>7. Pop(fs) = rest /\ rest # <<>>
  BY <1>2, <1>6, EmptySeq DEF Pop
<1>8. IsSentinel(rest, Len(rest))
  <2>1. t - 1 \in DOMAIN rest /\ t - 1 \in 1..t - 1
    BY <1>2, <1>6
  <2> HIDE DEF rest, t
  <2>2. rest[t - 1] = fs[t - 1]
    BY <1>6, <2>1
  <2> QED
    BY <1>4, <1>6, <2>1, <2>2 DEF IsSentinel
<1>9. Pop(rest) = fs2
  BY <1>2, <1>3, <1>6, SMTT(20) DEF Pop
<1>10. fs2 \in Seq(Frame) /\ Len(fs2) = at /\ Lower(fs2, ls, n) /\ \A i \in 1..at : fs2[i] = fs[i]
  <2>1. at \in 0..Len(fs) /\ at <= at
    BY <1>2
  <2> QED
    BY <1>2, <2>1, LowerCut
<1>11. k - GeneratorSize \in Nat /\ Windows(fs2, k - GeneratorSize)
  <2>1. at \in 0..Len(fs) - 1 /\ Len(fs) > 0 /\ fs[Len(fs)] = fs[t]
    BY <1>2
  <2>2. FrameOK(fs[t])
    BY <1>4 DEF Above
  <2> HIDE DEF fs2, t, at
  <2> QED
    BY <1>5, <2>1, <2>2, ReturnWindows DEF fs2
<1>12. ASSUME \A i \in DOMAIN fs : i > at => ~fs[i].covered
       PROVE  Handler(fs2) = Handler(fs) /\ \A i \in DOMAIN fs2 : ~(i > at)
  <2>1. Catches(fs, Handler(fs))
    BY HandlerCatches
  <2>2. Handler(fs) <= at
    BY <1>2, <1>12, <2>1 DEF Catches
  <2>3. DOMAIN fs2 = 1..at
    BY <1>10
  <2> HIDE DEF fs2
  <2>4. Len(fs2) <= Len(fs) /\ Handler(fs) <= Len(fs2) /\ \A i \in DOMAIN fs2 : fs2[i].covered = fs[i].covered
    BY <1>2, <1>10, <2>2, <2>3
  <2>5. Handler(fs2) = Handler(fs)
    BY <1>10, <2>4, HandlerOfPrefix
  <2> QED
    BY <1>2, <2>3, <2>5
<1> HIDE DEF rest, fs2, t
<1>13. PopSentinel(Pop(fs)) = fs2
  BY <1>7, <1>8, <1>9 DEF PopSentinel
<1> QED
  BY <1>7, <1>10, <1>11, <1>12, <1>13 DEF fs2

LEMMA GeneratorReturnsKeeps ==
  ASSUME Plain, FramesInv, GeneratorReturns
  PROVE  FramesInv'
<1> DEFINE n    == Len(loops)
           call == loops[n].call
           g    == call.gen
           at   == loops[n].at
           fs2  == SubSeq(frames, 1, at)
           failed == exception.current # Null /\ (exception.unwinding \/ call.entry = "throw")
           error  == Err(IF failed THEN exception.current ELSE ErrText)
<1>1. loops # <<>> /\ reply # NoReply /\ call.entry \in {"next", "throw"}
  BY DEF GeneratorReturns, Top
<1>2. /\ frames \in Seq(Frame) /\ loops \in Seq(Activation)
      /\ generators \in [Generators -> Suspensions] /\ nextRegSlot \in Nat
      /\ Windows(frames, nextRegSlot)
      /\ Resting(generators) /\ Owned(loops, generators, reply)
      /\ exception \in Exceptions /\ DueOK(frames, exception, due)
      /\ n > 0 /\ Lower(frames, loops, n) /\ Waits(frames, loops, n) /\ loops[n] \in Activation
      /\ at \in Nat /\ Len(frames) \in Nat
      /\ \/ exception = Quiet /\ EndedWell(frames, loops, reply, generators)
         \/ /\ exception.unwinding /\ exception.crossed /\ exception.current \in Thrown
            /\ EndedBadly(frames, loops, reply, generators)
  BY <1>1, EndedIs
<1>3. g # Null /\ g \in Generators
  BY <1>1, <1>2, ActivationFields DEF Waits, Bodied
<1>4. n \in Nat /\ n > 0
  BY <1>2
<1>5. Resting(SetState(g, "completed")) /\ SetState(g, "completed") \in [Generators -> Suspensions]
      /\ SetState(g, "completed")[g].state = "completed"
      /\ \A x \in Generators : x # g => SetState(g, "completed")[x] = generators[x]
  <2> DEFINE s == [state |-> "completed", covered |-> FALSE]
  <2>1. s \in Suspensions /\ ~s.covered /\ s.state = "completed"
    BY DEF Suspensions
  <2>2. SetState(g, "completed") = [generators EXCEPT ![g] = s]
    BY DEF SetState
  <2> HIDE DEF s, g
  <2> QED
    BY <1>2, <1>3, <2>1, <2>2, SetBody
<1>6. \/ /\ reply.status = "error"
         /\ call.entry = "next"
         /\ generators' = SetState(g, "completed")
         /\ Pop(frames) # <<>> => nextRegSlot' = nextRegSlot - GeneratorSize
         /\ CallbackEnds(PopSentinel(Pop(frames)), exception, error)
      \/ /\ reply.status = "error"
         /\ call.entry = "throw"
         /\ generators' = SetState(g, "completed")
         /\ CallbackEnds(frames, exception, error)
         /\ nextRegSlot' = nextRegSlot
      \/ /\ reply.status = "ok"
         /\ generators[g].state = "yield"
         /\ nextRegSlot' = nextRegSlot - GeneratorSize
         /\ CallbackEnds(PopSentinel(Pop(frames)), exception, reply)
         /\ generators' = generators
      \/ /\ reply.status = "ok"
         /\ generators[g].state = "completed"
         /\ CallbackEnds(PopSentinel(frames), exception, reply)
         /\ nextRegSlot' = nextRegSlot /\ generators' = generators
      \/ /\ reply.status = "ok"
         /\ generators[g].state = "executing"
         /\ CallbackEnds(frames, exception, reply)
         /\ nextRegSlot' = nextRegSlot /\ generators' = generators
  BY DEF GeneratorReturns, Top
<1> HIDE DEF n, at, error, failed
<1>7. CASE exception = Quiet /\ EndedWell(frames, loops, reply, generators)
  <2>1. reply = Ok /\ call.entry # "call" /\ reply.status # "error"
        /\ \/ generators[g].state = "completed" /\ Over(frames, loops) = 0
           \/ generators[g].state = "yield" /\ Over(frames, loops) = 2
    BY <1>1, <1>7, StatusFields DEF EndedWell, n
  <2>2. Over(frames, loops) = Len(frames) - at
    BY DEF Over, at, n
  <2>3. Owned(loops, generators, NoReply)
    BY <1>1, <1>2, <2>1, OwnedAnswered DEF n
  <2>4. CASE generators[g].state = "completed" /\ Over(frames, loops) = 0
    <3>1. CallbackEnds(PopSentinel(frames), Quiet, Ok) /\ nextRegSlot' = nextRegSlot
          /\ generators' = generators
      BY <1>6, <1>7, <2>1, <2>4
    <3>2. Len(frames) = at
      BY <1>2, <2>2, <2>4
    <3>3. PopSentinel(frames) = frames
      <4>1. Base(loops, n - 1) <= at
        BY <1>2, <1>4, LowerDrops DEF at
      <4>2. frames[at].kind = "code"
        <5>1. Ordered(loops, n) /\ n \in 1..n
          BY <1>2, <1>4, InOrder
        <5>2. at > 0
          BY <5>1 DEF Ordered, at
        <5>3. at \in DOMAIN frames
          BY <1>2, <3>2, <5>2
        <5>4. Fits(frames[at], at, loops, n) /\ frames[at] \in Frame
          BY <1>2, <5>3 DEF Lower
        <5>5. \A k \in 1..n : at # loops[k].at + 1
          <6>1. \A k \in 1..n : loops[k].at \in Nat /\ (k < n => loops[k].at + 2 <= at)
            BY <5>1 DEF Ordered, at
          <6>2. \A k \in 1..n : k < n \/ k = n
            BY <1>4
          <6> QED
            BY <1>2, <6>1, <6>2 DEF at
        <5>6. frames[at].kind # "sentinel"
          BY <5>4, <5>5 DEF Fits
        <5> QED
          BY <5>4, <5>6, FrameFields
      <4> QED
        BY <3>2, <4>2 DEF PopSentinel, IsSentinel
    <3>4. Waited(frames, nextRegSlot, generators)
      BY <1>2, <1>4, <2>3 DEF Waited, n
    <3>5. CallbackEnds(frames, Quiet, Ok) /\ Ok.status = "ok" /\ Len(frames) = Top(loops).at
      BY <3>1, <3>2, <3>3, StatusFields DEF Top, at, n
    <3> QED
      BY <3>1, <3>4, <3>5, AnswersWell, InvNext
  <2>5. CASE generators[g].state = "yield" /\ Over(frames, loops) = 2
    <3>1. /\ CallbackEnds(PopSentinel(Pop(frames)), Quiet, Ok)
          /\ nextRegSlot' = nextRegSlot - GeneratorSize
          /\ generators' = generators
      BY <1>6, <1>7, <2>1, <2>5
    <3>2. Len(frames) = at + 2
      BY <1>2, <2>2, <2>5
    <3>3. /\ PopSentinel(Pop(frames)) = fs2
          /\ fs2 \in Seq(Frame) /\ Len(fs2) = at /\ Lower(fs2, loops, n)
          /\ nextRegSlot' \in Nat /\ Windows(fs2, nextRegSlot')
      BY <1>2, <1>3, <1>4, <3>1, <3>2, LeftPopped DEF at
    <3> HIDE DEF fs2
    <3>4. Waited(fs2, nextRegSlot', generators)
      BY <1>2, <1>4, <2>3, <3>3 DEF Waited, n
    <3>5. CallbackEnds(fs2, Quiet, Ok) /\ Ok.status = "ok" /\ Len(fs2) = Top(loops).at
      BY <3>1, <3>3, StatusFields DEF Top, at, n
    <3> QED
      BY <3>1, <3>4, <3>5, AnswersWell, InvNext
  <2> QED
    BY <2>1, <2>4, <2>5
<1>8. CASE /\ exception.unwinding /\ exception.crossed /\ exception.current \in Thrown
           /\ EndedBadly(frames, loops, reply, generators)
  <2>1. exception.current # Null
    BY <1>8, ThrownIsNotNull
  <2>2. error = Err(exception.current) /\ error.status = "error" /\ error.value \in Thrown
    BY <1>8, <2>1, StatusFields DEF error, failed
  <2>3. reply.status # "ok"
    <3>1. reply # Ok
      BY <1>1, <1>8 DEF EndedBadly, n
    <3>2. reply \in Replies
      BY <1>1, EndedIs
    <3> QED
      BY <1>1, <3>1, <3>2 DEF Replies, Err, Ok, NoReply
  <2>4. /\ call.entry = "next" => Len(frames) = at + 2
        /\ \A i \in DOMAIN frames : i > at => ~frames[i].covered
        /\ due = Handler(frames)
    BY <1>2, <1>8 DEF EndedBadly, Over, DueOK, at, n
  <2>5. Owned(loops, SetState(g, "completed"), NoReply)
    BY <1>1, <1>2, <1>5, OwnedAnswered DEF n
  <2>6. CASE call.entry = "next"
    <3>1. /\ generators' = SetState(g, "completed")
          /\ Pop(frames) # <<>> => nextRegSlot' = nextRegSlot - GeneratorSize
          /\ CallbackEnds(PopSentinel(Pop(frames)), exception, error)
      BY <1>6, <2>3, <2>6
    <3>2. Len(frames) = at + 2
      BY <2>4, <2>6
    <3>3. /\ PopSentinel(Pop(frames)) = fs2 /\ Pop(frames) # <<>>
          /\ fs2 \in Seq(Frame) /\ Len(fs2) = at /\ Lower(fs2, loops, n)
          /\ nextRegSlot - GeneratorSize \in Nat /\ Windows(fs2, nextRegSlot - GeneratorSize)
          /\ Handler(fs2) = Handler(frames) /\ \A i \in DOMAIN fs2 : ~(i > at)
      <4>1. \A i \in DOMAIN frames : i > loops[n].at => ~frames[i].covered
        BY <2>4 DEF at
      <4>2. Len(frames) = loops[n].at + 2 /\ loops[n].call.gen # Null
        BY <1>3, <3>2 DEF at
      <4> QED
        BY <1>2, <1>4, <4>1, <4>2, LeftPopped DEF at
    <3> HIDE DEF fs2
    <3>4. Waited(fs2, nextRegSlot', generators')
      BY <1>2, <1>4, <1>5, <2>5, <3>1, <3>3 DEF Waited, n
    <3>5. due = Handler(fs2) /\ \A i \in DOMAIN fs2 : i > loops[Len(loops)].at => ~fs2[i].covered
      BY <2>4, <3>3 DEF at, n
    <3>6. CallbackEnds(fs2, exception, error)
      BY <3>1, <3>3
    <3> QED
      BY <1>8, <2>2, <3>4, <3>5, <3>6, AnswersBadly, InvNext
  <2>7. CASE call.entry = "throw"
    <3>1. /\ generators' = SetState(g, "completed")
          /\ CallbackEnds(frames, exception, error)
          /\ nextRegSlot' = nextRegSlot
      BY <1>6, <2>3, <2>7
    <3>2. Waited(frames, nextRegSlot', generators')
      BY <1>2, <1>4, <1>5, <2>5, <3>1 DEF Waited, n
    <3>3. due = Handler(frames) /\ \A i \in DOMAIN frames : i > loops[Len(loops)].at => ~frames[i].covered
      BY <2>4 DEF at, n
    <3> QED
      BY <1>8, <2>2, <3>1, <3>2, <3>3, AnswersBadly, InvNext
  <2> QED
    BY <1>1, <2>6, <2>7
<1> QED
  BY <1>2, <1>7, <1>8

-----------------------------------------------------------------------------
(* The body of a generator is resumed.                                     *)

LEMMA GeneratorFields ==
  ASSUME nextRegSlot \in Nat, NEW g \in Generators
  PROVE  /\ Generator(g) \in Frame /\ FrameOK(Generator(g))
         /\ Generator(g).kind = "code" /\ ~Generator(g).direct /\ ~Generator(g).covered
         /\ Generator(g).gen = g /\ Generator(g).base = nextRegSlot
         /\ Generator(g).alloc = GeneratorSize /\ GeneratorSize \in Nat
<1> DEFINE f == Code(nextRegSlot, GeneratorSize)
<1>1. GeneratorSize \in Nat
  BY DEF GeneratorSize
<1>2. /\ f \in Frame /\ FrameOK(f) /\ f.kind = "code" /\ ~f.direct /\ f.base = nextRegSlot
      /\ f.alloc = GeneratorSize /\ ~f.covered /\ f.size = GeneratorSize
  BY <1>1, CodeFields, CodeSize
<1>3. Generator(g) = [f EXCEPT !.gen = g]
  BY DEF Generator
<1> HIDE DEF f
<1>4. /\ Generator(g) \in Frame /\ Generator(g).kind = f.kind /\ Generator(g).direct = f.direct
      /\ Generator(g).covered = f.covered /\ Generator(g).gen = g /\ Generator(g).base = f.base
      /\ Generator(g).alloc = f.alloc /\ Generator(g).size = f.size
  BY <1>2, <1>3 DEF Frame, Bodied
<1>5. FrameOK(Generator(g))
  BY <1>1, <1>2, <1>4 DEF FrameOK
<1> QED
  BY <1>1, <1>2, <1>4, <1>5

LEMMA ResumedIs ==
  ASSUME NEW fs \in Seq(Frame), nextRegSlot \in Nat, NEW g \in Generators
  PROVE  /\ Topped(fs, Resumed(fs, g), Generator(g))
         /\ \A f \in Frame : Topped(fs, [Resumed(fs, g) EXCEPT ![Len(fs) + 2] = f], f)
         /\ Len(fs) + 2 \in DOMAIN Resumed(fs, g)
<1> DEFINE s  == <<Sentinel, Generator(g)>>
           f0 == Generator(g)
           t  == Resumed(fs, g)
           n  == Len(fs) + 2
<1>1. Sentinel \in Frame /\ f0 \in Frame
  BY SentinelFields, GeneratorFields
<1> HIDE DEF f0
<1>2. t = fs \o <<Sentinel, f0>>
  BY DEF Resumed, f0
<1> HIDE DEF t
<1>3. /\ t \in Seq(Frame) /\ Len(t) = n /\ n \in Nat
      /\ \A i \in 1..Len(fs) : t[i] = fs[i]
      /\ t[Len(fs) + 1] = Sentinel /\ t[n] = f0
  BY <1>1, <1>2
<1>4. ASSUME NEW f \in Frame PROVE Topped(fs, [t EXCEPT ![n] = f], f)
  <2>1. n \in 1..Len(t) /\ n \in DOMAIN t
    BY <1>3
  <2>2. [t EXCEPT ![n] = f] \in Seq(Frame) /\ Len([t EXCEPT ![n] = f]) = n
    BY <1>3, <2>1, ExceptSeq
  <2>3. \A i \in DOMAIN t : i # n => [t EXCEPT ![n] = f][i] = t[i]
    OBVIOUS
  <2>4. [t EXCEPT ![n] = f][n] = f
    BY <2>1
  <2>5. Len(fs) + 1 \in DOMAIN t /\ Len(fs) + 1 # n
    BY <1>3
  <2>6. \A i \in 1..Len(fs) : i \in DOMAIN t /\ i # n
    BY <1>3
  <2> QED
    BY <1>3, <2>2, <2>3, <2>4, <2>5, <2>6 DEF Topped
<1>5. Topped(fs, t, f0)
  BY <1>3 DEF Topped
<1>6. n \in DOMAIN t
  BY <1>3
<1> QED
  BY <1>4, <1>5, <1>6 DEF t, f0

(* The frames below are as they were.                                      *)
LEMMA ToppedBelow ==
  ASSUME NEW fs \in Seq(Frame), NEW fs2, NEW f, Topped(fs, fs2, f)
  PROVE  SubSeq(fs2, 1, Len(fs)) = fs
<1>1. /\ fs2 \in Seq(Frame) /\ Len(fs2) = Len(fs) + 2 /\ Len(fs) \in Nat
      /\ \A i \in 1..Len(fs) : fs2[i] = fs[i]
  BY DEF Topped
<1> DEFINE s == SubSeq(fs2, 1, Len(fs))
<1>2. s \in Seq(Frame) /\ Len(s) = Len(fs) /\ \A i \in 1..Len(fs) : s[i] = fs2[i]
  BY <1>1
<1> HIDE DEF s
<1>3. s = fs
  BY <1>1, <1>2
<1> QED
  BY <1>3 DEF s

LEMMA CallFields ==
  ASSUME NEW l \in Activation, NEW call \in Awaited
  PROVE  LET l2 == [l EXCEPT !.call = call]
         IN  l2 \in Activation /\ l2.at = l.at /\ l2.call = call
BY DEF Activation

(* The body of g is resumed in a frame on a sentinel.                      *)
BodyPushed(fs, native, entry, g) ==
  \E f \in Frame, fs2 \in Seq(Frame) :
     /\ FrameOK(f) /\ f.kind = "code" /\ f.gen = g /\ f.base = nextRegSlot
     /\ f.alloc = GeneratorSize
     /\ entry = "next" => f.direct
     /\ entry = "throw" => ~f.direct
     /\ Topped(fs, fs2, f)
     /\ Resume(fs2, native, entry, g)
     /\ exception' = Quiet /\ due' = 0

LEMMA ResumeKeeps ==
  ASSUME Plain, NEW fs, NEW v, Throws(fs, generators, v), Len(fs) = Len(frames),
         reply = NoReply, NEW g \in Generators, generators[g].state # "executing",
         NEW native \in Natives \cup {"generator"}, NEW entry \in {"next", "throw"},
         BodyPushed(fs, native, entry, g)
  PROVE  FramesInv'
<1>0. PICK f \in Frame, fs2 \in Seq(Frame) :
         /\ FrameOK(f) /\ f.kind = "code" /\ f.gen = g /\ f.base = nextRegSlot
         /\ f.alloc = GeneratorSize
         /\ entry = "next" => f.direct
         /\ entry = "throw" => ~f.direct
         /\ Topped(fs, fs2, f)
         /\ Resume(fs2, native, entry, g)
         /\ exception' = Quiet /\ due' = 0
  BY DEF BodyPushed
<1> DEFINE m    == Len(loops)
           l    == loops[m]
           call == Awaiting(native, entry, g)
           l2   == [l EXCEPT !.call = call]
<1>1. /\ Guarded(SubSeq(fs2, 1, Len(frames))) /\ frames' = fs2
      /\ nextRegSlot' = nextRegSlot + GeneratorSize
      /\ generators' = SetState(g, "executing")
      /\ loops' = Append([loops EXCEPT ![m].call = call], Loop(Len(fs2)))
      /\ reply' = NoReply
  BY <1>0 DEF Resume
<1>2. /\ fs \in Seq(Frame) /\ loops \in Seq(Activation) /\ Runs(fs, loops)
      /\ generators \in [Generators -> Suspensions]
  BY DEF Throws
<1>3. Guarded(fs)
  BY <1>0, <1>1, <1>2, ToppedBelow
<1>4. m \in DOMAIN loops /\ l.at = Len(fs) /\ Len(frames) \in Nat
  BY <1>2, LoopsBelow DEF Runs
<1>5. l \in Activation
  BY <1>2, <1>4
<1>6. call \in Awaited /\ call.native = native /\ call.entry = entry /\ call.gen = g
  <2> HIDE DEF m, l
  <2> QED
    BY <1>4 DEF Awaiting, Awaited, Bodied
<1> HIDE DEF call, l
<1>7. l2 \in Activation /\ l2.at = l.at /\ l2.call = call
  BY <1>5, <1>6, CallFields
<1>8. [loops EXCEPT ![m].call = call] = [loops EXCEPT ![m] = l2]
  BY <1>4 DEF l
<1> HIDE DEF l2
<1>9. g # Null /\ native # "none"
  BY NullAssumption DEF Plain
<1>10. Awaits(l2, f)
  BY <1>0, <1>6, <1>7, <1>9 DEF Awaits
<1>11. Started(generators, generators', l2)
  BY <1>1, <1>6, <1>7, <1>9 DEF Started, SetState
<1>12. Good(fs2, nextRegSlot + f.alloc, Quiet,
              Append([loops EXCEPT ![m] = l2], Loop(Len(fs2))), NoReply, generators', 0)
  BY <1>0, <1>3, <1>4, <1>7, <1>10, <1>11, PushedIsGood
<1> QED
  BY <1>0, <1>1, <1>8, <1>12, InvNext

LEMMA ResumeNextIs ==
  ASSUME NEW fs, NEW v, Throws(fs, generators, v), exception = Quiet, due = 0,
         NEW g \in Generators, NEW native, ResumeNext(fs, native, g)
  PROVE  generators[g].state \in {"start", "yield"} /\ BodyPushed(fs, native, "next", g)
<1> DEFINE f0 == Generator(g)
           f  == [f0 EXCEPT !.direct = TRUE]
           n  == Len(fs) + 2
           t  == Resumed(fs, g)
           fs2 == [t EXCEPT ![n] = f]
<1>1. fs \in Seq(Frame) /\ nextRegSlot \in Nat
  BY DEF Throws
<1>2. /\ f0 \in Frame /\ FrameOK(f0) /\ f0.kind = "code" /\ f0.gen = g
      /\ f0.base = nextRegSlot /\ f0.alloc = GeneratorSize
  BY <1>1, GeneratorFields
<1>3. Topped(fs, t, f0) /\ n \in DOMAIN t
  BY <1>1, ResumedIs
<1>4. t[n] = f0
  BY <1>3 DEF Topped
<1> HIDE DEF f0
<1>5. /\ f \in Frame /\ FrameOK(f) /\ f.kind = "code" /\ f.gen = g /\ f.direct
      /\ f.base = nextRegSlot /\ f.alloc = GeneratorSize
  BY <1>2, DirectFields DEF FrameOK
<1>6. Topped(fs, fs2, f)
  BY <1>1, <1>5, ResumedIs
<1> HIDE DEF t
<1>7. [t EXCEPT ![n].direct = TRUE] = fs2
  BY <1>3, <1>4
<1>8. /\ generators[g].state \in {"start", "yield"} /\ exception' = Quiet /\ due' = 0
      /\ Resume([t EXCEPT ![n].direct = TRUE], native, "next", g)
  BY DEF ResumeNext, t
<1> HIDE DEF f, fs2
<1>9. Resume(fs2, native, "next", g)
  BY <1>7, <1>8
<1>10. fs2 \in Seq(Frame)
  BY <1>6 DEF Topped
<1> QED
  BY <1>5, <1>6, <1>8, <1>9, <1>10 DEF BodyPushed

LEMMA ResumeNextKeeps ==
  ASSUME Plain, NEW fs, NEW v, Throws(fs, generators, v), Len(fs) = Len(frames),
         reply = NoReply, exception = Quiet, due = 0,
         NEW g \in Generators, NEW native \in Natives \cup {"generator"},
         ResumeNext(fs, native, g)
  PROVE  FramesInv'
<1>1. generators[g].state \in {"start", "yield"} /\ BodyPushed(fs, native, "next", g)
  BY ResumeNextIs
<1> QED
  BY <1>1, ResumeKeeps

(* ... or is over, and was not running.                                    *)
LEMMA CompletedBodies ==
  ASSUME NEW fs, NEW v, Throws(fs, generators, v), NEW g \in Generators,
         generators[g].state # "executing"
  PROVE  Throws(fs, SetState(g, "completed"), v)
<1> DEFINE s   == [state |-> "completed", covered |-> FALSE]
           gs2 == [generators EXCEPT ![g] = s]
           w   == Len(loops) - 1
<1>1. s \in Suspensions /\ ~s.covered /\ s.state = "completed"
  BY BodiesAre
<1>2. SetState(g, "completed") = gs2
  BY DEF SetState
<1>3. /\ generators \in [Generators -> Suspensions] /\ Resting(generators)
      /\ Distinct(loops, w) /\ Executing(loops, generators, w) /\ NoOthers(loops, generators, w)
      /\ loops \in Seq(Activation)
  BY DEF Throws, Owned
<1> HIDE DEF s
<1>4. /\ gs2 \in [Generators -> Suspensions] /\ Resting(gs2) /\ gs2[g] = s
      /\ \A x \in Generators : x # g => gs2[x] = generators[x]
  BY <1>1, <1>3, SetBody
<1> HIDE DEF gs2
<1>5. Executing(loops, gs2, w)
  <2>1. ASSUME NEW k \in 1..w, loops[k].call.gen # Null
        PROVE  gs2[loops[k].call.gen].state = "executing"
    <3>1. generators[loops[k].call.gen].state = "executing"
      BY <1>3, <2>1 DEF Executing
    <3>2. loops[k] \in Activation
      BY <1>3
    <3>3. loops[k].call.gen \in Generators
      BY <2>1, <3>2, ActivationFields DEF Bodied
    <3> QED
      BY <1>4, <3>1, <3>3
  <2> QED
    BY <2>1 DEF Executing
<1>6. NoOthers(loops, gs2, w)
  BY <1>1, <1>3, <1>4 DEF NoOthers
<1>7. Owned(loops, gs2, NoReply)
  BY <1>3, <1>5, <1>6 DEF Owned
<1> QED
  BY <1>2, <1>4, <1>7 DEF Throws

LEMMA GeneratorNextKeeps ==
  ASSUME Plain, FramesInv, NEW g \in Generators, NEW c \in BOOLEAN, GeneratorNext(g, c)
  PROVE  FramesInv'
<1>1. /\ Unhindered
      /\ \/ ResumeNext(At(c), "generator", g)
         \/ /\ NativeFails(At(c), exception, ErrText)
            /\ nextRegSlot' = nextRegSlot /\ generators' = generators
         \/ /\ NativeSucceeds(At(c), exception)
            /\ nextRegSlot' = nextRegSlot /\ generators' = generators
  BY DEF GeneratorNext
<1>2. loops # <<>> /\ reply = NoReply /\ exception = Quiet /\ due = 0
  BY <1>1, UnhinderedIs
<1>3. Throws(At(c), generators, ErrText) /\ Len(At(c)) = Len(frames)
  BY <1>2, AtThrows DEF Thrown
<1>4. CASE ResumeNext(At(c), "generator", g)
  BY <1>2, <1>3, <1>4, ResumeNextKeeps
<1>5. CASE /\ NativeFails(At(c), exception, ErrText)
           /\ nextRegSlot' = nextRegSlot /\ generators' = generators
  <2>1. NativeFails(At(c), Quiet, ErrText)
    BY <1>2, <1>5
  <2> QED
    BY <1>3, <1>5, <2>1, FailsFirst, InvNext
<1>6. CASE /\ NativeSucceeds(At(c), exception)
           /\ nextRegSlot' = nextRegSlot /\ generators' = generators
  <2>1. NativeSucceeds(At(c), Quiet)
    BY <1>2, <1>6
  <2> QED
    BY <1>3, <1>6, <2>1, SucceedsIsGood, InvNext
<1> QED
  BY <1>1, <1>4, <1>5, <1>6

LEMMA NativeNextKeeps ==
  ASSUME Plain, FramesInv, NEW g \in Generators, NativeNext(g)
  PROVE  FramesInv'
<1> DEFINE m == Len(loops)
           l == loops[m]
           l2 == [l EXCEPT !.call.entry = "none", !.call.gen = Null]
<1>1. /\ InNative
      /\ \/ ResumeNext(frames, Top(loops).call.native, g)
         \/ /\ CallbackEnds(frames, exception, Err(ErrText))
            /\ nextRegSlot' = nextRegSlot /\ generators' = generators
         \/ /\ CallbackEnds(frames, exception, Ok)
            /\ nextRegSlot' = nextRegSlot /\ generators' = generators
  BY DEF NativeNext
<1>2. /\ loops # <<>> /\ reply = NoReply /\ exception = Quiet /\ due = 0
      /\ Top(loops) = l /\ l \in Activation
      /\ l.at = Len(frames) /\ l.call.native = "propagates"
  BY <1>1, InNativeIs
<1>3. Throws(frames, generators, ErrText)
  BY <1>2, QuietThrows DEF Thrown
<1>4. loops \in Seq(Activation) /\ m \in DOMAIN loops
  BY <1>3, LoopsBelow DEF Throws
<1>5. CASE ResumeNext(frames, Top(loops).call.native, g)
  <2>1. Top(loops).call.native \in Natives
    BY <1>1 DEF InNative
  <2> QED
    BY <1>2, <1>3, <1>5, <2>1, ResumeNextKeeps
<1>6. CASE /\ CallbackEnds(frames, exception, Err(ErrText))
           /\ nextRegSlot' = nextRegSlot /\ generators' = generators
  <2>1. NativeFails(frames, Quiet, ErrText)
    BY <1>2, <1>6, StatusFields DEF CallbackEnds
  <2> QED
    BY <1>3, <1>6, <2>1, FailsFirst, InvNext
<1>7. CASE /\ CallbackEnds(frames, exception, Ok)
           /\ nextRegSlot' = nextRegSlot /\ generators' = generators
  <2> HIDE DEF l
  <2>1. /\ frames' = frames /\ exception' = Quiet /\ reply' = NoReply /\ due' = 0
        /\ loops' = [loops EXCEPT ![m].call.entry = "none", ![m].call.gen = Null]
    BY <1>2, <1>7, StatusFields, QuietFields DEF CallbackEnds
  <2>2. [loops EXCEPT ![m].call.entry = "none", ![m].call.gen = Null] = [loops EXCEPT ![m] = l2]
    BY <1>4 DEF l
  <2>3. /\ l2 \in Activation /\ l2.at = l.at /\ l2.call.native = l.call.native
        /\ l2.call.entry = "none" /\ l2.call.gen = Null
    BY <1>2, EntryOver
  <2> HIDE DEF l2
  <2>4. Idle(l2)
    BY <1>2, <2>3 DEF Idle
  <2>5. Good(frames, nextRegSlot, Quiet, [loops EXCEPT ![m] = l2], NoReply, generators, 0)
    BY <1>2, <1>3, <2>3, <2>4, StaysIsGood
  <2> QED
    BY <1>7, <2>1, <2>2, <2>5, InvNext
<1> QED
  BY <1>1, <1>5, <1>6, <1>7

LEMMA GeneratorReturnKeeps ==
  ASSUME Plain, FramesInv, NEW g \in Generators, NEW c \in BOOLEAN, GeneratorReturn(g, c)
  PROVE  FramesInv'
<1>1. /\ Unhindered
      /\ \/ /\ NativeFails(At(c), exception, ErrText)
            /\ nextRegSlot' = nextRegSlot /\ generators' = generators
         \/ /\ generators[g].state # "executing"
            /\ generators' = SetState(g, "completed")
            /\ NativeSucceeds(At(c), exception)
            /\ nextRegSlot' = nextRegSlot
  BY DEF GeneratorReturn
<1>2. loops # <<>> /\ reply = NoReply /\ exception = Quiet /\ due = 0
  BY <1>1, UnhinderedIs
<1>3. Throws(At(c), generators, ErrText)
  BY <1>2, AtThrows DEF Thrown
<1>4. CASE /\ NativeFails(At(c), exception, ErrText)
           /\ nextRegSlot' = nextRegSlot /\ generators' = generators
  <2>1. NativeFails(At(c), Quiet, ErrText)
    BY <1>2, <1>4
  <2> QED
    BY <1>3, <1>4, <2>1, FailsFirst, InvNext
<1>5. CASE /\ generators[g].state # "executing"
           /\ generators' = SetState(g, "completed")
           /\ NativeSucceeds(At(c), exception)
           /\ nextRegSlot' = nextRegSlot
  <2>1. NativeSucceeds(At(c), Quiet)
    BY <1>2, <1>5
  <2>2. Throws(At(c), generators', ErrText)
    BY <1>3, <1>5, CompletedBodies
  <2>3. Good(frames', nextRegSlot, exception', loops', reply', generators', due')
    BY <2>1, <2>2, SucceedsIsGood
  <2> QED
    BY <1>5, <2>3, InvNext
<1> QED
  BY <1>1, <1>4, <1>5

(* What is thrown in the body at its yield: caught there, or stopped at    *)
(* the sentinel below.                                                     *)
LEMMA ThrownInBody ==
  ASSUME NEW fs, NEW v, Throws(fs, generators, v),
         NEW f \in Frame, ~f.direct, f.kind = "code", NEW t, Topped(fs, t, f)
  PROVE  LET r == FirstUnwind(t, v)
         IN  /\ f.covered => /\ Topped(fs, r.frames, [f EXCEPT !.covered = FALSE])
                             /\ r.exception = Quiet
             /\ ~f.covered => /\ r.exception.unwinding
                              /\ PopSentinel(Pop(r.frames)) = fs
<1> DEFINE r == FirstUnwind(t, v)
           n == Len(fs)
           h == Handler(t)
           b == Boundary(t)
           B == {i \in DOMAIN t : t[i].direct \/ t[i].kind = "sentinel"}
<1>1. fs \in Seq(Frame) /\ loops \in Seq(Activation) /\ Runs(fs, loops) /\ v \in Thrown
  BY DEF Throws
<1>2. /\ t \in Seq(Frame) /\ Len(t) = n + 2 /\ n \in Nat
      /\ \A i \in 1..n : t[i] = fs[i]
      /\ t[n + 1] = Sentinel /\ t[n + 2] = f
  BY <1>1 DEF Topped
<1>3. Catches(t, h)
  BY <1>2, HandlerCatches
<1>4. DOMAIN t = 1..n + 2
  BY <1>2
<1>5. B \in SUBSET (1..n + 2) /\ n + 2 \in Nat /\ b = Innermost(B)
  BY <1>2, <1>4 DEF Boundary
<1>6. /\ b \in 0..n + 2
      /\ b > 0 => b \in B
      /\ \A j \in B : j <= b
  BY <1>5, InnermostIs
<1>7. n + 1 \in B /\ n + 2 \notin B
  <2>1. n + 1 \in 1..n + 2 /\ n + 2 \in 1..n + 2 /\ Sentinel.kind = "sentinel"
    BY <1>2, SentinelFields
  <2> QED
    BY <1>2, <1>4, <2>1
<1> HIDE DEF B, b
<1>8. b = n + 1
  BY <1>2, <1>6, <1>7
<1>9. /\ b > h => r = Stopped(t, b, v)
      /\ ~(b > h) /\ h > 0 => r = CaughtAt(t, h)
  BY FirstUnwindsTo DEF b
<1> HIDE DEF r, h
<1>10. CASE f.covered
  <2>1. h = n + 2
    <3>1. n + 2 \in DOMAIN t /\ t[n + 2].covered
      BY <1>2, <1>4, <1>10
    <3>2. h \in 0..Len(t) /\ n + 2 <= h
      BY <1>3, <3>1 DEF Catches
    <3> QED
      BY <1>2, <3>2
  <2>2. r = CaughtAt(t, n + 2)
    BY <1>2, <1>8, <1>9, <2>1
  <2>3. r.frames = Caught(t, n + 2) /\ r.exception = Quiet
    BY <2>2, CaughtFields
  <2>4. n + 2 \in 1..Len(t)
    BY <1>2
  <2>5. /\ Caught(t, n + 2) \in Seq(Frame)
        /\ Len(Caught(t, n + 2)) = n + 2
        /\ \A i \in 1..n + 2 : i # n + 2 => Caught(t, n + 2)[i] = t[i]
        /\ Caught(t, n + 2)[n + 2] = [t[n + 2] EXCEPT !.covered = FALSE]
    BY <1>2, <2>4, CaughtIs
  <2>6. (\A i \in 1..n : i \in 1..n + 2 /\ i # n + 2) /\ n + 1 \in 1..n + 2 /\ n + 1 # n + 2
    BY <1>2
  <2>7. Topped(fs, Caught(t, n + 2), [f EXCEPT !.covered = FALSE])
    BY <1>2, <2>5, <2>6 DEF Topped
  <2> QED
    BY <1>10, <2>3, <2>7 DEF r
<1>11. CASE ~f.covered
  <2> DEFINE s == SubSeq(t, 1, n + 1)
             p == SubSeq(s, 1, n)
  <2>1. h \in 0..n + 2 /\ (h > 0 => t[h].covered)
    BY <1>2, <1>3 DEF Catches
  <2>2. h < n + 1
    <3>1. h # n + 2
      BY <1>2, <1>11, <2>1
    <3>2. h # n + 1
      BY <1>2, <2>1, SentinelFields
    <3> QED
      BY <1>2, <2>1, <3>1, <3>2
  <2>3. r = Stopped(t, n + 1, v)
    BY <1>2, <1>8, <1>9, <2>1, <2>2
  <2>4. r.frames = s /\ r.exception.unwinding
    BY <1>1, <2>3, OutcomeFields
  <2>5. s \in Seq(Frame) /\ Len(s) = n + 1 /\ \A i \in 1..n + 1 : s[i] = t[i]
    BY <1>2
  <2> HIDE DEF s
  <2>6. Pop(s) = p
    BY <1>2, <2>5 DEF Pop
  <2>7. p \in Seq(Frame) /\ Len(p) = n /\ \A i \in 1..n : p[i] = s[i]
    BY <1>2, <2>5
  <2> HIDE DEF p
  <2>8. p = fs
    <3>1. \A i \in 1..n : p[i] = fs[i]
      BY <1>2, <2>5, <2>7
    <3> QED
      BY <1>1, <2>7, <3>1
  <2>9. PopSentinel(fs) = fs
    <3>1. fs[Len(fs)].kind = "code"
      BY <1>1, BodyFrame
    <3> QED
      BY <3>1 DEF PopSentinel, IsSentinel
  <2> QED
    BY <1>11, <2>4, <2>6, <2>8, <2>9 DEF r
<1> QED
  BY <1>10, <1>11

LEMMA GeneratorThrowIs ==
  ASSUME Plain, FramesInv, NEW g \in Generators, NEW v \in Values, NEW c \in BOOLEAN,
         GeneratorThrow(g, v, c)
  PROVE  \/ /\ generators[g].state = "yield" /\ generators[g].covered
            /\ BodyPushed(At(c), "generator", "throw", g)
         \/ /\ generators[g].state = "yield" => ~generators[g].covered
            /\ generators[g].state # "executing"
            /\ generators' = SetState(g, "completed")
            /\ NativeFails(At(c), Quiet, v)
            /\ nextRegSlot' = nextRegSlot
         \/ /\ NativeFails(At(c), Quiet, ErrText)
            /\ nextRegSlot' = nextRegSlot /\ generators' = generators
<1> DEFINE fs == At(c)
           f0 == Generator(g)
           d  == generators[g].covered
           f  == [f0 EXCEPT !.covered = d]
           f2 == [f EXCEPT !.covered = FALSE]
           n  == Len(fs) + 2
           t0 == Resumed(fs, g)
           t  == [t0 EXCEPT ![n] = f]
           r  == FirstUnwind(t, v)
<1>1. Unhindered
  BY DEF GeneratorThrow
<1>2. loops # <<>> /\ reply = NoReply /\ exception = Quiet /\ due = 0
  BY <1>1, UnhinderedIs
<1>3. Throws(fs, generators, v) /\ Throws(fs, generators, ErrText) /\ Len(fs) = Len(frames)
  BY <1>2, AtThrows DEF Thrown
<1>4. fs \in Seq(Frame) /\ nextRegSlot \in Nat /\ generators \in [Generators -> Suspensions]
  BY <1>3 DEF Throws
<1>5. d \in BOOLEAN
  BY <1>4 DEF Suspensions
<1>6. /\ f0 \in Frame /\ FrameOK(f0) /\ f0.kind = "code" /\ f0.gen = g /\ ~f0.direct
      /\ f0.base = nextRegSlot /\ f0.alloc = GeneratorSize
  BY <1>4, GeneratorFields
<1>7. Topped(fs, t0, f0) /\ n \in DOMAIN t0
  BY <1>4, ResumedIs
<1>8. t0[n] = f0
  BY <1>7 DEF Topped
<1> HIDE DEF f0, d
<1>9. /\ f \in Frame /\ FrameOK(f) /\ f.kind = "code" /\ f.gen = g /\ ~f.direct
      /\ f.base = nextRegSlot /\ f.alloc = GeneratorSize /\ f.covered = d
  BY <1>5, <1>6, BlankCovers DEF FrameOK
<1>10. Topped(fs, t, f)
  BY <1>4, <1>9, ResumedIs
<1> HIDE DEF t0
<1>11. [t0 EXCEPT ![n].covered = d] = t
  BY <1>7, <1>8
<1> HIDE DEF t, f
<1>12. /\ f2 \in Frame /\ FrameOK(f2) /\ f2.kind = "code" /\ f2.gen = g /\ ~f2.direct
       /\ f2.base = nextRegSlot /\ f2.alloc = GeneratorSize
  BY <1>9, BlankCovers DEF FrameOK
<1> HIDE DEF f2
<1>13. /\ f.covered => Topped(fs, r.frames, f2) /\ r.exception = Quiet
       /\ ~f.covered => r.exception.unwinding /\ PopSentinel(Pop(r.frames)) = fs
  BY <1>3, <1>9, <1>10, ThrownInBody DEF f2
<1>14. /\ throwException(t, exception, v) = r
       /\ Due(t, exception, r) = IF ~r.exception.unwinding THEN 0 ELSE Handler(t)
  BY <1>2, ThrowFirst
<1>15. [t0 EXCEPT ![Len(frames) + 2].covered = d] = t
  BY <1>3, <1>11
<1> HIDE DEF r, fs
<1>16. \/ /\ generators[g].state = "yield"
          /\ ~r.exception.unwinding
          /\ Resume(r.frames, "generator", "throw", g)
          /\ exception' = r.exception
          /\ due' = Due(t, exception, r)
       \/ /\ generators[g].state = "yield"
          /\ r.exception.unwinding
          /\ generators' = SetState(g, "completed")
          /\ NativeFails(PopSentinel(Pop(r.frames)), Quiet, v)
          /\ nextRegSlot' = nextRegSlot
       \/ /\ generators[g].state \in {"start", "completed"}
          /\ generators' = SetState(g, "completed")
          /\ NativeFails(fs, exception, v)
          /\ nextRegSlot' = nextRegSlot
       \/ /\ NativeFails(fs, exception, ErrText)
          /\ nextRegSlot' = nextRegSlot /\ generators' = generators
  <2> DEFINE T == [Resumed(At(c), g) EXCEPT ![Len(frames) + 2].covered = generators[g].covered]
             R == throwException(T, exception, v)
  <2>1. T = t
    BY <1>15 DEF t0, fs, d
  <2>2. R = r
    BY <1>14, <2>1
  <2> HIDE DEF T, R
  <2>3. \/ /\ generators[g].state = "yield"
           /\ ~R.exception.unwinding
           /\ Resume(R.frames, "generator", "throw", g)
           /\ exception' = R.exception
           /\ due' = Due(T, exception, R)
        \/ /\ generators[g].state = "yield"
           /\ R.exception.unwinding
           /\ generators' = SetState(g, "completed")
           /\ NativeFails(PopSentinel(Pop(R.frames)), Quiet, v)
           /\ nextRegSlot' = nextRegSlot
        \/ /\ generators[g].state \in {"start", "completed"}
           /\ generators' = SetState(g, "completed")
           /\ NativeFails(At(c), exception, v)
           /\ nextRegSlot' = nextRegSlot
        \/ /\ NativeFails(At(c), exception, ErrText)
           /\ nextRegSlot' = nextRegSlot /\ generators' = generators
    BY DEF GeneratorThrow, T, R
  <2> QED
    BY <2>1, <2>2, <2>3 DEF fs
<1>17. CASE /\ generators[g].state = "yield"
            /\ ~r.exception.unwinding
            /\ Resume(r.frames, "generator", "throw", g)
            /\ exception' = r.exception
            /\ due' = Due(t, exception, r)
  <2>1. f.covered
    BY <1>13, <1>17
  <2>2. Topped(fs, r.frames, f2) /\ exception' = Quiet /\ due' = 0
    BY <1>13, <1>14, <1>17, <2>1
  <2>3. r.frames \in Seq(Frame)
    BY <2>2 DEF Topped
  <2>4. BodyPushed(fs, "generator", "throw", g)
    BY <1>12, <1>17, <2>2, <2>3 DEF BodyPushed
  <2> QED
    BY <1>9, <1>17, <2>1, <2>4 DEF d, fs
<1>18. CASE /\ generators[g].state = "yield"
            /\ r.exception.unwinding
            /\ generators' = SetState(g, "completed")
            /\ NativeFails(PopSentinel(Pop(r.frames)), Quiet, v)
            /\ nextRegSlot' = nextRegSlot
  <2>1. ~f.covered
    BY <1>13, <1>18, QuietFields
  <2>2. NativeFails(fs, Quiet, v)
    BY <1>13, <1>18, <2>1
  <2> QED
    BY <1>9, <1>18, <2>1, <2>2 DEF d, fs
<1>19. CASE /\ generators[g].state \in {"start", "completed"}
            /\ generators' = SetState(g, "completed")
            /\ NativeFails(fs, exception, v)
            /\ nextRegSlot' = nextRegSlot
  BY <1>2, <1>19 DEF fs
<1>20. CASE /\ NativeFails(fs, exception, ErrText)
            /\ nextRegSlot' = nextRegSlot /\ generators' = generators
  BY <1>2, <1>20 DEF fs
<1> QED
  BY <1>16, <1>17, <1>18, <1>19, <1>20

LEMMA GeneratorThrowKeeps ==
  ASSUME Plain, FramesInv, NEW g \in Generators, NEW v \in Values, NEW c \in BOOLEAN,
         GeneratorThrow(g, v, c)
  PROVE  FramesInv'
<1>1. Unhindered
  BY DEF GeneratorThrow
<1>2. loops # <<>> /\ reply = NoReply
  BY <1>1, UnhinderedIs
<1>3. Throws(At(c), generators, v) /\ Throws(At(c), generators, ErrText)
      /\ Len(At(c)) = Len(frames)
  BY <1>2, AtThrows DEF Thrown
<1>4. CASE /\ generators[g].state = "yield"
           /\ BodyPushed(At(c), "generator", "throw", g)
  BY <1>2, <1>3, <1>4, ResumeKeeps
<1>5. CASE /\ generators[g].state # "executing"
           /\ generators' = SetState(g, "completed")
           /\ NativeFails(At(c), Quiet, v)
           /\ nextRegSlot' = nextRegSlot
  <2>1. Throws(At(c), generators', v)
    BY <1>3, <1>5, CompletedBodies
  <2>2. Good(frames', nextRegSlot, exception', loops', reply', generators', due')
    BY <1>5, <2>1, FailsFirst
  <2> QED
    BY <1>5, <2>2, InvNext
<1>6. CASE /\ NativeFails(At(c), Quiet, ErrText)
           /\ nextRegSlot' = nextRegSlot /\ generators' = generators
  BY <1>3, <1>6, FailsFirst, InvNext
<1> QED
  BY <1>4, <1>5, <1>6, GeneratorThrowIs

-----------------------------------------------------------------------------
(* The theorems.                                                           *)

LEMMA FramesInitGood ==
  ASSUME FramesInit
  PROVE  FramesInv
<1> DEFINE fs == <<Code(0, 1)>>
           ls == <<Loop(1)>>
           gs == [g \in Generators |-> [state |-> "start", covered |-> FALSE]]
<1>1. /\ Code(0, 1) \in Frame /\ FrameOK(Code(0, 1)) /\ Code(0, 1).kind = "code"
      /\ ~Code(0, 1).direct /\ Code(0, 1).gen = Null /\ Code(0, 1).base = 0
      /\ Code(0, 1).alloc = 1
  BY CodeFields
<1>2. Loop(1) \in Activation /\ Loop(1).at = 1 /\ Idle(Loop(1))
  BY LoopFields
<1>3. fs \in Seq(Frame) /\ Len(fs) = 1 /\ DOMAIN fs = 1..1 /\ fs[1] = Code(0, 1)
  BY <1>1
<1>4. ls \in Seq(Activation) /\ Len(ls) = 1 /\ ls[1] = Loop(1)
  BY <1>2
<1>5. gs \in [Generators -> Suspensions] /\ \A g \in Generators : gs[g].state = "start" /\ ~gs[g].covered
  BY DEF Suspensions
<1>6. /\ frames = fs /\ nextRegSlot = 1 /\ exception = Quiet /\ loops = ls
      /\ reply = NoReply /\ generators = gs /\ due = 0
  BY DEF FramesInit
<1> HIDE DEF fs, ls, gs
<1>7. Windows(fs, 1)
  BY <1>1, <1>3 DEF Windows
<1>8. Resting(gs)
  BY <1>5 DEF Resting
<1>9. Owned(ls, gs, NoReply)
  <2>1. Len(ls) - 1 = 0 /\ 1..0 = {}
    BY <1>4
  <2>2. Distinct(ls, 0) /\ Executing(ls, gs, 0) /\ NoOthers(ls, gs, 0)
    BY <1>5, <2>1 DEF Distinct, Executing, NoOthers
  <2> QED
    BY <2>1, <2>2 DEF Owned
<1>10. Runs(fs, ls)
  <2>1. \A i \in DOMAIN fs : Fits(fs[i], i, ls, 0)
    BY <1>1, <1>3 DEF Fits
  <2>2. Lower(fs, ls, 0)
    BY <1>4, <2>1 DEF Lower
  <2> QED
    BY <1>2, <1>3, <1>4, <2>2 DEF Runs, Base
<1>11. Good(fs, 1, Quiet, ls, NoReply, gs, 0)
  BY <1>3, <1>4, <1>5, <1>7, <1>8, <1>9, <1>10, GoodRunning, QuietFields
<1> QED
  BY <1>6, <1>11 DEF FramesInv

LEMMA FramesStep ==
  ASSUME Plain, FramesInv, [FramesNext]_frameVars
  PROVE  FramesInv'
<1>1. CASE EndOfInstruction
  BY <1>1, EndOfInstructionKeeps
<1>2. CASE ScriptReturns
  BY <1>2, ScriptReturnsKeeps
<1>3. CASE NativeReturns
  BY <1>3, NativeReturnsKeeps
<1>4. CASE UserFunctionReturns
  BY <1>4, UserFunctionReturnsKeeps
<1>5. CASE GeneratorReturns
  BY <1>5, GeneratorReturnsKeeps
<1>6. ASSUME NEW size \in Sizes, TailCall(size) \/ CallBack(size)
      PROVE  FramesInv'
  BY <1>6, TailCallKeeps, CallBackKeeps
<1>7. ASSUME NEW v \in Values, NativeThrows(v) PROVE FramesInv'
  BY <1>7, NativeThrowsKeeps
<1>8. ASSUME NEW g \in Generators, NativeNext(g) PROVE FramesInv'
  BY <1>8, NativeNextKeeps
<1>9. ASSUME NEW c \in BOOLEAN, NEW size \in Sizes, Call(size, c) PROVE FramesInv'
  BY <1>9, CallKeeps
<1>10. ASSUME NEW c \in BOOLEAN, NEW v \in Values, Throw(v, c) PROVE FramesInv'
  BY <1>10, ThrowKeeps
<1>11. ASSUME NEW c \in BOOLEAN, NEW native \in Natives, CallNative(native, c) PROVE FramesInv'
  BY <1>11, CallNativeKeeps
<1>12. ASSUME NEW c \in BOOLEAN, Yield(c) PROVE FramesInv'
  BY <1>12, YieldKeeps
<1>13. ASSUME NEW c \in BOOLEAN, NEW g \in Generators,
              \/ GeneratorNext(g, c)
              \/ GeneratorReturn(g, c)
              \/ \E v \in Values : GeneratorThrow(g, v, c)
       PROVE  FramesInv'
  BY <1>13, GeneratorNextKeeps, GeneratorReturnKeeps, GeneratorThrowKeeps
<1>14. CASE UNCHANGED frameVars
  BY <1>14 DEF frameVars, FramesInv
<1>15. ASSUME NEW undefined \in BOOLEAN, Return(undefined) PROVE FramesInv'
  BY <1>15, ReturnKeeps
<1> QED
  BY <1>1, <1>2, <1>3, <1>4, <1>5, <1>6, <1>7, <1>8, <1>9, <1>10, <1>11, <1>12, <1>13, <1>14, <1>15
  DEF FramesNext

(* The inductive invariant holds in every run of a program in which native *)
(* functions pass on the exceptions of their callbacks.                    *)
THEOREM FramesSafe == ASSUME Plain PROVE FramesSpec => []FramesInv
<1>1. FramesInit => FramesInv
  BY FramesInitGood
<1>2. FramesInv /\ [FramesNext]_frameVars => FramesInv'
  BY FramesStep
<1> QED
  BY <1>1, <1>2, PTL DEF FramesSpec

LEMMA LoopsNested ==
  ASSUME NEW fs \in Seq(Frame), NEW ls \in Seq(Activation), NEW w \in Nat, Lower(fs, ls, w),
         NEW i \in 1..w
  PROVE  /\ ls[i].call # NoCall
         /\ i < w => ls[i].at + 2 <= ls[i + 1].at
         /\ ls[i].at + 1 \in DOMAIN fs => IsSentinel(fs, ls[i].at + 1)
<1>1. ls[i].call # NoCall
  BY DEF Lower, Waits, NoCall
<1>2. i < w => ls[i].at + 2 <= ls[i + 1].at
  BY DEF Lower
<1>3. ls[i].at + 1 \in DOMAIN fs => IsSentinel(fs, ls[i].at + 1)
  BY DEF Lower, Fits, IsSentinel
<1> QED
  BY <1>1, <1>2, <1>3

LEMMA FramesFound ==
  ASSUME FramesInv
  PROVE  LoopsOwnFrames
<1> DEFINE n == Len(loops)
           w == n - 1
<1>1. /\ frames \in Seq(Frame) /\ loops \in Seq(Activation) /\ n \in Nat
      /\ Shape(frames, exception, loops, reply, generators)
  BY DEF FramesInv, Good
<1>2. CASE loops = <<>>
  <2>1. 1..Len(loops) - 1 = {}
    BY <1>2
  <2> QED
    BY <1>2, <2>1 DEF LoopsOwnFrames
<1>3. CASE reply = NoReply /\ Runs(frames, loops)
  <2>1. w \in Nat /\ n = w + 1 /\ Lower(frames, loops, w) /\ Base(loops, w) <= Len(frames)
        /\ Len(frames) = loops[n].at
    BY <1>1, <1>3, LoopsBelow DEF Runs
  <2>2. Ordered(loops, w)
    BY <1>1, <2>1, InOrder
  <2>3. Top(loops).at = Len(frames) /\ Top(frames).kind = "code"
    BY <1>1, <1>3, <2>1, BodyFrame DEF Top
  <2> HIDE DEF n, w
  <2>4. ASSUME NEW i \in 1..w
        PROVE  /\ loops[i].call # NoCall
               /\ loops[i].at < loops[i + 1].at
               /\ IsSentinel(frames, loops[i].at + 1)
    <3>1. /\ loops[i].call # NoCall
          /\ i < w => loops[i].at + 2 <= loops[i + 1].at
          /\ loops[i].at + 1 \in DOMAIN frames => IsSentinel(frames, loops[i].at + 1)
      BY <1>1, <2>1, LoopsNested
    <3>2. loops[i].at \in Nat /\ loops[i].at <= loops[w].at /\ w > 0
          /\ Base(loops, w) = loops[w].at + 2 /\ loops[w].at \in Nat
          /\ (i < w => loops[i + 1].at \in Nat)
      <4>1. i < w => i + 1 \in 1..w
        BY <2>1
      <4> QED
        BY <2>2, <4>1 DEF Ordered
    <3>3. i < w \/ (i = w /\ i + 1 = n)
      BY <2>1
    <3>4. loops[i].at < loops[i + 1].at
      <4>1. CASE i < w
        BY <3>1, <3>2, <4>1
      <4>2. CASE i = w /\ i + 1 = n
        <5>1. loops[i].at + 2 <= Len(frames) /\ Len(frames) = loops[i + 1].at
          BY <2>1, <3>2, <4>2
        <5> QED
          BY <1>1, <3>2, <5>1
      <4> QED
        BY <3>3, <4>1, <4>2
    <3>5. loops[i].at + 1 \in DOMAIN frames
      BY <1>1, <2>1, <3>2, SMTT(20)
    <3> QED
      BY <3>1, <3>4, <3>5
  <2>5. Len(loops) - 1 = w
    BY <2>1 DEF n
  <2> QED
    BY <1>3, <2>3, <2>4, <2>5 DEF LoopsOwnFrames
<1>4. CASE reply # NoReply /\ Ended(frames, loops)
  <2>1. n > 0 /\ Lower(frames, loops, n)
    BY <1>4 DEF Ended
  <2>2. Ordered(loops, n)
    BY <1>1, <2>1, InOrder
  <2>3. Len(loops) - 1 = w
    OBVIOUS
  <2> HIDE DEF w
  <2>4. w = n - 1
    BY DEF w
  <2> HIDE DEF n
  <2>5. ASSUME NEW i \in 1..w
        PROVE  loops[i].call # NoCall /\ loops[i].at < loops[i + 1].at
    <3>1. i \in 1..n /\ i < n /\ i + 1 \in 1..n
      BY <1>1, <2>1, <2>4
    <3>2. loops[i].call # NoCall /\ loops[i].at + 2 <= loops[i + 1].at
      BY <1>1, <2>1, <3>1, LoopsNested
    <3>3. loops[i].at \in Nat /\ loops[i + 1].at \in Nat
      BY <2>2, <3>1 DEF Ordered
    <3> QED
      BY <3>2, <3>3
  <2> QED
    BY <1>4, <2>3, <2>5 DEF LoopsOwnFrames
<1> QED
  BY <1>1, <1>2, <1>3, <1>4 DEF Shape

(* Each loop finds its frame again when control comes back to it: below    *)
(* every nested loop lies its sentinel, and the innermost loop executes    *)
(* the top frame.                                                          *)
THEOREM FramesAreFound == ASSUME Plain PROVE FramesSpec => []LoopsOwnFrames
<1>1. FramesInv => LoopsOwnFrames
  BY FramesFound
<1> QED
  BY <1>1, FramesSafe, PTL

(* No two active functions share a register, whatever was called, tail     *)
(* called, returned from, thrown out of or resumed.                        *)
THEOREM WindowsAreDisjoint == ASSUME Plain PROVE FramesSpec => []WindowsDisjoint
<1>1. FramesInv => WindowsDisjoint
  BY DEF FramesInv, Good, Windows, WindowsDisjoint
<1> QED
  BY <1>1, FramesSafe, PTL

-----------------------------------------------------------------------------
(* The calls among the first frames: each code frame has a rank.           *)

Gaps(fs, n) == Cardinality({j \in 1..n : fs[j].kind = "sentinel"})

Rank(fs, n) == n - Gaps(fs, n)

LEMMA GapsBetween ==
  ASSUME NEW fs, NEW i \in Nat, NEW j \in Nat, i <= j
  PROVE  /\ Gaps(fs, i) \in Nat /\ Gaps(fs, j) \in Nat
         /\ Gaps(fs, i) <= Gaps(fs, j)
         /\ \A S \in SUBSET (i + 1..j) :
               (\A k \in i + 1..j : fs[k].kind = "sentinel" => k \in S) =>
               Gaps(fs, j) <= Gaps(fs, i) + Cardinality(S)
<1> DEFINE G(n) == {k \in 1..n : fs[k].kind = "sentinel"}
<1>1. IsFiniteSet(G(i)) /\ IsFiniteSet(G(j))
  <2>1. IsFiniteSet(1..i) /\ IsFiniteSet(1..j)
    BY FS_Interval
  <2>2. G(i) \in SUBSET (1..i) /\ G(j) \in SUBSET (1..j)
    OBVIOUS
  <2> QED
    BY <2>1, <2>2, FS_Subset
<1>2. Cardinality(G(i)) \in Nat /\ Cardinality(G(j)) \in Nat
  BY <1>1, FS_CardinalityType
<1>3. Cardinality(G(i)) <= Cardinality(G(j))
  <2>1. G(i) \in SUBSET G(j)
    OBVIOUS
  <2> QED
    BY <1>1, <2>1, FS_Subset
<1>4. ASSUME NEW S \in SUBSET (i + 1..j),
             \A k \in i + 1..j : fs[k].kind = "sentinel" => k \in S
      PROVE  Cardinality(G(j)) <= Cardinality(G(i)) + Cardinality(S)
  <2>1. IsFiniteSet(S)
    <3>1. IsFiniteSet(i + 1..j)
      BY FS_Interval
    <3> QED
      BY <3>1, FS_Subset
  <2>2. G(j) \in SUBSET (G(i) \cup S)
    <3>1. ASSUME NEW k \in G(j) PROVE k \in G(i) \cup S
      <4>1. k \in 1..i \/ k \in i + 1..j
        OBVIOUS
      <4> QED
        BY <1>4, <4>1
    <3> QED
      BY <3>1
  <2>3. /\ IsFiniteSet(G(i) \cup S)
        /\ Cardinality(G(i) \cup S) =
             Cardinality(G(i)) + Cardinality(S) - Cardinality(G(i) \cap S)
    BY <1>1, <2>1, FS_Union
  <2>4. Cardinality(G(j)) <= Cardinality(G(i) \cup S)
    BY <2>2, <2>3, FS_Subset
  <2>5. G(i) \cap S = {}
    OBVIOUS
  <2>6. Cardinality(G(i) \cap S) = 0 /\ Cardinality(S) \in Nat
    BY <2>1, <2>5, FS_EmptySet, FS_CardinalityType
  <2> HIDE DEF G
  <2> QED
    BY <1>2, <2>3, <2>4, <2>6
<1> QED
  BY <1>2, <1>3, <1>4 DEF Gaps

LEMMA RankZero == \A fs : Rank(fs, 0) = 0
<1>1. \A fs : {j \in 1..0 : fs[j].kind = "sentinel"} = {}
  OBVIOUS
<1> QED
  BY <1>1, FS_EmptySet DEF Rank, Gaps

(* Ranks grow with the frames, by one at each code frame.                  *)
LEMMA RanksGrow ==
  ASSUME NEW fs, NEW i \in Nat, NEW j \in Nat, i <= j
  PROVE  /\ Rank(fs, i) \in Nat /\ Rank(fs, j) \in Nat
         /\ Rank(fs, i) <= i
         /\ Rank(fs, i) <= Rank(fs, j)
         /\ i < j /\ fs[j].kind # "sentinel" => Rank(fs, i) < Rank(fs, j)
<1>1. ASSUME NEW a \in Nat, NEW b \in Nat, a <= b
      PROVE  /\ Rank(fs, a) <= a /\ Rank(fs, a) <= Rank(fs, b) /\ Rank(fs, a) \in Int
             /\ a < b /\ fs[b].kind # "sentinel" => Rank(fs, a) < Rank(fs, b)
  <2>1. /\ Gaps(fs, a) \in Nat /\ Gaps(fs, b) \in Nat /\ Gaps(fs, a) <= Gaps(fs, b)
        /\ \A S \in SUBSET (a + 1..b) :
              (\A k \in a + 1..b : fs[k].kind = "sentinel" => k \in S) =>
              Gaps(fs, b) <= Gaps(fs, a) + Cardinality(S)
    BY <1>1, GapsBetween
  <2>2. Gaps(fs, b) <= Gaps(fs, a) + (b - a)
    <3>1. Gaps(fs, b) <= Gaps(fs, a) + Cardinality(a + 1..b)
      BY <2>1
    <3>2. Cardinality(a + 1..b) = IF a + 1 > b THEN 0 ELSE b - (a + 1) + 1
      BY FS_Interval
    <3>3. Cardinality(a + 1..b) = b - a
      BY <1>1, <3>2
    <3> QED
      BY <3>1, <3>3
  <2>3. ASSUME a < b, fs[b].kind # "sentinel"
        PROVE  Gaps(fs, b) <= Gaps(fs, a) + (b - 1 - a)
    <3>1. \A k \in a + 1..b : fs[k].kind = "sentinel" => k \in a + 1..b - 1
      BY <2>3
    <3>2. a + 1..b - 1 \in SUBSET (a + 1..b)
      OBVIOUS
    <3>3. Gaps(fs, b) <= Gaps(fs, a) + Cardinality(a + 1..b - 1)
      BY <2>1, <3>1, <3>2
    <3>4. Cardinality(a + 1..b - 1) = b - 1 - a
      BY <2>3, FS_Interval
    <3> QED
      BY <3>3, <3>4
  <2> QED
    BY <2>1, <2>2, <2>3 DEF Rank
<1>2. Rank(fs, i) \in Nat /\ Rank(fs, j) \in Nat
  <2>1. 0 <= Rank(fs, i) /\ 0 <= Rank(fs, j) /\ Rank(fs, i) \in Int /\ Rank(fs, j) \in Int
    BY <1>1, RankZero
  <2> QED
    BY <2>1
<1> QED
  BY <1>1, <1>2

LEMMA RankStep ==
  ASSUME NEW fs, NEW n \in Nat
  PROVE  /\ fs[n + 1].kind = "sentinel" => Rank(fs, n + 1) = Rank(fs, n)
         /\ fs[n + 1].kind # "sentinel" => Rank(fs, n + 1) = Rank(fs, n) + 1
<1> DEFINE A == {j \in 1..n : fs[j].kind = "sentinel"}
           B == {j \in 1..n + 1 : fs[j].kind = "sentinel"}
<1>1. Gaps(fs, n) = Cardinality(A) /\ Gaps(fs, n + 1) = Cardinality(B)
  BY DEF Gaps
<1>2. IsFiniteSet(A)
  <2>1. IsFiniteSet(1..n) /\ A \in SUBSET (1..n)
    BY FS_Interval
  <2> QED
    BY <2>1, FS_Subset
<1>3. Gaps(fs, n) \in Nat
  BY <1>1, <1>2, FS_CardinalityType
<1>4. fs[n + 1].kind = "sentinel" => Gaps(fs, n + 1) = Gaps(fs, n) + 1
  <2>1. fs[n + 1].kind = "sentinel" => B = A \cup {n + 1} /\ n + 1 \notin A
    OBVIOUS
  <2> HIDE DEF A, B
  <2> QED
    BY <1>1, <1>2, <2>1, FS_AddElement
<1>5. fs[n + 1].kind # "sentinel" => Gaps(fs, n + 1) = Gaps(fs, n)
  <2>1. fs[n + 1].kind # "sentinel" => B = A
    OBVIOUS
  <2> HIDE DEF A, B
  <2> QED
    BY <1>1, <2>1
<1> QED
  BY <1>3, <1>4, <1>5 DEF Rank

(* Every rank is that of one code frame.                                   *)
LEMMA RankHit ==
  ASSUME NEW fs, NEW n \in Nat, NEW k \in 1..Rank(fs, n)
  PROVE  \E i \in 1..n : fs[i].kind # "sentinel" /\ Rank(fs, i) = k /\ k <= i
<1> DEFINE S == {i \in 0..n : k <= Rank(fs, i)}
<1>1. Rank(fs, n) \in Nat /\ k \in Nat /\ k > 0 /\ k <= Rank(fs, n)
  BY RanksGrow
<1>2. S \in SUBSET Nat /\ S # {}
  <2>1. n \in S
    BY <1>1
  <2> QED
    BY <2>1
<1>3. PICK m \in S : \A x \in S : m <= x
  BY <1>2, NatHasMin
<1>4. m \in 0..n /\ k <= Rank(fs, m)
  OBVIOUS
<1>5. m # 0
  BY <1>1, <1>4, RankZero
<1>6. m - 1 \in Nat /\ m - 1 \in 0..n /\ m \in 1..n /\ m - 1 + 1 = m
  BY <1>4, <1>5
<1>7. ~(k <= Rank(fs, m - 1))
  BY <1>3, <1>6
<1> HIDE DEF S
<1>8. Rank(fs, m - 1) \in Nat /\ Rank(fs, m) \in Nat /\ Rank(fs, m) <= m
  BY <1>6, RanksGrow
<1>9. /\ fs[m].kind = "sentinel" => Rank(fs, m) = Rank(fs, m - 1)
      /\ fs[m].kind # "sentinel" => Rank(fs, m) = Rank(fs, m - 1) + 1
  <2>1. /\ fs[m - 1 + 1].kind = "sentinel" => Rank(fs, m - 1 + 1) = Rank(fs, m - 1)
        /\ fs[m - 1 + 1].kind # "sentinel" => Rank(fs, m - 1 + 1) = Rank(fs, m - 1) + 1
    BY <1>6, RankStep
  <2> QED
    BY <1>6, <2>1
<1>10. fs[m].kind # "sentinel" /\ Rank(fs, m) = k
  BY <1>1, <1>4, <1>7, <1>8, <1>9
<1> QED
  BY <1>6, <1>8, <1>10

LEMMA RankOnce ==
  ASSUME NEW fs, NEW i \in Nat, NEW j \in Nat, fs[i].kind # "sentinel",
         fs[j].kind # "sentinel", Rank(fs, i) = Rank(fs, j)
  PROVE  i = j
<1>1. i < j => Rank(fs, i) < Rank(fs, j)
  BY RanksGrow
<1>2. j < i => Rank(fs, j) < Rank(fs, i)
  BY RanksGrow
<1>3. Rank(fs, i) \in Nat
  BY RanksGrow
<1> QED
  BY <1>1, <1>2, <1>3

LEMMA RanksAlike ==
  ASSUME NEW fs, NEW fs2, NEW n \in Nat, \A i \in 1..n : fs2[i].kind = fs[i].kind
  PROVE  \A i \in 0..n : Rank(fs2, i) = Rank(fs, i)
<1>1. ASSUME NEW i \in 0..n
      PROVE  {j \in 1..i : fs2[j].kind = "sentinel"} = {j \in 1..i : fs[j].kind = "sentinel"}
  OBVIOUS
<1> QED
  BY <1>1 DEF Rank, Gaps

-----------------------------------------------------------------------------
(* The stack of calls that the frames stand for.                           *)

CallView == [gen : Bodied, covered : BOOLEAN]

ViewOf(f) == [gen |-> f.gen, covered |-> f.covered]

(* s is the stack of the calls among the first n frames.                   *)
Mirrors(s, fs, n) ==
  /\ s \in Seq(CallView)
  /\ Len(s) = Rank(fs, n)
  /\ \A i \in 1..n : fs[i].kind # "sentinel" => s[Rank(fs, i)] = ViewOf(fs[i])

(* fs2 begins like fs up to frame n, which may be at another instruction.  *)
Begins(fs, fs2, n) ==
  /\ fs2 \in Seq(Frame)
  /\ n \in 0..Len(fs2)
  /\ \A i \in 1..n : /\ fs2[i].kind = fs[i].kind
                     /\ fs2[i].gen = fs[i].gen
                     /\ i # n => fs2[i].covered = fs[i].covered

AtCode(fs, n) == n > 0 => fs[n].kind = "code"

LEMMA RanksBegin ==
  ASSUME NEW fs, NEW fs2, NEW n, Begins(fs, fs2, n)
  PROVE  n \in Nat /\ Len(fs2) \in Nat /\ \A i \in 0..n : Rank(fs2, i) = Rank(fs, i)
<1>1. n \in Nat /\ Len(fs2) \in Nat
  BY DEF Begins
<1>2. \A i \in 1..n : fs2[i].kind = fs[i].kind
  BY DEF Begins
<1> QED
  BY <1>1, <1>2, RanksAlike

LEMMA CodeRanks ==
  ASSUME NEW fs, NEW n \in Nat, NEW i \in 1..n
  PROVE  /\ Rank(fs, n) \in Nat /\ Rank(fs, i) \in Nat /\ Rank(fs, i) <= Rank(fs, n)
         /\ fs[i].kind # "sentinel" => Rank(fs, i) > 0 /\ Rank(fs, i) \in 1..Rank(fs, n)
<1>1. Rank(fs, n) \in Nat /\ Rank(fs, i) \in Nat /\ Rank(fs, i) <= Rank(fs, n)
  BY RanksGrow
<1>2. fs[i].kind # "sentinel" => Rank(fs, 0) < Rank(fs, i)
  BY RanksGrow
<1> QED
  BY <1>1, <1>2, RankZero

LEMMA MirrorsOne ==
  ASSUME NEW fs, NEW n \in Nat, NEW s, NEW t, Mirrors(s, fs, n), Mirrors(t, fs, n)
  PROVE  s = t
<1>1. /\ s \in Seq(CallView) /\ t \in Seq(CallView) /\ Len(s) = Rank(fs, n)
      /\ Len(t) = Rank(fs, n)
  BY DEF Mirrors
<1>2. ASSUME NEW k \in 1..Rank(fs, n) PROVE s[k] = t[k]
  <2>1. PICK i \in 1..n : fs[i].kind # "sentinel" /\ Rank(fs, i) = k
    BY RankHit
  <2> QED
    BY <2>1 DEF Mirrors
<1> QED
  BY <1>1, <1>2

LEMMA CallsMirror ==
  ASSUME NEW fs \in Seq(Frame), NEW n, NEW fs2, Begins(fs, fs2, n), n <= Len(fs),
         AtCode(fs, n), n > 0 => ~fs2[n].covered
  PROVE  Mirrors(CallsOf(fs, n), fs2, n)
<1> DEFINE G(i) == Cardinality({j \in 1..i : fs[j].kind = "sentinel"})
           F(k) == CHOOSE i \in k..n : fs[i].kind = "code" /\ i - G(i) = k
           V(i) == [gen |-> fs[i].gen, covered |-> fs[i].covered /\ i # n]
<1>1. /\ n \in Nat /\ Len(fs) \in Nat /\ Len(fs2) \in Nat
      /\ \A i \in 0..n : Rank(fs2, i) = Rank(fs, i)
  BY RanksBegin
<1>2. \A i : i - G(i) = Rank(fs, i)
  BY Zenon DEF Rank, Gaps
<1>3. Rank(fs, n) \in Nat
  BY <1>1, RanksGrow
<1>4. CallsOf(fs, n) = [k \in 1..n - G(n) |-> V(F(k))]
  BY DEF CallsOf
<1>5. ASSUME NEW i \in 1..n, fs[i].kind = "code"
      PROVE  Rank(fs, i) \in 1..Rank(fs, n) /\ F(Rank(fs, i)) = i
  <2>0. n \in Nat /\ i \in Nat /\ fs[i].kind # "sentinel"
    BY <1>1, <1>5
  <2>1. Rank(fs, i) \in 1..Rank(fs, n) /\ Rank(fs, i) <= i
    BY <2>0, CodeRanks, RanksGrow
  <2>2. i \in Rank(fs, i)..n /\ i - G(i) = Rank(fs, i)
    BY <1>1, <1>2, <2>1
  <2>3. \A j \in Rank(fs, i)..n : fs[j].kind = "code" /\ j - G(j) = Rank(fs, i) => j = i
    <3>1. ASSUME NEW j \in Rank(fs, i)..n, fs[j].kind = "code", j - G(j) = Rank(fs, i)
          PROVE  j = i
      <4>1. j \in Nat /\ Rank(fs, j) = Rank(fs, i)
        BY <1>2, <2>1, <3>1
      <4> QED
        BY <1>5, <3>1, <4>1, RankOnce
    <3> QED
      BY <3>1
  <2> HIDE DEF G
  <2> QED
    BY <1>5, <2>1, <2>2, <2>3
<1> HIDE DEF F, G
<1>6. n - G(n) = Rank(fs, n)
  BY <1>2
<1>7. ASSUME NEW k \in 1..Rank(fs, n) PROVE V(F(k)) \in CallView
  <2>1. PICK i \in 1..n : fs[i].kind # "sentinel" /\ Rank(fs, i) = k
    BY <1>1, RankHit
  <2>2. fs[i] \in Frame
    BY <1>1, <2>1
  <2>3. F(k) = i
    BY <1>5, <2>1, <2>2, FrameFields
  <2>4. V(i) \in CallView
    BY <2>2, FrameFields DEF CallView
  <2> QED
    BY <2>3, <2>4
<1> HIDE DEF V
<1>8. CallsOf(fs, n) = [k \in 1..Rank(fs, n) |-> V(F(k))]
  BY <1>4, <1>6
<1>9. CallsOf(fs, n) \in Seq(CallView) /\ Len(CallsOf(fs, n)) = Rank(fs, n)
  BY <1>3, <1>7, <1>8
<1>10. ASSUME NEW i \in 1..n, fs2[i].kind # "sentinel"
       PROVE  CallsOf(fs, n)[Rank(fs2, i)] = ViewOf(fs2[i])
  <2>1. fs[i] \in Frame /\ fs2[i] \in Frame /\ i \in 0..n
    BY <1>1 DEF Begins
  <2>2. /\ fs2[i].kind = fs[i].kind /\ fs2[i].gen = fs[i].gen
        /\ i # n => fs2[i].covered = fs[i].covered
    BY DEF Begins
  <2>3. fs[i].kind = "code"
    BY <1>10, <2>1, <2>2, FrameFields
  <2>4. Rank(fs2, i) = Rank(fs, i) /\ Rank(fs, i) \in 1..Rank(fs, n) /\ F(Rank(fs, i)) = i
    BY <1>1, <1>5, <2>1, <2>3
  <2>5. CallsOf(fs, n)[Rank(fs2, i)] = V(i)
    BY <1>8, <2>4
  <2>6. fs2[i].covered = (fs[i].covered /\ i # n)
    <3>1. fs[i].covered \in BOOLEAN /\ fs2[i].covered \in BOOLEAN
      BY <2>1, FrameFields
    <3>2. CASE i # n
      BY <2>2, <3>1, <3>2
    <3>3. CASE i = n
      BY <1>1, <3>1, <3>3
    <3> QED
      BY <3>2, <3>3
  <2> QED
    BY <2>2, <2>5, <2>6 DEF V, ViewOf
<1> QED
  BY <1>1, <1>9, <1>10 DEF Mirrors

LEMMA ViewsEqual ==
  ASSUME NEW v \in CallView, NEW v2 \in CallView, v2.gen = v.gen, v2.covered = v.covered
  PROVE  v = v2
<1>1. v = [gen |-> v.gen, covered |-> v.covered] /\ v2 = [gen |-> v2.gen, covered |-> v2.covered]
  BY DEF CallView
<1> QED
  BY <1>1

LEMMA CallsIs ==
  ASSUME NEW fs \in Seq(Frame), NEW n, NEW fs2, Begins(fs, fs2, n), n <= Len(fs),
         AtCode(fs, n), n > 0 => ~fs2[n].covered, NEW s, Mirrors(s, fs2, n)
  PROVE  CallsOf(fs, n) = s
<1>1. n \in Nat
  BY RanksBegin
<1>2. Mirrors(CallsOf(fs, n), fs2, n)
  BY CallsMirror
<1> QED
  BY <1>1, <1>2, MirrorsOne

(* The frames up to n, the top one at an instruction outside try blocks.   *)
LEMMA BlankBegins ==
  ASSUME NEW fs \in Seq(Frame), NEW n \in 1..Len(fs)
  PROVE  /\ Begins(fs, Caught(fs, n), n) /\ ~Caught(fs, n)[n].covered
         /\ Caught(fs, n) \in Seq(Frame) /\ Len(Caught(fs, n)) = n
<1> DEFINE fs2 == Caught(fs, n)
<1>1. /\ fs2 \in Seq(Frame) /\ Len(fs2) = n /\ n \in Nat
      /\ \A i \in 1..n : i # n => fs2[i] = fs[i]
      /\ fs2[n] = [fs[n] EXCEPT !.covered = FALSE]
  BY CaughtIs
<1>2. fs[n] \in Frame
  OBVIOUS
<1>3. fs2[n].kind = fs[n].kind /\ fs2[n].gen = fs[n].gen /\ fs2[n].covered = FALSE
  BY <1>1, <1>2, BlankCovers
<1> HIDE DEF fs2
<1>4. ASSUME NEW i \in 1..n
      PROVE  /\ fs2[i].kind = fs[i].kind /\ fs2[i].gen = fs[i].gen
             /\ i # n => fs2[i].covered = fs[i].covered
  BY <1>1, <1>3
<1>5. Begins(fs, fs2, n)
  BY <1>1, <1>4 DEF Begins
<1> QED
  BY <1>1, <1>3, <1>5 DEF fs2

LEMMA NoCalls ==
  ASSUME NEW fs \in Seq(Frame)
  PROVE  CallsOf(fs, 0) = <<>>
<1>1. Begins(fs, <<>>, 0)
  BY DEF Begins
<1>2. Mirrors(<<>>, <<>>, 0)
  BY RankZero DEF Mirrors
<1> QED
  BY <1>1, <1>2, CallsIs DEF AtCode

(* Frames that begin alike stand for the same calls.                       *)
LEMMA CallsAlike ==
  ASSUME NEW fs \in Seq(Frame), NEW n, NEW fs2, Begins(fs, fs2, n), n <= Len(fs),
         AtCode(fs, n)
  PROVE  CallsOf(fs2, n) = CallsOf(fs, n)
<1>1. n \in Nat /\ n \in 0..Len(fs2) /\ fs2 \in Seq(Frame) /\ Len(fs2) \in Nat
  BY DEF Begins
<1>2. CASE n = 0
  BY <1>1, <1>2, NoCalls
<1>3. CASE n # 0
  <2> DEFINE f == Caught(fs2, n)
  <2>1. n \in 1..Len(fs2) /\ n \in 1..n
    BY <1>1, <1>3
  <2>2. Begins(fs2, f, n) /\ ~f[n].covered
    BY <1>1, <2>1, BlankBegins
  <2>3. AtCode(fs2, n)
    BY <2>1 DEF AtCode, Begins
  <2>4. Begins(fs, f, n)
    BY <2>2 DEF Begins
  <2> HIDE DEF f
  <2>5. Mirrors(CallsOf(fs2, n), f, n)
    BY <1>1, <2>2, <2>3, CallsMirror
  <2> QED
    BY <2>2, <2>4, <2>5, CallsIs
<1> QED
  BY <1>2, <1>3

LEMMA CallsAre ==
  ASSUME NEW fs \in Seq(Frame), NEW n \in 0..Len(fs), AtCode(fs, n)
  PROVE  /\ CallsOf(fs, n) \in Seq(CallView)
         /\ Len(CallsOf(fs, n)) = Rank(fs, n)
         /\ \A i \in 1..n : fs[i].kind = "code" =>
               /\ Rank(fs, i) \in 1..Rank(fs, n)
               /\ CallsOf(fs, n)[Rank(fs, i)].gen = fs[i].gen
<1>1. CASE n = 0
  <2>1. CallsOf(fs, n) = <<>> /\ Rank(fs, n) = 0
    BY <1>1, NoCalls, RankZero
  <2>2. <<>> \in Seq(CallView) /\ Len(<<>>) = 0 /\ \A i \in 1..n : FALSE
    BY <1>1
  <2> QED
    BY <2>1, <2>2
<1>2. CASE n # 0
  <2> DEFINE f == Caught(fs, n)
             s == CallsOf(fs, n)
  <2>1. n \in 1..Len(fs) /\ n \in Nat
    BY <1>2
  <2>2. Begins(fs, f, n) /\ ~f[n].covered
    BY <2>1, BlankBegins
  <2>3. Mirrors(s, f, n)
    BY <2>1, <2>2, CallsMirror
  <2>4. \A i \in 0..n : Rank(f, i) = Rank(fs, i)
    BY <2>2, RanksBegin
  <2> HIDE DEF f, s
  <2>5. s \in Seq(CallView) /\ Len(s) = Rank(fs, n)
    BY <2>1, <2>3, <2>4 DEF Mirrors
  <2>6. ASSUME NEW i \in 1..n, fs[i].kind = "code"
        PROVE  Rank(fs, i) \in 1..Rank(fs, n) /\ s[Rank(fs, i)].gen = fs[i].gen
    <3>1. f[i].kind = "code" /\ f[i].gen = fs[i].gen /\ i \in 0..n
      BY <2>1, <2>2, <2>6 DEF Begins
    <3>2. s[Rank(f, i)] = ViewOf(f[i])
      BY <2>3, <3>1 DEF Mirrors
    <3>3. Rank(f, i) = Rank(fs, i)
      BY <2>4, <3>1
    <3>4. Rank(fs, i) \in 1..Rank(fs, n)
      BY <2>1, <2>6, CodeRanks
    <3> QED
      BY <3>1, <3>2, <3>3, <3>4 DEF ViewOf
  <2> QED
    BY <2>5, <2>6 DEF s
<1> QED
  BY <1>1, <1>2

LEMMA Uncovered ==
  ASSUME NEW v \in CallView, NEW v2 \in CallView, v2.gen = v.gen, v2.covered = FALSE
  PROVE  [v EXCEPT !.covered = FALSE] = v2
<1>1. /\ [v EXCEPT !.covered = FALSE] \in CallView
      /\ [v EXCEPT !.covered = FALSE].gen = v.gen
      /\ [v EXCEPT !.covered = FALSE].covered = FALSE
  BY DEF CallView
<1> QED
  BY <1>1, ViewsEqual

(* Cutting the stack of calls.                                             *)
LEMMA CallsCut ==
  ASSUME NEW fs \in Seq(Frame), NEW n \in 0..Len(fs), NEW s, Mirrors(s, fs, n),
         NEW fs2, NEW m \in 0..n, Begins(fs, fs2, m), AtCode(fs, m)
  PROVE  CS!BackTo(s, Rank(fs, m)) = CallsOf(fs2, m)
<1> DEFINE k  == Rank(fs, m)
           s2 == [SubSeq(s, 1, k) EXCEPT ![k].covered = FALSE]
           f  == Caught(fs2, m)
<1>1. n \in Nat /\ m \in Nat /\ fs2 \in Seq(Frame) /\ m \in 0..Len(fs2) /\ Len(fs2) \in Nat
  BY DEF Begins
<1>2. CASE m = 0
  <2>1. CallsOf(fs2, 0) = <<>> /\ Rank(fs, 0) = 0
    BY <1>1, NoCalls, RankZero
  <2>2. CS!BackTo(s, 0) = <<>>
    BY DEF CS!BackTo
  <2> QED
    BY <1>2, <2>1, <2>2
<1>3. CASE m # 0
  <2>1. m \in 1..Len(fs2) /\ m \in 1..n /\ m \in 1..m
    BY <1>1, <1>3
  <2>2. Begins(fs2, f, m) /\ ~f[m].covered /\ f \in Seq(Frame)
    BY <1>1, <2>1, BlankBegins
  <2>3. AtCode(fs2, m) /\ fs[m].kind = "code" /\ fs2[m].kind = "code"
    BY <2>1 DEF AtCode, Begins
  <2>4. Begins(fs, f, m)
    BY <2>2 DEF Begins
  <2>5. \A i \in 0..m : Rank(f, i) = Rank(fs, i)
    BY <2>4, RanksBegin
  <2>6. /\ s \in Seq(CallView) /\ Len(s) = Rank(fs, n) /\ Rank(fs, n) \in Nat
        /\ k \in 1..Rank(fs, n) /\ k \in Nat
    BY <1>1, <2>1, <2>3, CodeRanks DEF Mirrors
  <2>7. k # 0
    BY <2>6
  <2>8. CS!BackTo(s, k) = s2
    BY <2>7 DEF CS!BackTo
  <2> DEFINE c == SubSeq(s, 1, k)
  <2> HIDE DEF k
  <2>9. c \in Seq(CallView) /\ Len(c) = k /\ \A j \in 1..k : c[j] = s[j]
    BY <2>6
  <2>10. s[k] \in CallView
    BY <2>6
  <2>0. c[k] = s[k]
    BY <2>6, <2>9
  <2>11. s2 = [c EXCEPT ![k] = [s[k] EXCEPT !.covered = FALSE]]
    BY <2>0
  <2> HIDE DEF c, s2
  <2>12. [s[k] EXCEPT !.covered = FALSE] \in CallView
    BY <2>10 DEF CallView
  <2>13. /\ s2 \in Seq(CallView) /\ Len(s2) = k
         /\ \A j \in 1..k : j # k => s2[j] = s[j]
         /\ s2[k] = [s[k] EXCEPT !.covered = FALSE]
    BY <2>6, <2>9, <2>11, <2>12
  <2>14. ASSUME NEW i \in 1..m, f[i].kind # "sentinel"
         PROVE  s2[Rank(f, i)] = ViewOf(f[i])
    <3>1. /\ f[i].kind = fs[i].kind /\ f[i].gen = fs[i].gen
          /\ i # m => f[i].covered = fs[i].covered
      BY <2>4 DEF Begins
    <3>2. i \in 1..n /\ fs[i].kind # "sentinel" /\ i \in 0..m
      BY <1>1, <2>14, <3>1
    <3>3. s[Rank(fs, i)] = ViewOf(fs[i])
      BY <3>2 DEF Mirrors
    <3>4. Rank(f, i) = Rank(fs, i) /\ Rank(fs, i) \in 1..k
      <4>1. Rank(fs, i) \in 1..Rank(fs, m)
        BY <1>1, <3>2, CodeRanks
      <4> QED
        BY <2>5, <3>2, <4>1 DEF k
    <3>5. CASE i = m
      <4>1. s2[Rank(f, i)] = [s[k] EXCEPT !.covered = FALSE] /\ s[k] = ViewOf(fs[m])
        BY <2>13, <3>3, <3>4, <3>5 DEF k
      <4>2. f[m].covered = FALSE /\ f[m].gen = fs[m].gen
        <5>1. f[m] \in Frame
          BY <2>1, <2>2 DEF Begins
        <5> QED
          BY <2>2, <3>1, <3>5, <5>1, FrameFields
      <4>3. ViewOf(fs[m]).gen = fs[m].gen /\ ViewOf(f[m]).gen = f[m].gen
            /\ ViewOf(f[m]).covered = f[m].covered
        BY DEF ViewOf
      <4>4. ViewOf(f[m]) \in CallView
        <5>1. f[m] \in Frame
          BY <2>1, <2>2 DEF Begins
        <5> QED
          BY <5>1, FrameFields DEF ViewOf, CallView
      <4>5. s[k] \in CallView
        BY <2>10
      <4>6. ViewOf(f[m]).gen = s[k].gen /\ ViewOf(f[m]).covered = FALSE
        BY <4>1, <4>2, <4>3
      <4>7. [s[k] EXCEPT !.covered = FALSE] = ViewOf(f[m])
        BY <4>4, <4>5, <4>6, Uncovered
      <4> QED
        BY <3>5, <4>1, <4>7
    <3>6. CASE i # m
      <4>1. Rank(fs, i) # k
        <5>1. i \in Nat /\ fs[i].kind # "sentinel" /\ fs[m].kind # "sentinel"
          BY <2>3, <3>2
        <5> QED
          BY <1>1, <3>6, <5>1, RankOnce DEF k
      <4>2. s2[Rank(f, i)] = ViewOf(fs[i])
        BY <2>13, <3>3, <3>4, <4>1
      <4> QED
        BY <3>1, <3>6, <4>2 DEF ViewOf
    <3> QED
      BY <3>5, <3>6
  <2>15. Mirrors(s2, f, m)
    <3>1. Rank(f, m) = k
      BY <1>1, <2>5 DEF k
    <3> QED
      BY <2>13, <2>14, <3>1 DEF Mirrors
  <2>16. CallsOf(fs2, m) = s2
    BY <1>1, <2>2, <2>3, <2>15, CallsIs
  <2> QED
    BY <2>8, <2>16 DEF k
<1> QED
  BY <1>2, <1>3

LEMMA Recovered ==
  ASSUME NEW v \in CallView, NEW c \in BOOLEAN, NEW v2 \in CallView,
         v2.gen = v.gen, v2.covered = c
  PROVE  [v EXCEPT !.covered = c] = v2
<1>1. /\ [v EXCEPT !.covered = c] \in CallView
      /\ [v EXCEPT !.covered = c].gen = v.gen
      /\ [v EXCEPT !.covered = c].covered = c
  BY DEF CallView
<1> QED
  BY <1>1, ViewsEqual

LEMMA ViewFields ==
  ASSUME NEW f \in Frame
  PROVE  ViewOf(f) \in CallView /\ ViewOf(f).gen = f.gen /\ ViewOf(f).covered = f.covered
BY FrameFields DEF ViewOf, CallView

(* The innermost call is at an instruction in a try block, or not.         *)
LEMMA WithinMirrors ==
  ASSUME NEW fs \in Seq(Frame), NEW n \in 1..Len(fs), fs[n].kind = "code",
         NEW fs2, Begins(fs, fs2, n), NEW c \in BOOLEAN, fs2[n].covered = c
  PROVE  Mirrors([CallsOf(fs, n) EXCEPT ![Len(CallsOf(fs, n))].covered = c], fs2, n)
<1> DEFINE s  == CallsOf(fs, n)
           k  == Rank(fs, n)
           f  == Caught(fs2, n)
           v  == [s[k] EXCEPT !.covered = c]
           s2 == [s EXCEPT ![k] = v]
<1>1. n \in Nat /\ fs2 \in Seq(Frame) /\ n \in 0..Len(fs2) /\ Len(fs2) \in Nat
  BY DEF Begins
<1>2. n \in 1..Len(fs2) /\ n \in 1..n /\ n \in 0..Len(fs) /\ n <= Len(fs)
  BY <1>1
<1>3. Begins(fs2, f, n) /\ ~f[n].covered /\ f \in Seq(Frame)
  BY <1>1, <1>2, BlankBegins
<1>4. Begins(fs, f, n)
  BY <1>3 DEF Begins
<1>5. AtCode(fs, n)
  BY DEF AtCode
<1>6. Mirrors(s, f, n)
  BY <1>2, <1>3, <1>4, <1>5, CallsMirror
<1>7. /\ \A i \in 0..n : Rank(f, i) = Rank(fs, i)
      /\ \A i \in 0..n : Rank(fs2, i) = Rank(fs, i)
  BY <1>4, RanksBegin
<1>8. k \in 1..k /\ k \in Nat
  BY <1>1, <1>2, CodeRanks
<1>9. s \in Seq(CallView) /\ Len(s) = k
  BY <1>1, <1>6, <1>7 DEF Mirrors
<1>10. [s EXCEPT ![Len(s)].covered = c] = s2
  BY <1>9
<1> HIDE DEF s, k, f
<1>11. s[k] \in CallView
  BY <1>8, <1>9
<1>12. v \in CallView
  BY <1>11 DEF CallView
<1> HIDE DEF s2
<1>13. s2 \in Seq(CallView) /\ Len(s2) = k /\ s2[k] = v /\ \A j \in 1..k : j # k => s2[j] = s[j]
  <2> HIDE DEF v
  <2> QED
    BY <1>8, <1>9, <1>12 DEF s2
<1>14. ASSUME NEW i \in 1..n, fs2[i].kind # "sentinel"
       PROVE  s2[Rank(fs2, i)] = ViewOf(fs2[i])
  <2>1. f[i] \in Frame /\ fs2[i] \in Frame /\ i \in 0..n /\ i \in Nat
    BY <1>1, <1>3 DEF Begins
  <2>2. /\ f[i].kind = fs2[i].kind /\ f[i].gen = fs2[i].gen /\ f[i].kind = fs[i].kind
        /\ i # n => f[i].covered = fs2[i].covered
    BY <1>3, <1>4 DEF Begins
  <2>3. s[Rank(f, i)] = ViewOf(f[i])
    BY <1>6, <1>14, <2>2 DEF Mirrors
  <2>4. Rank(f, i) = Rank(fs2, i) /\ Rank(fs2, i) = Rank(fs, i) /\ Rank(fs, i) \in 1..k
    <3>1. Rank(fs, i) \in 1..Rank(fs, n)
      BY <1>1, <1>14, <2>2, CodeRanks
    <3> QED
      BY <1>7, <2>1, <3>1 DEF k
  <2>5. CASE i = n
    <3>1. s2[Rank(fs2, i)] = v /\ s[k] = ViewOf(f[n])
      BY <1>13, <2>3, <2>4, <2>5 DEF k
    <3>2. ViewOf(fs2[n]) \in CallView /\ ViewOf(fs2[n]).gen = s[k].gen /\ ViewOf(fs2[n]).covered = c
      BY <2>1, <2>2, <2>5, <3>1, ViewFields
    <3>3. v = ViewOf(fs2[n])
      BY <1>11, <3>2, Recovered
    <3> QED
      BY <2>5, <3>1, <3>3
  <2>6. CASE i # n
    <3>1. Rank(fs, i) # k
      <4>1. fs[i].kind # "sentinel" /\ fs[n].kind # "sentinel"
        BY <1>14, <2>2
      <4> QED
        BY <1>1, <2>1, <2>6, <4>1, RankOnce DEF k
    <3>2. s2[Rank(fs2, i)] = ViewOf(f[i])
      BY <1>13, <2>3, <2>4, <3>1
    <3> QED
      BY <2>2, <2>6, <3>2 DEF ViewOf
  <2> QED
    BY <2>5, <2>6
<1>15. Mirrors(s2, fs2, n)
  <2>1. Rank(fs2, n) = k
    BY <1>1, <1>7 DEF k
  <2> QED
    BY <1>13, <1>14, <2>1 DEF Mirrors
<1> QED
  BY <1>10, <1>15 DEF s

(* A call is made.                                                         *)
LEMMA CallsGrow ==
  ASSUME NEW fs \in Seq(Frame), NEW s, Mirrors(s, fs, Len(fs)),
         NEW fs2 \in Seq(Frame), NEW m \in {Len(fs) + 1, Len(fs) + 2}, Len(fs2) = m,
         \A i \in 1..Len(fs) : fs2[i] = fs[i],
         m = Len(fs) + 2 => fs2[Len(fs) + 1].kind = "sentinel",
         fs2[m].kind = "code"
  PROVE  Append(s, [gen |-> fs2[m].gen, covered |-> FALSE]) = CallsOf(fs2, m)
<1> DEFINE n  == Len(fs)
           f  == Caught(fs2, m)
           v  == [gen |-> fs2[m].gen, covered |-> FALSE]
           s2 == Append(s, v)
           k  == Rank(fs, n)
<1>1. n \in Nat /\ m \in 1..Len(fs2) /\ m \in Nat /\ m > n /\ n \in 0..n
  OBVIOUS
<1>2. /\ Begins(fs2, f, m) /\ ~f[m].covered /\ f \in Seq(Frame)
      /\ \A i \in 1..m : i # m => f[i] = fs2[i]
  BY <1>1, BlankBegins, CaughtIs
<1>3. fs2[m] \in Frame
  BY <1>1
<1>4. v \in CallView
  BY <1>3, FrameFields DEF CallView
<1>5. s \in Seq(CallView) /\ Len(s) = k /\ k \in Nat
  BY <1>1, RanksGrow DEF Mirrors
<1> HIDE DEF f, v
<1>6. s2 \in Seq(CallView) /\ Len(s2) = k + 1 /\ s2[k + 1] = v /\ \A j \in 1..k : s2[j] = s[j]
  <2> HIDE DEF k
  <2> QED
    BY <1>4, <1>5
<1> HIDE DEF s2
<1>7. \A i \in 0..n : Rank(fs2, i) = Rank(fs, i)
  BY <1>1, RanksAlike
<1>8. \A i \in 0..m : Rank(f, i) = Rank(fs2, i)
  BY <1>2, RanksBegin
<1>9. Rank(fs2, m) = k + 1
  <2>1. CASE m = n + 1
    BY <1>1, <1>7, <2>1, RankStep
  <2>2. CASE m = n + 2
    <3>1. n + 1 \in Nat /\ m = n + 1 + 1
      BY <1>1, <2>2
    <3>2. Rank(fs2, n + 1) = Rank(fs2, n)
      BY <1>1, <2>2, RankStep
    <3>3. fs2[n + 1 + 1].kind # "sentinel"
      BY <2>2, <3>1
    <3>4. Rank(fs2, n + 1 + 1) = Rank(fs2, n + 1) + 1
      BY <3>1, <3>3, RankStep
    <3> QED
      BY <1>1, <1>7, <3>1, <3>2, <3>4
  <2> QED
    BY <2>1, <2>2
<1>10. ASSUME NEW i \in 1..m, f[i].kind # "sentinel"
       PROVE  s2[Rank(f, i)] = ViewOf(f[i])
  <2>1. Rank(f, i) = Rank(fs2, i) /\ i \in Nat
    BY <1>1, <1>8
  <2>2. f[i].kind = fs2[i].kind /\ f[i].gen = fs2[i].gen
    BY <1>2 DEF Begins
  <2>3. CASE i \in 1..n
    <3>1. f[i] = fs2[i] /\ fs2[i] = fs[i] /\ i \in 0..n
      BY <1>1, <1>2, <2>3
    <3>2. s[Rank(fs, i)] = ViewOf(fs[i]) /\ Rank(fs, i) \in 1..k
      BY <1>1, <1>10, <2>3, <3>1, CodeRanks DEF Mirrors
    <3>3. Rank(fs2, i) = Rank(fs, i)
      BY <1>7, <3>1
    <3> QED
      BY <1>6, <2>1, <3>1, <3>2, <3>3
  <2>4. CASE i = m
    <3>1. f[m] \in Frame /\ f[m].covered = FALSE
      <4>1. f[m] \in Frame
        BY <1>1, <1>2 DEF Begins
      <4> QED
        BY <1>2, <4>1, FrameFields
    <3>2. ViewOf(f[m]) \in CallView /\ ViewOf(f[m]).gen = fs2[m].gen /\ ViewOf(f[m]).covered = FALSE
      BY <2>2, <2>4, <3>1, ViewFields
    <3>3. v.gen = fs2[m].gen /\ v.covered = FALSE
      BY DEF v
    <3>4. v = ViewOf(f[m])
      BY <1>4, <3>2, <3>3, ViewsEqual
    <3> QED
      BY <1>6, <1>9, <2>1, <2>4, <3>4
  <2>5. CASE ~(i \in 1..n) /\ i # m
    <3>1. m = n + 2 /\ i = n + 1
      BY <1>1, <2>5
    <3> QED
      BY <1>10, <2>2, <3>1
  <2> QED
    BY <2>3, <2>4, <2>5
<1>11. Mirrors(s2, f, m)
  <2>1. Rank(f, m) = k + 1
    BY <1>1, <1>8, <1>9
  <2> QED
    BY <1>6, <1>10, <2>1 DEF Mirrors
<1>12. AtCode(fs2, m)
  BY DEF AtCode
<1>13. CallsOf(fs2, m) = s2
  BY <1>1, <1>2, <1>11, <1>12, CallsIs
<1> QED
  BY <1>13 DEF s2, v

(* Sentinels are no calls, and handle nothing.                             *)
Bare(fs) ==
  \A i \in DOMAIN fs : fs[i].kind = "sentinel" => ~fs[i].covered /\ fs[i].gen = Null

LEMMA SentinelsBare ==
  ASSUME NEW fs \in Seq(Frame), NEW ls \in Seq(Activation), NEW w \in Nat, Lower(fs, ls, w)
  PROVE  Bare(fs)
<1>1. Ordered(ls, w)
  BY InOrder
<1>2. \A k, l \in 1..w : k < l => ls[k].at + 2 <= ls[l].at
  BY DEF Lower
<1>3. ASSUME NEW i \in DOMAIN fs, fs[i].kind = "sentinel"
      PROVE  ~fs[i].covered /\ fs[i].gen = Null
  <2>1. Fits(fs[i], i, ls, w)
    BY DEF Lower
  <2>2. ~fs[i].covered
    BY <1>3, <2>1 DEF Fits, FrameOK
  <2>3. PICK k \in 1..w : i = ls[k].at + 1
    BY <1>3, <2>1 DEF Fits
  <2>4. ASSUME fs[i].gen # Null PROVE FALSE
    <3>1. PICK l \in 1..w : i = ls[l].at + 2
      BY <2>1, <2>4 DEF Fits
    <3>2. ls[k].at \in Nat /\ ls[l].at \in Nat
      BY <1>1 DEF Ordered
    <3>3. k < l => ls[k].at + 2 <= ls[l].at
      BY <1>2
    <3>4. l < k => ls[l].at + 2 <= ls[k].at
      BY <1>2
    <3>5. k = l \/ k < l \/ l < k
      OBVIOUS
    <3> QED
      BY <2>3, <3>1, <3>2, <3>3, <3>4, <3>5, SMTT(20)
  <2> QED
    BY <2>2, <2>4
<1> QED
  BY <1>3 DEF Bare

(* The innermost call that is in a try block, as CallStack finds it.       *)
Catching(s) ==
  LET handlers == {i \in DOMAIN s : s[i].covered}
  IN  IF handlers = {} THEN 0 ELSE CHOOSE i \in handlers : \A j \in handlers : j <= i

LEMMA HandlerRank ==
  ASSUME NEW fs \in Seq(Frame), Bare(fs), NEW s, Mirrors(s, fs, Len(fs))
  PROVE  /\ Handler(fs) \in 0..Len(fs) /\ AtCode(fs, Handler(fs))
         /\ Catching(s) = Rank(fs, Handler(fs))
<1> DEFINE n == Len(fs)
           h == Handler(fs)
           H == {i \in DOMAIN s : s[i].covered}
<1>1. Catches(fs, h)
  BY HandlerCatches
<1>2. n \in Nat /\ h \in 0..n /\ h \in Nat /\ DOMAIN fs = 1..n
  BY <1>1 DEF Catches
<1>3. h > 0 => h \in DOMAIN fs /\ fs[h].covered /\ fs[h].kind = "code"
  <2>1. h > 0 => h \in DOMAIN fs /\ fs[h].covered /\ fs[h] \in Frame
    BY <1>1, <1>2 DEF Catches
  <2> QED
    BY <2>1, FrameFields DEF Bare
<1>4. DOMAIN s = 1..Rank(fs, n) /\ Rank(fs, n) \in Nat /\ Rank(fs, h) \in Nat
  BY <1>2, RanksGrow DEF Mirrors
<1> HIDE DEF n, h
<1>5. ASSUME NEW k \in H PROVE h > 0 /\ k <= Rank(fs, h) /\ k \in Nat
  <2>1. PICK i \in 1..n : fs[i].kind # "sentinel" /\ Rank(fs, i) = k
    BY <1>2, <1>4, RankHit
  <2>2. s[k] = ViewOf(fs[i]) /\ s[k].covered
    BY <2>1 DEF Mirrors, n
  <2>3. fs[i] \in Frame
    BY <1>2, <2>1
  <2>4. fs[i].covered
    BY <2>2, <2>3, ViewFields
  <2>5. i <= h
    BY <1>1, <1>2, <2>1, <2>4 DEF Catches
  <2>6. Rank(fs, i) <= Rank(fs, h)
    BY <1>2, <2>1, <2>5, RanksGrow
  <2> QED
    BY <1>2, <1>4, <2>1, <2>5, <2>6
<1>6. CASE h = 0
  <2>1. H = {}
    BY <1>5, <1>6
  <2>2. Catching(s) = 0
    BY <2>1 DEF Catching
  <2> QED
    BY <1>2, <1>6, <2>2, RankZero DEF h, n, AtCode
<1>7. CASE h # 0
  <2>1. h > 0 /\ h \in 1..n
    BY <1>2, <1>7
  <2>2. Rank(fs, h) \in 1..Rank(fs, n)
    BY <1>2, <1>3, <2>1, CodeRanks
  <2>3. s[Rank(fs, h)] = ViewOf(fs[h])
    BY <1>3, <2>1 DEF Mirrors, n
  <2>4. s[Rank(fs, h)].covered
    BY <1>3, <2>1, <2>3, ViewFields
  <2>5. Rank(fs, h) \in H
    BY <1>4, <2>2, <2>4
  <2> HIDE DEF H
  <2>6. Catching(s) = CHOOSE i \in H : \A j \in H : j <= i
    BY <2>5 DEF Catching, H
  <2>7. Catching(s) \in H /\ \A j \in H : j <= Catching(s)
    BY <1>5, <2>5, <2>6
  <2>8. Catching(s) = Rank(fs, h)
    BY <1>4, <1>5, <2>5, <2>7
  <2> QED
    BY <1>2, <1>3, <2>1, <2>8 DEF h, n, AtCode
<1> QED
  BY <1>6, <1>7

(* g is among the calls above k, or among the frames above h.              *)
OnCalls(s, k, g)   == \E j \in DOMAIN s : j > k /\ s[j].gen = g
OnFrames(fs, h, g) == \E i \in 1..Len(fs) : i > h /\ fs[i].gen = g

LEMMA GensAbove ==
  ASSUME NEW fs \in Seq(Frame), Bare(fs), NEW s, Mirrors(s, fs, Len(fs)),
         NEW h \in 0..Len(fs), NEW g, g # Null
  PROVE  OnCalls(s, Rank(fs, h), g) <=> OnFrames(fs, h, g)
<1> DEFINE n == Len(fs)
<1>1. n \in Nat /\ h \in Nat /\ DOMAIN fs = 1..n
  OBVIOUS
<1>2. DOMAIN s = 1..Rank(fs, n) /\ Rank(fs, n) \in Nat /\ Rank(fs, h) \in Nat
  BY <1>1, RanksGrow DEF Mirrors
<1>3. ASSUME NEW k \in DOMAIN s, k > Rank(fs, h), s[k].gen = g
      PROVE  \E i \in 1..n : i > h /\ fs[i].gen = g
  <2>1. PICK i \in 1..n : fs[i].kind # "sentinel" /\ Rank(fs, i) = k
    BY <1>1, <1>2, RankHit
  <2>2. s[k] = ViewOf(fs[i])
    BY <2>1 DEF Mirrors
  <2>3. fs[i].gen = g
    BY <1>3, <2>2 DEF ViewOf
  <2>4. i <= h => Rank(fs, i) <= Rank(fs, h)
    BY <1>1, <2>1, RanksGrow
  <2>5. i > h
    BY <1>1, <1>2, <1>3, <2>1, <2>4
  <2> QED
    BY <2>3, <2>5
<1>4. ASSUME NEW i \in 1..n, i > h, fs[i].gen = g
      PROVE  \E k \in DOMAIN s : k > Rank(fs, h) /\ s[k].gen = g
  <2>1. fs[i].kind # "sentinel"
    BY <1>1, <1>4 DEF Bare
  <2>2. Rank(fs, i) \in 1..Rank(fs, n)
    BY <1>1, <2>1, CodeRanks
  <2>3. Rank(fs, h) < Rank(fs, i)
    BY <1>1, <1>4, <2>1, RanksGrow
  <2>4. s[Rank(fs, i)] = ViewOf(fs[i])
    BY <2>1 DEF Mirrors
  <2>5. s[Rank(fs, i)].gen = g
    BY <1>4, <2>4 DEF ViewOf
  <2> QED
    BY <1>2, <2>2, <2>3, <2>5
<1> QED
  BY <1>3, <1>4 DEF OnCalls, OnFrames

-----------------------------------------------------------------------------
(* The bodies that are on the stack.                                       *)

Housed(fs, gs) ==
  \A g \in Generators : gs[g].state = "executing" => \E i \in 1..Len(fs) : fs[i].gen = g

Awake(fs, gs) ==
  \A i \in 1..Len(fs) : \A g \in Generators : fs[i].gen = g => gs[g].state = "executing"

Alone(fs) ==
  \A i, j \in 1..Len(fs) : fs[i].gen # Null /\ fs[i].gen = fs[j].gen => i = j

LEMMA BodiesRun ==
  ASSUME NEW fs \in Seq(Frame), NEW ls \in Seq(Activation), Runs(fs, ls),
         NEW gs, Owned(ls, gs, NoReply), Null \notin Generators
  PROVE  Housed(fs, gs) /\ Awake(fs, gs) /\ Alone(fs)
<1> DEFINE w == Len(ls) - 1
<1>1. w \in Nat /\ Lower(fs, ls, w) /\ Base(ls, w) <= Len(fs) /\ Len(fs) \in Nat
  BY LoopsBelow
<1>2. Ordered(ls, w)
  BY <1>1, InOrder
<1>3. Distinct(ls, w) /\ Executing(ls, gs, w) /\ NoOthers(ls, gs, w)
  BY DEF Owned
<1> HIDE DEF w
<1>4. ASSUME NEW k \in 1..w
      PROVE  LET i == ls[k].at + 2 IN i \in 1..Len(fs) /\ fs[i].gen = ls[k].call.gen
  <2>1. ls[k].at \in Nat /\ ls[k].at <= ls[w].at /\ ls[w].at \in Nat /\ Base(ls, w) = ls[w].at + 2
    BY <1>2 DEF Ordered
  <2>2. ls[k].at + 2 \in DOMAIN fs /\ ls[k].at + 2 \in 1..Len(fs)
    BY <1>1, <2>1
  <2>3. Fits(fs[ls[k].at + 2], ls[k].at + 2, ls, w)
    BY <1>1, <2>2 DEF Lower
  <2> QED
    BY <2>2, <2>3 DEF Fits
<1>5. ASSUME NEW i \in 1..Len(fs), fs[i].gen # Null
      PROVE  \E k \in 1..w : i = ls[k].at + 2 /\ ls[k].call.gen = fs[i].gen
  <2>1. Fits(fs[i], i, ls, w)
    BY <1>1 DEF Lower
  <2> QED
    BY <1>5, <2>1 DEF Fits
<1>6. Housed(fs, gs)
  <2>1. ASSUME NEW g \in Generators, gs[g].state = "executing"
        PROVE  \E i \in 1..Len(fs) : fs[i].gen = g
    <3>1. PICK k \in 1..w : ls[k].call.gen = g
      BY <1>3, <2>1 DEF NoOthers
    <3> QED
      BY <1>4, <3>1
  <2> QED
    BY <2>1 DEF Housed
<1>7. Awake(fs, gs)
  <2>1. ASSUME NEW i \in 1..Len(fs), NEW g \in Generators, fs[i].gen = g
        PROVE  gs[g].state = "executing"
    <3>1. g # Null
      OBVIOUS
    <3>2. PICK k \in 1..w : ls[k].call.gen = g
      BY <1>5, <2>1, <3>1
    <3> QED
      BY <1>3, <3>1, <3>2 DEF Executing
  <2> QED
    BY <2>1 DEF Awake
<1>8. Alone(fs)
  <2>1. ASSUME NEW i \in 1..Len(fs), NEW j \in 1..Len(fs), fs[i].gen # Null,
               fs[i].gen = fs[j].gen
        PROVE  i = j
    <3>1. PICK k \in 1..w : i = ls[k].at + 2 /\ ls[k].call.gen = fs[i].gen
      BY <1>5, <2>1
    <3>2. PICK l \in 1..w : j = ls[l].at + 2 /\ ls[l].call.gen = fs[j].gen
      BY <1>5, <2>1
    <3>3. k = l
      BY <1>3, <2>1, <3>1, <3>2 DEF Distinct
    <3> QED
      BY <3>1, <3>2, <3>3
  <2> QED
    BY <2>1 DEF Alone
<1> QED
  BY <1>6, <1>7, <1>8

-----------------------------------------------------------------------------
(* The stack of calls that a state of the machine stands for.              *)

LiveTopOf(fs, ex, ls, d) ==
  IF ex.unwinding THEN IF d \in DOMAIN fs THEN d ELSE 0
  ELSE IF ls = <<>> THEN 0 ELSE Top(ls).at

OutcomeOf(ex, ls, rp, d) ==
  IF ex.unwinding /\ d = 0 THEN "error" ELSE IF ls = <<>> THEN rp.status ELSE "none"

Lapsed(fs, gs, m, g) == gs[g].state = "executing" /\ \A i \in 1..m : fs[i].gen # g

BodiesOf(fs, gs, m) ==
  [g \in Generators |->
     IF Lapsed(fs, gs, m, g) THEN [gs[g] EXCEPT !.state = "completed"] ELSE gs[g]]

LEMMA SeenNow ==
  /\ LiveTop = LiveTopOf(frames, exception, loops, due)
  /\ CallsMade = CallsOf(frames, LiveTop)
  /\ Bodies = BodiesOf(frames, generators, LiveTop)
<1>1. LiveTop = LiveTopOf(frames, exception, loops, due)
  BY DEF LiveTop, LiveTopOf
<1>2. CallsMade = CallsOf(frames, LiveTop)
  BY DEF CallsMade
<1>3. Bodies = BodiesOf(frames, generators, LiveTop)
  BY DEF Bodies, BodiesOf, Lapsed
<1> QED
  BY <1>1, <1>2, <1>3

LEMMA SeenNext ==
  /\ LiveTop' = LiveTopOf(frames', exception', loops', due')
  /\ CallsMade' = CallsOf(frames', LiveTop')
  /\ Bodies' = BodiesOf(frames', generators', LiveTop')
<1>1. LiveTop' = LiveTopOf(frames', exception', loops', due')
  BY DEF LiveTop, LiveTopOf
<1>2. CallsMade' = CallsOf(frames', LiveTop')
  BY DEF CallsMade
<1>3. Bodies' = BodiesOf(frames', generators', LiveTop')
  BY DEF Bodies, BodiesOf, Lapsed
<1> QED
  BY <1>1, <1>2, <1>3

LEMMA BodiesWhole ==
  ASSUME NEW fs, NEW gs \in [Generators -> Suspensions], NEW m,
         \A g \in Generators : gs[g].state = "executing" => \E i \in 1..m : fs[i].gen = g
  PROVE  BodiesOf(fs, gs, m) = gs
<1>1. ASSUME NEW g \in Generators PROVE ~Lapsed(fs, gs, m, g)
  BY DEF Lapsed
<1>2. BodiesOf(fs, gs, m) = [g \in Generators |-> gs[g]]
  BY <1>1 DEF BodiesOf
<1> QED
  BY <1>2

LEMMA BodiesAlike ==
  ASSUME NEW fs, NEW fs2, NEW m \in Nat, \A i \in 1..m : fs2[i].gen = fs[i].gen, NEW gs
  PROVE  BodiesOf(fs2, gs, m) = BodiesOf(fs, gs, m)
<1>1. ASSUME NEW g \in Generators PROVE Lapsed(fs2, gs, m, g) <=> Lapsed(fs, gs, m, g)
  BY DEF Lapsed
<1> QED
  BY <1>1 DEF BodiesOf

(* A loop executes.                                                        *)
LEMMA SeenRunning ==
  ASSUME NEW fs, NEW n, NEW ls, NEW gs, NEW d, Good(fs, n, Quiet, ls, NoReply, gs, d),
         Null \notin Generators
  PROVE  /\ fs \in Seq(Frame) /\ Len(fs) \in Nat /\ Len(fs) \in 1..Len(fs) /\ Bare(fs)
         /\ fs[Len(fs)].kind = "code" /\ fs[1].kind = "code"
         /\ LiveTopOf(fs, Quiet, ls, d) = Len(fs)
         /\ OutcomeOf(Quiet, ls, NoReply, d) = "none"
         /\ BodiesOf(fs, gs, Len(fs)) = gs
         /\ Housed(fs, gs) /\ Awake(fs, gs) /\ Alone(fs)
<1>1. /\ fs \in Seq(Frame) /\ ls \in Seq(Activation) /\ gs \in [Generators -> Suspensions]
      /\ Owned(ls, gs, NoReply) /\ Shape(fs, Quiet, ls, NoReply, gs)
  BY DEF Good
<1>2. Runs(fs, ls)
  BY <1>1 DEF Shape
<1>3. /\ Len(ls) \in Nat /\ Len(ls) > 0 /\ Len(ls) - 1 \in Nat /\ ls # <<>>
      /\ Lower(fs, ls, Len(ls) - 1) /\ Base(ls, Len(ls) - 1) <= Len(fs)
  BY <1>1, <1>2, LoopsBelow
<1>4. Bare(fs)
  BY <1>1, <1>3, SentinelsBare
<1>5. Len(fs) \in DOMAIN fs /\ Len(fs) \in Nat /\ fs[Len(fs)].kind = "code"
  BY <1>1, <1>2, BodyFrame
<1>6. Housed(fs, gs) /\ Awake(fs, gs) /\ Alone(fs)
  BY <1>1, <1>2, BodiesRun
<1>7. BodiesOf(fs, gs, Len(fs)) = gs
  BY <1>1, <1>6, BodiesWhole DEF Housed
<1>8. Top(ls).at = Len(fs)
  BY <1>2 DEF Runs, Top
<1>9. LiveTopOf(fs, Quiet, ls, d) = Len(fs) /\ OutcomeOf(Quiet, ls, NoReply, d) = "none"
  BY <1>3, <1>8, QuietFields DEF LiveTopOf, OutcomeOf
<1>10. fs[1].kind = "code"
  <2>1. 1 \in DOMAIN fs
    BY <1>1, <1>5
  <2>2. Fits(fs[1], 1, ls, Len(ls) - 1) /\ fs[1] \in Frame
    BY <1>1, <1>3, <2>1 DEF Lower
  <2>3. fs[1].kind # "sentinel"
    <3>1. Ordered(ls, Len(ls) - 1)
      BY <1>1, <1>3, InOrder
    <3>2. \A k \in 1..Len(ls) - 1 : ls[k].at \in Nat /\ ls[k].at > 0
      BY <3>1 DEF Ordered
    <3>3. \A k \in 1..Len(ls) - 1 : 1 # ls[k].at + 1
      BY <3>2
    <3> QED
      BY <2>2, <3>3 DEF Fits
  <2> QED
    BY <2>2, <2>3, FrameFields
<1>11. Len(fs) \in 1..Len(fs)
  BY <1>1, <1>5
<1> QED
  BY <1>1, <1>4, <1>5, <1>6, <1>7, <1>9, <1>10, <1>11

(* A loop has ended and nothing is being unwound.                          *)
LEMMA SeenAnswered ==
  ASSUME NEW fs, NEW n, NEW ls, NEW rp, NEW gs, NEW d, Good(fs, n, Quiet, ls, rp, gs, d),
         rp # NoReply, ls # <<>>
  PROVE  /\ fs \in Seq(Frame) /\ Top(ls).at \in 1..Len(fs) /\ fs[Top(ls).at].kind = "code"
         /\ LiveTopOf(fs, Quiet, ls, d) = Top(ls).at
         /\ OutcomeOf(Quiet, ls, rp, d) = "none"
         /\ BodiesOf(fs, gs, Top(ls).at) = gs
         /\ EndedWell(fs, ls, rp, gs)
<1> DEFINE w == Len(ls)
           m == Top(ls).at
<1>1. /\ fs \in Seq(Frame) /\ ls \in Seq(Activation) /\ gs \in [Generators -> Suspensions]
      /\ Owned(ls, gs, rp) /\ Shape(fs, Quiet, ls, rp, gs)
  BY DEF Good
<1>2. Ended(fs, ls) /\ EndedWell(fs, ls, rp, gs)
  BY <1>1, QuietFields DEF Shape, Unwinds
<1>3. w \in Nat /\ w > 0 /\ Lower(fs, ls, w) /\ m = ls[w].at /\ w \in 1..w
  BY <1>1, <1>2 DEF Ended, Top
<1>4. Ordered(ls, w)
  BY <1>1, <1>3, InOrder
<1>5. m \in Nat /\ m > 0 /\ m <= Len(fs) /\ m \in 1..Len(fs)
  BY <1>1, <1>3, <1>4 DEF Ordered, Lower
<1>6. fs[m].kind = "code"
  <2>1. Fits(fs[m], m, ls, w) /\ fs[m] \in Frame
    BY <1>1, <1>3, <1>5 DEF Lower
  <2>2. ASSUME NEW k \in 1..w PROVE m # ls[k].at + 1
    <3>1. k < w => ls[k].at + 2 <= ls[w].at
      BY <1>3, <1>4 DEF Ordered
    <3>2. ls[k].at \in Nat /\ (k = w \/ k < w)
      BY <1>3, <1>4 DEF Ordered
    <3> QED
      BY <1>3, <1>5, <3>1, <3>2
  <2> QED
    BY <2>1, <2>2, FrameFields DEF Fits
<1>7. LiveTopOf(fs, Quiet, ls, d) = m /\ OutcomeOf(Quiet, ls, rp, d) = "none"
  BY QuietFields DEF LiveTopOf, OutcomeOf
<1>8. ASSUME NEW g \in Generators, gs[g].state = "executing"
      PROVE  \E i \in 1..m : fs[i].gen = g
  <2>1. NoOthers(ls, gs, w)
    BY <1>1 DEF Owned
  <2>2. PICK k \in 1..w : ls[k].call.gen = g
    BY <1>8, <2>1 DEF NoOthers
  <2>3. k # w
    <3>1. Ok # NoReply /\ (ls[w].call.entry = "call" => ls[w].call.gen = Null)
      <4>1. Waits(fs, ls, w)
        BY <1>3 DEF Lower
      <4>2. ls[w].call.gen # Null <=> ls[w].call.entry \in {"next", "throw"}
        BY <4>1 DEF Waits
      <4> QED
        BY <4>2 DEF Ok, NoReply
    <3>2. \/ ls[w].call.entry = "call"
          \/ ls[w].call.gen # Null /\ gs[ls[w].call.gen].state \in {"completed", "yield"}
      BY <1>2 DEF EndedWell
    <3>3. g # Null \/ g = Null
      OBVIOUS
    <3> QED
      BY <1>8, <2>2, <3>1, <3>2, NullAssumption
  <2>4. ls[k].at + 2 <= m /\ ls[k].at \in Nat
    BY <1>3, <1>4, <2>3 DEF Ordered
  <2>5. ls[k].at + 2 \in 1..m /\ ls[k].at + 2 \in DOMAIN fs
    BY <1>1, <1>5, <2>4
  <2>6. Fits(fs[ls[k].at + 2], ls[k].at + 2, ls, w)
    BY <1>3, <2>5 DEF Lower
  <2>7. fs[ls[k].at + 2].gen = g
    BY <2>2, <2>6 DEF Fits
  <2> QED
    BY <2>5, <2>7
<1>9. BodiesOf(fs, gs, m) = gs
  BY <1>1, <1>8, BodiesWhole
<1> QED
  BY <1>1, <1>2, <1>5, <1>6, <1>7, <1>9

-----------------------------------------------------------------------------
(* Exceptions, seen as CallStack sees them.                                *)

(* The first h frames of fs are live in the next state.                    *)
Lands(fs, h) ==
  /\ LiveTopOf(frames', exception', loops', due') = h
  /\ Begins(fs, frames', h)
  /\ OutcomeOf(exception', loops', reply', due') = IF h = 0 THEN "error" ELSE "none"

LEMMA ThrowLands ==
  ASSUME NEW fs, NEW gs, NEW v, Throws(fs, gs, v), NEW r, r = FirstUnwind(fs, v),
         frames' = r.frames, exception' = r.exception,
         due' = IF ~r.exception.unwinding THEN 0 ELSE Handler(fs),
         ~r.exception.unwinding => loops' = Append(Pop(loops), Loop(Len(frames'))),
         loops' \in {Pop(loops), Append(Pop(loops), Loop(Len(frames')))}
  PROVE  Lands(fs, Handler(fs))
<1> DEFINE w == Len(loops) - 1
           h == Handler(fs)
<1>1. fs \in Seq(Frame) /\ loops \in Seq(Activation) /\ v \in Thrown /\ Runs(fs, loops)
  BY DEF Throws
<1>2. w \in Nat /\ loops # <<>> /\ Lower(fs, loops, w) /\ Base(loops, w) <= Len(fs)
  BY <1>1, LoopsBelow
<1>3. ThrownFrom(fs, loops, w, v, r)
  BY <1>1, <1>2, FirstThrow
<1>4. Ordered(loops, w)
  BY <1>1, <1>2, InOrder
<1>5. h \in 0..Len(fs) /\ Base(loops, w) \in Nat /\ Base(loops, w) > 0 /\ Len(fs) \in Nat
  BY <1>1, <1>3, <1>4 DEF ThrownFrom, Ordered
<1>6. Len(Pop(loops)) = w /\ Pop(loops) \in Seq(Activation)
  BY <1>1, <1>2, TopPopped
<1>7. CASE h >= Base(loops, w)
  <2>1. r = CaughtAt(fs, h) /\ h \in 1..Len(fs)
    BY <1>3, <1>5, <1>7 DEF ThrownFrom
  <2>2. r.frames = Caught(fs, h) /\ r.exception = Quiet
    BY <2>1, CaughtFields
  <2>3. Len(Caught(fs, h)) = h /\ Begins(fs, Caught(fs, h), h)
    BY <1>1, <2>1, BlankBegins
  <2>4. loops' = Append(Pop(loops), Loop(h)) /\ frames' = Caught(fs, h) /\ exception' = Quiet
    BY <2>2, <2>3, QuietFields
  <2>5. h \in Nat \ {0}
    BY <1>5, <2>1
  <2>6. Loop(h) \in Activation /\ Loop(h).at = h
    BY <2>5, LoopFields
  <2> HIDE DEF h, w
  <2>7. loops' # <<>> /\ Top(loops') = Loop(h)
    BY <1>6, <2>4, <2>6 DEF Top
  <2>8. /\ LiveTopOf(frames', exception', loops', due') = h
        /\ OutcomeOf(exception', loops', reply', due') = "none"
    BY <2>4, <2>6, <2>7, QuietFields DEF LiveTopOf, OutcomeOf
  <2> QED
    BY <2>3, <2>4, <2>5, <2>8 DEF Lands, h
<1>8. CASE h < Base(loops, w) /\ w > 0
  <2> DEFINE b == Bound(fs, loops, w)
  <2>1. r = Stopped(fs, b, v)
    BY <1>3, <1>8 DEF ThrownFrom
  <2>2. r.frames = SubSeq(fs, 1, b) /\ r.exception.unwinding
    BY <1>1, <2>1, OutcomeFields
  <2>3. loops[w].at \in Nat /\ Base(loops, w) = loops[w].at + 2
    BY <1>4, <1>8 DEF Ordered
  <2>4. b \in {loops[w].at + 1, loops[w].at + 2} /\ b \in Nat /\ b <= Len(fs) /\ h <= b
    <3>1. b \in {loops[w].at + 1, loops[w].at + 2}
      <4> HIDE DEF w
      <4> QED
        BY <1>8 DEF Bound
    <3> HIDE DEF b, h, w
    <3> QED
      BY <1>2, <1>5, <1>8, <2>3, <3>1
  <2> HIDE DEF b, h, w
  <2>5. /\ frames' \in Seq(Frame) /\ Len(frames') = b
        /\ \A i \in 1..b : frames'[i] = fs[i]
    <3>1. frames' = SubSeq(fs, 1, b)
      BY <2>2
    <3> QED
      BY <1>1, <2>4, <3>1
  <2>6. due' = h /\ exception'.unwinding
    BY <2>2 DEF h
  <2>7. Begins(fs, frames', h)
    <3>1. h \in 0..Len(frames') /\ \A i \in 1..h : i \in 1..b
      BY <1>5, <2>4, <2>5
    <3> QED
      BY <2>5, <3>1 DEF Begins
  <2>8. LiveTopOf(frames', exception', loops', due') = h
    <3>1. h # 0 => h \in DOMAIN frames'
      BY <1>5, <2>4, <2>5
    <3> QED
      BY <2>6, <3>1 DEF LiveTopOf
  <2>9. loops' # <<>>
    <3>1. Pop(loops) # <<>>
      BY <1>6, <1>8
    <3>2. Append(Pop(loops), Loop(Len(frames'))) # <<>>
      <4>1. Loop(Len(frames')) \in Activation
        BY <2>3, <2>4, <2>5, LoopFields
      <4>2. Len(Append(Pop(loops), Loop(Len(frames')))) = w + 1
        BY <1>6, <4>1
      <4>3. Len(<<>>) = 0
        OBVIOUS
      <4> QED
        BY <1>2, <4>2, <4>3
    <3> QED
      BY <3>1, <3>2
  <2>10. OutcomeOf(exception', loops', reply', due') = IF h = 0 THEN "error" ELSE "none"
    BY <2>6, <2>9 DEF OutcomeOf
  <2> QED
    BY <2>7, <2>8, <2>10 DEF Lands, h
<1>9. CASE h < Base(loops, w) /\ w = 0
  <2>1. h = 0 /\ r = Lost(v)
    BY <1>3, <1>9 DEF ThrownFrom
  <2>2. frames' = <<>> /\ exception'.unwinding /\ due' = 0
    BY <1>1, <2>1, OutcomeFields
  <2>3. LiveTopOf(frames', exception', loops', due') = 0
    BY <2>2 DEF LiveTopOf
  <2>4. OutcomeOf(exception', loops', reply', due') = "error"
    BY <2>2 DEF OutcomeOf
  <2>5. Begins(fs, frames', 0)
    BY <2>2, NoFrames DEF Begins
  <2> QED
    BY <2>1, <2>3, <2>4, <2>5 DEF Lands
<1>10. \/ h >= Base(loops, w)
       \/ h < Base(loops, w) /\ w > 0
       \/ h < Base(loops, w) /\ w = 0
  <2> HIDE DEF h, w
  <2> QED
    BY <1>2, <1>5
<1> QED
  BY <1>7, <1>8, <1>9, <1>10

LEMMA FailsLands ==
  ASSUME NEW fs, NEW gs, NEW v, Throws(fs, gs, v), NativeFails(fs, Quiet, v)
  PROVE  Lands(fs, Handler(fs))
<1> DEFINE r == FirstUnwind(fs, v)
           w == Len(loops) - 1
<1>1. fs \in Seq(Frame) /\ loops \in Seq(Activation) /\ v \in Thrown /\ Runs(fs, loops)
  BY DEF Throws
<1>2. w \in Nat /\ loops # <<>> /\ Lower(fs, loops, w) /\ Base(loops, w) <= Len(fs)
  BY <1>1, LoopsBelow
<1>3. ThrownFrom(fs, loops, w, v, r)
  BY <1>1, <1>2, FirstThrow
<1> HIDE DEF r
<1>4. /\ exception' = r.exception
      /\ due' = IF ~r.exception.unwinding THEN 0 ELSE Handler(fs)
      /\ r.frames = <<>> => Ends(<<>>, Err(r.exception.current))
      /\ r.frames # <<>> /\ IsSentinel(r.frames, Len(r.frames)) => Ends(r.frames, Ok)
      /\ r.frames # <<>> /\ ~IsSentinel(r.frames, Len(r.frames)) => GoesOn(r.frames)
  <2>1. r = throwException(fs, Quiet, v)
        /\ Due(fs, Quiet, r) = IF ~r.exception.unwinding THEN 0 ELSE Handler(fs)
    BY ThrowFirst DEF r
  <2>2. /\ exception' = r.exception
        /\ due' = Due(fs, Quiet, r)
        /\ IF r.frames = <<>> THEN Ends(<<>>, Err(r.exception.current))
           ELSE IF IsSentinel(r.frames, Len(r.frames)) THEN Ends(r.frames, Ok) ELSE GoesOn(r.frames)
    BY <2>1, Zenon DEF NativeFails
  <2> QED
    BY <2>1, <2>2
<1>5. frames' = r.frames /\ loops' \in {Pop(loops), Append(Pop(loops), Loop(Len(frames')))}
  BY <1>4 DEF Ends, GoesOn
<1>6. ASSUME ~r.exception.unwinding
      PROVE  loops' = Append(Pop(loops), Loop(Len(frames')))
  <2> DEFINE h == Handler(fs)
  <2>1. h >= Base(loops, w) /\ r = CaughtAt(fs, h) /\ h \in 0..Len(fs)
    <3>1. ASSUME h < Base(loops, w) PROVE FALSE
      <4>1. \/ r = Stopped(fs, Bound(fs, loops, w), v)
            \/ r = Lost(v)
        <5> HIDE DEF h, w
        <5> QED
          BY <1>2, <1>3, <3>1 DEF ThrownFrom, h
      <4>2. Lost(v).exception.unwinding /\ \A m : Stopped(fs, m, v).exception.unwinding
        BY <1>1, OutcomeFields
      <4>3. r.exception.unwinding
        BY <4>1, <4>2
      <4> QED
        BY <1>6, <4>3
    <3>2. Base(loops, w) \in Nat /\ h \in 0..Len(fs)
      <4>1. Ordered(loops, w)
        BY <1>1, <1>2, InOrder
      <4> QED
        BY <1>3, <4>1 DEF Ordered, ThrownFrom
    <3>3. h >= Base(loops, w)
      <4> HIDE DEF h, w
      <4> QED
        BY <1>1, <3>1, <3>2
    <3> QED
      BY <1>3, <3>2, <3>3 DEF ThrownFrom
  <2>2. h \in 1..Len(fs)
    <3>1. Ordered(loops, w)
      BY <1>1, <1>2, InOrder
    <3> HIDE DEF h
    <3> QED
      BY <1>1, <2>1, <3>1 DEF Ordered
  <2>3. r.frames = Caught(fs, h)
    BY <2>1, CaughtFields
  <2>4. Caught(fs, h) # <<>> /\ ~IsSentinel(Caught(fs, h), Len(Caught(fs, h)))
    BY <2>1, <2>2, CaughtIsGood
  <2> QED
    BY <1>4, <2>3, <2>4 DEF GoesOn
<1>7. r = FirstUnwind(fs, v)
  BY DEF r
<1> QED
  BY <1>4, <1>5, <1>6, <1>7, ThrowLands

OutcomeNow == IF exception.unwinding /\ due = 0 THEN "error"
              ELSE IF loops = <<>> THEN reply.status ELSE "none"

(* The state before an action of a loop, as CallStack sees it.             *)
LEMMA SeenBefore ==
  ASSUME FramesInv, loops # <<>>, reply = NoReply, exception = Quiet
  PROVE  /\ LiveTop = Len(frames) /\ CallsMade = CallsOf(frames, Len(frames))
         /\ Bodies = generators /\ OutcomeNow = "none"
         /\ frames \in Seq(Frame) /\ Len(frames) \in Nat /\ Len(frames) \in 1..Len(frames)
         /\ Bare(frames) /\ frames[Len(frames)].kind = "code" /\ frames[1].kind = "code"
         /\ Housed(frames, generators) /\ Awake(frames, generators) /\ Alone(frames)
         /\ generators \in [Generators -> Suspensions] /\ Resting(generators)
<1>1. Good(frames, nextRegSlot, Quiet, loops, NoReply, generators, due)
  BY DEF FramesInv
<1>2. Null \notin Generators
  BY NullAssumption
<1>3. /\ frames \in Seq(Frame) /\ Len(frames) \in Nat /\ Len(frames) \in 1..Len(frames)
      /\ Bare(frames) /\ frames[Len(frames)].kind = "code" /\ frames[1].kind = "code"
      /\ LiveTopOf(frames, Quiet, loops, due) = Len(frames)
      /\ OutcomeOf(Quiet, loops, NoReply, due) = "none"
      /\ BodiesOf(frames, generators, Len(frames)) = generators
      /\ Housed(frames, generators) /\ Awake(frames, generators) /\ Alone(frames)
  BY <1>1, <1>2, SeenRunning
<1>4. LiveTop = Len(frames)
  BY <1>3, SeenNow
<1>5. CallsMade = CallsOf(frames, Len(frames)) /\ Bodies = generators
  BY <1>3, <1>4, SeenNow
<1>6. OutcomeNow = "none"
  BY <1>3 DEF OutcomeNow, OutcomeOf
<1>7. generators \in [Generators -> Suspensions] /\ Resting(generators)
  BY <1>1 DEF Good
<1> QED
  BY <1>3, <1>4, <1>5, <1>6, <1>7

(* The script has not ended.                                               *)
LEMMA StackBefore ==
  ASSUME FramesInv, loops # <<>>, reply = NoReply, exception = Quiet
  PROVE  /\ CallsMade \in Seq(CallView) /\ CallsMade # <<>>
         /\ Len(CallsMade) = Rank(frames, Len(frames)) /\ Len(CallsMade) > 0
         /\ CallsMade[Len(CallsMade)].gen = frames[Len(frames)].gen
<1> DEFINE n == Len(frames)
<1>1. /\ CallsMade = CallsOf(frames, n) /\ frames \in Seq(Frame) /\ n \in Nat /\ n \in 1..n
      /\ frames[n].kind = "code"
  BY SeenBefore
<1>2. n \in 0..Len(frames) /\ AtCode(frames, n)
  BY <1>1 DEF AtCode
<1>3. /\ CallsMade \in Seq(CallView)
      /\ Len(CallsMade) = Rank(frames, n)
      /\ Rank(frames, n) \in 1..Rank(frames, n)
      /\ CallsMade[Rank(frames, n)].gen = frames[n].gen
  BY <1>1, <1>2, CallsAre
<1>4. Rank(frames, n) \in Nat
  BY <1>1, RanksGrow
<1> HIDE DEF n
<1>5. Len(CallsMade) > 0
  BY <1>3, <1>4
<1>6. CallsMade # <<>>
  BY <1>3, <1>5
<1> QED
  BY <1>3, <1>5, <1>6 DEF n

(* Frames that differ from those of the machine in whether the top one is  *)
(* in a try block.                                                         *)
Rewound(fs, c) ==
  /\ Begins(frames, fs, Len(frames))
  /\ Len(fs) = Len(frames)
  /\ fs[Len(frames)].covered = c

LEMMA RewoundMirrors ==
  ASSUME FramesInv, loops # <<>>, reply = NoReply, exception = Quiet,
         NEW c \in BOOLEAN, NEW fs, Rewound(fs, c)
  PROVE  /\ fs \in Seq(Frame) /\ Len(fs) = Len(frames) /\ Bare(fs)
         /\ Mirrors(CS!Within(c), fs, Len(fs))
         /\ Housed(fs, generators) /\ Awake(fs, generators) /\ Alone(fs)
<1> DEFINE n == Len(frames)
<1>1. /\ CallsMade = CallsOf(frames, n) /\ frames \in Seq(Frame) /\ n \in Nat /\ n \in 1..n
      /\ Bare(frames) /\ frames[n].kind = "code"
      /\ Housed(frames, generators) /\ Awake(frames, generators) /\ Alone(frames)
  BY SeenBefore
<1>2. Begins(frames, fs, n) /\ Len(fs) = n /\ fs[n].covered = c
  BY DEF Rewound
<1>3. /\ fs \in Seq(Frame)
      /\ \A i \in 1..n : /\ fs[i].kind = frames[i].kind
                         /\ fs[i].gen = frames[i].gen
                         /\ i # n => fs[i].covered = frames[i].covered
  BY <1>2 DEF Begins
<1>4. Mirrors([CallsOf(frames, n) EXCEPT ![Len(CallsOf(frames, n))].covered = c], fs, n)
  BY <1>1, <1>2, WithinMirrors
<1>5. CS!Within(c) = [CallsOf(frames, n) EXCEPT ![Len(CallsOf(frames, n))].covered = c]
  BY <1>1 DEF CS!Within
<1>6. Bare(fs)
  <2>1. ASSUME NEW i \in DOMAIN fs, fs[i].kind = "sentinel"
        PROVE  ~fs[i].covered /\ fs[i].gen = Null
    <3>1. i \in 1..n /\ i \in DOMAIN frames
      BY <1>1, <1>2, <1>3
    <3>2. frames[i].kind = "sentinel" /\ i # n
      BY <1>1, <1>3, <2>1, <3>1
    <3> QED
      BY <1>1, <1>3, <3>1, <3>2 DEF Bare
  <2> QED
    BY <2>1 DEF Bare
<1>7. \A i \in 1..n : fs[i].gen = frames[i].gen
  BY <1>3
<1>8. Housed(fs, generators) /\ Awake(fs, generators) /\ Alone(fs)
  BY <1>1, <1>2, <1>7 DEF Housed, Awake, Alone
<1> QED
  BY <1>2, <1>3, <1>4, <1>5, <1>6, <1>8

LEMMA CompletedIs ==
  ASSUME NEW s \in Suspensions, s.covered = FALSE
  PROVE  [s EXCEPT !.state = "completed"] = [state |-> "completed", covered |-> FALSE]
<1> DEFINE t == [s EXCEPT !.state = "completed"]
<1>1. t \in Suspensions /\ t.state = "completed" /\ t.covered = FALSE
  BY DEF Suspensions
<1> HIDE DEF t
<1>2. t = [state |-> t.state, covered |-> t.covered]
  BY <1>1 DEF Suspensions
<1>3. t = [state |-> "completed", covered |-> FALSE]
  BY <1>1, <1>2
<1> QED
  BY <1>3 DEF t

(* What an exception unwinds: the calls above the handler end, and with    *)
(* them the bodies that are among them.                                    *)
LEMMA RaiseMaps ==
  ASSUME FramesInv, loops # <<>>, reply = NoReply, exception = Quiet,
         NEW c \in BOOLEAN, NEW fs, Rewound(fs, c),
         NEW gs \in [Generators -> Suspensions], Resting(gs),
         \A g \in Generators : gs[g].state = "executing" <=> generators[g].state = "executing",
         generators' = gs, Lands(fs, Handler(fs))
  PROVE  CS!Unwound(CS!Within(c), gs)
<1> DEFINE W == CS!Within(c)
           h == Handler(fs)
           k == Catching(W)
           n == Len(fs)
<1>1. /\ fs \in Seq(Frame) /\ Bare(fs) /\ Mirrors(W, fs, n)
      /\ Housed(fs, generators) /\ Awake(fs, generators) /\ Alone(fs)
  BY RewoundMirrors
<1>2. h \in 0..n /\ AtCode(fs, h) /\ k = Rank(fs, h) /\ n \in Nat
  BY <1>1, HandlerRank
<1>3. /\ LiveTop' = h /\ Begins(fs, frames', h)
      /\ OutcomeOf(exception', loops', reply', due') = IF h = 0 THEN "error" ELSE "none"
  BY SeenNext DEF Lands
<1> HIDE DEF W, h, n
<1>4. CallsMade' = CS!BackTo(W, k)
  <2>1. n \in 0..Len(fs) /\ h \in 0..n
    BY <1>2 DEF n
  <2>2. CS!BackTo(W, Rank(fs, h)) = CallsOf(frames', h)
    BY <1>1, <1>2, <1>3, <2>1, CallsCut DEF n
  <2> QED
    BY <1>2, <1>3, <2>2, SeenNext
<1>5. k = 0 <=> h = 0
  <2>1. h = 0 => k = 0
    BY <1>2, RankZero
  <2>2. h # 0 => Rank(fs, h) > 0
    <3>1. h # 0 => fs[h].kind # "sentinel" /\ h \in 1..n
      BY <1>2 DEF AtCode
    <3> QED
      BY <1>2, <3>1, CodeRanks
  <2> QED
    BY <1>2, <2>1, <2>2
<1>6. Bodies' = BodiesOf(fs, gs, h)
  <2>1. Bodies' = BodiesOf(frames', gs, h)
    BY <1>3, SeenNext
  <2>2. h \in Nat /\ \A i \in 1..h : frames'[i].gen = fs[i].gen
    BY <1>2, <1>3 DEF Begins
  <2> QED
    BY <2>1, <2>2, BodiesAlike
<1>7. ASSUME NEW g \in Generators
      PROVE  Lapsed(fs, gs, h, g) <=> \E i \in DOMAIN W : i > k /\ W[i].gen = g
  <2>1. g # Null
    BY NullAssumption
  <2>2. (\E i \in DOMAIN W : i > k /\ W[i].gen = g) <=> \E i \in 1..n : i > h /\ fs[i].gen = g
    <3>1. OnCalls(W, k, g) <=> OnFrames(fs, h, g)
      <4>1. h \in 0..Len(fs) /\ Mirrors(W, fs, Len(fs))
        BY <1>1, <1>2 DEF n
      <4>2. OnCalls(W, Rank(fs, h), g) <=> OnFrames(fs, h, g)
        BY <1>1, <2>1, <4>1, GensAbove
      <4> QED
        BY <1>2, <4>2
    <3> HIDE DEF k
    <3> QED
      BY <3>1 DEF n, OnCalls, OnFrames
  <2>3. ASSUME Lapsed(fs, gs, h, g) PROVE \E i \in 1..n : i > h /\ fs[i].gen = g
    <3>1. generators[g].state = "executing" /\ \A i \in 1..h : fs[i].gen # g
      BY <2>3 DEF Lapsed
    <3>2. PICK i \in 1..n : fs[i].gen = g
      BY <1>1, <3>1 DEF Housed, n
    <3> QED
      BY <1>2, <3>1, <3>2
  <2>4. ASSUME NEW i \in 1..n, i > h, fs[i].gen = g PROVE Lapsed(fs, gs, h, g)
    <3>1. gs[g].state = "executing"
      BY <1>1, <2>4 DEF Awake, n
    <3>2. ASSUME NEW j \in 1..h, fs[j].gen = g PROVE FALSE
      <4>1. j \in 1..n /\ i # j
        BY <1>2, <2>4
      <4> QED
        BY <1>1, <2>1, <2>4, <3>2, <4>1 DEF Alone, n
    <3> QED
      BY <3>1, <3>2 DEF Lapsed
  <2> QED
    BY <2>2, <2>3, <2>4
<1>8. ASSUME NEW g \in Generators, Lapsed(fs, gs, h, g)
      PROVE  [gs[g] EXCEPT !.state = "completed"] = [state |-> "completed", covered |-> FALSE]
  <2>1. gs[g] \in Suspensions /\ gs[g].state = "executing"
    BY <1>8 DEF Lapsed
  <2>2. gs[g].covered = FALSE
    BY <2>1 DEF Resting, Suspensions
  <2> QED
    BY <2>1, <2>2, CompletedIs
<1>9. Bodies' = [g \in Generators |->
                   IF \E i \in DOMAIN W : i > k /\ W[i].gen = g
                   THEN [state |-> "completed", covered |-> FALSE] ELSE gs[g]]
  BY <1>6, <1>7, <1>8 DEF BodiesOf
<1>10. OutcomeNow' = IF k = 0 THEN "error" ELSE OutcomeNow
  <2>1. OutcomeNow = "none"
    BY SeenBefore
  <2>2. OutcomeNow' = OutcomeOf(exception', loops', reply', due')
    BY DEF OutcomeNow, OutcomeOf
  <2> QED
    BY <1>3, <1>5, <2>1, <2>2
<1> HIDE DEF k
<1>11. CS!Unwound(W, gs)
  BY <1>4, <1>9, <1>10 DEF CS!Unwound, Catching, OutcomeNow, k
<1> QED
  BY <1>11 DEF W

-----------------------------------------------------------------------------
(* Calls and returns, seen as CallStack sees them.                         *)

LEMMA SeenAfter ==
  ASSUME FramesInv', reply' = NoReply, exception' = Quiet
  PROVE  /\ LiveTop' = Len(frames') /\ CallsMade' = CallsOf(frames', Len(frames'))
         /\ Bodies' = generators' /\ OutcomeNow' = "none"
         /\ frames' \in Seq(Frame) /\ Len(frames') \in Nat
         /\ frames'[Len(frames')].kind = "code"
<1>1. Good(frames', nextRegSlot', Quiet, loops', NoReply, generators', due')
  BY DEF FramesInv
<1>2. Null \notin Generators
  BY NullAssumption
<1>3. /\ frames' \in Seq(Frame) /\ Len(frames') \in Nat
      /\ frames'[Len(frames')].kind = "code"
      /\ LiveTopOf(frames', Quiet, loops', due') = Len(frames')
      /\ OutcomeOf(Quiet, loops', NoReply, due') = "none"
      /\ BodiesOf(frames', generators', Len(frames')) = generators'
  BY <1>1, <1>2, SeenRunning
<1>4. LiveTop' = Len(frames')
  BY <1>3, SeenNext
<1>5. CallsMade' = CallsOf(frames', Len(frames')) /\ Bodies' = generators'
  BY <1>3, <1>4, SeenNext
<1>6. OutcomeNow' = "none"
  BY <1>3 DEF OutcomeNow, OutcomeOf
<1> QED
  BY <1>3, <1>4, <1>5, <1>6

LEMMA SeenAnsweredAfter ==
  ASSUME FramesInv', reply' # NoReply, exception' = Quiet, loops' # <<>>
  PROVE  /\ LiveTop' = Top(loops').at /\ CallsMade' = CallsOf(frames', LiveTop')
         /\ Bodies' = generators' /\ OutcomeNow' = "none"
         /\ frames' \in Seq(Frame) /\ LiveTop' \in 1..Len(frames')
         /\ frames'[LiveTop'].kind = "code"
         /\ EndedWell(frames', loops', reply', generators')
<1>1. Good(frames', nextRegSlot', Quiet, loops', reply', generators', due')
  BY DEF FramesInv
<1>2. /\ frames' \in Seq(Frame) /\ Top(loops').at \in 1..Len(frames')
      /\ frames'[Top(loops').at].kind = "code"
      /\ LiveTopOf(frames', Quiet, loops', due') = Top(loops').at
      /\ OutcomeOf(Quiet, loops', reply', due') = "none"
      /\ BodiesOf(frames', generators', Top(loops').at) = generators'
      /\ EndedWell(frames', loops', reply', generators')
  BY <1>1, SeenAnswered
<1>3. LiveTop' = Top(loops').at
  BY <1>2, SeenNext
<1>4. CallsMade' = CallsOf(frames', LiveTop') /\ Bodies' = generators'
  BY <1>2, <1>3, SeenNext
<1>5. OutcomeNow' = "none"
  BY <1>2 DEF OutcomeNow, OutcomeOf
<1> QED
  BY <1>2, <1>3, <1>4, <1>5

LEMMA SeenAnsweredBefore ==
  ASSUME FramesInv, reply # NoReply, exception = Quiet, loops # <<>>
  PROVE  /\ LiveTop = Top(loops).at /\ CallsMade = CallsOf(frames, LiveTop)
         /\ Bodies = generators /\ OutcomeNow = "none"
         /\ frames \in Seq(Frame) /\ LiveTop \in 1..Len(frames)
         /\ frames[LiveTop].kind = "code"
         /\ EndedWell(frames, loops, reply, generators)
<1>1. Good(frames, nextRegSlot, Quiet, loops, reply, generators, due)
  BY DEF FramesInv
<1>2. /\ frames \in Seq(Frame) /\ Top(loops).at \in 1..Len(frames)
      /\ frames[Top(loops).at].kind = "code"
      /\ LiveTopOf(frames, Quiet, loops, due) = Top(loops).at
      /\ OutcomeOf(Quiet, loops, reply, due) = "none"
      /\ BodiesOf(frames, generators, Top(loops).at) = generators
      /\ EndedWell(frames, loops, reply, generators)
  BY <1>1, SeenAnswered
<1>3. LiveTop = Top(loops).at
  BY <1>2, SeenNow
<1>4. CallsMade = CallsOf(frames, LiveTop) /\ Bodies = generators
  BY <1>2, <1>3, SeenNow
<1>5. OutcomeNow = "none"
  BY <1>2 DEF OutcomeNow, OutcomeOf
<1> QED
  BY <1>2, <1>3, <1>4, <1>5

LEMMA AtIsRewound ==
  ASSUME FramesInv, loops # <<>>, reply = NoReply, exception = Quiet
  PROVE  /\ \A c \in BOOLEAN : Rewound(At(c), c)
         /\ frames[Len(frames)].covered \in BOOLEAN
         /\ Rewound(frames, frames[Len(frames)].covered)
<1>1. frames \in Seq(Frame) /\ Len(frames) \in Nat /\ Len(frames) \in 1..Len(frames)
  BY SeenBefore
<1>2. frames[Len(frames)] \in Frame
  BY <1>1
<1>3. frames[Len(frames)].covered \in BOOLEAN
  BY <1>2, FrameFields
<1>4. ASSUME NEW c \in BOOLEAN PROVE Rewound(At(c), c)
  <2>1. /\ Covering(frames, c) \in Seq(Frame)
        /\ Len(Covering(frames, c)) = Len(frames)
        /\ \A i \in 1..Len(frames) : i # Len(frames) => Covering(frames, c)[i] = frames[i]
        /\ Covering(frames, c)[Len(frames)] = [frames[Len(frames)] EXCEPT !.covered = c]
    BY <1>1, CoveringIs
  <2>2. At(c) = Covering(frames, c)
    BY DEF At, Covering
  <2> DEFINE fs == Covering(frames, c)
             n  == Len(frames)
  <2>3. /\ fs[n].kind = frames[n].kind /\ fs[n].gen = frames[n].gen
        /\ fs[n].covered = c
    BY <1>2, <2>1, BlankCovers
  <2> HIDE DEF fs
  <2>4. ASSUME NEW i \in 1..n
        PROVE  /\ fs[i].kind = frames[i].kind /\ fs[i].gen = frames[i].gen
               /\ i # n => fs[i].covered = frames[i].covered
    BY <2>1, <2>3 DEF fs
  <2>5. Begins(frames, fs, n)
    <3>1. fs \in Seq(Frame) /\ n \in 0..Len(fs)
      BY <1>1, <2>1 DEF fs
    <3> QED
      BY <2>4, <3>1 DEF Begins
  <2> QED
    BY <2>1, <2>2, <2>3, <2>5 DEF Rewound, fs
<1>5. Rewound(frames, frames[Len(frames)].covered)
  <2>1. Begins(frames, frames, Len(frames))
    BY <1>1 DEF Begins
  <2> QED
    BY <2>1 DEF Rewound
<1> QED
  BY <1>3, <1>4, <1>5

(* A frame is pushed, on a sentinel or not.                                *)
LEMMA EnterMaps ==
  ASSUME FramesInv, loops # <<>>, reply = NoReply, exception = Quiet,
         FramesInv', reply' = NoReply, exception' = Quiet,
         NEW c \in BOOLEAN, NEW fs, Rewound(fs, c),
         NEW m \in {Len(fs) + 1, Len(fs) + 2}, Len(frames') = m,
         \A i \in 1..Len(fs) : frames'[i] = fs[i],
         m = Len(fs) + 2 => frames'[Len(fs) + 1].kind = "sentinel"
  PROVE  /\ CallsMade' = Append(CS!Within(c), CS!Active(frames'[m].gen))
         /\ Bodies' = generators' /\ OutcomeNow' = OutcomeNow
<1>1. fs \in Seq(Frame) /\ Mirrors(CS!Within(c), fs, Len(fs))
  BY RewoundMirrors
<1>2. /\ CallsMade' = CallsOf(frames', m) /\ Bodies' = generators' /\ OutcomeNow' = "none"
      /\ frames' \in Seq(Frame) /\ frames'[m].kind = "code"
  BY SeenAfter
<1>3. OutcomeNow = "none"
  BY SeenBefore
<1>4. Append(CS!Within(c), [gen |-> frames'[m].gen, covered |-> FALSE]) = CallsOf(frames', m)
  BY <1>1, <1>2, CallsGrow
<1>5. CS!Active(frames'[m].gen) = [gen |-> frames'[m].gen, covered |-> FALSE]
  BY DEF CS!Active
<1> QED
  BY <1>2, <1>3, <1>4, <1>5

(* The innermost call ends.                                                *)
LEMMA LeaveMaps ==
  ASSUME FramesInv, loops # <<>>, reply = NoReply, exception = Quiet,
         NEW m \in 0..Len(frames) - 1, LiveTop' = m, Begins(frames, frames', m),
         AtCode(frames, m),
         m = Len(frames) - 1 \/ (m = Len(frames) - 2 /\ frames[m + 1].kind = "sentinel")
  PROVE  /\ CallsMade' = CS!BackTo(CallsMade, Len(CallsMade) - 1)
         /\ Len(CallsMade) = Rank(frames, m) + 1
<1> DEFINE n == Len(frames)
           f == Caught(frames, n)
           s == CallsMade
<1>1. /\ CallsMade = CallsOf(frames, n) /\ frames \in Seq(Frame) /\ n \in Nat /\ n \in 1..n
      /\ frames[n].kind = "code"
  BY SeenBefore
<1>2. Begins(frames, f, n) /\ ~f[n].covered /\ f \in Seq(Frame) /\ Len(f) = n
  BY <1>1, BlankBegins
<1>3. AtCode(frames, n)
  BY <1>1 DEF AtCode
<1>4. Mirrors(s, f, n)
  BY <1>1, <1>2, <1>3, CallsMirror
<1>5. m \in Nat /\ m < n /\ m \in 0..n
  BY <1>1
<1> HIDE DEF f, n
<1>6. Begins(f, frames', m) /\ AtCode(f, m)
  <2>1. /\ frames' \in Seq(Frame) /\ m \in 0..Len(frames')
        /\ \A i \in 1..m : /\ frames'[i].kind = frames[i].kind
                           /\ frames'[i].gen = frames[i].gen
                           /\ i # m => frames'[i].covered = frames[i].covered
    BY DEF Begins
  <2>2. \A i \in 1..n : /\ f[i].kind = frames[i].kind
                        /\ f[i].gen = frames[i].gen
                        /\ i # n => f[i].covered = frames[i].covered
    BY <1>2 DEF Begins
  <2>3. \A i \in 1..m : i \in 1..n /\ i # n
    BY <1>1, <1>5
  <2>4. Begins(f, frames', m)
    BY <2>1, <2>2, <2>3 DEF Begins
  <2>5. m > 0 => m \in 1..m
    BY <1>5
  <2> QED
    BY <2>2, <2>3, <2>4, <2>5 DEF AtCode
<1>7. \A i \in 0..n : Rank(f, i) = Rank(frames, i)
  BY <1>2, RanksBegin
<1>8. Rank(frames, n) = Rank(frames, m) + 1
  <2>1. CASE m = n - 1
    <3>1. n = m + 1 /\ frames[m + 1].kind # "sentinel"
      BY <1>1, <1>5, <2>1
    <3> QED
      BY <1>5, <3>1, RankStep
  <2>2. CASE m = n - 2 /\ frames[m + 1].kind = "sentinel"
    <3>1. m + 1 \in Nat /\ n = m + 1 + 1
      BY <1>1, <1>5, <2>2
    <3>2. Rank(frames, m + 1) = Rank(frames, m)
      BY <1>5, <2>2, RankStep
    <3>3. frames[m + 1 + 1].kind # "sentinel"
      BY <1>1, <3>1
    <3>4. Rank(frames, m + 1 + 1) = Rank(frames, m + 1) + 1
      BY <3>1, <3>3, RankStep
    <3> QED
      BY <3>1, <3>2, <3>4
  <2> QED
    BY <2>1, <2>2 DEF n
<1>9. Len(s) = Rank(frames, n) /\ Rank(frames, m) \in Nat
  BY <1>1, <1>4, <1>5, <1>7, RanksGrow DEF Mirrors
<1>10. CS!BackTo(s, Rank(frames, m)) = CallsOf(frames', m)
  <2>1. n \in 0..Len(f) /\ Mirrors(s, f, n) /\ m \in 0..n
    BY <1>1, <1>2, <1>4, <1>5
  <2>2. CS!BackTo(s, Rank(f, m)) = CallsOf(frames', m)
    BY <1>2, <1>6, <2>1, CallsCut
  <2> QED
    BY <1>5, <1>7, <2>2
<1>11. CallsMade' = CallsOf(frames', m)
  BY SeenNext
<1>12. Len(s) - 1 = Rank(frames, m) /\ Len(s) = Rank(frames, m) + 1
  BY <1>8, <1>9
<1> QED
  BY <1>10, <1>11, <1>12

(* Nothing changes for the calls.                                          *)
LEMMA StutterMaps ==
  ASSUME frames \in Seq(Frame), NEW m \in 0..Len(frames), LiveTop = m, LiveTop' = m,
         AtCode(frames, m), Begins(frames, frames', m)
  PROVE  /\ CallsMade' = CallsMade
         /\ BodiesOf(frames, generators', m) = BodiesOf(frames, generators, m) =>
              Bodies' = Bodies
<1>1. CallsOf(frames', m) = CallsOf(frames, m)
  BY CallsAlike
<1>2. CallsMade' = CallsMade
  BY <1>1, SeenNow, SeenNext
<1>3. m \in Nat /\ \A i \in 1..m : frames'[i].gen = frames[i].gen
  BY DEF Begins
<1>4. BodiesOf(frames', generators', m) = BodiesOf(frames, generators', m)
  BY <1>3, BodiesAlike
<1>5. Bodies' = BodiesOf(frames', generators', m) /\ Bodies = BodiesOf(frames, generators, m)
  BY SeenNow, SeenNext
<1> QED
  BY <1>2, <1>4, <1>5

-----------------------------------------------------------------------------
(* Each action is a step of CallStack, or none.                            *)

Still == CallsMade' = CallsMade /\ Bodies' = Bodies /\ OutcomeNow' = OutcomeNow

Seen == CS!CSNext \/ Still

(* The same calls are active, and nothing is in flight.                    *)
LEMMA StaysMaps ==
  ASSUME FramesInv, loops # <<>>, reply = NoReply, exception = Quiet,
         FramesInv', reply' = NoReply, exception' = Quiet,
         Len(frames') = Len(frames), Begins(frames, frames', Len(frames))
  PROVE  /\ CallsMade' = CallsMade /\ OutcomeNow' = OutcomeNow
         /\ Bodies = generators /\ Bodies' = generators'
<1>1. /\ LiveTop = Len(frames) /\ OutcomeNow = "none" /\ Bodies = generators
      /\ frames \in Seq(Frame) /\ Len(frames) \in Nat /\ frames[Len(frames)].kind = "code"
  BY SeenBefore
<1>2. LiveTop' = Len(frames') /\ OutcomeNow' = "none" /\ Bodies' = generators'
  BY SeenAfter
<1>3. Len(frames) \in 0..Len(frames) /\ AtCode(frames, Len(frames))
  BY <1>1 DEF AtCode
<1>4. CallsMade' = CallsMade
  BY <1>1, <1>2, <1>3, StutterMaps
<1> QED
  BY <1>1, <1>2, <1>4

LEMMA CallSeen ==
  ASSUME Plain, FramesInv, FramesInv', NEW size \in Sizes, NEW c \in BOOLEAN, Call(size, c)
  PROVE  Seen
<1> DEFINE fs == At(c)
           e  == Code(nextRegSlot, size)
           f  == [e EXCEPT !.direct = FALSE]
           m  == Len(fs) + 1
<1>1. /\ Calling /\ frames' = Append(fs, f)
      /\ generators' = generators /\ exception' = exception /\ reply' = reply
  BY DEF Call, prepareCall
<1>2. loops # <<>> /\ reply = NoReply /\ exception = Quiet
  BY <1>1, CallingIs
<1>3. Rewound(fs, c) /\ fs \in Seq(Frame)
  BY <1>2, AtIsRewound, RewoundMirrors
<1>4. f \in Frame /\ f.gen = Null
  <2>1. nextRegSlot \in Nat /\ size \in Nat
    BY <1>2, RunningIs, WindowsAssumption
  <2>2. e \in Frame /\ e.gen = Null
    BY <2>1, CodeFields
  <2> HIDE DEF e
  <2> QED
    BY <2>2, DirectFields
<1> HIDE DEF fs, f
<1>5. /\ Len(frames') = m /\ frames'[m] = f
      /\ \A i \in 1..Len(fs) : frames'[i] = fs[i]
  BY <1>1, <1>3, <1>4
<1>6. m \in {Len(fs) + 1, Len(fs) + 2} /\ m # Len(fs) + 2
  BY <1>3
<1> HIDE DEF m
<1>7. /\ CallsMade' = Append(CS!Within(c), CS!Active(Null))
      /\ Bodies' = Bodies /\ OutcomeNow' = OutcomeNow
  <2>1. reply' = NoReply /\ exception' = Quiet
    BY <1>1, <1>2
  <2>2. /\ CallsMade' = Append(CS!Within(c), CS!Active(frames'[m].gen))
        /\ Bodies' = generators' /\ OutcomeNow' = OutcomeNow
    BY <1>2, <1>3, <1>5, <1>6, <2>1, EnterMaps
  <2>3. Bodies = generators
    BY <1>2, SeenBefore
  <2> QED
    BY <1>1, <1>4, <1>5, <2>2, <2>3
<1>8. CS!Enter(c)
  BY <1>7 DEF CS!Enter, OutcomeNow
<1>9. CallsMade # <<>>
  BY <1>2, StackBefore
<1> QED
  BY <1>8, <1>9 DEF Seen, CS!CSNext

LEMMA CallBackSeen ==
  ASSUME Plain, FramesInv, FramesInv', NEW size \in Sizes, CallBack(size)
  PROVE  Seen
<1> DEFINE e == Code(nextRegSlot, size)
           f == [e EXCEPT !.direct = TRUE]
           c == frames[Len(frames)].covered
           fs2 == Append(Append(frames, Sentinel), f)
           m == Len(frames) + 2
<1>1. /\ InNative
      /\ exception' = IF exception.unwinding /\ exception.current = Null THEN Quiet ELSE exception
      /\ frames' = fs2
      /\ generators' = generators /\ reply' = reply
  BY DEF CallBack, prepareCall
<1>2. /\ loops # <<>> /\ reply = NoReply /\ exception = Quiet
  BY <1>1, InNativeIs
<1>3. Rewound(frames, c) /\ frames \in Seq(Frame) /\ c \in BOOLEAN
  BY <1>2, AtIsRewound, RewoundMirrors
<1>4. f \in Frame /\ f.gen = Null
  <2>1. nextRegSlot \in Nat /\ size \in Nat
    BY <1>2, RunningIs, WindowsAssumption
  <2>2. e \in Frame /\ e.gen = Null
    BY <2>1, CodeFields
  <2> HIDE DEF e
  <2> QED
    BY <2>2, DirectFields
<1> HIDE DEF f, c
<1>5. Topped(frames, fs2, f)
  BY <1>3, <1>4, ToppedIs
<1> HIDE DEF fs2
<1>6. /\ Len(frames') = m /\ frames'[m] = f /\ frames'[Len(frames) + 1].kind = "sentinel"
      /\ \A i \in 1..Len(frames) : frames'[i] = frames[i]
  BY <1>1, <1>5, SentinelFields DEF Topped
<1>7. m \in {Len(frames) + 1, Len(frames) + 2}
  OBVIOUS
<1> HIDE DEF m
<1>8. /\ CallsMade' = Append(CS!Within(c), CS!Active(Null))
      /\ Bodies' = Bodies /\ OutcomeNow' = OutcomeNow
  <2>1. reply' = NoReply /\ exception' = Quiet
    BY <1>1, <1>2
  <2>2. /\ CallsMade' = Append(CS!Within(c), CS!Active(frames'[m].gen))
        /\ Bodies' = generators' /\ OutcomeNow' = OutcomeNow
    BY <1>2, <1>3, <1>6, <1>7, <2>1, EnterMaps
  <2>3. Bodies = generators
    BY <1>2, SeenBefore
  <2> QED
    BY <1>1, <1>4, <1>6, <2>2, <2>3
<1>9. CS!Enter(c)
  BY <1>8 DEF CS!Enter, OutcomeNow
<1>10. CallsMade # <<>>
  BY <1>2, StackBefore
<1> QED
  BY <1>3, <1>9, <1>10 DEF Seen, CS!CSNext

LEMMA CallNativeSeen ==
  ASSUME Plain, FramesInv, FramesInv', NEW native \in Natives, NEW c \in BOOLEAN,
         CallNative(native, c)
  PROVE  Seen
<1>1. /\ Unhindered /\ frames' = At(c) /\ generators' = generators
      /\ exception' = exception /\ reply' = reply
  BY DEF CallNative
<1>2. loops # <<>> /\ reply = NoReply /\ exception = Quiet
  BY <1>1, UnhinderedIs
<1>3. Rewound(At(c), c)
  BY <1>2, AtIsRewound
<1>4. Len(frames') = Len(frames) /\ Begins(frames, frames', Len(frames))
      /\ reply' = NoReply /\ exception' = Quiet
  BY <1>1, <1>2, <1>3 DEF Rewound
<1> QED
  BY <1>1, <1>2, <1>4, StaysMaps DEF Seen, Still

(* A native call returns: nothing changes for the calls.                   *)
LEMMA SucceedsMaps ==
  ASSUME FramesInv, loops # <<>>, reply = NoReply, exception = Quiet, FramesInv',
         NEW c \in BOOLEAN, NEW fs, Rewound(fs, c), NativeSucceeds(fs, Quiet)
  PROVE  /\ CallsMade' = CallsMade /\ OutcomeNow' = OutcomeNow
         /\ Bodies = generators /\ Bodies' = generators'
<1>1. exception' = Quiet /\ frames' = fs /\ reply' = NoReply
  BY QuietFields DEF NativeSucceeds
<1>2. Len(frames') = Len(frames) /\ Begins(frames, frames', Len(frames))
  BY <1>1 DEF Rewound
<1> QED
  BY <1>1, <1>2, StaysMaps

LEMMA NativeReturnsSeen ==
  ASSUME Plain, FramesInv, FramesInv', NativeReturns
  PROVE  Seen
<1>1. InNative /\ NativeSucceeds(frames, exception) /\ generators' = generators
  BY DEF NativeReturns
<1>2. loops # <<>> /\ reply = NoReply /\ exception = Quiet
  BY <1>1, InNativeIs
<1>3. Rewound(frames, frames[Len(frames)].covered) /\ frames[Len(frames)].covered \in BOOLEAN
  BY <1>2, AtIsRewound
<1>4. NativeSucceeds(frames, Quiet)
  BY <1>1, <1>2
<1> QED
  BY <1>1, <1>2, <1>3, <1>4, SucceedsMaps DEF Seen, Still

LEMMA TailCallSeen ==
  ASSUME Plain, FramesInv, FramesInv', NEW size \in Sizes, TailCall(size)
  PROVE  Seen
<1> DEFINE n == Len(frames)
           f == frames[n]
<1>1. /\ Calling /\ f.gen = Null /\ generators' = generators
      /\ exception' = exception /\ reply' = reply
      /\ nextRegSlot' = nextRegSlot \/ nextRegSlot' = nextRegSlot - f.alloc + size
  BY DEF TailCall, Top
<1>2. loops # <<>> /\ reply = NoReply /\ exception = Quiet
  BY <1>1, CallingIs
<1>3. /\ frames \in Seq(Frame) /\ n \in Nat /\ n \in 1..n /\ f.kind = "code" /\ f \in Frame
  BY <1>2, SeenBefore
<1>4. reply' = NoReply /\ exception' = Quiet
  BY <1>1, <1>2
<1>5. size \in Nat /\ f.base \in Nat /\ f.alloc \in Nat
  BY <1>3, WindowsAssumption, FrameFields
<1> HIDE DEF f, n
<1>6. ASSUME NEW f2 \in Frame, f2.kind = "code", f2.gen = Null,
              frames' = [frames EXCEPT ![n] = f2]
       PROVE  Seen
  <2>1. frames' \in Seq(Frame) /\ Len(frames') = n
    BY <1>3, <1>6, ExceptSeq DEF n
  <2>2. \A i \in 1..n : /\ frames'[i].kind = frames[i].kind
                        /\ frames'[i].gen = frames[i].gen
                        /\ i # n => frames'[i].covered = frames[i].covered
    <3>1. \A i \in 1..n : i # n => frames'[i] = frames[i]
      BY <1>3, <1>6 DEF n
    <3>2. frames'[n] = f2
      BY <1>3, <1>6 DEF n
    <3> QED
      BY <1>1, <1>3, <1>6, <3>1, <3>2 DEF f
  <2>3. n \in 0..Len(frames')
    BY <1>3, <2>1
  <2>4. Begins(frames, frames', n)
    BY <2>1, <2>2, <2>3 DEF Begins
  <2>5. CallsMade' = CallsMade /\ OutcomeNow' = OutcomeNow
        /\ Bodies = generators /\ Bodies' = generators'
    BY <1>2, <1>4, <2>1, <2>4, StaysMaps DEF n
  <2> QED
    BY <1>1, <2>5 DEF Seen, Still
<1>7. CASE size > f.alloc
  <2> DEFINE base == nextRegSlot - f.alloc
             f2 == Code(base, size)
  <2>1. frames' = [frames EXCEPT ![n] = f2] /\ nextRegSlot' = base + size
    BY <1>7 DEF TailCall, Top, f, n
  <2>2. base \in Nat
    <3>1. /\ f.base + f.alloc <= nextRegSlot /\ nextRegSlot \in Nat
      BY <1>2, <1>3, RunningIs DEF Windows, f, n
    <3> QED
      BY <1>5, <3>1
  <2> HIDE DEF base
  <2>3. f2 \in Frame /\ f2.kind = "code" /\ f2.gen = Null
    BY <1>5, <2>2, CodeFields
  <2> QED
    BY <1>6, <2>1, <2>3
<1>8. CASE ~(size > f.alloc)
  <2> DEFINE e  == Code(f.base, size)
             f2 == [e EXCEPT !.alloc = f.alloc]
  <2>1. frames' = [frames EXCEPT ![n] = f2]
    BY <1>8 DEF TailCall, Top, f, n
  <2>2. e \in Frame /\ e.kind = "code" /\ e.gen = Null
    BY <1>5, CodeFields
  <2> HIDE DEF e
  <2>3. f2 \in Frame /\ f2.kind = "code" /\ f2.gen = Null
    BY <1>5, <2>2, AllocFields
  <2> QED
    BY <1>6, <2>1, <2>3
<1> QED
  BY <1>7, <1>8

(* An exception arrives at its handler, or ends the script.                *)
LEMMA RaiseSeen ==
  ASSUME FramesInv, loops # <<>>, reply = NoReply, exception = Quiet,
         NEW c \in BOOLEAN, NEW fs, Rewound(fs, c),
         generators' = generators, Lands(fs, Handler(fs))
  PROVE  Seen
<1>1. Bodies = generators /\ generators \in [Generators -> Suspensions] /\ Resting(generators)
  BY SeenBefore
<1>2. CS!Unwound(CS!Within(c), generators)
  BY <1>1, RaiseMaps
<1>3. CS!Raise(c)
  BY <1>1, <1>2 DEF CS!Raise
<1>4. CallsMade # <<>>
  BY StackBefore
<1> QED
  BY <1>3, <1>4 DEF Seen, CS!CSNext

LEMMA FailsSeen ==
  ASSUME FramesInv, loops # <<>>, reply = NoReply, exception = Quiet,
         NEW c \in BOOLEAN, NEW fs, Rewound(fs, c),
         generators' = generators, NEW v, Throws(fs, generators, v), NativeFails(fs, Quiet, v)
  PROVE  Seen
<1>1. Lands(fs, Handler(fs))
  BY FailsLands
<1> QED
  BY <1>1, RaiseSeen

LEMMA ThrowSeen ==
  ASSUME Plain, FramesInv, NEW v \in Values, NEW c \in BOOLEAN, Throw(v, c)
  PROVE  Seen
<1> DEFINE fs == At(c)
           r  == FirstUnwind(fs, v)
<1>1. loops # <<>> /\ reply = NoReply /\ exception = Quiet
  <2>1. loops # <<>> /\ reply = NoReply /\ ~exception.unwinding
    BY DEF Throw, Instruction, Running, InScript, Plain
  <2> QED
    BY <2>1, RunningIs
<1>2. Throws(fs, generators, v) /\ Rewound(fs, c)
  BY <1>1, AtThrows, AtIsRewound DEF Thrown
<1>3. /\ exception' = r.exception
      /\ due' = IF ~r.exception.unwinding THEN 0 ELSE Handler(fs)
      /\ r.exception.unwinding => Ends(r.frames, Err(r.exception.current))
      /\ ~r.exception.unwinding => GoesOn(r.frames)
      /\ generators' = generators
  <2>1. r = throwException(At(c), exception, v)
        /\ Due(fs, exception, r) = IF ~r.exception.unwinding THEN 0 ELSE Handler(fs)
    BY <1>1, ThrowFirst
  <2> HIDE DEF r
  <2> QED
    BY <2>1 DEF Throw
<1> HIDE DEF r, fs
<1>4. /\ frames' = r.frames
      /\ loops' \in {Pop(loops), Append(Pop(loops), Loop(Len(frames')))}
      /\ ~r.exception.unwinding => loops' = Append(Pop(loops), Loop(Len(frames')))
  BY <1>3 DEF Ends, GoesOn
<1>5. r = FirstUnwind(fs, v)
  BY DEF r
<1>6. Lands(fs, Handler(fs))
  BY <1>2, <1>3, <1>4, <1>5, ThrowLands
<1> QED
  BY <1>1, <1>2, <1>3, <1>6, RaiseSeen

LEMMA NativeThrowsSeen ==
  ASSUME Plain, FramesInv, NEW v \in Values, NativeThrows(v)
  PROVE  Seen
<1>1. InNative /\ NativeFails(frames, exception, v) /\ generators' = generators
  BY DEF NativeThrows
<1>2. loops # <<>> /\ reply = NoReply /\ exception = Quiet
  BY <1>1, InNativeIs
<1>3. Throws(frames, generators, v)
  BY <1>2, QuietThrows DEF Thrown
<1>4. NativeFails(frames, Quiet, v)
  BY <1>1, <1>2
<1>5. Rewound(frames, frames[Len(frames)].covered) /\ frames[Len(frames)].covered \in BOOLEAN
  BY <1>2, AtIsRewound
<1> QED
  BY <1>1, <1>2, <1>3, <1>4, <1>5, FailsSeen

(* The body of a generator is on the stack again.                          *)
LEMMA ResumeMaps ==
  ASSUME FramesInv, loops # <<>>, reply = NoReply, exception = Quiet, FramesInv',
         NEW c \in BOOLEAN, NEW fs, Rewound(fs, c), NEW g \in Generators,
         NEW native, NEW entry, BodyPushed(fs, native, entry, g)
  PROVE  /\ CallsMade' = Append(CS!Within(c), CS!Active(g))
         /\ Bodies' = CS!InState(g, "executing") /\ OutcomeNow' = OutcomeNow
<1>1. PICK f \in Frame, fs2 \in Seq(Frame) :
         /\ f.gen = g
         /\ Topped(fs, fs2, f)
         /\ Resume(fs2, native, entry, g)
         /\ exception' = Quiet
  BY DEF BodyPushed
<1> DEFINE m == Len(fs) + 2
<1>2. fs \in Seq(Frame)
  BY RewoundMirrors
<1>3. frames' = fs2 /\ generators' = SetState(g, "executing") /\ reply' = NoReply
  BY <1>1 DEF Resume
<1>4. /\ Len(frames') = m /\ frames'[m] = f /\ frames'[Len(fs) + 1].kind = "sentinel"
      /\ \A i \in 1..Len(fs) : frames'[i] = fs[i]
  BY <1>1, <1>2, <1>3, SentinelFields DEF Topped
<1>5. m \in {Len(fs) + 1, Len(fs) + 2}
  OBVIOUS
<1> HIDE DEF m
<1>6. /\ CallsMade' = Append(CS!Within(c), CS!Active(frames'[m].gen))
      /\ Bodies' = generators' /\ OutcomeNow' = OutcomeNow
  BY <1>1, <1>3, <1>4, <1>5, EnterMaps
<1>7. Bodies = generators
  BY SeenBefore
<1>8. CS!InState(g, "executing") = SetState(g, "executing")
  BY <1>7 DEF CS!InState, SetState
<1> QED
  BY <1>1, <1>3, <1>4, <1>6, <1>8

LEMMA ResumeSeen ==
  ASSUME FramesInv, loops # <<>>, reply = NoReply, exception = Quiet, FramesInv',
         NEW c \in BOOLEAN, NEW fs, Rewound(fs, c), NEW g \in Generators,
         NEW native, NEW entry, BodyPushed(fs, native, entry, g),
         generators[g].state \in {"start", "yield"}
  PROVE  Seen
<1>1. /\ CallsMade' = Append(CS!Within(c), CS!Active(g))
      /\ Bodies' = CS!InState(g, "executing") /\ OutcomeNow' = OutcomeNow
  BY ResumeMaps
<1>2. Bodies[g].state \in CS!Suspended
  BY SeenBefore DEF CS!Suspended
<1>3. CS!Resume(g, c)
  BY <1>1, <1>2 DEF CS!Resume, OutcomeNow
<1>4. CallsMade # <<>>
  BY StackBefore
<1> QED
  BY <1>3, <1>4 DEF Seen, CS!CSNext

LEMMA GeneratorNextSeen ==
  ASSUME Plain, FramesInv, FramesInv', NEW g \in Generators, NEW c \in BOOLEAN,
         GeneratorNext(g, c)
  PROVE  Seen
<1>1. /\ Unhindered
      /\ \/ ResumeNext(At(c), "generator", g)
         \/ NativeFails(At(c), exception, ErrText) /\ generators' = generators
         \/ NativeSucceeds(At(c), exception) /\ generators' = generators
  BY DEF GeneratorNext
<1>2. loops # <<>> /\ reply = NoReply /\ exception = Quiet /\ due = 0
  BY <1>1, UnhinderedIs
<1>3. Throws(At(c), generators, ErrText) /\ Rewound(At(c), c)
  BY <1>2, AtThrows, AtIsRewound DEF Thrown
<1>4. CASE ResumeNext(At(c), "generator", g)
  BY <1>2, <1>3, <1>4, ResumeNextIs, ResumeSeen
<1>5. CASE NativeFails(At(c), exception, ErrText) /\ generators' = generators
  <2>1. NativeFails(At(c), Quiet, ErrText)
    BY <1>2, <1>5
  <2> QED
    BY <1>2, <1>3, <1>5, <2>1, FailsSeen
<1>6. CASE NativeSucceeds(At(c), exception) /\ generators' = generators
  <2>1. NativeSucceeds(At(c), Quiet)
    BY <1>2, <1>6
  <2> QED
    BY <1>2, <1>3, <1>6, <2>1, SucceedsMaps DEF Seen, Still
<1> QED
  BY <1>1, <1>4, <1>5, <1>6

LEMMA NativeNextSeen ==
  ASSUME Plain, FramesInv, FramesInv', NEW g \in Generators, NativeNext(g)
  PROVE  Seen
<1> DEFINE c == frames[Len(frames)].covered
<1>1. /\ InNative
      /\ \/ ResumeNext(frames, Top(loops).call.native, g)
         \/ CallbackEnds(frames, exception, Err(ErrText)) /\ generators' = generators
         \/ CallbackEnds(frames, exception, Ok) /\ generators' = generators
  BY DEF NativeNext
<1>2. loops # <<>> /\ reply = NoReply /\ exception = Quiet /\ due = 0
      /\ Top(loops).call.native = "propagates"
  BY <1>1, InNativeIs
<1>3. Throws(frames, generators, ErrText) /\ Rewound(frames, c) /\ c \in BOOLEAN
  BY <1>2, QuietThrows, AtIsRewound DEF Thrown
<1> HIDE DEF c
<1>4. CASE ResumeNext(frames, Top(loops).call.native, g)
  <2>1. /\ generators[g].state \in {"start", "yield"}
        /\ BodyPushed(frames, Top(loops).call.native, "next", g)
    BY <1>2, <1>3, <1>4, ResumeNextIs
  <2> QED
    BY <1>2, <1>3, <2>1, ResumeSeen
<1>5. CASE CallbackEnds(frames, exception, Err(ErrText)) /\ generators' = generators
  <2>1. NativeFails(frames, Quiet, ErrText)
    BY <1>2, <1>5, StatusFields DEF CallbackEnds
  <2> QED
    BY <1>2, <1>3, <1>5, <2>1, FailsSeen
<1>6. CASE CallbackEnds(frames, exception, Ok) /\ generators' = generators
  <2>1. frames' = frames /\ exception' = Quiet /\ reply' = NoReply
    BY <1>2, <1>6, StatusFields DEF CallbackEnds
  <2>2. Len(frames') = Len(frames) /\ Begins(frames, frames', Len(frames))
    BY <1>3, <2>1 DEF Rewound
  <2> QED
    BY <1>2, <1>6, <2>1, <2>2, StaysMaps DEF Seen, Still
<1> QED
  BY <1>1, <1>4, <1>5, <1>6

LEMMA GeneratorReturnSeen ==
  ASSUME Plain, FramesInv, FramesInv', NEW g \in Generators, NEW c \in BOOLEAN,
         GeneratorReturn(g, c)
  PROVE  Seen
<1>1. /\ Unhindered
      /\ \/ NativeFails(At(c), exception, ErrText) /\ generators' = generators
         \/ /\ generators[g].state # "executing"
            /\ generators' = SetState(g, "completed")
            /\ NativeSucceeds(At(c), exception)
  BY DEF GeneratorReturn
<1>2. loops # <<>> /\ reply = NoReply /\ exception = Quiet
  BY <1>1, UnhinderedIs
<1>3. Throws(At(c), generators, ErrText) /\ Rewound(At(c), c)
  BY <1>2, AtThrows, AtIsRewound DEF Thrown
<1>4. CASE NativeFails(At(c), exception, ErrText) /\ generators' = generators
  <2>1. NativeFails(At(c), Quiet, ErrText)
    BY <1>2, <1>4
  <2> QED
    BY <1>2, <1>3, <1>4, <2>1, FailsSeen
<1>5. CASE /\ generators[g].state # "executing"
           /\ generators' = SetState(g, "completed")
           /\ NativeSucceeds(At(c), exception)
  <2>1. NativeSucceeds(At(c), Quiet)
    BY <1>2, <1>5
  <2>2. /\ CallsMade' = CallsMade /\ OutcomeNow' = OutcomeNow
        /\ Bodies = generators /\ Bodies' = generators'
    BY <1>2, <1>3, <2>1, SucceedsMaps
  <2>3. CS!InState(g, "completed") = SetState(g, "completed")
    BY <2>2 DEF CS!InState, SetState
  <2>4. CS!Close(g)
    BY <1>5, <2>2, <2>3 DEF CS!Close, OutcomeNow
  <2>5. CallsMade # <<>>
    BY <1>2, StackBefore
  <2> QED
    BY <2>4, <2>5 DEF Seen, CS!CSNext
<1> QED
  BY <1>1, <1>4, <1>5

LEMMA GeneratorThrowSeen ==
  ASSUME Plain, FramesInv, FramesInv', NEW g \in Generators, NEW v \in Values,
         NEW c \in BOOLEAN, GeneratorThrow(g, v, c)
  PROVE  Seen
<1>1. Unhindered
  BY DEF GeneratorThrow
<1>2. loops # <<>> /\ reply = NoReply /\ exception = Quiet
  BY <1>1, UnhinderedIs
<1>3. Throws(At(c), generators, v) /\ Throws(At(c), generators, ErrText) /\ Rewound(At(c), c)
  BY <1>2, AtThrows, AtIsRewound DEF Thrown
<1>4. /\ Bodies = generators /\ generators \in [Generators -> Suspensions]
      /\ Resting(generators) /\ OutcomeNow = "none"
  BY <1>2, SeenBefore
<1>5. CallsMade # <<>>
  BY <1>2, StackBefore
<1>6. CASE /\ generators[g].state = "yield" /\ generators[g].covered
           /\ BodyPushed(At(c), "generator", "throw", g)
  BY <1>2, <1>3, <1>6, ResumeSeen
<1>7. CASE /\ generators[g].state = "yield" => ~generators[g].covered
           /\ generators[g].state # "executing"
           /\ generators' = SetState(g, "completed")
           /\ NativeFails(At(c), Quiet, v)
           /\ nextRegSlot' = nextRegSlot
  <2> DEFINE gs == SetState(g, "completed")
             s  == [state |-> "completed", covered |-> FALSE]
  <2>1. Throws(At(c), gs, v)
    BY <1>3, <1>7, CompletedBodies
  <2>2. gs \in [Generators -> Suspensions] /\ Resting(gs)
    BY <2>1 DEF Throws
  <2>3. s.state = "completed" /\ gs = [generators EXCEPT ![g] = s]
    BY DEF SetState
  <2> HIDE DEF s
  <2>4. \A x \in Generators : gs[x].state = "executing" <=> generators[x].state = "executing"
    BY <1>4, <1>7, <2>3
  <2> HIDE DEF gs
  <2>5. Lands(At(c), Handler(At(c)))
    BY <1>7, <2>1, FailsLands
  <2>6. generators' = gs
    BY <1>7 DEF gs
  <2>7. CS!Unwound(CS!Within(c), gs)
    BY <1>2, <1>3, <2>2, <2>4, <2>5, <2>6, RaiseMaps
  <2>8. CS!InState(g, "completed") = gs
    BY <1>4 DEF CS!InState, SetState, gs
  <2>9. ~Bodies[g].covered /\ Bodies[g].state # "executing"
    BY <1>4, <1>7 DEF Resting
  <2>10. CS!Unwound(CS!Within(c), CS!InState(g, "completed"))
    BY <2>7, <2>8
  <2>11. CS!RaiseIn(g, c)
    BY <2>9, <2>10 DEF CS!RaiseIn
  <2> QED
    BY <1>5, <2>11 DEF Seen, CS!CSNext
<1>8. CASE /\ NativeFails(At(c), Quiet, ErrText)
           /\ nextRegSlot' = nextRegSlot /\ generators' = generators
  BY <1>2, <1>3, <1>8, FailsSeen
<1> QED
  BY <1>6, <1>7, <1>8, GeneratorThrowIs

(* The loop below a boundary is the innermost one.                         *)
LEMMA PoppedIs ==
  ASSUME NEW fs \in Seq(Frame), NEW ls \in Seq(Activation), Runs(fs, ls),
         NEW w, w = Len(ls) - 1, w > 0, Len(fs) = ls[w].at + 2
  PROVE  /\ Pop(ls) # <<>> /\ Top(Pop(ls)) = ls[w]
         /\ ls[w].at \in 1..Len(fs) - 1 /\ ls[w].at = Len(fs) - 2
         /\ fs[ls[w].at + 1].kind = "sentinel"
<1>1. ls # <<>> /\ w \in Nat /\ Lower(fs, ls, w)
  BY LoopsBelow
<1>2. Pop(ls) \in Seq(Activation) /\ Len(Pop(ls)) = w /\ \A k \in 1..w : Pop(ls)[k] = ls[k]
  BY <1>1, TopPopped
<1>3. Ordered(ls, w) /\ w \in 1..w
  BY <1>1, InOrder
<1>4. ls[w].at \in Nat /\ ls[w].at > 0
  BY <1>3 DEF Ordered
<1>5. ls[w].at + 1 \in DOMAIN fs
  BY <1>4
<1>6. fs[ls[w].at + 1].kind = "sentinel"
  BY <1>1, <1>5, AboveIs
<1>7. Pop(ls) # <<>>
  BY <1>1, <1>2
<1>8. Top(Pop(ls)) = ls[w]
  BY <1>2, <1>3 DEF Top
<1>9. ls[w].at \in 1..Len(fs) - 1 /\ ls[w].at = Len(fs) - 2
  BY <1>4
<1> QED
  BY <1>6, <1>7, <1>8, <1>9

LEMMA YieldSeen ==
  ASSUME Plain, FramesInv, FramesInv', NEW c \in BOOLEAN, Yield(c)
  PROVE  Seen
<1> DEFINE n == Len(frames)
           w == Len(loops) - 1
           g == frames[n].gen
           m == loops[w].at
<1>1. /\ loops # <<>> /\ reply = NoReply /\ ~exception.unwinding /\ g # Null
      /\ generators' = [generators EXCEPT ![g] = [state |-> "yield", covered |-> c]]
      /\ frames' = frames /\ loops' = Pop(loops) /\ reply' = Ok
      /\ exception' = exception
  BY DEF Yield, Instruction, Running, InScript, Plain, Top, Ends
<1>2. /\ frames \in Seq(Frame) /\ loops \in Seq(Activation)
      /\ Runs(frames, loops) /\ exception = Quiet
  BY <1>1, RunningIs
<1>3. w > 0 /\ n = m + 2
  BY <1>1, <1>2, BodyFrame
<1>4. /\ loops' # <<>> /\ Top(loops').at = m /\ m \in 1..n - 1 /\ m = n - 2
      /\ frames[m + 1].kind = "sentinel"
  BY <1>1, <1>2, <1>3, PoppedIs
<1>5. reply' # NoReply /\ exception' = Quiet
  BY <1>1, <1>2 DEF Ok, NoReply
<1>6. /\ LiveTop' = Top(loops').at /\ Bodies' = generators' /\ OutcomeNow' = "none"
      /\ frames'[LiveTop'].kind = "code"
  BY <1>4, <1>5, SeenAnsweredAfter
<1>7. Bodies = generators /\ OutcomeNow = "none"
  BY <1>1, <1>2, SeenBefore
<1>8. CallsMade # <<>> /\ CallsMade[Len(CallsMade)].gen = g
  BY <1>1, <1>2, StackBefore
<1> HIDE DEF n, m, w
<1>9. CallsMade' = CS!BackTo(CallsMade, Len(CallsMade) - 1)
  <2>1. m \in 0..n - 1 /\ LiveTop' = m
    BY <1>2, <1>4, <1>6
  <2>2. AtCode(frames, m)
    BY <1>1, <1>6, <2>1 DEF AtCode
  <2>3. Begins(frames, frames', m)
    <3>1. m \in 0..Len(frames')
      BY <1>1, <1>2, <1>4 DEF n
    <3> QED
      BY <1>1, <1>2, <3>1 DEF Begins
  <2> QED
    BY <1>1, <1>2, <1>4, <2>1, <2>2, <2>3, LeaveMaps DEF n
<1>10. CS!Suspend(c)
  BY <1>1, <1>6, <1>7, <1>8, <1>9 DEF CS!Suspend, OutcomeNow
<1> QED
  BY <1>8, <1>10 DEF Seen, CS!CSNext

(* A call returns to its caller.                                           *)
LEMMA LeaveSeen ==
  ASSUME FramesInv, loops # <<>>, reply = NoReply, exception = Quiet,
         NEW m \in 1..Len(frames) - 1, LiveTop' = m, Begins(frames, frames', m),
         frames'[m].kind = "code",
         m = Len(frames) - 1 \/ (m = Len(frames) - 2 /\ frames[m + 1].kind = "sentinel"),
         OutcomeNow' = "none",
         Bodies' = IF frames[Len(frames)].gen = Null THEN generators
                   ELSE CS!InState(frames[Len(frames)].gen, "completed")
  PROVE  Seen
<1>1. Bodies = generators /\ OutcomeNow = "none" /\ Len(frames) \in Nat
  BY SeenBefore
<1>2. CallsMade # <<>> /\ CallsMade[Len(CallsMade)].gen = frames[Len(frames)].gen
  BY StackBefore
<1>3. m \in 0..Len(frames) - 1 /\ m \in Nat /\ m \in 1..m
  BY <1>1
<1>4. frames[m].kind = "code"
  BY <1>3 DEF Begins
<1>5. /\ CallsMade' = CS!BackTo(CallsMade, Len(CallsMade) - 1)
      /\ Len(CallsMade) = Rank(frames, m) + 1
  BY <1>3, <1>4, LeaveMaps DEF AtCode
<1>6. Len(CallsMade) # 1
  <2>1. Rank(frames, m) \in Nat /\ Rank(frames, m) > 0
    BY <1>3, <1>4, CodeRanks
  <2> QED
    BY <1>5, <2>1
<1>7. CS!Leave
  BY <1>1, <1>2, <1>5, <1>6 DEF CS!Leave, OutcomeNow
<1> QED
  BY <1>2, <1>7 DEF Seen, CS!CSNext

(* While an exception is unwound, the frame that is to catch it stays.     *)
LEMMA DueSeen ==
  ASSUME frames \in Seq(Frame), Bare(frames), exception.unwinding, due = Handler(frames)
  PROVE  LiveTop = due /\ due \in 0..Len(frames) /\ AtCode(frames, due)
<1>1. Catches(frames, due)
  BY HandlerCatches
<1>2. due \in 0..Len(frames) /\ (due # 0 => due \in DOMAIN frames /\ frames[due].covered)
  BY <1>1 DEF Catches
<1>3. LiveTop = due
  BY <1>2 DEF LiveTop
<1>4. due # 0 => frames[due].kind = "code"
  BY <1>2, FrameFields DEF Bare
<1>5. due > 0 => due # 0
  BY <1>2
<1> QED
  BY <1>2, <1>3, <1>4, <1>5 DEF AtCode

LEMMA UnwindsOn ==
  ASSUME frames \in Seq(Frame), Bare(frames), exception.unwinding, due = Handler(frames),
         loops # <<>>, loops' # <<>>,
         exception'.unwinding, due' = due, Begins(frames, frames', due),
         generators' = generators
  PROVE  Seen
<1>1. LiveTop = due /\ due \in 0..Len(frames) /\ AtCode(frames, due)
  BY DueSeen
<1>2. frames' \in Seq(Frame) /\ due \in 0..Len(frames')
  BY DEF Begins
<1>3. LiveTop' = due
  <2>1. due # 0 => due \in DOMAIN frames'
    BY <1>2
  <2>2. LiveTop' = LiveTopOf(frames', exception', loops', due')
    BY SeenNext
  <2> QED
    BY <2>1, <2>2 DEF LiveTopOf
<1>4. CallsMade' = CallsMade /\ Bodies' = Bodies
  BY <1>1, <1>3, StutterMaps
<1>5. OutcomeNow' = OutcomeNow
  BY DEF OutcomeNow
<1> QED
  BY <1>4, <1>5 DEF Seen, Still

LEMMA EndOfInstructionSeen ==
  ASSUME FramesInv, EndOfInstruction
  PROVE  Seen
<1>1. /\ loops # <<>> /\ reply = NoReply /\ exception.unwinding
      /\ frames' = frames /\ loops' = Pop(loops)
      /\ exception' = exception /\ generators' = generators /\ due' = due
  BY DEF EndOfInstruction, Running, InScript, Ends
<1>2. /\ frames \in Seq(Frame) /\ loops \in Seq(Activation) /\ Runs(frames, loops)
      /\ due = Handler(frames) /\ Stops(frames, loops)
  BY <1>1, RunningIs, QuietFields DEF DueOK
<1>3. Bare(frames)
  BY <1>2, LoopsBelow, SentinelsBare
<1>4. loops' # <<>>
  <2>1. Len(loops) - 1 > 0 /\ Len(frames) = loops[Len(loops) - 1].at + 2
    BY <1>2 DEF Stops
  <2> QED
    BY <1>1, <1>2, <2>1, PoppedIs
<1>5. Begins(frames, frames', due)
  <2>1. due \in 0..Len(frames)
    BY <1>1, <1>2, <1>3, DueSeen
  <2> QED
    BY <1>1, <1>2, <2>1 DEF Begins
<1> QED
  BY <1>1, <1>2, <1>3, <1>4, <1>5, UnwindsOn

LEMMA ScriptReturnsSeen ==
  ASSUME FramesInv, ScriptReturns
  PROVE  Seen
<1> DEFINE w == Len(loops) - 1
<1>1. loops # <<>> /\ reply = NoReply /\ Len(frames) = 1
      /\ (~exception.unwinding => Ends(frames, Ok))
      /\ exception' = exception /\ generators' = generators
  BY DEF ScriptReturns, Instruction, Running, InScript
<1>2. /\ frames \in Seq(Frame) /\ loops \in Seq(Activation) /\ Runs(frames, loops)
      /\ generators \in [Generators -> Suspensions] /\ Owned(loops, generators, NoReply)
      /\ exception = Quiet \/ (Unwinds(exception) /\ Stops(frames, loops))
  BY <1>1, RunningIs
<1>3. Lower(frames, loops, w) /\ w \in Nat /\ Len(loops) = w + 1 /\ Base(loops, w) <= 1
  <2>1. Lower(frames, loops, w) /\ w \in Nat /\ Len(loops) \in Nat /\ Base(loops, w) <= Len(frames)
    BY <1>2, LoopsBelow
  <2>2. Len(loops) = w + 1
    BY <2>1
  <2> QED
    BY <1>1, <2>1, <2>2
<1>4. Ordered(loops, w)
  BY <1>2, <1>3, InOrder
<1>5. frames[1].gen # Null => w > 0
  BY <1>1, <1>2, BodyFrame
<1>6. NoOthers(loops, generators, w)
  BY <1>2 DEF Owned
<1> HIDE DEF w
<1>7. w = 0
  BY <1>3, <1>4 DEF Ordered
<1>8. exception = Quiet
  BY <1>2, <1>3, <1>7 DEF Stops
<1>9. exception' = Quiet /\ frames' = frames /\ loops' = Pop(loops) /\ reply' = Ok
  BY <1>1, <1>8, QuietFields DEF Ends
<1>10. loops' = <<>>
  <2>1. Pop(loops) \in Seq(Activation) /\ Len(Pop(loops)) = 0
    BY <1>1, <1>2, <1>3, <1>7, TopPopped
  <2> QED
    BY <1>9, <2>1
<1>11. LiveTop' = 0 /\ OutcomeNow' = "ok"
  <2>1. LiveTop' = LiveTopOf(frames', exception', loops', due')
    BY SeenNext
  <2> QED
    BY <1>9, <1>10, <2>1, QuietFields, StatusFields DEF LiveTopOf, OutcomeNow
<1>12. Bodies' = generators
  <2>1. \A g \in Generators : generators[g].state # "executing"
    BY <1>6, <1>7 DEF NoOthers
  <2>2. BodiesOf(frames', generators, 0) = generators
    BY <1>2, <2>1, BodiesWhole
  <2> QED
    BY <1>1, <1>11, <2>2, SeenNext
<1>13. Bodies = generators /\ OutcomeNow = "none"
  BY <1>1, <1>8, SeenBefore
<1>14. CallsMade # <<>> /\ CallsMade[Len(CallsMade)].gen = Null
  BY <1>1, <1>5, <1>7, <1>8, StackBefore
<1>15. /\ CallsMade' = CS!BackTo(CallsMade, Len(CallsMade) - 1)
       /\ Len(CallsMade) = 1
  <2>1. 0 \in 0..Len(frames) - 1 /\ 0 = Len(frames) - 1
    BY <1>1
  <2>2. Begins(frames, frames', 0) /\ AtCode(frames, 0)
    BY <1>1, <1>2, <1>9 DEF Begins, AtCode
  <2>3. /\ CallsMade' = CS!BackTo(CallsMade, Len(CallsMade) - 1)
        /\ Len(CallsMade) = Rank(frames, 0) + 1
    BY <1>1, <1>8, <1>11, <2>1, <2>2, LeaveMaps
  <2> QED
    BY <2>3, RankZero
<1>16. CS!Leave
  BY <1>11, <1>12, <1>13, <1>14, <1>15 DEF CS!Leave, OutcomeNow
<1> QED
  BY <1>14, <1>16 DEF Seen, CS!CSNext

LEMMA FirstFrames ==
  ASSUME NEW fs \in Seq(Frame), NEW m \in 0..Len(fs)
  PROVE  LET fs2 == SubSeq(fs, 1, m)
         IN  fs2 \in Seq(Frame) /\ Len(fs2) = m /\ \A i \in 1..m : fs2[i] = fs[i]
OBVIOUS

LEMMA ReturnSeen ==
  ASSUME Plain, FramesInv, FramesInv', NEW undefined \in BOOLEAN, Return(undefined)
  PROVE  Seen
<1> DEFINE n    == Len(frames)
           w    == Len(loops) - 1
           f    == frames[n]
           rest == SubSeq(frames, 1, n - 1)
           fs2  == SubSeq(frames, 1, n - 2)
           answer == IF exception.unwinding /\ ~undefined THEN Err(exception.current) ELSE Ok
<1>1. /\ loops # <<>> /\ reply = NoReply /\ n > 1
      /\ (exception.unwinding => f.gen = Null)
      /\ generators' = IF f.gen = Null THEN generators
                       ELSE [generators EXCEPT ![f.gen].state = "completed"]
      /\ IF IsSentinel(rest, Len(rest))
         THEN Ends(Pop(rest), answer)
         ELSE IF f.direct THEN Ends(rest, Ok) ELSE GoesOn(rest)
      /\ exception' = exception /\ due' = due
  BY DEF Return, Instruction, Running, InScript, Plain, Top, Pop
<1>2. /\ frames \in Seq(Frame) /\ loops \in Seq(Activation) /\ Runs(frames, loops)
      /\ generators \in [Generators -> Suspensions] /\ Resting(generators)
      /\ Owned(loops, generators, NoReply)
      /\ exception \in Exceptions /\ DueOK(frames, exception, due)
      /\ exception = Quiet \/ (exception.unwinding /\ Unwinds(exception) /\ Stops(frames, loops))
  BY <1>1, RunningIs
<1>3. /\ f \in Frame /\ f.kind = "code" /\ n \in Nat /\ Above(f, n, loops, w)
      /\ f.gen # Null \/ f.direct => w > 0 /\ n = loops[w].at + 2
  BY <1>2, BodyFrame
<1>4. rest \in Seq(Frame) /\ Len(rest) = n - 1 /\ \A i \in 1..n - 1 : rest[i] = frames[i]
  BY <1>1, <1>2
<1>5. Pop(rest) = fs2
  BY <1>1, <1>2, <1>4 DEF Pop
<1>6. fs2 \in Seq(Frame) /\ Len(fs2) = n - 2 /\ \A i \in 1..n - 2 : fs2[i] = frames[i]
  <2>1. n - 2 \in 0..Len(frames) /\ n \in Nat
    BY <1>1, <1>2
  <2> QED
    BY <1>2, <2>1, FirstFrames
<1>7. w \in Nat /\ Lower(frames, loops, w) /\ Base(loops, w) <= n
  BY <1>2, LoopsBelow
<1> HIDE DEF f, w, rest, fs2, n
<1>8. ASSUME exception = Quiet PROVE exception' = Quiet /\ ~exception.unwinding
  BY <1>1, <1>8, QuietFields
<1>9. CASE w > 0 /\ n = loops[w].at + 2
  <2> DEFINE m == loops[w].at
  <2>1. /\ Pop(loops) # <<>> /\ Top(Pop(loops)) = loops[w]
        /\ m \in 1..n - 1 /\ m = n - 2 /\ frames[m + 1].kind = "sentinel"
    BY <1>2, <1>9, PoppedIs DEF n, w
  <2>2. IsSentinel(rest, Len(rest))
    <3>1. m + 1 = n - 1 /\ n - 1 \in 1..n - 1 /\ DOMAIN rest = 1..n - 1
      BY <1>1, <1>3, <1>4, <2>1
    <3> HIDE DEF m
    <3>2. rest[n - 1].kind = "sentinel"
      BY <1>4, <2>1, <3>1
    <3> QED
      BY <1>4, <3>1, <3>2 DEF IsSentinel
  <2>3. Ends(fs2, answer)
    BY <1>1, <1>5, <2>2
  <2>4. frames' = fs2 /\ loops' = Pop(loops)
    BY <2>3 DEF Ends
  <2>5. loops' # <<>> /\ Top(loops').at = m
    BY <2>1, <2>4
  <2> HIDE DEF m
  <2>6. CASE exception = Quiet
    <3>1. exception' = Quiet /\ reply' = Ok /\ Ok # NoReply
      BY <1>8, <2>3, <2>6 DEF Ends, Ok, NoReply
    <3>2. /\ LiveTop' = m /\ Bodies' = generators' /\ OutcomeNow' = "none"
          /\ frames'[m].kind = "code"
      BY <2>5, <3>1, SeenAnsweredAfter
    <3>3. Begins(frames, frames', m)
      <4>1. m \in 0..Len(frames') /\ \A i \in 1..m : frames'[i] = frames[i]
        BY <1>6, <2>1, <2>4
      <4> QED
        BY <1>6, <2>4, <4>1 DEF Begins
    <3>4. Bodies' = IF f.gen = Null THEN generators ELSE CS!InState(f.gen, "completed")
      <4>1. CASE f.gen = Null
        BY <1>1, <3>2, <4>1
      <4>2. CASE f.gen # Null
        <5> DEFINE g == f.gen
        <5>1. g \in Generators
          BY <1>3, <4>2, FrameFields DEF Bodied
        <5>2. generators[g].state = "executing" /\ generators[g] \in Suspensions
          <6>1. Awake(frames, generators) /\ n \in 1..Len(frames) /\ frames[n].gen = g
            BY <1>1, <1>3, <2>6, SeenBefore DEF f, n
          <6> QED
            BY <1>2, <5>1, <6>1 DEF Awake
        <5>3. generators[g].covered = FALSE
          BY <1>2, <5>1, <5>2 DEF Resting, Suspensions
        <5>4. [generators[g] EXCEPT !.state = "completed"] =
                [state |-> "completed", covered |-> FALSE]
          BY <5>2, <5>3, CompletedIs
        <5>5. generators' = [generators EXCEPT ![g] = [generators[g] EXCEPT !.state = "completed"]]
          BY <1>1, <4>2
        <5>6. Bodies = generators
          BY <1>1, <2>6, SeenBefore
        <5>7. CS!InState(g, "completed") =
                [generators EXCEPT ![g] = [state |-> "completed", covered |-> FALSE]]
          BY <5>6 DEF CS!InState
        <5> QED
          BY <3>2, <4>2, <5>4, <5>5, <5>7
      <4> QED
        BY <4>1, <4>2
    <3> QED
      BY <1>1, <2>1, <2>6, <3>2, <3>3, <3>4, LeaveSeen DEF f, n
  <2>7. CASE exception.unwinding
    <3>1. exception'.unwinding /\ due' = due /\ generators' = generators
      BY <1>1, <2>7
    <3>2. due = Handler(frames) /\ Bare(frames)
      BY <1>2, <1>7, <2>7, SentinelsBare DEF DueOK
    <3>3. due = Handler(frames')
      <4>1. DueOK(frames', exception', due')
        BY DEF FramesInv, Good
      <4> QED
        BY <3>1, <4>1 DEF DueOK
    <3>4. due \in 0..n - 2
      <4>1. Catches(fs2, due)
        BY <1>6, <2>4, <3>3, HandlerCatches
      <4> QED
        BY <1>6, <4>1 DEF Catches
    <3>5. Begins(frames, frames', due)
      <4>1. due \in 0..Len(frames') /\ \A i \in 1..due : frames'[i] = frames[i]
        BY <1>1, <1>3, <1>6, <2>4, <3>4
      <4> QED
        BY <1>6, <2>4, <4>1 DEF Begins
    <3> QED
      BY <1>1, <1>2, <2>5, <2>7, <3>1, <3>2, <3>5, UnwindsOn
  <2> QED
    BY <1>2, <2>6, <2>7
<1>10. CASE ~(w > 0 /\ n = loops[w].at + 2)
  <2>1. f.gen = Null /\ ~f.direct
    BY <1>3, <1>10
  <2>2. Ordered(loops, w)
    BY <1>2, <1>7, InOrder
  <2>3. Base(loops, w) <= n - 1 /\ Base(loops, w) \in Nat
    <3>1. Base(loops, w) # n
      BY <1>1, <1>7, <1>10, <2>2 DEF Ordered, Base
    <3> QED
      BY <1>3, <1>7, <2>2, <3>1 DEF Ordered
  <2>4. exception = Quiet
    <3>1. ~Stops(frames, loops)
      <4>1. w = Len(loops) - 1 /\ (Len(loops) > 1 => w > 0)
        BY <1>7 DEF w
      <4> QED
        BY <1>10, <4>1 DEF Stops, n
    <3> QED
      BY <1>2, <3>1
  <2>5. ~IsSentinel(rest, Len(rest))
    <3>1. n - 1 \in DOMAIN frames /\ n - 1 >= Base(loops, w)
      BY <1>1, <1>2, <1>3, <2>3 DEF n
    <3>2. Above(frames[n - 1], n - 1, loops, w)
      BY <1>2, <1>7, <3>1, AboveIs
    <3>3. n - 1 \in 1..n - 1
      BY <1>1, <1>3
    <3>4. rest[n - 1].kind = "code"
      BY <1>4, <3>2, <3>3 DEF Above
    <3> QED
      BY <1>4, <3>4 DEF IsSentinel
  <2>6. frames' = rest /\ reply' = NoReply /\ generators' = generators
    BY <1>1, <2>1, <2>5 DEF GoesOn
  <2>7. exception' = Quiet
    BY <1>8, <2>4
  <2> DEFINE m == n - 1
  <2>8. m = Len(frames') /\ m \in 1..n - 1
    BY <1>1, <1>3, <1>4, <2>6
  <2>9. LiveTop' = m /\ Bodies' = generators' /\ OutcomeNow' = "none" /\ frames'[m].kind = "code"
    BY <2>6, <2>7, <2>8, SeenAfter
  <2>10. Begins(frames, frames', m)
    <3>1. m \in 0..Len(frames') /\ \A i \in 1..m : frames'[i] = frames[i]
      BY <1>1, <1>3, <1>4, <2>6
    <3> QED
      BY <1>4, <2>6, <3>1 DEF Begins
  <2>11. m = Len(frames) - 1
    BY DEF n
  <2>12. m \in 1..Len(frames) - 1 /\ frames[Len(frames)].gen = Null
    BY <2>1, <2>8 DEF n, f
  <2> HIDE DEF m
  <2> QED
    BY <1>1, <2>4, <2>6, <2>9, <2>10, <2>11, <2>12, LeaveSeen
<1> QED
  BY <1>9, <1>10

(* A native call whose callback has ended well goes on.                    *)
LEMMA OkAnswer ==
  ASSUME NEW fs, CallbackEnds(fs, Quiet, Ok)
  PROVE  exception' = Quiet /\ reply' = NoReply /\ frames' = fs
BY QuietFields, StatusFields DEF CallbackEnds, NativeSucceeds

LEMMA AnswersSeen ==
  ASSUME FramesInv, loops # <<>>, reply # NoReply, exception = Quiet, FramesInv',
         NEW fs, CallbackEnds(fs, Quiet, Ok), Len(fs) = Top(loops).at,
         \A i \in 1..Len(fs) : fs[i] = frames[i],
         generators' = generators
  PROVE  Seen
<1> DEFINE m == Top(loops).at
<1>1. exception' = Quiet /\ reply' = NoReply /\ frames' = fs
  BY OkAnswer
<1>2. /\ LiveTop = m /\ Bodies = generators /\ OutcomeNow = "none"
      /\ frames \in Seq(Frame) /\ m \in 1..Len(frames) /\ frames[m].kind = "code"
  BY SeenAnsweredBefore
<1>3. /\ LiveTop' = m /\ Bodies' = generators' /\ OutcomeNow' = "none"
      /\ fs \in Seq(Frame) /\ Len(fs) = m
  BY <1>1, SeenAfter
<1> HIDE DEF m
<1>4. m \in 0..Len(frames) /\ AtCode(frames, m) /\ m \in 0..Len(fs)
  BY <1>2, <1>3 DEF AtCode
<1>5. Begins(frames, frames', m)
  BY <1>1, <1>3, <1>4 DEF Begins
<1>6. CallsMade' = CallsMade
  BY <1>2, <1>3, <1>4, <1>5, StutterMaps
<1> QED
  BY <1>2, <1>3, <1>6 DEF Seen, Still

(* A body that an exception leaves is completed, whether or not it is      *)
(* marked yet.                                                             *)
LEMMA LapsedBody ==
  ASSUME NEW fs, NEW gs \in [Generators -> Suspensions], Resting(gs), NEW m,
         NEW g \in Generators, gs[g].state = "executing", \A i \in 1..m : fs[i].gen # g
  PROVE  BodiesOf(fs, [gs EXCEPT ![g] = [state |-> "completed", covered |-> FALSE]], m)
           = BodiesOf(fs, gs, m)
<1> DEFINE s   == [state |-> "completed", covered |-> FALSE]
           gs2 == [gs EXCEPT ![g] = s]
<1>1. gs[g] \in Suspensions /\ gs[g].covered = FALSE
  BY DEF Resting, Suspensions
<1>2. [gs[g] EXCEPT !.state = "completed"] = s
  BY <1>1, CompletedIs
<1>3. s.state = "completed"
  OBVIOUS
<1> HIDE DEF s
<1>4. gs2[g] = s /\ \A x \in Generators : x # g => gs2[x] = gs[x]
  OBVIOUS
<1> HIDE DEF gs2
<1>5. ASSUME NEW x \in Generators
      PROVE  (IF Lapsed(fs, gs2, m, x) THEN [gs2[x] EXCEPT !.state = "completed"] ELSE gs2[x])
           = (IF Lapsed(fs, gs, m, x) THEN [gs[x] EXCEPT !.state = "completed"] ELSE gs[x])
  <2>1. CASE x = g
    <3>1. ~Lapsed(fs, gs2, m, x) /\ Lapsed(fs, gs, m, x)
      BY <1>3, <1>4, <2>1 DEF Lapsed
    <3> QED
      BY <1>2, <1>4, <2>1, <3>1
  <2>2. CASE x # g
    <3>1. gs2[x] = gs[x]
      BY <1>4, <2>2
    <3>2. Lapsed(fs, gs2, m, x) <=> Lapsed(fs, gs, m, x)
      BY <3>1 DEF Lapsed
    <3> QED
      BY <3>1, <3>2
  <2> QED
    BY <2>1, <2>2
<1>6. BodiesOf(fs, gs2, m) = BodiesOf(fs, gs, m)
  BY <1>5, Zenon DEF BodiesOf
<1> QED
  BY <1>6 DEF gs2, s

(* What is thrown again below a boundary arrives where it was due.         *)
LEMMA ThrownOnMaps ==
  ASSUME FramesInv, loops # <<>>, reply # NoReply, exception.unwinding,
         EndedBadly(frames, loops, reply, generators), FramesInv',
         NEW fs \in Seq(Frame), Lower(fs, loops, Len(loops)), Handler(fs) = Handler(frames),
         \A i \in DOMAIN fs : i \in DOMAIN frames /\ fs[i] = frames[i],
         NEW ex, ex.unwinding, ex.crossed, NEW v \in Thrown, NativeFails(fs, ex, v)
  PROVE  /\ LiveTop = Handler(frames) /\ LiveTop' = Handler(frames)
         /\ OutcomeNow' = OutcomeNow /\ AtCode(frames, Handler(frames))
         /\ Handler(frames) \in 0..Len(frames)
         /\ Begins(frames, frames', Handler(frames))
<1> DEFINE w == Len(loops)
           r == SecondUnwind(fs, v)
           h == Handler(frames)
<1>1. /\ frames \in Seq(Frame) /\ loops \in Seq(Activation) /\ w \in Nat /\ w > 0
      /\ Lower(frames, loops, w) /\ due = h
  BY EndedIs DEF DueOK
<1>2. LiveTop = h /\ h \in 0..Len(frames) /\ AtCode(frames, h)
  <2>1. Bare(frames)
    BY <1>1, SentinelsBare
  <2> QED
    BY <1>1, <2>1, DueSeen
<1>3. \A i \in DOMAIN fs : i > loops[w].at => ~fs[i].covered
  BY DEF EndedBadly
<1>4. ThrownAgain(fs, loops, w, v, r)
  BY <1>1, <1>3, Rethrow
<1> HIDE DEF r
<1>5. /\ exception' = r.exception
      /\ due' = IF ~r.exception.unwinding THEN 0 ELSE due
      /\ r.frames = <<>> => Ends(<<>>, Err(r.exception.current))
      /\ r.frames # <<>> /\ ~IsSentinel(r.frames, Len(r.frames)) => GoesOn(r.frames)
  <2>1. r = throwException(fs, ex, v) /\ Due(fs, ex, r) = IF ~r.exception.unwinding THEN 0 ELSE due
    BY ThrowAgain DEF r
  <2>2. /\ exception' = r.exception
        /\ due' = Due(fs, ex, r)
        /\ IF r.frames = <<>> THEN Ends(<<>>, Err(r.exception.current))
           ELSE IF IsSentinel(r.frames, Len(r.frames)) THEN Ends(r.frames, Ok) ELSE GoesOn(r.frames)
    BY <2>1, Zenon DEF NativeFails
  <2> QED
    BY <2>1, <2>2
<1>6. loops[w].at \in Nat /\ Len(fs) \in Nat /\ loops[w].at <= Len(fs)
  <2>1. Ordered(loops, w)
    BY <1>1, InOrder
  <2> QED
    BY <1>1, <2>1 DEF Ordered, Lower
<1> HIDE DEF w, h
<1>7. CASE h > 0
  <2> DEFINE fs2 == Caught(fs, h)
  <2>1. r = CaughtAt(fs, h) /\ h \in 0..loops[w].at
    BY <1>4, <1>7 DEF ThrownAgain, h
  <2>2. r.frames = fs2 /\ r.exception = Quiet
    BY <2>1, CaughtFields
  <2>3. h \in 1..Len(fs)
    BY <1>6, <1>7, <2>1
  <2>4. Begins(fs, fs2, h) /\ fs2 \in Seq(Frame) /\ Len(fs2) = h
    BY <2>3, BlankBegins
  <2>5. h \in DOMAIN fs /\ \A i \in 1..h : i \in DOMAIN fs
    BY <2>3
  <2>6. fs2 # <<>> /\ ~IsSentinel(fs2, Len(fs2))
    <3>1. h \in 1..h /\ fs[h] = frames[h]
      BY <2>3, <2>5
    <3>2. fs2[h].kind = "code"
      BY <1>2, <1>7, <2>4, <3>1 DEF AtCode, Begins
    <3>3. Len(fs2) # 0
      BY <1>7, <2>4
    <3> HIDE DEF fs2
    <3> QED
      BY <2>4, <3>2, <3>3 DEF IsSentinel
  <2> HIDE DEF fs2
  <2>7. exception' = Quiet /\ frames' = fs2 /\ reply' = NoReply
    BY <1>5, <2>2, <2>6 DEF GoesOn
  <2>8. LiveTop' = h /\ OutcomeNow' = "none"
    BY <2>4, <2>7, SeenAfter
  <2>9. OutcomeNow = "none"
    BY <1>1, <1>7 DEF OutcomeNow
  <2>10. Begins(frames, frames', h)
    BY <2>4, <2>5, <2>7 DEF Begins
  <2> QED
    BY <1>2, <2>8, <2>9, <2>10 DEF h
<1>8. CASE h = 0
  <2>1. r = LostAgain(v)
    BY <1>4, <1>8 DEF ThrownAgain, h
  <2>2. r.frames = <<>> /\ r.exception.unwinding
    BY <2>1, OutcomeFields
  <2>3. frames' = <<>> /\ exception'.unwinding /\ due' = 0 /\ due = 0
    BY <1>1, <1>5, <1>8, <2>2 DEF Ends
  <2>4. LiveTop' = 0
    <3>1. LiveTop' = LiveTopOf(frames', exception', loops', due')
      BY SeenNext
    <3> QED
      BY <2>3, <3>1 DEF LiveTopOf
  <2>5. OutcomeNow = "error" /\ OutcomeNow' = "error"
    BY <2>3 DEF OutcomeNow
  <2>6. Begins(frames, frames', 0)
    BY <2>3, NoFrames DEF Begins
  <2> QED
    BY <1>2, <1>8, <2>4, <2>5, <2>6 DEF h
<1> QED
  BY <1>2, <1>7, <1>8 DEF h

LEMMA ThrownOnSeen ==
  ASSUME FramesInv, loops # <<>>, reply # NoReply, exception.unwinding,
         EndedBadly(frames, loops, reply, generators), FramesInv',
         NEW fs \in Seq(Frame), Lower(fs, loops, Len(loops)), Handler(fs) = Handler(frames),
         \A i \in DOMAIN fs : i \in DOMAIN frames /\ fs[i] = frames[i],
         NEW ex, ex.unwinding, ex.crossed, NEW v \in Thrown, NativeFails(fs, ex, v),
         BodiesOf(frames, generators', Handler(frames)) =
           BodiesOf(frames, generators, Handler(frames))
  PROVE  Seen
<1> DEFINE h == Handler(frames)
<1>1. /\ LiveTop = h /\ LiveTop' = h /\ OutcomeNow' = OutcomeNow /\ AtCode(frames, h)
      /\ h \in 0..Len(frames) /\ Begins(frames, frames', h)
  BY ThrownOnMaps
<1>2. frames \in Seq(Frame)
  BY EndedIs
<1> HIDE DEF h
<1>3. CallsMade' = CallsMade /\ Bodies' = Bodies
  BY <1>1, <1>2, StutterMaps DEF h
<1> QED
  BY <1>1, <1>3 DEF Seen, Still

(* Plain native functions pass the error on.                               *)
LEMMA BadAnswer ==
  ASSUME Plain, FramesInv, loops # <<>>, reply # NoReply, NEW fs, NEW ex, NEW r,
         r.status = "error", CallbackEnds(fs, ex, r)
  PROVE  NativeFails(fs, ex, r.value)
<1> DEFINE n == Len(loops)
<1>1. Waits(frames, loops, n) /\ loops[n] \in Activation
  BY EndedIs
<1>2. loops[n].call.native \in {"propagates", "generator"}
  BY <1>1, ActivationFields DEF Waits, Plain
<1> QED
  BY <1>2 DEF CallbackEnds, Top

LEMMA UserFunctionReturnsSeen ==
  ASSUME Plain, FramesInv, FramesInv', UserFunctionReturns
  PROVE  Seen
<1> DEFINE n == Len(loops)
           failed == exception.unwinding /\ exception.current # Null
           ex == IF failed THEN [exception EXCEPT !.current = Null] ELSE exception
           r == IF failed THEN Err(exception.current)
                ELSE IF reply.status = "error" THEN Err(ErrText) ELSE Ok
<1>1. /\ loops # <<>> /\ reply # NoReply /\ loops[n].call.entry = "call"
      /\ CallbackEnds(frames, ex, r)
      /\ generators' = generators
  BY DEF UserFunctionReturns, Top
<1>2. /\ frames \in Seq(Frame) /\ loops \in Seq(Activation) /\ exception \in Exceptions
      /\ Lower(frames, loops, n) /\ Waits(frames, loops, n)
      /\ loops[n].at \in Nat /\ Len(frames) \in Nat
      /\ \/ exception = Quiet /\ EndedWell(frames, loops, reply, generators)
         \/ /\ exception.unwinding /\ exception.crossed /\ exception.current \in Thrown
            /\ EndedBadly(frames, loops, reply, generators)
  BY <1>1, EndedIs
<1>3. loops[n].call.gen = Null
  BY <1>1, <1>2 DEF Waits
<1>4. CASE exception = Quiet /\ EndedWell(frames, loops, reply, generators)
  <2>1. reply = Ok /\ Len(frames) = loops[n].at
    BY <1>2, <1>3, <1>4 DEF EndedWell, Over
  <2>2. ~failed
    BY <1>4, QuietFields
  <2>3. ex = Quiet /\ r = Ok
    BY <1>4, <2>1, <2>2, StatusFields
  <2>4. CallbackEnds(frames, Quiet, Ok) /\ Len(frames) = Top(loops).at
    BY <1>1, <2>1, <2>3 DEF Top
  <2> HIDE DEF ex, r
  <2> QED
    BY <1>1, <1>4, <2>4, AnswersSeen
<1>5. CASE /\ exception.unwinding /\ exception.crossed /\ exception.current \in Thrown
           /\ EndedBadly(frames, loops, reply, generators)
  <2>1. failed
    BY <1>5, ThrownIsNotNull
  <2>2. ex = [exception EXCEPT !.current = Null] /\ r = Err(exception.current)
    BY <2>1
  <2>3. ex.unwinding /\ ex.crossed
    BY <1>2, <1>5, <2>2, QuietError
  <2>4. r.status = "error" /\ r.value \in Thrown
    BY <1>5, <2>2, StatusFields
  <2> HIDE DEF ex, r
  <2>5. NativeFails(frames, ex, r.value)
    BY <1>1, <2>4, BadAnswer
  <2> QED
    BY <1>1, <1>2, <1>5, <2>3, <2>4, <2>5, ThrownOnSeen
<1> QED
  BY <1>2, <1>4, <1>5

(* The body that is given up has no frame below its loop.                  *)
LEMMA GivenUp ==
  ASSUME FramesInv, loops # <<>>, reply # NoReply, exception.unwinding,
         EndedBadly(frames, loops, reply, generators),
         NEW g \in Generators, loops[Len(loops)].call.gen = g,
         generators' = SetState(g, "completed")
  PROVE  BodiesOf(frames, generators', Handler(frames)) =
           BodiesOf(frames, generators, Handler(frames))
<1> DEFINE n == Len(loops)
           h == Handler(frames)
<1>1. /\ frames \in Seq(Frame) /\ loops \in Seq(Activation)
      /\ generators \in [Generators -> Suspensions]
      /\ Resting(generators) /\ Owned(loops, generators, reply)
      /\ n \in DOMAIN loops /\ Lower(frames, loops, n) /\ loops[n].at \in Nat
      /\ Len(frames) \in Nat
  BY EndedIs
<1>2. g # Null /\ generators[g].state = "executing"
  BY NullAssumption DEF EndedBadly
<1>3. h \in 0..Len(frames) /\ h <= loops[n].at
  <2>1. Catches(frames, h)
    BY <1>1, HandlerCatches
  <2>2. \A i \in DOMAIN frames : i > loops[n].at => ~frames[i].covered
    BY DEF EndedBadly
  <2> HIDE DEF h, n
  <2>3. h \in 0..Len(frames) /\ (h > 0 => h \in DOMAIN frames /\ frames[h].covered)
    BY <1>1, <2>1 DEF Catches
  <2> QED
    BY <1>1, <2>2, <2>3
<1>4. Distinct(loops, n) /\ n \in Nat /\ n \in 1..n
  BY <1>1 DEF Owned
<1> HIDE DEF h, n
<1>5. ASSUME NEW i \in 1..h, frames[i].gen = g PROVE FALSE
  <2>1. i \in DOMAIN frames
    BY <1>1, <1>3
  <2>2. Fits(frames[i], i, loops, n)
    BY <1>1, <2>1 DEF Lower
  <2>3. PICK k \in 1..n : i = loops[k].at + 2
    BY <1>2, <1>5, <2>2 DEF Fits
  <2>4. loops[k].call.gen = g
    BY <1>5, <2>2, <2>3 DEF Fits
  <2>5. loops[n].call.gen = g
    BY DEF n
  <2>6. k = n
    BY <1>2, <1>4, <2>4, <2>5 DEF Distinct
  <2> QED
    BY <1>1, <1>3, <2>3, <2>6
<1>6. generators' = [generators EXCEPT ![g] = [state |-> "completed", covered |-> FALSE]]
  BY DEF SetState
<1>7. BodiesOf(frames, generators', h) = BodiesOf(frames, generators, h)
  BY <1>1, <1>2, <1>5, <1>6, LapsedBody
<1> QED
  BY <1>7 DEF h

LEMMA GeneratorReturnsSeen ==
  ASSUME Plain, FramesInv, FramesInv', GeneratorReturns
  PROVE  Seen
<1> DEFINE n    == Len(loops)
           call == loops[n].call
           g    == call.gen
           at   == loops[n].at
           fs2  == SubSeq(frames, 1, at)
           failed == exception.current # Null /\ (exception.unwinding \/ call.entry = "throw")
           error  == Err(IF failed THEN exception.current ELSE ErrText)
<1>1. loops # <<>> /\ reply # NoReply /\ call.entry \in {"next", "throw"}
  BY DEF GeneratorReturns, Top
<1>2. /\ frames \in Seq(Frame) /\ loops \in Seq(Activation) /\ nextRegSlot \in Nat
      /\ Windows(frames, nextRegSlot) /\ exception \in Exceptions
      /\ n > 0 /\ Lower(frames, loops, n) /\ Waits(frames, loops, n) /\ loops[n] \in Activation
      /\ at \in Nat /\ Len(frames) \in Nat
      /\ \/ exception = Quiet /\ EndedWell(frames, loops, reply, generators)
         \/ /\ exception.unwinding /\ exception.crossed /\ exception.current \in Thrown
            /\ EndedBadly(frames, loops, reply, generators)
  BY <1>1, EndedIs
<1>3. g # Null /\ g \in Generators /\ n \in Nat
  BY <1>1, <1>2, ActivationFields DEF Waits, Bodied
<1>4. \/ /\ reply.status = "error"
         /\ call.entry = "next"
         /\ generators' = SetState(g, "completed")
         /\ CallbackEnds(PopSentinel(Pop(frames)), exception, error)
      \/ /\ reply.status = "error"
         /\ call.entry = "throw"
         /\ generators' = SetState(g, "completed")
         /\ CallbackEnds(frames, exception, error)
      \/ /\ reply.status = "ok"
         /\ generators[g].state = "yield"
         /\ CallbackEnds(PopSentinel(Pop(frames)), exception, reply)
         /\ generators' = generators
      \/ /\ reply.status = "ok"
         /\ generators[g].state = "completed"
         /\ CallbackEnds(PopSentinel(frames), exception, reply)
         /\ generators' = generators
      \/ /\ reply.status = "ok"
         /\ generators[g].state = "executing"
         /\ CallbackEnds(frames, exception, reply)
         /\ generators' = generators
  BY DEF GeneratorReturns, Top
<1>5. ASSUME Len(frames) = at + 2
      PROVE  /\ PopSentinel(Pop(frames)) = fs2 /\ fs2 \in Seq(Frame) /\ Len(fs2) = at
             /\ Lower(fs2, loops, n)
             /\ \A i \in DOMAIN fs2 : i \in DOMAIN frames /\ fs2[i] = frames[i]
             /\ (\A i \in DOMAIN frames : i > at => ~frames[i].covered) =>
                  Handler(fs2) = Handler(frames)
  <2>1. /\ PopSentinel(Pop(frames)) = fs2 /\ fs2 \in Seq(Frame) /\ Len(fs2) = at
        /\ Lower(fs2, loops, n)
        /\ (\A i \in DOMAIN frames : i > at => ~frames[i].covered) =>
             Handler(fs2) = Handler(frames)
    BY <1>2, <1>3, <1>5, LeftPopped
  <2>2. at \in 0..Len(frames)
    BY <1>2, <1>5
  <2>3. \A i \in 1..at : fs2[i] = frames[i]
    BY <1>2, <2>2, FirstFrames
  <2>4. DOMAIN fs2 = 1..at /\ \A i \in 1..at : i \in DOMAIN frames
    BY <1>2, <2>1, <2>2
  <2> QED
    BY <2>1, <2>3, <2>4
<1> HIDE DEF n, at, error, failed, fs2
<1>6. CASE exception = Quiet /\ EndedWell(frames, loops, reply, generators)
  <2>1. /\ reply = Ok /\ call.entry # "call" /\ reply.status # "error"
        /\ \/ generators[g].state = "completed" /\ Len(frames) - at = 0
           \/ generators[g].state = "yield" /\ Len(frames) - at = 2
    BY <1>1, <1>6, StatusFields DEF EndedWell, Over, n, at
  <2>2. Top(loops).at = at
    BY DEF Top, at, n
  <2>3. CASE generators[g].state = "completed" /\ Len(frames) - at = 0
    <3>1. CallbackEnds(PopSentinel(frames), Quiet, Ok) /\ generators' = generators
      BY <1>4, <1>6, <2>1, <2>3
    <3>2. Len(frames) = at
      BY <1>2, <2>3
    <3>3. PopSentinel(frames) = frames
      <4>1. frames[Top(loops).at].kind = "code"
        BY <1>1, <1>6, SeenAnsweredBefore
      <4> QED
        BY <2>2, <3>2, <4>1 DEF PopSentinel, IsSentinel
    <3>4. CallbackEnds(frames, Quiet, Ok)
      BY <3>1, <3>3
    <3> QED
      BY <1>1, <1>6, <2>2, <3>1, <3>2, <3>4, AnswersSeen
  <2>4. CASE generators[g].state = "yield" /\ Len(frames) - at = 2
    <3>1. CallbackEnds(PopSentinel(Pop(frames)), Quiet, Ok) /\ generators' = generators
      BY <1>4, <1>6, <2>1, <2>4
    <3>2. Len(frames) = at + 2
      BY <1>2, <2>4
    <3>3. /\ CallbackEnds(fs2, Quiet, Ok) /\ Len(fs2) = Top(loops).at /\ fs2 \in Seq(Frame)
          /\ \A i \in DOMAIN fs2 : fs2[i] = frames[i]
      BY <1>5, <2>2, <3>1, <3>2
    <3>4. \A i \in 1..Len(fs2) : fs2[i] = frames[i]
      BY <3>3
    <3> QED
      BY <1>1, <1>6, <3>1, <3>3, <3>4, AnswersSeen
  <2> QED
    BY <2>1, <2>3, <2>4
<1>7. CASE /\ exception.unwinding /\ exception.crossed /\ exception.current \in Thrown
           /\ EndedBadly(frames, loops, reply, generators)
  <2>1. error.status = "error" /\ error.value \in Thrown
    <3>1. error = Err(exception.current)
      BY <1>7, ThrownIsNotNull DEF error, failed
    <3> QED
      BY <1>7, <3>1, StatusFields
  <2>2. reply.status # "ok"
    <3>1. reply # Ok
      BY <1>1, <1>7 DEF EndedBadly, n
    <3>2. reply \in Replies
      BY <1>1, EndedIs
    <3> QED
      BY <1>1, <3>1, <3>2 DEF Replies, Err, Ok, NoReply
  <2>3. generators' = SetState(g, "completed")
    BY <1>4, <2>2
  <2>4. BodiesOf(frames, generators', Handler(frames)) =
          BodiesOf(frames, generators, Handler(frames))
    BY <1>1, <1>3, <1>7, <2>3, GivenUp DEF n
  <2>5. /\ call.entry = "next" => Len(frames) - at = 2
        /\ \A i \in DOMAIN frames : i > at => ~frames[i].covered
    BY <1>7 DEF EndedBadly, Over, at, n
  <2>6. CASE call.entry = "next"
    <3>1. CallbackEnds(PopSentinel(Pop(frames)), exception, error)
      BY <1>4, <2>2, <2>6
    <3>2. Len(frames) = at + 2
      BY <1>2, <2>5, <2>6
    <3>3. /\ PopSentinel(Pop(frames)) = fs2
          /\ fs2 \in Seq(Frame) /\ Lower(fs2, loops, Len(loops))
          /\ Handler(fs2) = Handler(frames)
          /\ \A i \in DOMAIN fs2 : i \in DOMAIN frames /\ fs2[i] = frames[i]
      BY <1>5, <2>5, <3>2 DEF n
    <3>4. NativeFails(fs2, exception, error.value)
      BY <1>1, <2>1, <3>1, <3>3, BadAnswer
    <3> QED
      BY <1>1, <1>7, <2>1, <2>4, <3>3, <3>4, ThrownOnSeen
  <2>7. CASE call.entry = "throw"
    <3>1. CallbackEnds(frames, exception, error)
      BY <1>4, <2>2, <2>7
    <3>2. NativeFails(frames, exception, error.value)
      BY <1>1, <2>1, <3>1, BadAnswer
    <3>3. frames \in Seq(Frame) /\ Lower(frames, loops, Len(loops))
      BY <1>2 DEF n
    <3> QED
      BY <1>1, <1>7, <2>1, <2>4, <3>2, <3>3, ThrownOnSeen
  <2> QED
    BY <1>1, <2>6, <2>7
<1> QED
  BY <1>2, <1>6, <1>7

-----------------------------------------------------------------------------
(* The refinement.                                                         *)

LEMMA FramesStepSeen ==
  ASSUME Plain, FramesInv, FramesInv', [FramesNext]_frameVars
  PROVE  Seen
<1>1. CASE EndOfInstruction
  BY <1>1, EndOfInstructionSeen
<1>2. CASE ScriptReturns
  BY <1>2, ScriptReturnsSeen
<1>3. CASE NativeReturns
  BY <1>3, NativeReturnsSeen
<1>4. CASE UserFunctionReturns
  BY <1>4, UserFunctionReturnsSeen
<1>5. CASE GeneratorReturns
  BY <1>5, GeneratorReturnsSeen
<1>6. ASSUME NEW size \in Sizes, TailCall(size) \/ CallBack(size)
      PROVE  Seen
  BY <1>6, TailCallSeen, CallBackSeen
<1>7. ASSUME NEW v \in Values, NativeThrows(v) PROVE Seen
  BY <1>7, NativeThrowsSeen
<1>8. ASSUME NEW g \in Generators, NativeNext(g) PROVE Seen
  BY <1>8, NativeNextSeen
<1>9. ASSUME NEW c \in BOOLEAN, NEW size \in Sizes, Call(size, c) PROVE Seen
  BY <1>9, CallSeen
<1>10. ASSUME NEW c \in BOOLEAN, NEW v \in Values, Throw(v, c) PROVE Seen
  BY <1>10, ThrowSeen
<1>11. ASSUME NEW c \in BOOLEAN, NEW native \in Natives, CallNative(native, c) PROVE Seen
  BY <1>11, CallNativeSeen
<1>12. ASSUME NEW c \in BOOLEAN, Yield(c) PROVE Seen
  BY <1>12, YieldSeen
<1>13. ASSUME NEW c \in BOOLEAN, NEW g \in Generators,
              \/ GeneratorNext(g, c)
              \/ GeneratorReturn(g, c)
              \/ \E v \in Values : GeneratorThrow(g, v, c)
       PROVE  Seen
  BY <1>13, GeneratorNextSeen, GeneratorReturnSeen, GeneratorThrowSeen
<1>14. CASE UNCHANGED frameVars
  <2>1. /\ frames' = frames /\ exception' = exception /\ loops' = loops /\ reply' = reply
        /\ generators' = generators /\ due' = due
    BY <1>14 DEF frameVars
  <2>2. LiveTop' = LiveTop
    BY <2>1 DEF LiveTop
  <2>3. CallsMade' = CallsMade /\ Bodies' = Bodies /\ OutcomeNow' = OutcomeNow
    BY <2>1, <2>2 DEF CallsMade, Bodies, OutcomeNow
  <2> QED
    BY <2>3 DEF Seen, Still
<1>15. ASSUME NEW undefined \in BOOLEAN, Return(undefined) PROVE Seen
  BY <1>15, ReturnSeen
<1> QED
  BY <1>1, <1>2, <1>3, <1>4, <1>5, <1>6, <1>7, <1>8, <1>9, <1>10, <1>11, <1>12, <1>13, <1>14, <1>15
  DEF FramesNext

LEMMA FramesInitSeen ==
  ASSUME FramesInit
  PROVE  CS!CSInit
<1> DEFINE f == Code(0, 1)
<1>1. /\ frames = <<f>> /\ exception = Quiet /\ reply = NoReply
      /\ generators = [g \in Generators |-> [state |-> "start", covered |-> FALSE]]
      /\ loops = <<Loop(1)>>
  BY DEF FramesInit
<1>2. loops # <<>>
  BY <1>1
<1>3. FramesInv
  BY FramesInitGood
<1>4. /\ CallsMade = CallsOf(frames, Len(frames)) /\ Bodies = generators /\ OutcomeNow = "none"
      /\ frames \in Seq(Frame) /\ frames[1].kind = "code"
  BY <1>1, <1>2, <1>3, SeenBefore
<1>5. f.gen = Null
  BY CodeFields
<1> HIDE DEF f
<1>6. Len(frames) = 1 /\ frames[1].gen = Null
  BY <1>1, <1>5
<1>7. CallsOf(frames, 1) = <<[gen |-> Null, covered |-> FALSE]>>
  <2>1. Mirrors(<<>>, <<>>, Len(<<>>))
    BY RankZero DEF Mirrors
  <2>2. <<>> \in Seq(Frame) /\ 1 \in {Len(<<>>) + 1, Len(<<>>) + 2} /\ 1 # Len(<<>>) + 2
        /\ \A i \in 1..Len(<<>>) : frames[i] = <<>>[i]
    OBVIOUS
  <2>3. Append(<<>>, [gen |-> frames[1].gen, covered |-> FALSE]) = CallsOf(frames, 1)
    BY <1>4, <1>6, <2>1, <2>2, CallsGrow
  <2> QED
    BY <1>6, <2>3
<1> QED
  BY <1>1, <1>4, <1>6, <1>7 DEF CS!CSInit, CS!Active, OutcomeNow

(* What TLC checks on small programs holds for all: the frames behave as a *)
(* stack of calls (CallStack), in which native functions are transparent,  *)
(* an exception arrives at the innermost try block around the throw, and   *)
(* the body of a generator is in one place at a time.                      *)
THEOREM FramesKeepCallStack == ASSUME Plain PROVE FramesSpec => KeepsCallStack
<1>1. FramesInit => FramesInv /\ CS!CSInit
  BY FramesInitGood, FramesInitSeen
<1>2. FramesInv /\ [FramesNext]_frameVars => FramesInv'
  BY FramesStep
<1>3. FramesInv /\ FramesInv' /\ [FramesNext]_frameVars =>
        [CS!CSNext]_<<CallsMade, Bodies,
                      IF exception.unwinding /\ due = 0 THEN "error"
                      ELSE IF loops = <<>> THEN reply.status ELSE "none">>
  BY FramesStepSeen DEF Seen, Still, OutcomeNow
<1> QED
  BY <1>1, <1>2, <1>3, PTL DEF FramesSpec, KeepsCallStack, CS!CSSpec
=============================================================================
