--------------------------- MODULE PromisesProofs ---------------------------
(***************************************************************************)
(* Promises keep their contract, for any number of promises, any program   *)
(* and any values.                                                         *)
(***************************************************************************)
EXTENDS Promises, SequenceTheorems, FiniteSetTheorems, TLAPS

-----------------------------------------------------------------------------
(* What is true of the promises and the queue, of which 1..n exist.        *)

Kinds == {"call", "pass", "finally", "adopt", "await"}

ValueOf(n) == Plain \cup 1..n

ReactionsTo(n) == [kind : Kinds, to : 1..n]

JobsTo(n) == [kind : Kinds, to : 1..n, side : Side, val : ValueOf(n), src : 1..n]

Memory(n) ==
    [state      : [Promise -> {"pending"} \cup Side],
     result     : [Promise -> ValueOf(n)],
     reactions  : [Side -> [Promise -> Seq(ReactionsTo(n))]],
     microtasks : Seq(JobsTo(n))]

(* A promise that does not exist yet has no reactions.                     *)
Blank(m, n) ==
    \A p \in Promise : p > n =>
        m.state[p] = "pending" /\ \A s \in Side : m.reactions[s][p] = <<>>

NoneStranded(m) ==
    \A s \in Side, p \in Promise : m.state[p] = s => m.reactions[s][p] = <<>>

PlainFulfilled(m) ==
    \A p \in Promise : m.state[p] = "fulfilled" => m.result[p] \in Plain

Carries(j, m) == j.side = m.state[j.src] /\ j.val = m.result[j.src]

Sound(m, n) ==
    /\ m \in Memory(n)
    /\ Blank(m, n)
    /\ NoneStranded(m)
    /\ PlainFulfilled(m)
    /\ \A i \in 1..Len(m.microtasks) : Carries(m.microtasks[i], m)

(* Reaction i to outcome s of the pending promise p is for q.              *)
At(m, q, s, p, i) ==
    /\ m.state[p] = "pending"
    /\ i \in 1..Len(m.reactions[s][p])
    /\ m.reactions[s][p][i].to = q

(* It continues q: a handler of q or the rest of its body.                 *)
WaitsAt(m, q, s, p, i) == At(m, q, s, p, i) /\ m.reactions[s][p][i].kind # "adopt"

JobAt(m, q, i) == i \in 1..Len(m.microtasks) /\ m.microtasks[i].to = q

ContinuesAt(m, q, i) == JobAt(m, q, i) /\ m.microtasks[i].kind # "adopt"

(* The continuation of q has at most one place in the memory: reactions on *)
(* one promise, at most one for each side, or one microtask.               *)
OnePlace(m, q) ==
    /\ \A s, t \in Side, p, r \in Promise, i, j \in Nat :
          WaitsAt(m, q, s, p, i) /\ WaitsAt(m, q, t, r, j) => p = r /\ (s = t => i = j)
    /\ \A i, j \in Nat : ContinuesAt(m, q, i) /\ ContinuesAt(m, q, j) => i = j
    /\ \A s \in Side, p \in Promise, i, j \in Nat :
          ~(WaitsAt(m, q, s, p, i) /\ ContinuesAt(m, q, j))

(* Who waits for one outcome of a promise waits for the other.             *)
Symmetric(m) ==
    \A q, p \in Promise, s, t \in Side, i \in Nat :
        WaitsAt(m, q, s, p, i) => \E j \in Nat : WaitsAt(m, q, t, p, j)

(* The promises whose outcome the continuation of q waits for or has got.  *)
Sources(m, q) ==
    {p \in Promise :
        \/ \E s \in Side, i \in Nat : WaitsAt(m, q, s, p, i)
        \/ \E i \in Nat : ContinuesAt(m, q, i) /\ m.microtasks[i].src = p}

(* Something in the memory will settle q, whatever happens.                *)
Held(m, q) ==
    \/ \E i \in Nat : JobAt(m, q, i)
    \/ \E p \in Promise : \A s \in Side : \E i \in Nat : At(m, q, s, p, i)

(* Something of kind k for q is waiting or scheduled.                      *)
Refers(m, q, k) ==
    \/ \E s \in Side, p \in Promise, i \in Nat :
          At(m, q, s, p, i) /\ m.reactions[s][p][i].kind = k
    \/ \E i \in Nat : JobAt(m, q, i) /\ m.microtasks[i].kind = k

(* What changes when q is resolved or rejected, and what does not.         *)
Passes(m, m1, n, q) ==
    /\ Sound(m1, n)
    /\ \A p \in Promise : p # q \/ m.state[p] # "pending" =>
          m1.state[p] = m.state[p] /\ m1.result[p] = m.result[p]
    /\ \A x \in Promise :
          /\ OnePlace(m, x) => OnePlace(m1, x)
          /\ Sources(m1, x) \subseteq Sources(m, x)
          /\ Symmetric(m) => Sources(m, x) \subseteq Sources(m1, x)
          /\ Held(m, x) => Held(m1, x)
          /\ \A k \in Kinds :
                Refers(m1, x, k) => Refers(m, x, k) \/ (x = q /\ k = "adopt")
    /\ Symmetric(m) => Symmetric(m1)
    /\ m1.state[q] # "pending" \/ Held(m1, q)

-----------------------------------------------------------------------------
(* The three ways in which the memory changes: a promise settles, a        *)
(* reaction is added, a microtask is scheduled.                            *)

LEMMA PromisesAreNumbers == Promise \subseteq Nat \ {0}
  BY ConstantsAssumption DEF Promise

LEMMA Concatenation ==
  ASSUME NEW S, NEW a \in Seq(S), NEW b \in Seq(S)
  PROVE  /\ a \o b \in Seq(S)
         /\ Len(a \o b) = Len(a) + Len(b)
         /\ \A i \in 1..Len(a) : (a \o b)[i] = a[i]
         /\ \A i \in 1..Len(b) : (a \o b)[Len(a) + i] = b[i]
<1>1. Len(a) \in Nat /\ Len(b) \in Nat
  BY LenProperties
<1>2. /\ a \o b \in Seq(S)
      /\ Len(a \o b) = Len(a) + Len(b)
      /\ \A i \in 1..(Len(a) + Len(b)) :
            (a \o b)[i] = IF i <= Len(a) THEN a[i] ELSE b[i - Len(a)]
  BY ConcatProperties
<1> QED
  BY <1>1, <1>2

LEMMA MemoryRewritten ==
  ASSUME NEW n, NEW m \in Memory(n),
         NEW st \in [Promise -> {"pending"} \cup Side], NEW re \in [Promise -> ValueOf(n)],
         NEW rs \in [Side -> [Promise -> Seq(ReactionsTo(n))]], NEW q \in Seq(JobsTo(n)),
         NEW m1, m1 = [m EXCEPT !.state = st, !.result = re, !.reactions = rs, !.microtasks = q]
  PROVE  /\ m1 \in Memory(n)
         /\ m1.state = st /\ m1.result = re /\ m1.reactions = rs /\ m1.microtasks = q
  BY DEF Memory

HasTriggered(m, m1, n, p, s) ==
    /\ m1 \in Memory(n)
    /\ m1.state = m.state /\ m1.result = m.result
    /\ \A t \in Side, x \in Promise :
          m1.reactions[t][x] = IF t = s /\ x = p THEN <<>> ELSE m.reactions[t][x]
    /\ Len(m1.microtasks) = Len(m.microtasks) + Len(m.reactions[s][p])
    /\ \A i \in 1..Len(m.microtasks) : m1.microtasks[i] = m.microtasks[i]
    /\ \A i \in 1..Len(m.reactions[s][p]) :
          m1.microtasks[Len(m.microtasks) + i] = Job(m.reactions[s][p][i], s, m.result[p], p)

LEMMA TriggerShape ==
  ASSUME NEW n \in 0..NumPromises, NEW m \in Memory(n), NEW p \in 1..n, NEW s \in Side
  PROVE  HasTriggered(m, triggerPromiseReactions(m, p, s), n, p, s)
<1> DEFINE l == m.reactions[s][p]
           v == m.result[p]
           mt == m.microtasks
           m1 == triggerPromiseReactions(m, p, s)
           js == [i \in DOMAIN l |-> Job(l[i], s, v, p)]
           rs == [m.reactions EXCEPT ![s][p] = <<>>]
<1>1. p \in Promise /\ 1..n \subseteq Promise
  BY ConstantsAssumption DEF Promise
<1>2. l \in Seq(ReactionsTo(n)) /\ mt \in Seq(JobsTo(n)) /\ v \in ValueOf(n)
  BY <1>1 DEF Memory
<1>3. Len(l) \in Nat /\ DOMAIN l = 1..Len(l) /\ \A i \in 1..Len(l) : l[i] \in ReactionsTo(n)
  BY <1>2, LenProperties, ElementOfSeq
<1> HIDE DEF v
<1>4. \A i \in 1..Len(l) : Job(l[i], s, v, p) \in JobsTo(n)
  BY <1>2, <1>3 DEF Job, JobsTo, ReactionsTo
<1>5. js \in [1..Len(l) -> JobsTo(n)]
  BY <1>3, <1>4
<1>6. js \in Seq(JobsTo(n)) /\ Len(js) = Len(l)
  <2>1. js \in Seq(JobsTo(n))
    BY <1>3, <1>5, SeqDef
  <2> QED
    BY <1>3, <1>5, <2>1, LenProperties
<1>7. \A i \in 1..Len(l) : js[i] = Job(l[i], s, v, p)
  BY <1>3
<1>8. m1 = [m EXCEPT !.reactions = rs, !.microtasks = mt \o js]
  BY DEF triggerPromiseReactions, v
<1> HIDE DEF js, mt, m1
<1>9. /\ mt \o js \in Seq(JobsTo(n))
      /\ Len(mt \o js) = Len(mt) + Len(js)
      /\ \A i \in 1..Len(mt) : (mt \o js)[i] = mt[i]
      /\ \A i \in 1..Len(js) : (mt \o js)[Len(mt) + i] = js[i]
  <2>1. mt \o js \in Seq(JobsTo(n)) /\ Len(mt \o js) = Len(mt) + Len(js)
    BY <1>2, <1>6, Concatenation
  <2>2. \A i \in 1..Len(mt) : (mt \o js)[i] = mt[i]
    BY <1>2, <1>6, Concatenation
  <2>3. \A i \in 1..Len(js) : (mt \o js)[Len(mt) + i] = js[i]
    BY <1>2, <1>6, Concatenation
  <2> QED
    BY <2>1, <2>2, <2>3
<1>10. rs \in [Side -> [Promise -> Seq(ReactionsTo(n))]]
  <2>1. <<>> \in Seq(ReactionsTo(n))
    BY EmptySeq
  <2> QED
    BY <1>1, <2>1 DEF Memory
<1>11. \A t \in Side, x \in Promise :
          rs[t][x] = IF t = s /\ x = p THEN <<>> ELSE m.reactions[t][x]
  BY <1>1 DEF Memory
<1> HIDE DEF rs
<1>12. /\ m1.state = m.state /\ m1.result = m.result /\ m1.reactions = rs
       /\ m1.microtasks = mt \o js /\ m1 \in Memory(n)
  BY <1>8, <1>9, <1>10 DEF Memory
<1> QED
  BY <1>6, <1>7, <1>9, <1>11, <1>12 DEF HasTriggered, m1, mt, v

HasSettled(m, m1, n, p, s, v) ==
    /\ m1 \in Memory(n)
    /\ m1.state = [m.state EXCEPT ![p] = s]
    /\ m1.result = [m.result EXCEPT ![p] = v]
    /\ \A t \in Side, x \in Promise :
          m1.reactions[t][x] = IF t = s /\ x = p THEN <<>> ELSE m.reactions[t][x]
    /\ Len(m1.microtasks) = Len(m.microtasks) + Len(m.reactions[s][p])
    /\ \A i \in 1..Len(m.microtasks) : m1.microtasks[i] = m.microtasks[i]
    /\ \A i \in 1..Len(m.reactions[s][p]) :
          m1.microtasks[Len(m.microtasks) + i] = Job(m.reactions[s][p][i], s, v, p)

LEMMA SettleShape ==
  ASSUME NEW n \in 0..NumPromises, NEW m \in Memory(n), NEW p \in 1..n, NEW s \in Side,
         NEW v \in ValueOf(n), m.state[p] = "pending"
  PROVE  HasSettled(m, Settle(m, p, s, v), n, p, s, v)
<1> DEFINE m0 == [m EXCEPT !.state[p] = s, !.result[p] = v]
<1>1. p \in Promise
  BY ConstantsAssumption DEF Promise
<1>2. m.state \in [Promise -> {"pending"} \cup Side] /\ m.result \in [Promise -> ValueOf(n)]
  BY DEF Memory
<1>3. /\ m0.state = [m.state EXCEPT ![p] = s] /\ m0.result = [m.result EXCEPT ![p] = v]
      /\ m0.reactions = m.reactions /\ m0.microtasks = m.microtasks
      /\ m0 \in Memory(n)
  BY <1>1 DEF Memory
<1>4. Settle(m, p, s, v) = triggerPromiseReactions(m0, p, s)
  BY DEF Settle
<1> HIDE DEF m0
<1>5. HasTriggered(m0, Settle(m, p, s, v), n, p, s)
  BY <1>3, <1>4, TriggerShape
<1>6. m0.result[p] = v
  BY <1>1, <1>2, <1>3
<1> QED
  BY <1>3, <1>5, <1>6 DEF HasTriggered, HasSettled

LEMMA Appending ==
  ASSUME NEW S, NEW a \in Seq(S), NEW e \in S
  PROVE  /\ Append(a, e) \in Seq(S)
         /\ Len(Append(a, e)) = Len(a) + 1
         /\ \A i \in 1..Len(a) : Append(a, e)[i] = a[i]
         /\ Append(a, e)[Len(a) + 1] = e
         /\ Len(a) \in Nat
  BY AppendProperties, LenProperties

HasAdded(m, m1, n, p, s, r) ==
    /\ m1 \in Memory(n)
    /\ m1.state = m.state /\ m1.result = m.result /\ m1.microtasks = m.microtasks
    /\ \A t \in Side, x \in Promise :
          m1.reactions[t][x] = IF t = s /\ x = p THEN Append(m.reactions[s][p], r)
                               ELSE m.reactions[t][x]

LEMMA AddShape ==
  ASSUME NEW n \in 0..NumPromises, NEW m \in Memory(n), NEW p \in Promise, NEW s \in Side,
         NEW r \in ReactionsTo(n)
  PROVE  HasAdded(m, [m EXCEPT !.reactions[s][p] = Append(@, r)], n, p, s, r)
<1> DEFINE m1 == [m EXCEPT !.reactions[s][p] = Append(@, r)]
           rs == [m.reactions EXCEPT ![s][p] = Append(m.reactions[s][p], r)]
<1>1. m.reactions \in [Side -> [Promise -> Seq(ReactionsTo(n))]]
  BY DEF Memory
<1>2. Append(m.reactions[s][p], r) \in Seq(ReactionsTo(n))
  BY <1>1, Appending
<1>3. rs \in [Side -> [Promise -> Seq(ReactionsTo(n))]]
  BY <1>1, <1>2
<1>4. m1 = [m EXCEPT !.reactions = rs]
  BY DEF Memory
<1> HIDE DEF m1
<1>5. \A t \in Side, x \in Promise :
          rs[t][x] = IF t = s /\ x = p THEN Append(m.reactions[s][p], r)
                     ELSE m.reactions[t][x]
  BY <1>1
<1> HIDE DEF rs
<1>6. /\ m1.state = m.state /\ m1.result = m.result /\ m1.reactions = rs
      /\ m1.microtasks = m.microtasks /\ m1 \in Memory(n)
  BY <1>3, <1>4 DEF Memory
<1> QED
  BY <1>5, <1>6 DEF HasAdded, m1

LEMMA ScheduleShape ==
  ASSUME NEW n \in 0..NumPromises, NEW m \in Memory(n), NEW j \in JobsTo(n),
         NEW m1, m1 = [m EXCEPT !.microtasks = Append(@, j)]
  PROVE  /\ m1 \in Memory(n)
         /\ m1.state = m.state /\ m1.result = m.result /\ m1.reactions = m.reactions
         /\ Len(m1.microtasks) = Len(m.microtasks) + 1
         /\ \A i \in 1..Len(m.microtasks) : m1.microtasks[i] = m.microtasks[i]
         /\ m1.microtasks[Len(m.microtasks) + 1] = j
<1>1. m.microtasks \in Seq(JobsTo(n))
  BY DEF Memory
<1>2. /\ Append(m.microtasks, j) \in Seq(JobsTo(n))
      /\ Len(Append(m.microtasks, j)) = Len(m.microtasks) + 1
      /\ \A i \in 1..Len(m.microtasks) : Append(m.microtasks, j)[i] = m.microtasks[i]
      /\ Append(m.microtasks, j)[Len(m.microtasks) + 1] = j
  BY <1>1, Appending
<1>3. m1 \in Memory(n) /\ m1.microtasks = Append(m.microtasks, j)
  BY <1>2 DEF Memory
<1>4. m1.state = m.state /\ m1.result = m.result /\ m1.reactions = m.reactions
  BY DEF Memory
<1> QED
  BY <1>2, <1>3, <1>4
-----------------------------------------------------------------------------
(* Settling.                                                               *)

(* What is on the list of the side that p settles on is scheduled, what is *)
(* elsewhere stays there, and the list of the other side is dead.          *)
Moves(m, m1, p, s) ==
    /\ \A q, x \in Promise, t \in Side, i \in Nat :
          At(m1, q, t, x, i) <=> x # p /\ At(m, q, t, x, i)
    /\ \A x \in Promise, t \in Side : x # p => m1.reactions[t][x] = m.reactions[t][x]
    /\ \A q \in Promise, i \in Nat :
          JobAt(m, q, i) => JobAt(m1, q, i) /\ m1.microtasks[i] = m.microtasks[i]
    /\ \A q \in Promise, i \in Nat : At(m, q, s, p, i) =>
          LET j == Len(m.microtasks) + i
          IN  /\ j \in Nat /\ JobAt(m1, q, j)
              /\ m1.microtasks[j].kind = m.reactions[s][p][i].kind
              /\ m1.microtasks[j].src = p
    /\ \A q \in Promise, j \in Nat : JobAt(m1, q, j) =>
          \/ JobAt(m, q, j) /\ m1.microtasks[j] = m.microtasks[j]
          \/ \E i \in Nat : /\ At(m, q, s, p, i) /\ j = Len(m.microtasks) + i
                            /\ m1.microtasks[j].kind = m.reactions[s][p][i].kind
                            /\ m1.microtasks[j].src = p

LEMMA SettleMoves ==
  ASSUME NEW n \in 0..NumPromises, NEW m, Sound(m, n), NEW p \in 1..n, NEW s \in Side,
         NEW v \in ValueOf(n), m.state[p] = "pending"
  PROVE  Moves(m, Settle(m, p, s, v), p, s)
<1> DEFINE m1 == Settle(m, p, s, v)
           l == m.reactions[s][p]
           L == Len(m.microtasks)
           K == Len(l)
<1>1. p \in Promise /\ m \in Memory(n)
  BY ConstantsAssumption DEF Promise, Sound
<1>2. L \in Nat /\ K \in Nat
  <2>1. m.microtasks \in Seq(JobsTo(n)) /\ l \in Seq(ReactionsTo(n))
    BY <1>1 DEF Memory
  <2> QED
    BY <2>1, LenProperties
<1>3. /\ m1.state = [m.state EXCEPT ![p] = s]
      /\ \A t \in Side, x \in Promise :
            m1.reactions[t][x] = IF t = s /\ x = p THEN <<>> ELSE m.reactions[t][x]
      /\ Len(m1.microtasks) = L + K
      /\ \A i \in 1..L : m1.microtasks[i] = m.microtasks[i]
      /\ \A i \in 1..K : m1.microtasks[L + i] = Job(l[i], s, v, p)
  <2>1. HasSettled(m, m1, n, p, s, v)
    BY <1>1, SettleShape
  <2> QED
    BY <2>1 DEF HasSettled
<1> HIDE DEF m1
<1>4. m1.state[p] # "pending" /\ \A x \in Promise : x # p => m1.state[x] = m.state[x]
  BY <1>1, <1>3 DEF Memory, Side
<1>5. \A x \in Promise, t \in Side : x # p => m1.reactions[t][x] = m.reactions[t][x]
  BY <1>3
<1>6. \A q, x \in Promise, t \in Side, i \in Nat :
          At(m1, q, t, x, i) <=> x # p /\ At(m, q, t, x, i)
  BY <1>4, <1>5 DEF At
<1> HIDE DEF L, K, l, m1
<1>7. ASSUME NEW i \in 1..K
      PROVE  /\ m1.microtasks[L + i].to = l[i].to
             /\ m1.microtasks[L + i].kind = l[i].kind
             /\ m1.microtasks[L + i].src = p
  <2>1. m1.microtasks[L + i] = Job(l[i], s, v, p)
    BY <1>3
  <2> QED
    BY <2>1 DEF Job
<1>8. \A q \in Promise, i \in Nat :
          JobAt(m, q, i) => JobAt(m1, q, i) /\ m1.microtasks[i] = m.microtasks[i]
  BY <1>2, <1>3 DEF JobAt, L
<1>9. ASSUME NEW q \in Promise, NEW i \in Nat, At(m, q, s, p, i)
      PROVE  /\ L + i \in Nat /\ JobAt(m1, q, L + i)
             /\ m1.microtasks[L + i].kind = l[i].kind
             /\ m1.microtasks[L + i].src = p
  <2>1. i \in 1..K /\ l[i].to = q
    BY <1>9 DEF At, K, l
  <2>2. L + i \in 1..(L + K)
    BY <1>2, <2>1
  <2> QED
    BY <1>2, <1>3, <1>7, <2>1, <2>2 DEF JobAt
<1>10. ASSUME NEW q \in Promise, NEW j \in Nat, JobAt(m1, q, j)
       PROVE  \/ JobAt(m, q, j) /\ m1.microtasks[j] = m.microtasks[j]
              \/ \E i \in Nat :
                    /\ At(m, q, s, p, i) /\ j = L + i
                    /\ m1.microtasks[j].kind = l[i].kind
                    /\ m1.microtasks[j].src = p
  <2>1. j \in 1..(L + K)
    BY <1>3, <1>10 DEF JobAt
  <2>2. CASE j \in 1..L
    BY <1>3, <1>10, <2>2 DEF JobAt, L
  <2>3. CASE j \notin 1..L
    <3>1. j - L \in 1..K /\ j = L + (j - L) /\ j - L \in Nat
      BY <1>2, <2>1, <2>3
    <3>2. PICK i \in 1..K : j = L + i /\ i \in Nat
      BY <3>1
    <3>3. m1.microtasks[j].to = q
      BY <1>10 DEF JobAt
    <3>4. At(m, q, s, p, i)
      BY <1>7, <3>2, <3>3 DEF At, K, l
    <3> QED
      BY <1>7, <3>2, <3>4
  <2> QED
    BY <2>2, <2>3
<1> QED
  BY <1>5, <1>6, <1>8, <1>9, <1>10 DEF L, l, m1, Moves

LEMMA SettleKeepsSound ==
  ASSUME NEW n \in 0..NumPromises, NEW m, Sound(m, n), NEW p \in 1..n, NEW s \in Side,
         NEW v \in ValueOf(n), m.state[p] = "pending", s = "fulfilled" => v \in Plain
  PROVE  /\ Sound(Settle(m, p, s, v), n)
         /\ \A x \in Promise : x # p =>
               /\ Settle(m, p, s, v).state[x] = m.state[x]
               /\ Settle(m, p, s, v).result[x] = m.result[x]
         /\ Settle(m, p, s, v).state[p] = s /\ Settle(m, p, s, v).result[p] = v
<1> DEFINE m1 == Settle(m, p, s, v)
           l == m.reactions[s][p]
           L == Len(m.microtasks)
           K == Len(l)
<1>1. p \in Promise /\ 1..n \subseteq Promise /\ n \in Nat /\ Promise \subseteq Nat
  BY ConstantsAssumption DEF Promise
<1>2. m \in Memory(n)
  BY DEF Sound
<1>3. HasSettled(m, m1, n, p, s, v)
  BY <1>2, SettleShape
<1> HIDE DEF m1
<1>4. /\ m.state \in [Promise -> {"pending"} \cup Side] /\ m.result \in [Promise -> ValueOf(n)]
      /\ m.microtasks \in Seq(JobsTo(n)) /\ l \in Seq(ReactionsTo(n))
  BY <1>1, <1>2 DEF Memory
<1>5. L \in Nat /\ K \in Nat /\ \A i \in 1..L : m.microtasks[i] \in JobsTo(n)
  BY <1>4, LenProperties, ElementOfSeq
<1> HIDE DEF L, K, l
<1>6. /\ \A x \in Promise : x # p => m1.state[x] = m.state[x] /\ m1.result[x] = m.result[x]
      /\ m1.state[p] = s /\ m1.result[p] = v
  BY <1>1, <1>3, <1>4 DEF HasSettled
<1>7. Blank(m1, n)
  BY <1>1, <1>3, <1>6 DEF Blank, Sound, HasSettled
<1>8. NoneStranded(m1)
  BY <1>3, <1>6 DEF NoneStranded, Sound, HasSettled
<1>9. PlainFulfilled(m1)
  BY <1>6 DEF PlainFulfilled, Sound
<1>10. ASSUME NEW j \in 1..Len(m1.microtasks)
       PROVE  Carries(m1.microtasks[j], m1)
  <2>1. j \in 1..(L + K)
    BY <1>3 DEF HasSettled, L, K, l
  <2>2. CASE j \in 1..L
    <3>1. /\ m1.microtasks[j] = m.microtasks[j] /\ Carries(m.microtasks[j], m)
          /\ m.microtasks[j].src \in 1..n /\ m.microtasks[j].side \in Side
      BY <1>3, <1>5, <2>2 DEF HasSettled, Sound, L, JobsTo
    <3>2. m.microtasks[j].src # p
      BY <3>1 DEF Carries, Side
    <3> QED
      BY <1>1, <1>6, <3>1, <3>2 DEF Carries
  <2>3. CASE j \notin 1..L
    <3>1. j - L \in 1..K /\ L + (j - L) = j
      BY <1>5, <2>1, <2>3
    <3>2. m1.microtasks[j] = Job(l[j - L], s, v, p)
      BY <1>3, <3>1 DEF HasSettled, L, K, l
    <3> QED
      BY <1>6, <3>2 DEF Carries, Job
  <2> QED
    BY <2>2, <2>3
<1>11. m1 \in Memory(n)
  BY <1>3 DEF HasSettled
<1> QED
  BY <1>6, <1>7, <1>8, <1>9, <1>10, <1>11 DEF Sound, m1

LEMMA SettlePasses ==
  ASSUME NEW n \in 0..NumPromises, NEW m, Sound(m, n), NEW p \in 1..n, NEW s \in Side,
         NEW v \in ValueOf(n), m.state[p] = "pending", s = "fulfilled" => v \in Plain
  PROVE  Passes(m, Settle(m, p, s, v), n, p)
<1> DEFINE m1 == Settle(m, p, s, v)
           L == Len(m.microtasks)
<1>1. p \in Promise /\ L \in Nat
  <2>1. p \in Promise
    BY ConstantsAssumption DEF Promise
  <2>2. m.microtasks \in Seq(JobsTo(n))
    BY DEF Sound, Memory
  <2> QED
    BY <2>1, <2>2, LenProperties
<1>2. Moves(m, m1, p, s)
  BY SettleMoves
<1>3. /\ Sound(m1, n)
      /\ \A x \in Promise : x # p => m1.state[x] = m.state[x] /\ m1.result[x] = m.result[x]
      /\ m1.state[p] = s /\ m1.result[p] = v
  BY SettleKeepsSound
<1> HIDE DEF m1
<1>4. \A x, r \in Promise, t \in Side, i \in Nat :
          WaitsAt(m1, x, t, r, i) <=> r # p /\ WaitsAt(m, x, t, r, i)
  BY <1>2 DEF Moves, WaitsAt
<1>5. ASSUME NEW x \in Promise, NEW j \in Nat, ContinuesAt(m1, x, j)
      PROVE  \/ ContinuesAt(m, x, j) /\ m1.microtasks[j] = m.microtasks[j]
             \/ \E i \in Nat : /\ WaitsAt(m, x, s, p, i) /\ j = L + i
                               /\ m1.microtasks[j].src = p
  BY <1>2, <1>5 DEF Moves, WaitsAt, ContinuesAt
<1>6. \A x \in Promise, i \in Nat :
          ContinuesAt(m, x, i) => ContinuesAt(m1, x, i) /\ m1.microtasks[i] = m.microtasks[i]
  BY <1>2 DEF Moves, ContinuesAt
<1>7. \A x \in Promise, i \in Nat :
          WaitsAt(m, x, s, p, i) =>
              L + i \in Nat /\ ContinuesAt(m1, x, L + i) /\ m1.microtasks[L + i].src = p
  BY <1>2 DEF Moves, WaitsAt, ContinuesAt
<1> HIDE DEF L
<1>8. ASSUME NEW x \in Promise, OnePlace(m, x)
      PROVE  OnePlace(m1, x)
  <2>1. ASSUME NEW i \in Nat, NEW j \in Nat, ContinuesAt(m1, x, i), ContinuesAt(m1, x, j)
        PROVE  i = j
    BY <1>1, <1>5, <1>8, <2>1 DEF OnePlace
  <2>2. \A t \in Side, r \in Promise, i, j \in Nat :
            ~(WaitsAt(m1, x, t, r, i) /\ ContinuesAt(m1, x, j))
    BY <1>1, <1>4, <1>5, <1>8 DEF OnePlace
  <2>3. \A t, u \in Side, r, y \in Promise, i, j \in Nat :
            WaitsAt(m1, x, t, r, i) /\ WaitsAt(m1, x, u, y, j) => r = y /\ (t = u => i = j)
    BY <1>4, <1>8 DEF OnePlace
  <2> QED
    BY <2>1, <2>2, <2>3 DEF OnePlace
<1>9. ASSUME NEW x \in Promise, NEW r \in Sources(m1, x)
      PROVE  r \in Sources(m, x)
  BY <1>1, <1>4, <1>5, <1>9 DEF Sources
<1>10. ASSUME Symmetric(m), NEW x \in Promise, NEW r \in Sources(m, x)
       PROVE  r \in Sources(m1, x)
  <2>1. CASE \E i \in Nat : ContinuesAt(m, x, i) /\ m.microtasks[i].src = r
    BY <1>6, <2>1 DEF Sources
  <2>2. CASE \E t \in Side, i \in Nat : WaitsAt(m, x, t, r, i)
    <3>1. CASE r = p
      <4>1. \E i \in Nat : WaitsAt(m, x, s, p, i)
        BY <1>1, <1>10, <2>2, <3>1 DEF Symmetric
      <4> QED
        BY <1>1, <1>7, <3>1, <4>1 DEF Sources
    <3>2. CASE r # p
      BY <1>4, <2>2, <3>2 DEF Sources
    <3> QED
      BY <3>1, <3>2
  <2> QED
    BY <2>1, <2>2 DEF Sources
<1>11. ASSUME NEW x \in Promise, Held(m, x)
       PROVE  Held(m1, x)
  <2>1. CASE \E i \in Nat : JobAt(m, x, i)
    BY <1>2, <2>1 DEF Moves, Held
  <2>2. CASE \E r \in Promise : \A t \in Side : \E i \in Nat : At(m, x, t, r, i)
    <3>1. PICK r \in Promise : \A t \in Side : \E i \in Nat : At(m, x, t, r, i)
      BY <2>2
    <3>2. CASE r = p
      BY <1>2, <3>1, <3>2 DEF Moves, Held
    <3>3. CASE r # p
      BY <1>2, <3>1, <3>3 DEF Moves, Held
    <3> QED
      BY <3>2, <3>3
  <2> QED
    BY <1>11, <2>1, <2>2 DEF Held
<1>12. ASSUME NEW x \in Promise, NEW k \in Kinds, Refers(m1, x, k)
       PROVE  Refers(m, x, k)
  <2>1. CASE \E t \in Side, r \in Promise, i \in Nat :
                 At(m1, x, t, r, i) /\ m1.reactions[t][r][i].kind = k
    BY <1>2, <2>1 DEF Moves, Refers
  <2>2. CASE \E i \in Nat : JobAt(m1, x, i) /\ m1.microtasks[i].kind = k
    <3>1. PICK i \in Nat : JobAt(m1, x, i) /\ m1.microtasks[i].kind = k
      BY <2>2
    <3>2. CASE JobAt(m, x, i) /\ m1.microtasks[i] = m.microtasks[i]
      BY <3>1, <3>2 DEF Refers
    <3>3. CASE \E j \in Nat : /\ At(m, x, s, p, j)
                              /\ m1.microtasks[i].kind = m.reactions[s][p][j].kind
      BY <1>1, <3>1, <3>3 DEF Refers
    <3>4. \/ JobAt(m, x, i) /\ m1.microtasks[i] = m.microtasks[i]
          \/ \E j \in Nat : /\ At(m, x, s, p, j)
                            /\ m1.microtasks[i].kind = m.reactions[s][p][j].kind
      <4>1. JobAt(m1, x, i)
        BY <3>1
      <4> QED
        BY <1>2, <4>1 DEF Moves
    <3> QED
      BY <3>2, <3>3, <3>4
  <2> QED
    BY <1>12, <2>1, <2>2 DEF Refers
<1>13. Symmetric(m) => Symmetric(m1)
  BY <1>4 DEF Symmetric
<1>14. m1.state[p] # "pending"
  BY <1>3 DEF Side
<1>15. \A r \in Promise : r # p \/ m.state[r] # "pending" =>
           m1.state[r] = m.state[r] /\ m1.result[r] = m.result[r]
  BY <1>3
<1> QED
  BY <1>3, <1>8, <1>9, <1>10, <1>11, <1>12, <1>13, <1>14, <1>15 DEF Passes, m1

-----------------------------------------------------------------------------
(* Adding a reaction and scheduling a microtask.                           *)

(* The reaction is at the end of its list, where it counts if the promise  *)
(* is pending.                                                             *)
Adds(m, m1, p, s, r) ==
    LET new == Len(m.reactions[s][p]) + 1
    IN  /\ m1.state = m.state /\ m1.result = m.result /\ m1.microtasks = m.microtasks
        /\ new \in Nat
        /\ m1.reactions[s][p][new] = r
        /\ \A q, x \in Promise, t \in Side, i \in Nat :
              At(m, q, t, x, i) => /\ m1.reactions[t][x][i] = m.reactions[t][x][i]
                                   /\ ~(t = s /\ x = p /\ i = new)
        /\ \A q, x \in Promise, t \in Side, i \in Nat :
              At(m1, q, t, x, i) <=>
                  \/ At(m, q, t, x, i)
                  \/ /\ t = s /\ x = p /\ i = new
                     /\ m.state[p] = "pending" /\ q = r.to

(* The microtask is the last one.                                          *)
Schedules(m, m1, j) ==
    LET new == Len(m.microtasks) + 1
    IN  /\ m1.state = m.state /\ m1.result = m.result
        /\ \A x \in Promise, t \in Side : m1.reactions[t][x] = m.reactions[t][x]
        /\ new \in Nat
        /\ m1.microtasks[new] = j
        /\ \A q \in Promise, i \in Nat :
              JobAt(m, q, i) => m1.microtasks[i] = m.microtasks[i] /\ i # new
        /\ \A q \in Promise, i \in Nat :
              JobAt(m1, q, i) <=> JobAt(m, q, i) \/ (i = new /\ q = j.to)

LEMMA AppendAdds ==
  ASSUME NEW n \in 0..NumPromises, NEW m, Sound(m, n), NEW p \in 1..n, NEW s \in Side,
         NEW r \in ReactionsTo(n), m.state[p] # s
  PROVE  /\ Sound([m EXCEPT !.reactions[s][p] = Append(@, r)], n)
         /\ Adds(m, [m EXCEPT !.reactions[s][p] = Append(@, r)], p, s, r)
<1> DEFINE m1 == [m EXCEPT !.reactions[s][p] = Append(@, r)]
           l  == m.reactions[s][p]
<1>1. p \in Promise /\ m \in Memory(n) /\ n \in Nat /\ Promise \subseteq Nat
  BY ConstantsAssumption DEF Promise, Sound
<1>2. /\ m1 \in Memory(n)
      /\ m1.state = m.state /\ m1.result = m.result /\ m1.microtasks = m.microtasks
      /\ \A t \in Side, x \in Promise :
            m1.reactions[t][x] = IF t = s /\ x = p THEN Append(l, r) ELSE m.reactions[t][x]
  <2>1. HasAdded(m, m1, n, p, s, r)
    BY <1>1, AddShape
  <2> QED
    BY <2>1 DEF HasAdded
<1>3. l \in Seq(ReactionsTo(n))
  BY <1>1 DEF Memory
<1> HIDE DEF m1
<1>4. /\ Len(l) \in Nat
      /\ Len(Append(l, r)) = Len(l) + 1
      /\ \A i \in 1..Len(l) : Append(l, r)[i] = l[i]
      /\ Append(l, r)[Len(l) + 1] = r
  <2> HIDE DEF l
  <2> QED
    BY <1>3, Appending
<1>5. ASSUME NEW q \in Promise, NEW x \in Promise, NEW t \in Side, NEW i \in Nat
      PROVE  /\ At(m, q, t, x, i) => /\ m1.reactions[t][x][i] = m.reactions[t][x][i]
                                     /\ ~(t = s /\ x = p /\ i = Len(l) + 1)
             /\ At(m1, q, t, x, i) <=>
                    \/ At(m, q, t, x, i)
                    \/ /\ t = s /\ x = p /\ i = Len(l) + 1
                       /\ m.state[p] = "pending" /\ q = r.to
  <2>1. CASE t = s /\ x = p
    <3>1. m1.reactions[t][x] = Append(l, r) /\ m.reactions[t][x] = l
      BY <1>1, <1>2, <2>1
    <3>2. At(m, q, t, x, i) <=> m.state[p] = "pending" /\ i \in 1..Len(l) /\ l[i].to = q
      BY <2>1, <3>1 DEF At
    <3>3. At(m1, q, t, x, i) <=>
              /\ m.state[p] = "pending" /\ i \in 1..(Len(l) + 1)
              /\ Append(l, r)[i].to = q
      BY <1>2, <1>4, <2>1, <3>1 DEF At
    <3> HIDE DEF l
    <3>4. i \in 1..(Len(l) + 1) <=> i \in 1..Len(l) \/ i = Len(l) + 1
      BY <1>4
    <3>5. i \in 1..Len(l) => i # Len(l) + 1
      BY <1>4
    <3> QED
      BY <1>4, <2>1, <3>1, <3>2, <3>3, <3>4, <3>5
  <2>2. CASE ~(t = s /\ x = p)
    BY <1>2, <2>2 DEF At
  <2> QED
    BY <2>1, <2>2
<1>6. Adds(m, m1, p, s, r)
  <2>1. Len(l) + 1 \in Nat /\ m1.reactions[s][p][Len(l) + 1] = r
    <3>1. m1.reactions[s][p] = Append(l, r)
      BY <1>1, <1>2
    <3> HIDE DEF l
    <3> QED
      BY <1>4, <3>1
  <2> QED
    BY <1>2, <1>5, <2>1 DEF Adds
<1>7. Blank(m1, n) /\ NoneStranded(m1) /\ PlainFulfilled(m1)
  <2>1. Blank(m1, n)
    BY <1>1, <1>2 DEF Blank, Sound
  <2>2. NoneStranded(m1)
    BY <1>1, <1>2 DEF NoneStranded, Sound
  <2>3. PlainFulfilled(m1)
    BY <1>1, <1>2 DEF PlainFulfilled, Sound
  <2> QED
    BY <2>1, <2>2, <2>3
<1>8. \A i \in 1..Len(m1.microtasks) : Carries(m1.microtasks[i], m1)
  BY <1>2 DEF Sound, Carries
<1> QED
  BY <1>2, <1>6, <1>7, <1>8 DEF Sound, m1

LEMMA AppendSchedules ==
  ASSUME NEW n \in 0..NumPromises, NEW m, Sound(m, n), NEW j \in JobsTo(n),
         Carries(j, m), NEW m1 \in Memory(n),
         m1.state = m.state, m1.result = m.result,
         \A x \in Promise, t \in Side : m1.reactions[t][x] = m.reactions[t][x],
         Len(m1.microtasks) = Len(m.microtasks) + 1,
         \A i \in 1..Len(m.microtasks) : m1.microtasks[i] = m.microtasks[i],
         m1.microtasks[Len(m.microtasks) + 1] = j
  PROVE  Sound(m1, n) /\ Schedules(m, m1, j)
<1> DEFINE L == Len(m.microtasks)
<1>1. L \in Nat
  <2>1. m.microtasks \in Seq(JobsTo(n))
    BY DEF Sound, Memory
  <2> QED
    BY <2>1, LenProperties
<1> HIDE DEF L
<1>2. /\ Len(m1.microtasks) = L + 1
      /\ \A i \in 1..L : m1.microtasks[i] = m.microtasks[i]
      /\ m1.microtasks[L + 1] = j
  BY DEF L
<1>3. ASSUME NEW q \in Promise, NEW i \in Nat
      PROVE  /\ JobAt(m, q, i) => m1.microtasks[i] = m.microtasks[i] /\ i # L + 1
             /\ JobAt(m1, q, i) <=> JobAt(m, q, i) \/ (i = L + 1 /\ q = j.to)
  BY <1>1, <1>2 DEF JobAt, L
<1>4. Schedules(m, m1, j)
  BY <1>1, <1>2, <1>3 DEF Schedules, L
<1>5. Blank(m1, n) /\ NoneStranded(m1) /\ PlainFulfilled(m1)
  BY DEF Blank, NoneStranded, PlainFulfilled, Sound
<1>6. ASSUME NEW i \in 1..Len(m1.microtasks)
      PROVE  Carries(m1.microtasks[i], m1)
  <2>1. CASE i = L + 1
    BY <1>2, <2>1 DEF Carries
  <2>2. CASE i \in 1..L
    BY <1>2, <2>2 DEF Sound, Carries, L
  <2> QED
    BY <1>1, <1>2, <2>1, <2>2
<1> QED
  BY <1>4, <1>5, <1>6 DEF Sound

LEMMA AddReaction ==
  ASSUME NEW n \in 0..NumPromises, NEW m, Sound(m, n), NEW p \in 1..n, NEW s \in Side,
         NEW r \in ReactionsTo(n)
  PROVE  /\ Sound(addPromiseReaction(m, p, s, r), n)
         /\ m.state[p] # s => Adds(m, addPromiseReaction(m, p, s, r), p, s, r)
         /\ m.state[p] = s =>
               Schedules(m, addPromiseReaction(m, p, s, r), Job(r, s, m.result[p], p))
<1> DEFINE added == [m EXCEPT !.reactions[s][p] = Append(@, r)]
           m1 == addPromiseReaction(m, p, s, r)
           j  == Job(r, s, m.result[p], p)
<1>1. CASE m.state[p] # s
  BY <1>1, AppendAdds DEF addPromiseReaction
<1>2. CASE m.state[p] = s
  <2>1. p \in Promise /\ m \in Memory(n) /\ 1..n \subseteq Promise
    BY ConstantsAssumption DEF Promise, Sound
  <2>2. /\ added \in Memory(n)
        /\ added.state = m.state /\ added.result = m.result
        /\ added.microtasks = m.microtasks
        /\ \A t \in Side, x \in Promise :
              added.reactions[t][x] = IF t = s /\ x = p THEN Append(m.reactions[s][p], r)
                                      ELSE m.reactions[t][x]
    <3>1. HasAdded(m, added, n, p, s, r)
      BY <2>1, AddShape
    <3> QED
      BY <3>1 DEF HasAdded
  <2>3. m1 = triggerPromiseReactions(added, p, s)
    BY <1>2 DEF addPromiseReaction
  <2> HIDE DEF added, m1
  <2>4. HasTriggered(added, m1, n, p, s)
    BY <2>2, <2>3, TriggerShape
  <2>5. m.reactions[s][p] = <<>>
    BY <1>2, <2>1 DEF Sound, NoneStranded
  <2>6. added.reactions[s][p] = Append(<<>>, r)
    BY <2>1, <2>2, <2>5
  <2>7. Len(Append(<<>>, r)) = 1 /\ Append(<<>>, r)[1] = r
    OBVIOUS
  <2>8. /\ m1 \in Memory(n) /\ m1.state = m.state /\ m1.result = m.result
        /\ \A x \in Promise, t \in Side : m1.reactions[t][x] = m.reactions[t][x]
    BY <2>1, <2>2, <2>4, <2>5 DEF HasTriggered
  <2>9. /\ Len(m1.microtasks) = Len(m.microtasks) + 1
        /\ \A i \in 1..Len(m.microtasks) : m1.microtasks[i] = m.microtasks[i]
        /\ m1.microtasks[Len(m.microtasks) + 1] = j
    BY <2>2, <2>4, <2>6, <2>7 DEF HasTriggered
  <2>10. m.result[p] \in ValueOf(n)
    BY <2>1 DEF Memory
  <2>11. j \in JobsTo(n) /\ Carries(j, m)
    BY <1>2, <2>10 DEF Job, JobsTo, ReactionsTo, Carries
  <2> HIDE DEF j
  <2> QED
    BY <1>2, <2>8, <2>9, <2>11, AppendSchedules DEF j, m1
<1> QED
  BY <1>1, <1>2

-----------------------------------------------------------------------------
(* Registering with a promise.                                             *)

(* Reactions for q have been added to p on the sides S, of kinds in K.     *)
WaitsNow(m, m1, p, q, S, K) ==
    /\ m1.state = m.state /\ m1.result = m.result /\ m1.microtasks = m.microtasks
    /\ \A x, y \in Promise, t \in Side, i \in Nat :
          At(m, x, t, y, i) => m1.reactions[t][y][i].kind = m.reactions[t][y][i].kind
    /\ \E at \in [Side -> Nat] :
          /\ \A x, y \in Promise, t \in Side, i \in Nat :
                At(m1, x, t, y, i) <=>
                    At(m, x, t, y, i) \/ (x = q /\ y = p /\ t \in S /\ i = at[t])
          /\ \A t \in S : m1.reactions[t][p][at[t]].kind \in K

(* One microtask has been scheduled.                                       *)
ScheduledNow(m, m1, j) ==
    /\ m1.state = m.state /\ m1.result = m.result
    /\ \A x, y \in Promise, t \in Side, i \in Nat :
          /\ At(m1, x, t, y, i) <=> At(m, x, t, y, i)
          /\ At(m, x, t, y, i) => m1.reactions[t][y][i].kind = m.reactions[t][y][i].kind
    /\ \E new \in Nat :
          /\ m1.microtasks[new] = j
          /\ \A x \in Promise, i \in Nat :
                /\ JobAt(m, x, i) => m1.microtasks[i] = m.microtasks[i] /\ i # new
                /\ JobAt(m1, x, i) <=> JobAt(m, x, i) \/ (i = new /\ x = j.to)

LEMMA SchedulesIsNow ==
  ASSUME NEW m, NEW m1, NEW j, Schedules(m, m1, j)
  PROVE  ScheduledNow(m, m1, j)
<1> DEFINE new == Len(m.microtasks) + 1
<1>1. /\ m1.state = m.state /\ m1.result = m.result
      /\ \A x \in Promise, t \in Side : m1.reactions[t][x] = m.reactions[t][x]
      /\ new \in Nat
      /\ m1.microtasks[new] = j
      /\ \A q \in Promise, i \in Nat :
            JobAt(m, q, i) => m1.microtasks[i] = m.microtasks[i] /\ i # new
      /\ \A q \in Promise, i \in Nat :
            JobAt(m1, q, i) <=> JobAt(m, q, i) \/ (i = new /\ q = j.to)
  BY DEF Schedules
<1> HIDE DEF new
<1>2. \A x, y \in Promise, t \in Side, i \in Nat :
          /\ At(m1, x, t, y, i) <=> At(m, x, t, y, i)
          /\ At(m, x, t, y, i) => m1.reactions[t][y][i].kind = m.reactions[t][y][i].kind
  BY <1>1 DEF At
<1> QED
  BY <1>1, <1>2 DEF ScheduledNow

LEMMA AddsIsNow ==
  ASSUME NEW m, NEW m1, NEW p \in Promise, NEW s \in Side, NEW r, Adds(m, m1, p, s, r)
  PROVE  WaitsNow(m, m1, p, r.to, IF m.state[p] = "pending" THEN {s} ELSE {}, {r.kind})
<1> DEFINE new == Len(m.reactions[s][p]) + 1
           at  == [t \in Side |-> new]
           S   == IF m.state[p] = "pending" THEN {s} ELSE {}
<1>1. /\ m1.state = m.state /\ m1.result = m.result /\ m1.microtasks = m.microtasks
      /\ new \in Nat
      /\ m1.reactions[s][p][new] = r
      /\ \A q, x \in Promise, t \in Side, i \in Nat :
            At(m, q, t, x, i) => m1.reactions[t][x][i] = m.reactions[t][x][i]
      /\ \A q, x \in Promise, t \in Side, i \in Nat :
            At(m1, q, t, x, i) <=>
                \/ At(m, q, t, x, i)
                \/ /\ t = s /\ x = p /\ i = new
                   /\ m.state[p] = "pending" /\ q = r.to
  BY DEF Adds
<1> HIDE DEF new
<1>2. at \in [Side -> Nat] /\ \A t \in Side : at[t] = new
  BY <1>1
<1> HIDE DEF at
<1>3. \A x, y \in Promise, t \in Side, i \in Nat :
          At(m1, x, t, y, i) <=>
              At(m, x, t, y, i) \/ (x = r.to /\ y = p /\ t \in S /\ i = at[t])
  BY <1>1, <1>2
<1>4. \A t \in S : m1.reactions[t][p][at[t]].kind \in {r.kind}
  BY <1>1, <1>2
<1> HIDE DEF S
<1>5. \A x, y \in Promise, t \in Side, i \in Nat :
          At(m, x, t, y, i) => m1.reactions[t][y][i].kind = m.reactions[t][y][i].kind
  BY <1>1
<1>6. WaitsNow(m, m1, p, r.to, S, {r.kind})
  BY <1>1, <1>2, <1>3, <1>4, <1>5 DEF WaitsNow
<1> QED
  BY <1>6 DEF S

(* Registering on one side and then on the other.                          *)
LEMMA WaitsTwice ==
  ASSUME NEW m, NEW m1, NEW m2, NEW p \in Promise, NEW q \in Promise,
         NEW S \in SUBSET Side, NEW T \in SUBSET Side, S \cap T = {}, NEW K, NEW J,
         WaitsNow(m, m1, p, q, S, K), WaitsNow(m1, m2, p, q, T, J)
  PROVE  WaitsNow(m, m2, p, q, S \cup T, K \cup J)
<1>1. PICK a \in [Side -> Nat] :
          /\ \A x, y \in Promise, t \in Side, i \in Nat :
                At(m1, x, t, y, i) <=>
                    At(m, x, t, y, i) \/ (x = q /\ y = p /\ t \in S /\ i = a[t])
          /\ \A t \in S : m1.reactions[t][p][a[t]].kind \in K
  BY DEF WaitsNow
<1>2. PICK b \in [Side -> Nat] :
          /\ \A x, y \in Promise, t \in Side, i \in Nat :
                At(m2, x, t, y, i) <=>
                    At(m1, x, t, y, i) \/ (x = q /\ y = p /\ t \in T /\ i = b[t])
          /\ \A t \in T : m2.reactions[t][p][b[t]].kind \in J
  BY DEF WaitsNow
<1>3. /\ m2.state = m.state /\ m2.result = m.result /\ m2.microtasks = m.microtasks
      /\ \A x, y \in Promise, t \in Side, i \in Nat :
            At(m, x, t, y, i) => m1.reactions[t][y][i].kind = m.reactions[t][y][i].kind
      /\ \A x, y \in Promise, t \in Side, i \in Nat :
            At(m1, x, t, y, i) => m2.reactions[t][y][i].kind = m1.reactions[t][y][i].kind
  BY DEF WaitsNow
<1> DEFINE at == [t \in Side |-> IF t \in S THEN a[t] ELSE b[t]]
<1>4. at \in [Side -> Nat] /\ \A t \in Side : at[t] = IF t \in S THEN a[t] ELSE b[t]
  OBVIOUS
<1> HIDE DEF at
<1>5. \A x, y \in Promise, t \in Side, i \in Nat :
          At(m2, x, t, y, i) <=>
              At(m, x, t, y, i) \/ (x = q /\ y = p /\ t \in S \cup T /\ i = at[t])
  BY <1>1, <1>2, <1>4
<1>6. ASSUME NEW t \in S \cup T
      PROVE  m2.reactions[t][p][at[t]].kind \in K \cup J
  <2>1. CASE t \in S
    <3>1. At(m1, q, t, p, a[t]) /\ a[t] \in Nat
      BY <1>1, <2>1
    <3> QED
      BY <1>1, <1>3, <1>4, <2>1, <3>1
  <2>2. CASE t \in T
    BY <1>2, <1>4, <2>2
  <2> QED
    BY <2>1, <2>2
<1>7. \A x, y \in Promise, t \in Side, i \in Nat :
          At(m, x, t, y, i) => m2.reactions[t][y][i].kind = m.reactions[t][y][i].kind
  BY <1>1, <1>3
<1> QED
  BY <1>3, <1>4, <1>5, <1>6, <1>7 DEF WaitsNow

(* A reaction that is dead changes nothing.                                *)
LEMMA DeadThenScheduled ==
  ASSUME NEW m, NEW m1, NEW m2, NEW p \in Promise, NEW q \in Promise, NEW K, NEW j,
         \/ WaitsNow(m, m1, p, q, {}, K) /\ ScheduledNow(m1, m2, j)
         \/ ScheduledNow(m, m1, j) /\ WaitsNow(m1, m2, p, q, {}, K)
  PROVE  ScheduledNow(m, m2, j)
<1>1. CASE WaitsNow(m, m1, p, q, {}, K) /\ ScheduledNow(m1, m2, j)
  <2>1. /\ m1.state = m.state /\ m1.result = m.result /\ m1.microtasks = m.microtasks
        /\ \A x, y \in Promise, t \in Side, i \in Nat :
              /\ At(m1, x, t, y, i) <=> At(m, x, t, y, i)
              /\ At(m, x, t, y, i) => m1.reactions[t][y][i].kind = m.reactions[t][y][i].kind
    BY <1>1 DEF WaitsNow
  <2>2. \A x \in Promise, i \in Nat : JobAt(m1, x, i) <=> JobAt(m, x, i)
    BY <2>1 DEF JobAt
  <2> QED
    BY <1>1, <2>1, <2>2 DEF ScheduledNow
<1>2. CASE ScheduledNow(m, m1, j) /\ WaitsNow(m1, m2, p, q, {}, K)
  <2>1. /\ m2.state = m1.state /\ m2.result = m1.result /\ m2.microtasks = m1.microtasks
        /\ \A x, y \in Promise, t \in Side, i \in Nat :
              /\ At(m2, x, t, y, i) <=> At(m1, x, t, y, i)
              /\ At(m1, x, t, y, i) => m2.reactions[t][y][i].kind = m1.reactions[t][y][i].kind
    BY <1>2 DEF WaitsNow
  <2>2. \A x \in Promise, i \in Nat : JobAt(m2, x, i) <=> JobAt(m1, x, i)
    BY <2>1 DEF JobAt
  <2> QED
    BY <1>2, <2>1, <2>2 DEF ScheduledNow
<1> QED
  BY <1>1, <1>2

(* The continuation of q has no place in the memory.                       *)
Nowhere(m, q) ==
    /\ \A s \in Side, p \in Promise, i \in Nat : ~WaitsAt(m, q, s, p, i)
    /\ \A i \in Nat : ~ContinuesAt(m, q, i)

(* The continuation of q, nowhere before, is registered on p, with kinds   *)
(* in K.                                                                   *)
Registers(m, m1, p, q, K) ==
    /\ m1.state = m.state /\ m1.result = m.result
    /\ \A x \in Promise :
          /\ x # q /\ OnePlace(m, x) => OnePlace(m1, x)
          /\ x # q => Sources(m1, x) = Sources(m, x)
          /\ Held(m, x) => Held(m1, x)
          /\ \A k \in Kinds : Refers(m1, x, k) => Refers(m, x, k) \/ (x = q /\ k \in K)
    /\ Nowhere(m, q) => OnePlace(m1, q) /\ Sources(m1, q) \subseteq {p}

(* On both sides, if p is pending.                                         *)
RegistersFully(m, m1, p, q) ==
    /\ Nowhere(m, q) => Sources(m1, q) = {p}
    /\ Held(m1, q)
    /\ Symmetric(m) => Symmetric(m1)

LEMMA WaitingRegisters ==
  ASSUME NEW m, NEW m1, NEW p \in Promise, NEW q \in Promise, NEW S \in SUBSET Side,
         NEW K \in SUBSET (Kinds \ {"adopt"}), WaitsNow(m, m1, p, q, S, K)
  PROVE  /\ Registers(m, m1, p, q, K)
         /\ S = Side => RegistersFully(m, m1, p, q)
<1>1. PICK at \in [Side -> Nat] :
          /\ \A x, y \in Promise, t \in Side, i \in Nat :
                At(m1, x, t, y, i) <=>
                    At(m, x, t, y, i) \/ (x = q /\ y = p /\ t \in S /\ i = at[t])
          /\ \A t \in S : m1.reactions[t][p][at[t]].kind \in K
  BY DEF WaitsNow
<1>2. /\ m1.state = m.state /\ m1.result = m.result /\ m1.microtasks = m.microtasks
      /\ \A x, y \in Promise, t \in Side, i \in Nat :
            At(m, x, t, y, i) => m1.reactions[t][y][i].kind = m.reactions[t][y][i].kind
  BY DEF WaitsNow
<1>3. \A x \in Promise, i \in Nat :
          /\ JobAt(m1, x, i) <=> JobAt(m, x, i)
          /\ ContinuesAt(m1, x, i) <=> ContinuesAt(m, x, i)
  BY <1>2 DEF JobAt, ContinuesAt
<1>4. \A x, y \in Promise, t \in Side, i \in Nat :
          WaitsAt(m1, x, t, y, i) <=>
              WaitsAt(m, x, t, y, i) \/ (x = q /\ y = p /\ t \in S /\ i = at[t])
  BY <1>1, <1>2 DEF WaitsAt
<1>5. ASSUME NEW x \in Promise, x # q
      PROVE  /\ OnePlace(m, x) => OnePlace(m1, x)
             /\ Sources(m1, x) = Sources(m, x)
  <2>1. \A y \in Promise, t \in Side, i \in Nat : WaitsAt(m1, x, t, y, i) <=> WaitsAt(m, x, t, y, i)
    BY <1>4, <1>5
  <2> QED
    BY <1>2, <1>3, <2>1 DEF OnePlace, Sources
<1>6. \A x \in Promise : Held(m, x) => Held(m1, x)
  BY <1>1, <1>3 DEF Held
<1>7. ASSUME NEW x \in Promise, NEW k \in Kinds, Refers(m1, x, k)
      PROVE  Refers(m, x, k) \/ (x = q /\ k \in K)
  <2>1. CASE \E i \in Nat : JobAt(m1, x, i) /\ m1.microtasks[i].kind = k
    BY <1>2, <1>3, <2>1 DEF Refers
  <2>2. CASE \E t \in Side, y \in Promise, i \in Nat :
                 At(m1, x, t, y, i) /\ m1.reactions[t][y][i].kind = k
    BY <1>1, <1>2, <2>2 DEF Refers
  <2> QED
    BY <1>7, <2>1, <2>2 DEF Refers
<1>8. ASSUME Nowhere(m, q)
      PROVE  OnePlace(m1, q) /\ Sources(m1, q) \subseteq {p}
  <2>1. /\ \A y \in Promise, t \in Side, i \in Nat :
              WaitsAt(m1, q, t, y, i) <=> y = p /\ t \in S /\ i = at[t]
        /\ \A i \in Nat : ~ContinuesAt(m1, q, i)
    BY <1>3, <1>4, <1>8 DEF Nowhere
  <2> QED
    BY <2>1 DEF OnePlace, Sources
<1>9. ASSUME S = Side
      PROVE  RegistersFully(m, m1, p, q)
  <2>1. \A t \in Side : at[t] \in Nat /\ At(m1, q, t, p, at[t]) /\ WaitsAt(m1, q, t, p, at[t])
    BY <1>1, <1>4, <1>9
  <2>2. Nowhere(m, q) => Sources(m1, q) = {p}
    BY <1>8, <2>1 DEF Sources, Side
  <2>3. Held(m1, q)
    BY <2>1 DEF Held
  <2>4. ASSUME Symmetric(m), NEW x \in Promise, NEW y \in Promise, NEW t \in Side,
               NEW u \in Side, NEW i \in Nat, WaitsAt(m1, x, t, y, i)
        PROVE  \E j \in Nat : WaitsAt(m1, x, u, y, j)
    <3>1. CASE WaitsAt(m, x, t, y, i)
      BY <1>4, <2>4, <3>1 DEF Symmetric
    <3>2. CASE x = q /\ y = p
      BY <2>1, <3>2
    <3> QED
      BY <1>4, <2>4, <3>1, <3>2
  <2> QED
    BY <2>2, <2>3, <2>4 DEF RegistersFully, Symmetric
<1> QED
  BY <1>2, <1>5, <1>6, <1>7, <1>8, <1>9 DEF Registers

LEMMA SchedulingRegisters ==
  ASSUME NEW m, NEW m1, NEW j, NEW p \in Promise, NEW q \in Promise,
         NEW K \in SUBSET (Kinds \ {"adopt"}), ScheduledNow(m, m1, j),
         j.to = q, j.src = p, j.kind \in K
  PROVE  Registers(m, m1, p, q, K) /\ RegistersFully(m, m1, p, q)
<1>1. PICK new \in Nat :
          /\ m1.microtasks[new] = j
          /\ \A x \in Promise, i \in Nat :
                /\ JobAt(m, x, i) => m1.microtasks[i] = m.microtasks[i] /\ i # new
                /\ JobAt(m1, x, i) <=> JobAt(m, x, i) \/ (i = new /\ x = j.to)
  BY DEF ScheduledNow
<1>2. /\ m1.state = m.state /\ m1.result = m.result
      /\ \A x, y \in Promise, t \in Side, i \in Nat :
            /\ At(m1, x, t, y, i) <=> At(m, x, t, y, i)
            /\ At(m, x, t, y, i) => m1.reactions[t][y][i].kind = m.reactions[t][y][i].kind
            /\ WaitsAt(m1, x, t, y, i) <=> WaitsAt(m, x, t, y, i)
  BY DEF ScheduledNow, WaitsAt
<1>3. \A x \in Promise, i \in Nat :
          ContinuesAt(m1, x, i) <=> ContinuesAt(m, x, i) \/ (i = new /\ x = q)
  BY <1>1 DEF ContinuesAt
<1>4. ASSUME NEW x \in Promise, x # q
      PROVE  /\ OnePlace(m, x) => OnePlace(m1, x)
             /\ Sources(m1, x) = Sources(m, x)
  <2>1. \A i \in Nat : /\ ContinuesAt(m1, x, i) <=> ContinuesAt(m, x, i)
                       /\ ContinuesAt(m, x, i) => m1.microtasks[i] = m.microtasks[i]
    BY <1>1, <1>3, <1>4 DEF ContinuesAt
  <2> QED
    BY <1>2, <2>1 DEF OnePlace, Sources
<1>5. \A x \in Promise : Held(m, x) => Held(m1, x)
  BY <1>1, <1>2 DEF Held
<1>6. ASSUME NEW x \in Promise, NEW k \in Kinds, Refers(m1, x, k)
      PROVE  Refers(m, x, k) \/ (x = q /\ k \in K)
  <2>1. CASE \E i \in Nat : JobAt(m1, x, i) /\ m1.microtasks[i].kind = k
    BY <1>1, <2>1 DEF Refers
  <2>2. CASE \E t \in Side, y \in Promise, i \in Nat :
                 At(m1, x, t, y, i) /\ m1.reactions[t][y][i].kind = k
    BY <1>2, <2>2 DEF Refers
  <2> QED
    BY <1>6, <2>1, <2>2 DEF Refers
<1>7. ASSUME Nowhere(m, q)
      PROVE  OnePlace(m1, q) /\ Sources(m1, q) = {p}
  <2>1. /\ \A y \in Promise, t \in Side, i \in Nat : ~WaitsAt(m1, q, t, y, i)
        /\ \A i \in Nat : ContinuesAt(m1, q, i) <=> i = new
    BY <1>2, <1>3, <1>7 DEF Nowhere
  <2> QED
    BY <1>1, <2>1 DEF OnePlace, Sources
<1>8. Held(m1, q)
  BY <1>1 DEF Held
<1>9. Symmetric(m) => Symmetric(m1)
  BY <1>2 DEF Symmetric
<1> QED
  BY <1>2, <1>4, <1>5, <1>6, <1>7, <1>8, <1>9 DEF Registers, RegistersFully

-----------------------------------------------------------------------------
(* The operations on promises.                                             *)

(* q waits for p's outcome to take it over.                                *)
LEMMA AdoptingPasses ==
  ASSUME NEW n \in 0..NumPromises, NEW m, Sound(m, n), NEW p \in 1..n, NEW q \in 1..n,
         m.state[p] = "pending"
  PROVE  Passes(m, addPromiseReaction(
                       addPromiseReaction(m, p, "fulfilled", Reaction("adopt", q)),
                       p, "rejected", Reaction("adopt", q)), n, q)
<1> DEFINE r  == Reaction("adopt", q)
           m1 == addPromiseReaction(m, p, "fulfilled", r)
           m2 == addPromiseReaction(m1, p, "rejected", r)
<1>1. /\ p \in Promise /\ q \in Promise
      /\ r \in ReactionsTo(n) /\ r.to = q /\ r.kind = "adopt"
      /\ "fulfilled" \in Side /\ "rejected" \in Side
  BY ConstantsAssumption DEF Promise, Reaction, ReactionsTo, Kinds, Side
<1> HIDE DEF r
<1>2. Sound(m1, n) /\ Adds(m, m1, p, "fulfilled", r)
  BY <1>1, AddReaction
<1> HIDE DEF m1
<1>3. m1.state[p] = "pending"
  BY <1>2 DEF Adds
<1>4. Sound(m2, n) /\ Adds(m1, m2, p, "rejected", r)
  BY <1>1, <1>2, <1>3, AddReaction
<1> HIDE DEF m2
<1>5. WaitsNow(m, m1, p, q, {"fulfilled"}, {"adopt"})
  BY <1>1, <1>2, AddsIsNow
<1>6. WaitsNow(m1, m2, p, q, {"rejected"}, {"adopt"})
  BY <1>1, <1>3, <1>4, AddsIsNow
<1>7. WaitsNow(m, m2, p, q, Side, {"adopt"})
  <2>1. /\ {"fulfilled"} \in SUBSET Side /\ {"rejected"} \in SUBSET Side
        /\ {"fulfilled"} \cap {"rejected"} = {}
        /\ {"fulfilled"} \cup {"rejected"} = Side /\ {"adopt"} \cup {"adopt"} = {"adopt"}
    BY DEF Side
  <2>2. WaitsNow(m, m2, p, q, {"fulfilled"} \cup {"rejected"}, {"adopt"} \cup {"adopt"})
    BY <1>1, <1>5, <1>6, <2>1, WaitsTwice
  <2> QED
    BY <2>1, <2>2
<1>8. PICK at \in [Side -> Nat] :
          /\ \A x, y \in Promise, t \in Side, i \in Nat :
                At(m2, x, t, y, i) <=>
                    At(m, x, t, y, i) \/ (x = q /\ y = p /\ t \in Side /\ i = at[t])
          /\ \A t \in Side : m2.reactions[t][p][at[t]].kind \in {"adopt"}
  BY <1>7 DEF WaitsNow
<1>9. /\ m2.state = m.state /\ m2.result = m.result /\ m2.microtasks = m.microtasks
      /\ \A x, y \in Promise, t \in Side, i \in Nat :
            At(m, x, t, y, i) => m2.reactions[t][y][i].kind = m.reactions[t][y][i].kind
  BY <1>7 DEF WaitsNow
<1>10. \A x \in Promise, i \in Nat :
          /\ JobAt(m2, x, i) <=> JobAt(m, x, i)
          /\ ContinuesAt(m2, x, i) <=> ContinuesAt(m, x, i)
  BY <1>9 DEF JobAt, ContinuesAt
<1>11. \A x, y \in Promise, t \in Side, i \in Nat :
          WaitsAt(m2, x, t, y, i) <=> WaitsAt(m, x, t, y, i)
  BY <1>8, <1>9 DEF WaitsAt
<1>12. ASSUME NEW x \in Promise
       PROVE  /\ OnePlace(m, x) => OnePlace(m2, x)
              /\ Sources(m2, x) = Sources(m, x)
  <2>1. OnePlace(m, x) => OnePlace(m2, x)
    BY <1>10, <1>11 DEF OnePlace
  <2>2. Sources(m2, x) = Sources(m, x)
    BY <1>9, <1>10, <1>11 DEF Sources
  <2> QED
    BY <2>1, <2>2
<1>13. \A x \in Promise : Held(m, x) => Held(m2, x)
  BY <1>8, <1>10 DEF Held
<1>14. Held(m2, q)
  BY <1>1, <1>8 DEF Held
<1>15. ASSUME NEW x \in Promise, NEW k \in Kinds, Refers(m2, x, k)
       PROVE  Refers(m, x, k) \/ (x = q /\ k = "adopt")
  <2>1. CASE \E i \in Nat : JobAt(m2, x, i) /\ m2.microtasks[i].kind = k
    BY <1>9, <1>10, <2>1 DEF Refers
  <2>2. CASE \E t \in Side, y \in Promise, i \in Nat :
                 At(m2, x, t, y, i) /\ m2.reactions[t][y][i].kind = k
    BY <1>8, <1>9, <2>2 DEF Refers
  <2> QED
    BY <1>15, <2>1, <2>2 DEF Refers
<1>16. Symmetric(m) => Symmetric(m2)
  BY <1>11 DEF Symmetric
<1>17. Passes(m, m2, n, q)
  BY <1>4, <1>9, <1>12, <1>13, <1>14, <1>15, <1>16 DEF Passes
<1> QED
  BY <1>17 DEF m2, m1, r

LEMMA NothingPasses ==
  ASSUME NEW n \in 0..NumPromises, NEW m, Sound(m, n), NEW q \in Promise, m.state[q] # "pending"
  PROVE  Passes(m, m, n, q)
  BY DEF Passes

LEMMA RejectPasses ==
  ASSUME NEW n \in 0..NumPromises, NEW m, Sound(m, n), NEW q \in 1..n, NEW v \in ValueOf(n)
  PROVE  /\ Passes(m, rejectPromise(m, q, v), n, q)
         /\ rejectPromise(m, q, v).state[q] # "pending"
         /\ m.state[q] = "pending" =>
               /\ rejectPromise(m, q, v).state[q] = "rejected"
               /\ rejectPromise(m, q, v).result[q] = v
<1>1. q \in Promise /\ "rejected" \in Side
  BY ConstantsAssumption DEF Promise, Side
<1>2. CASE m.state[q] = "pending"
  BY <1>1, <1>2, SettlePasses, SettleKeepsSound DEF rejectPromise
<1>3. CASE m.state[q] # "pending"
  BY <1>1, <1>3, NothingPasses DEF rejectPromise, Settle
<1> QED
  BY <1>2, <1>3

LEMMA ResolvePasses ==
  ASSUME NEW n \in 0..NumPromises, NEW m, Sound(m, n), NEW q \in 1..n, NEW v \in ValueOf(n)
  PROVE  /\ Passes(m, resolvePromise(m, q, v), n, q)
         /\ m.state[q] = "pending" /\ v \in Plain =>
               /\ resolvePromise(m, q, v).state[q] = "fulfilled"
               /\ resolvePromise(m, q, v).result[q] = v
<1>1. /\ q \in Promise /\ "fulfilled" \in Side /\ "rejected" \in Side
      /\ Plain \cap Promise = {} /\ 1..n \subseteq Promise
  BY ConstantsAssumption DEF Promise, Side
<1>2. CASE m.state[q] # "pending"
  BY <1>1, <1>2, NothingPasses DEF resolvePromise
<1>3. CASE m.state[q] = "pending" /\ v \notin Promise
  <2>1. v \in Plain
    BY <1>1, <1>3 DEF ValueOf
  <2> QED
    BY <1>1, <1>3, <2>1, SettlePasses, SettleKeepsSound DEF resolvePromise
<1>4. CASE m.state[q] = "pending" /\ v \in Promise
  <2>1. v \in 1..n /\ v \notin Plain
    BY <1>1, <1>4 DEF ValueOf
  <2>2. CASE m.state[v] = "pending"
    BY <1>4, <2>1, <2>2, AdoptingPasses DEF resolvePromise
  <2>3. CASE m.state[v] # "pending"
    <3>1. m.state[v] \in Side /\ m.result[v] \in ValueOf(n)
      BY <1>4, <2>3 DEF Sound, Memory
    <3>2. m.state[v] = "fulfilled" => m.result[v] \in Plain
      BY <1>4 DEF Sound, PlainFulfilled
    <3> QED
      BY <1>4, <2>1, <2>3, <3>1, <3>2, SettlePasses DEF resolvePromise
  <2> QED
    BY <2>1, <2>2, <2>3
<1> QED
  BY <1>2, <1>3, <1>4

LEMMA PassThroughPasses ==
  ASSUME NEW n \in 0..NumPromises, NEW m, Sound(m, n), NEW q \in 1..n, NEW s \in Side,
         NEW v \in ValueOf(n)
  PROVE  /\ Passes(m, PassThrough(m, q, s, v), n, q)
         /\ m.state[q] = "pending" /\ (s = "rejected" \/ v \in Plain) =>
               /\ PassThrough(m, q, s, v).state[q] = s
               /\ PassThrough(m, q, s, v).result[q] = v
  BY RejectPasses, ResolvePasses DEF PassThrough, Side

LEMMA AwaitRegisters ==
  ASSUME NEW n \in 0..NumPromises, Sound(mem, n), NEW p \in 1..n, NEW q \in 1..n
  PROVE  /\ Sound(AwaitOn(p, q), n)
         /\ Registers(mem, AwaitOn(p, q), p, q, {"await"})
         /\ RegistersFully(mem, AwaitOn(p, q), p, q)
<1> DEFINE r == Reaction("await", q)
           m1 == [mem EXCEPT !.reactions["fulfilled"][p] = Append(@, r)]
           m2 == [m1 EXCEPT !.reactions["rejected"][p] = Append(@, r)]
           j == Job(r, mem.state[p], mem.result[p], p)
<1>1. /\ p \in Promise /\ q \in Promise
      /\ r \in ReactionsTo(n) /\ r.to = q /\ r.kind = "await"
      /\ "fulfilled" \in Side /\ "rejected" \in Side
      /\ {"await"} \in SUBSET (Kinds \ {"adopt"})
      /\ mem \in Memory(n)
  BY ConstantsAssumption DEF Promise, Reaction, ReactionsTo, Kinds, Side, Sound
<1>2. j.to = q /\ j.src = p /\ j.kind = "await" /\ Carries(j, mem)
  BY <1>1 DEF Job, Carries, Reaction
<1>3. CASE mem.state[p] = "pending"
  <2>1. AwaitOn(p, q) = m2
    <3>1. AwaitOn(p, q) = [mem EXCEPT !.reactions["fulfilled"][p] = Append(@, r),
                                      !.reactions["rejected"][p] = Append(@, r)]
      BY <1>3 DEF AwaitOn
    <3>2. m1.reactions["rejected"][p] = mem.reactions["rejected"][p]
      BY <1>1 DEF Memory
    <3>3. m2 = [m1 EXCEPT !.reactions["rejected"][p] = Append(mem.reactions["rejected"][p], r)]
      BY <3>2
    <3> QED
      BY <3>1, <3>3
  <2> HIDE DEF r
  <2>2. Sound(m1, n) /\ Adds(mem, m1, p, "fulfilled", r)
    BY <1>1, <1>3, AppendAdds
  <2> HIDE DEF m1
  <2>3. m1.state[p] = "pending"
    BY <1>3, <2>2 DEF Adds
  <2>4. Sound(m2, n) /\ Adds(m1, m2, p, "rejected", r)
    BY <1>1, <2>2, <2>3, AppendAdds
  <2> HIDE DEF m2
  <2>5. WaitsNow(mem, m1, p, q, {"fulfilled"}, {"await"})
    BY <1>1, <1>3, <2>2, AddsIsNow
  <2>6. WaitsNow(m1, m2, p, q, {"rejected"}, {"await"})
    BY <1>1, <2>3, <2>4, AddsIsNow
  <2>7. /\ {"fulfilled"} \in SUBSET Side /\ {"rejected"} \in SUBSET Side
        /\ {"fulfilled"} \cap {"rejected"} = {}
        /\ {"fulfilled"} \cup {"rejected"} = Side /\ {"await"} \cup {"await"} = {"await"}
    BY DEF Side
  <2>8. WaitsNow(mem, m2, p, q, {"fulfilled"} \cup {"rejected"}, {"await"} \cup {"await"})
    BY <1>1, <2>5, <2>6, <2>7, WaitsTwice
  <2> QED
    BY <1>1, <2>1, <2>4, <2>7, <2>8, WaitingRegisters
<1>4. CASE mem.state[p] # "pending"
  <2>1. mem.state[p] \in Side /\ mem.result[p] \in ValueOf(n)
    BY <1>1, <1>4 DEF Memory
  <2>2. j \in JobsTo(n)
    BY <1>1, <2>1 DEF Job, JobsTo, ReactionsTo
  <2>3. AwaitOn(p, q) = [mem EXCEPT !.microtasks = Append(@, j)]
    BY <1>4 DEF AwaitOn, ScheduleMicrotask
  <2> HIDE DEF j
  <2>4. /\ AwaitOn(p, q) \in Memory(n)
        /\ AwaitOn(p, q).state = mem.state /\ AwaitOn(p, q).result = mem.result
        /\ AwaitOn(p, q).reactions = mem.reactions
        /\ Len(AwaitOn(p, q).microtasks) = Len(mem.microtasks) + 1
        /\ \A i \in 1..Len(mem.microtasks) : AwaitOn(p, q).microtasks[i] = mem.microtasks[i]
        /\ AwaitOn(p, q).microtasks[Len(mem.microtasks) + 1] = j
    BY <1>1, <2>2, <2>3, ScheduleShape
  <2>5. Sound(AwaitOn(p, q), n) /\ Schedules(mem, AwaitOn(p, q), j)
    BY <1>2, <2>2, <2>4, AppendSchedules
  <2>6. ScheduledNow(mem, AwaitOn(p, q), j)
    BY <2>5, SchedulesIsNow
  <2> QED
    BY <1>1, <1>2, <2>5, <2>6, SchedulingRegisters
<1> QED
  BY <1>3, <1>4

(* What then and finally register on one side.                             *)
LEMMA OneSide ==
  ASSUME NEW n \in 0..NumPromises, NEW m, Sound(m, n), NEW p \in 1..n, NEW q \in 1..n,
         NEW s \in Side, NEW k \in (Kinds \ {"adopt"}) \cup {"none"}
  PROVE  LET a == AddUnless(m, p, s, k, q)
         IN  /\ Sound(a, n) /\ a.state = m.state /\ a.result = m.result
             /\ m.state[p] = "pending" =>
                   WaitsNow(m, a, p, q, IF k = "none" THEN {} ELSE {s}, {k} \ {"none"})
             /\ m.state[p] # "pending" /\ (m.state[p] # s \/ k = "none") =>
                   WaitsNow(m, a, p, q, {}, {k} \ {"none"})
             /\ m.state[p] = s /\ k # "none" =>
                   ScheduledNow(m, a, Job(Reaction(k, q), s, m.result[p], p))
<1> DEFINE a == AddUnless(m, p, s, k, q)
           r == Reaction(k, q)
<1>1. p \in Promise /\ q \in Promise
  BY ConstantsAssumption DEF Promise
<1>2. CASE k = "none"
  <2>1. a = m /\ {k} \ {"none"} = {}
    BY <1>2 DEF AddUnless
  <2>2. WaitsNow(m, m, p, q, {}, {})
    <3>1. [t \in Side |-> 0] \in [Side -> Nat]
      OBVIOUS
    <3> QED
      BY <3>1 DEF WaitsNow
  <2> QED
    BY <1>2, <2>1, <2>2
<1>3. CASE k # "none"
  <2>1. r \in ReactionsTo(n) /\ r.to = q /\ r.kind = k /\ {k} \ {"none"} = {k}
    BY <1>3 DEF Reaction, ReactionsTo
  <2>2. a = addPromiseReaction(m, p, s, r)
    BY <1>3 DEF AddUnless
  <2> HIDE DEF a, r
  <2>3. /\ Sound(a, n)
        /\ m.state[p] # s => Adds(m, a, p, s, r)
        /\ m.state[p] = s => Schedules(m, a, Job(r, s, m.result[p], p))
    BY <2>1, <2>2, AddReaction
  <2>4. CASE m.state[p] = s
    <3>1. ScheduledNow(m, a, Job(r, s, m.result[p], p)) /\ m.state[p] # "pending"
      BY <2>3, <2>4, SchedulesIsNow DEF Side
    <3>2. a.state = m.state /\ a.result = m.result
      BY <3>1 DEF ScheduledNow
    <3> QED
      BY <1>3, <2>3, <2>4, <3>1, <3>2 DEF a, r
  <2>5. CASE m.state[p] # s
    <3>1. WaitsNow(m, a, p, q, IF m.state[p] = "pending" THEN {s} ELSE {}, {k})
      BY <1>1, <2>1, <2>3, <2>5, AddsIsNow
    <3>2. a.state = m.state /\ a.result = m.result
      BY <3>1 DEF WaitsNow
    <3> QED
      BY <1>3, <2>1, <2>3, <2>5, <3>1, <3>2 DEF a, r
  <2> QED
    BY <2>4, <2>5
<1> QED
  BY <1>2, <1>3

LEMMA ThenRegisters ==
  ASSUME NEW n \in 0..NumPromises, NEW m, Sound(m, n), NEW p \in 1..n, NEW q \in 1..n,
         NEW f \in (Kinds \ {"adopt"}) \cup {"none"}, NEW g \in (Kinds \ {"adopt"}) \cup {"none"}
  PROVE  LET m2 == AddUnless(AddUnless(m, p, "fulfilled", f, q), p, "rejected", g, q)
         IN  /\ Sound(m2, n)
             /\ Registers(m, m2, p, q, {f, g} \ {"none"})
             /\ f # "none" /\ g # "none" => RegistersFully(m, m2, p, q)
<1> DEFINE m1 == AddUnless(m, p, "fulfilled", f, q)
           m2 == AddUnless(m1, p, "rejected", g, q)
           F  == IF f = "none" THEN {} ELSE {"fulfilled"}
           G  == IF g = "none" THEN {} ELSE {"rejected"}
           K  == {f} \ {"none"}
           J  == {g} \ {"none"}
           jf == Job(Reaction(f, q), "fulfilled", m.result[p], p)
           jg == Job(Reaction(g, q), "rejected", m.result[p], p)
<1>1. /\ p \in Promise /\ q \in Promise
      /\ "fulfilled" \in Side /\ "rejected" \in Side
      /\ {} \in SUBSET Side /\ F \in SUBSET Side /\ G \in SUBSET Side /\ F \cap G = {}
      /\ K \cup J = {f, g} \ {"none"} /\ K \cup J \in SUBSET (Kinds \ {"adopt"})
      /\ f # "none" /\ g # "none" => F \cup G = Side
      /\ f # "none" => f \in K \cup J
      /\ g # "none" => g \in K \cup J
  BY ConstantsAssumption DEF Promise, Side
<1>2. /\ jf.to = q /\ jf.src = p /\ jf.kind = f
      /\ jg.to = q /\ jg.src = p /\ jg.kind = g
  BY DEF Job, Reaction
<1>3. /\ Sound(m1, n) /\ m1.state = m.state /\ m1.result = m.result
      /\ m.state[p] = "pending" => WaitsNow(m, m1, p, q, F, K)
      /\ m.state[p] # "pending" /\ (m.state[p] # "fulfilled" \/ f = "none") =>
            WaitsNow(m, m1, p, q, {}, K)
      /\ m.state[p] = "fulfilled" /\ f # "none" => ScheduledNow(m, m1, jf)
  BY <1>1, OneSide
<1> HIDE DEF m1
<1>4. /\ Sound(m2, n)
      /\ m.state[p] = "pending" => WaitsNow(m1, m2, p, q, G, J)
      /\ m.state[p] # "pending" /\ (m.state[p] # "rejected" \/ g = "none") =>
            WaitsNow(m1, m2, p, q, {}, J)
      /\ m.state[p] = "rejected" /\ g # "none" => ScheduledNow(m1, m2, jg)
  <2>1. /\ Sound(m2, n)
        /\ m1.state[p] = "pending" => WaitsNow(m1, m2, p, q, G, J)
        /\ m1.state[p] # "pending" /\ (m1.state[p] # "rejected" \/ g = "none") =>
              WaitsNow(m1, m2, p, q, {}, J)
        /\ m1.state[p] = "rejected" /\ g # "none" =>
              ScheduledNow(m1, m2, Job(Reaction(g, q), "rejected", m1.result[p], p))
    BY <1>1, <1>3, OneSide
  <2>2. jg = Job(Reaction(g, q), "rejected", m1.result[p], p)
    BY <1>3
  <2> HIDE DEF jg, m2, G, J
  <2> QED
    BY <1>3, <2>1, <2>2
<1> HIDE DEF m2, F, G, K, J, jf, jg
<1>5. m.state[p] \in {"pending", "fulfilled", "rejected"}
  BY <1>1 DEF Sound, Memory, Side
<1>6. CASE m.state[p] = "pending"
  <2>1. WaitsNow(m, m2, p, q, F \cup G, K \cup J)
    BY <1>1, <1>3, <1>4, <1>6, WaitsTwice
  <2>2. /\ Registers(m, m2, p, q, K \cup J)
        /\ F \cup G = Side => RegistersFully(m, m2, p, q)
    BY <1>1, <2>1, WaitingRegisters
  <2> QED
    BY <1>1, <1>4, <2>2 DEF m2, m1
<1>7. CASE m.state[p] = "fulfilled" /\ f # "none"
  <2>1. ScheduledNow(m, m2, jf)
    BY <1>1, <1>3, <1>4, <1>7, DeadThenScheduled
  <2>2. Registers(m, m2, p, q, K \cup J) /\ RegistersFully(m, m2, p, q)
    BY <1>1, <1>2, <1>7, <2>1, SchedulingRegisters
  <2> QED
    BY <1>1, <1>4, <2>2 DEF m2, m1
<1>8. CASE m.state[p] = "rejected" /\ g # "none"
  <2>1. ScheduledNow(m, m2, jg)
    BY <1>1, <1>3, <1>4, <1>8, DeadThenScheduled
  <2>2. Registers(m, m2, p, q, K \cup J) /\ RegistersFully(m, m2, p, q)
    BY <1>1, <1>2, <1>8, <2>1, SchedulingRegisters
  <2> QED
    BY <1>1, <1>4, <2>2 DEF m2, m1
<1>9. CASE \/ m.state[p] = "fulfilled" /\ f = "none"
           \/ m.state[p] = "rejected" /\ g = "none"
  <2>1. WaitsNow(m, m1, p, q, {}, K) /\ WaitsNow(m1, m2, p, q, {}, J)
    BY <1>3, <1>4, <1>9
  <2>2. WaitsNow(m, m2, p, q, {} \cup {}, K \cup J)
    BY <1>1, <2>1, WaitsTwice
  <2>3. Registers(m, m2, p, q, K \cup J)
    BY <1>1, <2>2, WaitingRegisters
  <2> QED
    BY <1>1, <1>4, <1>9, <2>3 DEF m2, m1
<1> QED
  BY <1>5, <1>6, <1>7, <1>8, <1>9

-----------------------------------------------------------------------------
(* The invariant of the whole machine.                                     *)

FramesOf(n) ==
    [kind : {"script", "handler", "finally", "body"}, to : 0..n,
     how : Side \cup {"first"}, val : ValueOf(n)]

LeakOf(n) == {NoneLeft, Handed} \cup {Holding(v) : v \in ValueOf(n)}

Reasons == {"nothing", "first", "return", "throw", "finally", "await"}

TypeInv ==
    /\ made \in 0..NumPromises /\ fuel \in 0..Fuel
    /\ Sound(mem, made)
    /\ batch \in Seq(JobsTo(made))
    /\ \A i \in 1..Len(batch) : Carries(batch[i], mem)
    /\ stack \in Seq(FramesOf(made))
    /\ \A i \in 1..Len(stack) : /\ stack[i].kind = "script" <=> stack[i].to = 0
                                /\ stack[i].kind = "finally" => stack[i].how \in Side
    /\ exposed \subseteq 1..made /\ frame \subseteq 1..made
    /\ leak \in LeakOf(made)
    /\ due \in [Promise -> [why : Reasons, side : Side, val : Value]]
    /\ got \in [Promise -> [side : Side \cup {"pending"}, val : Value]]

Queued(q, i) == i \in 1..Len(batch) /\ batch[i].to = q

NextAt(q, i) == Queued(q, i) /\ batch[i].kind # "adopt"

OnStack(q, i) == i \in 1..Len(stack) /\ stack[i].to = q

(* The continuation of q is in the memory, in the batch or on the stack,   *)
(* and in one place there.                                                 *)
OneContinuation ==
    \A q \in Promise :
        /\ OnePlace(mem, q)
        /\ \A i, j \in Nat : NextAt(q, i) /\ NextAt(q, j) => i = j
        /\ \A i, j \in Nat : OnStack(q, i) /\ OnStack(q, j) => i = j
        /\ \A i \in Nat : NextAt(q, i) =>
              Nowhere(mem, q) /\ \A j \in Nat : ~OnStack(q, j)
        /\ \A i \in Nat : OnStack(q, i) => Nowhere(mem, q)

(* A body that is to be resumed is suspended.                              *)
AwaitsAreSuspended ==
    \A q \in Promise :
        Refers(mem, q, "await") \/ (\E i \in Nat : Queued(q, i) /\ batch[i].kind = "await")
            => q \in frame

(* If every handler is called or passed through, somebody will settle what *)
(* is pending and not in the program's hands.                              *)
PendingIsHeld ==
    "none" \notin Handlers =>
        /\ Symmetric(mem)
        /\ \A q \in 1..made \ exposed : mem.state[q] = "pending" =>
              \/ \E i \in Nat : OnStack(q, i)
              \/ \E i \in Nat : Queued(q, i)
              \/ Held(mem, q)

(* The promise of an async function in its first run is nobody else's.     *)
FirstRunIsAlone ==
    \A i \in 1..Len(stack) : stack[i].kind = "body" /\ stack[i].how = "first" =>
        /\ mem.state[stack[i].to] = "pending"
        /\ stack[i].to \notin exposed
        /\ \A k \in Kinds : ~Refers(mem, stack[i].to, k)
        /\ \A j \in Nat : ~Queued(stack[i].to, j)

IInv ==
    /\ TypeInv
    /\ OneContinuation
    /\ AwaitsAreSuspended
    /\ PendingIsHeld
    /\ FirstRunIsAlone
    /\ FirstRunSettles

-----------------------------------------------------------------------------
(* More promises.                                                          *)

LEMMA TypesGrow ==
  ASSUME NEW n \in 0..NumPromises, NEW k \in n..NumPromises
  PROVE  /\ n \in Nat /\ k \in 0..NumPromises
         /\ 1..n \subseteq 1..k /\ 1..k \subseteq Promise /\ Promise \subseteq Nat
         /\ ValueOf(n) \subseteq ValueOf(k)
         /\ ReactionsTo(n) \subseteq ReactionsTo(k)
         /\ JobsTo(n) \subseteq JobsTo(k)
         /\ FramesOf(n) \subseteq FramesOf(k)
         /\ LeakOf(n) \subseteq LeakOf(k)
<1>1. /\ n \in Nat /\ k \in 0..NumPromises /\ 0..n \subseteq 0..k
      /\ 1..n \subseteq 1..k /\ 1..k \subseteq Promise /\ Promise \subseteq Nat
  BY ConstantsAssumption DEF Promise
<1>2. ValueOf(n) \subseteq ValueOf(k)
  BY <1>1 DEF ValueOf
<1>3. ReactionsTo(n) \subseteq ReactionsTo(k)
  BY <1>1 DEF ReactionsTo
<1>4. JobsTo(n) \subseteq JobsTo(k)
  BY <1>1, <1>2 DEF JobsTo
<1>5. FramesOf(n) \subseteq FramesOf(k)
  BY <1>1, <1>2 DEF FramesOf
<1>6. LeakOf(n) \subseteq LeakOf(k)
  BY <1>2 DEF LeakOf
<1> QED
  BY <1>1, <1>2, <1>3, <1>4, <1>5, <1>6

LEMMA SoundGrows ==
  ASSUME NEW n \in 0..NumPromises, NEW k \in n..NumPromises, NEW m, Sound(m, n)
  PROVE  Sound(m, k)
<1>1. /\ n \in Nat /\ k \in Nat /\ Promise \subseteq Nat
      /\ ValueOf(n) \subseteq ValueOf(k)
      /\ ReactionsTo(n) \subseteq ReactionsTo(k)
      /\ JobsTo(n) \subseteq JobsTo(k)
  BY TypesGrow, ConstantsAssumption
<1>2. m \in Memory(n)
  BY DEF Sound
<1>3. m.microtasks \in Seq(JobsTo(k))
  <2>1. m.microtasks \in Seq(JobsTo(n))
    BY <1>2 DEF Memory
  <2> QED
    BY <1>1, <2>1, SeqMonotonic
<1>4. m.reactions \in [Side -> [Promise -> Seq(ReactionsTo(k))]]
  <2>1. m.reactions \in [Side -> [Promise -> Seq(ReactionsTo(n))]]
    BY <1>2 DEF Memory
  <2>2. Seq(ReactionsTo(n)) \subseteq Seq(ReactionsTo(k))
    BY <1>1, SeqMonotonic
  <2> QED
    BY <2>1, <2>2
<1>5. m.result \in [Promise -> ValueOf(k)] /\ m.state \in [Promise -> {"pending"} \cup Side]
  BY <1>1, <1>2 DEF Memory
<1>6. m \in Memory(k)
  BY <1>2, <1>3, <1>4, <1>5 DEF Memory
<1>7. Blank(m, k)
  BY <1>1 DEF Blank, Sound
<1> QED
  BY <1>6, <1>7 DEF Sound

(* Nothing is for a promise that does not exist.                           *)
LEMMA NothingForNew ==
  ASSUME IInv, made < NumPromises
  PROVE  /\ made + 1 \in Promise /\ made + 1 \in 0..NumPromises /\ made + 1 \in made..NumPromises
         /\ Nowhere(mem, made + 1)
         /\ \A k \in Kinds : ~Refers(mem, made + 1, k)
         /\ \A i \in Nat : ~Queued(made + 1, i) /\ ~OnStack(made + 1, i)
         /\ mem.state[made + 1] = "pending"
         /\ \A s \in Side : mem.reactions[s][made + 1] = <<>>
<1>1. /\ made + 1 \in Promise /\ made + 1 \in 0..NumPromises /\ made + 1 \in made..NumPromises
      /\ made \in Nat /\ made + 1 > made
  BY ConstantsAssumption DEF IInv, TypeInv, Promise
<1>2. /\ mem.microtasks \in Seq(JobsTo(made))
      /\ \A s \in Side, p \in Promise : mem.reactions[s][p] \in Seq(ReactionsTo(made))
  BY DEF IInv, TypeInv, Sound, Memory
<1>3. \A i \in 1..Len(mem.microtasks) : mem.microtasks[i].to # made + 1
  <2>1. \A i \in 1..Len(mem.microtasks) : mem.microtasks[i] \in JobsTo(made)
    BY <1>2, ElementOfSeq
  <2> QED
    BY <1>1, <2>1 DEF JobsTo
<1>4. ASSUME NEW s \in Side, NEW p \in Promise, NEW i \in 1..Len(mem.reactions[s][p])
      PROVE  mem.reactions[s][p][i].to # made + 1
  <2>1. mem.reactions[s][p][i] \in ReactionsTo(made)
    BY <1>2, ElementOfSeq
  <2> QED
    BY <1>1, <2>1 DEF ReactionsTo
<1>5. \A i \in 1..Len(batch) : batch[i].to # made + 1
  <2>1. \A i \in 1..Len(batch) : batch[i] \in JobsTo(made)
    BY ElementOfSeq DEF IInv, TypeInv
  <2> QED
    BY <1>1, <2>1 DEF JobsTo
<1>6. \A i \in 1..Len(stack) : stack[i].to # made + 1
  <2>1. \A i \in 1..Len(stack) : stack[i] \in FramesOf(made)
    BY ElementOfSeq DEF IInv, TypeInv
  <2> QED
    BY <1>1, <2>1 DEF FramesOf
<1>7. /\ \A s \in Side, p \in Promise, i \in Nat : ~At(mem, made + 1, s, p, i)
      /\ \A i \in Nat : ~JobAt(mem, made + 1, i)
  BY <1>3, <1>4 DEF At, JobAt
<1>8. Nowhere(mem, made + 1) /\ \A k \in Kinds : ~Refers(mem, made + 1, k)
  BY <1>7 DEF Nowhere, Refers, WaitsAt, ContinuesAt
<1>9. mem.state[made + 1] = "pending" /\ \A s \in Side : mem.reactions[s][made + 1] = <<>>
  BY <1>1 DEF IInv, TypeInv, Sound, Blank
<1> QED
  BY <1>1, <1>5, <1>6, <1>8, <1>9 DEF Queued, OnStack

-----------------------------------------------------------------------------
(* What a step does to the batch and the stack.                            *)

(* At most q loses its place there, and nothing is added.                  *)
Leaves(q) ==
    /\ \A i \in 1..Len(stack') : i \in 1..Len(stack) /\ stack'[i] = stack[i]
    /\ \A x \in Promise, i \in Nat : x # q /\ OnStack(x, i) => OnStack(x, i)'
    /\ \E d \in {0, 1} : \A i \in 1..Len(batch') :
          i + d \in 1..Len(batch) /\ batch'[i] = batch[i + d]
    /\ \A x \in Promise, i \in Nat : x # q /\ Queued(x, i) => \E j \in Nat : Queued(x, j)'

LEMMA LeavesFacts ==
  ASSUME NEW q, Leaves(q)
  PROVE  /\ \A x \in Promise, i \in Nat : OnStack(x, i)' => OnStack(x, i) /\ stack'[i] = stack[i]
         /\ \E d \in {0, 1} : \A x \in Promise, i \in Nat :
               Queued(x, i)' => Queued(x, i + d) /\ batch'[i] = batch[i + d]
         /\ \E d \in {0, 1} : \A x \in Promise, i \in Nat :
               NextAt(x, i)' => NextAt(x, i + d) /\ batch'[i] = batch[i + d]
<1>1. \A x \in Promise, i \in Nat : OnStack(x, i)' => OnStack(x, i) /\ stack'[i] = stack[i]
  BY DEF Leaves, OnStack
<1>2. PICK d \in {0, 1} : \A i \in 1..Len(batch') :
          i + d \in 1..Len(batch) /\ batch'[i] = batch[i + d]
  BY DEF Leaves
<1>3. \A x \in Promise, i \in Nat : Queued(x, i)' => Queued(x, i + d) /\ batch'[i] = batch[i + d]
  BY <1>2 DEF Queued
<1>4. \A x \in Promise, i \in Nat : NextAt(x, i)' => NextAt(x, i + d) /\ batch'[i] = batch[i + d]
  BY <1>3 DEF NextAt
<1> QED
  BY <1>1, <1>3, <1>4

LEMMA StayingLeaves ==
  ASSUME TypeInv, UNCHANGED <<batch, stack>>, NEW q
  PROVE  Leaves(q)
<1>1. Len(batch) \in Nat /\ Len(stack) \in Nat
  BY LenProperties DEF TypeInv
<1>2. \A x \in Promise, i \in Nat : /\ OnStack(x, i)' <=> OnStack(x, i)
                                    /\ Queued(x, i)' <=> Queued(x, i)
  BY DEF OnStack, Queued
<1>3. \A i \in 1..Len(batch') : i + 0 \in 1..Len(batch) /\ batch'[i] = batch[i + 0]
  BY <1>1
<1> QED
  BY <1>2, <1>3 DEF Leaves

LEMMA ReturningLeaves ==
  ASSUME IInv, Running, NEW q, q = Top.to, stack' = Below, UNCHANGED batch
  PROVE  /\ Top \in FramesOf(made) /\ OnStack(q, Len(stack))
         /\ Len(stack) \in Nat \ {0} /\ Top = stack[Len(stack)]
         /\ Top.kind = "script" <=> q = 0
         /\ Top.kind = "finally" => Top.how \in Side
         /\ stack' \in Seq(FramesOf(made))
         /\ Leaves(q)
         /\ q \in Promise => \A i \in Nat : ~OnStack(q, i)'
<1> DEFINE L == Len(stack)
<1>1. /\ stack \in Seq(FramesOf(made)) /\ L \in Nat \ {0}
      /\ \A i \in 1..L : stack[i] \in FramesOf(made)
  BY EmptySeq, LenProperties, ElementOfSeq DEF IInv, TypeInv, Running
<1>2. Top = stack[L] /\ L \in 1..L
  BY <1>1 DEF Top
<1>3. /\ Top \in FramesOf(made) /\ OnStack(q, L)
      /\ Top.kind = "script" <=> q = 0
      /\ Top.kind = "finally" => Top.how \in Side
  BY <1>1, <1>2 DEF OnStack, IInv, TypeInv
<1>4. /\ stack' \in Seq(FramesOf(made)) /\ Len(stack') = L - 1
      /\ \A i \in 1..(L - 1) : stack'[i] = stack[i]
  <2>1. \A i \in 1..(L - 1) : stack[i] \in FramesOf(made)
    BY <1>1
  <2>2. stack' = SubSeq(stack, 1, L - 1)
    BY DEF Below
  <2> HIDE DEF L
  <2>3. /\ SubSeq(stack, 1, L - 1) \in Seq(FramesOf(made))
        /\ Len(SubSeq(stack, 1, L - 1)) = IF 1 <= L - 1 THEN (L - 1) - 1 + 1 ELSE 0
        /\ \A i \in 1..((L - 1) - 1 + 1) : SubSeq(stack, 1, L - 1)[i] = stack[1 + i - 1]
    BY <1>1, <2>1, SubSeqProperties
  <2> QED
    BY <1>1, <2>2, <2>3
<1> HIDE DEF L
<1>5. \A i \in 1..Len(stack') : i \in 1..L /\ stack'[i] = stack[i]
  BY <1>1, <1>4
<1>6. ASSUME NEW x \in Promise, NEW i \in Nat, x # q, OnStack(x, i)
      PROVE  OnStack(x, i)'
  <2>1. i \in 1..L /\ stack[i].to = x /\ i # L
    BY <1>2, <1>6 DEF OnStack, L
  <2> QED
    BY <1>1, <1>4, <2>1 DEF OnStack
<1>7. ASSUME q \in Promise, NEW i \in Nat, OnStack(q, i)'
      PROVE  FALSE
  <2>1. i \in 1..(L - 1) /\ OnStack(q, i)
    BY <1>1, <1>4, <1>5, <1>7 DEF OnStack, L
  <2>2. i = L
    BY <1>1, <1>3, <1>7, <2>1 DEF IInv, OneContinuation
  <2> QED
    BY <1>1, <2>1, <2>2
<1>8. \A i \in 1..Len(batch') : i + 0 \in 1..Len(batch) /\ batch'[i] = batch[i + 0]
  <2>1. Len(batch) \in Nat
    BY LenProperties DEF IInv, TypeInv
  <2> QED
    BY <2>1
<1>9. \A x \in Promise, i \in Nat : Queued(x, i) => Queued(x, i)'
  BY DEF Queued
<1>10. Leaves(q)
  BY <1>5, <1>6, <1>8, <1>9 DEF Leaves, L
<1> QED
  BY <1>1, <1>2, <1>3, <1>4, <1>7, <1>10 DEF L

LEMMA StartingLeaves ==
  ASSUME IInv, ~Running, batch # <<>>, NEW q, q = batch[1].to, batch' = Tail(batch)
  PROVE  /\ batch[1] \in JobsTo(made) /\ Carries(batch[1], mem) /\ Queued(q, 1)
         /\ batch' \in Seq(JobsTo(made))
         /\ \A i \in 1..Len(batch') : i + 1 \in 1..Len(batch) /\ batch'[i] = batch[i + 1]
         /\ \A x \in Promise, i \in Nat : x # q /\ Queued(x, i) => \E j \in Nat : Queued(x, j)'
         /\ q \in Promise /\ batch[1].kind # "adopt" => \A i \in Nat : ~NextAt(q, i)'
         /\ Len(stack) = 0 /\ \A x, i : ~OnStack(x, i)
         /\ UNCHANGED stack => Leaves(q)
<1> DEFINE L == Len(batch)
<1>1. /\ batch \in Seq(JobsTo(made)) /\ L \in Nat \ {0}
      /\ \A i \in 1..L : batch[i] \in JobsTo(made)
  BY EmptySeq, LenProperties, ElementOfSeq DEF IInv, TypeInv
<1>2. /\ Tail(batch) \in Seq(JobsTo(made)) /\ Len(Tail(batch)) = Len(batch) - 1
      /\ \A i \in 1..Len(Tail(batch)) : Tail(batch)[i] = batch[i + 1]
  BY <1>1, HeadTailProperties
<1>3. /\ batch' \in Seq(JobsTo(made)) /\ Len(batch') = L - 1
      /\ \A i \in 1..(L - 1) : batch'[i] = batch[i + 1]
  BY <1>2
<1> HIDE DEF L
<1>4. \A i \in 1..Len(batch') : i + 1 \in 1..L /\ batch'[i] = batch[i + 1]
  BY <1>1, <1>3
<1>5. batch[1] \in JobsTo(made) /\ Carries(batch[1], mem) /\ Queued(q, 1)
  BY <1>1 DEF IInv, TypeInv, Queued, L
<1>6. ASSUME NEW x \in Promise, NEW i \in Nat, x # q, Queued(x, i)
      PROVE  \E j \in Nat : Queued(x, j)'
  <2>1. i \in 1..L /\ batch[i].to = x /\ i # 1
    BY <1>6 DEF Queued, L
  <2>2. i - 1 \in 1..(L - 1) /\ i - 1 \in Nat /\ (i - 1) + 1 = i
    BY <1>1, <2>1
  <2>3. batch'[i - 1] = batch[i]
    BY <1>3, <2>2
  <2>4. Queued(x, i - 1)'
    BY <1>3, <2>1, <2>2, <2>3 DEF Queued
  <2> QED
    BY <2>2, <2>4
<1>7. ASSUME q \in Promise, batch[1].kind # "adopt", NEW i \in Nat, NextAt(q, i)'
      PROVE  FALSE
  <2>1. i \in 1..(L - 1) /\ batch'[i] = batch[i + 1]
    BY <1>3, <1>7 DEF NextAt, Queued
  <2>2. i + 1 \in 1..L
    BY <1>1, <2>1
  <2>3. NextAt(q, i + 1) /\ NextAt(q, 1) /\ i + 1 \in Nat /\ i + 1 # 1
    BY <1>5, <1>7, <2>1, <2>2 DEF NextAt, Queued, L
  <2> QED
    BY <1>7, <2>3 DEF IInv, OneContinuation
<1>8. Len(stack) = 0 /\ \A x, i : ~OnStack(x, i)
  BY EmptySeq DEF Running, OnStack
<1>9. UNCHANGED stack => Leaves(q)
  <2> SUFFICES ASSUME UNCHANGED stack PROVE Leaves(q)
    OBVIOUS
  <2>1. \A i \in 1..Len(stack') : i \in 1..Len(stack) /\ stack'[i] = stack[i]
    OBVIOUS
  <2>2. \A x \in Promise, i \in Nat : x # q /\ OnStack(x, i) => OnStack(x, i)'
    BY <1>8
  <2> QED
    BY <1>4, <1>6, <2>1, <2>2 DEF Leaves, L
<1> QED
  BY <1>3, <1>4, <1>5, <1>6, <1>7, <1>8, <1>9 DEF L

-----------------------------------------------------------------------------
(* Steps that resolve or reject q.                                         *)

(* Settled promises stay as they are.                                      *)
Settled(m, m1) ==
    \A p \in Promise : m.state[p] # "pending" =>
        m1.state[p] = m.state[p] /\ m1.result[p] = m.result[p]

LEMMA JobsStillCarry ==
  ASSUME TypeInv, Settled(mem, mem'),
         \A i \in 1..Len(batch') : \E j \in 1..Len(batch) : batch'[i] = batch[j]
  PROVE  \A i \in 1..Len(batch') : Carries(batch'[i], mem')
<1>1. 1..made \subseteq Promise
  BY ConstantsAssumption DEF TypeInv, Promise
<1>2. SUFFICES ASSUME NEW j \in 1..Len(batch) PROVE Carries(batch[j], mem')
  BY <1>2
<1>3. batch[j] \in JobsTo(made) /\ Carries(batch[j], mem)
  BY ElementOfSeq DEF TypeInv
<1>4. mem.state[batch[j].src] # "pending" /\ batch[j].src \in Promise
  BY <1>1, <1>3 DEF Carries, JobsTo, Side
<1> QED
  BY <1>3, <1>4 DEF Settled, Carries

LEMMA NowhereIsSourceless ==
  ASSUME NEW n \in 0..NumPromises, NEW m, Sound(m, n), NEW x \in Promise
  PROVE  Nowhere(m, x) <=> Sources(m, x) = {}
<1>1. \A i \in Nat : ContinuesAt(m, x, i) => m.microtasks[i].src \in Promise
  <2>1. m.microtasks \in Seq(JobsTo(n)) /\ 1..n \subseteq Promise
    BY ConstantsAssumption DEF Sound, Memory, Promise
  <2>2. \A i \in 1..Len(m.microtasks) : m.microtasks[i] \in JobsTo(n)
    BY <2>1, ElementOfSeq
  <2> QED
    BY <2>1, <2>2 DEF ContinuesAt, JobAt, JobsTo
<1> QED
  BY <1>1 DEF Nowhere, Sources

LEMMA PassKeepsContinuations ==
  ASSUME IInv, NEW n \in 0..NumPromises, NEW q \in Promise, Passes(mem, mem', n, q), Leaves(q)
  PROVE  OneContinuation'
<1> SUFFICES ASSUME NEW x \in Promise
             PROVE  /\ OnePlace(mem', x)
                    /\ \A i, j \in Nat : NextAt(x, i)' /\ NextAt(x, j)' => i = j
                    /\ \A i, j \in Nat : OnStack(x, i)' /\ OnStack(x, j)' => i = j
                    /\ \A i \in Nat : NextAt(x, i)' =>
                          Nowhere(mem', x) /\ \A j \in Nat : ~OnStack(x, j)'
                    /\ \A i \in Nat : OnStack(x, i)' => Nowhere(mem', x)
  BY DEF OneContinuation
<1>1. OnePlace(mem, x) => OnePlace(mem', x)
  BY DEF Passes
<1>2. Nowhere(mem, x) => Nowhere(mem', x)
  <2>1. Nowhere(mem, x) => Sources(mem, x) = {}
    BY NowhereIsSourceless DEF IInv, TypeInv
  <2>2. Sources(mem', x) = {} => Nowhere(mem', x)
    BY NowhereIsSourceless DEF Passes
  <2> QED
    BY <2>1, <2>2 DEF Passes
<1>3. PICK d \in {0, 1} : \A i \in Nat : NextAt(x, i)' => NextAt(x, i + d)
  BY LeavesFacts
<1>4. \A i \in Nat : OnStack(x, i)' => OnStack(x, i)
  BY LeavesFacts
<1>5. \A i \in Nat : i + d \in Nat
  OBVIOUS
<1> QED
  BY <1>1, <1>2, <1>3, <1>4, <1>5 DEF IInv, OneContinuation

LEMMA PassKeepsAwaits ==
  ASSUME IInv, NEW n, NEW q \in Promise, Passes(mem, mem', n, q), Leaves(q),
         frame' = frame \/ (frame' = frame \ {q} /\ \E k \in Nat : OnStack(q, k))
  PROVE  AwaitsAreSuspended'
<1>1. PICK d \in {0, 1} : \A x \in Promise, i \in Nat :
          Queued(x, i)' => Queued(x, i + d) /\ batch'[i] = batch[i + d]
  BY LeavesFacts
<1> SUFFICES ASSUME NEW x \in Promise,
                    Refers(mem', x, "await")
                        \/ \E i \in Nat : Queued(x, i)' /\ batch'[i].kind = "await"
             PROVE  x \in frame'
  BY DEF AwaitsAreSuspended
<1>2. Refers(mem, x, "await") \/ \E i \in Nat : Queued(x, i) /\ batch[i].kind = "await"
  <2>1. Refers(mem', x, "await") => Refers(mem, x, "await")
    BY DEF Passes, Kinds
  <2>2. ASSUME NEW i \in Nat, Queued(x, i)', batch'[i].kind = "await"
        PROVE  \E j \in Nat : Queued(x, j) /\ batch[j].kind = "await"
    <3>1. i + d \in Nat
      OBVIOUS
    <3> QED
      BY <1>1, <2>2, <3>1
  <2> QED
    BY <2>1, <2>2
<1>3. x \in frame
  BY <1>2 DEF IInv, AwaitsAreSuspended
<1>4. ASSUME NEW k \in Nat, OnStack(x, k)
      PROVE  FALSE
  <2>1. Nowhere(mem, x) /\ \A i \in Nat : ~NextAt(x, i)
    BY <1>4 DEF IInv, OneContinuation
  <2>2. ~Refers(mem, x, "await")
    BY <2>1 DEF Refers, Nowhere, WaitsAt, ContinuesAt
  <2> QED
    BY <1>2, <2>1, <2>2 DEF NextAt
<1> QED
  BY <1>3, <1>4

LEMMA PassKeepsHeld ==
  ASSUME IInv, NEW n, NEW q \in Promise, Passes(mem, mem', n, q), Leaves(q),
         UNCHANGED <<made, exposed>>
  PROVE  PendingIsHeld'
<1> SUFFICES ASSUME "none" \notin Handlers
             PROVE  /\ Symmetric(mem')
                    /\ \A x \in 1..made \ exposed : mem'.state[x] = "pending" =>
                          \/ \E i \in Nat : OnStack(x, i)'
                          \/ \E i \in Nat : Queued(x, i)'
                          \/ Held(mem', x)
  BY DEF PendingIsHeld
<1>1. Symmetric(mem')
  BY DEF Passes, IInv, PendingIsHeld
<1>2. ASSUME NEW x \in 1..made \ exposed, mem'.state[x] = "pending"
      PROVE  \/ \E i \in Nat : OnStack(x, i)'
             \/ \E i \in Nat : Queued(x, i)'
             \/ Held(mem', x)
  <2>1. x \in Promise
    BY ConstantsAssumption DEF IInv, TypeInv, Promise
  <2>2. CASE x = q
    BY <1>2, <2>2 DEF Passes
  <2>3. CASE x # q
    <3>1. mem.state[x] = "pending"
      BY <1>2, <2>1, <2>3 DEF Passes
    <3>2. \/ \E i \in Nat : OnStack(x, i)
          \/ \E i \in Nat : Queued(x, i)
          \/ Held(mem, x)
      BY <3>1 DEF IInv, PendingIsHeld
    <3>3. Held(mem, x) => Held(mem', x)
      BY <2>1 DEF Passes
    <3> QED
      BY <2>1, <2>3, <3>2, <3>3 DEF Leaves
  <2> QED
    BY <2>2, <2>3
<1> QED
  BY <1>1, <1>2

(* Who is on the stack with an async function in its first run.            *)
LEMMA FirstRunFacts ==
  ASSUME TypeInv, NEW i \in 1..Len(stack), stack[i].kind # "script"
  PROVE  stack[i].to \in 1..made /\ stack[i].to \in Promise /\ OnStack(stack[i].to, i) /\ i \in Nat
<1>1. stack[i] \in FramesOf(made)
  BY ElementOfSeq DEF TypeInv
<1>2. stack[i].to # 0 /\ stack[i].to \in 0..made
  BY <1>1 DEF TypeInv, FramesOf
<1> QED
  BY <1>2, ConstantsAssumption DEF TypeInv, Promise, OnStack

LEMMA PassKeepsFirst ==
  ASSUME IInv, NEW n, NEW q \in Promise, Passes(mem, mem', n, q), Leaves(q),
         UNCHANGED <<made, exposed>>,
         \A i \in Nat : OnStack(q, i)' => ~(stack'[i].kind = "body" /\ stack'[i].how = "first")
  PROVE  FirstRunIsAlone'
<1>1. PICK d \in {0, 1} : \A x \in Promise, i \in Nat : Queued(x, i)' => Queued(x, i + d)
  BY LeavesFacts
<1> SUFFICES ASSUME NEW i \in 1..Len(stack'), stack'[i].kind = "body", stack'[i].how = "first",
                    NEW x, x = stack'[i].to
             PROVE  /\ mem'.state[x] = "pending"
                    /\ x \notin exposed'
                    /\ \A k \in Kinds : ~Refers(mem', x, k)
                    /\ \A j \in Nat : ~Queued(x, j)'
  BY DEF FirstRunIsAlone, Queued
<1>2. i \in 1..Len(stack) /\ stack'[i] = stack[i] /\ x \in Promise /\ i \in Nat
  BY FirstRunFacts DEF Leaves, IInv
<1>3. /\ mem.state[x] = "pending" /\ x \notin exposed
      /\ \A k \in Kinds : ~Refers(mem, x, k)
      /\ \A j \in Nat : ~Queued(x, j)
  BY <1>2 DEF IInv, FirstRunIsAlone
<1>4. OnStack(x, i)'
  BY <1>2 DEF OnStack
<1>5. x # q
  BY <1>2, <1>4
<1>6. mem'.state[x] = "pending" /\ \A k \in Kinds : ~Refers(mem', x, k)
  BY <1>2, <1>3, <1>5 DEF Passes
<1>7. \A j \in Nat : ~Queued(x, j)'
  <2>1. \A j \in Nat : j + d \in Nat
    OBVIOUS
  <2> QED
    BY <1>1, <1>2, <1>3, <2>1
<1> QED
  BY <1>3, <1>6, <1>7

LEMMA PassKeepsSettled ==
  ASSUME IInv, NEW n, NEW q \in Promise, Passes(mem, mem', n, q),
         \A x \in Promise : due'[x].why = "first" /\ IsDone(x)' =>
            due'[x] = due[x] \/ EndsAsDue(x)'
  PROVE  FirstRunSettles'
<1> SUFFICES ASSUME NEW x \in Promise, due'[x].why = "first", IsDone(x)', due'[x] = due[x]
             PROVE  EndsAsDue(x)'
  BY DEF FirstRunSettles
<1>1. EndsAsDue(x)
  BY DEF IInv, FirstRunSettles, IsDone
<1>2. mem.state[x] # "pending"
  <2>1. due[x].side \in Side
    BY DEF IInv, TypeInv
  <2> QED
    BY <1>1, <2>1 DEF EndsAsDue, Side
<1> QED
  BY <1>1, <1>2 DEF Passes, EndsAsDue

(* A step that resolves or rejects q, and takes at most q off the stack or *)
(* the batch.                                                              *)
LEMMA PassKeepsInvariant ==
  ASSUME IInv, NEW q \in Promise, Passes(mem, mem', made, q), Leaves(q),
         UNCHANGED <<made, exposed>>,
         frame' = frame \/ (frame' = frame \ {q} /\ \E k \in Nat : OnStack(q, k)),
         \A i \in Nat : OnStack(q, i)' => ~(stack'[i].kind = "body" /\ stack'[i].how = "first"),
         batch' \in Seq(JobsTo(made)), stack' \in Seq(FramesOf(made)),
         fuel' \in 0..Fuel, leak' \in LeakOf(made'),
         due' \in [Promise -> [why : Reasons, side : Side, val : Value]],
         got' \in [Promise -> [side : Side \cup {"pending"}, val : Value]],
         \A x \in Promise : due'[x].why = "first" /\ IsDone(x)' =>
            due'[x] = due[x] \/ EndsAsDue(x)'
  PROVE  IInv'
<1>1. Settled(mem, mem')
  BY DEF Passes, Settled
<1>2. TypeInv'
  <2>1. made' \in 0..NumPromises /\ Sound(mem', made') /\ exposed' \subseteq 1..made'
    BY DEF IInv, TypeInv, Passes
  <2>2. frame' \subseteq 1..made'
    BY DEF IInv, TypeInv
  <2>3. \A i \in 1..Len(batch') : Carries(batch'[i], mem')
    BY <1>1, JobsStillCarry DEF Leaves, IInv
  <2>4. \A i \in 1..Len(stack') : /\ stack'[i].kind = "script" <=> stack'[i].to = 0
                                  /\ stack'[i].kind = "finally" => stack'[i].how \in Side
    BY DEF IInv, TypeInv, Leaves
  <2> QED
    BY <2>1, <2>2, <2>3, <2>4 DEF TypeInv
<1>3. OneContinuation'
  BY PassKeepsContinuations DEF IInv, TypeInv
<1>4. AwaitsAreSuspended'
  BY PassKeepsAwaits
<1>5. PendingIsHeld'
  BY PassKeepsHeld
<1>6. FirstRunIsAlone'
  BY PassKeepsFirst
<1>7. FirstRunSettles'
  BY PassKeepsSettled
<1> QED
  BY <1>2, <1>3, <1>4, <1>5, <1>6, <1>7 DEF IInv

LEMMA Operating ==
  ASSUME IInv, Step
  PROVE  fuel' \in 0..Fuel /\ 1..made \subseteq Promise /\ Known \subseteq 1..made
         /\ UserValue \subseteq ValueOf(made) /\ ValueOf(made) \subseteq Value
  BY ConstantsAssumption
     DEF IInv, TypeInv, Step, Promise, Known, UserValue, ValueOf, Value, Plain

LEMMA CallResolverStep ==
  ASSUME IInv, NEW p \in Known, NEW side \in Side, NEW v \in UserValue,
         CallResolver(p, side, v)
  PROVE  IInv'
<1>1. /\ p \in 1..made /\ p \in Promise /\ v \in ValueOf(made) /\ fuel' \in 0..Fuel
      /\ p \in exposed
  BY Operating DEF CallResolver
<1>2. Passes(mem, mem', made, p)
  BY <1>1, PassThroughPasses DEF IInv, TypeInv, CallResolver
<1>3. Leaves(p)
  BY StayingLeaves DEF IInv, CallResolver
<1>4. \A i \in Nat : OnStack(p, i)' => ~(stack'[i].kind = "body" /\ stack'[i].how = "first")
  BY <1>1 DEF CallResolver, OnStack, IInv, FirstRunIsAlone
<1>5. \A x \in Promise : due'[x] = due[x]
  BY DEF CallResolver
<1> QED
  BY <1>1, <1>2, <1>3, <1>4, <1>5, PassKeepsInvariant DEF IInv, TypeInv, CallResolver

-----------------------------------------------------------------------------
(* How running code ends.                                                  *)

LEMMA Ending ==
  ASSUME IInv, Running, NEW q, q = Top.to, Top.kind # "script", stack' = Below, UNCHANGED batch
  PROVE  /\ q \in 1..made /\ q \in Promise /\ Leaves(q)
         /\ stack' \in Seq(FramesOf(made)) /\ batch' \in Seq(JobsTo(made))
         /\ \A i \in Nat : ~OnStack(q, i)'
         /\ \E k \in Nat : OnStack(q, k)
         /\ Top \in FramesOf(made)
         /\ ValueOf(made) \subseteq Value /\ UserValue \subseteq ValueOf(made)
         /\ ErrText \in ValueOf(made)
<1>1. /\ Top \in FramesOf(made) /\ OnStack(q, Len(stack)) /\ Len(stack) \in Nat
      /\ q # 0
      /\ stack' \in Seq(FramesOf(made))
      /\ Leaves(q)
      /\ q \in Promise => \A i \in Nat : ~OnStack(q, i)'
  BY ReturningLeaves
<1>2. q \in 1..made /\ q \in Promise
  BY <1>1, ConstantsAssumption DEF FramesOf, IInv, TypeInv, Promise
<1>3. /\ ValueOf(made) \subseteq Value /\ UserValue \subseteq ValueOf(made)
      /\ ErrText \in ValueOf(made)
  BY ConstantsAssumption
     DEF IInv, TypeInv, Promise, Known, UserValue, ValueOf, Value, Plain
<1> QED
  BY <1>1, <1>2, <1>3 DEF IInv, TypeInv

LEMMA HandlerReturnsStep ==
  ASSUME IInv, NEW v \in UserValue, HandlerReturns(v)
  PROVE  IInv'
<1>1. PICK q : q = Top.to
  OBVIOUS
<1>2. /\ q \in 1..made /\ q \in Promise /\ Leaves(q)
      /\ stack' \in Seq(FramesOf(made)) /\ batch' \in Seq(JobsTo(made))
      /\ \A i \in Nat : ~OnStack(q, i)'
      /\ v \in ValueOf(made) /\ ErrText \in ValueOf(made)
  BY <1>1, Ending DEF HandlerReturns
<1>3. Passes(mem, mem', made, q)
  BY <1>1, <1>2, ResolvePasses DEF IInv, TypeInv, HandlerReturns
<1>4. leak' \in LeakOf(made')
  BY DEF IInv, TypeInv, HandlerReturns
<1>5. \A x \in Promise : due'[x] = due[x]
  BY DEF HandlerReturns
<1> QED
  BY <1>2, <1>3, <1>4, <1>5, PassKeepsInvariant DEF IInv, TypeInv, HandlerReturns

LEMMA HandlerThrowsStep ==
  ASSUME IInv, HandlerThrows
  PROVE  IInv'
<1>1. PICK q : q = Top.to
  OBVIOUS
<1>2. /\ q \in 1..made /\ q \in Promise /\ Leaves(q)
      /\ stack' \in Seq(FramesOf(made)) /\ batch' \in Seq(JobsTo(made))
      /\ \A i \in Nat : ~OnStack(q, i)'
      /\ ErrText \in ValueOf(made)
  BY <1>1, Ending DEF HandlerThrows
<1>3. Passes(mem, mem', made, q)
  BY <1>1, <1>2, RejectPasses DEF IInv, TypeInv, HandlerThrows
<1>4. leak' \in LeakOf(made')
  BY DEF HandlerThrows, LeakOf
<1>5. \A x \in Promise : due'[x] = due[x]
  BY DEF HandlerThrows
<1> QED
  BY <1>2, <1>3, <1>4, <1>5, PassKeepsInvariant DEF IInv, TypeInv, HandlerThrows

LEMMA FinallyEndsStep ==
  ASSUME IInv, NEW throws \in BOOLEAN, FinallyEnds(throws)
  PROVE  IInv'
<1>1. PICK q : q = Top.to
  OBVIOUS
<1>2. /\ q \in 1..made /\ q \in Promise /\ Leaves(q)
      /\ stack' \in Seq(FramesOf(made)) /\ batch' \in Seq(JobsTo(made))
      /\ \A i \in Nat : ~OnStack(q, i)'
      /\ Top.val \in ValueOf(made) /\ Top.val \in Value
      /\ Top.how \in Side
  <2>1. Top \in FramesOf(made) /\ Top.how \in Side
    BY <1>1, ReturningLeaves DEF FinallyEnds
  <2> QED
    BY <1>1, <2>1, Ending DEF FinallyEnds, FramesOf
<1>3. Passes(mem, mem', made, q)
  BY <1>1, <1>2, ResolvePasses DEF IInv, TypeInv, FinallyEnds
<1>4. leak' \in LeakOf(made')
  BY DEF FinallyEnds, LeakOf
<1>5. /\ due' = [due EXCEPT ![q] = [why |-> "finally", side |-> Top.how, val |-> Top.val]]
      /\ "finally" \in Reasons
  BY <1>1 DEF FinallyEnds, Reasons
<1>6. due' \in [Promise -> [why : Reasons, side : Side, val : Value]]
  BY <1>2, <1>5 DEF IInv, TypeInv
<1>7. \A x \in Promise : due'[x].why = "first" => due'[x] = due[x]
  BY <1>2, <1>5 DEF IInv, TypeInv
<1> QED
  BY <1>2, <1>3, <1>4, <1>6, <1>7, PassKeepsInvariant DEF IInv, TypeInv, FinallyEnds

LEMMA BodyEndsStep ==
  ASSUME IInv, NEW side \in Side, NEW v \in UserValue, BodyEnds(side, v)
  PROVE  IInv'
<1>1. PICK q : q = Top.to
  OBVIOUS
<1>2. stack' = Below /\ UNCHANGED <<batch, made, exposed, fuel, got>>
  BY DEF BodyEnds
<1>3. /\ q \in 1..made /\ q \in Promise /\ Leaves(q)
      /\ stack' \in Seq(FramesOf(made)) /\ batch' \in Seq(JobsTo(made))
      /\ \A i \in Nat : ~OnStack(q, i)'
      /\ \E k \in Nat : OnStack(q, k)
      /\ v \in ValueOf(made) /\ v \in Value /\ ErrText \in ValueOf(made)
      /\ Top.val \in ValueOf(made)
  <2>1. Running /\ Top.kind # "script"
    BY DEF BodyEnds
  <2> QED
    BY <1>1, <1>2, <2>1, Ending DEF FramesOf
<1> DEFINE Good == /\ Passes(mem, mem', made, q) /\ leak' \in LeakOf(made')
                   /\ frame' = frame \/ frame' = frame \ {q}
<1>4. ASSUME FirstRunEnds(side, v) PROVE Good
  BY <1>1, <1>2, <1>3, <1>4, PassThroughPasses DEF IInv, TypeInv, FirstRunEnds
<1>5. ASSUME ResumedEnds(side, v) PROVE Good
  <2>1. FailureReason \in ValueOf(made)
    BY <1>3 DEF FailureReason
  <2>2. leak' \in LeakOf(made')
    BY <1>2, <1>3, <1>5 DEF IInv, TypeInv, ResumedEnds, LeakOf
  <2> QED
    BY <1>1, <1>3, <1>5, <2>1, <2>2, RejectPasses, ResolvePasses DEF IInv, TypeInv, ResumedEnds
<1>6. ASSUME ResumedEndsLeftOver(side, v) PROVE Good
  <2>1. FailureReason \in ValueOf(made)
    BY <1>3 DEF FailureReason
  <2>2. leak' \in LeakOf(made')
    BY <1>2, <1>3, <1>6 DEF IInv, TypeInv, ResumedEndsLeftOver, LeakOf
  <2> QED
    BY <1>1, <1>3, <1>6, <2>1, <2>2, RejectPasses DEF IInv, TypeInv, ResumedEndsLeftOver
<1>7. Good
  BY <1>4, <1>5, <1>6 DEF BodyEnds
<1>8. PICK why \in Reasons :
         /\ why = "first" => Top.how = "first"
         /\ due' = due \/ due' = [due EXCEPT ![q] = [why |-> why, side |-> side, val |-> v]]
  <2> DEFINE w == IF Top.how = "first" THEN "first"
                  ELSE IF side = "fulfilled" THEN "return" ELSE "throw"
  <2>1. w \in Reasons /\ (w = "first" => Top.how = "first")
    BY DEF Reasons
  <2>2. due' = IF due[q].why = "await" THEN due
               ELSE [due EXCEPT ![q] = [why |-> w, side |-> side, val |-> v]]
    BY <1>1 DEF BodyEnds, Ended
  <2> HIDE DEF w
  <2> QED
    BY <2>1, <2>2
<1>9. due' \in [Promise -> [why : Reasons, side : Side, val : Value]]
  <2>1. due \in [Promise -> [why : Reasons, side : Side, val : Value]]
    BY DEF IInv, TypeInv
  <2>2. [why |-> why, side |-> side, val |-> v] \in [why : Reasons, side : Side, val : Value]
    BY <1>3
  <2> QED
    BY <1>3, <1>8, <2>1, <2>2
<1>10. ASSUME NEW x \in Promise, due'[x].why = "first", IsDone(x)', due'[x] # due[x]
      PROVE  EndsAsDue(x)'
  <2>1. x = q /\ due'[x] = [why |-> why, side |-> side, val |-> v]
    BY <1>3, <1>8, <1>10 DEF IInv, TypeInv
  <2>2. Top.how = "first"
    BY <1>8, <1>10, <2>1
  <2>3. mem.state[q] = "pending"
    <3>1. Len(stack) \in 1..Len(stack) /\ Top = stack[Len(stack)]
      <4>1. Running
        BY DEF BodyEnds
      <4> QED
        BY <1>1, <1>2, <4>1, ReturningLeaves
    <3> QED
      BY <1>1, <2>2, <3>1 DEF IInv, FirstRunIsAlone, BodyEnds
  <2>4. side = "rejected" \/ v \in Plain
    BY <1>10, <2>1 DEF IsDone
  <2>5. mem' = PassThrough(mem, q, side, v)
    BY <1>1, <2>2 DEF BodyEnds, FirstRunEnds
  <2>6. mem'.state[q] = side /\ mem'.result[q] = v
    BY <1>3, <2>3, <2>4, <2>5, PassThroughPasses DEF IInv, TypeInv
  <2> QED
    BY <2>1, <2>6 DEF EndsAsDue
<1> QED
  BY <1>2, <1>3, <1>9, <1>10, <1>7, PassKeepsInvariant DEF IInv, TypeInv

(* A body that ends with an exception left over, at the check at the       *)
(* bottom of the loop or by returning undefined.                           *)
LEMMA BodyStopsStep ==
  ASSUME IInv, BodyGivesUp \/ OpReturnUndefined
  PROVE  IInv'
<1>1. PICK q : q = Top.to
  OBVIOUS
<1>2. /\ Running /\ Top.kind # "script" /\ stack' = Below
      /\ UNCHANGED <<batch, made, exposed, fuel, got, leak>>
      /\ frame' = frame \/ frame' = frame \ {q}
  BY <1>1 DEF BodyGivesUp, OpReturnUndefined
<1>3. /\ q \in 1..made /\ q \in Promise /\ Leaves(q)
      /\ stack' \in Seq(FramesOf(made)) /\ batch' \in Seq(JobsTo(made))
      /\ \A i \in Nat : ~OnStack(q, i)'
      /\ \E k \in Nat : OnStack(q, k)
      /\ ErrText \in ValueOf(made) /\ Top.val \in ValueOf(made)
      /\ Undefined \in ValueOf(made) /\ Undefined \in Value
  BY <1>1, <1>2, Ending DEF FramesOf, ValueOf, Value, Plain
<1>4. Passes(mem, mem', made, q)
  <2>1. FailureReason \in ValueOf(made)
    BY <1>3 DEF FailureReason
  <2> QED
    BY <1>1, <1>3, <2>1, RejectPasses, ResolvePasses
       DEF IInv, TypeInv, BodyGivesUp, OpReturnUndefined
<1>5. \/ due' = due
      \/ due' = [due EXCEPT ![q] = [why |-> "return", side |-> "fulfilled", val |-> Undefined]]
  BY <1>1 DEF BodyGivesUp, OpReturnUndefined, Ended
<1>6. /\ due' \in [Promise -> [why : Reasons, side : Side, val : Value]]
      /\ \A x \in Promise : due'[x].why = "first" => due'[x] = due[x]
  <2>1. due \in [Promise -> [why : Reasons, side : Side, val : Value]]
    BY DEF IInv, TypeInv
  <2>2. [why |-> "return", side |-> "fulfilled", val |-> Undefined]
           \in [why : Reasons, side : Side, val : Value]
    BY <1>3 DEF Reasons, Side
  <2> QED
    BY <1>3, <1>5, <2>1, <2>2
<1> QED
  BY <1>2, <1>3, <1>4, <1>6, PassKeepsInvariant DEF IInv, TypeInv

-----------------------------------------------------------------------------
(* Microtasks that run no code.                                            *)

LEMMA Starting ==
  ASSUME IInv, NEW kinds, StartJob(kinds), NEW q, q = batch[1].to
  PROVE  /\ q \in 1..made /\ q \in Promise /\ batch[1] \in JobsTo(made)
         /\ Carries(batch[1], mem) /\ Queued(q, 1) /\ batch[1].kind \in kinds
         /\ batch[1].side \in Side /\ batch[1].val \in ValueOf(made) /\ batch[1].val \in Value
         /\ batch' \in Seq(JobsTo(made))
         /\ \A i \in 1..Len(batch') : i + 1 \in 1..Len(batch) /\ batch'[i] = batch[i + 1]
         /\ \A x \in Promise, i \in Nat : x # q /\ Queued(x, i) => \E j \in Nat : Queued(x, j)'
         /\ batch[1].kind # "adopt" => \A i \in Nat : ~NextAt(q, i)'
         /\ \A x, i : ~OnStack(x, i)
         /\ UNCHANGED stack => Leaves(q)
         /\ got' \in [Promise -> [side : Side \cup {"pending"}, val : Value]]
         /\ UNCHANGED <<made, exposed, fuel>>
<1>1. ~Running /\ batch # <<>> /\ batch' = Tail(batch) /\ UNCHANGED <<made, exposed, fuel>>
      /\ batch[1].kind \in kinds
  BY DEF StartJob
<1>2. batch[1] \in JobsTo(made)
  BY <1>1, StartingLeaves
<1>3. /\ q \in 1..made /\ q \in Promise
      /\ batch[1].side \in Side /\ batch[1].val \in ValueOf(made) /\ batch[1].val \in Value
  BY <1>2, ConstantsAssumption DEF IInv, TypeInv, JobsTo, ValueOf, Value, Plain, Promise
<1>4. got' \in [Promise -> [side : Side \cup {"pending"}, val : Value]]
  <2>1. got \in [Promise -> [side : Side \cup {"pending"}, val : Value]]
    BY DEF IInv, TypeInv
  <2>2. got[q] \in [side : Side \cup {"pending"}, val : Value]
        /\ [side |-> batch[1].side, val |-> batch[1].val] \in [side : Side \cup {"pending"}, val : Value]
    BY <1>3, <2>1
  <2>3. PICK g \in [side : Side \cup {"pending"}, val : Value] : got' = [got EXCEPT ![q] = g]
    BY <2>2 DEF StartJob
  <2> QED
    BY <1>3, <2>1, <2>3
<1>5. /\ Carries(batch[1], mem) /\ Queued(q, 1)
      /\ batch' \in Seq(JobsTo(made))
      /\ \A i \in 1..Len(batch') : i + 1 \in 1..Len(batch) /\ batch'[i] = batch[i + 1]
      /\ \A x \in Promise, i \in Nat : x # q /\ Queued(x, i) => \E j \in Nat : Queued(x, j)'
      /\ batch[1].kind # "adopt" => \A i \in Nat : ~NextAt(q, i)'
      /\ \A x, i : ~OnStack(x, i)
      /\ UNCHANGED stack => Leaves(q)
  BY <1>1, <1>3, StartingLeaves
<1> QED
  BY <1>1, <1>2, <1>3, <1>4, <1>5

LEMMA RunPassThroughStep ==
  ASSUME IInv, RunPassThrough
  PROVE  IInv'
<1>1. PICK q : q = batch[1].to
  OBVIOUS
<1>2. /\ q \in 1..made /\ q \in Promise
      /\ batch[1].side \in Side /\ batch[1].val \in ValueOf(made)
      /\ batch' \in Seq(JobsTo(made))
      /\ \A x, i : ~OnStack(x, i)
      /\ UNCHANGED stack => Leaves(q)
      /\ got' \in [Promise -> [side : Side \cup {"pending"}, val : Value]]
      /\ UNCHANGED <<made, exposed, fuel>>
  BY <1>1, Starting DEF RunPassThrough
<1>3. UNCHANGED <<stack, frame, leak, due>> /\ mem' = PassThrough(mem, q, batch[1].side, batch[1].val)
  BY <1>1 DEF RunPassThrough
<1>4. Passes(mem, mem', made, q)
  BY <1>2, <1>3, PassThroughPasses DEF IInv, TypeInv
<1>5. \A i \in Nat : ~OnStack(q, i)'
  BY <1>2, <1>3 DEF OnStack
<1>6. \A x \in Promise : due'[x] = due[x]
  BY <1>3
<1> QED
  BY <1>2, <1>3, <1>4, <1>5, <1>6, PassKeepsInvariant DEF IInv, TypeInv

-----------------------------------------------------------------------------
(* Microtasks that run code.                                               *)

LEMMA StartKeepsInvariant ==
  ASSUME IInv, NEW kinds, StartJob(kinds), "adopt" \notin kinds, NEW q, q = batch[1].to,
         UNCHANGED <<mem, frame>>, NEW f \in FramesOf(made), stack' = <<f>>,
         f.to = q, f.kind # "script", f.kind = "finally" => f.how \in Side,
         ~(f.kind = "body" /\ f.how = "first"), leak' \in LeakOf(made'),
         due' \in [Promise -> [why : Reasons, side : Side, val : Value]],
         \A x \in Promise : due'[x].why = "first" => due'[x] = due[x]
  PROVE  IInv'
<1>1. /\ q \in 1..made /\ q \in Promise
      /\ Queued(q, 1) /\ batch[1].kind # "adopt"
      /\ batch' \in Seq(JobsTo(made))
      /\ \A i \in 1..Len(batch') : i + 1 \in 1..Len(batch) /\ batch'[i] = batch[i + 1]
      /\ \A x \in Promise, i \in Nat : x # q /\ Queued(x, i) => \E j \in Nat : Queued(x, j)'
      /\ \A i \in Nat : ~NextAt(q, i)'
      /\ \A x, i : ~OnStack(x, i)
      /\ got' \in [Promise -> [side : Side \cup {"pending"}, val : Value]]
      /\ UNCHANGED <<made, exposed, fuel>>
  BY Starting
<1>2. NextAt(q, 1) /\ Nowhere(mem, q)
  BY <1>1 DEF NextAt, IInv, OneContinuation
<1>3. stack' \in Seq(FramesOf(made)) /\ Len(stack') = 1 /\ stack'[1] = f
  OBVIOUS
<1>4. \A x, i : OnStack(x, i)' <=> i = 1 /\ x = q
  BY <1>3 DEF OnStack
<1>5. \A x \in Promise, i \in Nat :
          Queued(x, i)' => Queued(x, i + 1) /\ batch'[i] = batch[i + 1] /\ i + 1 \in Nat
  BY <1>1 DEF Queued
<1>6. \A x \in Promise, i \in Nat : NextAt(x, i)' => NextAt(x, i + 1) /\ x # q
  BY <1>1, <1>5 DEF NextAt
<1>7. TypeInv'
  <2>1. \A i \in 1..Len(batch') : Carries(batch'[i], mem')
    BY <1>1 DEF IInv, TypeInv
  <2>2. \A i \in 1..Len(stack') : /\ stack'[i].kind = "script" <=> stack'[i].to = 0
                                  /\ stack'[i].kind = "finally" => stack'[i].how \in Side
    <3>1. q # 0
      BY <1>1 DEF IInv, TypeInv
    <3> QED
      BY <1>3, <3>1
  <2> QED
    BY <1>1, <1>3, <2>1, <2>2 DEF IInv, TypeInv
<1>8. OneContinuation'
  <2> SUFFICES ASSUME NEW x \in Promise
               PROVE  /\ OnePlace(mem', x)
                      /\ \A i, j \in Nat : NextAt(x, i)' /\ NextAt(x, j)' => i = j
                      /\ \A i, j \in Nat : OnStack(x, i)' /\ OnStack(x, j)' => i = j
                      /\ \A i \in Nat : NextAt(x, i)' =>
                            Nowhere(mem', x) /\ \A j \in Nat : ~OnStack(x, j)'
                      /\ \A i \in Nat : OnStack(x, i)' => Nowhere(mem', x)
    BY DEF OneContinuation
  <2>1. \A i, j \in Nat : NextAt(x, i)' /\ NextAt(x, j)' => i = j
    <3>1. \A i, j \in Nat : NextAt(x, i + 1) /\ NextAt(x, j + 1) => i + 1 = j + 1
      BY DEF IInv, OneContinuation
    <3>2. \A i, j \in Nat : i + 1 = j + 1 => i = j
      OBVIOUS
    <3> QED
      BY <1>6, <3>1, <3>2
  <2>2. \A i \in Nat : NextAt(x, i)' => Nowhere(mem, x)
    <3>1. \A i \in Nat : NextAt(x, i + 1) => Nowhere(mem, x)
      BY DEF IInv, OneContinuation
    <3> QED
      BY <1>6, <3>1
  <2> QED
    BY <1>2, <1>4, <1>6, <2>1, <2>2 DEF IInv, OneContinuation
<1>9. AwaitsAreSuspended'
  <2> SUFFICES ASSUME NEW x \in Promise,
                      Refers(mem, x, "await")
                        \/ \E i \in Nat : Queued(x, i)' /\ batch'[i].kind = "await"
               PROVE  x \in frame
    BY DEF AwaitsAreSuspended
  <2> QED
    BY <1>5 DEF IInv, AwaitsAreSuspended
<1>10. PendingIsHeld'
  <2> SUFFICES ASSUME "none" \notin Handlers
               PROVE  /\ Symmetric(mem)
                      /\ \A x \in 1..made \ exposed : mem.state[x] = "pending" =>
                            \/ \E i \in Nat : OnStack(x, i)'
                            \/ \E i \in Nat : Queued(x, i)'
                            \/ Held(mem, x)
    BY <1>1 DEF PendingIsHeld
  <2>1. 1..made \subseteq Promise
    BY ConstantsAssumption DEF IInv, TypeInv, Promise
  <2> QED
    BY <1>1, <1>4, <2>1 DEF IInv, PendingIsHeld
<1>11. FirstRunIsAlone'
  BY <1>3 DEF FirstRunIsAlone
<1>12. FirstRunSettles'
  BY DEF FirstRunSettles, IInv, IsDone, EndsAsDue
<1> QED
  BY <1>7, <1>8, <1>9, <1>10, <1>11, <1>12 DEF IInv

LEMMA RunHandlerStep ==
  ASSUME IInv, RunHandler
  PROVE  IInv'
<1>1. PICK q : q = batch[1].to
  OBVIOUS
<1> DEFINE f == IF batch[1].kind = "call" THEN Handler(q)
                ELSE OnFinally(q, batch[1].side, batch[1].val)
<1>2. StartJob({"call", "finally"}) /\ stack' = <<f>> /\ UNCHANGED <<mem, frame, due>>
      /\ leak' = (IF leak = Handed THEN NoneLeft ELSE leak)
  BY <1>1 DEF RunHandler
<1>3. /\ q \in 1..made /\ batch[1].side \in Side /\ batch[1].val \in ValueOf(made)
      /\ Undefined \in ValueOf(made) /\ q \in 0..made
  <2>1. q \in 1..made /\ batch[1].side \in Side /\ batch[1].val \in ValueOf(made)
    BY <1>1, <1>2, Starting
  <2> QED
    BY <2>1 DEF ValueOf, Plain, IInv, TypeInv
<1>4. /\ f \in FramesOf(made) /\ f.to = q /\ f.kind \in {"handler", "finally"}
      /\ f.kind = "finally" => f.how \in Side
  BY <1>3 DEF Handler, OnFinally, FramesOf
<1> HIDE DEF f
<1>6. UNCHANGED made
  BY <1>2 DEF StartJob
<1>5. leak' \in LeakOf(made')
  BY <1>2, <1>6 DEF IInv, TypeInv, LeakOf
<1> QED
  BY <1>1, <1>2, <1>4, <1>5, StartKeepsInvariant DEF IInv, TypeInv

(* A body is resumed with the outcome of what it awaits.                   *)
LEMMA ResumeStep ==
  ASSUME IInv, StartJob({"await"}), NEW s \in Side,
         stack' = <<Body(batch[1].to, s, batch[1].val)>>, UNCHANGED <<mem, frame>>,
         leak' \in LeakOf(made'),
         due' \in [Promise -> [why : Reasons, side : Side, val : Value]],
         \A x \in Promise : due'[x].why = "first" => due'[x] = due[x]
  PROVE  IInv'
<1>1. PICK q : q = batch[1].to
  OBVIOUS
<1> DEFINE f == Body(q, s, batch[1].val)
<1>2. q \in 1..made /\ batch[1].val \in ValueOf(made) /\ q \in 0..made
  <2>1. q \in 1..made /\ batch[1].val \in ValueOf(made)
    BY <1>1, Starting
  <2> QED
    BY <2>1 DEF IInv, TypeInv
<1>3. f \in FramesOf(made) /\ f.to = q /\ f.kind = "body" /\ f.how \in Side /\ stack' = <<f>>
  BY <1>1, <1>2 DEF Body, FramesOf
<1> HIDE DEF f
<1>4. f.how # "first"
  BY <1>3 DEF Side
<1> QED
  BY <1>1, <1>3, <1>4, StartKeepsInvariant

(* What a body's promise is due to end as when its await was rejected.     *)
LEMMA DueToReject ==
  ASSUME IInv, StartJob({"await"}),
         due' = [due EXCEPT ![batch[1].to] =
                   [why |-> "await", side |-> "rejected", val |-> batch[1].val]]
  PROVE  /\ due' \in [Promise -> [why : Reasons, side : Side, val : Value]]
         /\ \A x \in Promise : due'[x].why = "first" => due'[x] = due[x]
<1>1. PICK q : q = batch[1].to
  OBVIOUS
<1>2. q \in Promise /\ batch[1].val \in Value
  BY <1>1, Starting
<1>3. due \in [Promise -> [why : Reasons, side : Side, val : Value]]
  BY DEF IInv, TypeInv
<1>4. [why |-> "await", side |-> "rejected", val |-> batch[1].val]
          \in [why : Reasons, side : Side, val : Value]
  BY <1>2 DEF Reasons, Side
<1>5. due' \in [Promise -> [why : Reasons, side : Side, val : Value]]
  BY <1>1, <1>2, <1>3, <1>4
<1>6. \A x \in Promise : due'[x].why = "first" => due'[x] = due[x]
  BY <1>1, <1>2, <1>3
<1> QED
  BY <1>5, <1>6

LEMMA ResumptionSteps ==
  ASSUME IInv, resumeAsyncFunction \/ ResumeCaught \/ ResumeUncaught
  PROVE  IInv'
<1>1. CASE resumeAsyncFunction
  <2>1. UNCHANGED made
    BY <1>1 DEF resumeAsyncFunction, StartJob
  <2> QED
    BY <1>1, <2>1, ResumeStep DEF resumeAsyncFunction, IInv, TypeInv, Side
<1>2. CASE ResumeCaught
  BY <1>2, ResumeStep DEF ResumeCaught, IInv, TypeInv, Side, LeakOf
<1>3. CASE ResumeUncaught
  <2>1. /\ StartJob({"await"}) /\ leak' \in LeakOf(made') /\ UNCHANGED frame
        /\ due' \in [Promise -> [why : Reasons, side : Side, val : Value]]
        /\ \A x \in Promise : due'[x].why = "first" => due'[x] = due[x]
    <3>1. batch[1].val \in ValueOf(made) /\ UNCHANGED made
      BY <1>3, Starting DEF ResumeUncaught
    <3> QED
      BY <1>3, <3>1, DueToReject DEF ResumeUncaught, LeakOf
  <2>2. CASE stack' = <<Body(batch[1].to, "rejected", batch[1].val)>> /\ UNCHANGED mem
    BY <2>1, <2>2, ResumeStep DEF Side
  <2>3. CASE mem' = rejectPromise(mem, batch[1].to, batch[1].val) /\ UNCHANGED stack
    <3>1. PICK q : q = batch[1].to
      OBVIOUS
    <3>2. /\ q \in 1..made /\ q \in Promise /\ batch[1].val \in ValueOf(made)
          /\ batch' \in Seq(JobsTo(made)) /\ Leaves(q)
          /\ \A x, i : ~OnStack(x, i)
          /\ got' \in [Promise -> [side : Side \cup {"pending"}, val : Value]]
          /\ UNCHANGED <<made, exposed, fuel>>
      BY <2>1, <2>3, <3>1, Starting
    <3>3. Passes(mem, mem', made, q)
      BY <2>3, <3>1, <3>2, RejectPasses DEF IInv, TypeInv
    <3>4. \A i \in Nat : ~OnStack(q, i)'
      BY <2>3, <3>2 DEF OnStack
    <3> QED
      BY <2>1, <2>3, <3>2, <3>3, <3>4, PassKeepsInvariant DEF IInv, TypeInv
  <2> QED
    BY <1>3, <2>2, <2>3 DEF ResumeUncaught
<1> QED
  BY <1>1, <1>2, <1>3

LEMMA TakeBatchStep ==
  ASSUME IInv, TakeBatch
  PROVE  IInv'
<1> DEFINE mt == mem.microtasks
<1>1. /\ batch' = mt /\ UNCHANGED <<made, stack, frame, leak, exposed, fuel, due, got>>
      /\ batch = <<>> /\ stack = <<>>
      /\ mem \in Memory(made) /\ mem' = [mem EXCEPT !.microtasks = <<>>]
  BY DEF TakeBatch, Running, IInv, TypeInv, Sound
<1>2. /\ mem'.state = mem.state /\ mem'.result = mem.result /\ mem'.reactions = mem.reactions
      /\ mem'.microtasks = <<>> /\ mem' \in Memory(made)
  <2>1. <<>> \in Seq(JobsTo(made))
    BY EmptySeq
  <2> QED
    BY <1>1, <2>1 DEF Memory
<1>3. mt \in Seq(JobsTo(made)) /\ \A i \in 1..Len(mt) : Carries(mt[i], mem)
  BY DEF IInv, TypeInv, Sound, Memory
<1>4. /\ \A x, p \in Promise, s \in Side, i \in Nat : At(mem', x, s, p, i) <=> At(mem, x, s, p, i)
      /\ \A x, p \in Promise, s \in Side, i \in Nat :
            WaitsAt(mem', x, s, p, i) <=> WaitsAt(mem, x, s, p, i)
  BY <1>2 DEF At, WaitsAt
<1>5. Len(batch) = 0 /\ Len(stack) = 0 /\ Len(mem'.microtasks) = 0
  BY <1>1, <1>2, EmptySeq
<1>6. \A x, i : ~JobAt(mem', x, i) /\ ~ContinuesAt(mem', x, i) /\ ~OnStack(x, i) /\ ~OnStack(x, i)'
  BY <1>1, <1>5 DEF JobAt, ContinuesAt, OnStack
<1>7. \A x, i : /\ Queued(x, i)' <=> JobAt(mem, x, i)
                /\ NextAt(x, i)' <=> ContinuesAt(mem, x, i)
  BY <1>1 DEF Queued, JobAt, NextAt, ContinuesAt
<1>8. TypeInv'
  <2>1. Sound(mem', made)
    <3>1. Blank(mem', made) /\ NoneStranded(mem') /\ PlainFulfilled(mem')
      BY <1>2 DEF IInv, TypeInv, Sound, Blank, NoneStranded, PlainFulfilled
    <3> QED
      BY <1>2, <1>5, <3>1 DEF Sound
  <2>2. \A i \in 1..Len(batch') : Carries(batch'[i], mem')
    BY <1>1, <1>2, <1>3 DEF Carries
  <2> HIDE DEF mt
  <2> QED
    BY <1>1, <1>3, <2>1, <2>2 DEF IInv, TypeInv
<1>9. OneContinuation'
  <2> SUFFICES ASSUME NEW x \in Promise
               PROVE  /\ OnePlace(mem', x)
                      /\ \A i, j \in Nat : NextAt(x, i)' /\ NextAt(x, j)' => i = j
                      /\ \A i \in Nat : NextAt(x, i)' => Nowhere(mem', x)
    BY <1>6 DEF OneContinuation
  <2>1. OnePlace(mem, x)
    BY DEF IInv, OneContinuation
  <2>2. OnePlace(mem', x)
    BY <1>4, <1>6, <2>1 DEF OnePlace
  <2>3. \A i \in Nat : ContinuesAt(mem, x, i) => Nowhere(mem', x)
    BY <1>4, <1>6, <2>1 DEF OnePlace, Nowhere
  <2> QED
    BY <1>7, <2>1, <2>2, <2>3 DEF OnePlace
<1>10. AwaitsAreSuspended'
  <2> SUFFICES ASSUME NEW x \in Promise,
                      Refers(mem', x, "await")
                        \/ \E i \in Nat : Queued(x, i)' /\ batch'[i].kind = "await"
               PROVE  x \in frame
    BY <1>1 DEF AwaitsAreSuspended
  <2>1. Refers(mem, x, "await")
    BY <1>1, <1>2, <1>4, <1>6, <1>7 DEF Refers
  <2> QED
    BY <2>1 DEF IInv, AwaitsAreSuspended
<1>11. PendingIsHeld'
  <2> SUFFICES ASSUME "none" \notin Handlers
               PROVE  /\ Symmetric(mem')
                      /\ \A x \in 1..made \ exposed : mem.state[x] = "pending" =>
                            \/ \E i \in Nat : Queued(x, i)'
                            \/ Held(mem', x)
    BY <1>1, <1>2 DEF PendingIsHeld
  <2>1. Symmetric(mem')
    BY <1>4 DEF IInv, PendingIsHeld, Symmetric
  <2>2. ASSUME NEW x \in 1..made \ exposed, mem.state[x] = "pending"
        PROVE  \/ \E i \in Nat : Queued(x, i)'
               \/ Held(mem', x)
    <3>1. x \in Promise
      BY ConstantsAssumption DEF IInv, TypeInv, Promise
    <3>2. \A i : ~Queued(x, i)
      BY <1>5 DEF Queued
    <3>3. Held(mem, x)
      BY <1>6, <2>2, <3>2 DEF IInv, PendingIsHeld
    <3> QED
      BY <1>4, <1>7, <3>1, <3>3 DEF Held
  <2> QED
    BY <2>1, <2>2
<1>12. FirstRunIsAlone'
  BY <1>1, <1>5 DEF FirstRunIsAlone
<1>13. FirstRunSettles'
  BY <1>1, <1>2 DEF FirstRunSettles, IInv, IsDone, EndsAsDue
<1> QED
  BY <1>8, <1>9, <1>10, <1>11, <1>12, <1>13 DEF IInv

-----------------------------------------------------------------------------
(* Steps that leave the promises and the queue alone.                      *)

LEMMA EndScriptStep ==
  ASSUME IInv, EndScript
  PROVE  IInv'
<1>1. PICK q : q = Top.to
  OBVIOUS
<1>2. stack' = Below /\ UNCHANGED <<mem, made, batch, frame, leak, exposed, fuel, due, got>>
  BY DEF EndScript
<1>3. q = 0 /\ Leaves(q) /\ stack' \in Seq(FramesOf(made))
  BY <1>1, ReturningLeaves DEF EndScript
<1>4. q \notin Promise
  BY <1>3, PromisesAreNumbers
<1>5. /\ \A x \in Promise, i \in Nat : OnStack(x, i)' => OnStack(x, i)
      /\ \A x \in Promise, i \in Nat : OnStack(x, i) => OnStack(x, i)'
  BY <1>3, <1>4, LeavesFacts DEF Leaves
<1>6. \A x, i : /\ Queued(x, i)' <=> Queued(x, i)
                /\ NextAt(x, i)' <=> NextAt(x, i)
  BY <1>2 DEF Queued, NextAt
<1>7. TypeInv'
  BY <1>2, <1>3 DEF IInv, TypeInv, Leaves
<1>8. OneContinuation'
  BY <1>2, <1>5, <1>6 DEF IInv, OneContinuation
<1>9. AwaitsAreSuspended'
  BY <1>2, <1>6 DEF IInv, AwaitsAreSuspended
<1>10. PendingIsHeld'
  <2>1. 1..made \subseteq Promise
    BY ConstantsAssumption DEF IInv, TypeInv, Promise
  <2> QED
    BY <1>2, <1>5, <1>6, <2>1 DEF IInv, PendingIsHeld
<1>11. FirstRunIsAlone'
  <2> SUFFICES ASSUME NEW i \in 1..Len(stack'), stack'[i].kind = "body", stack'[i].how = "first",
                      NEW x, x = stack'[i].to
               PROVE  /\ mem.state[x] = "pending"
                      /\ x \notin exposed
                      /\ \A k \in Kinds : ~Refers(mem, x, k)
                      /\ \A j \in Nat : ~Queued(x, j)
    BY <1>2 DEF FirstRunIsAlone, Queued
  <2> QED
    BY <1>3 DEF IInv, FirstRunIsAlone, Leaves
<1>12. FirstRunSettles'
  BY <1>2 DEF FirstRunSettles, IInv, IsDone, EndsAsDue
<1> QED
  BY <1>7, <1>8, <1>9, <1>10, <1>11, <1>12 DEF IInv

-----------------------------------------------------------------------------
(* A new promise, settled or not.                                          *)

(* What is registered and scheduled is the same.                           *)
SameQueue(m, m1) ==
    /\ m1.reactions = m.reactions /\ m1.microtasks = m.microtasks
    /\ \A x, p \in Promise, s \in Side, i \in Nat : At(m1, x, s, p, i) <=> At(m, x, s, p, i)

LEMMA SameQueueFacts ==
  ASSUME NEW m, NEW m1, SameQueue(m, m1)
  PROVE  /\ \A x \in Promise : /\ OnePlace(m1, x) <=> OnePlace(m, x)
                               /\ Nowhere(m1, x) <=> Nowhere(m, x)
                               /\ Held(m1, x) <=> Held(m, x)
                               /\ \A k \in Kinds : Refers(m1, x, k) <=> Refers(m, x, k)
         /\ Symmetric(m1) <=> Symmetric(m)
<1>1. \A x, p \in Promise, s \in Side, i \in Nat :
          WaitsAt(m1, x, s, p, i) <=> WaitsAt(m, x, s, p, i)
  BY DEF SameQueue, WaitsAt
<1>2. \A x, i : /\ JobAt(m1, x, i) <=> JobAt(m, x, i)
                /\ ContinuesAt(m1, x, i) <=> ContinuesAt(m, x, i)
  BY DEF SameQueue, JobAt, ContinuesAt
<1>3. \A x \in Promise : OnePlace(m1, x) <=> OnePlace(m, x)
  BY <1>1, <1>2 DEF OnePlace
<1>4. \A x \in Promise : Nowhere(m1, x) <=> Nowhere(m, x)
  BY <1>1, <1>2 DEF Nowhere
<1>5. \A x \in Promise : Held(m1, x) <=> Held(m, x)
  BY <1>2 DEF SameQueue, Held
<1>6. \A x \in Promise, k \in Kinds : Refers(m1, x, k) <=> Refers(m, x, k)
  BY <1>2 DEF SameQueue, Refers
<1>7. Symmetric(m1) <=> Symmetric(m)
  BY <1>1 DEF Symmetric
<1> QED
  BY <1>3, <1>4, <1>5, <1>6, <1>7

LEMMA NewKeepsInvariant ==
  ASSUME IInv, made' \in made..NumPromises, SameQueue(mem, mem'), Sound(mem', made'),
         UNCHANGED <<batch, stack, frame, due, got>>,
         fuel' \in 0..Fuel, leak' \in LeakOf(made'),
         \A x \in 1..made : mem'.state[x] = mem.state[x] /\ mem'.result[x] = mem.result[x],
         exposed' \subseteq exposed \cup (1..made' \ 1..made),
         \A x \in 1..made' \ exposed' : mem'.state[x] = "pending" => x \in 1..made \ exposed
  PROVE  IInv'
<1>1. /\ made \in 0..NumPromises /\ made' \in 0..NumPromises /\ 1..made \subseteq 1..made'
      /\ 1..made' \subseteq Promise
      /\ JobsTo(made) \subseteq JobsTo(made')
      /\ FramesOf(made) \subseteq FramesOf(made')
  <2>1. made \in 0..NumPromises
    BY DEF IInv, TypeInv
  <2> QED
    BY <2>1, TypesGrow
<1>2. \A x, i : /\ Queued(x, i)' <=> Queued(x, i)
                /\ NextAt(x, i)' <=> NextAt(x, i)
                /\ OnStack(x, i)' <=> OnStack(x, i)
  BY DEF Queued, NextAt, OnStack
<1>3. TypeInv'
  <2>1. batch' \in Seq(JobsTo(made')) /\ stack' \in Seq(FramesOf(made'))
    BY <1>1, SeqMonotonic DEF IInv, TypeInv
  <2>2. ASSUME NEW i \in 1..Len(batch')
        PROVE  Carries(batch'[i], mem')
    <3>1. batch'[i] = batch[i] /\ batch[i] \in JobsTo(made) /\ Carries(batch[i], mem)
      BY ElementOfSeq DEF IInv, TypeInv
    <3> QED
      BY <3>1 DEF Carries, JobsTo
  <2>3. exposed' \subseteq 1..made' /\ frame' \subseteq 1..made'
    BY <1>1 DEF IInv, TypeInv
  <2>4. made' \in 0..NumPromises
    BY <1>1
  <2> QED
    BY <2>1, <2>2, <2>3, <2>4 DEF IInv, TypeInv
<1>4. OneContinuation'
  BY <1>2, SameQueueFacts DEF IInv, OneContinuation
<1>5. AwaitsAreSuspended'
  <2>1. \A x \in Promise : Refers(mem', x, "await") <=> Refers(mem, x, "await")
    BY SameQueueFacts DEF Kinds
  <2> QED
    BY <1>2, <2>1 DEF IInv, AwaitsAreSuspended
<1>6. PendingIsHeld'
  <2> SUFFICES ASSUME "none" \notin Handlers
               PROVE  /\ Symmetric(mem')
                      /\ \A x \in 1..made' \ exposed' : mem'.state[x] = "pending" =>
                            \/ \E i \in Nat : OnStack(x, i)'
                            \/ \E i \in Nat : Queued(x, i)'
                            \/ Held(mem', x)
    BY DEF PendingIsHeld
  <2>1. Symmetric(mem')
    BY SameQueueFacts DEF IInv, PendingIsHeld
  <2>2. ASSUME NEW x \in 1..made' \ exposed', mem'.state[x] = "pending"
        PROVE  \/ \E i \in Nat : OnStack(x, i)
               \/ \E i \in Nat : Queued(x, i)
               \/ Held(mem', x)
    <3>1. x \in 1..made \ exposed /\ mem.state[x] = "pending" /\ x \in Promise
      BY <1>1, <2>2
    <3> QED
      BY <3>1, SameQueueFacts DEF IInv, PendingIsHeld
  <2> QED
    BY <1>2, <2>1, <2>2
<1>7. FirstRunIsAlone'
  <2> SUFFICES ASSUME NEW i \in 1..Len(stack), stack[i].kind = "body", stack[i].how = "first",
                      NEW x, x = stack[i].to
               PROVE  /\ mem'.state[x] = "pending"
                      /\ x \notin exposed'
                      /\ \A k \in Kinds : ~Refers(mem', x, k)
                      /\ \A j \in Nat : ~Queued(x, j)'
    BY DEF FirstRunIsAlone, Queued
  <2>1. x \in 1..made /\ x \in Promise
    BY FirstRunFacts DEF IInv
  <2>2. /\ mem.state[x] = "pending" /\ x \notin exposed
        /\ \A k \in Kinds : ~Refers(mem, x, k)
        /\ \A j \in Nat : ~Queued(x, j)
    BY DEF IInv, FirstRunIsAlone
  <2> QED
    BY <1>2, <2>1, <2>2, SameQueueFacts
<1>8. FirstRunSettles'
  <2> SUFFICES ASSUME NEW x \in Promise, EndsAsDue(x), due[x].side \in Side
               PROVE  mem'.state[x] = due[x].side /\ mem'.result[x] = due[x].val
    BY DEF FirstRunSettles, IInv, TypeInv, IsDone, EndsAsDue
  <2>1. x \in 1..made
    <3>1. mem.state[x] # "pending"
      BY DEF EndsAsDue, Side
    <3>2. ~(x > made)
      BY <3>1 DEF IInv, TypeInv, Sound, Blank
    <3> QED
      BY <1>1, <3>2, PromisesAreNumbers
  <2> QED
    BY <2>1 DEF EndsAsDue
<1> QED
  BY <1>3, <1>4, <1>5, <1>6, <1>7, <1>8 DEF IInv

LEMMA ThrowAndCatchStep ==
  ASSUME IInv, ThrowAndCatch
  PROVE  IInv'
<1>1. SameQueue(mem, mem') /\ fuel' \in 0..Fuel /\ leak' \in LeakOf(made')
  BY Operating DEF ThrowAndCatch, SameQueue, LeakOf
<1>2. made' \in made..NumPromises
  BY ConstantsAssumption DEF ThrowAndCatch, IInv, TypeInv
<1> QED
  BY <1>1, <1>2, NewKeepsInvariant DEF ThrowAndCatch, IInv, TypeInv

LEMMA NewStep ==
  ASSUME IInv, New
  PROVE  IInv'
<1>1. made + 1 \in made..NumPromises /\ made' = made + 1 /\ 1..made' \ 1..made = {made + 1}
  BY NothingForNew DEF New, Fresh, IInv, TypeInv
<1>2. SameQueue(mem, mem') /\ fuel' \in 0..Fuel /\ leak' \in LeakOf(made')
  BY Operating DEF New, SameQueue, LeakOf
<1>3. Sound(mem', made')
  BY <1>1, SoundGrows DEF New, IInv, TypeInv
<1>4. exposed' = exposed \cup {made + 1}
  BY DEF New
<1> QED
  BY <1>1, <1>2, <1>3, <1>4, NewKeepsInvariant DEF New

(* What is left over stays what it is when a promise is made.              *)
LEMMA LeakStays ==
  ASSUME IInv, Fresh, UNCHANGED leak
  PROVE  leak' \in LeakOf(made')
<1>1. made \in 0..NumPromises /\ made' \in made..NumPromises
  BY ConstantsAssumption DEF IInv, TypeInv, Fresh
<1> QED
  BY <1>1, TypesGrow DEF IInv, TypeInv

(* A promise is made and settled at once.                                  *)
LEMMA SettledKeepsInvariant ==
  ASSUME IInv, Fresh, NEW side \in Side, NEW v \in ValueOf(made),
         side = "fulfilled" => v \in Plain, mem' = WithSettled(side, v),
         UNCHANGED <<batch, stack, frame, exposed, due, got>>,
         fuel' \in 0..Fuel, leak' \in LeakOf(made')
  PROVE  IInv'
<1>1. PICK n : n = made + 1
  OBVIOUS
<1>2. /\ n \in made..NumPromises /\ n \in 0..NumPromises /\ n \in Promise
      /\ made' = n /\ 1..made' \ 1..made = {n}
      /\ n \notin 1..made /\ 1..made \subseteq Promise
      /\ \A s \in Side : mem.reactions[s][n] = <<>>
  BY <1>1, NothingForNew, ConstantsAssumption DEF Fresh, IInv, TypeInv, Promise
<1>3. Sound(mem, n) /\ v \in ValueOf(n)
  <2>1. Sound(mem, n)
    BY <1>2, SoundGrows DEF IInv, TypeInv
  <2>2. ValueOf(made) \subseteq ValueOf(n)
    BY <1>2, TypesGrow DEF IInv, TypeInv
  <2> QED
    BY <2>1, <2>2
<1>4. /\ mem' \in Memory(n)
      /\ mem'.state = [mem.state EXCEPT ![n] = side]
      /\ mem'.result = [mem.result EXCEPT ![n] = v]
      /\ mem'.reactions = mem.reactions /\ mem'.microtasks = mem.microtasks
  BY <1>1, <1>2, <1>3 DEF WithSettled, Sound, Memory
<1>5. /\ \A x \in Promise : x # n =>
            mem'.state[x] = mem.state[x] /\ mem'.result[x] = mem.result[x]
      /\ mem'.state[n] = side /\ mem'.result[n] = v
  BY <1>2, <1>3, <1>4 DEF Sound, Memory
<1>6. SameQueue(mem, mem')
  <2>1. Len(<<>>) = 0
    BY EmptySeq
  <2> QED
    BY <1>2, <1>4, <1>5, <2>1 DEF SameQueue, At
<1>7. Sound(mem', n)
  <2>1. Blank(mem', n)
    BY <1>2, <1>3, <1>4, <1>5, PromisesAreNumbers DEF Sound, Blank
  <2>2. NoneStranded(mem')
    BY <1>2, <1>3, <1>4, <1>5 DEF Sound, NoneStranded
  <2>3. PlainFulfilled(mem')
    BY <1>3, <1>5 DEF Sound, PlainFulfilled
  <2>4. ASSUME NEW i \in 1..Len(mem'.microtasks)
        PROVE  Carries(mem'.microtasks[i], mem')
    <3>1. mem.microtasks \in Seq(JobsTo(made)) /\ Carries(mem.microtasks[i], mem)
      BY <1>4 DEF IInv, TypeInv, Sound, Memory
    <3>2. mem.microtasks[i] \in JobsTo(made)
      BY <1>4, <3>1, ElementOfSeq
    <3> QED
      BY <1>2, <1>4, <1>5, <3>1, <3>2 DEF Carries, JobsTo
  <2> QED
    BY <1>4, <2>1, <2>2, <2>3, <2>4 DEF Sound
<1>9. \A x \in 1..made : mem'.state[x] = mem.state[x] /\ mem'.result[x] = mem.result[x]
  BY <1>2, <1>5
<1>10. \A x \in 1..made' \ exposed' : mem'.state[x] = "pending" => x \in 1..made \ exposed
  BY <1>2, <1>5 DEF Side
<1> QED
  BY <1>2, <1>6, <1>7, <1>9, <1>10, NewKeepsInvariant

LEMMA NewSettledStep ==
  ASSUME IInv, NEW side \in Side, NEW v \in UserValue, side = "fulfilled" => v \in Data,
         NewSettled(side, v)
  PROVE  IInv'
<1>1. v \in ValueOf(made) /\ fuel' \in 0..Fuel
  BY Operating DEF NewSettled
<1>2. leak' \in LeakOf(made')
  BY LeakStays DEF NewSettled
<1> QED
  BY <1>1, <1>2, SettledKeepsInvariant DEF NewSettled, Plain

LEMMA AsyncCallLeftOverStep ==
  ASSUME IInv, AsyncCallLeftOver
  PROVE  IInv'
<1>1. /\ Fresh /\ fuel' \in 0..Fuel /\ UNCHANGED <<batch, stack, frame, exposed, due, got>>
      /\ Undefined \in ValueOf(made) /\ ErrText \in ValueOf(made)
      /\ leak' = leak \/ leak' = NoneLeft
  BY Operating DEF AsyncCallLeftOver, ValueOf, Plain
<1>2. leak' \in LeakOf(made')
  BY <1>1, LeakStays DEF LeakOf
<1>3. ASSUME leak # NoneLeft, leak # Handed PROVE leak.val \in ValueOf(made)
  BY <1>3 DEF IInv, TypeInv, LeakOf, Holding
<1> QED
  BY <1>1, <1>2, <1>3, SettledKeepsInvariant DEF AsyncCallLeftOver, Side, Plain

LEMMA executeAsyncFunctionStep ==
  ASSUME IInv, executeAsyncFunction
  PROVE  IInv'
<1> DEFINE f == Body(made + 1, "first", Undefined)
<1>1. PICK n : n = made + 1
  OBVIOUS
<1>2. /\ n \in made..NumPromises /\ n \in 0..NumPromises /\ n \in Promise /\ n # 0
      /\ n \in Nat /\ n \notin 1..made /\ made' = n /\ 1..n = 1..made \cup {n}
      /\ 1..n \subseteq Promise
      /\ Nowhere(mem, n)
      /\ \A k \in Kinds : ~Refers(mem, n, k)
      /\ \A i \in Nat : ~Queued(n, i) /\ ~OnStack(n, i)
      /\ mem.state[n] = "pending"
  BY <1>1, NothingForNew, ConstantsAssumption
     DEF executeAsyncFunction, Fresh, IInv, TypeInv, Promise
<1>3. /\ Sound(mem, n) /\ JobsTo(made) \subseteq JobsTo(n) /\ FramesOf(made) \subseteq FramesOf(n)
      /\ f \in FramesOf(n) /\ f.kind = "body" /\ f.to = n
  <2>1. Sound(mem, n)
    BY <1>2, SoundGrows DEF IInv, TypeInv
  <2>2. JobsTo(made) \subseteq JobsTo(n) /\ FramesOf(made) \subseteq FramesOf(n)
    BY <1>2, TypesGrow DEF IInv, TypeInv
  <2>3. f \in FramesOf(n) /\ f.kind = "body" /\ f.to = n
    BY <1>1, <1>2 DEF Body, FramesOf, ValueOf, Plain
  <2> QED
    BY <2>1, <2>2, <2>3
<1> HIDE DEF f
<1>4. batch' \in Seq(JobsTo(n)) /\ stack \in Seq(FramesOf(n))
  BY <1>3, SeqMonotonic DEF executeAsyncFunction, IInv, TypeInv
<1> DEFINE L == Len(stack)
<1>5. /\ stack' \in Seq(FramesOf(n)) /\ Len(stack') = L + 1 /\ L \in Nat
      /\ \A i \in 1..L : stack'[i] = stack[i]
      /\ stack'[L + 1] = f
  BY <1>3, <1>4, Appending DEF executeAsyncFunction, f
<1>6. UNCHANGED <<mem, batch, frame, exposed, due, got>> /\ fuel' \in 0..Fuel /\ leak' \in LeakOf(made')
  BY Operating, LeakStays DEF executeAsyncFunction
<1> HIDE DEF L
<1>7. \A i \in 1..Len(stack') : (i \in 1..L /\ stack'[i] = stack[i]) \/ (i = L + 1 /\ stack'[i] = f)
  BY <1>5
<1>8. \A x \in Promise, i \in Nat :
          OnStack(x, i)' <=> OnStack(x, i) \/ (x = n /\ i = L + 1)
  <2>1. ASSUME NEW x \in Promise, NEW i \in Nat, OnStack(x, i)'
        PROVE  OnStack(x, i) \/ (x = n /\ i = L + 1)
    BY <1>3, <1>7, <2>1 DEF OnStack, L
  <2>2. ASSUME NEW x \in Promise, NEW i \in Nat, OnStack(x, i)
        PROVE  OnStack(x, i)'
    <3>1. i \in 1..L /\ stack[i].to = x
      BY <2>2 DEF OnStack, L
    <3>2. i \in 1..(L + 1)
      BY <1>5, <3>1
    <3> QED
      BY <1>5, <3>1, <3>2 DEF OnStack
  <2>3. ASSUME NEW i, i = L + 1
        PROVE  OnStack(n, i)'
    <3>1. i \in 1..(L + 1)
      BY <1>5, <2>3
    <3> QED
      BY <1>3, <1>5, <2>3, <3>1 DEF OnStack
  <2> QED
    BY <2>1, <2>2, <2>3
<1>9. \A x, i : /\ Queued(x, i)' <=> Queued(x, i)
                /\ NextAt(x, i)' <=> NextAt(x, i)
  BY <1>6 DEF Queued, NextAt
<1>10. TypeInv'
  <2>1. \A i \in 1..Len(stack') : /\ stack'[i].kind = "script" <=> stack'[i].to = 0
                                  /\ stack'[i].kind = "finally" => stack'[i].how \in Side
    BY <1>2, <1>3, <1>7 DEF IInv, TypeInv, L
  <2>2. exposed' \subseteq 1..made' /\ frame' \subseteq 1..made'
    BY <1>2, <1>6 DEF IInv, TypeInv
  <2> QED
    BY <1>2, <1>3, <1>4, <1>5, <1>6, <2>1, <2>2 DEF IInv, TypeInv
<1>11. OneContinuation'
  <2> SUFFICES ASSUME NEW x \in Promise
               PROVE  /\ OnePlace(mem, x)
                      /\ \A i, j \in Nat : NextAt(x, i) /\ NextAt(x, j) => i = j
                      /\ \A i, j \in Nat : OnStack(x, i)' /\ OnStack(x, j)' => i = j
                      /\ \A i \in Nat : NextAt(x, i) =>
                            Nowhere(mem, x) /\ \A j \in Nat : ~OnStack(x, j)'
                      /\ \A i \in Nat : OnStack(x, i)' => Nowhere(mem, x)
    BY <1>6, <1>9 DEF OneContinuation
  <2>1. CASE x = n
    BY <1>2, <1>8, <2>1 DEF IInv, OneContinuation, NextAt
  <2>2. CASE x # n
    BY <1>8, <2>2 DEF IInv, OneContinuation
  <2> QED
    BY <2>1, <2>2
<1>12. AwaitsAreSuspended'
  BY <1>6, <1>9 DEF IInv, AwaitsAreSuspended
<1>13. PendingIsHeld'
  <2>1. PICK k \in Nat : k = L + 1
    BY <1>5
  <2>2. OnStack(n, k)'
    BY <1>2, <1>8, <2>1
  <2>3. \A x \in Promise, i \in Nat : OnStack(x, i) => OnStack(x, i)'
    BY <1>8
  <2>4. \A x \in Promise, i \in Nat : Queued(x, i) => Queued(x, i)'
    BY <1>9
  <2> HIDE DEF L
  <2>5. ASSUME "none" \notin Handlers, NEW x \in 1..made' \ exposed', mem.state[x] = "pending"
        PROVE  \/ \E i \in Nat : OnStack(x, i)'
               \/ \E i \in Nat : Queued(x, i)'
               \/ Held(mem, x)
    <3>1. CASE x = n
      BY <2>2, <3>1
    <3>2. CASE x # n
      <4>1. x \in 1..made \ exposed /\ x \in Promise
        BY <1>2, <1>6, <3>2
      <4> QED
        BY <2>3, <2>4, <2>5, <4>1 DEF IInv, PendingIsHeld
    <3> QED
      BY <3>1, <3>2
  <2> QED
    BY <1>6, <2>5 DEF IInv, PendingIsHeld
<1>14. FirstRunIsAlone'
  <2> SUFFICES ASSUME NEW i \in 1..Len(stack'), stack'[i].kind = "body", stack'[i].how = "first",
                      NEW x, x = stack'[i].to
               PROVE  /\ mem.state[x] = "pending"
                      /\ x \notin exposed
                      /\ \A k \in Kinds : ~Refers(mem, x, k)
                      /\ \A j \in Nat : ~Queued(x, j)
    BY <1>6 DEF FirstRunIsAlone, Queued
  <2>1. CASE i \in 1..L /\ stack'[i] = stack[i]
    BY <2>1 DEF IInv, FirstRunIsAlone, L
  <2>2. CASE i = L + 1 /\ stack'[i] = f
    BY <1>2, <1>3, <2>2 DEF IInv, TypeInv
  <2> QED
    BY <1>7, <2>1, <2>2
<1>15. FirstRunSettles'
  BY <1>6 DEF FirstRunSettles, IInv, IsDone, EndsAsDue
<1> QED
  BY <1>10, <1>11, <1>12, <1>13, <1>14, <1>15 DEF IInv

-----------------------------------------------------------------------------
(* Steps that register the continuation of q.                              *)

LEMMA RegisterKeepsInvariant ==
  ASSUME IInv, made' \in made..NumPromises, NEW q \in 1..made', NEW p, NEW K \in SUBSET Kinds,
         1..made' \subseteq 1..made \cup {q},
         Sound(mem', made'), Registers(mem, mem', p, q, K),
         "none" \notin Handlers => RegistersFully(mem, mem', p, q),
         Nowhere(mem, q), \A i \in Nat : ~NextAt(q, i) /\ ~OnStack(q, i)', Leaves(q),
         frame \subseteq frame', frame' \subseteq 1..made', "await" \in K => q \in frame',
         UNCHANGED <<exposed, due, got>>,
         batch' \in Seq(JobsTo(made')), stack' \in Seq(FramesOf(made')),
         fuel' \in 0..Fuel, leak' \in LeakOf(made')
  PROVE  IInv'
<1>1. /\ made \in 0..NumPromises /\ made' \in 0..NumPromises /\ 1..made \subseteq 1..made'
      /\ 1..made' \subseteq Promise /\ q \in Promise
  BY TypesGrow DEF IInv, TypeInv
<1>2. PICK d \in {0, 1} : \A x \in Promise, i \in Nat :
          Queued(x, i)' => Queued(x, i + d) /\ batch'[i] = batch[i + d]
  BY LeavesFacts
<1>3. PICK e \in {0, 1} : \A x \in Promise, i \in Nat : NextAt(x, i)' => NextAt(x, i + e)
  BY LeavesFacts
<1>4. /\ \A x \in Promise, i \in Nat : OnStack(x, i)' => OnStack(x, i)
      /\ \A i \in Nat : i + d \in Nat /\ i + e \in Nat
      /\ \A x \in Promise, i \in Nat : x # q /\ OnStack(x, i) => OnStack(x, i)'
      /\ \A x \in Promise, i \in Nat : x # q /\ Queued(x, i) => \E j \in Nat : Queued(x, j)'
  <2>1. \A x \in Promise, i \in Nat : OnStack(x, i)' => OnStack(x, i)
    BY LeavesFacts
  <2>2. \A i \in Nat : i + d \in Nat /\ i + e \in Nat
    OBVIOUS
  <2> QED
    BY <2>1, <2>2 DEF Leaves
<1>5. mem'.state = mem.state /\ mem'.result = mem.result
  BY DEF Registers
<1>6. TypeInv'
  <2>1. Settled(mem, mem')
    BY <1>5 DEF Settled
  <2>2. \A i \in 1..Len(batch') : Carries(batch'[i], mem')
    BY <2>1, JobsStillCarry DEF Leaves, IInv
  <2>3. \A i \in 1..Len(stack') : /\ stack'[i].kind = "script" <=> stack'[i].to = 0
                                  /\ stack'[i].kind = "finally" => stack'[i].how \in Side
    BY DEF IInv, TypeInv, Leaves
  <2>4. exposed' \subseteq 1..made'
    BY <1>1 DEF IInv, TypeInv
  <2> QED
    BY <1>1, <2>2, <2>3, <2>4 DEF IInv, TypeInv
<1>7. OneContinuation'
  <2> SUFFICES ASSUME NEW x \in Promise
               PROVE  /\ OnePlace(mem', x)
                      /\ \A i, j \in Nat : NextAt(x, i)' /\ NextAt(x, j)' => i = j
                      /\ \A i, j \in Nat : OnStack(x, i)' /\ OnStack(x, j)' => i = j
                      /\ \A i \in Nat : NextAt(x, i)' =>
                            Nowhere(mem', x) /\ \A j \in Nat : ~OnStack(x, j)'
                      /\ \A i \in Nat : OnStack(x, i)' => Nowhere(mem', x)
    BY DEF OneContinuation
  <2>1. CASE x = q
    <3>1. \A i \in Nat : ~NextAt(q, i)'
      BY <1>1, <1>3, <1>4
    <3>2. OnePlace(mem', q)
      BY DEF Registers
    <3> QED
      BY <2>1, <3>1, <3>2
  <2>2. CASE x # q
    <3>1. OnePlace(mem, x) => OnePlace(mem', x)
      BY <2>2 DEF Registers
    <3>2. Nowhere(mem, x) => Nowhere(mem', x)
      <4>1. Nowhere(mem, x) => Sources(mem, x) = {}
        BY NowhereIsSourceless DEF IInv, TypeInv
      <4>2. Sources(mem', x) = {} => Nowhere(mem', x)
        BY <1>1, NowhereIsSourceless
      <4> QED
        BY <2>2, <4>1, <4>2 DEF Registers
    <3>3. \A i, j \in Nat : i + e = j + e => i = j
      OBVIOUS
    <3> QED
      BY <1>3, <1>4, <3>1, <3>2, <3>3 DEF IInv, OneContinuation
  <2> QED
    BY <2>1, <2>2
<1>8. AwaitsAreSuspended'
  <2> SUFFICES ASSUME NEW x \in Promise,
                      Refers(mem', x, "await")
                          \/ \E i \in Nat : Queued(x, i)' /\ batch'[i].kind = "await"
               PROVE  x \in frame'
    BY DEF AwaitsAreSuspended
  <2>1. ASSUME NEW i \in Nat, Queued(x, i)', batch'[i].kind = "await"
        PROVE  x \in frame
    BY <1>2, <1>4, <2>1 DEF IInv, AwaitsAreSuspended
  <2>2. ASSUME Refers(mem', x, "await")
        PROVE  x \in frame'
    <3>1. Refers(mem, x, "await") \/ (x = q /\ "await" \in K)
      BY <2>2 DEF Registers, Kinds
    <3> QED
      BY <3>1 DEF IInv, AwaitsAreSuspended
  <2> QED
    BY <2>1, <2>2
<1>9. PendingIsHeld'
  <2> SUFFICES ASSUME "none" \notin Handlers
               PROVE  /\ Symmetric(mem')
                      /\ \A x \in 1..made' \ exposed : mem.state[x] = "pending" =>
                            \/ \E i \in Nat : OnStack(x, i)'
                            \/ \E i \in Nat : Queued(x, i)'
                            \/ Held(mem', x)
    BY <1>5 DEF PendingIsHeld
  <2>1. Symmetric(mem') /\ Held(mem', q)
    BY DEF IInv, PendingIsHeld, RegistersFully
  <2>2. ASSUME NEW x \in 1..made' \ exposed, mem.state[x] = "pending", x # q
        PROVE  \/ \E i \in Nat : OnStack(x, i)'
               \/ \E i \in Nat : Queued(x, i)'
               \/ Held(mem', x)
    <3>1. x \in 1..made \ exposed /\ x \in Promise
      BY <1>1, <2>2
    <3>2. \/ \E i \in Nat : OnStack(x, i)
          \/ \E i \in Nat : Queued(x, i)
          \/ Held(mem, x)
      BY <2>2, <3>1 DEF IInv, PendingIsHeld
    <3>3. Held(mem, x) => Held(mem', x)
      BY <3>1 DEF Registers
    <3> QED
      BY <1>4, <2>2, <3>1, <3>2, <3>3
  <2> QED
    BY <2>1, <2>2
<1>10. FirstRunIsAlone'
  <2> SUFFICES ASSUME NEW i \in 1..Len(stack'), stack'[i].kind = "body", stack'[i].how = "first",
                      NEW x, x = stack'[i].to
               PROVE  /\ mem'.state[x] = "pending"
                      /\ x \notin exposed
                      /\ \A k \in Kinds : ~Refers(mem', x, k)
                      /\ \A j \in Nat : ~Queued(x, j)'
    BY DEF FirstRunIsAlone, Queued
  <2>1. i \in 1..Len(stack) /\ stack'[i] = stack[i] /\ x \in Promise /\ i \in Nat
    BY FirstRunFacts DEF Leaves, IInv
  <2>2. /\ mem.state[x] = "pending" /\ x \notin exposed
        /\ \A k \in Kinds : ~Refers(mem, x, k)
        /\ \A j \in Nat : ~Queued(x, j)
    BY <2>1 DEF IInv, FirstRunIsAlone
  <2>3. OnStack(x, i)'
    BY <2>1 DEF OnStack
  <2>4. x # q
    BY <2>1, <2>3
  <2>5. \A k \in Kinds : ~Refers(mem', x, k)
    BY <2>1, <2>2, <2>4 DEF Registers
  <2>6. \A j \in Nat : ~Queued(x, j)'
    BY <1>2, <1>4, <2>1, <2>2
  <2> QED
    BY <1>5, <2>2, <2>5, <2>6
<1>11. FirstRunSettles'
  BY <1>5 DEF FirstRunSettles, IInv, IsDone, EndsAsDue
<1> QED
  BY <1>6, <1>7, <1>8, <1>9, <1>10, <1>11 DEF IInv

LEMMA OpAwaitStep ==
  ASSUME IInv, NEW p \in Known, OpAwait(p)
  PROVE  IInv'
<1>1. PICK q : q = Top.to
  OBVIOUS
<1>2. /\ UNCHANGED <<made, batch, leak, exposed, due, got>> /\ stack' = Below /\ Running
      /\ Top.kind # "script" /\ frame' = frame \cup {q} /\ mem' = AwaitOn(p, q)
      /\ p \in 1..made /\ fuel' \in 0..Fuel
  BY <1>1, Operating DEF OpAwait, Step
<1>3. /\ q \in 1..made /\ q \in Promise /\ Leaves(q)
      /\ stack' \in Seq(FramesOf(made)) /\ batch' \in Seq(JobsTo(made))
      /\ \A i \in Nat : ~OnStack(q, i)'
      /\ \E k \in Nat : OnStack(q, k)
  BY <1>1, <1>2, Ending
<1>4. Nowhere(mem, q) /\ \A i \in Nat : ~NextAt(q, i)
  BY <1>3 DEF IInv, OneContinuation
<1>5. /\ Sound(mem', made)
      /\ Registers(mem, mem', p, q, {"await"})
      /\ RegistersFully(mem, mem', p, q)
  BY <1>2, <1>3, AwaitRegisters DEF IInv, TypeInv
<1>6. made' \in made..NumPromises /\ {"await"} \in SUBSET Kinds
  BY <1>2, ConstantsAssumption DEF IInv, TypeInv, Kinds
<1>7. frame' \subseteq 1..made' /\ leak' \in LeakOf(made')
  BY <1>2, <1>3 DEF IInv, TypeInv
<1> QED
  BY <1>2, <1>3, <1>4, <1>5, <1>6, <1>7, RegisterKeepsInvariant

LEMMA PromiseThenStep ==
  ASSUME IInv, NEW p \in Known, NEW f \in {"call", "pass", "finally", "none"},
         NEW g \in {"call", "pass", "finally", "none"},
         "none" \notin Handlers => f # "none" /\ g # "none", PromiseThen(p, f, g)
  PROVE  IInv'
<1>1. PICK q : q = made + 1
  OBVIOUS
<1> DEFINE K == {f, g} \ {"none"}
<1>2. /\ q \in made..NumPromises /\ q \in 0..NumPromises /\ q \in Promise /\ q \in 1..q
      /\ made' = q /\ 1..q \subseteq 1..made \cup {q}
      /\ Nowhere(mem, q) /\ \A i \in Nat : ~NextAt(q, i) /\ ~OnStack(q, i)
      /\ p \in 1..made /\ 1..made \subseteq 1..q /\ fuel' \in 0..Fuel
  BY <1>1, NothingForNew, Operating, ConstantsAssumption
     DEF PromiseThen, Fresh, IInv, TypeInv, Promise, NextAt
<1>3. UNCHANGED <<batch, stack, frame, leak, exposed, due, got>>
  BY DEF PromiseThen
<1>4. Sound(mem, q) /\ JobsTo(made) \subseteq JobsTo(q) /\ FramesOf(made) \subseteq FramesOf(q)
  BY <1>2, SoundGrows, TypesGrow DEF IInv, TypeInv
<1>5. batch' \in Seq(JobsTo(q)) /\ stack' \in Seq(FramesOf(q))
  BY <1>3, <1>4, SeqMonotonic DEF IInv, TypeInv
<1>6. /\ f \in (Kinds \ {"adopt"}) \cup {"none"} /\ g \in (Kinds \ {"adopt"}) \cup {"none"}
      /\ K \in SUBSET Kinds /\ "await" \notin K
  BY DEF Kinds
<1>7. mem' = AddUnless(AddUnless(mem, p, "fulfilled", f, q), p, "rejected", g, q)
  BY <1>1 DEF PromiseThen
<1>8. /\ Sound(mem', q) /\ Registers(mem, mem', p, q, K)
      /\ f # "none" /\ g # "none" => RegistersFully(mem, mem', p, q)
  BY <1>2, <1>4, <1>6, <1>7, ThenRegisters
<1> HIDE DEF K
<1>9. Leaves(q) /\ \A i \in Nat : ~OnStack(q, i)'
  BY <1>2, <1>3, StayingLeaves DEF IInv, OnStack
<1>10. frame' \subseteq 1..made' /\ leak' \in LeakOf(made')
  BY <1>2, <1>3, LeakStays DEF PromiseThen, IInv, TypeInv
<1> QED
  BY <1>2, <1>3, <1>5, <1>6, <1>8, <1>9, <1>10, RegisterKeepsInvariant

-----------------------------------------------------------------------------
(* The invariant holds.                                                    *)

LEMMA InitInvariant == Init => IInv
<1> SUFFICES ASSUME Init PROVE IInv
  OBVIOUS
<1> DEFINE none == [p \in Promise |-> <<>>]
<1>1. /\ \A p \in Promise : mem.state[p] = "pending" /\ mem.result[p] = Undefined
      /\ \A s \in Side, p \in Promise : mem.reactions[s][p] = <<>>
      /\ mem.microtasks = <<>> /\ batch = <<>> /\ stack = <<Script>>
      /\ made = 0 /\ fuel = Fuel /\ leak = NoneLeft /\ frame = {} /\ exposed = {}
  BY DEF Init
<1>2. Len(mem.microtasks) = 0 /\ Len(batch) = 0 /\ Len(stack) = 1 /\ stack[1] = Script
      /\ \A s \in Side, p \in Promise : Len(mem.reactions[s][p]) = 0
  BY <1>1, EmptySeq
<1>3. /\ \A x, p \in Promise, s \in Side, i \in Nat :
            ~At(mem, x, s, p, i) /\ ~WaitsAt(mem, x, s, p, i)
      /\ \A x, i : ~JobAt(mem, x, i) /\ ~ContinuesAt(mem, x, i)
      /\ \A x, i : ~Queued(x, i) /\ ~NextAt(x, i)
  BY <1>2 DEF At, WaitsAt, JobAt, ContinuesAt, Queued, NextAt
<1>4. \A x \in Promise, i \in Nat : ~OnStack(x, i)
  BY <1>2, PromisesAreNumbers DEF OnStack, Script
<1>5. made \in 0..NumPromises /\ fuel \in 0..Fuel /\ leak \in LeakOf(made)
  BY <1>1, ConstantsAssumption DEF LeakOf
<1>6. Sound(mem, made)
  <2>1. /\ <<>> \in Seq(ReactionsTo(made)) /\ <<>> \in Seq(JobsTo(made))
        /\ Undefined \in ValueOf(made)
    BY EmptySeq DEF ValueOf, Plain
  <2>2. none \in [Promise -> Seq(ReactionsTo(made))]
    BY <2>1
  <2>3. [s \in Side |-> none] \in [Side -> [Promise -> Seq(ReactionsTo(made))]]
    BY <2>2
  <2>4. mem = [state      |-> [p \in Promise |-> "pending"],
               result     |-> [p \in Promise |-> Undefined],
               reactions  |-> [s \in Side |-> none],
               microtasks |-> <<>>]
    BY DEF Init
  <2> HIDE DEF none
  <2>5. mem \in Memory(made)
    BY <2>1, <2>3, <2>4 DEF Memory
  <2>6. Blank(mem, made) /\ NoneStranded(mem) /\ PlainFulfilled(mem)
    BY <1>1 DEF Blank, NoneStranded, PlainFulfilled, Side
  <2> QED
    BY <1>2, <2>5, <2>6 DEF Sound
<1>7. TypeInv
  <2>1. batch \in Seq(JobsTo(made))
    BY <1>1, EmptySeq
  <2>2. Script \in FramesOf(made)
    BY <1>1, <1>5, ConstantsAssumption DEF Script, FramesOf, ValueOf, Plain
  <2>3. stack \in Seq(FramesOf(made))
    BY <1>1, <2>2
  <2>4. \A i \in 1..Len(stack) : /\ stack[i].kind = "script" <=> stack[i].to = 0
                                 /\ stack[i].kind = "finally" => stack[i].how \in Side
    BY <1>2 DEF Script
  <2>5. due \in [Promise -> [why : Reasons, side : Side, val : Value]]
    BY DEF Init, NoDue, Reasons, Side, Value, Plain
  <2>6. got \in [Promise -> [side : Side \cup {"pending"}, val : Value]]
    BY DEF Init, NoOutcome, Value, Plain
  <2> QED
    BY <1>1, <1>2, <1>5, <1>6, <2>1, <2>3, <2>4, <2>5, <2>6 DEF TypeInv
<1>8. OneContinuation
  BY <1>3, <1>4 DEF OneContinuation, OnePlace, Nowhere
<1>9. AwaitsAreSuspended
  BY <1>3 DEF AwaitsAreSuspended, Refers
<1>10. PendingIsHeld
  BY <1>1, <1>3 DEF PendingIsHeld, Symmetric
<1>11. FirstRunIsAlone
  BY <1>2 DEF FirstRunIsAlone, Script
<1>12. FirstRunSettles
  BY DEF FirstRunSettles, Init, NoDue
<1> QED
  BY <1>7, <1>8, <1>9, <1>10, <1>11, <1>12 DEF IInv

LEMMA StepInvariant == IInv /\ [Next]_vars => IInv'
<1> SUFFICES ASSUME IInv, [Next]_vars PROVE IInv'
  OBVIOUS
<1>1. CASE UNCHANGED vars
  <2>1. \A x, i : /\ Queued(x, i)' <=> Queued(x, i)
                  /\ NextAt(x, i)' <=> NextAt(x, i)
                  /\ OnStack(x, i)' <=> OnStack(x, i)
    BY <1>1 DEF vars, Queued, NextAt, OnStack
  <2>2. SameQueue(mem, mem') /\ made' \in made..NumPromises
    BY <1>1, ConstantsAssumption DEF vars, SameQueue, IInv, TypeInv
  <2> QED
    BY <1>1, <2>2, NewKeepsInvariant DEF vars, IInv, TypeInv
<1>2. CASE Operate
  <2>1. CASE New
    BY <2>1, NewStep
  <2>2. ASSUME NEW v \in Data, NewSettled("fulfilled", v) PROVE IInv'
    BY <2>2, NewSettledStep DEF UserValue, Side
  <2>3. ASSUME NEW v \in UserValue, NewSettled("rejected", v) PROVE IInv'
    BY <2>3, NewSettledStep DEF Side
  <2>4. ASSUME NEW p \in Known, NEW side \in Side, NEW v \in UserValue, CallResolver(p, side, v)
        PROVE  IInv'
    BY <2>4, CallResolverStep
  <2>5. ASSUME NEW p \in Known, NEW f \in Handlers, NEW r \in Handlers, PromiseThen(p, f, r)
        PROVE  IInv'
    BY <2>5, PromiseThenStep, ConstantsAssumption
  <2>6. ASSUME NEW p \in Known, Finally(p) PROVE IInv'
    BY <2>6, PromiseThenStep DEF Finally
  <2>7. CASE executeAsyncFunction
    BY <2>7, executeAsyncFunctionStep
  <2>8. ASSUME NEW p \in Known, OpAwait(p) PROVE IInv'
    BY <2>8, OpAwaitStep
  <2>9. CASE ThrowAndCatch
    BY <2>9, ThrowAndCatchStep
  <2>10. CASE AsyncCallLeftOver
    BY <2>10, AsyncCallLeftOverStep
  <2> QED
    BY <1>2, <2>1, <2>2, <2>3, <2>4, <2>5, <2>6, <2>7, <2>8, <2>9, <2>10 DEF Operate
<1>3. CASE End
  BY <1>3, EndScriptStep, HandlerReturnsStep, HandlerThrowsStep, FinallyEndsStep, BodyEndsStep,
     BodyStopsStep DEF End
<1>4. CASE Drain
  BY <1>4, TakeBatchStep, RunPassThroughStep, RunHandlerStep, ResumptionSteps DEF Drain
<1> QED
  BY <1>1, <1>2, <1>3, <1>4 DEF Next

LEMMA InvariantHolds == Spec => []IInv
  BY InitInvariant, StepInvariant, PTL DEF Spec

-----------------------------------------------------------------------------
(* What the invariant says in the terms of the module Promises.            *)

(* The jobs are those of the batch, then those of the queue.               *)
LEMMA JobsAre ==
  ASSUME IInv
  PROVE  /\ DOMAIN Jobs = 1..Len(Jobs) /\ Len(Jobs) = Len(batch) + Len(mem.microtasks)
         /\ Len(batch) \in Nat /\ Len(mem.microtasks) \in Nat
         /\ \A i \in 1..Len(batch) : i \in DOMAIN Jobs /\ Jobs[i] = batch[i]
         /\ \A i \in 1..Len(mem.microtasks) :
               Len(batch) + i \in DOMAIN Jobs /\ Jobs[Len(batch) + i] = mem.microtasks[i]
         /\ \A i \in DOMAIN Jobs :
               /\ Jobs[i] \in JobsTo(made) /\ Carries(Jobs[i], mem)
               /\ \/ i \in 1..Len(batch) /\ Jobs[i] = batch[i]
                  \/ \E k \in 1..Len(mem.microtasks) :
                        i = Len(batch) + k /\ Jobs[i] = mem.microtasks[k]
<1> DEFINE mt == mem.microtasks
           L == Len(batch)
           K == Len(mt)
<1>1. batch \in Seq(JobsTo(made)) /\ mt \in Seq(JobsTo(made))
  BY DEF IInv, TypeInv, Sound, Memory
<1>2. L \in Nat /\ K \in Nat
  BY <1>1, LenProperties
<1>3. Jobs = batch \o mt
  BY DEF Jobs
<1> HIDE DEF mt
<1>4. /\ Jobs \in Seq(JobsTo(made)) /\ Len(Jobs) = L + K
      /\ \A i \in 1..L : Jobs[i] = batch[i]
      /\ \A i \in 1..K : Jobs[L + i] = mt[i]
  <2>1. Jobs \in Seq(JobsTo(made)) /\ Len(Jobs) = L + K
    BY <1>1, <1>3, Concatenation
  <2>2. \A i \in 1..L : Jobs[i] = batch[i]
    BY <1>1, <1>3, Concatenation
  <2>3. \A i \in 1..K : Jobs[L + i] = mt[i]
    BY <1>1, <1>3, Concatenation
  <2> QED
    BY <2>1, <2>2, <2>3
<1>5. DOMAIN Jobs = 1..(L + K) /\ \A i \in DOMAIN Jobs : Jobs[i] \in JobsTo(made)
  BY <1>4, LenProperties, ElementOfSeq
<1>6. /\ \A i \in 1..L : Carries(batch[i], mem)
      /\ \A i \in 1..K : Carries(mt[i], mem)
  BY DEF IInv, TypeInv, Sound, mt
<1> HIDE DEF L, K
<1>7. \A i \in 1..(L + K) : i \in 1..L \/ \E k \in 1..K : i = L + k
  <2> SUFFICES ASSUME NEW i \in 1..(L + K), i \notin 1..L PROVE \E k \in 1..K : i = L + k
    OBVIOUS
  <2>1. i - L \in 1..K /\ i = L + (i - L)
    BY <1>2
  <2> QED
    BY <2>1
<1>8. \A i \in DOMAIN Jobs : \/ i \in 1..L /\ Jobs[i] = batch[i]
                             \/ \E k \in 1..K : i = L + k /\ Jobs[i] = mt[k]
  BY <1>4, <1>5, <1>7
<1>9. \A i \in DOMAIN Jobs : Carries(Jobs[i], mem)
  BY <1>6, <1>8
<1>10. /\ \A i \in 1..L : i \in DOMAIN Jobs
       /\ \A i \in 1..K : L + i \in DOMAIN Jobs
  BY <1>2, <1>5
<1> QED
  BY <1>2, <1>4, <1>5, <1>8, <1>9, <1>10 DEF L, K, mt

LEMMA AtMostOne ==
  ASSUME NEW S, \A a, b \in S : a = b
  PROVE  Cardinality(S) \in {0, 1} /\ (S = {} => Cardinality(S) = 0)
<1>1. CASE S = {}
  BY <1>1, FS_EmptySet
<1>2. CASE S # {}
  <2>1. PICK a : a \in S
    BY <1>2
  <2>2. S = {a}
    BY <2>1
  <2>3. Cardinality(S) = 1
    BY <2>2, FS_Singleton
  <2> QED
    BY <1>2, <2>3
<1> QED
  BY <1>1, <1>2

(* Reactions, jobs and frames of one continuation.                         *)
LEMMA PlacesAre ==
  ASSUME IInv, NEW q \in Promise, NEW s \in Side
  PROVE  /\ \A w : w \in Registered(q, s) <=>
               \E p \in Promise, i \in Nat : w = <<p, i>> /\ At(mem, q, s, p, i)
         /\ \A w : w \in Waiting(q, s) <=>
               \E p \in Promise, i \in Nat : w = <<p, i>> /\ WaitsAt(mem, q, s, p, i)
         /\ \A i : i \in Executing(q) <=> OnStack(q, i)
<1>1. \A p \in Promise : DOMAIN mem.reactions[s][p] = 1..Len(mem.reactions[s][p])
  <2>1. \A p \in Promise : mem.reactions[s][p] \in Seq(ReactionsTo(made))
    BY DEF IInv, TypeInv, Sound, Memory
  <2> QED
    BY <2>1, LenProperties
<1>2. \A w : w \in Places(s) <=>
         \E p \in Promise, i \in Nat : w = <<p, i>> /\ i \in 1..Len(mem.reactions[s][p])
  <2>1. \A w : w \in Places(s) <=>
           \E p \in Promise : w \in {p} \X (1..Len(mem.reactions[s][p]))
    BY <1>1 DEF Places
  <2>2. \A w, p : w \in {p} \X (1..Len(mem.reactions[s][p])) <=>
           \E i \in 1..Len(mem.reactions[s][p]) : w = <<p, i>>
    OBVIOUS
  <2> QED
    BY <2>1, <2>2
<1>3. \A w : w \in Registered(q, s) <=>
         \E p \in Promise, i \in Nat : w = <<p, i>> /\ At(mem, q, s, p, i)
  BY <1>2 DEF Registered, At
<1>4. \A w : w \in Waiting(q, s) <=>
         \E p \in Promise, i \in Nat : w = <<p, i>> /\ WaitsAt(mem, q, s, p, i)
  BY <1>3 DEF Waiting, WaitsAt, IsContinuation
<1>5. \A i : i \in Executing(q) <=> OnStack(q, i)
  <2>1. DOMAIN stack = 1..Len(stack)
    BY LenProperties DEF IInv, TypeInv
  <2> QED
    BY <2>1 DEF Executing, OnStack
<1> QED
  BY <1>3, <1>4, <1>5

LEMMA ScheduledIs ==
  ASSUME IInv, NEW q \in Promise, NEW i \in Scheduled(q)
  PROVE  /\ i \in Nat
         /\ \/ NextAt(q, i)
            \/ \E k \in Nat : i = Len(batch) + k /\ ContinuesAt(mem, q, k)
<1>1. i \in DOMAIN Jobs /\ Jobs[i].to = q /\ Jobs[i].kind # "adopt"
  BY DEF Scheduled, IsContinuation
<1>2. i \in Nat
  <2>1. DOMAIN Jobs = 1..Len(Jobs)
    BY JobsAre
  <2>2. i \in 1..Len(Jobs)
    BY <1>1, <2>1
  <2> QED
    BY <2>2
<1>3. CASE i \in 1..Len(batch) /\ Jobs[i] = batch[i]
  BY <1>1, <1>2, <1>3 DEF NextAt, Queued
<1>4. CASE \E k \in 1..Len(mem.microtasks) : i = Len(batch) + k /\ Jobs[i] = mem.microtasks[k]
  <2>1. PICK k \in 1..Len(mem.microtasks) : i = Len(batch) + k /\ Jobs[i] = mem.microtasks[k]
    BY <1>4
  <2>2. ContinuesAt(mem, q, k) /\ k \in Nat
    BY <1>1, <2>1 DEF ContinuesAt, JobAt
  <2> QED
    BY <1>2, <2>1, <2>2
<1> QED
  BY <1>1, <1>3, <1>4, JobsAre

LEMMA OneScheduled ==
  ASSUME IInv, NEW q \in Promise
  PROVE  \A i, j \in Scheduled(q) : i = j
<1> SUFFICES ASSUME NEW i \in Scheduled(q), NEW j \in Scheduled(q) PROVE i = j
  OBVIOUS
<1>1. /\ i \in Nat /\ j \in Nat
      /\ NextAt(q, i) \/ \E k \in Nat : i = Len(batch) + k /\ ContinuesAt(mem, q, k)
      /\ NextAt(q, j) \/ \E k \in Nat : j = Len(batch) + k /\ ContinuesAt(mem, q, k)
  BY ScheduledIs
<1>2. \A k, l \in Nat : NextAt(q, k) => ~ContinuesAt(mem, q, l)
  BY DEF IInv, OneContinuation, Nowhere
<1>3. \A k, l \in Nat : NextAt(q, k) /\ NextAt(q, l) => k = l
  BY DEF IInv, OneContinuation
<1>4. \A k, l \in Nat : ContinuesAt(mem, q, k) /\ ContinuesAt(mem, q, l) => k = l
  BY DEF IInv, OneContinuation, OnePlace
<1> QED
  BY <1>1, <1>2, <1>3, <1>4

LEMMA ContinuationIsSingle == IInv => SingleContinuation
<1> SUFFICES ASSUME IInv, NEW q \in Promise, NEW s \in Side
             PROVE  Cardinality(Waiting(q, s)) + Cardinality(Scheduled(q))
                        + Cardinality(Executing(q)) <= 1
  BY DEF SingleContinuation
<1>1. \A v, w \in Waiting(q, s) : v = w
  BY PlacesAre DEF IInv, OneContinuation, OnePlace
<1>2. \A i, j \in Executing(q) : i = j
  <2>1. \A i : OnStack(q, i) => i \in Nat
    BY LenProperties DEF OnStack, IInv, TypeInv
  <2> QED
    BY <2>1, PlacesAre DEF IInv, OneContinuation
<1>3. ASSUME NEW w \in Waiting(q, s), NEW i \in Scheduled(q)
      PROVE  FALSE
  <2>1. PICK p \in Promise, k \in Nat : WaitsAt(mem, q, s, p, k)
    BY PlacesAre
  <2>2. \/ NextAt(q, i) /\ i \in Nat
        \/ \E l \in Nat : i = Len(batch) + l /\ ContinuesAt(mem, q, l)
    BY ScheduledIs
  <2> QED
    BY <2>1, <2>2 DEF IInv, OneContinuation, OnePlace, Nowhere
<1>4. ASSUME NEW i \in Executing(q)
      PROVE  Waiting(q, s) = {} /\ Scheduled(q) = {}
  <2>1. OnStack(q, i) /\ i \in Nat
    BY PlacesAre, LenProperties DEF OnStack, IInv, TypeInv
  <2>2. Nowhere(mem, q) /\ \A k \in Nat : ~NextAt(q, k)
    BY <2>1 DEF IInv, OneContinuation
  <2>3. Waiting(q, s) = {}
    BY <2>2, PlacesAre DEF Nowhere
  <2>4. Scheduled(q) = {}
    BY <2>2, ScheduledIs DEF Nowhere
  <2> QED
    BY <2>3, <2>4
<1>5. /\ Cardinality(Waiting(q, s)) \in {0, 1}
      /\ Waiting(q, s) = {} => Cardinality(Waiting(q, s)) = 0
  BY <1>1, AtMostOne
<1>6. /\ Cardinality(Scheduled(q)) \in {0, 1}
      /\ Scheduled(q) = {} => Cardinality(Scheduled(q)) = 0
  BY OneScheduled, AtMostOne
<1>7. /\ Cardinality(Executing(q)) \in {0, 1}
      /\ Executing(q) = {} => Cardinality(Executing(q)) = 0
  BY <1>2, AtMostOne
<1>8. \/ Waiting(q, s) = {} /\ Scheduled(q) = {}
      \/ Waiting(q, s) = {} /\ Executing(q) = {}
      \/ Scheduled(q) = {} /\ Executing(q) = {}
  BY <1>3, <1>4
<1> QED
  BY <1>5, <1>6, <1>7, <1>8

LEMMA TypesAreOK == IInv => TypeOK
<1> SUFFICES ASSUME IInv PROVE TypeOK
  OBVIOUS
<1>1. /\ made \in 0..NumPromises /\ fuel \in 0..Fuel /\ exposed \subseteq 1..made
      /\ frame \subseteq 1..made
      /\ mem \in Memory(made)
  BY DEF IInv, TypeInv, Sound
<1>2. 1..made \subseteq Promise /\ ValueOf(made) \subseteq Value
  BY <1>1, ConstantsAssumption DEF Promise, ValueOf, Value
<1>3. mem.state \in [Promise -> {"pending"} \cup Side] /\ mem.result \in [Promise -> Value]
  BY <1>1, <1>2 DEF Memory
<1>4. ASSUME NEW s \in Side, NEW p \in Promise, NEW i \in DOMAIN mem.reactions[s][p]
      PROVE  mem.reactions[s][p][i] \in Reactions
  <2>1. mem.reactions[s][p] \in Seq(ReactionsTo(made))
    BY <1>1 DEF Memory
  <2>2. mem.reactions[s][p][i] \in ReactionsTo(made)
    BY <2>1, LenProperties, ElementOfSeq
  <2> QED
    BY <2>2 DEF ReactionsTo, Reactions, Kinds
<1>5. ASSUME NEW i \in DOMAIN Jobs
      PROVE  Jobs[i] \in JobSet
  <2>1. Jobs[i] \in JobsTo(made)
    BY JobsAre
  <2> QED
    BY <1>2, <2>1 DEF JobsTo, JobSet, Kinds
<1>6. leak \in Leak
  BY <1>2 DEF IInv, TypeInv, LeakOf, Leak
<1> QED
  BY <1>1, <1>3, <1>4, <1>5, <1>6 DEF TypeOK

(* Types, no stranded reaction, no promise fulfilled with a promise, jobs  *)
(* that carry the outcome of their promise, and continuations in one place *)
(* at a time: whatever program runs, and with any number of promises       *)
(* (Settle, addPromiseReaction, DrainMicrotasks, OpAwait).                 *)
THEOREM PromisesAreSound == Spec => []Inv
<1>1. ASSUME IInv
      PROVE  Inv
  <2>1. TypeOK
    BY <1>1, TypesAreOK
  <2>2. NoStrandedReaction
    BY <1>1 DEF NoStrandedReaction, IInv, TypeInv, Sound, NoneStranded
  <2>3. FulfilledWithPlain
    BY <1>1 DEF FulfilledWithPlain, IInv, TypeInv, Sound, PlainFulfilled
  <2>4. JobsCarryOutcome
    BY <1>1, JobsAre DEF JobsCarryOutcome, Carries
  <2>5. SingleContinuation
    BY <1>1, ContinuationIsSingle
  <2> QED
    BY <2>1, <2>2, <2>3, <2>4, <2>5 DEF Inv
<1> QED
  BY <1>1, InvariantHolds, PTL

(* A body that is to be resumed is suspended in its promise, whoever       *)
(* resumes it and however many bodies there are (resumeAsyncFunction).     *)
THEOREM ResumptionFindsBodyHolds == Spec => []ResumptionFindsBody
<1>1. ASSUME IInv, NEW i \in DOMAIN Jobs, Jobs[i].kind = "await"
      PROVE  Jobs[i].to \in frame
  <2>1. PICK q : q = Jobs[i].to
    OBVIOUS
  <2>2. Jobs[i] \in JobsTo(made)
    BY <1>1, JobsAre
  <2>3. q \in Promise
    BY <1>1, <2>1, <2>2, ConstantsAssumption DEF JobsTo, IInv, TypeInv, Promise
  <2>4. \/ i \in 1..Len(batch) /\ Jobs[i] = batch[i]
        \/ \E k \in 1..Len(mem.microtasks) : Jobs[i] = mem.microtasks[k]
    BY <1>1, JobsAre
  <2>5. CASE i \in 1..Len(batch) /\ Jobs[i] = batch[i]
    BY <1>1, <2>1, <2>3, <2>5 DEF IInv, AwaitsAreSuspended, Queued
  <2>6. CASE \E k \in 1..Len(mem.microtasks) : Jobs[i] = mem.microtasks[k]
    <3>1. PICK k \in 1..Len(mem.microtasks) : Jobs[i] = mem.microtasks[k]
      BY <2>6
    <3>2. Refers(mem, q, "await")
      BY <1>1, <2>1, <3>1 DEF Refers, JobAt
    <3> QED
      BY <1>1, <2>1, <2>3, <3>2 DEF IInv, AwaitsAreSuspended
  <2> QED
    BY <2>4, <2>5, <2>6
<1>2. IInv => ResumptionFindsBody
  BY <1>1 DEF ResumptionFindsBody
<1> QED
  BY <1>2, InvariantHolds, PTL

(* An async function that ends before its first await settles its promise  *)
(* with its value or with what it threw, and nobody changes that later.    *)
THEOREM FirstRunSettlesHolds == Spec => []FirstRunSettles
<1>1. IInv => FirstRunSettles
  BY DEF IInv
<1> QED
  BY <1>1, InvariantHolds, PTL

(* Unless then is given something that is neither a function nor           *)
(* undefined, a pending promise whose resolvers the program does not hold  *)
(* has somebody who will settle it, in every reachable state.              *)
THEOREM NoOrphanHolds == "none" \notin Handlers => (Spec => []NoOrphan)
<1> SUFFICES ASSUME "none" \notin Handlers PROVE Spec => []NoOrphan
  OBVIOUS
<1>1. ASSUME IInv, NEW q \in 1..made \ exposed, mem.state[q] = "pending"
      PROVE  \/ Executing(q) # {}
             \/ \E i \in DOMAIN Jobs : Jobs[i].to = q
             \/ \A s \in Side : Registered(q, s) # {}
  <2>1. q \in Promise
    BY <1>1, ConstantsAssumption DEF IInv, TypeInv, Promise
  <2>2. \/ \E i \in Nat : OnStack(q, i)
        \/ \E i \in Nat : Queued(q, i)
        \/ Held(mem, q)
    BY <1>1 DEF IInv, PendingIsHeld
  <2>3. CASE \E i \in Nat : OnStack(q, i)
    BY <1>1, <2>1, <2>3, PlacesAre DEF Side
  <2>4. CASE \E i \in Nat : Queued(q, i)
    BY <1>1, <2>4, JobsAre DEF Queued
  <2>5. CASE \E i \in Nat : JobAt(mem, q, i)
    BY <1>1, <2>5, JobsAre DEF JobAt
  <2>6. CASE \E p \in Promise : \A s \in Side : \E i \in Nat : At(mem, q, s, p, i)
    <3>1. PICK p \in Promise : \A s \in Side : \E i \in Nat : At(mem, q, s, p, i)
      BY <2>6
    <3>2. ASSUME NEW s \in Side PROVE Registered(q, s) # {}
      <4>1. PICK i \in Nat : At(mem, q, s, p, i)
        BY <3>1
      <4>2. <<p, i>> \in Registered(q, s)
        BY <1>1, <2>1, <4>1, PlacesAre
      <4> QED
        BY <4>2
    <3> QED
      BY <3>2
  <2> QED
    BY <2>2, <2>3, <2>4, <2>5, <2>6 DEF Held
<1>2. IInv => NoOrphan
  BY <1>1 DEF NoOrphan
<1> QED
  BY <1>2, InvariantHolds, PTL

-----------------------------------------------------------------------------
(* The contract.                                                           *)

(* What the continuation of q waits for: sources in the memory and the     *)
(* promise whose reaction is in the batch.                                 *)
WaitsFor(q) ==
    Sources(mem, q) \cup {p \in Promise : \E i \in Nat : NextAt(q, i) /\ batch[i].src = p}

LEMMA WaitsOnIsWaitsFor ==
  IInv => \A q \in Promise : WaitsOn[q] = WaitsFor(q)
<1> SUFFICES ASSUME IInv, NEW q \in Promise PROVE WaitsOn[q] = WaitsFor(q)
  OBVIOUS
<1> DEFINE A == Waiting(q, "fulfilled") \cup Waiting(q, "rejected")
           B == {w[1] : w \in A}
           C == {Jobs[i].src : i \in Scheduled(q)}
<1>1. WaitsOn[q] = B \cup C
  BY DEF WaitsOn
<1>2. "fulfilled" \in Side /\ "rejected" \in Side /\ \A s \in Side : s = "fulfilled" \/ s = "rejected"
  BY DEF Side
<1>3. \A p : p \in B <=> p \in Promise /\ \E s \in Side, i \in Nat : WaitsAt(mem, q, s, p, i)
  <2>1. ASSUME NEW w \in A
        PROVE  w[1] \in Promise /\ \E s \in Side, i \in Nat : WaitsAt(mem, q, s, w[1], i)
    <3>1. PICK s \in Side : w \in Waiting(q, s)
      BY <1>2
    <3>2. PICK p \in Promise, i \in Nat : w = <<p, i>> /\ WaitsAt(mem, q, s, p, i)
      BY <3>1, PlacesAre
    <3> QED
      BY <3>2
  <2>2. ASSUME NEW p \in Promise, NEW s \in Side, NEW i \in Nat, WaitsAt(mem, q, s, p, i)
        PROVE  p \in B
    <3>1. <<p, i>> \in Waiting(q, s)
      BY <2>2, PlacesAre
    <3>2. <<p, i>> \in A /\ <<p, i>>[1] = p
      BY <1>2, <3>1
    <3> QED
      BY <3>2
  <2> HIDE DEF A
  <2> QED
    BY <2>1, <2>2
<1>4. \A i \in Nat : NextAt(q, i) => i \in Scheduled(q) /\ Jobs[i] = batch[i]
  BY JobsAre DEF NextAt, Queued, Scheduled, IsContinuation
<1>5. \A k \in Nat : ContinuesAt(mem, q, k) =>
          Len(batch) + k \in Scheduled(q) /\ Jobs[Len(batch) + k] = mem.microtasks[k]
  BY JobsAre DEF ContinuesAt, JobAt, Scheduled, IsContinuation
<1>6. \A i \in Scheduled(q) : Jobs[i].src \in Promise
  <2>1. \A i \in DOMAIN Jobs : Jobs[i] \in JobsTo(made)
    BY JobsAre
  <2>2. 1..made \subseteq Promise
    BY ConstantsAssumption DEF IInv, TypeInv, Promise
  <2> QED
    BY <2>1, <2>2 DEF Scheduled, JobsTo
<1>7. ASSUME NEW i \in Scheduled(q)
      PROVE  \/ i \in Nat /\ NextAt(q, i) /\ Jobs[i] = batch[i]
             \/ \E k \in Nat : ContinuesAt(mem, q, k) /\ Jobs[i] = mem.microtasks[k]
  BY <1>4, <1>5, ScheduledIs
<1>8. \A p : p \in C <=>
          /\ p \in Promise
          /\ \/ \E i \in Nat : NextAt(q, i) /\ batch[i].src = p
             \/ \E i \in Nat : ContinuesAt(mem, q, i) /\ mem.microtasks[i].src = p
  BY <1>4, <1>5, <1>6, <1>7
<1> HIDE DEF B, C
<1>9. \A p : p \in WaitsFor(q) <=> p \in B \/ p \in C
  BY <1>3, <1>8 DEF WaitsFor, Sources
<1> QED
  BY <1>1, <1>9

LEMMA WaitsOnAfterwards == IInv' => (\A q \in Promise : WaitsOn[q] = WaitsFor(q))'
  BY WaitsOnIsWaitsFor, PTL

(* An idle continuation waits for nothing.                                 *)
LEMMA NowhereWaitsForNothing ==
  ASSUME IInv, NEW q \in Promise, Nowhere(mem, q), \A i \in Nat : ~NextAt(q, i)
  PROVE  WaitsFor(q) = {}
  BY DEF WaitsFor, Sources, Nowhere

(* What a step must do to keep the contract, for each part of it.          *)
SettlesOnly(q) ==
    \A p \in Promise : p # q \/ mem.state[p] # "pending" =>
        mem'.state[p] = mem.state[p] /\ mem'.result[p] = mem.result[p]

LEMMA OutcomesKeep ==
  ASSUME IInv, IInv', NEW q, SettlesOnly(q)
  PROVE  (\E p \in Promise : Contract!Settle(p)) \/ UNCHANGED Outcomes
<1>1. /\ mem.state \in [Promise -> {"pending"} \cup Side]
      /\ mem'.state \in [Promise -> {"pending"} \cup Side] /\ mem'.result \in [Promise -> Value]
  <2>1. mem' \in Memory(made') /\ ValueOf(made') \subseteq Value
    BY ConstantsAssumption DEF IInv, TypeInv, Sound, Promise, ValueOf, Value
  <2> QED
    BY <2>1 DEF IInv, TypeInv, Sound, Memory
<1>2. CASE q \in Promise /\ mem.state[q] = "pending" /\ mem'.state[q] # "pending"
  <2> DEFINE o == [side |-> mem'.state[q], val |-> mem'.result[q]]
  <2>1. o \in [side : Side, val : Value]
    BY <1>1, <1>2
  <2>2. Outcomes[q] = NoOutcome
    BY <1>2 DEF Outcomes
  <2>3. Outcomes' = [Outcomes EXCEPT ![q] = o]
    BY <1>1, <1>2 DEF Outcomes, SettlesOnly
  <2> QED
    BY <1>2, <2>1, <2>2, <2>3 DEF Contract!Settle
<1>3. CASE ~(q \in Promise /\ mem.state[q] = "pending" /\ mem'.state[q] # "pending")
  <2>1. \A p \in Promise : Outcomes[p] = Outcomes'[p]
    BY <1>1, <1>3 DEF Outcomes, SettlesOnly
  <2>2. Outcomes' = Outcomes
    BY <2>1 DEF Outcomes
  <2> QED
    BY <2>2
<1> QED
  BY <1>2, <1>3

LEMMA WaitsKeep ==
  ASSUME IInv, IInv', UNCHANGED got, \A x \in Promise : WaitsFor(x)' = WaitsFor(x)
  PROVE  UNCHANGED <<WaitsOn, got>>
<1>1. /\ \A x \in Promise : WaitsOn[x] = WaitsFor(x)
      /\ \A x \in Promise : WaitsOn'[x] = WaitsFor(x)'
  BY WaitsOnIsWaitsFor, WaitsOnAfterwards
<1>2. \A x \in Promise : WaitsOn'[x] = WaitsOn[x]
  BY <1>1
<1>3. WaitsOn' = WaitsOn
  BY <1>2 DEF WaitsOn
<1> QED
  BY <1>3

LEMMA PassMeetsContract ==
  ASSUME IInv, IInv', "none" \notin Handlers, NEW n, NEW q \in Promise,
         Passes(mem, mem', n, q), UNCHANGED <<batch, got>>
  PROVE  Contract!Next
<1>1. SettlesOnly(q)
  BY DEF Passes, SettlesOnly
<1>2. \A x \in Promise : Sources(mem', x) = Sources(mem, x)
  BY DEF Passes, IInv, PendingIsHeld
<1>3. \A x, i : NextAt(x, i)' <=> NextAt(x, i)
  BY DEF NextAt, Queued
<1>4. \A x \in Promise : WaitsFor(x)' = WaitsFor(x)
  BY <1>2, <1>3 DEF WaitsFor
<1>5. UNCHANGED <<WaitsOn, got>>
  BY <1>4, WaitsKeep
<1>6. (\E p \in Promise : Contract!Settle(p)) \/ UNCHANGED Outcomes
  BY <1>1, OutcomesKeep
<1> QED
  BY <1>5, <1>6 DEF Contract!Next

LEMMA QuietMeetsContract ==
  ASSUME IInv, IInv', SameQueue(mem, mem'), NEW q, SettlesOnly(q), UNCHANGED <<batch, got>>
  PROVE  Contract!Next
<1>1. \A x \in Promise : Sources(mem', x) = Sources(mem, x)
  <2>1. \A x, p \in Promise, s \in Side, i \in Nat :
            WaitsAt(mem', x, s, p, i) <=> WaitsAt(mem, x, s, p, i)
    BY DEF SameQueue, WaitsAt
  <2>2. \A x, i : ContinuesAt(mem', x, i) <=> ContinuesAt(mem, x, i)
    BY DEF SameQueue, JobAt, ContinuesAt
  <2> QED
    BY <2>1, <2>2 DEF Sources, SameQueue
<1>2. \A x, i : NextAt(x, i)' <=> NextAt(x, i)
  BY DEF NextAt, Queued
<1>3. \A x \in Promise : WaitsFor(x)' = WaitsFor(x)
  BY <1>1, <1>2 DEF WaitsFor
<1>4. UNCHANGED <<WaitsOn, got>>
  BY <1>3, WaitsKeep
<1>5. (\E p \in Promise : Contract!Settle(p)) \/ UNCHANGED Outcomes
  BY OutcomesKeep
<1> QED
  BY <1>4, <1>5 DEF Contract!Next

LEMMA TakeBatchMeetsContract ==
  ASSUME IInv, IInv', TakeBatch
  PROVE  Contract!Next
<1>1. /\ batch' = mem.microtasks /\ UNCHANGED got /\ batch = <<>>
      /\ mem \in Memory(made) /\ mem' = [mem EXCEPT !.microtasks = <<>>]
  BY DEF TakeBatch, IInv, TypeInv, Sound
<1>2. /\ mem'.state = mem.state /\ mem'.result = mem.result /\ mem'.reactions = mem.reactions
      /\ mem'.microtasks = <<>>
  BY <1>1 DEF Memory
<1>3. Len(batch) = 0 /\ Len(mem'.microtasks) = 0
  BY <1>1, <1>2, EmptySeq
<1>4. /\ \A x, p \in Promise, s \in Side, i \in Nat :
            WaitsAt(mem', x, s, p, i) <=> WaitsAt(mem, x, s, p, i)
      /\ \A x, i : ~ContinuesAt(mem', x, i) /\ ~NextAt(x, i)
  BY <1>2, <1>3 DEF At, WaitsAt, JobAt, ContinuesAt, NextAt, Queued
<1>5. \A x, i : NextAt(x, i)' <=> ContinuesAt(mem, x, i)
  BY <1>1 DEF Queued, JobAt, NextAt, ContinuesAt
<1>6. \A x \in Promise : WaitsFor(x)' = WaitsFor(x)
  BY <1>1, <1>4, <1>5 DEF WaitsFor, Sources
<1>7. UNCHANGED <<WaitsOn, got>>
  BY <1>1, <1>6, WaitsKeep
<1>8. Outcomes' = Outcomes
  BY <1>2 DEF Outcomes
<1> QED
  BY <1>7, <1>8 DEF Contract!Next

LEMMA RegisterMeetsContract ==
  ASSUME IInv, IInv', NEW p \in Promise, NEW q \in Promise, NEW K,
         Registers(mem, mem', p, q, K), RegistersFully(mem, mem', p, q),
         Nowhere(mem, q), \A i \in Nat : ~NextAt(q, i), UNCHANGED <<batch, got>>
  PROVE  Contract!Next
<1>1. /\ \A x \in Promise : x # q => Sources(mem', x) = Sources(mem, x)
      /\ Sources(mem', q) = {p}
      /\ mem'.state = mem.state /\ mem'.result = mem.result
  BY DEF Registers, RegistersFully
<1>2. \A x, i : NextAt(x, i)' <=> NextAt(x, i)
  BY DEF NextAt, Queued
<1>3. \A x \in Promise : x # q => WaitsFor(x)' = WaitsFor(x)
  BY <1>1, <1>2 DEF WaitsFor
<1>4. WaitsFor(q) = {}
  BY NowhereWaitsForNothing
<1>5. WaitsFor(q)' = {p}
  BY <1>1, <1>2 DEF WaitsFor
<1>6. /\ \A x \in Promise : WaitsOn[x] = WaitsFor(x)
      /\ \A x \in Promise : WaitsOn'[x] = WaitsFor(x)'
  BY WaitsOnIsWaitsFor, WaitsOnAfterwards
<1>7. \A x \in Promise : WaitsOn'[x] = [WaitsOn EXCEPT ![q] = {p}][x]
  BY <1>3, <1>5, <1>6 DEF WaitsOn
<1>8. WaitsOn' = [WaitsOn EXCEPT ![q] = {p}]
  BY <1>7 DEF WaitsOn
<1>9. Contract!Register(q, p)
  BY <1>4, <1>6, <1>8 DEF Contract!Register
<1>10. Outcomes' = Outcomes
  BY <1>1 DEF Outcomes
<1> QED
  BY <1>9, <1>10 DEF Contract!Next

(* What is left of the batch once its first microtask has started.         *)
LEMMA NextAfterStart ==
  ASSUME IInv, NEW kinds, StartJob(kinds), NEW x \in Promise
  PROVE  /\ \A i \in Nat : NextAt(x, i)' =>
               NextAt(x, i + 1) /\ batch'[i] = batch[i + 1] /\ i + 1 \in Nat
         /\ \A i \in Nat : NextAt(x, i) /\ i # 1 =>
               \E j \in Nat : NextAt(x, j)' /\ batch'[j].src = batch[i].src
<1>1. batch \in Seq(JobsTo(made)) /\ batch' = Tail(batch) /\ batch # <<>>
  BY DEF StartJob, IInv, TypeInv
<1>2. /\ Len(batch') = Len(batch) - 1 /\ Len(batch) \in Nat
      /\ \A j \in 1..Len(batch') : batch'[j] = batch[j + 1]
  BY <1>1, HeadTailProperties, LenProperties
<1>3. ASSUME NEW i \in Nat, NextAt(x, i)'
      PROVE  NextAt(x, i + 1) /\ batch'[i] = batch[i + 1] /\ i + 1 \in Nat
  <2>1. i \in 1..Len(batch') /\ batch'[i].to = x /\ batch'[i].kind # "adopt"
    BY <1>3 DEF NextAt, Queued
  <2>2. i + 1 \in 1..Len(batch) /\ batch'[i] = batch[i + 1]
    BY <1>2, <2>1
  <2> QED
    BY <2>1, <2>2 DEF NextAt, Queued
<1>4. ASSUME NEW i \in Nat, NextAt(x, i), i # 1
      PROVE  \E j \in Nat : NextAt(x, j)' /\ batch'[j].src = batch[i].src
  <2>1. i \in 1..Len(batch)
    BY <1>4 DEF NextAt, Queued
  <2>2. PICK j \in Nat : j = i - 1 /\ j \in 1..Len(batch') /\ j + 1 = i
    BY <1>2, <1>4, <2>1
  <2>3. batch'[j] = batch[i]
    BY <1>2, <2>2
  <2>4. NextAt(x, j)'
    BY <1>4, <2>2, <2>3 DEF NextAt, Queued
  <2> QED
    BY <2>3, <2>4
<1> QED
  BY <1>3, <1>4

LEMMA StartMeetsContract ==
  ASSUME IInv, IInv', NEW kinds, StartJob(kinds), batch[1].kind # "adopt",
         NEW q, q = batch[1].to, SettlesOnly(q),
         \A x \in Promise : Sources(mem', x) = Sources(mem, x)
  PROVE  Contract!Next
<1>1. /\ q \in Promise /\ Carries(batch[1], mem) /\ Queued(q, 1)
      /\ batch[1] \in JobsTo(made) /\ batch[1].side \in Side
      /\ \A i \in 1..Len(batch') : i + 1 \in 1..Len(batch) /\ batch'[i] = batch[i + 1]
      /\ \A i \in Nat : ~NextAt(q, i)'
  BY Starting
<1>2. PICK p : p = batch[1].src
  OBVIOUS
<1>3. p \in Promise /\ 1..made \subseteq Promise
  BY <1>1, <1>2, ConstantsAssumption DEF JobsTo, IInv, TypeInv, Promise
<1>4. NextAt(q, 1) /\ Nowhere(mem, q)
  BY <1>1 DEF NextAt, IInv, OneContinuation
<1>5. \A x \in Promise, i \in Nat :
          NextAt(x, i)' => NextAt(x, i + 1) /\ batch'[i] = batch[i + 1] /\ i + 1 \in Nat
  BY NextAfterStart
<1>6. ASSUME NEW x \in Promise, NEW i \in Nat, x # q, NextAt(x, i)
      PROVE  \E j \in Nat : NextAt(x, j)' /\ batch'[j].src = batch[i].src
  <2>1. i # 1
    BY <1>6 DEF NextAt, Queued
  <2> QED
    BY <1>6, <2>1, NextAfterStart
<1>7. \A x \in Promise : x # q => WaitsFor(x)' = WaitsFor(x)
  BY <1>5, <1>6 DEF WaitsFor
<1>8. Sources(mem, q) = {}
  BY <1>4 DEF Sources, Nowhere
<1>9. WaitsFor(q)' = {}
  BY <1>1, <1>8 DEF WaitsFor
<1>10. p \in WaitsFor(q)
  BY <1>2, <1>3, <1>4 DEF WaitsFor
<1>11. /\ \A x \in Promise : WaitsOn[x] = WaitsFor(x)
       /\ \A x \in Promise : WaitsOn'[x] = WaitsFor(x)'
  BY WaitsOnIsWaitsFor, WaitsOnAfterwards
<1>12. \A x \in Promise : WaitsOn'[x] = [WaitsOn EXCEPT ![q] = {}][x]
  BY <1>7, <1>9, <1>11 DEF WaitsOn
<1>13. WaitsOn' = [WaitsOn EXCEPT ![q] = {}]
  BY <1>12 DEF WaitsOn
<1>14. Outcomes[p] = [side |-> batch[1].side, val |-> batch[1].val] /\ Outcomes[p] # NoOutcome
  <2>1. mem.state[p] = batch[1].side /\ mem.result[p] = batch[1].val
    BY <1>1, <1>2 DEF Carries
  <2>2. batch[1].side # "pending"
    BY <1>1 DEF Side
  <2>3. Outcomes[p] = [side |-> batch[1].side, val |-> batch[1].val]
    BY <1>3, <2>1, <2>2 DEF Outcomes
  <2> QED
    BY <2>2, <2>3 DEF NoOutcome
<1>15. got' = [got EXCEPT ![q] = Outcomes[p]]
  BY <1>14 DEF StartJob
<1>16. Contract!Deliver(q)
  BY <1>10, <1>11, <1>1, <1>13, <1>14, <1>15 DEF Contract!Deliver
<1>17. (\E r \in Promise : Contract!Settle(r)) \/ UNCHANGED Outcomes
  BY OutcomesKeep
<1> QED
  BY <1>1, <1>16, <1>17 DEF Contract!Next

LEMMA RunPassThroughMeetsContract ==
  ASSUME IInv, IInv', "none" \notin Handlers, RunPassThrough
  PROVE  Contract!Next
<1>1. PICK q : q = batch[1].to
  OBVIOUS
<1>2. StartJob({"pass", "adopt"}) /\ mem' = PassThrough(mem, q, batch[1].side, batch[1].val)
  BY <1>1 DEF RunPassThrough
<1>3. /\ q \in 1..made /\ q \in Promise
      /\ batch[1].side \in Side /\ batch[1].val \in ValueOf(made)
  BY <1>1, <1>2, Starting
<1>4. Passes(mem, mem', made, q)
  BY <1>2, <1>3, PassThroughPasses DEF IInv, TypeInv
<1>5. SettlesOnly(q) /\ \A x \in Promise : Sources(mem', x) = Sources(mem, x)
  BY <1>4 DEF Passes, IInv, PendingIsHeld, SettlesOnly
<1>6. CASE batch[1].kind # "adopt"
  BY <1>1, <1>2, <1>5, <1>6, StartMeetsContract
<1>7. CASE batch[1].kind = "adopt"
  <2>1. got' = got
    <3>1. got' = [got EXCEPT ![q] = got[q]]
      BY <1>1, <1>2, <1>7 DEF StartJob
    <3> QED
      BY <1>3, <3>1 DEF IInv, TypeInv
  <2>2. \A x \in Promise, i \in Nat : NextAt(x, i) => i # 1
    BY <1>7 DEF NextAt
  <2>3. ASSUME NEW x \in Promise
        PROVE  WaitsFor(x)' = WaitsFor(x)
    <3>1. /\ \A i \in Nat : NextAt(x, i)' =>
                NextAt(x, i + 1) /\ batch'[i] = batch[i + 1] /\ i + 1 \in Nat
          /\ \A i \in Nat : NextAt(x, i) =>
                \E j \in Nat : NextAt(x, j)' /\ batch'[j].src = batch[i].src
      BY <1>2, <2>2, NextAfterStart
    <3>2. ASSUME NEW p \in Promise
          PROVE  (\E i \in Nat : NextAt(x, i)' /\ batch'[i].src = p)
                     <=> (\E i \in Nat : NextAt(x, i) /\ batch[i].src = p)
      BY <3>1
    <3> QED
      BY <1>5, <3>2 DEF WaitsFor
  <2>4. UNCHANGED <<WaitsOn, got>>
    BY <2>1, <2>3, WaitsKeep
  <2>5. (\E p \in Promise : Contract!Settle(p)) \/ UNCHANGED Outcomes
    BY <1>5, OutcomesKeep
  <2> QED
    BY <2>4, <2>5 DEF Contract!Next
<1> QED
  BY <1>6, <1>7

LEMMA OperateMeetsContract ==
  ASSUME IInv, IInv', "none" \notin Handlers, Operate
  PROVE  Contract!Next
<1>1. CASE New \/ executeAsyncFunction \/ ThrowAndCatch
  <2>1. UNCHANGED <<mem, batch, got>>
    BY <1>1 DEF New, executeAsyncFunction, ThrowAndCatch
  <2>2. SameQueue(mem, mem') /\ SettlesOnly(0)
    BY <2>1 DEF SameQueue, SettlesOnly
  <2> QED
    BY <2>1, <2>2, QuietMeetsContract
<1>2. ASSUME NEW side \in Side, NEW v, Fresh, mem' = WithSettled(side, v),
             UNCHANGED <<batch, got>>
      PROVE  Contract!Next
  <2>1. PICK n : n = made + 1
    OBVIOUS
  <2>2. /\ n \in Promise
        /\ \A s \in Side : mem.reactions[s][n] = <<>>
        /\ UNCHANGED <<batch, got>>
        /\ mem \in Memory(made)
    BY <1>2, <2>1, NothingForNew DEF Fresh, IInv, TypeInv, Sound
  <2>3. mem' = [mem EXCEPT !.state[n] = side, !.result[n] = v]
    BY <1>2, <2>1 DEF WithSettled
  <2>4. /\ \A x \in Promise : x # n =>
              mem'.state[x] = mem.state[x] /\ mem'.result[x] = mem.result[x]
        /\ mem'.reactions = mem.reactions /\ mem'.microtasks = mem.microtasks
        /\ mem'.state[n] = side
    BY <2>2, <2>3 DEF Memory
  <2>5. mem.state[n] = "pending"
    BY <1>2, <2>1, NothingForNew DEF Fresh, IInv, TypeInv
  <2>6. SameQueue(mem, mem') /\ SettlesOnly(n)
    <3>1. Len(<<>>) = 0
      BY EmptySeq
    <3> QED
      BY <2>2, <2>4, <2>5, <3>1 DEF SameQueue, SettlesOnly, At
  <2> QED
    BY <2>2, <2>6, QuietMeetsContract
<1>3. ASSUME NEW p \in Known, NEW side \in Side, NEW v \in UserValue, CallResolver(p, side, v)
      PROVE  Contract!Next
  <2>1. p \in 1..made /\ p \in Promise /\ v \in ValueOf(made) /\ UNCHANGED <<batch, got>>
    BY <1>3, Operating DEF CallResolver
  <2>2. Passes(mem, mem', made, p)
    BY <1>3, <2>1, PassThroughPasses DEF IInv, TypeInv, CallResolver
  <2> QED
    BY <2>1, <2>2, PassMeetsContract
<1>4. ASSUME NEW p \in Known, NEW f \in {"call", "pass", "finally"},
             NEW g \in {"call", "pass", "finally"}, PromiseThen(p, f, g)
      PROVE  Contract!Next
  <2>1. PICK q : q = made + 1
    OBVIOUS
  <2>2. /\ q \in made..NumPromises /\ q \in 0..NumPromises /\ q \in Promise /\ q \in 1..q
        /\ Nowhere(mem, q) /\ \A i \in Nat : ~NextAt(q, i)
        /\ p \in 1..q /\ p \in Promise
        /\ UNCHANGED <<batch, got>>
    <3>1. Fresh /\ Step /\ UNCHANGED <<batch, got>>
      BY <1>4 DEF PromiseThen
    <3>2. p \in 1..made
      BY <3>1, Operating
    <3>3. /\ made \in Nat /\ q \in Nat /\ NumPromises \in Nat
          /\ q = made + 1 /\ q <= NumPromises
      BY <2>1, <3>1, ConstantsAssumption DEF Fresh, IInv, TypeInv
    <3>4. /\ q \in made..NumPromises /\ q \in 0..NumPromises /\ q \in Promise
          /\ q \in 1..q /\ p \in 1..q /\ p \in Promise
      BY <3>2, <3>3 DEF Promise
    <3>5. Nowhere(mem, q) /\ \A i \in Nat : ~NextAt(q, i)
      BY <2>1, <3>1, NothingForNew DEF Fresh, IInv, NextAt
    <3> QED
      BY <3>1, <3>4, <3>5
  <2>3. Sound(mem, q)
    BY <2>2, SoundGrows DEF IInv, TypeInv
  <2>4. /\ f \in (Kinds \ {"adopt"}) \cup {"none"} /\ g \in (Kinds \ {"adopt"}) \cup {"none"}
        /\ f # "none" /\ g # "none"
    BY DEF Kinds
  <2>5. mem' = AddUnless(AddUnless(mem, p, "fulfilled", f, q), p, "rejected", g, q)
    BY <1>4, <2>1 DEF PromiseThen
  <2>6. /\ Registers(mem, mem', p, q, {f, g} \ {"none"})
        /\ RegistersFully(mem, mem', p, q)
    BY <2>2, <2>3, <2>4, <2>5, ThenRegisters
  <2> QED
    BY <2>2, <2>6, RegisterMeetsContract
<1>5. ASSUME NEW p \in Known, OpAwait(p)
      PROVE  Contract!Next
  <2>1. PICK q : q = Top.to
    OBVIOUS
  <2>2. /\ UNCHANGED <<batch, got>> /\ stack' = Below /\ Running
        /\ Top.kind # "script" /\ mem' = AwaitOn(p, q) /\ p \in 1..made /\ p \in Promise
    BY <1>5, <2>1, Operating DEF OpAwait, Step
  <2>3. q \in 1..made /\ q \in Promise /\ \E k \in Nat : OnStack(q, k)
    BY <2>1, <2>2, Ending
  <2>4. Nowhere(mem, q) /\ \A i \in Nat : ~NextAt(q, i)
    BY <2>3 DEF IInv, OneContinuation
  <2>5. Registers(mem, mem', p, q, {"await"}) /\ RegistersFully(mem, mem', p, q)
    BY <2>2, <2>3, AwaitRegisters DEF IInv, TypeInv
  <2> QED
    BY <2>2, <2>3, <2>4, <2>5, RegisterMeetsContract
<1>6. Handlers \subseteq {"call", "pass", "finally"}
  BY ConstantsAssumption
<1> QED
  BY <1>1, <1>2, <1>3, <1>4, <1>5, <1>6
     DEF Operate, NewSettled, AsyncCallLeftOver, Finally, Side

LEMMA EndMeetsContract ==
  ASSUME IInv, IInv', "none" \notin Handlers, End
  PROVE  Contract!Next
<1>1. CASE EndScript
  <2>1. UNCHANGED <<mem, batch, got>>
    BY <1>1 DEF EndScript
  <2>2. SameQueue(mem, mem') /\ SettlesOnly(0)
    BY <2>1 DEF SameQueue, SettlesOnly
  <2> QED
    BY <2>1, <2>2, QuietMeetsContract
<1>2. CASE ~EndScript
  <2>1. PICK q : q = Top.to
    OBVIOUS
  <2>2. /\ Running /\ Top.kind # "script" /\ stack' = Below /\ UNCHANGED <<batch, got>>
    BY <1>2 DEF End, HandlerReturns, HandlerThrows, FinallyEnds, BodyEnds,
                BodyGivesUp, OpReturnUndefined
  <2>3. /\ q \in 1..made /\ q \in Promise /\ UserValue \subseteq ValueOf(made)
        /\ ErrText \in ValueOf(made) /\ Top.val \in ValueOf(made)
        /\ Undefined \in ValueOf(made)
    BY <2>1, <2>2, Ending DEF FramesOf, ValueOf, Plain
  <2>4. FailureReason \in ValueOf(made)
    BY <2>3 DEF FailureReason
  <2>5. \/ \E v \in ValueOf(made) : mem' = resolvePromise(mem, q, v) \/ mem' = rejectPromise(mem, q, v)
        \/ \E s \in Side, v \in ValueOf(made) : mem' = PassThrough(mem, q, s, v)
    <3>1. ASSUME NEW v \in UserValue, HandlerReturns(v)
          PROVE  \E u \in ValueOf(made) : mem' = resolvePromise(mem, q, u) \/ mem' = rejectPromise(mem, q, u)
      BY <2>1, <2>3, <3>1 DEF HandlerReturns
    <3>2. CASE HandlerThrows
      BY <2>1, <2>3, <3>2 DEF HandlerThrows
    <3>3. ASSUME NEW throws \in BOOLEAN, FinallyEnds(throws)
          PROVE  \E u \in ValueOf(made) : mem' = resolvePromise(mem, q, u)
      BY <2>1, <2>3, <3>3 DEF FinallyEnds
    <3>4. ASSUME NEW s \in Side, NEW v \in UserValue, BodyEnds(s, v)
          PROVE  \/ \E u \in ValueOf(made) : mem' = resolvePromise(mem, q, u) \/ mem' = rejectPromise(mem, q, u)
                 \/ \E t \in Side, u \in ValueOf(made) : mem' = PassThrough(mem, q, t, u)
      BY <2>1, <2>3, <2>4, <3>4 DEF BodyEnds, FirstRunEnds, ResumedEnds,
         ResumedEndsLeftOver
    <3>5. ASSUME BodyGivesUp \/ OpReturnUndefined
          PROVE  \E u \in ValueOf(made) : mem' = resolvePromise(mem, q, u) \/ mem' = rejectPromise(mem, q, u)
      BY <2>1, <2>3, <2>4, <3>5 DEF BodyGivesUp, OpReturnUndefined
    <3> QED
      BY <1>2, <3>1, <3>2, <3>3, <3>4, <3>5 DEF End
  <2>6. Passes(mem, mem', made, q)
    BY <2>3, <2>5, RejectPasses, ResolvePasses, PassThroughPasses DEF IInv, TypeInv
  <2> QED
    BY <2>2, <2>3, <2>6, PassMeetsContract
<1> QED
  BY <1>1, <1>2

LEMMA DrainMeetsContract ==
  ASSUME IInv, IInv', "none" \notin Handlers, Drain
  PROVE  Contract!Next
<1>1. ASSUME NEW kinds, StartJob(kinds), "adopt" \notin kinds, UNCHANGED mem
      PROVE  Contract!Next
  <2>1. batch[1].kind # "adopt"
    BY <1>1 DEF StartJob
  <2>2. SettlesOnly(batch[1].to)
    BY <1>1 DEF SettlesOnly
  <2> QED
    BY <1>1, <2>1, <2>2, StartMeetsContract
<1>2. CASE RunHandler \/ resumeAsyncFunction \/ ResumeCaught
  BY <1>1, <1>2 DEF RunHandler, resumeAsyncFunction, ResumeCaught
<1>3. CASE ResumeUncaught
  <2>1. StartJob({"await"})
    BY <1>3 DEF ResumeUncaught
  <2>2. CASE UNCHANGED mem
    BY <1>1, <2>1, <2>2
  <2>3. CASE mem' = rejectPromise(mem, batch[1].to, batch[1].val)
    <3>1. PICK q : q = batch[1].to
      OBVIOUS
    <3>2. /\ q \in 1..made /\ q \in Promise /\ batch[1].val \in ValueOf(made)
          /\ batch[1].kind # "adopt"
      BY <2>1, <3>1, Starting
    <3>3. Passes(mem, mem', made, q)
      BY <2>3, <3>1, <3>2, RejectPasses DEF IInv, TypeInv
    <3>4. SettlesOnly(q) /\ \A x \in Promise : Sources(mem', x) = Sources(mem, x)
      BY <3>3 DEF Passes, IInv, PendingIsHeld, SettlesOnly
    <3> QED
      BY <2>1, <3>1, <3>2, <3>4, StartMeetsContract
  <2> QED
    BY <1>3, <2>2, <2>3 DEF ResumeUncaught
<1> QED
  BY <1>2, <1>3, TakeBatchMeetsContract, RunPassThroughMeetsContract DEF Drain

LEMMA StepMeetsContract ==
  ASSUME "none" \notin Handlers
  PROVE  IInv /\ IInv' /\ [Next]_vars => [Contract!Next]_(Contract!contractVars)
<1> SUFFICES ASSUME IInv, IInv', [Next]_vars
             PROVE  [Contract!Next]_(Contract!contractVars)
  OBVIOUS
<1>1. CASE Next
  BY <1>1, OperateMeetsContract, EndMeetsContract, DrainMeetsContract DEF Next
<1>2. CASE UNCHANGED vars
  <2>1. SameQueue(mem, mem') /\ SettlesOnly(0) /\ UNCHANGED <<batch, got>>
    BY <1>2 DEF vars, SameQueue, SettlesOnly
  <2> QED
    BY <2>1, QuietMeetsContract
<1> QED
  BY <1>1, <1>2

LEMMA InitMeetsContract == Init => Contract!Init
<1> SUFFICES ASSUME Init PROVE Contract!Init
  OBVIOUS
<1>1. Outcomes = [p \in Promise |-> NoOutcome]
  BY DEF Init, Outcomes
<1>2. got = [p \in Promise |-> NoOutcome]
  BY DEF Init
<1>3. ASSUME NEW q \in Promise
      PROVE  WaitsOn[q] = {}
  <2>1. WaitsOn[q] = WaitsFor(q)
    BY InitInvariant, WaitsOnIsWaitsFor
  <2>2. Len(mem.microtasks) = 0 /\ Len(batch) = 0
        /\ \A s \in Side, p \in Promise : Len(mem.reactions[s][p]) = 0
    BY EmptySeq DEF Init
  <2>3. WaitsFor(q) = {}
    BY <2>2 DEF WaitsFor, Sources, WaitsAt, At, ContinuesAt, JobAt, NextAt, Queued
  <2> QED
    BY <2>1, <2>3
<1>4. WaitsOn = [q \in Promise |-> {}]
  BY <1>3 DEF WaitsOn
<1> QED
  BY <1>1, <1>2, <1>4 DEF Contract!Init

(* Promises keep their contract: unless then is given something that is    *)
(* neither a function nor undefined, every continuation runs once, after   *)
(* its promise has settled and with its outcome, and no promise settles    *)
(* twice, whatever the program does and whatever it throws (promise.go,    *)
(* async.go, OpAwait).                                                     *)
THEOREM ContractIsKept ==
  ASSUME "none" \notin Handlers
  PROVE  Spec => KeepsContract
<1>1. Init => IInv
  BY InitInvariant
<1>2. IInv /\ [Next]_vars => IInv'
  BY StepInvariant
<1>3. Init => Contract!Init
  BY InitMeetsContract
<1>4. IInv /\ IInv' /\ [Next]_vars => [Contract!Next]_(Contract!contractVars)
  BY StepMeetsContract
<1> QED
  BY <1>1, <1>2, <1>3, <1>4, PTL DEF Spec, KeepsContract, Contract!Spec
=============================================================================
