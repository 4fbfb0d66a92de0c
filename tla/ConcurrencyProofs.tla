------------------------- MODULE ConcurrencyProofs -------------------------
(***************************************************************************)
(* Proofs about the two parts of the program that share state between      *)
(* goroutines.                                                             *)
(*                                                                         *)
(* The count of external operations, for any finite set of them: it is     *)
(* exact at every step of every goroutine, so the thread that sleeps on it *)
(* is woken and the one that gives up has nothing to wait for; and what    *)
(* each operation settles resumes the body that awaits it once.            *)
(*                                                                         *)
(* The count of active jobs of the parallel loader and the closing of its  *)
(* channels, for any number of workers, any buffers and any modules, with  *)
(* the timeout and other goroutines at any moment.                         *)
(***************************************************************************)
EXTENDS Fetch, ParallelLoader, FiniteSetTheorems, SequenceTheorems, TLAPS

Running == {p \in Ops : Active(p)}

(* Where goroutines stand is all the count depends on.                     *)
Places == {"none", "request", "state", "result", "read", "schedule", "done"}

GoroutineOK == goroutine \in [Ops -> Places]

CountInv == GoroutineOK /\ PendingIsExact /\ SleeperIsWoken /\ GivesUpWhenIdle

LEMMA RunningIsFinite == IsFiniteSet(Running) /\ Cardinality(Running) \in Nat
<1>1. Running \subseteq Ops
  BY DEF Running
<1>2. IsFiniteSet(Running)
  BY <1>1, OpsAssumption, FS_Subset
<1> QED
  BY <1>2, FS_CardinalityType

(* A positive count is an operation that is still to end.                  *)
LEMMA PositiveMeansRunning ==
  ASSUME PendingIsExact, pendingExternal > 0
  PROVE  \E p \in Ops : Active(p)
<1>1. Cardinality(Running) > 0
  BY DEF PendingIsExact, Running
<1>2. Running # {}
  BY <1>1, FS_EmptySet
<1> QED
  BY <1>2 DEF Running

LEMMA IdleMeansNoneRunning ==
  ASSUME PendingIsExact, ~(pendingExternal > 0)
  PROVE  \A p \in Ops : ~Active(p)
<1>1. Cardinality(Running) = 0
  BY RunningIsFinite DEF PendingIsExact, Running
<1>2. Running = {}
  BY <1>1, RunningIsFinite, FS_EmptySet
<1> QED
  BY <1>2 DEF Running

-----------------------------------------------------------------------------
(* The set of running operations, step by step.                            *)

(* A step that leaves every goroutine active or not as it was keeps both   *)
(* the set and its size.                                                   *)
LEMMA SameRunning ==
  ASSUME \A p \in Ops : Active(p)' <=> Active(p), UNCHANGED pendingExternal,
         PendingIsExact
  PROVE  PendingIsExact' /\ Running' = Running
<1>1. Running' = Running
  BY DEF Running
<1> QED
  BY <1>1 DEF PendingIsExact, Running

LEMMA GoesWithin ==
  ASSUME NEW p \in Ops, NEW at, NEW to \in Places, Goes(p, at, to), GoroutineOK,
         at \notin {"none", "done"}, to \notin {"none", "done"}
  PROVE  GoroutineOK' /\ \A q \in Ops : Active(q)' <=> Active(q)
<1>1. GoroutineOK'
  BY DEF Goes, GoroutineOK
<1>2. ASSUME NEW q \in Ops PROVE Active(q)' <=> Active(q)
  BY DEF Goes, GoroutineOK, Active
<1> QED
  BY <1>1, <1>2

(* The steps of a goroutine that has begun and does not end.               *)
LEMMA GoroutineStep ==
  ASSUME NEW p \in Ops, CountInv,
         \/ SetState(p) \/ SetResult(p) \/ ReadReactions(p)
         \/ ClearReactions(p) \/ ScheduleMicrotask(p)
  PROVE  CountInv'
<1>1. GoroutineOK' /\ \A q \in Ops : Active(q)' <=> Active(q)
  <2>1. CASE SetState(p)
    BY <2>1, GoesWithin DEF SetState, CountInv, Places
  <2>2. CASE SetResult(p)
    BY <2>2, GoesWithin DEF SetResult, CountInv, Places
  <2>3. CASE ReadReactions(p)
    BY <2>3, GoesWithin DEF ReadReactions, CountInv, Places
  <2>4. CASE ClearReactions(p)
    BY <2>4, GoesWithin DEF ClearReactions, CountInv, Places
  <2>5. CASE ScheduleMicrotask(p)
    BY <2>5, GoesWithin DEF ScheduleMicrotask, CountInv, Places
  <2> QED
    BY <2>1, <2>2, <2>3, <2>4, <2>5
<1>2. UNCHANGED <<pendingExternal, vm>>
  BY DEF SetState, SetResult, ReadReactions, ClearReactions, ScheduleMicrotask, rt
<1>3. PendingIsExact'
  BY <1>1, <1>2, SameRunning DEF CountInv
<1> QED
  BY <1>1, <1>2, <1>3 DEF CountInv, SleeperIsWoken, GivesUpWhenIdle

(* Ending takes one operation out of the set.                              *)
LEMMA EndStep ==
  ASSUME NEW p \in Ops, CountInv, EndExternalOp(p)
  PROVE  CountInv'
<1>1. GoroutineOK' /\ goroutine[p] = "schedule" /\ goroutine' = [goroutine EXCEPT ![p] = "done"]
  BY DEF EndExternalOp, Goes, CountInv, GoroutineOK, Places
<1>2. Running' = Running \ {p} /\ p \in Running
  BY <1>1 DEF Running, Active, CountInv, GoroutineOK
<1>3. Cardinality(Running') = Cardinality(Running) - 1
  BY <1>2, RunningIsFinite, FS_RemoveElement
<1>4. PendingIsExact'
  BY <1>3 DEF EndExternalOp, CountInv, PendingIsExact, Running
<1>5. SleeperIsWoken'
  BY DEF EndExternalOp, SleeperIsWoken
<1>6. GivesUpWhenIdle'
  <2>1. vm' = "error" => vm = "error"
    BY DEF EndExternalOp
  <2>2. vm = "error" => ~Active(p)
    BY DEF CountInv, GivesUpWhenIdle
  <2> QED
    BY <1>1, <2>1, <2>2 DEF Active, GivesUpWhenIdle
<1> QED
  BY <1>1, <1>4, <1>5, <1>6 DEF CountInv

(* fetch puts one in.                                                      *)
LEMMA FetchStep ==
  ASSUME NEW p \in Ops, CountInv, fetch(p)
  PROVE  CountInv'
<1>1. GoroutineOK' /\ goroutine[p] = "none" /\ goroutine' = [goroutine EXCEPT ![p] = "request"]
  BY DEF fetch, CountInv, GoroutineOK, Places
<1>2. Running' = Running \cup {p} /\ p \notin Running
  BY <1>1 DEF Running, Active, CountInv, GoroutineOK
<1>3. Cardinality(Running') = Cardinality(Running) + 1
  BY <1>2, RunningIsFinite, FS_AddElement
<1>4. PendingIsExact'
  BY <1>3 DEF fetch, CountInv, PendingIsExact, Running
<1>5. vm' = "script"
  BY DEF fetch, VM
<1> QED
  BY <1>1, <1>4, <1>5 DEF CountInv, SleeperIsWoken, GivesUpWhenIdle

(* Every other step of the VM thread leaves goroutines and the count       *)
(* alone; it falls asleep or gives up only on what the count says.         *)
LEMMA VMStep ==
  ASSUME CountInv, UNCHANGED <<goroutine, pendingExternal>>,
         vm' = "asleep" => vm = "asleep" \/ pendingExternal > 0,
         vm' = "error" => vm = "error" \/ ~(pendingExternal > 0)
  PROVE  CountInv'
<1>1. \A q \in Ops : Active(q)' <=> Active(q)
  BY DEF Active
<1>2. PendingIsExact'
  BY <1>1, SameRunning DEF CountInv
<1>3. SleeperIsWoken'
  BY <1>1, PositiveMeansRunning DEF CountInv, SleeperIsWoken
<1>4. GivesUpWhenIdle'
  BY <1>1, IdleMeansNoneRunning DEF CountInv, GivesUpWhenIdle
<1> QED
  BY <1>2, <1>3, <1>4 DEF CountInv, GoroutineOK

LEMMA ThreadStep ==
  ASSUME CountInv, Thread \/ EndScript \/ \E p \in Ops : AwaitInBody(p) \/ TopLevelAwait(p)
  PROVE  CountInv'
<1>1. CASE ScheduleResumption
  BY <1>1, VMStep DEF ScheduleResumption, VM
<1>2. CASE ReadForAppend
  BY <1>2, VMStep DEF ReadForAppend, VM, rt
<1>3. CASE WriteAppended
  BY <1>3, VMStep DEF WriteAppended, VM, rt
<1>4. CASE CheckState
  <2>1. vm' \in {"value", "drain"}
    BY <1>4 DEF CheckState, VM
  <2> QED
    BY <1>4, <2>1, VMStep DEF CheckState, rt
<1>5. CASE RunUntilIdle("drain", "check", "idle")
  <2>1. vm' \in {"check", "idle"}
    BY <1>5 DEF RunUntilIdle, VM
  <2> QED
    BY <1>5, <2>1, VMStep DEF RunUntilIdle
<1>6. CASE HasPendingExternalOps
  BY <1>6, VMStep DEF HasPendingExternalOps, VM, rt
<1>7. CASE WaitForExternalOp
  BY <1>7, VMStep DEF WaitForExternalOp, VM, rt
<1>8. CASE TakeValue
  BY <1>8, VMStep DEF TakeValue, VM, rt
<1>9. CASE RunUntilIdle("draining", "draining", "exit")
  <2>1. vm' \in {"draining", "exit"}
    BY <1>9 DEF RunUntilIdle, VM
  <2> QED
    BY <1>9, <2>1, VMStep DEF RunUntilIdle
<1>10. CASE EndScript
  BY <1>10, VMStep DEF EndScript, VM, rt
<1>11. ASSUME NEW p \in Ops, AwaitInBody(p) PROVE CountInv'
  <2>1. vm' \in {"resume", "append"}
    BY <1>11 DEF AwaitInBody
  <2> QED
    BY <1>11, <2>1, VMStep DEF AwaitInBody, rt
<1>12. ASSUME NEW p \in Ops, TopLevelAwait(p) PROVE CountInv'
  BY <1>12, VMStep DEF TopLevelAwait, VM, rt
<1> QED
  BY <1>1, <1>2, <1>3, <1>4, <1>5, <1>6, <1>7, <1>8, <1>9, <1>10, <1>11, <1>12 DEF Thread

LEMMA CountInit == Init => CountInv
<1> SUFFICES ASSUME Init PROVE CountInv
  OBVIOUS
<1>1. GoroutineOK /\ \A p \in Ops : ~Active(p)
  BY DEF Init, GoroutineOK, Active, Places
<1>2. Running = {}
  BY <1>1 DEF Running
<1>3. PendingIsExact
  BY <1>2, FS_EmptySet DEF Init, PendingIsExact, Running
<1> QED
  BY <1>1, <1>3 DEF Init, CountInv, SleeperIsWoken, GivesUpWhenIdle

LEMMA CountNext == CountInv /\ [Next]_vars => CountInv'
<1> SUFFICES ASSUME CountInv, [Next]_vars PROVE CountInv'
  OBVIOUS
<1>1. CASE Script
  BY <1>1, FetchStep, ThreadStep DEF Script
<1>2. CASE Thread
  BY <1>2, ThreadStep
<1>3. ASSUME NEW p \in Ops, Goroutine(p) PROVE CountInv'
  BY <1>3, GoroutineStep, EndStep DEF Goroutine
<1>4. CASE UNCHANGED vars
  BY <1>4, VMStep DEF vars, rt
<1> QED
  BY <1>1, <1>2, <1>3, <1>4 DEF Next

LEMMA CountInvHolds == Spec => []CountInv
BY CountInit, CountNext, PTL DEF Spec

-----------------------------------------------------------------------------
(* Results.                                                                *)

(* The runtime's pendingExternal is the number of operations that have     *)
(* begun and not ended, whatever the goroutines and the VM thread do.      *)
THEOREM PendingCountIsExact == Spec => []PendingIsExact
<1>1. CountInv => PendingIsExact
  BY DEF CountInv
<1> QED
  BY <1>1, CountInvHolds, PTL

(* WaitForExternalOp never sleeps through the last broadcast.              *)
THEOREM SleeperHasWaker == Spec => []SleeperIsWoken
<1>1. CountInv => SleeperIsWoken
  BY DEF CountInv
<1> QED
  BY <1>1, CountInvHolds, PTL

(* Top-level await reports a failure only when no operation is running.    *)
THEOREM ErrorOnlyWhenIdle == Spec => []GivesUpWhenIdle
<1>1. CountInv => GivesUpWhenIdle
  BY DEF CountInv
<1> QED
  BY <1>1, CountInvHolds, PTL

-----------------------------------------------------------------------------
(* Resumptions.  The continuation of a body that awaits p is in one place  *)
(* at a time: in the hands of the VM thread, on the reaction list that the *)
(* goroutine has still to read, among those it has read, in the queue of   *)
(* microtasks, or it has run.  It may also be nowhere: what is appended to *)
(* a list after the goroutine has read it is lost.                         *)

Early == {"none", "request", "state", "result"}

Held(p)   == vm \in {"resume", "append", "write"} /\ awaiting = p
Listed(p) == reactions[p] # <<>> /\ goroutine[p] \in Early

OnePlace(p) ==
  /\ Held(p) => reactions[p] = <<>> /\ taken[p] = <<>> /\ Tasks(p) = {} /\ resumed[p] = 0
  /\ Listed(p) => taken[p] = <<>> /\ Tasks(p) = {} /\ resumed[p] = 0
  /\ taken[p] # <<>> => Tasks(p) = {} /\ resumed[p] = 0
  /\ Tasks(p) # {} => resumed[p] = 0

OneEach(p) ==
  /\ reactions[p] \in {<<>>, <<p>>}
  /\ taken[p] \in {<<>>, <<p>>}
  /\ \A i, j \in Tasks(p) : i = j
  /\ resumed[p] \in {0, 1}
  /\ Held(p) /\ vm = "write" => read = <<>>

(* A body that has not awaited p yet is in none of these places.           *)
NotYet(p) ==
  p \notin suspended =>
    ~Held(p) /\ reactions[p] = <<>> /\ taken[p] = <<>> /\ Tasks(p) = {} /\ resumed[p] = 0

(* The goroutine reads the list once, after it has set the state.          *)
ReadOnce(p) == goroutine[p] \in Early => taken[p] = <<>>

(* Whatever leads to a resumption comes after the promise has settled.     *)
AfterState(p) ==
  (\/ goroutine[p] \in {"state", "result", "read", "schedule", "done"}
   \/ taken[p] # <<>> \/ Tasks(p) # {} \/ resumed[p] # 0
   \/ Held(p) /\ vm = "resume")
  => settled[p]

BodyOK(p) == OnePlace(p) /\ OneEach(p) /\ NotYet(p) /\ ReadOnce(p) /\ AfterState(p)

Bodies  == Seq(Ops)
Results == {Response, Undefined}
Queue  == Seq(Ops \X Results)

StoreType ==
  /\ goroutine \in [Ops -> Places]
  /\ settled \in [Ops -> BOOLEAN]
  /\ reactions \in [Ops -> Bodies]
  /\ taken \in [Ops -> Bodies]
  /\ read \in Bodies
  /\ resumed \in [Ops -> Nat]
  /\ result \in [Ops -> Results]
  /\ microtasks \in Queue
  /\ vm \in {"resume", "append", "write"} => awaiting \in Ops

ResumeInv == StoreType /\ \A p \in Ops : BodyOK(p)

(* What a step does to the tasks of the bodies: none, one more, or all run. *)
LEMMA SameTasks ==
  ASSUME UNCHANGED microtasks
  PROVE  \A q \in Ops : Tasks(q)' = Tasks(q)
BY DEF Tasks

LEMMA OneTaskMore ==
  ASSUME StoreType, NEW e \in Ops, NEW v \in Results,
         microtasks' = Append(microtasks, <<e, v>>)
  PROVE  /\ microtasks' \in Queue
         /\ \A q \in Ops : q # e => Tasks(q)' = Tasks(q)
         /\ Tasks(e)' = Tasks(e) \cup {Len(microtasks) + 1}
<1> DEFINE T == Ops \X Results
<1>1. <<e, v>> \in T /\ microtasks \in Seq(T)
  BY DEF StoreType, Queue
<1> HIDE DEF T
<1>2. /\ microtasks' \in Seq(T)
      /\ Len(microtasks) \in Nat
      /\ DOMAIN microtasks = 1..Len(microtasks)
      /\ DOMAIN microtasks' = 1..(Len(microtasks) + 1)
      /\ \A i \in 1..Len(microtasks) : microtasks'[i] = microtasks[i]
      /\ microtasks'[Len(microtasks) + 1] = <<e, v>>
  BY <1>1, AppendProperties, LenProperties
<1>3. ASSUME NEW q \in Ops, q # e PROVE Tasks(q)' = Tasks(q)
  BY <1>2, <1>3 DEF Tasks
<1>4. Tasks(e)' = Tasks(e) \cup {Len(microtasks) + 1}
  BY <1>2 DEF Tasks
<1> QED
  BY <1>2, <1>3, <1>4 DEF T, Queue

LEMMA TasksAreFew ==
  ASSUME NEW p \in Ops, OneEach(p)
  PROVE  /\ Cardinality(Tasks(p)) \in {0, 1}
         /\ Cardinality(Tasks(p)) = 0 <=> Tasks(p) = {}
<1>1. CASE Tasks(p) = {}
  BY <1>1, FS_EmptySet
<1>2. ASSUME NEW i \in Tasks(p) PROVE Tasks(p) = {i}
  BY <1>2 DEF OneEach
<1>3. ASSUME NEW i \in Tasks(p) PROVE Cardinality(Tasks(p)) = 1
  BY <1>2, FS_Singleton
<1> QED
  BY <1>1, <1>3

LEMMA ResumeInit == Init => ResumeInv
<1> SUFFICES ASSUME Init PROVE ResumeInv
  OBVIOUS
<1>1. StoreType
  BY DEF Init, StoreType, Places, Bodies, Queue, Results
<1>2. ASSUME NEW p \in Ops PROVE BodyOK(p)
  <2>1. Tasks(p) = {}
    BY DEF Init, Tasks
  <2> QED
    BY <2>1 DEF Init, BodyOK, OnePlace, OneEach, NotYet, ReadOnce, AfterState, Held, Listed, Early
<1> QED
  BY <1>1, <1>2 DEF ResumeInv

-----------------------------------------------------------------------------
(* Steps of a goroutine.                                                   *)
LEMMA SetStateResumes ==
  ASSUME ResumeInv, NEW p \in Ops, SetState(p)
  PROVE  ResumeInv'
<1>1. StoreType'
  BY DEF hist, ResumeInv, StoreType, SetState, Goes, rt, Places
<1>2. ASSUME NEW q \in Ops PROVE BodyOK(q)'
  <2>1. BodyOK(q) /\ Tasks(q)' = Tasks(q) /\ StoreType
    BY SameTasks DEF ResumeInv, SetState, rt
  <2> QED
    BY <2>1 DEF StoreType, SetState, Goes, hist, rt, BodyOK, OnePlace, OneEach, NotYet,
                ReadOnce, AfterState, Held, Listed, Early
<1> QED
  BY <1>1, <1>2 DEF ResumeInv

LEMMA SetResultResumes ==
  ASSUME ResumeInv, NEW p \in Ops, SetResult(p)
  PROVE  ResumeInv'
<1>1. StoreType'
  BY DEF hist, ResumeInv, StoreType, SetResult, Goes, rt, Places, Results
<1>2. ASSUME NEW q \in Ops PROVE BodyOK(q)'
  <2>1. BodyOK(q) /\ Tasks(q)' = Tasks(q) /\ StoreType
    BY SameTasks DEF ResumeInv, SetResult, rt
  <2> QED
    BY <2>1 DEF StoreType, SetResult, Goes, hist, rt, BodyOK, OnePlace, OneEach, NotYet,
                ReadOnce, AfterState, Held, Listed, Early
<1> QED
  BY <1>1, <1>2 DEF ResumeInv

LEMMA ReadReactionsResumes ==
  ASSUME ResumeInv, NEW p \in Ops, ReadReactions(p)
  PROVE  ResumeInv'
<1>1. StoreType'
  BY DEF hist, ResumeInv, StoreType, ReadReactions, Goes, rt, promise, Places
<1>2. ASSUME NEW q \in Ops PROVE BodyOK(q)'
  <2>1. BodyOK(q) /\ Tasks(q)' = Tasks(q) /\ StoreType
    BY SameTasks DEF ResumeInv, ReadReactions, rt
  <2> QED
    BY <2>1 DEF StoreType, ReadReactions, Goes, hist, rt, promise, BodyOK, OnePlace, OneEach,
                NotYet, ReadOnce, AfterState, Held, Listed, Early
<1> QED
  BY <1>1, <1>2 DEF ResumeInv

LEMMA ClearReactionsResumes ==
  ASSUME ResumeInv, NEW p \in Ops, ClearReactions(p)
  PROVE  ResumeInv'
<1>1. StoreType'
  BY DEF hist, ResumeInv, StoreType, ClearReactions, Goes, rt, Places, Bodies
<1>2. ASSUME NEW q \in Ops PROVE BodyOK(q)'
  <2>1. BodyOK(q) /\ Tasks(q)' = Tasks(q) /\ StoreType
    BY SameTasks DEF ResumeInv, ClearReactions, rt
  <2> QED
    BY <2>1 DEF StoreType, ClearReactions, Goes, hist, rt, BodyOK, OnePlace, OneEach, NotYet,
                ReadOnce, AfterState, Held, Listed, Early
<1> QED
  BY <1>1, <1>2 DEF ResumeInv

LEMMA ScheduleMicrotaskResumes ==
  ASSUME ResumeInv, NEW p \in Ops, ScheduleMicrotask(p)
  PROVE  ResumeInv'
<1>0. taken[p] = <<p>> /\ Head(taken[p]) = p /\ Tail(taken[p]) = <<>>
  <2>1. taken[p] = <<p>>
    BY DEF ResumeInv, BodyOK, OneEach, ScheduleMicrotask
  <2>2. Head(<<p>>) = p
    OBVIOUS
  <2>3. Tail(<<p>>) = <<>>
    OBVIOUS
  <2> QED
    BY <2>1, <2>2, <2>3
<1>1. /\ microtasks' = Append(microtasks, <<p, result[p]>>)
      /\ taken' = [taken EXCEPT ![p] = <<>>]
      /\ result[p] \in Results
      /\ StoreType
  BY <1>0 DEF ResumeInv, StoreType, ScheduleMicrotask
<1>2. /\ microtasks' \in Queue
      /\ \A q \in Ops : q # p => Tasks(q)' = Tasks(q)
      /\ Tasks(p)' = Tasks(p) \cup {Len(microtasks) + 1}
  BY <1>1, OneTaskMore
<1>3. StoreType'
  BY <1>1, <1>2 DEF hist, StoreType, ScheduleMicrotask, Goes, promise, Places, Bodies
<1>4. Tasks(p) = {} /\ Tasks(p)' = {Len(microtasks) + 1} /\ resumed[p] = 0
  BY <1>0, <1>2 DEF ResumeInv, BodyOK, OnePlace
<1>5. ~Held(p) /\ reactions[p] \in {<<>>, <<p>>} /\ goroutine[p] = "schedule" /\ settled[p]
      /\ p \in suspended
  BY <1>0 DEF ResumeInv, BodyOK, OnePlace, OneEach, NotYet, AfterState, ScheduleMicrotask, Goes
<1>6. BodyOK(p)'
  BY <1>0, <1>1, <1>4, <1>5 DEF StoreType, ScheduleMicrotask, Goes, hist, promise, BodyOK,
     OnePlace, OneEach, NotYet, ReadOnce, AfterState, Held, Listed, Early
<1>7. ASSUME NEW q \in Ops, q # p PROVE BodyOK(q)'
  <2>1. BodyOK(q) /\ Tasks(q)' = Tasks(q)
    BY <1>2, <1>7 DEF ResumeInv
  <2> QED
    BY <1>1, <1>7, <2>1 DEF StoreType, ScheduleMicrotask, Goes, hist, promise, BodyOK,
       OnePlace, OneEach, NotYet, ReadOnce, AfterState, Held, Listed, Early
<1> QED
  BY <1>3, <1>6, <1>7 DEF ResumeInv

LEMMA EndExternalOpResumes ==
  ASSUME ResumeInv, NEW p \in Ops, EndExternalOp(p)
  PROVE  ResumeInv'
<1>0. vm' = vm \/ vm' = "check"
  BY DEF EndExternalOp
<1>1. StoreType'
  BY <1>0 DEF hist, ResumeInv, StoreType, EndExternalOp, Goes, promise, Places
<1>2. ASSUME NEW q \in Ops PROVE BodyOK(q)'
  <2>1. BodyOK(q) /\ Tasks(q)' = Tasks(q) /\ StoreType
    BY SameTasks DEF ResumeInv, EndExternalOp
  <2> QED
    BY <1>0, <2>1 DEF StoreType, EndExternalOp, Goes, hist, promise, BodyOK, OnePlace, OneEach,
       NotYet, ReadOnce, AfterState, Held, Listed, Early
<1> QED
  BY <1>1, <1>2 DEF ResumeInv

-----------------------------------------------------------------------------
(* Steps of the VM thread.                                                 *)

LEMMA FetchResumes ==
  ASSUME ResumeInv, NEW p \in Ops, fetch(p)
  PROVE  ResumeInv'
<1>1. StoreType'
  BY DEF hist, ResumeInv, StoreType, fetch, VM, promise, Places
<1>2. ASSUME NEW q \in Ops PROVE BodyOK(q)'
  <2>1. BodyOK(q) /\ Tasks(q)' = Tasks(q) /\ StoreType
    BY SameTasks DEF ResumeInv, fetch
  <2> QED
    BY <2>1 DEF StoreType, fetch, VM, hist, promise, BodyOK, OnePlace, OneEach, NotYet,
                ReadOnce, AfterState, Held, Listed, Early
<1> QED
  BY <1>1, <1>2 DEF ResumeInv

LEMMA AwaitInBodyResumes ==
  ASSUME ResumeInv, NEW p \in Ops, AwaitInBody(p)
  PROVE  ResumeInv'
<1>1. StoreType'
  BY DEF hist, ResumeInv, StoreType, AwaitInBody, rt, promise
<1>2. ASSUME NEW q \in Ops PROVE BodyOK(q)'
  <2>1. BodyOK(q) /\ Tasks(q)' = Tasks(q) /\ StoreType
    BY SameTasks DEF ResumeInv, AwaitInBody, rt
  <2>2. vm' = IF settled[p] THEN "resume" ELSE "append"
    BY DEF AwaitInBody
  <2> QED
    BY <2>1, <2>2 DEF StoreType, AwaitInBody, rt, promise, BodyOK, OnePlace, OneEach, NotYet,
       ReadOnce, AfterState, Held, Listed, Early
<1> QED
  BY <1>1, <1>2 DEF ResumeInv

LEMMA ScheduleResumptionResumes ==
  ASSUME ResumeInv, ScheduleResumption
  PROVE  ResumeInv'
<1>0. PICK p \in Ops : p = awaiting
  BY DEF ResumeInv, StoreType, ScheduleResumption, VM
<1>1. /\ awaiting = p /\ Held(p)
      /\ microtasks' = Append(microtasks, <<p, result[p]>>)
      /\ result[p] \in Results
      /\ StoreType
  BY <1>0 DEF ResumeInv, StoreType, ScheduleResumption, VM, Held
<1>2. /\ microtasks' \in Queue
      /\ \A q \in Ops : q # p => Tasks(q)' = Tasks(q)
      /\ Tasks(p)' = Tasks(p) \cup {Len(microtasks) + 1}
  BY <1>1, OneTaskMore
<1>3. StoreType'
  BY <1>1, <1>2 DEF hist, StoreType, ScheduleResumption, VM, promise
<1>4. Tasks(p) = {} /\ Tasks(p)' = {Len(microtasks) + 1}
  BY <1>1, <1>2 DEF ResumeInv, BodyOK, OnePlace
<1>5. reactions[p] = <<>> /\ taken[p] = <<>> /\ resumed[p] = 0 /\ settled[p] /\ p \in suspended
  BY <1>1 DEF ResumeInv, BodyOK, OnePlace, NotYet, AfterState, ScheduleResumption, VM
<1>6. BodyOK(p)'
  BY <1>1, <1>4, <1>5 DEF StoreType, ScheduleResumption, VM, hist, promise, BodyOK,
     OnePlace, OneEach, NotYet, ReadOnce, AfterState, Held, Listed, Early
<1>7. ASSUME NEW q \in Ops, q # p PROVE BodyOK(q)'
  <2>1. BodyOK(q) /\ Tasks(q)' = Tasks(q)
    BY <1>2, <1>7 DEF ResumeInv
  <2> QED
    BY <1>1, <1>7, <2>1 DEF StoreType, ScheduleResumption, VM, hist, promise, BodyOK,
       OnePlace, OneEach, NotYet, ReadOnce, AfterState, Held, Listed, Early
<1> QED
  BY <1>3, <1>6, <1>7 DEF ResumeInv

LEMMA ReadForAppendResumes ==
  ASSUME ResumeInv, ReadForAppend
  PROVE  ResumeInv'
<1>1. StoreType'
  BY DEF hist, ResumeInv, StoreType, ReadForAppend, VM, rt, promise
<1>2. ASSUME NEW q \in Ops PROVE BodyOK(q)'
  <2>1. BodyOK(q) /\ Tasks(q)' = Tasks(q) /\ StoreType
    BY SameTasks DEF ResumeInv, ReadForAppend, rt
  <2> QED
    BY <2>1 DEF StoreType, ReadForAppend, VM, hist, promise, BodyOK, OnePlace, OneEach, NotYet,
                ReadOnce, AfterState, Held, Listed, Early
<1> QED
  BY <1>1, <1>2 DEF ResumeInv

LEMMA WriteAppendedResumes ==
  ASSUME ResumeInv, WriteAppended
  PROVE  ResumeInv'
<1>0. awaiting \in Ops /\ read = <<>> /\ Append(read, awaiting) = <<awaiting>>
  <2>1. awaiting \in Ops /\ Held(awaiting)
    BY DEF ResumeInv, StoreType, WriteAppended, VM, Held
  <2>2. read = <<>>
    BY <2>1 DEF ResumeInv, BodyOK, OneEach, WriteAppended, VM
  <2> QED
    BY <2>1, <2>2
<1>1. StoreType'
  BY <1>0 DEF hist, ResumeInv, StoreType, WriteAppended, VM, rt, Bodies
<1>2. ASSUME NEW q \in Ops PROVE BodyOK(q)'
  <2>1. BodyOK(q) /\ Tasks(q)' = Tasks(q) /\ StoreType
    BY SameTasks DEF ResumeInv, WriteAppended, rt
  <2> QED
    BY <1>0, <2>1 DEF StoreType, WriteAppended, VM, hist, BodyOK, OnePlace, OneEach, NotYet,
       ReadOnce, AfterState, Held, Listed, Early
<1> QED
  BY <1>1, <1>2 DEF ResumeInv

LEMMA RunUntilIdleResumes ==
  ASSUME ResumeInv, NEW before, NEW again, NEW idle, RunUntilIdle(before, again, idle),
         before \notin {"resume", "append", "write"},
         again \notin {"resume", "append", "write"},
         idle \notin {"resume", "append", "write"}
  PROVE  ResumeInv'
<1>0. vm \notin {"resume", "append", "write"} /\ vm' \notin {"resume", "append", "write"}
  BY DEF RunUntilIdle, VM
<1>1. \A q \in Ops : Tasks(q)' = {}
  BY DEF RunUntilIdle, Tasks
<1>2. \A q \in Ops : Cardinality(Tasks(q)) \in {0, 1} /\ (Cardinality(Tasks(q)) = 0 <=> Tasks(q) = {})
  BY TasksAreFew DEF ResumeInv, BodyOK
<1>3. StoreType'
  <2>1. \A q \in Ops : resumed[q] + Cardinality(Tasks(q)) \in Nat
    BY <1>2 DEF ResumeInv, StoreType
  <2>2. resumed' \in [Ops -> Nat]
    BY <2>1 DEF RunUntilIdle
  <2>3. microtasks' \in Queue
    BY DEF RunUntilIdle, Queue
  <2> QED
    BY <1>0, <2>2, <2>3 DEF hist, ResumeInv, StoreType, RunUntilIdle, VM, promise
<1>4. ASSUME NEW q \in Ops PROVE BodyOK(q)'
  <2>1. BodyOK(q) /\ resumed'[q] = resumed[q] + Cardinality(Tasks(q)) /\ StoreType
    BY DEF ResumeInv, RunUntilIdle
  <2>2. UNCHANGED <<reactions, taken, settled, goroutine, suspended, read>>
    BY DEF RunUntilIdle, VM, promise
  <2> QED
    BY <1>0, <1>1, <1>2, <2>1, <2>2 DEF BodyOK, OnePlace, OneEach, NotYet, ReadOnce, AfterState,
       Held, Listed, Early
<1> QED
  BY <1>3, <1>4 DEF ResumeInv

(* The other steps of the thread leave the bodies alone.                   *)
LEMMA QuietResumes ==
  ASSUME ResumeInv, UNCHANGED <<promise, microtasks, goroutine, taken, read, suspended, resumed>>,
         \/ UNCHANGED <<vm, awaiting>>
         \/ vm' \notin {"resume", "append", "write"}
  PROVE  ResumeInv'
<1>1. StoreType'
  BY DEF hist, ResumeInv, StoreType, promise
<1>2. ASSUME NEW q \in Ops PROVE BodyOK(q)'
  <2>1. BodyOK(q) /\ Tasks(q)' = Tasks(q)
    BY SameTasks DEF ResumeInv
  <2> QED
    BY <2>1 DEF promise, BodyOK, OnePlace, OneEach, NotYet, ReadOnce, AfterState, Held,
                Listed, Early
<1> QED
  BY <1>1, <1>2 DEF ResumeInv

LEMMA ThreadResumes ==
  ASSUME ResumeInv, Thread \/ EndScript \/ \E p \in Ops : TopLevelAwait(p)
  PROVE  ResumeInv'
<1>1. CASE CheckState
  <2>1. vm' \in {"value", "drain"}
    BY <1>1 DEF CheckState, VM
  <2> QED
    BY <1>1, <2>1, QuietResumes DEF CheckState, VM, rt, hist
<1>2. CASE HasPendingExternalOps
  <2>1. vm' \in {"wait", "error"}
    BY <1>2 DEF HasPendingExternalOps, VM
  <2> QED
    BY <1>2, <2>1, QuietResumes DEF HasPendingExternalOps, VM, rt, hist
<1>3. CASE WaitForExternalOp
  <2>1. vm' \in {"asleep", "check"}
    BY <1>3 DEF WaitForExternalOp, VM
  <2> QED
    BY <1>3, <2>1, QuietResumes DEF WaitForExternalOp, VM, rt, hist
<1>4. CASE TakeValue
  <2>1. vm' = "script"
    BY <1>4 DEF TakeValue, VM
  <2> QED
    BY <1>4, <2>1, QuietResumes DEF TakeValue, VM, rt
<1>5. CASE EndScript
  <2>1. vm' = "draining"
    BY <1>5 DEF EndScript, VM
  <2> QED
    BY <1>5, <2>1, QuietResumes DEF EndScript, VM, rt, hist
<1>6. ASSUME NEW p \in Ops, TopLevelAwait(p) PROVE ResumeInv'
  <2>1. vm' = "check"
    BY <1>6 DEF TopLevelAwait, VM
  <2> QED
    BY <1>6, <2>1, QuietResumes DEF TopLevelAwait, VM, rt, hist
<1>7. CASE RunUntilIdle("drain", "check", "idle")
  BY <1>7, RunUntilIdleResumes
<1>8. CASE RunUntilIdle("draining", "draining", "exit")
  BY <1>8, RunUntilIdleResumes
<1> QED
  BY <1>1, <1>2, <1>3, <1>4, <1>5, <1>6, <1>7, <1>8, ScheduleResumptionResumes,
     ReadForAppendResumes, WriteAppendedResumes DEF Thread

LEMMA ResumeNext == ResumeInv /\ [Next]_vars => ResumeInv'
<1> SUFFICES ASSUME ResumeInv, [Next]_vars PROVE ResumeInv'
  OBVIOUS
<1>1. CASE Script
  BY <1>1, FetchResumes, AwaitInBodyResumes, ThreadResumes DEF Script
<1>2. CASE Thread
  BY <1>2, ThreadResumes
<1>3. ASSUME NEW p \in Ops, Goroutine(p) PROVE ResumeInv'
  BY <1>3, SetStateResumes, SetResultResumes, ReadReactionsResumes, ClearReactionsResumes,
     ScheduleMicrotaskResumes, EndExternalOpResumes DEF Goroutine
<1>4. CASE UNCHANGED vars
  BY <1>4, QuietResumes DEF vars, rt, hist
<1> QED
  BY <1>1, <1>2, <1>3, <1>4 DEF Next

(* However the VM thread and the goroutines interleave on the reaction     *)
(* lists, which no lock protects, an async body is resumed at most once,   *)
(* and only after its promise has settled (promise.go:175, vm.go:13976).   *)
THEOREM BodiesResumeOnce == Spec => []ResumedOnceSettled
<1>1. ResumeInv => ResumedOnceSettled
  BY DEF ResumeInv, BodyOK, OneEach, AfterState, ResumedOnceSettled
<1> QED
  BY <1>1, ResumeInit, ResumeNext, PTL DEF Spec

-----------------------------------------------------------------------------
(* Fetch: signals and pollers change nothing of what external operations   *)
(* promise, so that what is proved of the count holds of it, for any set   *)
(* of fetches and of signals.                                              *)

(* Both goroutines of a fetch, step by step.                               *)
LEMMA RequestsAreOperations ==
  ASSUME NEW p \in Ops, Request(p) \/ Answered(p) \/ Poller(p)
  PROVE  Goroutine(p) \/ UNCHANGED vars
<1>1. CASE Settles(p)
  BY <1>1 DEF Settles
<1>2. CASE CheckSignal(p) \/ Refuse(p) \/ Answered(p) \/ Interrupted(p) \/ Classify(p) \/ ReadReason(p)
  BY <1>2 DEF CheckSignal, Refuse, Answered, Interrupted, Classify, ReadReason, Steps
<1>3. CASE CancelContext(p)
  BY <1>3 DEF CancelContext
<1>4. CASE Poller(p)
  BY <1>4 DEF Poller, Poll, PollerEnds
<1> QED
  BY <1>1, <1>2, <1>3, <1>4 DEF Request

LEMMA StepIsExternal == [FetchNext]_fetchVars => [Next]_vars
<1> SUFFICES ASSUME [FetchNext]_fetchVars
             PROVE  [Next]_vars
  OBVIOUS
<1>1. CASE FetchScript
  BY <1>1 DEF FetchScript, SetAborted, RejectAtOnce, StartFetch, Script, Next
<1>2. CASE FetchThread
  BY <1>2 DEF FetchThread, SetReason, Next
<1>3. CASE \E p \in Ops : Request(p) \/ Answered(p) \/ Poller(p)
  BY <1>3, RequestsAreOperations DEF Next
<1>4. CASE UNCHANGED fetchVars
  BY <1>4 DEF fetchVars
<1>5. FetchNext \/ UNCHANGED fetchVars
  OBVIOUS
<1> QED
  BY <1>1, <1>2, <1>3, <1>4, <1>5 DEF FetchNext

(* fetch with a signal, its two goroutines included, does nothing that an  *)
(* external operation may not do (fetch_init.go).                          *)
THEOREM FetchIsExternal == FetchSpec => Spec
<1>1. FetchInit => Init
  BY DEF FetchInit
<1>2. [FetchNext]_fetchVars => [Next]_vars
  BY StepIsExternal
<1> QED
  BY <1>1, <1>2, PTL DEF FetchSpec, Spec

(* The count is exact also when fetches are rejected at once, refused by   *)
(* their own goroutine or aborted on the way.                              *)
COROLLARY FetchCountIsExact == FetchSpec => []PendingIsExact
  BY FetchIsExternal, PendingCountIsExact, PTL

(* Whoever waits for a fetch is woken, however the fetch ends.             *)
COROLLARY FetchWakesSleeper == FetchSpec => []SleeperIsWoken
  BY FetchIsExternal, SleeperHasWaker, PTL

(* Top-level await gives up only when no request is out.                   *)
COROLLARY FetchErrorOnlyWhenIdle == FetchSpec => []GivesUpWhenIdle
  BY FetchIsExternal, ErrorOnlyWhenIdle, PTL

(* A body that awaits a fetch is resumed once at most, also when the fetch *)
(* is aborted while it settles.                                            *)
COROLLARY FetchResumesOnce == FetchSpec => []ResumedOnceSettled
  BY FetchIsExternal, BodiesResumeOnce, PTL

-----------------------------------------------------------------------------
(* Parallel loading.                                                       *)

PoolType ==
    /\ worker \in [Workers -> {"none", "idle", "parsing", "sending", "stopped"}]
    /\ holding \in [Workers -> Names \cup {NoModule}]
    /\ \A w \in Workers : worker[w] \in {"parsing", "sending"} => holding[w] \in Names
    /\ jobQueue \in Seq(Names)
    /\ resultChan \in Seq(Names)
    /\ imports \in Seq(Names)
    /\ main = "submit" => job.path \in Names
    /\ activeJobs \in Int
    /\ program \in Programs

(* Submit counts a job after sending it: in between the count is short.    *)
Uncounted == IF main = "count" THEN 1 ELSE 0

PoolCount == activeJobs + Uncounted = Len(jobQueue) + Cardinality(Parsing)

(* Only Start makes workers, those of the pool, and no channel is closed   *)
(* before the call comes to Shutdown.                                      *)
ShutdownInv ==
    /\ \A w \in Workers : worker[w] = "none" <=> main = "start" \/ w \notin Pool[program]
    /\ jobsClosed => main \in {"wait", "done"}
    /\ resultsClosed => /\ main = "done"
                        /\ \A w \in Pool[program] : worker[w] = "stopped"

PoolInv == PoolType /\ PoolCount /\ ShutdownInv

-----------------------------------------------------------------------------
LEMMA PoolInitInv == ParallelInit => PoolInv
<1> HAVE ParallelInit
<1>1. PoolType
  BY DEF ParallelInit, PoolType
<1>2. Parsing = {}
  BY DEF ParallelInit, Parsing
<1>3. PoolCount
  BY <1>2, FS_EmptySet DEF ParallelInit, PoolCount, Uncounted
<1>4. ShutdownInv
  BY DEF ParallelInit, ShutdownInv
<1> QED
  BY <1>1, <1>3, <1>4 DEF PoolInv

LEMMA ParsingIsFinite == IsFiniteSet(Parsing) /\ Cardinality(Parsing) \in Nat
  BY FS_Subset, FS_CardinalityType, LoaderAssumption DEF Parsing

(* The steps of the caller that leave the pool alone.                      *)
CallerOnly ==
    \/ SubmitGivesUp
    \/ LoopGoesOn
    \/ LoopEnds
    \/ SelectTimesOut
    \/ HandleImport
    \/ ImportsDone
    \/ CheckInOrder
    \/ CloseJobs
    \/ ShutdownDone
    \/ ShutdownTimesOut

LEMMA StepCases ==
  ASSUME ParallelNext
  PROVE  \/ Start
         \/ Submit
         \/ CountJob
         \/ ReceiveResult
         \/ CallerOnly
         \/ \E w \in Workers : Worker(w)
         \/ Timeout
         \/ LoadAgain \/ ClearCache
  BY DEF ParallelNext, Main, CallerOnly

-----------------------------------------------------------------------------
LEMMA PoolTypeNext ==
  ASSUME PoolType, ParallelNext
  PROVE  PoolType'
<1> USE DEF PoolType, CallerGoes, Fails, contexts, queue, analyzer
<1>1. CASE Start
  BY <1>1, LoaderAssumption DEF Start, channels
<1>2. CASE Submit
  BY <1>2 DEF Submit, pool
<1>3. CASE CountJob
  BY <1>3 DEF CountJob, pool, channels
<1>4. CASE ReceiveResult
  <2>1. Head(resultChan) \in Names /\ resultChan' \in Seq(Names)
    BY <1>4 DEF ReceiveResult
  <2>2. imports' \in Seq(Names)
    <3>1. \/ imports' = <<>>
          \/ /\ program[Head(resultChan)] # SyntaxError
             /\ imports' = program[Head(resultChan)]
      BY <1>4 DEF ReceiveResult
    <3>2. program[Head(resultChan)] \in Seq(Names) \cup {SyntaxError}
      BY <2>1, LoaderAssumption
    <3>3. <<>> \in Seq(Names)
      OBVIOUS
    <3> QED
      BY <3>1, <3>2, <3>3
  <2>3. UNCHANGED <<worker, holding, jobQueue, activeJobs, program>> /\ main' = "imports"
    BY <1>4 DEF ReceiveResult, pool
  <2> QED
    BY <2>1, <2>2, <2>3
<1>5. CASE CallerOnly
  <2>1. CASE HandleImport
    <3>1. Head(imports) \in Names /\ imports' \in Seq(Names)
      BY <2>1 DEF HandleImport
    <3>2. Resolve[Head(imports)] \in Names \cup {NoModule}
      BY <3>1, LoaderAssumption
    <3>3. main' = "submit" => job'.path \in Names
      BY <2>1, <3>2 DEF HandleImport
    <3> QED
      BY <2>1, <3>1, <3>3 DEF HandleImport, pool, channels
  <2>2. CASE CallerOnly /\ ~HandleImport
    <3>1. /\ UNCHANGED <<worker, holding, jobQueue, resultChan, imports, job, activeJobs, program>>
          /\ main' # "submit"
      BY <2>2 DEF CallerOnly, SubmitGivesUp, LoopGoesOn, LoopEnds, SelectTimesOut, ImportsDone,
           CheckInOrder, CloseJobs, ShutdownDone, ShutdownTimesOut, pool, channels
    <3> QED
      BY <3>1
  <2> QED
    BY <1>5, <2>1, <2>2
<1>6. CASE \E w \in Workers : Worker(w)
  <2> PICK w \in Workers : Worker(w)
    BY <1>6
  <2> USE DEF caller
  <2>1. CASE TakeJob(w)
    BY <2>1 DEF TakeJob
  <2>2. CASE Parse(w)
    BY <2>2 DEF Parse, channels
  <2>3. CASE SendResult(w)
    BY <2>3 DEF SendResult
  <2>4. CASE Stop(w)
    BY <2>4 DEF Stop, channels
  <2> QED
    BY <2>1, <2>2, <2>3, <2>4 DEF Worker
<1>7. CASE Timeout \/ LoadAgain \/ ClearCache
  BY <1>7 DEF Timeout, LoadAgain, ClearCache, Disturb, caller, pool, channels
<1> QED
  BY StepCases, <1>1, <1>2, <1>3, <1>4, <1>5, <1>6, <1>7

LEMMA PoolCountNext ==
  ASSUME PoolType, PoolCount, ShutdownInv, ParallelNext
  PROVE  PoolCount'
<1> USE DEF CallerGoes, Fails
<1>q. jobQueue \in Seq(Names) /\ Len(jobQueue) \in Nat /\ activeJobs \in Int
  BY DEF PoolType
<1>p. Cardinality(Parsing) \in Nat /\ IsFiniteSet(Parsing)
  BY ParsingIsFinite
<1>0. ASSUME UNCHANGED <<worker, jobQueue, activeJobs>>, Uncounted' = Uncounted
      PROVE  PoolCount'
  BY <1>0 DEF PoolCount, Parsing
<1>1. CASE Start
  <2>1. Parsing = {}
    BY <1>1 DEF Start, ShutdownInv, Parsing
  <2>2. Parsing' = {}
    BY <1>1 DEF Start, Parsing
  <2>3. UNCHANGED <<jobQueue, activeJobs>> /\ Uncounted' = Uncounted
    BY <1>1 DEF Start, channels, Uncounted
  <2> QED
    BY <2>1, <2>2, <2>3 DEF PoolCount
<1>2. CASE Submit
  <2>1. Len(jobQueue') = Len(jobQueue) + 1
    BY <1>2, <1>q DEF Submit, PoolType
  <2>2. Parsing' = Parsing /\ activeJobs' = activeJobs
    BY <1>2 DEF Submit, Parsing, pool
  <2>3. Uncounted' = 1 /\ Uncounted = 0
    BY <1>2 DEF Submit, Uncounted
  <2> QED
    BY <2>1, <2>2, <2>3, <1>p, <1>q DEF PoolCount
<1>3. CASE CountJob
  <2>1. activeJobs' = activeJobs + 1 /\ jobQueue' = jobQueue /\ Parsing' = Parsing
    BY <1>3 DEF CountJob, Parsing, pool, channels
  <2>2. Uncounted' = 0 /\ Uncounted = 1
    BY <1>3 DEF CountJob, Uncounted
  <2> QED
    BY <2>1, <2>2, <1>p, <1>q DEF PoolCount
<1>4. CASE ReceiveResult
  BY <1>4, <1>0 DEF ReceiveResult, pool, Uncounted
<1>5. CASE CallerOnly
  BY <1>5, <1>0 DEF CallerOnly, SubmitGivesUp, LoopGoesOn, LoopEnds, SelectTimesOut, ImportsDone,
       HandleImport, CheckInOrder, CloseJobs, ShutdownDone, ShutdownTimesOut, pool, channels, Uncounted
<1>6. CASE \E w \in Workers : Worker(w)
  <2> PICK w \in Workers : Worker(w)
    BY <1>6
  <2> USE DEF caller
  <2>0. Uncounted' = Uncounted
    BY DEF Worker, TakeJob, Parse, SendResult, Stop, Uncounted
  <2>1. CASE TakeJob(w)
    <3>1. Len(jobQueue') = Len(jobQueue) - 1 /\ activeJobs' = activeJobs
      BY <2>1, <1>q DEF TakeJob
    <3>2. Parsing' = Parsing \cup {w} /\ w \notin Parsing
      BY <2>1 DEF TakeJob, Parsing, PoolType
    <3>3. Cardinality(Parsing') = Cardinality(Parsing) + 1
      BY <3>2, <1>p, FS_AddElement
    <3> QED
      BY <2>0, <3>1, <3>3, <1>p, <1>q DEF PoolCount, Uncounted
  <2>2. CASE Parse(w)
    <3>1. jobQueue' = jobQueue /\ activeJobs' = activeJobs - 1
      BY <2>2 DEF Parse, channels
    <3>2. Parsing' = Parsing \ {w} /\ w \in Parsing
      BY <2>2 DEF Parse, Parsing, PoolType
    <3>3. Cardinality(Parsing') = Cardinality(Parsing) - 1
      BY <3>2, <1>p, FS_RemoveElement
    <3> QED
      BY <2>0, <3>1, <3>3, <1>p, <1>q DEF PoolCount, Uncounted
  <2>3. CASE SendResult(w) \/ Stop(w)
    <3>1. UNCHANGED <<jobQueue, activeJobs>>
      BY <2>3 DEF SendResult, Stop, channels
    <3>2. Parsing' = Parsing
      BY <2>3 DEF SendResult, Stop, Parsing, PoolType
    <3> QED
      BY <2>0, <3>1, <3>2 DEF PoolCount
  <2> QED
    BY <2>1, <2>2, <2>3 DEF Worker
<1>7. CASE Timeout \/ LoadAgain \/ ClearCache
  BY <1>7, <1>0 DEF Timeout, LoadAgain, ClearCache, Disturb, caller, pool, channels, Uncounted
<1> QED
  BY StepCases, <1>1, <1>2, <1>3, <1>4, <1>5, <1>6, <1>7

LEMMA ShutdownNext ==
  ASSUME PoolType, ShutdownInv, ParallelNext
  PROVE  ShutdownInv'
<1> USE DEF ShutdownInv, CallerGoes, Fails
<1>0. Pool[program] \subseteq Workers /\ program' = program
  BY LoaderAssumption DEF PoolType, ParallelNext, Main, Start, Submit, CountJob, SubmitGivesUp, LoopGoesOn, LoopEnds,
       ReceiveResult, SelectTimesOut, HandleImport, ImportsDone, CloseJobs, ShutdownDone,
       CheckInOrder, ShutdownTimesOut, Worker, TakeJob, Parse, SendResult, Stop, Timeout,
       LoadAgain, ClearCache, Disturb
<1>1. CASE Start
  BY <1>0, <1>1 DEF Start, channels
<1>2. CASE Submit \/ CountJob \/ ReceiveResult
  BY <1>0, <1>2 DEF Submit, CountJob, ReceiveResult, pool, channels
<1>3. CASE CallerOnly
  BY <1>0, <1>3 DEF CallerOnly, SubmitGivesUp, LoopGoesOn, LoopEnds, SelectTimesOut, ImportsDone,
       HandleImport, CheckInOrder, CloseJobs, ShutdownDone, ShutdownTimesOut, pool, channels
<1>4. CASE \E w \in Workers : Worker(w)
  <2> PICK w \in Workers : Worker(w)
    BY <1>4
  <2>1. /\ worker[w] \notin {"none", "stopped"}
        /\ \E s \in {"idle", "parsing", "sending", "stopped"} : worker' = [worker EXCEPT ![w] = s]
        /\ UNCHANGED <<main, jobsClosed, resultsClosed>>
    BY DEF Worker, TakeJob, Parse, SendResult, Stop, caller, channels
  <2> QED
    BY <1>0, <2>1 DEF PoolType
<1>5. CASE Timeout \/ LoadAgain \/ ClearCache
  BY <1>0, <1>5 DEF Timeout, LoadAgain, ClearCache, Disturb, caller, pool, channels
<1> QED
  BY StepCases, <1>1, <1>2, <1>3, <1>4, <1>5

(* The inductive invariant of a load.                                      *)
THEOREM PoolInvariant == ParallelSpec => []PoolInv
<1>1. ParallelInit => PoolInv
  BY PoolInitInv
<1>2. PoolInv /\ [ParallelNext]_parallelVars => PoolInv'
  <2> SUFFICES ASSUME PoolInv, [ParallelNext]_parallelVars
               PROVE  PoolInv'
    OBVIOUS
  <2>1. CASE ParallelNext
    BY <2>1, PoolTypeNext, PoolCountNext, ShutdownNext DEF PoolInv
  <2>2. CASE UNCHANGED parallelVars
    BY <2>2 DEF parallelVars, caller, pool, channels, PoolInv, PoolType, PoolCount, Uncounted, Parsing, ShutdownInv
  <2> QED
    BY <2>1, <2>2
<1> QED
  BY <1>1, <1>2, PTL DEF ParallelSpec

(* Where the main loop looks at HasActiveJobs (loader.go:479) the count is *)
(* the number of jobs in the channel and in the workers' hands.            *)
THEOREM ActiveJobsAreCounted == ParallelSpec => []CountIsExact
<1>1. PoolInv => CountIsExact
  BY DEF PoolInv, PoolType, PoolCount, CountIsExact, Uncounted
<1> QED
  BY <1>1, PoolInvariant, PTL

(* Nobody ever sends on a closed channel, however Shutdown races with the  *)
(* workers (worker_pool.go:200).                                           *)
THEOREM ClosedChannelsAreLeft == ParallelSpec => []NoSendOnClosed
<1>1. PoolInv => NoSendOnClosed
  BY DEF PoolInv, ShutdownInv, NoSendOnClosed
<1> QED
  BY <1>1, PoolInvariant, PTL
=============================================================================
