---------------------------- MODULE ExternalOps ----------------------------
(***************************************************************************)
(* External operations: fetch starts a goroutine that settles the promise  *)
(* while the VM thread awaits it (pkg/builtins/fetch_init.go, the external *)
(* operations of pkg/runtime/async.go, OpAwait in pkg/vm/vm.go).  The      *)
(* runtime's own fields are behind its mutex; the promise's fields are     *)
(* not, so every read and write of them is a step of its own.              *)
(*                                                                         *)
(* A promise is shown with the reaction list of the side it settles on.    *)
(***************************************************************************)
EXTENDS Integers, Sequences, FiniteSets

CONSTANTS
    Ops,          \* the fetch calls of the program, named by their promises
    Response,     \* what an operation settles its promise with
    Undefined,    \* Result of a promise before that
    NoOp

ASSUME OpsAssumption == IsFiniteSet(Ops)

ASSUME ResponseAssumption == Response # Undefined /\ NoOp \notin Ops

VARIABLES
    settled,          \* State # PromisePending, of each promise
    result,           \* Result
    reactions,        \* the bodies registered on the promise
    microtasks,       \* of the runtime: <<body, value>>
    pendingExternal,  \* of the runtime
    goroutine,        \* where each operation's goroutine stands
    taken,            \* reactions a goroutine has still to schedule
    vm,               \* where the VM thread stands
    awaiting,         \* the promise the VM thread is dealing with
    read,             \* the reaction list as OpAwait read it
    suspended,        \* async bodies waiting for a promise, one per promise
    resumed,          \* history: how often the bodies were resumed
    awaited           \* history: values top-level await returned

promise == <<settled, result, reactions>>
rt      == <<microtasks, pendingExternal>>
hist    == <<suspended, resumed, awaited>>
vars    == <<promise, rt, goroutine, taken, vm, awaiting, read, hist>>

Init ==
    /\ settled = [p \in Ops |-> FALSE]
    /\ result = [p \in Ops |-> Undefined]
    /\ reactions = [p \in Ops |-> <<>>]
    /\ microtasks = <<>>
    /\ pendingExternal = 0
    /\ goroutine = [p \in Ops |-> "none"]
    /\ taken = [p \in Ops |-> <<>>]
    /\ vm = "script"
    /\ awaiting = NoOp
    /\ read = <<>>
    /\ suspended = {}
    /\ resumed = [p \in Ops |-> 0]
    /\ awaited = [p \in Ops |-> {}]

-----------------------------------------------------------------------------
(* The goroutine of an operation.                                          *)

Goes(p, from, to) ==
    /\ goroutine[p] = from
    /\ goroutine' = [goroutine EXCEPT ![p] = to]
    /\ UNCHANGED <<awaiting, read, hist>>

(* resolvePromise finds the promise pending and sets State ...             *)
SetState(p) ==
    /\ Goes(p, "request", "state")
    /\ settled' = [settled EXCEPT ![p] = TRUE]
    /\ UNCHANGED <<result, reactions, rt, taken, vm>>

(* ... then Result ...                                                     *)
SetResult(p) ==
    /\ Goes(p, "state", "result")
    /\ result' = [result EXCEPT ![p] = Response]
    /\ UNCHANGED <<settled, reactions, rt, taken, vm>>

(* ... and triggers the reactions it reads,                                *)
ReadReactions(p) ==
    /\ Goes(p, "result", "read")
    /\ taken' = [taken EXCEPT ![p] = reactions[p]]
    /\ UNCHANGED <<promise, rt, vm>>

ClearReactions(p) ==
    /\ Goes(p, "read", "schedule")
    /\ reactions' = [reactions EXCEPT ![p] = <<>>]
    /\ UNCHANGED <<settled, result, rt, taken, vm>>

ScheduleMicrotask(p) ==
    /\ Goes(p, "schedule", "schedule")
    /\ taken[p] # <<>>
    /\ microtasks' = Append(microtasks, <<Head(taken[p]), result[p]>>)
    /\ taken' = [taken EXCEPT ![p] = Tail(@)]
    /\ UNCHANGED <<promise, pendingExternal, vm>>

(* Mutant: no signal to the waiter.                                        *)
EndSilently(p) ==
    /\ Goes(p, "schedule", "done")
    /\ taken[p] = <<>>
    /\ pendingExternal' = pendingExternal - 1
    /\ UNCHANGED <<promise, microtasks, taken, vm>>

(* Mutant: only the last operation to end is counted.                      *)
EndUncounted(p) ==
    /\ Goes(p, "schedule", "done")
    /\ taken[p] = <<>>
    /\ pendingExternal' = IF pendingExternal > 1 THEN pendingExternal ELSE 0
    /\ vm' = IF vm = "asleep" THEN "check" ELSE vm
    /\ UNCHANGED <<promise, microtasks, taken>>

(* The count goes down and every waiter is woken.                          *)
EndExternalOp(p) ==
    /\ Goes(p, "schedule", "done")
    /\ taken[p] = <<>>
    /\ pendingExternal' = pendingExternal - 1
    /\ vm' = IF vm = "asleep" THEN "check" ELSE vm
    /\ UNCHANGED <<promise, microtasks, taken>>

Goroutine(p) ==
    \/ SetState(p)
    \/ SetResult(p)
    \/ ReadReactions(p)
    \/ ClearReactions(p)
    \/ ScheduleMicrotask(p)
    \/ EndExternalOp(p)

-----------------------------------------------------------------------------
(* The VM thread.                                                          *)

VM(from, to) ==
    /\ vm = from
    /\ vm' = to
    /\ UNCHANGED taken

(* fetch counts the operation and starts its goroutine.                    *)
fetch(p) ==
    /\ VM("script", "script")
    /\ goroutine[p] = "none"
    /\ goroutine' = [goroutine EXCEPT ![p] = "request"]
    /\ pendingExternal' = pendingExternal + 1
    /\ UNCHANGED <<promise, microtasks, awaiting, read, hist>>

(* Mutant: every await schedules the resumption at once.                   *)
AwaitUnchecked(p) ==
    /\ vm = "script"
    /\ goroutine[p] # "none" /\ p \notin suspended
    /\ suspended' = suspended \cup {p}
    /\ vm' = "resume"
    /\ awaiting' = p
    /\ UNCHANGED <<promise, rt, goroutine, taken, read, resumed, awaited>>

(* An async function is called that awaits p: it suspends.                 *)
AwaitInBody(p) ==
    /\ vm = "script"
    /\ goroutine[p] # "none" /\ p \notin suspended
    /\ suspended' = suspended \cup {p}
    /\ vm' = IF settled[p] THEN "resume" ELSE "append"
    /\ awaiting' = p
    /\ UNCHANGED <<promise, rt, goroutine, taken, read, resumed, awaited>>

(* p is fulfilled: the resumption is scheduled with its Result.            *)
ScheduleResumption ==
    /\ VM("resume", "script")
    /\ microtasks' = Append(microtasks, <<awaiting, result[awaiting]>>)
    /\ UNCHANGED <<promise, pendingExternal, goroutine, awaiting, read, hist>>

(* p is pending: a reaction is appended to the list, read and written.     *)
ReadForAppend ==
    /\ VM("append", "write")
    /\ read' = reactions[awaiting]
    /\ UNCHANGED <<promise, rt, goroutine, awaiting, hist>>

WriteAppended ==
    /\ VM("write", "script")
    /\ reactions' = [reactions EXCEPT ![awaiting] = Append(read, awaiting)]
    /\ UNCHANGED <<settled, result, rt, goroutine, awaiting, read, hist>>

(* Top-level await.                                                        *)
TopLevelAwait(p) ==
    /\ VM("script", "check")
    /\ goroutine[p] # "none" /\ awaited[p] = {}
    /\ awaiting' = p
    /\ UNCHANGED <<promise, rt, goroutine, read, hist>>

CheckState ==
    /\ VM("check", IF settled[awaiting] THEN "value" ELSE "drain")
    /\ UNCHANGED <<promise, rt, goroutine, awaiting, read, hist>>

(* The resumptions of a body in the queue.                                 *)
Tasks(p) == {i \in DOMAIN microtasks : microtasks[i][1] = p}

(* RunUntilIdle takes the whole queue and runs it; false if it is empty.   *)
RunUntilIdle(from, again, idle) ==
    /\ VM(from, IF microtasks = <<>> THEN idle ELSE again)
    /\ microtasks' = <<>>
    /\ resumed' = [p \in Ops |-> resumed[p] + Cardinality(Tasks(p))]
    /\ UNCHANGED <<promise, pendingExternal, goroutine, awaiting, read, suspended, awaited>>

(* Mutant: the loop gives up without asking.                               *)
GiveUpAtOnce ==
    /\ VM("idle", "error")
    /\ UNCHANGED <<promise, rt, goroutine, awaiting, read, hist>>

HasPendingExternalOps ==
    /\ VM("idle", IF pendingExternal > 0 THEN "wait" ELSE "error")
    /\ UNCHANGED <<promise, rt, goroutine, awaiting, read, hist>>

(* Mutant: the waiter sleeps whatever is pending.                          *)
WaitUnchecked ==
    /\ VM("wait", "asleep")
    /\ UNCHANGED <<promise, rt, goroutine, awaiting, read, hist>>

(* The count is read again under the lock that Wait releases.              *)
WaitForExternalOp ==
    /\ VM("wait", IF pendingExternal > 0 THEN "asleep" ELSE "check")
    /\ UNCHANGED <<promise, rt, goroutine, awaiting, read, hist>>

TakeValue ==
    /\ VM("value", "script")
    /\ awaited' = [awaited EXCEPT ![awaiting] = @ \cup {result[awaiting]}]
    /\ UNCHANGED <<promise, rt, goroutine, awaiting, read, suspended, resumed>>

(* The script ends; the driver drains the microtasks and returns.          *)
EndScript ==
    /\ VM("script", "draining")
    /\ UNCHANGED <<promise, rt, goroutine, awaiting, read, hist>>

Thread ==
    \/ ScheduleResumption
    \/ ReadForAppend
    \/ WriteAppended
    \/ CheckState
    \/ RunUntilIdle("drain", "check", "idle")
    \/ HasPendingExternalOps
    \/ WaitForExternalOp
    \/ TakeValue
    \/ RunUntilIdle("draining", "draining", "exit")

Script ==
    \/ \E p \in Ops : fetch(p) \/ AwaitInBody(p) \/ TopLevelAwait(p)
    \/ EndScript

Next == Script \/ Thread \/ \E p \in Ops : Goroutine(p)

Spec == Init /\ [][Next]_vars

-----------------------------------------------------------------------------
(* Properties.                                                             *)

Active(p) == goroutine[p] \notin {"none", "done"}

(* The count is the number of operations that have begun and not ended.    *)
PendingIsExact == pendingExternal = Cardinality({p \in Ops : Active(p)})

(* The VM thread sleeps only while an operation is still to end, whose     *)
(* broadcast wakes it: Wait cannot miss the last one.                      *)
SleeperIsWoken == vm = "asleep" => \E p \in Ops : Active(p)

(* Top-level await gives up only when no operation is outstanding.         *)
GivesUpWhenIdle == vm = "error" => \A p \in Ops : ~Active(p)

(* A body is resumed only after its promise has settled, at most once.     *)
ResumedOnceSettled ==
    \A p \in Ops : resumed[p] # 0 => settled[p] /\ resumed[p] = 1

-----------------------------------------------------------------------------
(* What the code says of itself and does not do.                           *)

(* vm.go reports "promise remains pending" for a promise that is pending.  *)
ErrorMeansPending == vm = "error" => ~settled[awaiting]

(* vm.go: the promise has settled, return its result.                      *)
AwaitReturnsResult == \A p \in Ops : awaited[p] \subseteq {Response}

(* vm.go: handlers are attached for when the pending promise settles; once *)
(* the operation has ended they are scheduled.                             *)
SettledResumesBody ==
    \A p \in suspended :
        goroutine[p] = "done" /\ vm \notin {"resume", "append", "write"} =>
            resumed[p] # 0 \/ Tasks(p) # {}
=============================================================================
