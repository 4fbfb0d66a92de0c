------------------------------ MODULE Promises ------------------------------
(***************************************************************************)
(* Promises, async functions and the microtask queue of one VM thread:     *)
(* pkg/vm/promise.go, pkg/vm/async.go, OpAwait and the resumption of async *)
(* bodies in pkg/vm/vm.go, pkg/runtime/async.go and the prototype methods  *)
(* of pkg/builtins/promise_init.go.                                        *)
(*                                                                         *)
(* The user's program is any sequence of at most Fuel promise operations,  *)
(* made by the script, by reaction handlers and by async bodies.  The VM   *)
(* runs the script to its end and then drains the microtasks               *)
(* (driver.go), so jobs always start with an empty stack.  Values other    *)
(* than promises are opaque.                                               *)
(*                                                                         *)
(* A job that fails can leave vm.unwinding set.  The loop of vm.run looks  *)
(* at it below the switch, after most instructions, and then gives up.     *)
(* Calls, awaits and returns leave the switch without that check, so code  *)
(* that starts with one of them acts while an exception is left over.      *)
(***************************************************************************)
EXTENDS Integers, Sequences, FiniteSets

CONSTANTS
    NumPromises,  \* promises the program may create (a bound)
    Fuel,         \* promise operations the program may perform (a bound)
    Data,         \* plain values the program computes or throws
    Handlers,     \* what then is given: "call", "pass" (undefined), "none" (not callable)
    Undefined,    \* Result of a pending promise
    ErrText       \* NewString(err.Error()): the text of an error, no value

Promise == 1..NumPromises
Plain   == Data \cup {Undefined, ErrText}
Value   == Plain \cup Promise
Side    == {"fulfilled", "rejected"}

ASSUME ConstantsAssumption ==
    /\ NumPromises \in Nat /\ Fuel \in Nat
    /\ Plain \cap Promise = {}
    /\ Handlers \subseteq {"call", "pass", "none"}

VARIABLES
    mem,      \* the promises and the microtask queue
    made,     \* promises 1..made exist
    batch,    \* microtasks the current RunUntilIdle has still to run
    stack,    \* script, handler and async bodies being executed, innermost last
    frame,    \* async promises whose Frame holds a suspended body
    leak,     \* exception state left in the VM, see below
    exposed,  \* promises whose resolve and reject functions the program holds
    fuel,     \* operations left
    due,      \* history: how the program made each promise end
    got       \* history: outcome each continuation was last run with

vars == <<mem, made, batch, stack, frame, leak, exposed, fuel, due, got>>

(* What a failed job leaves in the VM while vm.unwinding stays set: Handed, *)
(* the exception was given to native code and currentException is Null;    *)
(* Holding(v), currentException still is v.                                *)
NoneLeft == [how |-> "none", val |-> Undefined]
Handed == [how |-> "handed", val |-> Undefined]
Holding(v) == [how |-> "held", val |-> v]
Leak == {NoneLeft, Handed} \cup {Holding(v) : v \in Value}

-----------------------------------------------------------------------------
(* The operations on promises, as functions of the memory m.               *)

Reaction(kind, to) == [kind |-> kind, to |-> to]

Job(r, side, val, src) ==
    [kind |-> r.kind, to |-> r.to, side |-> side, val |-> val, src |-> src]

ScheduleMicrotask(m, job) == [m EXCEPT !.microtasks = Append(@, job)]

(* Mutant: the loop variable is not captured, every microtask runs the last *)
(* reaction.                                                               *)
TriggerCapturingLast(m, p, side) ==
    LET l == m.reactions[side][p]
    IN  [m EXCEPT !.reactions[side][p] = <<>>,
                  !.microtasks = @ \o [i \in DOMAIN l |->
                                          Job(l[Len(l)], side, m.result[p], p)]]

(* One microtask per reaction of that side, in order, with the Result of   *)
(* the promise; the other side's list is left alone.                       *)
triggerPromiseReactions(m, p, side) ==
    [m EXCEPT !.reactions[side][p] = <<>>,
              !.microtasks = @ \o [i \in DOMAIN m.reactions[side][p] |->
                    Job(m.reactions[side][p][i], side, m.result[p], p)]]

Settle(m, p, side, val) ==
    IF m.state[p] # "pending" THEN m
    ELSE triggerPromiseReactions(
             [m EXCEPT !.state[p] = side, !.result[p] = val], p, side)

rejectPromise(m, p, reason) == Settle(m, p, "rejected", reason)

(* Mutant: a reaction added to a settled promise waits for ever.           *)
AddWithoutTrigger(m, p, side, r) ==
    [m EXCEPT !.reactions[side][p] = Append(@, r)]

addPromiseReaction(m, p, side, r) ==
    LET added == [m EXCEPT !.reactions[side][p] = Append(@, r)]
    IN  IF m.state[p] = side THEN triggerPromiseReactions(added, p, side)
        ELSE added

(* A promise adopts the outcome of the promise it is resolved with.        *)
resolvePromise(m, p, val) ==
    IF m.state[p] # "pending" THEN m
    ELSE IF val \notin Promise THEN Settle(m, p, "fulfilled", val)
    ELSE IF m.state[val] # "pending" THEN Settle(m, p, m.state[val], m.result[val])
    ELSE addPromiseReaction(
             addPromiseReaction(m, val, "fulfilled", Reaction("adopt", p)),
             val, "rejected", Reaction("adopt", p))

(* Resolve or reject, whichever side says.                                 *)
PassThrough(m, p, side, val) ==
    IF side = "fulfilled" THEN resolvePromise(m, p, val)
    ELSE rejectPromise(m, p, val)

(* Mutant: only a callable handler adds a reaction.                        *)
AddIfCallable(m, p, side, kind, to) ==
    IF kind # "call" THEN m
    ELSE addPromiseReaction(m, p, side, Reaction(kind, to))

(* A handler that is neither callable nor undefined adds no reaction.      *)
AddUnless(m, p, side, kind, to) ==
    IF kind = "none" THEN m
    ELSE addPromiseReaction(m, p, side, Reaction(kind, to))

-----------------------------------------------------------------------------
NoDue == [why |-> "nothing", side |-> "rejected", val |-> Undefined]
NoOutcome == [side |-> "pending", val |-> Undefined]

Script          == [kind |-> "script", to |-> 0, how |-> "first", val |-> Undefined]
Handler(q)      == [kind |-> "handler", to |-> q, how |-> "first", val |-> Undefined]
OnFinally(q, s, v) == [kind |-> "finally", to |-> q, how |-> s, val |-> v]
Body(q, how, v) == [kind |-> "body", to |-> q, how |-> how, val |-> v]

Init ==
    /\ mem = [state      |-> [p \in Promise |-> "pending"],
              result     |-> [p \in Promise |-> Undefined],
              reactions  |-> [s \in Side |-> [p \in Promise |-> <<>>]],
              microtasks |-> <<>>]
    /\ made = 0
    /\ batch = <<>>
    /\ stack = <<Script>>
    /\ frame = {}
    /\ leak = NoneLeft
    /\ exposed = {}
    /\ fuel = Fuel
    /\ due = [p \in Promise |-> NoDue]
    /\ got = [p \in Promise |-> NoOutcome]

Running == stack # <<>>
Top     == stack[Len(stack)]
Below   == SubSeq(stack, 1, Len(stack) - 1)

(* The promise of an async call is not known before the call returns.      *)
Known ==
    1..made \ {stack[i].to : i \in {k \in DOMAIN stack :
                   stack[k].kind = "body" /\ stack[k].how = "first"}}

Step  == Running /\ fuel > 0 /\ fuel' = fuel - 1
Fresh == made < NumPromises /\ made' = made + 1

-----------------------------------------------------------------------------
(* What running code may do with promises.  A native function that is      *)
(* called while an exception is left over acts as usual, but the VM drops  *)
(* its result; that the program knows the result all the same only adds    *)
(* behaviours.                                                             *)

(* new Promise(executor), the executor keeping resolve and reject.  With   *)
(* an exception left over the executor would not run.                      *)
New ==
    /\ Step /\ Fresh
    /\ leak = NoneLeft
    /\ exposed' = exposed \cup {made + 1}
    /\ UNCHANGED <<mem, batch, stack, frame, leak, due, got>>

(* The memory with a new promise that nothing is registered on, settled.   *)
WithSettled(side, v) ==
    [mem EXCEPT !.state[made + 1] = side, !.result[made + 1] = v]

(* Promise.resolve(v) of a plain value, and Promise.reject(v).             *)
NewSettled(side, v) ==
    /\ Step /\ Fresh
    /\ mem' = WithSettled(side, v)
    /\ UNCHANGED <<batch, stack, frame, leak, exposed, due, got>>

(* The resolve or the reject function of a promise.                        *)
CallResolver(p, side, v) ==
    /\ Step
    /\ p \in exposed
    /\ mem' = PassThrough(mem, p, side, v)
    /\ UNCHANGED <<made, batch, stack, frame, leak, exposed, due, got>>

(* p.then(onFulfilled, onRejected); catch passes undefined on one side.    *)
PromiseThen(p, onFulfilled, onRejected) ==
    /\ Step /\ Fresh
    /\ mem' = AddUnless(AddUnless(mem, p, "fulfilled", onFulfilled, made + 1),
                        p, "rejected", onRejected, made + 1)
    /\ UNCHANGED <<batch, stack, frame, leak, exposed, due, got>>

(* p.finally(f): the same wrapper is installed on both sides.              *)
Finally(p) == PromiseThen(p, "finally", "finally")

(* An async function runs in its caller up to its first await.             *)
executeAsyncFunction ==
    /\ Step /\ Fresh
    /\ leak = NoneLeft
    /\ stack' = Append(stack, Body(made + 1, "first", Undefined))
    /\ UNCHANGED <<mem, batch, frame, leak, exposed, due, got>>

(* Called while an exception is left over, an async function gives up at   *)
(* its first instruction: executeAsyncFunctionBody takes the exception for *)
(* its own and, if it is held, clears it.  One with an empty body returns. *)
(* (One that starts with a throw, a call or an await is left out.)         *)
AsyncCallLeftOver ==
    /\ Step /\ Fresh
    /\ leak # NoneLeft
    /\ \/ /\ leak = Handed
          /\ mem' = WithSettled("rejected", ErrText)
          /\ UNCHANGED leak
       \/ /\ leak # Handed
          /\ mem' = WithSettled("rejected", leak.val)
          /\ leak' = NoneLeft
       \/ /\ mem' = WithSettled("fulfilled", Undefined)
          /\ UNCHANGED leak
    /\ UNCHANGED <<batch, stack, frame, exposed, due, got>>

(* The memory after body q has awaited promise p.                          *)
AwaitOn(p, q) ==
    IF mem.state[p] # "pending"
    THEN ScheduleMicrotask(mem, Job(Reaction("await", q), mem.state[p], mem.result[p], p))
    ELSE [mem EXCEPT !.reactions["fulfilled"][p] = Append(@, Reaction("await", q)),
                     !.reactions["rejected"][p] = Append(@, Reaction("await", q))]

(* Mutant: the body is saved only when the promise is pending.             *)
OpAwaitSavingLate(p) ==
    /\ Step
    /\ Top.kind = "body"
    /\ mem' = AwaitOn(p, Top.to)
    /\ frame' = IF mem.state[p] = "pending" THEN frame \cup {Top.to} ELSE frame
    /\ stack' = Below
    /\ UNCHANGED <<made, batch, leak, exposed, due, got>>

(* await p suspends the body, whether or not p is settled.                 *)
OpAwait(p) ==
    /\ Step
    /\ Top.kind = "body"
    /\ mem' = AwaitOn(p, Top.to)
    /\ frame' = frame \cup {Top.to}
    /\ stack' = Below
    /\ UNCHANGED <<made, batch, leak, exposed, due, got>>

(* try { throw await p } catch {}: the throw directly after the await is   *)
(* caught, which clears the exception state.                               *)
ThrowAndCatch ==
    /\ Step
    /\ Top.kind = "body" /\ Top.how = "fulfilled"
    /\ leak # NoneLeft
    /\ leak' = NoneLeft
    /\ UNCHANGED <<mem, made, batch, stack, frame, exposed, due, got>>

-----------------------------------------------------------------------------
(* How running code ends.                                                  *)

EndScript ==
    /\ Running /\ Top.kind = "script"
    /\ stack' = Below
    /\ UNCHANGED <<mem, made, batch, frame, leak, exposed, fuel, due, got>>

HandlerReturns(v) ==
    /\ Running /\ Top.kind = "handler"
    /\ leak = NoneLeft
    /\ stack' = Below
    /\ mem' = resolvePromise(mem, Top.to, v)
    /\ UNCHANGED <<made, batch, frame, leak, exposed, fuel, due, got>>

(* The handler throws, or an exception that is held makes it give up;      *)
(* executeUserFunctionSafe hands the exception on in either case.          *)
HandlerThrows ==
    /\ Running /\ Top.kind = "handler"
    /\ stack' = Below
    /\ mem' = rejectPromise(mem, Top.to, ErrText)
    /\ leak' = Handed
    /\ UNCHANGED <<made, batch, frame, exposed, fuel, due, got>>

(* The finally wrapper ignores how onFinally ended and returns its own     *)
(* argument, which fulfils the chained promise.                            *)
FinallyEnds(throws) ==
    /\ Running /\ Top.kind = "finally"
    /\ stack' = Below
    /\ mem' = resolvePromise(mem, Top.to, Top.val)
    /\ leak' = IF throws \/ leak # NoneLeft THEN Handed ELSE NoneLeft
    /\ due' = [due EXCEPT ![Top.to] = [why |-> "finally", side |-> Top.how, val |-> Top.val]]
    /\ UNCHANGED <<made, batch, frame, exposed, fuel, got>>

(* Mutant: what an async function threw is stringified.                    *)
FirstRunEndsStringified(side, v) ==
    /\ mem' = PassThrough(mem, Top.to, side, IF side = "rejected" THEN ErrText ELSE v)
    /\ UNCHANGED <<frame, leak>>

(* A body that ends before its first await.                                *)
FirstRunEnds(side, v) ==
    /\ mem' = PassThrough(mem, Top.to, side, v)
    /\ UNCHANGED <<frame, leak>>

(* What a resumption that failed rejects the async promise with.           *)
FailureReason == IF Top.how = "rejected" THEN Top.val ELSE ErrText

(* A resumed body that ends with nothing left over.  A throw leaves the    *)
(* body saved and the exception in the VM.                                 *)
ResumedEnds(side, v) ==
    /\ leak = NoneLeft
    /\ \/ /\ side = "fulfilled"
          /\ mem' = resolvePromise(mem, Top.to, v)
          /\ frame' = frame \ {Top.to}
          /\ UNCHANGED leak
       \/ /\ side = "rejected"
          /\ mem' = rejectPromise(mem, Top.to, FailureReason)
          /\ leak' = Holding(v)
          /\ UNCHANGED frame

(* One that ends while an exception is left over.  OpReturn looks at       *)
(* vm.unwinding and fails; OpThrow unwinds every frame there is.           *)
ResumedEndsLeftOver(side, v) ==
    /\ leak # NoneLeft
    /\ mem' = rejectPromise(mem, Top.to, FailureReason)
    /\ frame' = frame \ {Top.to}
    /\ leak' = IF side = "rejected" THEN Holding(v) ELSE leak

Ended(how, side, v) ==
    due' = IF due[Top.to].why = "await" THEN due
           ELSE [due EXCEPT ![Top.to] = [why |-> how, side |-> side, val |-> v]]

BodyEnds(side, v) ==
    /\ Running /\ Top.kind = "body"
    /\ stack' = Below
    /\ \/ Top.how = "first" /\ FirstRunEnds(side, v)
       \/ Top.how # "first" /\ (ResumedEnds(side, v) \/ ResumedEndsLeftOver(side, v))
    /\ Ended(IF Top.how = "first" THEN "first"
             ELSE IF side = "fulfilled" THEN "return" ELSE "throw", side, v)
    /\ UNCHANGED <<made, batch, exposed, fuel, got>>

(* A resumed body reaches the check at the bottom of the loop with an      *)
(* exception left over: run() fails and the body stays saved.              *)
BodyGivesUp ==
    /\ Running /\ Top.kind = "body" /\ Top.how # "first"
    /\ leak # NoneLeft
    /\ stack' = Below
    /\ mem' = rejectPromise(mem, Top.to, FailureReason)
    /\ UNCHANGED <<made, batch, frame, leak, exposed, fuel, due, got>>

(* OpReturnUndefined, the end of every body without a return statement,    *)
(* does not look at vm.unwinding: directly after the await it succeeds.    *)
OpReturnUndefined ==
    /\ Running /\ Top.kind = "body" /\ Top.how # "first"
    /\ leak # NoneLeft
    /\ stack' = Below
    /\ mem' = resolvePromise(mem, Top.to, Undefined)
    /\ frame' = frame \ {Top.to}
    /\ Ended("return", "fulfilled", Undefined)
    /\ UNCHANGED <<made, batch, leak, exposed, fuel, got>>

-----------------------------------------------------------------------------
(* DrainMicrotasks and RunUntilIdle.                                       *)

TakeBatch ==
    /\ ~Running /\ batch = <<>> /\ mem.microtasks # <<>>
    /\ batch' = mem.microtasks
    /\ mem' = [mem EXCEPT !.microtasks = <<>>]
    /\ UNCHANGED <<made, stack, frame, leak, exposed, fuel, due, got>>

(* Mutant: the handler is run and its microtask kept.                      *)
StartJobAgain(kinds) ==
    /\ ~Running /\ batch # <<>> /\ batch[1].kind \in kinds
    /\ batch' = batch
    /\ got' = [got EXCEPT ![batch[1].to] = [side |-> batch[1].side, val |-> batch[1].val]]
    /\ UNCHANGED <<made, exposed, fuel>>

(* The next microtask of the batch starts.                                 *)
StartJob(kinds) ==
    /\ ~Running /\ batch # <<>> /\ batch[1].kind \in kinds
    /\ batch' = Tail(batch)
    /\ got' = [got EXCEPT ![batch[1].to] =
                   IF batch[1].kind = "adopt" THEN @
                   ELSE [side |-> batch[1].side, val |-> batch[1].val]]
    /\ UNCHANGED <<made, exposed, fuel>>

(* No handler, or a promise adopting another.                              *)
RunPassThrough ==
    /\ StartJob({"pass", "adopt"})
    /\ mem' = PassThrough(mem, batch[1].to, batch[1].side, batch[1].val)
    /\ UNCHANGED <<stack, frame, leak, due>>

(* executeUserFunctionSafe clears an exception that was handed on.         *)
RunHandler ==
    /\ StartJob({"call", "finally"})
    /\ stack' = <<IF batch[1].kind = "call" THEN Handler(batch[1].to)
                  ELSE OnFinally(batch[1].to, batch[1].side, batch[1].val)>>
    /\ leak' = IF leak = Handed THEN NoneLeft ELSE leak
    /\ UNCHANGED <<mem, frame, due>>

(* resumeAsyncFunction finds the suspended body, see ResumptionFindsBody.   *)
resumeAsyncFunction ==
    /\ StartJob({"await"})
    /\ batch[1].to \in frame /\ batch[1].side = "fulfilled"
    /\ stack' = <<Body(batch[1].to, "fulfilled", batch[1].val)>>
    /\ UNCHANGED <<mem, frame, leak, due>>

(* The exception is thrown at the await, and a handler of the body catches *)
(* it.                                                                     *)
ResumeCaught ==
    /\ StartJob({"await"})
    /\ batch[1].to \in frame /\ batch[1].side = "rejected"
    /\ stack' = <<Body(batch[1].to, "rejected", batch[1].val)>>
    /\ leak' = NoneLeft
    /\ UNCHANGED <<mem, frame, due>>

(* No handler covers the await.  The throw stops at the body's own frame,  *)
(* and run() executes the instruction after the await; if an exception was *)
(* left over it unwinds every frame instead, and the resumption fails.     *)
ResumeUncaught ==
    /\ StartJob({"await"})
    /\ batch[1].to \in frame /\ batch[1].side = "rejected"
    /\ leak' = Holding(batch[1].val)
    /\ \/ /\ leak = NoneLeft
          /\ stack' = <<Body(batch[1].to, "rejected", batch[1].val)>>
          /\ UNCHANGED mem
       \/ /\ leak # NoneLeft
          /\ mem' = rejectPromise(mem, batch[1].to, batch[1].val)
          /\ UNCHANGED stack
    /\ due' = [due EXCEPT ![batch[1].to] =
                   [why |-> "await", side |-> "rejected", val |-> batch[1].val]]
    /\ UNCHANGED frame

-----------------------------------------------------------------------------
UserValue == Data \cup Known

Operate ==
    \/ New
    \/ \E v \in Data : NewSettled("fulfilled", v)
    \/ \E v \in UserValue : NewSettled("rejected", v)
    \/ \E p \in Known, side \in Side, v \in UserValue : CallResolver(p, side, v)
    \/ \E p \in Known, f, r \in Handlers : PromiseThen(p, f, r)
    \/ \E p \in Known : Finally(p)
    \/ executeAsyncFunction
    \/ AsyncCallLeftOver
    \/ \E p \in Known : OpAwait(p)
    \/ ThrowAndCatch

End ==
    \/ EndScript
    \/ \E v \in UserValue : HandlerReturns(v)
    \/ HandlerThrows
    \/ \E throws \in BOOLEAN : FinallyEnds(throws)
    \/ \E side \in Side, v \in UserValue : BodyEnds(side, v)
    \/ BodyGivesUp
    \/ OpReturnUndefined

Drain ==
    \/ TakeBatch
    \/ RunPassThrough
    \/ RunHandler
    \/ resumeAsyncFunction
    \/ ResumeCaught
    \/ ResumeUncaught

Next == Operate \/ End \/ Drain

Spec == Init /\ [][Next]_vars

(* The VM thread goes on, and the code it runs returns.                    *)
FairSpec == Spec /\ WF_vars(End \/ Drain)

-----------------------------------------------------------------------------
(* Properties.                                                             *)

Jobs == batch \o mem.microtasks

(* Where reactions to outcomes of that side are kept.                      *)
Places(side) == UNION {{p} \X DOMAIN mem.reactions[side][p] : p \in Promise}

Registered(q, side) ==
    {w \in Places(side) : /\ mem.state[w[1]] = "pending"
                          /\ mem.reactions[side][w[1]][w[2]].to = q}

IsContinuation(r) == r.kind # "adopt"

Waiting(q, side) ==
    {w \in Registered(q, side) : IsContinuation(mem.reactions[side][w[1]][w[2]])}

Scheduled(q) == {i \in DOMAIN Jobs : Jobs[i].to = q /\ IsContinuation(Jobs[i])}

Executing(q) == {i \in DOMAIN stack : stack[i].to = q}

Reactions ==
    [kind : {"call", "pass", "finally", "adopt", "await"}, to : 1..made]

JobSet ==
    [kind : {"call", "pass", "finally", "adopt", "await"}, to : 1..made,
     side : Side, val : Value, src : 1..made]

(* Every variable has the type the code gives it.                          *)
TypeOK ==
    /\ made \in 0..NumPromises /\ fuel \in 0..Fuel
    /\ mem.state \in [Promise -> {"pending"} \cup Side]
    /\ mem.result \in [Promise -> Value]
    /\ \A s \in Side, p \in Promise :
          \A i \in DOMAIN mem.reactions[s][p] : mem.reactions[s][p][i] \in Reactions
    /\ \A i \in DOMAIN Jobs : Jobs[i] \in JobSet
    /\ exposed \subseteq 1..made /\ frame \subseteq 1..made
    /\ leak \in Leak

(* A settled promise has no reaction left that its outcome should have     *)
(* scheduled, whether the reaction came before or after it settled.        *)
NoStrandedReaction ==
    \A s \in Side, p \in Promise : mem.state[p] = s => mem.reactions[s][p] = <<>>

(* No promise is fulfilled with a promise: whatever path resolves it (a    *)
(* resolver, a handler's or a body's return, a pass-through, an adoption)  *)
(* waits for the inner promise.                                            *)
FulfilledWithPlain ==
    \A p \in Promise : mem.state[p] = "fulfilled" => mem.result[p] \in Plain

(* A scheduled reaction carries the outcome of the promise it was          *)
(* registered on.                                                          *)
JobsCarryOutcome ==
    \A i \in DOMAIN Jobs :
        Jobs[i].side = mem.state[Jobs[i].src] /\ Jobs[i].val = mem.result[Jobs[i].src]

(* The handlers of one then, and the rest of one async body, are in one    *)
(* place at a time: registered on one pending promise, scheduled once, or  *)
(* executing.  A body is never resumed twice.                              *)
SingleContinuation ==
    \A q \in Promise, s \in Side :
        Cardinality(Waiting(q, s)) + Cardinality(Scheduled(q))
            + Cardinality(Executing(q)) <= 1

(* Settling, registering and running keep all of these together.           *)
Inv ==
    /\ TypeOK
    /\ NoStrandedReaction
    /\ FulfilledWithPlain
    /\ JobsCarryOutcome
    /\ SingleContinuation

(* resumeAsyncFunction never meets an async function already completed.    *)
ResumptionFindsBody ==
    \A i \in DOMAIN Jobs : Jobs[i].kind = "await" => Jobs[i].to \in frame

(* A pending promise whose resolvers the program does not hold still has   *)
(* somebody who will settle it: an executing handler or body, a job, or    *)
(* reactions on both sides of a pending promise.                           *)
NoOrphan ==
    \A q \in 1..made \ exposed :
        mem.state[q] = "pending" =>
            \/ Executing(q) # {}
            \/ \E i \in DOMAIN Jobs : Jobs[i].to = q
            \/ \A s \in Side : Registered(q, s) # {}

IsDone(q) == due[q].side = "rejected" \/ due[q].val \in Plain

EndsAsDue(q) == mem.state[q] = due[q].side /\ mem.result[q] = due[q].val

(* An async function that ends before its first await settles its promise  *)
(* with what it returned or threw, the thrown value itself (async.go).     *)
FirstRunSettles ==
    \A q \in Promise : due[q].why = "first" /\ IsDone(q) => EndsAsDue(q)

(* Every scheduled reaction is run.                                        *)
ScheduledRuns == \A q \in Promise : (Scheduled(q) # {}) ~> (Scheduled(q) = {})

(* The outcomes that promises have, and what their continuations wait for. *)
Outcomes ==
    [p \in Promise |-> IF mem.state[p] = "pending" THEN NoOutcome
                       ELSE [side |-> mem.state[p], val |-> mem.result[p]]]

WaitsOn ==
    [q \in Promise |->
        {w[1] : w \in Waiting(q, "fulfilled") \cup Waiting(q, "rejected")}
        \cup {Jobs[i].src : i \in Scheduled(q)}]

(* Promises as their users see them.                                       *)
Contract == INSTANCE PromiseContract WITH
    Pending <- NoOutcome,
    Outcome <- [side : Side, val : Value],
    outcome <- Outcomes,
    waitsOn <- WaitsOn

(* The code keeps the contract of PromiseContract: continuations run once, *)
(* after the promise settles, with its outcome and on the right side.      *)
KeepsContract == Contract!Spec

-----------------------------------------------------------------------------
(* What the code says of itself and does not do.                           *)

(* vm.go:14007, 17651: a rejected await throws at the await, so a body     *)
(* that does not catch it has its promise rejected with the reason.        *)
UncaughtAwaitRejects ==
    \A q \in Promise : due[q].why = "await" /\ mem.state[q] # "pending" => EndsAsDue(q)

(* async.go: an async function rejects with the original exception value.  *)
ThrownValueReachesHandlers ==
    \A q \in Promise : due[q].why = "throw" /\ mem.state[q] # "pending" => EndsAsDue(q)

(* async.go: the exception state of a job does not leak into the next      *)
(* run(): a body that returns fulfils its promise.                         *)
ReturnFulfils ==
    \A q \in Promise : due[q].why = "return" /\ due[q].val \in Plain
        /\ mem.state[q] # "pending" => EndsAsDue(q)

(* promise_init.go: finally passes through the outcome of its promise.     *)
FinallyPassesThrough ==
    \A q \in Promise : due[q].why = "finally" /\ due[q].val \in Plain
        /\ mem.state[q] # "pending" => EndsAsDue(q)
=============================================================================
