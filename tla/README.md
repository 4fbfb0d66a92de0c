# Formal verification of paserati

paserati is a TypeScript/JavaScript runtime in Go: source text is parsed, type
checked, compiled to register bytecode and run by a virtual machine that keeps
promises, microtasks, modules and the object model itself.  This directory
holds TLA+ specifications of the parts in which the order of steps, or what
several owners share, decides about correctness; TLC configurations that check
them on small instances; and proofs, checked by TLAPS, of what they promise for
every size.

Contents: [the system](#the-system) · [the plan](#the-plan) ·
[the modules](#the-modules) · [the runs](#the-runs) ·
[what is proved](#what-is-proved) · [what the code does not do](#what-the-code-does-not-do) ·
[what is not modelled](#what-is-not-modelled) · [running it](#running-it)

Paths below are relative to the repository (`pkg/vm/vm.go`), as are the line
numbers; a file name alone is in `pkg/vm`, `pkg/compiler`, `pkg/modules`,
`pkg/builtins` or `docs`.  `PROJECT.json` lists components, runs, the source
lines of every definition, hazards, findings and theorems in a form tools can
read.

## The system

One VM runs on one goroutine.  The only other goroutines are those of external
operations (`fetch`), the abort pollers, the workers of the parallel module
loader and the conformance runner's timeouts.  Everything else that looks
concurrent (promises, async functions, generators, nested calls from native
code back into bytecode) is interleaved by the program on one thread and
through shared VM fields: the frame stack, the register stack, `unwinding` and
`currentException`, `pendingAction`, `completionStack`, `finallyDepth`,
`openUpvalues`, the context stack of modules.  Most hazards come from there: a
field written for one activity and read by the next.

| Component | State | Operations | Interacts with | Hard to get right | Correct when |
|---|---|---|---|---|---|
| Register allocator (`pkg/compiler/regalloc.go`) | next and highest register, free list, pins, captures | allocate one, one near a hint, a block; free; pin; capture; scope exit | expression and statement compiler; the VM sizes frames by `MaxRegs` | `Register` is a `uint8`; two separate searches for blocks; three ways to give a register back | no register in use is handed out; captured registers stay reserved; the frame covers every register |
| Promises and async functions (`pkg/vm/promise.go`, `async.go`, `OpAwait`) | state, result, reactions of each promise; microtasks; suspended frames; exception state of the VM | resolve, reject, then/catch/finally, await, resume, drain | interpreter frames and unwinding; runtime; driver | thenables adopted later; reactions added before, while and after settling; jobs that throw | settled once; every continuation once, later, with the right outcome; an async function's promise gets what the function did |
| Promise combinators (`promise_init.go`) | counter, array of results, the promise returned | all, race, any, allSettled | promises; thenables of other classes | handlers called while the executor still attaches, in any order, or again | the promise settles exactly as the elements' answers say |
| External operations (`pkg/runtime/async.go`, `fetch_init.go`, `abort_controller_init.go`) | `pendingExternal`, condition variable; promise fields without a lock; a signal's properties without a lock; contexts | begin, end, settle from a goroutine, wait, drain; abort, poll, cancel | promises; top-level await; network | promise fields and signals are read and written by several threads | the count is exact; no lost wake-up; no lost continuation; an aborted request ends |
| Exceptions, try and finally (`exceptions.go`, `compile_exception.go`, `vm.go`) | exception tables, `pendingAction`, `completionStack`, `finallyDepth` | throw, return, break, continue, end of finally | every call, native boundary, generators, iterator cleanup | what a finally block interrupts is kept in one place for the whole VM | every finally block left runs, and resumes what it interrupted |
| Call frames (`call.go`, `vm_init.go`, `vm.go`) | frame stack, sentinels, direct-call marks, register windows, activations of `run()` | call, return, tail call, throw, native call and callback | all of the above and below | native frames and bytecode frames alternate | what is popped is what was pushed; an exception reaches its handler, and no other |
| Generators (`vm.go`, `generator_init.go`) | state, saved frame, delegate | next, throw, return, yield, yield* | frames, exceptions, upvalues | five ways in, each with its own cleanup | one activation at a time; every way out leaves the caller's frames as they were |
| Closures and upvalues (`vm.go`, `function.go`) | open upvalues by register, a flag per frame | capture, close, read, write | frames, generators, tail calls | a register outlives, or is outlived by, its variable | closures of one variable see one value |
| Objects, shapes, inline caches (`object.go`, `cache.go`, `op_getprop.go`, `op_setprop.go`) | shapes with shared backing arrays and transitions; slots; cache entries per site | get, set, define, delete, freeze, seal, set prototype | every property access | layouts shared by objects and by shapes; caches validated by versions | an object's keys and attributes are its own; a cached access finds what an uncached one would |
| Maps, sets, iterators (`value.go`, `map_init.go`, `set_init.go`, `array_iterator.go`) | entries, slice of keys in order, tombstones, cursors | set, add, delete, clear, next, forEach | every loop over a collection | the collection changes under its cursors | keys are visited in the order of insertion, each once for each time it was added |
| Module loading (`pkg/modules`) | registry, parse queue, worker pool, dependency graph | load, parse, discover, order, type check | checker, resolver, driver | workers, full channels, cycles, failures | each module parsed once, all of them, dependencies checked first |
| Module execution, global heap (`vm.go`, `heap.go`) | executed and executing flags, context stack, saved frame | import, execute, export | loader, frames, driver | cycles, failing modules, re-entry | each module evaluated once and after its imports; the importing code goes on where it was |
| Lexer, parser, checker, code generation, built-ins, driver, tools | syntax trees, types, scopes | | | large, but sequential functions of their input | conformance suites |

## The plan

Modules in the order in which they are written, the most important behaviour
first.  Every component has an abstract statement of what it promises where one
exists, and its theorems in a module of its own.

1. **RegisterAllocator**, with `RegistersProofs`.  *Written and proved.*
2. **Promises**, refining **PromiseContract**; **ExternalOps**, which composes
   the promise with the goroutine and the runtime; **Fetch** on top of it, with
   signals and their pollers; **PromiseCombinators**; `PromisesProofs`,
   `ConcurrencyProofs`, `BuiltinsProofs`.  *Written; their safety proved.*
3. **TryRegions**, **Completions** (the abstract machine) and **TryFinally**,
   which implements it, with `TryFinallyProofs`.  *Written and proved, the
   refinement included.*
4. **OrdinaryObjects** (abstract), **Shapes**, and **InlineCaches** over Shapes,
   with `InlineCachesProofs`.  *Written and proved, the refinement included.*
5. **CallStack** (abstract) and **CallFrames**, with generators.  *Written and
   proved, in `RegistersProofs`, the refinement included.*  Left: `yield*`,
   `return()` through finally blocks, async generators.
6. **Upvalues** and `UpvaluesProofs`.  *Written and proved.*
7. **DependencyAnalyzer** and **ParallelLoader**; **ModuleLoader**,
   **ModuleEvaluation** (abstract) and **ModuleExecution**, with
   `ModuleExecutionProofs`.  *Written; the pool's count and channels, the order
   of loading, the way back to the importing code and the refinement of
   ModuleEvaluation proved.*  Left: the expiry and eviction of the registry.
8. **InsertionOrder** (abstract) and **Collections**.  *Written and proved.*
9. Pure algorithms on bounded inputs: assignability of recursive types, the
   merge of the benchmark ratchet.  *Not written.*

## The modules

Conventions.  Actions carry the names of the functions or opcodes they model.
A definition whose comment begins with "Mutant:" is not used by the
specification: it is a plausible wrong version of the definition below it, kept
so that every property can be seen to fail when the code is changed that way
(`PROJECT.json`, "mutants").  History variables, marked so, record what happened
and decide nothing.

Some modules have a constant `Patterns` (in PromiseCombinators it is called
`Thenables`; TryFinally has one constant for each): programs of a certain form for which the code does not keep the property
checked.  With the empty set those programs are left out and the property
holds; each pattern, added, gives a counterexample
([what the code does not do](#what-the-code-does-not-do)).  The guards that
leave them out are in the actions and name the pattern.

### RegisterAllocator, RegistersProofs

One function being compiled.  `nextReg`, `maxReg`, `freeRegs`, `pinnedRegs` and
`capturedRegs` are the fields of `RegisterAllocator` (`regalloc.go:20-40`);
`live` records which registers the compiler holds and `result` what the last
call returned.  One action per method: `Alloc`, `TryAllocForVariable`,
`AllocHinted`, `AllocContiguous`, `TryAllocContiguous`, `Free`, `Pin`,
`PinCapture`, `Reset`; `FreeScopeRegister` is what the compiler does with each
local at the end of a block (`compiler.go:1130-1140`).  The compiler may call
them in any order, but frees and pins only registers it holds, or frees again
what is free already.  `Register` is a `uint8`: `NumRegs` stands for 256 and
additions are taken modulo it.  A tail block that ends at the last register
makes `nextReg` zero; `wrapped` records it, and the invariants are stated up to
that point, because the code has no guard (see below).
The free list is searched for blocks in two ways, as in the code, both over
`SortedFree`: `TryAllocContiguous` compares each register with the first of the
block (`FreeBlocks`, `regalloc.go:233-247`), `MaxContiguousAvailable` compares
neighbours in one scan and counts (`RunLen`, `regalloc.go:310-327`).
`AvailabilityIsExact` says that the two agree.
`RegisterGroup`, used by tests only, is left out.

### Promises, PromiseContract, PromisesProofs

The user's program is any sequence of `Fuel` operations, made by the script, by
handlers and by async bodies: `New` (with resolvers kept), `NewSettled`,
`CallResolver`, `PromiseThen`, `Finally`, `executeAsyncFunction`, `OpAwait`,
`ThrowAndCatch`.  `stack` says who is running; `EndScript`, `HandlerReturns`,
`HandlerThrows`, `FinallyEnds` and `BodyEnds` end it, with everything the native
code around it then does to the chained promise.  `TakeBatch` is the outer loop
of `DrainMicrotasks` and `RunUntilIdle`; `RunPassThrough`, `RunHandler`,
`resumeAsyncFunction`, `ResumeCaught` and `ResumeUncaught` run one microtask.
The promise operations themselves (`resolvePromise`, `rejectPromise`,
`addPromiseReaction`, `triggerPromiseReactions`) are functions on `mem`, as one
step of a program may make several of them.

`leak` is what a failed job leaves in `unwinding` and `currentException`.  The
interpreter looks at `unwinding` at the bottom of its loop, which most
instructions reach (`vm.go:14985-14995`): a handler or a resumed body then gives
up (`HandlerThrows`, `BodyGivesUp`).  Calls, `OpAwait`, `OpThrow`, `OpReturn` and
`OpReturnUndefined` leave the switch before that check, so code that begins with
them acts: `OpReturn` has a check of its own (`ResumedEndsLeftOver`),
`OpReturnUndefined` has none, and a throw directly after the await may be caught
(`ThrowAndCatch`).  An async function called meanwhile gives up at its first
instruction (`AsyncCallLeftOver`); those that begin with a throw, a call or an
await are left out.  `due` records how the program ended each promise, so that it can be
compared with what the promise got.  Handlers are told apart only by being
callable, undefined, or neither.  Values other than promises are opaque:
thenables that are not promises are not modelled.

`PromiseContract` is what the users of promises rely on: one outcome, kept; a
continuation waits for at most one promise and runs once, after the promise has
its outcome and with that outcome.  `KeepsContract` is the refinement, with
`waitsOn` mapped to reactions on pending promises and scheduled microtasks.

### PromiseCombinators, BuiltinsProofs

One call of `Promise.all`, `race`, `any` or `allSettled`.  `native` says which
elements `C.resolve` turns into native promises, whose handlers come in
`reactions`, the microtasks; the others are objects whose `then` calls the
handlers when it likes, also while the executor still attaches
(`ThenableCalls`).  `onFulfilled` and `onRejected` are the closures of each
kind, on the shared counter `remaining` and the array `results`;
`ResolveThrows` ends the executor's loop.  `answers` is history: the order in
which the handlers were called, from which `Verdict` says what the promise
should be.  `Thenables`: `"repeats"`, a thenable calls a handler again;
`"refuses"`, its `then` throws.

### ExternalOps, Fetch, ConcurrencyProofs

Composes the promise fields, the runtime and two kinds of threads.  `fetch`
counts an operation and starts its goroutine; `SetState`, `SetResult`,
`ReadReactions`, `ClearReactions`, `ScheduleMicrotask` are the unlocked accesses
of `resolvePromise` in it, one step each, and `EndExternalOp` the decrement and
broadcast.  On the VM thread `AwaitInBody` is the branch of `OpAwait` for an
async function, which reads `State` once and then appends to a list it has read
(`ReadForAppend`, `WriteAppended`); `TopLevelAwait`, `CheckState`,
`RunUntilIdle`, `HasPendingExternalOps`, `WaitForExternalOp`, `TakeValue` are
the loop at `vm.go:13872-13900`.  The runtime's own methods are behind a mutex
and atomic.  Go promises nothing about racing accesses; the model gives them
the outcomes of sequentially consistent interleavings, the least of what can
happen.  Requests that fail (`rejectPromise`) take the same steps and are not
told apart.  `EndScript` drains and exits: bodies that still wait are abandoned,
as the driver does.

`Fetch` puts the rest of a `fetch` with an `AbortSignal` between the start of
the goroutine and its first step in ExternalOps (`request`): the second look at
the signal (`CheckSignal`, `Refuse`), the request (`Answered`, `Interrupted`
when its context is cancelled), what is made of an error (`Classify`,
`ReadReason`), and the deferred `cancel()` (`CancelContext`).  `Poll` and
`PollerEnds` are the goroutine that looks at the signal every 10 ms.
`SetAborted` and `SetReason` are the two assignments of `abort()`, between
which the VM thread does nothing else and the goroutines go on.  All fetches
with a signal share it.  `FetchSpec` implements `ExternalOps!Spec`, by a theorem.

### TryRegions, Completions, TryFinally, MCTryFinally, TryFinallyProofs

A frame is the sequence of loops and try statements the program counter is in,
outermost first (`TryRegions`); the handlers that cover a place follow from it
as the compiler lays out the exception table.  `Completions` is the promise:
the completion rules of the language over such frames.  `TryFinally` is the
machine: `throwException`, `handleFinallyBlock`, `ReturnThrough`,
`OpReturnFinally`, `OpReturn`, `OpHandlePending` with the VM-wide `pending`,
`completionStack` and `finallyDepth` (only ever asked whether it is positive,
and, while no native frame is involved, only ever set to 0 or counted up: the
one decrement, `vm.go:13278`, is for a pending return that ends a call made by
native code, which is not modelled).  The program is arbitrary: each step
enters a statement, ends one, calls, throws, returns or leaves a loop.  When
`finallyDepth` is 0 the bottom of the interpreter loop drops a pending return
at the next instruction (`vm.go:15062`); `OpReturn` includes that.

The refinement `KeepsCompletions` holds of most programs, not of all.  The
constants name the combinations that matter: `FinallyTries`, a try statement
inside a finally block, or in a function called from it; `TailCalls`,
`return f()` out of a try-finally; `DeepExits`, a break or continue that leaves
two try-finally statements at once; `AdjacentTries`, a call or `return;`
followed directly by a try statement (handlers are looked up with the address
after the instruction); `Overrides`, the ways in which a finally block may end
abruptly, given what it was run for.  Without them the machine is equal to
`Completions`; with each of them it is not, see below.
Native frames and generators are in CallFrames; the iterator-cleanup handlers of
for-of are left out.

### CallStack, CallFrames, RegistersProofs

All calls share `frames`; a native function that calls back, and a generator
that is resumed, run a new interpreter loop (`loops`, one for each activation
of `run()` on the Go stack) on top of a `Sentinel`.  Instructions of the top
frame are `Call`, `TailCall`, `Throw`, `Return`, `Yield`, `ScriptReturns`,
`CallNative` and the calls of generator methods; the native function in
progress may return, throw, call back or iterate.  `unwindException` is the
search for a handler, with the stop at a native boundary, `EndOfInstruction`
the test that ends a loop one instruction later, `NativeSucceeds` and
`NativeFails` what the loop below does with the outcome, and
`UserFunctionReturns` and `GeneratorReturns` the Go functions between two
loops.  `Return` is `OpReturn` or `OpReturnUndefined`, which give back different numbers
of registers and of which only the first looks for an exception.
`Natives` says what a native function does with an exception of its
callback; `base`, `alloc` and `size` are the register windows that `TailCall`
moves and `Return` gives back.

`CallStack` is what a script may rely on, natives left aside: calls return to
their callers, an exception goes to the innermost try block, a generator's body
is in one place.  `KeepsCallStack` maps the frames that are not about to be
unwound to it; `due` is history and says which frame is to catch the exception
in flight.  The patterns are programs in which it arrives elsewhere: an
exception that leaves two loops without a handler in between (`"nested"`), or
an instruction that follows directly upon a native call that failed, before the
loop has noticed (`"throw"`, `"yield"`; `"call"`, the call of a script function
or a tail call, as in `f(g())` with `g` native, which is made although `g` threw;
`"return"` in a generator; and `"resumed"` in a body that `throw()` resumed).  A
call of a native function or of a generator method in that place is left out.

### Upvalues, UpvaluesProofs

The register file with the windows of the active frames, the map of open
upvalues by register, and one flag per frame (`hasOwnUpvalues`) that says
whether anything has to be closed when its registers are given away.  `Declare`,
`Assign`, `Capture`, `SetUpvalue`, `NextIteration` (the copy of a loop variable)
are what a function does with its variables; `Call`, `Return`, `TailCall`,
`Unwind`, `StartGenerator`, `Yield` and `Resume` give its registers to somebody
else.  The variables themselves are history: `holds` says which variable is in
which register, `current` what was last assigned to it.  `VariablesAreShared`
says that a closure and the function that declares the variable read the same.
Patterns: a loop that comes back to the `let` in its body (`"redeclares"`), a
throw through (`"throws"`) or a yield from (`"yields"`) a function whose
variables are captured.

### OrdinaryObjects, Shapes, InlineCaches, MCInlineCaches, InlineCachesProofs

`Shapes` is the layout of plain objects: `arrays` are the backing arrays of
fields (cells and capacity), `shapes` the `Shape` records (`len` is the length
of the slice, `next` the transitions, and `version`, `childExtended`,
`ownedFields`), `objects` the `PlainObject`s with their slots.  `Extend` is
`extendFields`, which lets the first child of a shape write into the shape's own
array; `Overwrite` is `privatizeFields` followed by a write in place.  The
operations are `SetOwn`, `DefineOwnProperty`, `DefineAccessorProperty`,
`DeleteOwn`, `PreventExtensions`, `Freeze`, `Seal`, `SetPrototype`,
`DefineDataProperty`.  A slot holds, instead of a value, the key it was stored
under: a value found under the wrong key is then visible.

`InlineCaches` adds one access site and the paths of `opGetProp` and
`opSetProp` through it: hit, the guards of own and inherited entries, miss,
chain walk, update, the step to megamorphic.  The site is used for reads and
for writes of any key, like the site of a computed access; the sites of
`o.x` see fewer sequences.  Left out: symbol keys (a second transition table, the
same code), enumerability, `SetOwnNonEnumerable`, private names, dictionary
objects, the exotic kinds, the optional prototype cache.

`OrdinaryObjects` is what the program is promised about keys: each object has
its own list, in the order of insertion, whatever it shares (`KeepsKeys`).

### DependencyAnalyzer, ParallelLoader, MCParallelLoader, ConcurrencyProofs

`LoadModuleParallel`: the caller (`main`), the workers, the two buffered
channels, the pool's count, the two contexts, the parse queue and the
registry.  `Submit` and `CountJob` are two steps, as in `worker_pool.go:143-161`,
and so are taking a job, parsing it (which counts it as done) and sending its
result.  The timeout may strike at any step, and `Shutdown` may give up.
`Disturb` is what other goroutines with the same loader do meanwhile: another
parallel load, which replaces the parse queue, or `ClearCache`.
`DependencyAnalyzer` has the analyzer's tables, one step per method as each
holds the mutex, and Kahn's algorithm, whose starting order comes from a map
and is therefore any.  Specifiers and paths share one type in the code;
`alias`, in the instance, is a second name of a module, and `missing` resolves
to nothing.

### ModuleLoader, ModuleEvaluation, ModuleExecution, MCModuleExecution, ModuleExecutionProofs

`ModuleLoader` is `LoadModule` without the pool: `loads` is the Go stack of
loads in progress, `registry` the records, entered before a module's imports
are loaded and compiled after them.  `ModuleExecution` runs a program over it:
`OpEvalModule`, `OpDynamicImport`, `executeModule` with `contexts` (the saved
frame, count and path), `modules` (the flags and the cached exports and
namespace), the shared `heap`, `Call` and `Return` in a module, `OpThrow`, and
the end of a module with or without an error.  A frame is known by its owner.
`ModuleEvaluation` is the promise: a module is evaluated after what it imports,
or within its evaluation in a cycle, one at a time, once unless it failed.
Patterns: `import()` in a `"function"`, or a module that is to start when the
registers are `"exhausted"`.

### InsertionOrder, Collections, BuiltinsProofs

`order` is the slice of keys, `entries` the keys that have an entry,
`tombstones` the keys deleted since; `Set` buries a key's old place and
appends, `Delete` marks the key, `Clear` empties all.  A cursor is an index and
skips places that have no entry.  `InsertionOrder` is the promise, with the
order as a relation and, for each open cursor, the keys it has yet to visit;
the refinement reads both off the slice.  Pattern `"clears"`: the collection
is cleared while a cursor is under way.

## The runs

Twelve configurations; each answers one question.

| Run | Module, configuration | States | What it shows |
|---|---|---|---|
| `regalloc` | `RegisterAllocator.cfg` | 818k | over every sequence of calls: the proof's invariant `Inv`, captures stay reserved, the frame is large enough, hand-outs are fresh, and the two searches of the free list agree |
| `promises` | `Promises.cfg` | 210k | every program of five operations on three promises: `Inv`, resumptions find their body, nobody is orphaned, an async function's first run settles its promise as it ended, the contract is refined, and under fairness every scheduled reaction runs |
| `promises_uncaught_await` | Promises, `PromisesUncaughtAwait.cfg` | violation | a body that ends directly after a rejected await it does not catch fulfils its promise |
| `promise_combinators` | `PromiseCombinators.cfg` | 141k | up to four elements, promises and thenables in any mix: the promise is what the answers say, at every moment, and settles when all elements have |
| `external_ops` | Fetch, `Fetch.cfg` | 475k | two requests, one with a signal: the count is exact, the sleeper has a waker, giving up means idle, bodies resume once and only after settlement, every top-level await ends, an aborted request ends, no poller outlives its request |
| `try_finally` | MCTryFinally, `TryFinally.cfg` | 297k | programs without the combinations above: nothing is left over, what is pending is covered by `finallyDepth`, and the machine implements `Completions` |
| `call_frames` | `CallFrames.cfg` | 743k | seven steps of calls, tail calls, throws, native callbacks and one generator: every loop finds its frame again, windows are disjoint, and the frames implement `CallStack` |
| `upvalues` | `Upvalues.cfg` | 2.8m | three registers, two variables, two upvalues, a generator: a captured variable has one value |
| `inline_caches` | MCInlineCaches, `InlineCaches.cfg` | 348k | slots and fields agree and transitions append, cached reads and writes find the right slot, frozen objects stay frozen, and keys are refined |
| `parallel_loader` | MCParallelLoader, `ParallelLoader.cfg` | 300k | the count of active jobs is exact where it is read, nobody sends on a closed channel, the load returns and the workers stop |
| `module_execution` | MCModuleExecution, `ModuleExecution.cfg` | 815k | loads are in order, the importing code goes on in its own frames, and modules are evaluated as `ModuleEvaluation` says |
| `collections` | `Collections.cfg` | 1.1m | three keys, two cursors: `InsertionOrder` is implemented |

The type invariants of ParallelLoader, InlineCaches, CallFrames and
ModuleExecution are stated in the modules and are in no run; those of
RegisterAllocator and Promises are conjuncts of `Inv`.

### Bounds, and why they are enough

* `RegisterAllocator.cfg`: 5 registers instead of 256, locals below 3, blocks of
  up to 3.  Five suffices for a run of free registers between two that are in
  use, a tail too short for a block, a hint beyond `nextReg`, the last register,
  and overflow.  The theorems cover every size.
* `Promises.cfg`: three promises are the least with a chain that adopts
  (source, chained, inner); five operations allow all of create, chain, resolve,
  await and settle, in every order.  One datum is enough since values are only
  compared with what the promise was due.  Handlers that are not callable are
  left out: those strand the chained promise (`promise.go:276-290`), which
  `NoOrphan` would rightly report.
* `PromiseCombinators.cfg`: four elements, so that two are answered before and
  two after any given event; all four kinds.
* `Fetch.cfg`: two operations, so that one ends while the other keeps the
  VM asleep, and both may settle in one drain; one of them has the signal, so
  that a request that nobody answers runs beside one that is.
* `TryFinally.cfg`: three frames, so that an exception passes a frame with and
  one without a handler; four statements entered at a time, so that two nested
  try-finally statements can be in a loop with a try in a callee.  Programs with
  the combinations that are left out are covered by the theorem on
  `DepthCoversPending` alone; the other theorems are about programs of any size
  without them.
* `CallFrames.cfg`: seven frames hold two nested callbacks, or a callback in a
  generator, with their sentinels and one function above; seven steps reach a
  throw and its handler across both.  `Natives = {"propagates"}`: for what the
  others do see below.
* `Upvalues.cfg`: windows of one and two in three registers make registers of
  one function come back in another's window, of another size; two variables
  and two upvalues allow one register to hold two captured variables in turn.
  The theorem covers every size.
* `InlineCaches.cfg`: two objects (what one does to the other), three keys (a
  shape with two different children, and one more level), four shapes, three
  layout changes other than assignments, which are the only steps that break
  sharing, and sites of two entries instead of four, so that they become
  megamorphic.  Chains have length one: with two, `ReadsFindTheSlot` fails, see
  below.  Objects and keys start alike and are never told apart, so the symmetry
  is sound.
* `ParallelLoader.cfg`: a wide tree with one worker, a job buffer of two and a
  result buffer of one, so that both channels fill and the caller and the worker
  wait for each other; a chain over both names of a module; a cycle with a
  module that does not parse.  Two interfering calls, which may clear the queue
  twice.
* `ModuleExecution.cfg`: three modules and a data file give chains, diamonds
  and cycles of two and three; two frames, as only the first is overwritten by a
  module; four steps of code beside the imports that a module begins with.
* `Collections.cfg`: five places for three keys, so that a key can be deleted
  and added again twice under a cursor.  The slice never shrinks in the code
  either.  The theorem covers every size.

`CHECK_DEADLOCK FALSE` is in every configuration but `InlineCaches.cfg`: programs
end, and the allocator stops when it panics.

### Fairness

`Promises!FairSpec` assumes weak fairness of `End \/ Drain`: the interpreter
goes on, and the code it runs returns; no operation of the program is forced.
`DrainMicrotasks` gives up after 1000 rounds (`async_runtime.go:24`), which
programs of bounded fuel do not reach.  `PromiseCombinators!FairCombinatorSpec` assumes
the same of the executor's loop and of the microtasks; no element needs to
settle.

`Fetch!FetchFairSpec` assumes weak fairness of the VM thread and of each
goroutine separately, requests and pollers: Go's scheduler runs them and the
ticker ticks.  Requests without a signal are answered, or end by the client's
timeout of 30 seconds; of those with a signal it is not assumed, so that
`AbortEndsRequest` does not follow from the answer.  `AwaitEnds` excepts the wait
while such a request is out.

`ParallelLoader!Fairness` assumes weak fairness of the caller's next step, of each worker and of
the load's timer.  `ShutdownTimesOut` and the interfering calls are free to
happen or not.

## What is proved

The proofs assume the named assumptions of the modules (at least three
registers, a finite set of operations, and so on), nothing else unless it is
said here.

* **RegistersProofs**, of the register allocator, for every register width, threshold and block
  size.  `Inv` is inductive: types; `FreeListDistinct`; and until the counter
  wraps `FreeListUnused`, `InPlayBelowNext`, `MaxBelowNext`, `PinsAreLive`.  The
  freshness of hand-outs alone is not inductive: a register in use could be in
  the free list, or above `nextReg`.  Theorems: `InvHolds`,
  `NeverHandedOutTwice` (the action property `HandOutIsFresh`),
  `CapturesReserved`, `FrameIsLargeEnough`, `AvailabilityHolds` (the scan that
  measures the longest run of free registers and the search that takes a block
  agree).  For the last one `ScanCountsRuns` shows that the scan's counter is the
  longest stretch of neighbours that ends at a position (`RunLen` is recursive; by
  the least position at which the two would differ), and `BlocksAreRuns` that a
  stretch of neighbours is what the other search compares with its first
  register.  All ways to
  allocate go through `ReuseKeepsInv` (registers taken from the free list) or
  `ExtendKeepsInv` (registers from `nextReg` upwards); the lemmas before them are
  about greatest and least elements and lists with an element removed.
* **RegistersProofs**, of call frames, for any generators, values and sizes of
  windows and any number of frames and steps, in the programs of `CallFrames.cfg`
  (`Plain`: native functions pass on the exception of their callback, and none
  of the patterns; with any of those TLC has a counterexample):
  `FramesAreFound` (`LoopsOwnFrames`), `WindowsAreDisjoint` and
  `FramesKeepCallStack` (the refinement `KeepsCallStack`).  None of them is
  inductive.  `FramesInv` says how the loops and the frames fit together.
  `Lower`: a sentinel lies above the frame of each loop that waits, and nowhere
  else; above it the frame its loop was begun for; and between two loops that
  wait one frame is in a try block, so that an exception that has crossed one
  boundary is caught before it comes to the next.  `Shape`: a loop executes the
  top frame (`Runs`), or it is about to notice that an exception has passed it
  (`Stops`), or it has ended and left at most two frames to the native function
  below (`EndedWell`, `EndedBadly`).  `Owned`: each body that executes is run by
  one loop.  `DueOK`: the exception in flight is due at the innermost try block
  that is left.  The work is in what a throw leaves: `ThrownFrom` says it of the
  first time, `ThrownAgain` of the second, below the boundary; `FailsFirst` and
  `FailsAgain` say what the loop makes of it, `PushedIsGood`, `StaysIsGood` and
  `Answered` that loops are begun, go on and are answered as they should be, and
  each action is one or two of those.
  For the refinement, `Rank` counts the code frames below one and `Mirrors` says
  that a sequence is the calls among the first frames; it is then decided by its
  length and its elements (`MirrorsOne`), and so calls can be pushed
  (`CallsGrow`), cut (`CallsCut`) and left alone (`CallsAlike`) without looking
  at how `CallsOf` finds them.  A throw either arrives or is on its way:
  `LiveTop` is the handler already when the exception leaves (`RaiseMaps`), and
  stays it while loops end above (`UnwindsOn`) and the exception is thrown again
  below (`ThrownOnMaps`).  Every action is then one action of `CallStack` or a
  stutter (`Seen`): a call enters, a native call that fails raises, a loop that
  ends on the way stutters; a body that is unwound counts as completed at once
  and is marked so later (`LapsedBody`, `GivenUp`).
* **PromisesProofs**, for any number of promises and operations and any values:
  `PromisesAreSound` (the run's `Inv`), `ResumptionFindsBodyHolds`,
  `FirstRunSettlesHolds`, and, if `then` is given nothing but functions and
  undefined (`"none" \notin Handlers`), `NoOrphanHolds` and `ContractIsKept`, the
  refinement of PromiseContract.  None of them is inductive.  `IInv` says where
  a continuation can be: in at most one of the memory (reactions on one promise,
  one for each side, or one microtask), the batch and the stack
  (`OneContinuation`); whose frame is suspended (`AwaitsAreSuspended`); that what
  waits for one side of a promise waits for the other (`Symmetric`), so that
  settling never loses it; and that the promise of an async function in its
  first run is nobody else's (`FirstRunIsAlone`).  The memory is a record that a
  step rewrites as a whole, so the argument goes in two layers.  `Passes` says
  what resolving or rejecting a promise does to the memory (`SettlePasses`,
  `AdoptingPasses`), `Registers` what `then` and `await` do (`ThenRegisters`,
  `AwaitRegisters`), both without the rest of the machine; then each action is
  one of a few kinds (a pass, a registration, a start of a microtask, a new
  promise), and each kind keeps `IInv` (`PassKeepsInvariant`,
  `RegisterKeepsInvariant`, `StartKeepsInvariant`, `NewKeepsInvariant`) and the
  contract.
* **ConcurrencyProofs**, of the external operations, for every finite set of
  them.  `PendingCountIsExact` (`PendingIsExact`) is inductive with the types of
  the count and of the goroutines' places; an operation enters the set of running
  ones when the count goes up and leaves it when it goes down, and no other step
  changes either.  From `CountInv`, which also says where the VM thread is,
  follow `SleeperHasWaker` (the wait cannot miss the last broadcast) and
  `ErrorOnlyWhenIdle`.  `BodiesResumeOnce` (`ResumedOnceSettled`) needs
  `ResumeInv`: a continuation is in one place, registered, read by the goroutine
  or scheduled, and is scheduled only by the goroutine that has set the state;
  the unlocked list may lose one (see below) but not double it.  `FetchIsExternal`:
  every step of a fetch with a signal is a step of ExternalOps or leaves its
  variables alone, so these properties hold of `FetchSpec`, for any set of
  signals (`FetchWakesSleeper`, `FetchResumesOnce`).
* **ConcurrencyProofs**, of the parallel loader, for any number of workers, any
  buffers, any modules and any interference: `ActiveJobsAreCounted`, from an
  equation that holds at every step (the count, and one for a job sent and not
  yet counted, is the length of the channel and the number of workers that
  parse), and `ClosedChannelsAreLeft`, from where closing may happen
  (`ShutdownInv`).
* **TryFinallyProofs**, as far as programs run in bytecode frames.
  `PendingIsCovered`, for any combination of statements: `DepthCoversPending` is
  inductive by itself; the work is in the cases of `throwException` and of
  `OpHandlePending`.  And for stacks and nesting of any depth, in the programs
  that `KeptUpWith` describes (the combinations of `TryFinally.cfg`, all of which
  have counterexamples beyond): `NothingIsLeft` (`NothingLeftPending`),
  `BlocksResumeTheirOwn` (`FinallyResumes`) and `CompletionsAreKept`, the
  refinement of Completions.  They are one induction.  `IInv` adds to
  `DepthCoversPending` the form of the stack (`Good`) and `HoldsInterrupted`:
  what the machine keeps (the exception, the pending action with its value, the
  completion stack) is what the one finally block that runs has interrupted, and
  nothing when none runs.  The machine cuts the stack where the abstract rules
  walk it: `CutTo` and `CutPlus` say what a throw, a return and an exit leave of
  it, `ThrowGoes`, `ReturnGoes` and `FinallyEnds` what the machine does, and
  `ThrowCompletes`, `ReturnCompletes` and the like that the rules of Completions
  say the same.
* **InlineCachesProofs**, for any objects, keys, length of chains, size of sites
  and any number of shapes and of layout changes.  `ShapesStaySound`,
  `FastWritesAreOwn` (`WritesLandInOwnSlot`), `FrozenIsForever`
  (`FrozenStaysFrozen`), `LayoutsImplementObjects` (the refinement `KeepsKeys`),
  `CacheTypes`, and of reads two: `CachedReadsAreProperties`, with chains of any
  length a read that the cache answers comes from a slot that holds the key on
  an object of the chain; and `CachedReadsFindTheSlot` (`ReadsFindTheSlot`), from
  the object the language says, if `MaxDepth <= 1`; with longer chains that is
  not so, see below.  What makes shared arrays sound is in `ShapesInv`: fields
  fit in their array, which is no longer than its capacity (`FieldsFit`); no key
  twice (`FieldsInOrder`); and a transition leads to a shape that begins with the
  same keys (`TransitionsLead`).  `ObjectsInv` says that slots and fields agree,
  `SiteInv` that an entry's slot is where its shape has the key.  An operation
  either leaves the shapes' keys alone, or gives one object a shape with one more
  or one less (`KeepsShapes`, `GetsKey`, `LosesKey`: together `SoundStep`);
  that arrays written in place keep every other shape's keys, and every frozen
  cell, is `KeysStay` and `FrozenCellsStay`.
* **ModuleExecutionProofs**, for any program, any directory structure, and any
  depth of imports and calls.  `LoadingOrder` (`LoadOrder`), from `LoaderInv`: an
  activation of the loader and the record `"resolved"` of its module come and go
  together.  `EvaluationIsKept` (`KeepsEvaluation`), the refinement of
  ModuleEvaluation, with every pattern: `Chain` says that the modules marked as
  executing are those of the runs, one run each, and that of the imports a run
  has taken from its list each has been executed, is executed around it, or is
  what the run above was started for (`Served`), until it fails.  The last
  clause is what a module's end needs: its imports are done, or around it.
  `ControlIsReturned` (`ControlReturns`), with `Patterns = {}`, from `Framed`: a
  module is imported with one frame in use, so the frame saved is all there is.
* **UpvaluesProofs**, for every register file, every size of windows and any
  number of frames, generators, variables and closures, with `Patterns = {}`:
  `CapturedVariablesAreShared`.  The property speaks of values; what carries it
  is where variables live.  The invariant `IInv` adds: windows are disjoint and
  in order (`Layout`); an open upvalue points into the window of an active frame
  whose flag is set (`OpenUpvalues`, `FlagsCover`); a variable has one home, a
  register or a saved register of a suspended generator (`OneHome`); captures
  and registers agree with the history (`CapturesMatch`, `RegistersMatch`).
  Closing is the interesting step: the value moves from the register to the
  upvalue before the register is anybody else's.
* **BuiltinsProofs**, of collections, for any keys and any number of cursors,
  with `Patterns = {}`: `InsertionOrderIsKept`, the refinement.  `IInv` says that
  a key that has not been buried is at one place of the slice (`OnePlace`), that
  every entry has a place (`EveryPlace`) and that cursors are within the slice
  (`WithinOrder`); from it every operation on the slice is shown to be the
  operation of `InsertionOrder` on the order relation and on what is ahead of
  each cursor, or a stutter.
* **BuiltinsProofs**, of combinators, for any number of elements and any order
  of their answers, with `Thenables = {}`: `CombinatorsFollowAnswers`
  (`AnswersDecide`).  `CombinatorInv` counts: each element answers once
  (`OneAnswer`), what has answered is what was attached and has settled
  (`AnswersCome`), and `remaining` is the number of elements without the answer
  that counts, one more while the executor attaches (`CountsAnswers`).  That the
  counter is zero exactly when every place of the array is set is the pigeonhole
  (`Room`), and that the first decision stays is `DecisionStays`.

Every safety property, action property and refinement that a passing run checks
is proved.  Out of the prover's reach, and left to TLC: liveness
(`ScheduledRuns`, `AwaitEnds`, `AbortEndsRequest`, `PollersStop`, `LoadEnds`,
`WorkersStop`, `CombinatorSettles`), anything about `ENABLED`, and induction over
data, for instance over the length of a free list or a prototype chain.

## What the code does not do

One run expects a violation, `UncaughtAwaitRejects`.  When a rejected await is
caught by nothing in the body, the interpreter is run all the same
(`vm.go:17662`) and executes the instruction after the await.  Most instructions
then reach the check at the bottom of the loop (`vm.go:14985-14995`) or, like
`OpReturn`, make their own, and the promise is rejected as it should be.
`OpReturnUndefined` does neither (`vm.go:5497-5530`), and in a body whose last
statement is `await p;` it is the next instruction
(`compile_expression.go:3445-3451`, `emit.go:385-388`): the promise of
`async function f() { await Promise.reject(v) }` is fulfilled with `undefined`.
`PROJECT.json` has the finding with the lines that say otherwise.

The modules also state properties that the code's comments or documents claim,
or that a user would expect, and that fail, without a run of their own.  To see
a counterexample, name the property in the configuration given, instead of its
properties, with the change given.

| Property | Configuration and change | Code | Claim |
|---|---|---|---|
| `RegisterAllocator!MaxRegsIsFrameSize` | `RegisterAllocator.cfg` | `regalloc.go:279`: a block that ends at register 255 makes `nextReg`, and so `MaxRegs`, zero | `regalloc.go:383-384` |
| `Promises!ThrownValueReachesHandlers` | `Promises.cfg` | `vm.go:13939`: errors of resumed bodies become text | `async.go:38-39` |
| `Promises!FinallyPassesThrough` | `Promises.cfg` | `promise_init.go:134`: the wrapper fulfils the chained promise of a rejected one | `promise_init.go:127` |
| `Promises!ReturnFulfils` | `Promises.cfg` | `vm_init.go:1698`: a handler that throws leaves `unwinding` set; the next resumed body that returns is rejected | `async.go:194-198` |
| `PromiseCombinators!AnswersDecide` | `PromiseCombinators.cfg`, `Thenables = {"repeats"}` | `promise_init.go:349`: a handler called twice counts twice, so the promise settles before all elements have | |
| the same | `Thenables = {"refuses"}` | `promise_init.go:353`: the error of a `then` that throws is dropped | |
| `ExternalOps!ErrorMeansPending` | `Fetch.cfg` | `vm.go:13888`: the operation may settle the promise after the check and before the error | the error's own text |
| `ExternalOps!AwaitReturnsResult` | `Fetch.cfg` | `promise.go:159-160`: the state is set before the result | `vm.go:13893` |
| `ExternalOps!SettledResumesBody` | `Fetch.cfg` | `vm.go:13976`: `OpAwait` does not look at the state again after appending its reaction, so a continuation may be lost | `addPromiseReaction` does, `promise.go:231-237` |
| `Fetch!AbortGivesReason` | `Fetch.cfg` | `abort_controller_init.go:257-258`: `aborted` is set before `reason`, and a request that fails in between is rejected without it | `fetch_init.go:566-570` |
| `TryFinally!FinallyResumes` | `TryFinally.cfg`, `FinallyTries = TRUE` | `vm.go:13186`: the end of an inner finally block performs what the outer one interrupted | `finally-blocks-design.md:279` |
| `TryFinally!NothingLeftPending` | `TryFinally.cfg`, `TailCalls = TRUE` | `compile_expression.go:2353` | `docs/archived`, `tco_design.md:204` |
| `TryFinally!ReturnsLeave`, `ThrowsStayInRange` | `TryFinally.cfg`, `AdjacentTries = TRUE` | `exceptions.go:35`, `vm.go:5446` | `exception-handling-implementation-plan.md:459` |
| `TryFinally!NothingLeftPending` | `TryFinally.cfg`, `Overrides <- AnyOverride`: a throw overrides a return | `exceptions.go:82` | `finally-blocks-design.md:283` |
| the same | the same: a return overrides a break | `vm.go:13034` | `phase4a-return-in-finally-design.md:90` |
| `TryFinally!KeepsCompletions` | `TryFinally.cfg`, `DeepExits = TRUE` | `compile_statement.go:1400` | `finally_break_continue_design.md:5` |
| `CallFrames!LoopsOwnFrames` (`"nested"`), `KeepsCallStack` (the others) | `CallFrames.cfg`, any one pattern | `exceptions.go:187-195`, `vm.go:17006`, `vm.go:1253`, `vm.go:9482-9493` | |
| `CallFrames!LoopsOwnFrames` | `CallFrames.cfg`, `Natives = {"swallows"}` (the executor of `new Promise`, `promise.go:95`) or `{"clears"}` (the combinators) | `vm.go:9470`: the loop below keeps a frame that is gone | |
| `CallFrames!RegistersReclaimed` | `CallFrames.cfg` | the registers of unwound frames are not given back; `OpReturnUndefined` gives back another number than `OpReturn` (`vm.go:5471`, `5204`) | `exceptions.go:211-212` |
| `Upvalues!VariablesAreShared` | `Upvalues.cfg`, any one pattern | `vm.go:15119`: the entry of a register outlives its variable | |
| `InlineCaches!VersionTracksFields` | `InlineCaches.cfg` | `object.go:155`: a shape that was created with its own array and later lent it to a child still counts as its owner, so a change in place goes through to the child | `object.go:95`, `114-117` |
| `InlineCaches!ReadsSeeAccessors` | `InlineCaches.cfg` | the same, seen from a cached read | `object.go:95` |
| `InlineCaches!ReadsFindTheSlot` | `InlineCaches.cfg`, `MaxDepth = 2` | `op_getprop.go:362`: an inherited entry survives a change between its two ends | |
| `InlineCaches!ObjectsAreIndependent` | `InlineCaches.cfg` | `object.go:1329`: freezing one object makes the properties of every object of the same shape read-only | |
| `DependencyAnalyzer!DependenciesFirst` | `ParallelLoader.cfg` | `dependency_analyzer.go:312`: Kahn's algorithm starts from the modules nobody imports | `dependency_analyzer.go:293` |
| `ParallelLoader!LoadedIsComplete` | `ParallelLoader.cfg` | `parse_queue.go:76`: imports beyond a full queue are dropped | |
| `ParallelLoader!ImportCountsAreExact` | `ParallelLoader.cfg` | recorded once on submission and once more from the parse result | `dependency_analyzer.go:96` |
| `ModuleExecution!NamespaceIsComplete` | `ModuleExecution.cfg` | in a cycle the namespace is made, and kept, before the exports are collected | `vm.go:18172` |
| `ModuleExecution!OwnVariables` | `ModuleExecution.cfg` | a re-export in a cycle writes another module's variable; with `Export` constant, modules that export one name share its slot | `reexport-investigation.md:338` (a proposal) |
| `ModuleExecution!ControlReturns` | `ModuleExecution.cfg`, `Patterns = {"function"}` or `{"exhausted"}` | `vm.go:17917`: only the top frame is saved, and the module takes the first; `vm.go:17848`: a context is pushed and not popped | `executeModule`'s comment |
| `ModuleLoader!ImportsOwnFile` | `ModuleExecution.cfg`, `Target <- OtherDirectory` | `loader.go:107`: the registry is keyed by the specifier as written | `interfaces.go:35` |
| `Collections!KeepsInsertionOrder` | `Collections.cfg`, `Patterns = {"clears"}` | `value.go:2631`: a cursor under way skips keys added after `clear()` | `array_iterator.go:196-198` |

`ParallelLoader!NeverLoads` holds unless other goroutines interfere
(`Disturbances = {}`): nothing takes jobs out of the parse queue, so the load
ends by its timeout or with an error.

Seen while modelling or reading, and not stated in a module: an error thrown by a
`finally` callback is dropped (`promise_init.go:124`); a `then` handler that
is `null` leaves the chained promise pending for ever (`promise.go:276`);
`return f()` of a native function that fails, in a generator, pops the caller's
frame; a generator stays executing when a finally block throws during
`return()` (`vm.go:17396`); the delegate of `yield*` is set (`vm.go:13804`) and
not cleared; array iterators that are exhausted come back to life when the
array grows (`array_iterator.go:109`); `throw()` and `return()` of an async
generator do not resume its body; a fetch that is awaited at top level and ends
between the count's check and the wait, while another one is out, is noticed
only when that one ends; `AbortSignal.timeout` never aborts.

## What is not modelled

The components without modules are listed in `PROJECT.json` with their reasons.
Lexer, parser, checker and code generation are large functions from trees to
trees, and the built-in objects are functions that ECMAScript specifies one by
one: together they are most of the code, they keep no state between calls that
another activity could see, and the repository's conformance suites test them
against their specification.  What the models need of the compiler (handler
ranges, scope exit, loop exits) is in them.

Of the components that are modelled, what is left out is named in each module's
opening comment and in `PROJECT.json`: constructors, spread calls and proxies,
`yield*` and async generators (call frames); spilled variables, `with`, `eval`
(upvalues); symbol keys, enumerability, dictionary objects (shapes); native
modules and registry expiry (loading); `Promise.try` and species.

Hazards that are known and not in `PROJECT.json`'s list:

* promises: a handler that is not callable (`promise.go:276`), the drain that
  stops after 1000 rounds (`async_runtime.go:24`), errors of callbacks turned
  into values or dropped (`vm_init.go:1689`, `vm_init.go:1698`,
  `promise_init.go:124`, `promise_init.go:376`, `promise.go:95`), results read
  between the two assignments of a goroutine (`promise.go:159`), the drain and
  the wait in two steps (`async.go:74`), fetches still out when a script ends
  (`driver.go:1098`);
* frames: the limit compared after the sentinel is written (`vm.go:16890`),
  which handler `return()` picks (`vm.go:17363`), boundaries crossed without
  their registers (`exceptions.go:187`, `210`), the second throw of one value
  taken for a duplicate (`exceptions.go:52`), handlers looked up with the
  address after the instruction (`exceptions.go:35`), tail calls out of a
  direct call (`vm.go:3183`);
* objects: shapes frozen for all who share them (`object.go:1329`), accessors
  under symbol keys (`object.go:888`), keys of the prototype cache
  (`cache_prototype.go:49`), the step to megamorphic (`cache.go:155`), slots
  after a deletion (`object.go:410`), objects between the two ends of a cached
  inherited read (`op_getprop.go:353`);
* modules: failed modules that execute again (`vm.go:17820`), the namespace of a
  module in a cycle (`vm.go:18173`), names that share a slot of the heap
  (`heap_alloc.go:28`), the registry's key (`loader.go:107`) and its eviction
  before replacement (`registry.go:59`), the order of checking
  (`dependency_analyzer.go:312`), imports dropped by a full queue
  (`parse_queue.go:76`), a worker that counts a job as done before it sends the
  result (`worker_pool.go:256`);
* collections: tombstones by name (`value.go:2618`), `clear` under a cursor
  (`value.go:2631`);
* elsewhere: the table of pairs being compared, one for the process
  (`assignable.go:12`); a cancellation cleared by the clean-up of a timed-out
  conformance test (`cmd/paserati-test262/main.go:811`).

## Running it

    tlasany M.tla                              parses module M
    tlc -workers 2 -config X.cfg M             runs a configuration
    tlapm M.tla                                checks the proofs in M

The table of runs says which module a configuration belongs to where the names
differ.  With two workers `CallFrames.cfg`, `Fetch.cfg`, `InlineCaches.cfg` and
`Upvalues.cfg` take between one and two and a half minutes, the others less.
The proofs of a module take from one to ten minutes.
