--------------------------- MODULE ParallelLoader ---------------------------
(***************************************************************************)
(* LoadModuleParallel: the caller discovers modules and hands them to a    *)
(* pool of workers that parse them (pkg/modules/loader.go, worker_pool.go, *)
(* parse_queue.go), under a timeout, and shuts the pool down.              *)
(*                                                                         *)
(* Goroutines: the caller (the pool's only client) and the workers.  They  *)
(* share two buffered channels, the pool's count of active jobs and a      *)
(* context.  Meanwhile other goroutines may call methods of the same       *)
(* loader that touch the parse queue; each is one step here, as is the     *)
(* handling of one import up to the Submit it ends in.                     *)
(*                                                                         *)
(* Nobody sends on the pool's error channel and nobody takes jobs out of   *)
(* the parse queue: of its heap only the length is shown.                  *)
(***************************************************************************)
EXTENDS DependencyAnalyzer

CONSTANTS
    Workers,
    JobBuffer,      \* JobBufferSize: of the job channel and of the parse queue
    ResultBuffer,   \* ResultBufferSize
    Entry,          \* the specifier that is loaded
    Resolve,        \* specifier -> resolved path, or NoModule
    NoModule,
    Programs,       \* path -> the specifiers it imports, or SyntaxError
    Pool,           \* program -> the workers its loader is configured with
    SyntaxError,
    Disturbances,   \* what other goroutines call: subset of {"load", "clear"}
    MaxDisturbances

ASSUME LoaderAssumption ==
    /\ JobBuffer \in Nat \ {0} /\ ResultBuffer \in Nat \ {0}
    /\ IsFiniteSet(Workers)
    /\ Entry \in Names /\ NoModule \notin Names /\ SyntaxError \notin Seq(Names)
    /\ Resolve \in [Names -> Names \cup {NoModule}]
    /\ Programs \subseteq [Names -> Seq(Names) \cup {SyntaxError}]
    /\ Pool \in [Programs -> SUBSET Workers]

VARIABLES
    program,       \* the modules on disk
    main,          \* where the caller stands
    from,          \* the module whose imports the caller handles
    imports,       \* those that are left
    job,           \* the job being submitted: its path and specifier
    outcome,       \* what the call returns
    worker,        \* where each worker stands
    holding,       \* the job or the result a worker holds
    jobQueue,      \* the pool's channels
    jobsClosed,
    resultChan,
    resultsClosed,
    activeJobs,
    timedOut,      \* the caller's context is done
    poolCancelled, \* the pool's own context was cancelled
    queued,        \* the parse queue: length of its heap,
    inFlight,      \* the modules being processed,
    completed,     \* the modules with a result
    registry,      \* the modules with a record
    disturbed      \* how many calls of other goroutines there were

caller   == <<main, from, imports, job, outcome>>
channels == <<jobQueue, jobsClosed, resultChan, resultsClosed>>
contexts == <<timedOut, poolCancelled>>
queue    == <<queued, inFlight, completed>>
pool     == <<worker, holding>>

parallelVars ==
    <<analyzer, program, caller, pool, channels, activeJobs, contexts, queue, registry, disturbed>>

NoJob == [path |-> NoModule, spec |-> NoModule]

ParallelInit ==
    /\ AnalyzerInit
    /\ program \in Programs
    /\ main = "start" /\ from = NoModule /\ imports = <<>> /\ job = NoJob /\ outcome = "none"
    /\ worker = [w \in Workers |-> "none"] /\ holding = [w \in Workers |-> NoModule]
    /\ jobQueue = <<>> /\ jobsClosed = FALSE
    /\ resultChan = <<>> /\ resultsClosed = FALSE
    /\ activeJobs = 0
    /\ timedOut = FALSE /\ poolCancelled = FALSE
    /\ queued = 0 /\ inFlight = {} /\ completed = {}
    /\ registry = {}
    /\ disturbed = 0

(* The pool's context is derived from the caller's.                        *)
PoolDone == timedOut \/ poolCancelled

CallerGoes(at, to) == main = at /\ main' = to

Fails(at, how) == CallerGoes(at, "shutdown") /\ outcome' = how

-----------------------------------------------------------------------------
(* The caller: starting the pool and submitting jobs.                      *)

(* A new parse queue and the workers; the entry is queued and in flight.   *)
Start ==
    /\ worker' = [w \in Workers |-> IF w \in Pool[program] THEN "idle" ELSE "none"]
    /\ IF Resolve[Entry] = NoModule
       THEN /\ Fails("start", "error")
            /\ UNCHANGED <<job, queue, analyzer>>
       ELSE /\ CallerGoes("start", "submit")
            /\ job' = [path |-> Resolve[Entry], spec |-> NoModule]
            /\ MarkDiscovered(Resolve[Entry])
            /\ queued' = 1
            /\ inFlight' = {Resolve[Entry]}
            /\ UNCHANGED <<outcome, completed, parsed, depGraph, depCounts>>
    /\ UNCHANGED <<program, from, imports, holding, channels, activeJobs, contexts, registry, disturbed>>

(* Mutant: the job is counted before it is known to be sent.               *)
SubmitCounting ==
    /\ CallerGoes("submit", "count")
    /\ IF Len(jobQueue) < JobBuffer THEN jobQueue' = Append(jobQueue, job.path)
                                    ELSE PoolDone /\ UNCHANGED jobQueue
    /\ UNCHANGED <<analyzer, program, from, imports, job, outcome, pool, jobsClosed, resultChan,
                   resultsClosed, activeJobs, contexts, queue, registry, disturbed>>

(* Submit: the job goes into the channel ...                               *)
Submit ==
    /\ CallerGoes("submit", "count")
    /\ Len(jobQueue) < JobBuffer
    /\ jobQueue' = Append(jobQueue, job.path)
    /\ UNCHANGED <<analyzer, program, from, imports, job, outcome, pool, jobsClosed, resultChan,
                   resultsClosed, activeJobs, contexts, queue, registry, disturbed>>

(* ... and is counted.  Only then is the dependency recorded.              *)
CountJob ==
    /\ main = "count"
    /\ activeJobs' = activeJobs + 1
    /\ IF job.spec = NoModule THEN main' = "loop" /\ UNCHANGED analyzer
                              ELSE main' = "imports" /\ AddDependency(from, job.spec)
    /\ UNCHANGED <<program, from, imports, job, outcome, pool, channels, contexts, queue, registry,
                   disturbed>>

(* Mutant: Submit waits for room only.                                     *)
NeverGiveUp == FALSE /\ UNCHANGED parallelVars

(* Or the context is done first: the entry's error is the caller's, a      *)
(* dependency's is ignored.                                                *)
SubmitGivesUp ==
    /\ PoolDone
    /\ IF job.spec = NoModule THEN Fails("submit", "error")
                              ELSE CallerGoes("submit", "imports") /\ UNCHANGED outcome
    /\ UNCHANGED <<analyzer, program, from, imports, job, pool, channels, activeJobs, contexts, queue,
                   registry, disturbed>>

-----------------------------------------------------------------------------
(* The caller: the main loop.                                              *)

QueueIsEmpty == queued = 0 /\ inFlight = {}

HasActiveJobs == activeJobs > 0

LoopGoesOn ==
    /\ ~QueueIsEmpty \/ HasActiveJobs
    /\ CallerGoes("loop", "select")
    /\ UNCHANGED <<analyzer, program, from, imports, job, outcome, pool, channels, activeJobs, contexts,
                   queue, registry, disturbed>>

LoopEnds ==
    /\ QueueIsEmpty /\ ~HasActiveJobs
    /\ CallerGoes("loop", "order")
    /\ UNCHANGED <<analyzer, program, from, imports, job, outcome, pool, channels, activeJobs, contexts,
                   queue, registry, disturbed>>

(* processParseResult: the result is entered everywhere.                   *)
ReceiveResult ==
    /\ CallerGoes("select", "imports")
    /\ resultChan # <<>>
    /\ LET m  == Head(resultChan)
           ok == program[m] # SyntaxError
       IN  /\ from' = m
           /\ imports' = IF ok THEN program[m] ELSE <<>>
           /\ inFlight' = inFlight \ {m}
           /\ completed' = completed \cup {m}
           /\ registry' = registry \cup {m}
           /\ MarkParsed(m, ok, imports')
    /\ resultChan' = Tail(resultChan)
    /\ UNCHANGED <<program, job, outcome, pool, jobQueue, jobsClosed, resultsClosed, activeJobs,
                   contexts, queued, disturbed>>

SelectTimesOut ==
    /\ timedOut
    /\ Fails("select", "timeout")
    /\ UNCHANGED <<analyzer, program, from, imports, job, pool, channels, activeJobs, contexts, queue,
                   registry, disturbed>>

(* The queue is full: nothing ever leaves it, so a load enqueues no more   *)
(* than JobBuffer modules.                                                 *)
EnqueueFails(m) == m \notin inFlight /\ m \notin completed /\ queued >= JobBuffer

(* Enqueue does nothing for a module in flight or completed.               *)
Enqueue(m) ==
    queued' = IF m \in inFlight \/ m \in completed THEN queued ELSE queued + 1

(* One import: unless discovered before, it is marked, resolved, queued    *)
(* and submitted.  It is dropped when it does not resolve or the queue is  *)
(* full.                                                                   *)
HandleImport ==
    /\ main = "imports" /\ imports # <<>>
    /\ imports' = Tail(imports)
    /\ LET spec == Head(imports)
           path == Resolve[spec]
       IN  IF spec \in discovered
           THEN UNCHANGED <<main, job, queued, analyzer>>
           ELSE /\ MarkDiscovered(spec)
                /\ UNCHANGED <<parsed, depGraph, depCounts>>
                /\ IF path = NoModule \/ EnqueueFails(path)
                   THEN UNCHANGED <<main, job, queued>>
                   ELSE /\ main' = "submit"
                        /\ job' = [path |-> path, spec |-> spec]
                        /\ Enqueue(path)
    /\ UNCHANGED <<program, from, outcome, pool, channels, activeJobs, contexts, inFlight, completed,
                   registry, disturbed>>

ImportsDone ==
    /\ imports = <<>>
    /\ CallerGoes("imports", "loop")
    /\ UNCHANGED <<analyzer, program, from, imports, job, outcome, pool, channels, activeJobs, contexts,
                   queue, registry, disturbed>>

(* performDependencyOrderedTypeChecking.  The record that is returned is   *)
(* looked up by the specifier.                                             *)
CheckInOrder ==
    /\ Fails("order", IF Circular THEN "error"
                      ELSE IF Entry \in registry THEN "loaded" ELSE "nil")
    /\ UNCHANGED <<analyzer, program, from, imports, job, pool, channels, activeJobs, contexts, queue,
                   registry, disturbed>>

-----------------------------------------------------------------------------
(* The caller: Shutdown, deferred.                                         *)

CloseJobs ==
    /\ CallerGoes("shutdown", "wait")
    /\ jobsClosed' = TRUE
    /\ UNCHANGED <<analyzer, program, from, imports, job, outcome, pool, jobQueue, resultChan,
                   resultsClosed, activeJobs, contexts, queue, registry, disturbed>>

(* All workers have stopped: the result channel is closed, too.            *)
ShutdownDone ==
    /\ \A w \in Pool[program] : worker[w] = "stopped"
    /\ CallerGoes("wait", "done")
    /\ timedOut' = TRUE /\ poolCancelled' = TRUE
    /\ resultsClosed' = TRUE
    /\ UNCHANGED <<analyzer, program, from, imports, job, outcome, pool, jobQueue, jobsClosed,
                   resultChan, activeJobs, queue, registry, disturbed>>

(* Mutant: the result channel is closed in any case.                       *)
ShutdownClosing ==
    /\ CallerGoes("wait", "done")
    /\ timedOut' = TRUE /\ poolCancelled' = TRUE
    /\ resultsClosed' = TRUE
    /\ UNCHANGED <<analyzer, program, from, imports, job, outcome, pool, jobQueue, jobsClosed,
                   resultChan, activeJobs, queue, registry, disturbed>>

(* After 5 seconds Shutdown cancels the workers and leaves.                *)
ShutdownTimesOut ==
    /\ CallerGoes("wait", "done")
    /\ timedOut' = TRUE /\ poolCancelled' = TRUE
    /\ UNCHANGED <<analyzer, program, from, imports, job, outcome, pool, channels, activeJobs, queue,
                   registry, disturbed>>

Main ==
    \/ Start
    \/ Submit
    \/ CountJob
    \/ SubmitGivesUp
    \/ LoopGoesOn
    \/ LoopEnds
    \/ ReceiveResult
    \/ SelectTimesOut
    \/ HandleImport
    \/ ImportsDone
    \/ CloseJobs
    \/ ShutdownDone

-----------------------------------------------------------------------------
(* A worker.                                                               *)

TakeJob(w) ==
    /\ worker[w] = "idle"
    /\ jobQueue # <<>>
    /\ jobQueue' = Tail(jobQueue)
    /\ worker' = [worker EXCEPT ![w] = "parsing"]
    /\ holding' = [holding EXCEPT ![w] = Head(jobQueue)]
    /\ UNCHANGED <<analyzer, program, caller, jobsClosed, resultChan, resultsClosed, activeJobs,
                   contexts, queue, registry, disturbed>>

(* The job is no longer active, though its result is not sent yet.         *)
Parse(w) ==
    /\ worker[w] = "parsing"
    /\ worker' = [worker EXCEPT ![w] = "sending"]
    /\ activeJobs' = activeJobs - 1
    /\ UNCHANGED <<analyzer, program, caller, holding, channels, contexts, queue, registry, disturbed>>

SendResult(w) ==
    /\ worker[w] = "sending"
    /\ Len(resultChan) < ResultBuffer
    /\ resultChan' = Append(resultChan, holding[w])
    /\ worker' = [worker EXCEPT ![w] = "idle"]
    /\ holding' = [holding EXCEPT ![w] = NoModule]
    /\ UNCHANGED <<analyzer, program, caller, jobQueue, jobsClosed, resultsClosed, activeJobs, contexts,
                   queue, registry, disturbed>>

(* Mutant: a worker waits for room for its result.                         *)
StopIdle(w) ==
    /\ worker[w] = "idle" /\ ((jobsClosed /\ jobQueue = <<>>) \/ PoolDone)
    /\ worker' = [worker EXCEPT ![w] = "stopped"]
    /\ UNCHANGED <<analyzer, program, caller, holding, channels, activeJobs, contexts, queue, registry,
                   disturbed>>

(* A worker stops on the closed channel, and in both selects when the      *)
(* context is done; the result it holds is lost.                           *)
Stop(w) ==
    /\ \/ worker[w] = "idle" /\ ((jobsClosed /\ jobQueue = <<>>) \/ PoolDone)
       \/ worker[w] = "sending" /\ PoolDone
    /\ worker' = [worker EXCEPT ![w] = "stopped"]
    /\ UNCHANGED <<analyzer, program, caller, holding, channels, activeJobs, contexts, queue, registry,
                   disturbed>>

Worker(w) ==
    \/ TakeJob(w)
    \/ Parse(w)
    \/ SendResult(w)
    \/ Stop(w)

-----------------------------------------------------------------------------
(* Timers and other goroutines.                                            *)

(* ResolveTimeout has passed.                                              *)
Timeout ==
    /\ main \notin {"start", "done"} /\ ~timedOut
    /\ timedOut' = TRUE
    /\ UNCHANGED <<analyzer, program, caller, pool, channels, activeJobs, poolCancelled, queue, registry,
                   disturbed>>

Disturb(what) ==
    /\ what \in Disturbances
    /\ main \notin {"start", "done"}
    /\ disturbed < MaxDisturbances
    /\ disturbed' = disturbed + 1
    /\ queued' = 0 /\ inFlight' = {} /\ completed' = {}
    /\ UNCHANGED <<program, caller, pool, channels, activeJobs, contexts>>

(* Another LoadModuleParallel replaces the parse queue before it fails,    *)
(* the pool being started already.                                         *)
LoadAgain == Disturb("load") /\ UNCHANGED <<analyzer, registry>>

ClearCache == Disturb("clear") /\ ClearAnalyzer /\ registry' = {}

ParallelNext ==
    \/ Main
    \/ CheckInOrder
    \/ \E w \in Workers : Worker(w)
    \/ ShutdownTimesOut
    \/ Timeout
    \/ LoadAgain
    \/ ClearCache

ParallelSpec == ParallelInit /\ [][ParallelNext]_parallelVars

(* Goroutines are scheduled, and the 10-second timer goes off.  The second *)
(* conjunct is the fairness of CheckInOrder, the only step that leaves     *)
(* "order", told by where the caller stands and not by the order it finds. *)
Fairness ==
    /\ WF_parallelVars(Main)
    /\ WF_main(CallerGoes("order", "shutdown"))
    /\ \A w \in Workers : WF_parallelVars(Worker(w))
    /\ WF_parallelVars(Timeout)

FairParallelSpec == ParallelSpec /\ Fairness

-----------------------------------------------------------------------------
(* Properties.                                                             *)

TypeOK ==
    /\ discovered \subseteq Names /\ parsed \subseteq Names
    /\ depGraph \in [Names -> Seq(Names)] /\ depCounts \in [Names -> Nat]
    /\ from \in Names \cup {NoModule} /\ imports \in Seq(Names)
    /\ worker \in [Workers -> {"none", "idle", "parsing", "sending", "stopped"}]
    /\ holding \in [Workers -> Names \cup {NoModule}]
    /\ jobQueue \in Seq(Names) /\ Len(jobQueue) <= JobBuffer
    /\ resultChan \in Seq(Names) /\ Len(resultChan) <= ResultBuffer
    /\ queued \in 0..JobBuffer

Parsing == {w \in Workers : worker[w] = "parsing"}

(* When the main loop looks at HasActiveJobs (loader.go:479), the count is *)
(* the number of jobs in the channel and in the workers' hands, though     *)
(* Submit counts a job after sending it and a Submit may fail.             *)
CountIsExact ==
    main = "loop" => activeJobs = Len(jobQueue) + Cardinality(Parsing)

(* Nobody is about to send on a closed channel, which would be a panic:    *)
(* neither a worker a result (worker_pool.go:262) nor the caller a job.    *)
NoSendOnClosed ==
    /\ resultsClosed => \A w \in Workers : worker[w] \notin {"parsing", "sending"}
    /\ jobsClosed => main # "submit"

(* LoadModuleParallel returns, though the caller may block in Submit with  *)
(* the job channel full while every worker blocks on the result channel    *)
(* that the caller alone reads.                                            *)
LoadEnds == <>(main = "done")

(* The workers do not outlive the load by more than the job at hand, not   *)
(* even when nobody reads their results any more.                          *)
WorkersStop ==
    \A w \in Workers : main = "done" ~> worker[w] \in {"none", "stopped"}

(* Do not hold of the code: a load that returns a module has parsed every  *)
(* module it discovered; ...                                               *)
LoadedIsComplete == outcome = "loaded" => discovered \subseteq parsed

(* ... "GetImportCount returns how many times a module is imported"        *)
(* (dependency_analyzer.go:96), by the modules parsed.                     *)
ImportCountsAreExact ==
    LET Parsed        == {p \in parsed : program[p] # SyntaxError}
        Written(p, m) == Cardinality({i \in DOMAIN program[p] : program[p][i] = m})
    IN  \A m \in Names :
            depCounts[m] = MapThenSumSet(LAMBDA p : Written(p, m), Parsed)

(* Holds unless other goroutines interfere, and ought not to: the load     *)
(* ends by the timeout or with an error, never with a module.              *)
NeverLoads == outcome \notin {"loaded", "nil"}
=============================================================================
