------------------------------- MODULE Fetch -------------------------------
(***************************************************************************)
(* fetch with an AbortSignal (pkg/builtins: fetch_init.go,                 *)
(* abort_controller_init.go), on top of ExternalOps: what happens between  *)
(* the start of an operation's goroutine and the moment it settles the     *)
(* promise, and the second goroutine, which polls the signal.              *)
(*                                                                         *)
(* All fetches with a signal share one.  abort() sets two properties of it *)
(* one after the other; goroutines read them without a lock.  What the     *)
(* server says is left out.  A request without a signal is answered, or    *)
(* ends by the client's timeout; one with a signal need not be, so that    *)
(* the signal can be seen to end it.                                       *)
(***************************************************************************)
EXTENDS ExternalOps

CONSTANTS
    Signalled,    \* the fetches that are given the signal
    Reason,       \* the argument of abort()
    NoReason      \* the text used when there is none

ASSUME SignalledAssumption == Signalled \subseteq Ops

VARIABLES
    signal,       \* "open"; "marked" when aborted is set and reason is not; "aborted"
    request,      \* where each goroutine stands before it settles the promise
    cancelled,    \* whether its context is
    poller,       \* the second goroutine
    blamed,       \* whether the promise is rejected with an AbortError
    given         \* the reason a promise is rejected with

requests  == <<request, blamed, given>>
pollers   == <<cancelled, poller>>
fetchVars == <<vars, signal, requests, pollers>>

FetchInit ==
    /\ Init
    /\ signal = "open"
    /\ request = [p \in Ops |-> "none"]
    /\ cancelled = [p \in Ops |-> FALSE]
    /\ poller = [p \in Ops |-> "none"]
    /\ blamed = [p \in Ops |-> FALSE]
    /\ given = [p \in Ops |-> NoReason]

IsAborted == signal # "open"
GetReason == IF signal = "aborted" THEN Reason ELSE NoReason

-----------------------------------------------------------------------------
(* The VM thread.                                                          *)

(* abort(): the thread does nothing else before both are set.              *)
SetAborted ==
    /\ vm = "script"
    /\ signal = "open"
    /\ signal' = "marked"
    /\ UNCHANGED <<vars, requests, pollers>>

SetReason ==
    /\ signal = "marked"
    /\ signal' = "aborted"
    /\ UNCHANGED <<vars, requests, pollers>>

(* With a signal that is aborted the promise is rejected at once, and no   *)
(* operation begins.                                                       *)
RejectAtOnce(p) ==
    /\ vm = "script"
    /\ p \in Signalled
    /\ request[p] = "none"
    /\ signal = "aborted"
    /\ request' = [request EXCEPT ![p] = "refused"]
    /\ blamed' = [blamed EXCEPT ![p] = TRUE]
    /\ given' = [given EXCEPT ![p] = GetReason]
    /\ UNCHANGED <<vars, signal, pollers>>

StartFetch(p) ==
    /\ fetch(p)
    /\ request[p] = "none"
    /\ p \in Signalled => signal = "open"
    /\ request' = [request EXCEPT ![p] = IF p \in Signalled THEN "check" ELSE "sent"]
    /\ poller' = [poller EXCEPT ![p] = IF p \in Signalled THEN "polling" ELSE "none"]
    /\ UNCHANGED <<signal, cancelled, blamed, given>>

-----------------------------------------------------------------------------
(* The goroutine of the request: doFetchRequestWithContext and what is     *)
(* made of its error.                                                      *)

Steps(p, from, to) ==
    /\ request[p] = from
    /\ request' = [request EXCEPT ![p] = to]
    /\ UNCHANGED <<vars, signal, pollers>>

(* The signal is looked at once more ...                                   *)
CheckSignal(p) ==
    /\ Steps(p, "check", IF IsAborted THEN "refuse" ELSE "sent")
    /\ UNCHANGED <<blamed, given>>

(* ... and the reason is read after that.                                  *)
Refuse(p) ==
    /\ Steps(p, "refuse", "failed")
    /\ blamed' = [blamed EXCEPT ![p] = TRUE]
    /\ given' = [given EXCEPT ![p] = GetReason]

(* The request is answered, or fails; without a signal, which alone could  *)
(* have cancelled it, that makes no difference.                            *)
Answered(p) ==
    /\ \/ Steps(p, "sent", "settle")
       \/ p \in Signalled /\ Steps(p, "sent", "failed")
    /\ UNCHANGED <<blamed, given>>

(* It ends with an error when its context is cancelled.                    *)
Interrupted(p) ==
    /\ cancelled[p]
    /\ Steps(p, "sent", "failed")
    /\ UNCHANGED <<blamed, given>>

(* An error counts as an abort when the context is cancelled by then.      *)
Classify(p) ==
    /\ Steps(p, "failed", IF cancelled[p] THEN "reason" ELSE "settle")
    /\ UNCHANGED <<blamed, given>>

ReadReason(p) ==
    /\ Steps(p, "reason", "settle")
    /\ blamed' = [blamed EXCEPT ![p] = TRUE]
    /\ given' = [given EXCEPT ![p] = GetReason]

(* The promise is settled and the operation ends, as in ExternalOps.       *)
Settles(p) ==
    /\ request[p] = "settle"
    /\ Goroutine(p)
    /\ UNCHANGED <<signal, requests, pollers>>

(* Mutant: nobody cancels the context of a request that is over.           *)
LeaveContext(p) ==
    /\ p \in Signalled
    /\ goroutine[p] = "done"
    /\ request[p] = "settle"
    /\ request' = [request EXCEPT ![p] = "over"]
    /\ UNCHANGED <<vars, signal, pollers, blamed, given>>

(* The deferred cancel().                                                  *)
CancelContext(p) ==
    /\ p \in Signalled
    /\ goroutine[p] = "done"
    /\ request[p] = "settle"
    /\ request' = [request EXCEPT ![p] = "over"]
    /\ cancelled' = [cancelled EXCEPT ![p] = TRUE]
    /\ UNCHANGED <<vars, signal, poller, blamed, given>>

Request(p) ==
    \/ CheckSignal(p)
    \/ Refuse(p)
    \/ Interrupted(p)
    \/ Classify(p)
    \/ ReadReason(p)
    \/ Settles(p)
    \/ CancelContext(p)

-----------------------------------------------------------------------------
(* The goroutine that polls the signal.                                    *)

(* Mutant: the poller leaves it to others to cancel the request.           *)
PollOnly(p) ==
    /\ poller[p] = "polling"
    /\ IsAborted
    /\ poller' = [poller EXCEPT ![p] = "stopped"]
    /\ UNCHANGED <<vars, signal, requests, cancelled>>

(* A tick finds the signal aborted.                                        *)
Poll(p) ==
    /\ poller[p] = "polling"
    /\ IsAborted
    /\ poller' = [poller EXCEPT ![p] = "stopped"]
    /\ cancelled' = [cancelled EXCEPT ![p] = TRUE]
    /\ UNCHANGED <<vars, signal, requests>>

PollerEnds(p) ==
    /\ poller[p] = "polling"
    /\ cancelled[p]
    /\ poller' = [poller EXCEPT ![p] = "stopped"]
    /\ UNCHANGED <<vars, signal, requests, cancelled>>

Poller(p) == Poll(p) \/ PollerEnds(p)

-----------------------------------------------------------------------------
(* The script and the loop of top-level await go on as in ExternalOps.     *)
FetchThread ==
    \/ Thread /\ signal # "marked" /\ UNCHANGED <<signal, requests, pollers>>
    \/ SetReason

FetchScript ==
    \/ /\ signal # "marked"
       /\ \/ \E p \in Ops : AwaitInBody(p) \/ TopLevelAwait(p)
          \/ EndScript
       /\ UNCHANGED <<signal, requests, pollers>>
    \/ SetAborted
    \/ \E p \in Ops : signal # "marked" /\ (RejectAtOnce(p) \/ StartFetch(p))

FetchNext ==
    \/ FetchScript
    \/ FetchThread
    \/ \E p \in Ops : Request(p) \/ Answered(p) \/ Poller(p)

FetchSpec == FetchInit /\ [][FetchNext]_fetchVars

(* The goroutines and the VM thread are scheduled and the ticker ticks.    *)
FetchFairSpec ==
    /\ FetchSpec
    /\ WF_fetchVars(FetchThread)
    /\ \A p \in Ops : WF_fetchVars(Request(p)) /\ WF_fetchVars(Poller(p))
    /\ \A p \in Ops \ Signalled : WF_fetchVars(Answered(p))

-----------------------------------------------------------------------------
(* Properties.                                                             *)

(* An aborted fetch ends, though nobody answers it: one of the two tests,  *)
(* or a tick of the poller, takes notice.                                  *)
AbortEndsRequest ==
    \A p \in Signalled : (IsAborted /\ Active(p)) ~> settled[p]

(* No poller outlives its request.                                         *)
PollersStop == \A p \in Ops : goroutine[p] = "done" ~> poller[p] # "polling"

(* A top-level await ends, with a value or with an error, unless there is  *)
(* a request that nobody answers or aborts.                                *)
AwaitEnds ==
    (vm = "check") ~> \/ vm \in {"script", "error"}
                      \/ \E p \in Signalled : request[p] = "sent" /\ ~IsAborted

-----------------------------------------------------------------------------
(* What the code says of itself and does not do.                           *)

(* fetch_init.go rejects with "AbortError: " and the reason, which may not *)
(* be set yet when the goroutine reads it.                                 *)
AbortGivesReason == \A p \in Ops : blamed[p] => given[p] = Reason
=============================================================================
