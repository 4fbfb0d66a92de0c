------------------------ MODULE PromiseCombinators -------------------------
(***************************************************************************)
(* Promise.all, race, any and allSettled (pkg/builtins: promise_init.go).  *)
(*                                                                         *)
(* A call makes a promise whose executor hands each element of the         *)
(* iterable to C.resolve and then attaches two handlers, which share a     *)
(* counter and an array.  What C.resolve returns is a native promise,      *)
(* whose handlers run as microtasks in the order in which they were        *)
(* scheduled, or, for another C, an object whose then calls them when it   *)
(* likes, also while the executor runs.                                    *)
(*                                                                         *)
(* The iteration, which is over before the executor starts, the lookup of  *)
(* the species, and what a promise does that is resolved with another      *)
(* promise are left out.                                                   *)
(***************************************************************************)
EXTENDS Integers, Sequences, FiniteSets

CONSTANTS
    Kinds,        \* of "all", "race", "any" and "allSettled"
    MaxLength,    \* bound: elements of the iterable
    Thenables     \* which objects with a then of their own are considered besides: those that
                  \* call a handler again ("repeats") or whose then throws ("refuses")

ASSUME KindsAssumption == Kinds \subseteq {"all", "race", "any", "allSettled"}
ASSUME MaxLengthAssumption == MaxLength \in Nat
ASSUME ThenablesAssumption == Thenables \subseteq {"repeats", "refuses"}

Inputs   == 1..MaxLength
Outcomes == {"fulfilled", "rejected"}

VARIABLES
    kind,
    length,      \* elements
    native,      \* those that C.resolve makes native promises of
    settled,     \* the state of each of these promises; of the others, whether then is done
    executor,    \* "new", "attaching" or "done"
    attached,    \* elements that have their handlers
    reactions,   \* the microtasks: which handler of which element to run
    remaining,   \* the counter
    results,     \* the array; <<>> in a place that is not set
    promise,     \* the promise that was returned
    answers      \* history: the handlers that were called for the first time, in order, and
                 \* what failed

combinatorVars ==
    <<kind, length, native, settled, executor, attached, reactions, remaining, results, promise,
      answers>>

call == <<kind, length, native>>

Pending      == [state |-> "pending", value |-> <<>>]
Fulfilled(v) == [state |-> "fulfilled", value |-> v]
Rejected(v)  == [state |-> "rejected", value |-> v]

AggregateError == <<"AggregateError">>

(* No result is set.                                                       *)
NoResults == [i \in Inputs |-> <<>>]

CombinatorInit ==
    /\ kind \in Kinds
    /\ length \in 0..MaxLength
    /\ native \in SUBSET (1..length)
    /\ settled = [i \in Inputs |-> "pending"]
    /\ executor = "new"
    /\ attached = 0
    /\ reactions = <<>>
    /\ remaining = length
    /\ results = NoResults
    /\ promise = Pending
    /\ answers = <<>>

-----------------------------------------------------------------------------
(* The handlers.                                                           *)

(* A promise settles once.                                                 *)
Settle(outcome) == promise' = IF promise = Pending THEN outcome ELSE promise

(* Mutant: handlers do not have an index of their own.                     *)
CountShared(i, outcome, complete) ==
    /\ results' = [results EXCEPT ![attached] = <<i, outcome>>]
    /\ remaining' = remaining - 1
    /\ Settle(IF remaining' = 0 THEN complete ELSE Pending)

(* Mutant: the counter goes down only when a place is set again.           *)
CountLate(i, outcome, complete) ==
    /\ results' = [results EXCEPT ![i] = <<i, outcome>>]
    /\ remaining' = IF results[i] = <<>> THEN remaining ELSE remaining - 1
    /\ Settle(IF remaining' = 0 THEN complete ELSE Pending)

Count(i, outcome, complete) ==
    /\ results' = [results EXCEPT ![i] = <<i, outcome>>]
    /\ remaining' = remaining - 1
    /\ Settle(IF remaining' = 0 THEN complete ELSE Pending)

onFulfilled(i) ==
    \/ /\ kind \in {"all", "allSettled"}
       /\ Count(i, "fulfilled", Fulfilled(results'))
    \/ /\ kind \in {"race", "any"}
       /\ Settle(Fulfilled(<<i, "fulfilled">>))
       /\ UNCHANGED <<results, remaining>>

onRejected(i) ==
    \/ /\ kind \in {"all", "race"}
       /\ Settle(Rejected(<<i, "rejected">>))
       /\ UNCHANGED <<results, remaining>>
    \/ /\ kind = "any"
       /\ Count(i, "rejected", Rejected(AggregateError))
    \/ /\ kind = "allSettled"
       /\ Count(i, "rejected", Fulfilled(results'))

Handler(i, outcome) ==
    \/ outcome = "fulfilled" /\ onFulfilled(i)
    \/ outcome = "rejected" /\ onRejected(i)

-----------------------------------------------------------------------------
(* The executor.                                                           *)

(* An empty iterable is answered at once, but by race.                     *)
StartEmpty ==
    /\ executor = "new"
    /\ length = 0
    /\ executor' = "done"
    /\ Settle(CASE kind \in {"all", "allSettled"} -> Fulfilled(NoResults)
                [] kind = "any" -> Rejected(AggregateError)
                [] OTHER -> Pending)
    /\ UNCHANGED <<call, settled, attached, reactions, remaining, results, answers>>

Start ==
    /\ executor = "new"
    /\ length > 0
    /\ executor' = "attaching"
    /\ UNCHANGED <<call, settled, attached, reactions, remaining, results, promise, answers>>

(* C has no resolve, or C.resolve throws: the loop ends there.             *)
ResolveThrows ==
    /\ executor = "attaching"
    /\ executor' = "done"
    /\ Settle(Rejected(<<attached + 1, "thrown">>))
    /\ answers' = Append(answers, <<attached + 1, "thrown">>)
    /\ UNCHANGED <<call, settled, attached, reactions, remaining, results>>

(* invokeThen.  The error of a then that throws is dropped.                *)
Attach ==
    LET i == attached + 1
    IN  /\ executor = "attaching"
        /\ attached' = i
        /\ executor' = IF i = length THEN "done" ELSE "attaching"
        /\ reactions' = IF i \in native /\ settled[i] # "pending"
                        THEN Append(reactions, <<i, settled[i]>>)
                        ELSE reactions
        /\ \/ UNCHANGED <<settled, answers>>
           \/ /\ "refuses" \in Thenables
              /\ i \notin native
              /\ settled' = [settled EXCEPT ![i] = "thrown"]
              /\ answers' = Append(answers, <<i, "thrown">>)
        /\ UNCHANGED <<call, remaining, results, promise>>

-----------------------------------------------------------------------------
(* The elements.                                                           *)

(* An element settles.  A promise does so at any time, before it is given  *)
(* to the combinator too.                                                  *)
InputSettles(i, outcome) ==
    /\ i \in native
    /\ settled[i] = "pending"
    /\ settled' = [settled EXCEPT ![i] = outcome]
    /\ reactions' = IF i <= attached THEN Append(reactions, <<i, outcome>>) ELSE reactions
    /\ UNCHANGED <<call, executor, attached, remaining, results, promise, answers>>

(* An object that is no native promise calls a handler; bound: none calls  *)
(* one again when the counter has come to 0.                               *)
ThenableCalls(i, outcome) ==
    /\ i \in 1..attached \ native
    /\ settled[i] = "pending" \/ ("repeats" \in Thenables /\ remaining > 0)
    /\ Handler(i, outcome)
    /\ settled' = [settled EXCEPT ![i] = outcome]
    /\ answers' = IF settled[i] = "pending" THEN Append(answers, <<i, outcome>>) ELSE answers
    /\ UNCHANGED <<call, executor, attached, reactions>>

(* Microtasks run when the script that made the call has ended.            *)
RunReaction ==
    /\ executor = "done"
    /\ reactions # <<>>
    /\ Handler(Head(reactions)[1], Head(reactions)[2])
    /\ reactions' = Tail(reactions)
    /\ answers' = Append(answers, Head(reactions))
    /\ UNCHANGED <<call, settled, executor, attached>>

CombinatorNext ==
    \/ StartEmpty
    \/ Start
    \/ ResolveThrows
    \/ Attach
    \/ \E i \in Inputs, outcome \in Outcomes :
        InputSettles(i, outcome) \/ ThenableCalls(i, outcome)
    \/ RunReaction

CombinatorSpec == CombinatorInit /\ [][CombinatorNext]_combinatorVars

(* The executor is a loop of the interpreter, and microtasks run until     *)
(* there are none.  No element needs to settle.                            *)
FairCombinatorSpec ==
    /\ CombinatorSpec
    /\ WF_combinatorVars(StartEmpty \/ Start \/ ResolveThrows \/ Attach)
    /\ WF_combinatorVars(RunReaction)

-----------------------------------------------------------------------------
(* Properties.                                                             *)

(* The answers of which the first decides a call of kind k at once.        *)
Deciding(k) ==
    CASE k = "all"        -> {"rejected", "thrown"}
      [] k = "race"       -> {"fulfilled", "rejected", "thrown"}
      [] k = "any"        -> {"fulfilled", "thrown"}
      [] k = "allSettled" -> {"thrown"}

Deciders(k, a) == {p \in DOMAIN a : a[p][2] \in Deciding(k)}

(* The promise follows one answer.                                         *)
Winner(x) == IF x[2] = "fulfilled" THEN Fulfilled(x) ELSE Rejected(x)

LeastOf(P) == CHOOSE p \in P : \A q \in P : p <= q

(* The answers a, each in the place of its element.                        *)
PlacesOf(a) ==
    [i \in Inputs |-> IF \E p \in DOMAIN a : a[p][1] = i
                      THEN a[LeastOf({p \in DOMAIN a : a[p][1] = i})]
                      ELSE <<>>]

(* What the answers a, in their order, say about a call of kind k with n   *)
(* elements.                                                               *)
Verdict(k, n, a) ==
    IF Deciders(k, a) # {} THEN Winner(a[LeastOf(Deciders(k, a))])
    ELSE IF k # "race" /\ Len(a) = n
         THEN IF k = "any" THEN Rejected(AggregateError) ELSE Fulfilled(PlacesOf(a))
         ELSE Pending

(* The counter and the array come to what the answers amount to, whatever  *)
(* their order and however many come while the executor still runs: the    *)
(* promise is pending exactly as long as they leave it open, and settles   *)
(* with the value of the right element in the right place (onFulfilled and *)
(* onRejected of each combinator).                                         *)
AnswersDecide == executor # "new" => promise = Verdict(kind, length, answers)

(* Once every element has settled, the combinator does (remaining reaches  *)
(* 0).  race of nothing stays pending.                                     *)
CombinatorSettles ==
    (length > 0 /\ \A i \in 1..length : settled[i] # "pending") ~> promise # Pending
=============================================================================
