------------------------- MODULE DependencyAnalyzer -------------------------
(***************************************************************************)
(* The dependency analyzer of the parallel module loader                   *)
(* (pkg/modules/dependency_analyzer.go): which modules were discovered,    *)
(* who imports whom and how often.  Every method holds the analyzer's      *)
(* mutex, so each is one step.                                             *)
(*                                                                         *)
(* Specifiers and resolved paths are both plain strings in the code: Names *)
(* holds them all.  MarkParsing, which nothing calls, is left out, and so  *)
(* are the depths, which make only the priorities of a queue that nobody   *)
(* takes jobs from.                                                        *)
(***************************************************************************)
EXTENDS Integers, Sequences, FiniteSets, FiniteSetsExt, SequencesExt

CONSTANT Names

ASSUME NamesAssumption == IsFiniteSet(Names)

VARIABLES
    discovered,   \* the modules marked as discovered
    parsed,       \* the modules whose parse result is stored
    depGraph,     \* module -> its dependencies, as they were recorded
    depCounts     \* module -> how often it is imported

analyzer == <<discovered, parsed, depGraph, depCounts>>

AnalyzerInit ==
    /\ discovered = {}
    /\ parsed = {}
    /\ depGraph = [m \in Names |-> <<>>]
    /\ depCounts = [m \in Names |-> 0]

-----------------------------------------------------------------------------
(* The methods.                                                            *)

MarkDiscovered(m) == discovered' = discovered \cup {m}

AddDependency(from, to) ==
    /\ depGraph' = [depGraph EXCEPT ![from] = Append(@, to)]
    /\ depCounts' = [depCounts EXCEPT ![to] = @ + 1]
    /\ UNCHANGED <<discovered, parsed>>

(* A result that parsed brings its imports along.                          *)
MarkParsed(m, ok, imports) ==
    /\ parsed' = parsed \cup {m}
    /\ IF ok
       THEN /\ depGraph' = [depGraph EXCEPT ![m] = @ \o imports]
            /\ depCounts' = [d \in Names |->
                   depCounts[d] + Cardinality({i \in DOMAIN imports : imports[i] = d})]
       ELSE UNCHANGED <<depGraph, depCounts>>
    /\ UNCHANGED discovered

ClearAnalyzer ==
    /\ discovered' = {}
    /\ parsed' = {}
    /\ depGraph' = [m \in Names |-> <<>>]
    /\ depCounts' = [m \in Names |-> 0]

-----------------------------------------------------------------------------
(* Kahn's algorithm over the discovered modules.  The first queue comes    *)
(* from an iteration over a map, in any order.                             *)

Graph(m) == IF m \in discovered THEN depGraph[m] ELSE <<>>

Edges(from, to) == Cardinality({i \in DOMAIN Graph(from) : Graph(from)[i] = to})

Nodes == discovered \cup UNION {ToSet(depGraph[m]) : m \in discovered}

Dependents(m) == {from \in discovered : Edges(from, m) > 0}

Roots == {m \in Nodes : Dependents(m) = {}}

(* The dependencies of m whose in-degree falls to 0 when the modules in    *)
(* done have left the queue, m last, as the loop over them finds them.     *)
Released(m, done) ==
    LET deps  == Graph(m)
        frees == SelectSeq([i \in DOMAIN deps |-> i],
                           LAMBDA i : /\ Dependents(deps[i]) \subseteq done
                                      /\ \A j \in DOMAIN deps : deps[j] = deps[i] => j <= i)
    IN  [k \in DOMAIN frees |-> deps[frees[k]]]

(* The modules in the order they enter the queue, and leave it: after n    *)
(* turns the first n have left.                                            *)
KahnOrder(first) ==
    LET entered[n \in 0..Cardinality(Nodes)] ==
            IF n = 0 THEN first
            ELSE LET order == entered[n - 1]
                 IN  IF Len(order) < n THEN order
                     ELSE order \o Released(order[n], ToSet(SubSeq(order, 1, n)))
    IN  entered[Cardinality(Nodes)]

(* "circular dependency detected": it does not depend on the first queue.  *)
Circular == Len(KahnOrder(SetToSeq(Roots))) # Cardinality(discovered)

(* The orders GetTopologicalOrder may return.                              *)
TopologicalOrders == IF Circular THEN {} ELSE {KahnOrder(first) : first \in SetToSeqs(Roots)}

-----------------------------------------------------------------------------
(* Properties.                                                             *)

(* "Dependencies are processed before their dependents"                    *)
(* (dependency_analyzer.go:293), whatever order GetTopologicalOrder finds. *)
DependenciesFirst ==
    \A order \in TopologicalOrders :
        \A i, j \in DOMAIN order :
            Edges(order[i], order[j]) > 0 => j < i
=============================================================================
