-------------------------- MODULE ModuleEvaluation --------------------------
(***************************************************************************)
(* What a program relies on when it imports modules: a module is evaluated *)
(* after the modules it imports, or within their evaluation when imports   *)
(* are cyclic, by one evaluation at a time, and not again once it is done. *)
(* A module that failed may be tried again.                                *)
(***************************************************************************)
EXTENDS Naturals, Sequences

CONSTANTS Modules

VARIABLES
    imports,    \* what each module imports, as far as it is known: an input
    evaluated,  \* the modules that are done
    stack       \* the modules being evaluated, each by a step of the one before

evaluationVars == <<evaluated, stack>>

OnStack == {stack[i] : i \in DOMAIN stack}

EvaluationInit ==
    /\ evaluated = {}
    /\ stack = <<>>

Begin(m) ==
    /\ m \notin evaluated \cup OnStack
    /\ stack' = Append(stack, m)
    /\ UNCHANGED evaluated

Innermost(m) == stack # <<>> /\ stack[Len(stack)] = m

Complete(m) ==
    /\ Innermost(m)
    /\ \A i \in DOMAIN imports[m] : imports[m][i] \in evaluated \cup OnStack
    /\ evaluated' = evaluated \cup {m}
    /\ stack' = SubSeq(stack, 1, Len(stack) - 1)

Fail(m) ==
    /\ Innermost(m)
    /\ stack' = SubSeq(stack, 1, Len(stack) - 1)
    /\ UNCHANGED evaluated

(* Data needs no evaluation. *)
Provide(m) ==
    /\ m \notin evaluated \cup OnStack
    /\ evaluated' = evaluated \cup {m}
    /\ UNCHANGED stack

EvaluationNext == \E m \in Modules : Begin(m) \/ Complete(m) \/ Fail(m) \/ Provide(m)

EvaluationSpec == EvaluationInit /\ [][EvaluationNext]_evaluationVars
=============================================================================
