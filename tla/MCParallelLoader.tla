-------------------------- MODULE MCParallelLoader --------------------------
(* Modules on which ParallelLoader is checked.                             *)
EXTENDS ParallelLoader

CONSTANTS entry, left, right, up, down, far, alias, missing

MCNames == {entry, left, right, up, down, far, alias, missing}

(* One module is known by two specifiers, and one specifier does not       *)
(* resolve.                                                                *)
MCResolve == [s \in MCNames |-> CASE s = alias   -> left
                                  [] s = missing -> NoModule
                                  [] OTHER       -> s]

Imports(e, l, r) ==
    [p \in MCNames |-> CASE p = entry -> e [] p = left -> l [] p = right -> r [] OTHER -> <<>>]

Wide == Imports(<<left, right, up, down, far>>, <<>>, <<>>)

(* A wide tree, to fill both channels; a chain over both names of a        *)
(* module; a cycle through the entry with a module that does not parse.    *)
MCPrograms == {
    Wide,
    Imports(<<missing, right>>, <<>>, <<alias, left>>),
    Imports(<<left, right>>, <<entry>>, SyntaxError)}

(* With one worker the wide tree blocks the caller soonest.                *)
MCPool == [p \in MCPrograms |-> IF p = Wide THEN {CHOOSE w \in Workers : TRUE} ELSE Workers]
=============================================================================
