------------------------- MODULE MCModuleExecution --------------------------
(* Instances of ModuleExecution for TLC: three modules and a file of data. *)
EXTENDS ModuleExecution

CONSTANTS main, left, right, data, root, script

MCSpecifiers == {main, left, right, data}

(* Every specifier means the file of the same name, wherever it is written. *)
SameEverywhere == [f \in MCSpecifiers \cup {root} |-> [s \in MCSpecifiers |-> s]]

(* In the file left, main means the file right. *)
OtherDirectory == [SameEverywhere EXCEPT ![left][main] = right]

(* Chains, diamonds, cycles of two and three, data. *)
ImportLists == [
    root  |-> {<<main>>, <<main, left>>},
    main  |-> {<<left>>, <<left, right>>, <<data>>},
    left  |-> {<<>>, <<main>>, <<right>>},
    right |-> {<<>>, <<main>>, <<left, data>>}]

MCPrograms ==
    {[f \in MCSpecifiers \cup {root} |->
         CASE f = root  -> ofRoot
           [] f = main  -> ofMain
           [] f = left  -> ofLeft
           [] f = right -> ofRight
           [] f = data  -> <<>>] :
     ofRoot \in ImportLists.root, ofMain \in ImportLists.main,
     ofLeft \in ImportLists.left, ofRight \in ImportLists.right}

(* Each module exports a variable of its own, or all the same ("default"). *)
OwnNames == [s \in MCSpecifiers |-> s]
=============================================================================
