---------------------------- MODULE MCTryFinally ----------------------------
(* Programs on which TryFinally is checked.                                *)
EXTENDS TryFinally

(* What a finally block may be ended with, given what it was run for, for  *)
(* the machine to keep up.                                                 *)
WorkingOverrides ==
    ({"throw", "return", "break", "continue"} \X {"normal"})
        \cup {<<"return", "throw">>, <<"return", "return">>, <<"throw", "throw">>}

(* All combinations.                                                       *)
AnyOverride ==
    ({"throw", "return"} \cup LoopExits) \X ({"normal", "throw", "return"} \cup LoopExits)
=============================================================================
