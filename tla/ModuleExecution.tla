-------------------------- MODULE ModuleExecution ---------------------------
(***************************************************************************)
(* Executing modules (pkg/vm/vm.go): OpEvalModule, OpDynamicImport and     *)
(* executeModule, over the loader.                                         *)
(*                                                                         *)
(* executeModule loads the module if it is new, saves the frame of the     *)
(* importing code, and runs the module in frame 1 by a loop of its own.    *)
(* All modules keep their variables in one heap; the slot is found by the  *)
(* name of the variable.  Each module here exports one variable, which its *)
(* body sets; the value stands for the module whose code wrote it.         *)
(*                                                                         *)
(* A behaviour is one run of one program.  Exceptions that code catches,   *)
(* and what else runs in the frames, are in CallFrames.                    *)
(***************************************************************************)
EXTENDS ModuleLoader

CONSTANTS
    Script,       \* the code that is run first
    Names,        \* variables of modules
    Export,       \* Export[s]: the variable that the module s exports
    Unset,        \* its value before the module sets it
    MaxFrames,    \* bound: functions called in one module
    MaxSteps,     \* bound: steps of the program
    Patterns      \* programs considered besides: with import() in a "function", or where
                  \* the registers are "exhausted" when a module is to start

ASSUME ExecutionAssumption ==
    /\ Script \notin Specifiers
    /\ None \notin [spec : Specifiers, how : {"static", "dynamic"}]
    /\ Export \in [Specifiers -> Names]
    /\ MaxFrames \in Nat \ {0}
    /\ Patterns \subseteq {"function", "exhausted"}

VARIABLES
    frames,       \* the array of frames
    frameCount,   \* the frames in use
    contexts,     \* executionContextStack
    current,      \* currentModulePath
    modules,      \* moduleContexts
    heap,         \* the values of variables
    runs,         \* the script and the calls of executeModule that run a module
    wanted,       \* the call of executeModule that waits for the loader
    fuel          \* steps left

executionVars == <<frames, frameCount, contexts, current, modules, heap, runs, wanted, fuel>>

vars == <<loaderVars, executionVars>>

-----------------------------------------------------------------------------
Frame(owner, level) == [owner |-> owner, level |-> level]

Run(module, how, rest) == [module |-> module, how |-> how, rest |-> rest, failed |-> FALSE]

Unknown == [known |-> FALSE, executing |-> FALSE, executed |-> FALSE,
            exports |-> None, namespace |-> None]

Init ==
    /\ LoaderInit
    /\ frames = [i \in 1..MaxFrames |-> IF i = 1 THEN Frame(Script, 1) ELSE None]
    /\ frameCount = 1
    /\ contexts = <<>>
    /\ current = Script
    /\ modules = [s \in Specifiers |-> Unknown]
    /\ heap = [n \in Names |-> Unset]
    /\ runs = <<Run(Script, "script", imports[Root])>>
    /\ wanted = None
    /\ fuel = MaxSteps

Top == Last(runs)

Running ==
    /\ runs # <<>>
    /\ wanted = None
    /\ ~Top.failed

(* The static imports of the code that runs are done. *)
Body ==
    /\ Running
    /\ Top.rest = <<>>

Step ==
    /\ Body
    /\ fuel > 0
    /\ fuel' = fuel - 1

(* An import has failed: OpEvalModule ends the loop of the importing code, *)
(* OpDynamicImport rejects its promise.                                    *)
Failed(rs, how) ==
    runs' = IF how = "static" THEN [rs EXCEPT ![Len(rs)].failed = TRUE] ELSE rs

-----------------------------------------------------------------------------
(* Mutant: the context is saved after the path is set.                     *)
StartModuleSavingLate(s, how, rs) ==
    /\ modules' = [modules EXCEPT ![s].known = TRUE, ![s].executing = TRUE]
    /\ contexts' = Append(contexts, [frame |-> frames[frameCount], count |-> frameCount,
                                     path |-> s])
    /\ current' = s
    /\ frames' = [frames EXCEPT ![1] = Frame(s, 1)]
    /\ frameCount' = 1
    /\ runs' = Append(rs, Run(s, how, imports[registry[s].file]))

(* The module gets the first frame for itself.  If there is no room for    *)
(* its registers, what has been saved stays where it is.                   *)
StartModule(s, how, rs) ==
    /\ contexts' = Append(contexts, [frame |-> frames[frameCount], count |-> frameCount,
                                     path |-> current])
    /\ current' = s
    /\ \/ /\ modules' = [modules EXCEPT ![s].known = TRUE, ![s].executing = TRUE]
          /\ frames' = [frames EXCEPT ![1] = Frame(s, 1)]
          /\ frameCount' = 1
          /\ runs' = Append(rs, Run(s, how, imports[registry[s].file]))
       \/ /\ "exhausted" \in Patterns
          /\ modules' = [modules EXCEPT ![s].known = TRUE]
          /\ Failed(rs, how)
          /\ UNCHANGED <<frames, frameCount>>

(* Data is executed already. *)
JsonModule(s) == [Unknown EXCEPT !.known = TRUE, !.executed = TRUE, !.exports = s]

(* s is imported by the code that runs; rs is what is left of its runs.    *)
executeModule(s, how, rs) ==
    \/ /\ modules[s].executed \/ modules[s].executing
       /\ runs' = rs
       /\ UNCHANGED <<loaderVars, frames, frameCount, contexts, current, modules, wanted>>
    \/ /\ ~modules[s].known
       /\ wanted' = [spec |-> s, how |-> how]
       /\ LoadModule(s, Root, <<>>)
       /\ runs' = rs
       /\ UNCHANGED <<imports, frames, frameCount, contexts, current, modules>>
    \/ /\ modules[s].known
       /\ ~modules[s].executed
       /\ ~modules[s].executing
       /\ StartModule(s, how, rs)
       /\ UNCHANGED <<loaderVars, wanted>>

(* The loader returns. *)
ModuleLoaded ==
    LET s        == wanted.spec
        compiled == IF registry[s] = None THEN FALSE ELSE registry[s].state = "compiled"
    IN  /\ wanted # None
        /\ loads = <<>>
        /\ wanted' = None
        /\ \/ /\ ~compiled
              /\ Failed(runs, wanted.how)
              /\ UNCHANGED <<frames, frameCount, contexts, current, modules>>
           \/ /\ compiled
              /\ s \in Json
              /\ modules' = [modules EXCEPT ![s] = JsonModule(s)]
              /\ UNCHANGED <<frames, frameCount, contexts, current, runs>>
           \/ /\ compiled
              /\ s \notin Json
              /\ StartModule(s, wanted.how, runs)
        /\ UNCHANGED <<loaderVars, heap, fuel>>

OpEvalModule ==
    /\ Running
    /\ Top.rest # <<>>
    /\ executeModule(Head(Top.rest), "static", [runs EXCEPT ![Len(runs)].rest = Tail(@)])
    /\ UNCHANGED <<heap, fuel>>

OpDynamicImport(s) ==
    /\ Step
    /\ frameCount > 1 => "function" \in Patterns
    /\ executeModule(s, "dynamic", runs)
    /\ UNCHANGED heap

-----------------------------------------------------------------------------
Call ==
    /\ Step
    /\ frameCount < MaxFrames
    /\ frames' = [frames EXCEPT ![frameCount + 1] = Frame(frames[frameCount].owner, frameCount + 1)]
    /\ frameCount' = frameCount + 1
    /\ UNCHANGED <<loaderVars, contexts, current, modules, heap, runs, wanted>>

Return ==
    /\ Body
    /\ frameCount > 1
    /\ frameCount' = frameCount - 1
    /\ UNCHANGED <<loaderVars, frames, contexts, current, modules, heap, runs, wanted, fuel>>

(* The code of a module sets its variable. *)
OpSetGlobal ==
    /\ Step
    /\ Top.module # Script
    /\ heap' = [heap EXCEPT ![Export[Top.module]] = Top.module]
    /\ UNCHANGED <<loaderVars, frames, frameCount, contexts, current, modules, runs, wanted>>

Exports(s) == heap[Export[s]]

Imported(s) ==
    LET own == imports[IF Top.module = Script THEN Root ELSE registry[Top.module].file]
    IN  \E i \in DOMAIN own : own[i] = s

(* createModuleNamespace: made once, of the exports collected so far.      *)
OpCreateNamespace(s) ==
    LET m       == modules[s]
        exports == IF m.exports = None THEN Exports(s) ELSE m.exports
    IN  /\ Step
        /\ Imported(s)
        /\ m.known
        /\ modules' = [modules EXCEPT ![s].exports = exports,
                                      ![s].namespace = IF m.exports = None \/ m.namespace = None
                                                       THEN exports ELSE @]
        /\ UNCHANGED <<loaderVars, frames, frameCount, contexts, current, heap, runs, wanted>>

(* Re-exporting ("export *") stores what the source has exported so far in *)
(* the variable of that name.                                              *)
ReExport(s) ==
    LET m == modules[s]
    IN  /\ Step
        /\ frameCount = 1
        /\ Imported(s)
        /\ m.known
        /\ heap' = [heap EXCEPT ![Export[s]] = IF m.exports = None THEN Unset ELSE m.exports]
        /\ UNCHANGED <<loaderVars, frames, frameCount, contexts, current, modules, runs, wanted>>

OpThrow ==
    /\ Running
    /\ runs' = [runs EXCEPT ![Len(runs)].failed = TRUE]
    /\ UNCHANGED <<loaderVars, frames, frameCount, contexts, current, modules, heap, wanted, fuel>>

(* The innermost loop is done. *)
Ended ==
    /\ runs # <<>>
    /\ wanted = None
    /\ Top.failed \/ (Top.rest = <<>> /\ frameCount = 1)

(* Mutant: a module that fails stays marked as executing.                  *)
ModuleEndsMarked ==
    LET r == Top
        c == Last(contexts)
    IN  /\ Ended
        /\ Len(runs) > 1
        /\ frameCount' = c.count
        /\ frames' = [frames EXCEPT ![c.count] = c.frame]
        /\ current' = c.path
        /\ contexts' = Front(contexts)
        /\ modules' = [modules EXCEPT ![r.module].executing = r.failed,
                                      ![r.module].executed = ~r.failed]
        /\ IF r.failed THEN Failed(Front(runs), r.how) ELSE runs' = Front(runs)
        /\ UNCHANGED <<loaderVars, heap, wanted, fuel>>

(* executeModule goes back to the importing code.  A module that has       *)
(* failed is not executed; its exports are collected if it has not.        *)
ModuleEnds ==
    LET r == Top
        c == Last(contexts)
    IN  /\ Ended
        /\ Len(runs) > 1
        /\ frameCount' = c.count
        /\ frames' = [frames EXCEPT ![c.count] = c.frame]
        /\ current' = c.path
        /\ contexts' = Front(contexts)
        /\ modules' = [modules EXCEPT
                          ![r.module].executing = FALSE,
                          ![r.module].executed = ~r.failed,
                          ![r.module].exports = IF r.failed THEN @ ELSE Exports(r.module)]
        /\ IF r.failed THEN Failed(Front(runs), r.how) ELSE runs' = Front(runs)
        /\ UNCHANGED <<loaderVars, heap, wanted, fuel>>

ScriptEnds ==
    /\ Ended
    /\ Len(runs) = 1
    /\ runs' = <<>>
    /\ UNCHANGED <<loaderVars, frames, frameCount, contexts, current, modules, heap, wanted, fuel>>

Loading == LoaderNext /\ UNCHANGED executionVars

Next ==
    \/ Loading
    \/ ModuleLoaded
    \/ OpEvalModule
    \/ Call
    \/ Return
    \/ OpSetGlobal
    \/ OpThrow
    \/ ModuleEnds
    \/ ScriptEnds
    \/ \E s \in Specifiers : OpDynamicImport(s) \/ OpCreateNamespace(s) \/ ReExport(s)

Spec == Init /\ [][Next]_vars

-----------------------------------------------------------------------------
Owners == Specifiers \cup {Script}
Values == Specifiers \cup {Unset}

TypeOK ==
    /\ LoaderTypeOK
    /\ frameCount \in 1..MaxFrames
    /\ \A i \in 1..MaxFrames :
          frames[i] # None => frames[i] \in [owner : Owners, level : 1..MaxFrames]
    /\ \A i \in DOMAIN contexts :
          /\ contexts[i].frame \in [owner : Owners, level : 1..MaxFrames]
          /\ contexts[i].count \in 1..MaxFrames
          /\ contexts[i].path \in Owners
    /\ current \in Owners
    /\ modules \in [Specifiers ->
                       [known : BOOLEAN, executing : BOOLEAN, executed : BOOLEAN,
                        exports : Values \cup {None}, namespace : Values \cup {None}]]
    /\ heap \in [Names -> Values]
    /\ \A i \in DOMAIN runs : runs[i].module \in Owners /\ runs[i].rest \in Seq(Specifiers)
    /\ fuel \in 0..MaxSteps

(* Whatever a module did while it ran, and however it ended, the code that *)
(* imported it goes on in its own frames and under its own path, and one   *)
(* context is saved for each module being executed ("Execute module as     *)
(* top-level frame (frameCount=1) for proper isolation", executeModule).   *)
ControlReturns ==
    Running =>
        /\ current = Top.module
        /\ Len(contexts) = Len(runs) - 1
        /\ \A k \in 1..frameCount : frames[k] = Frame(Top.module, k)

(* Modules are evaluated in the order their imports ask for, and once.     *)
Evaluation == INSTANCE ModuleEvaluation WITH
    Modules   <- Specifiers,
    imports   <- [s \in Specifiers |->
                     IF registry[s] = None THEN <<>> ELSE imports[registry[s].file]],
    evaluated <- {s \in Specifiers : modules[s].executed},
    stack     <- [i \in 1..Len(runs) - 1 |-> runs[i + 1].module]

KeepsEvaluation == Evaluation!EvaluationSpec

(* A namespace object has what its module exports, once the module has     *)
(* been executed ("the cached object is always complete").                 *)
NamespaceIsComplete ==
    \A s \in Specifiers :
        modules[s].executed /\ modules[s].namespace # None =>
            modules[s].namespace = modules[s].exports

(* Only the code of a module sets its variables ("Each module has isolated *)
(* global space", docs/archived/reexport-investigation.md).                *)
OwnVariables ==
    [][\A n \in Names : heap'[n] # heap[n] => Export[Top.module] = n /\ Top.module # Script]_vars
=============================================================================
