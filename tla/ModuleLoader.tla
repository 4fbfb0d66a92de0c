---------------------------- MODULE ModuleLoader ----------------------------
(***************************************************************************)
(* Loading modules one after another (pkg/modules/loader.go, registry.go): *)
(* LoadModule parses a file, loads what it imports, and only then checks   *)
(* and compiles it.  A record is in the registry from the moment the file  *)
(* is found, so that a cycle of imports comes to an end.                   *)
(*                                                                         *)
(* The registry is keyed by specifiers as the program writes them; which   *)
(* file a specifier means depends on the file it is written in.  Whether a *)
(* file is found, parses and checks is left open.  Native modules, the     *)
(* expiry and eviction of records, off by default, are left out.           *)
(***************************************************************************)
EXTENDS Naturals, Sequences

CONSTANTS
    Specifiers,   \* as they are written in import declarations
    Json,         \* those that name a file of data
    Files,        \* files, and the directory the program was started in
    Root,         \* that directory
    Target,       \* Target[f][s]: the file that s means in f
    Programs,     \* the import declarations of each file, one way or another
    None          \* no record, nothing wanted

Record(file, state) == [file |-> file, state |-> state]

Records == [file : Files, state : {"resolved", "error", "compiled"}]

ASSUME LoaderAssumption ==
    /\ Root \in Files
    /\ Json \subseteq Specifiers
    /\ Target \in [Files -> [Specifiers -> Files \ {Root}]]
    /\ \A p \in Programs : DOMAIN p = Files /\ \A f \in Files : p[f] \in Seq(Specifiers)
    /\ None \notin Records

VARIABLES
    imports,      \* the program: what each file imports
    registry,     \* records by specifier: the file, how far it is, its error
    loads         \* activations of loadModuleSequential, with the imports left to load

loaderVars == <<imports, registry, loads>>

LoaderInit ==
    /\ imports \in Programs
    /\ registry = [s \in Specifiers |-> None]
    /\ loads = <<>>

-----------------------------------------------------------------------------
Last(s)  == s[Len(s)]
Front(s) == SubSeq(s, 1, Len(s) - 1)

RegistrySet(s, record) == registry' = [registry EXCEPT ![s] = record]

(* Data is complete as soon as it is read. *)
LoadJson(s, from) ==
    /\ s \in Json
    /\ \E state \in {"compiled", "error"} : RegistrySet(s, Record(Target[from][s], state))

(* Mutant: the record is stored when the module is complete. *)
LoadModuleLate(s, from, below) ==
    \/ /\ registry[s] # None
       /\ loads' = below
       /\ UNCHANGED registry
    \/ /\ registry[s] = None
       /\ loads' = Append(below, [spec |-> s, file |-> Target[from][s],
                                  rest |-> imports[Target[from][s]]])
       /\ UNCHANGED registry

(* s is asked for in the file from, by the activations below.  Of one that *)
(* is in the registry, or cannot be found or parsed, nothing is loaded.    *)
LoadModule(s, from, below) ==
    LET file == Target[from][s]
    IN  \/ /\ registry[s] # None
           /\ loads' = below
           /\ UNCHANGED registry
        \/ /\ registry[s] = None
           /\ loads' = below
           /\ \/ UNCHANGED registry
              \/ LoadJson(s, from)
              \/ s \notin Json /\ RegistrySet(s, Record(file, "error"))
        \/ /\ registry[s] = None
           /\ s \notin Json
           /\ RegistrySet(s, Record(file, "resolved"))
           /\ loads' = Append(below, [spec |-> s, file |-> file, rest |-> imports[file]])

(* The next import of the module being loaded; a failure is not passed on. *)
LoadDependency ==
    LET l == Last(loads)
    IN  /\ loads # <<>>
        /\ l.rest # <<>>
        /\ LoadModule(Head(l.rest), l.file, Append(Front(loads), [l EXCEPT !.rest = Tail(@)]))
        /\ UNCHANGED imports

(* Then it is checked and compiled.                                        *)
CheckAndCompile ==
    LET l == Last(loads)
    IN  /\ loads # <<>>
        /\ l.rest = <<>>
        /\ loads' = Front(loads)
        /\ \E state \in {"compiled", "error"} :
              RegistrySet(l.spec, Record(l.file, state))
        /\ UNCHANGED imports

LoaderNext == LoadDependency \/ CheckAndCompile

-----------------------------------------------------------------------------
LoaderTypeOK ==
    /\ imports \in Programs
    /\ \A s \in Specifiers : registry[s] # None => registry[s] \in Records
    /\ \A i \in DOMAIN loads :
          /\ loads[i].spec \in Specifiers
          /\ loads[i].file \in Files
          /\ loads[i].rest \in Seq(Specifiers)

BeingLoaded == {loads[i].spec : i \in DOMAIN loads}

(* No module is loaded within its own loading, and a module is compiled    *)
(* after everything it imports, except what is still being loaded around   *)
(* it (loadModuleSequential: the registry ends cycles, and dependencies    *)
(* come "before type checking").                                           *)
LoadOrder ==
    /\ \A i, j \in DOMAIN loads : i # j => loads[i].spec # loads[j].spec
    /\ \A s \in Specifiers \ Json :
          (registry[s] # None /\ registry[s].state = "compiled") =>
              \A i \in DOMAIN imports[registry[s].file] :
                  LET d == imports[registry[s].file][i]
                  IN  (registry[d] # None /\ registry[d].state = "resolved") => d \in BeingLoaded

(* The file that is loaded for an import is the one it means where it is   *)
(* written ("resolve relative to the importing module", interfaces.go).    *)
ImportsOwnFile ==
    \A i \in DOMAIN loads :
        \A s \in Specifiers :
            /\ \E k \in DOMAIN imports[loads[i].file] : imports[loads[i].file][k] = s
            /\ registry[s] # None
            => registry[s].file = Target[loads[i].file][s]
=============================================================================
