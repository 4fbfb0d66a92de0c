----------------------- MODULE ModuleExecutionProofs -----------------------
(***************************************************************************)
(* Proofs about loading and executing modules, for every program, any      *)
(* number of files, of modules that run and of functions called: the order *)
(* of loading, the way back to the importing code, and the refinement of   *)
(* ModuleEvaluation.                                                       *)
(***************************************************************************)
EXTENDS ModuleExecution, SequenceTheorems, TLAPS

LoadRecord == [spec : Specifiers \ Json, file : Files, rest : Seq(Specifiers)]

(* Of the registry r and the activations ls: each activation loads a       *)
(* module of its own, whose record says so, and no other record does.      *)
LoadsOK(r, ls) ==
    /\ r \in [Specifiers -> Records \cup {None}]
    /\ ls \in Seq(LoadRecord)
    /\ \A i, j \in DOMAIN ls : ls[i].spec = ls[j].spec => i = j
    /\ \A i \in DOMAIN ls : r[ls[i].spec] = Record(ls[i].file, "resolved")
    /\ \A s \in Specifiers :
          r[s] # None /\ r[s].state = "resolved" => \E i \in DOMAIN ls : ls[i].spec = s

LoaderInv == imports \in Programs /\ LoadsOK(registry, loads)

Compiled(r, s) == r[s] # None /\ r[s].state = "compiled"

(* The modules that are compiled stay so.                                  *)
Keeps(r, r2) == \A s \in Specifiers : Compiled(r, s) => r2[s] = r[s]

LEMMA ProgramTypes ==
  ASSUME imports \in Programs
  PROVE  \A f \in Files : imports[f] \in Seq(Specifiers)
BY LoaderAssumption

LEMMA RecordTypes ==
  /\ \A f \in Files, state \in {"resolved", "error", "compiled"} :
        Record(f, state) \in Records /\ Record(f, state) # None
  /\ \A f, state : Record(f, state).file = f /\ Record(f, state).state = state
BY LoaderAssumption DEF Records, Record

LEMMA SequenceEnds ==
  ASSUME NEW S, NEW s \in Seq(S), s # <<>>
  PROVE  /\ Len(s) \in Nat /\ Len(s) > 0 /\ DOMAIN s = 1..Len(s)
         /\ Front(s) \in Seq(S) /\ Len(Front(s)) = Len(s) - 1
         /\ \A i \in 1..Len(s) - 1 : Front(s)[i] = s[i]
         /\ Last(s) = s[Len(s)] /\ Last(s) \in S
<1>1. Len(s) \in Nat /\ Len(s) > 0 /\ DOMAIN s = 1..Len(s)
  BY EmptySeq
<1>2. /\ SubSeq(s, 1, Len(s) - 1) \in Seq(S)
      /\ Len(SubSeq(s, 1, Len(s) - 1)) = Len(s) - 1
      /\ \A i \in 1..Len(s) - 1 : SubSeq(s, 1, Len(s) - 1)[i] = s[i]
  BY <1>1
<1> QED
  BY <1>1, <1>2 DEF Front, Last

LEMMA AppendedIs ==
  ASSUME NEW S, NEW s \in Seq(S), NEW x \in S
  PROVE  /\ Append(s, x) \in Seq(S) /\ Len(Append(s, x)) = Len(s) + 1
         /\ DOMAIN Append(s, x) = 1..Len(s) + 1
         /\ \A i \in 1..Len(s) : Append(s, x)[i] = s[i]
         /\ Append(s, x)[Len(s) + 1] = x
<1>1. /\ Append(s, x) \in Seq(S) /\ Len(Append(s, x)) = Len(s) + 1
      /\ \A i \in 1..Len(s) : Append(s, x)[i] = s[i]
      /\ Append(s, x)[Len(s) + 1] = x
  BY AppendProperties
<1> QED
  BY <1>1

(* A module is asked for: it is loaded unless it has a record.             *)
LEMMA LoadModuleKeeps ==
  ASSUME imports \in Programs, NEW s \in Specifiers, NEW f \in Files, NEW below,
         LoadsOK(registry, below), LoadModule(s, f, below)
  PROVE  LoadsOK(registry', loads') /\ Keeps(registry, registry')
<1>0. ASSUME NEW i \in DOMAIN below
      PROVE  below[i].spec \in Specifiers /\ registry[below[i].spec] # None
  <2>1. below[i] \in LoadRecord
    BY DEF LoadsOK
  <2> QED
    BY <2>1, RecordTypes DEF LoadsOK, LoadRecord
<1>1. PICK r : r = registry'
  OBVIOUS
<1>2. Target[f][s] \in Files
  BY LoaderAssumption
<1>3. CASE loads' = below /\ r = registry
  BY <1>1, <1>3 DEF Keeps
<1>4. ASSUME loads' = below, registry[s] = None, NEW state \in {"error", "compiled"},
             r = [registry EXCEPT ![s] = Record(Target[f][s], state)]
      PROVE  LoadsOK(r, below) /\ Keeps(registry, r)
  <2>1. PICK x \in Records : x = Record(Target[f][s], state) /\ x.state = state
    BY <1>2, RecordTypes
  <2>2. r \in [Specifiers -> Records \cup {None}]
    BY <1>4, <2>1 DEF LoadsOK
  <2>3. \A t \in Specifiers : r[t] = IF t = s THEN x ELSE registry[t]
    BY <1>4, <2>1 DEF LoadsOK
  <2>4. \A i \in DOMAIN below : below[i].spec # s
    BY <1>0, <1>4
  <2>5. \A i \in DOMAIN below : below[i].spec \in Specifiers
    BY <1>0
  <2> QED
    BY <1>4, <2>1, <2>2, <2>3, <2>4, <2>5 DEF LoadsOK, Keeps, Compiled
<1>5. ASSUME registry[s] = None, s \notin Json, NEW l,
             l = [spec |-> s, file |-> Target[f][s], rest |-> imports[Target[f][s]]],
             r = [registry EXCEPT ![s] = Record(Target[f][s], "resolved")]
      PROVE  LoadsOK(r, Append(below, l)) /\ Keeps(registry, r)
  <2>1. PICK x \in Records : x = Record(Target[f][s], "resolved") /\ x.state = "resolved"
    BY <1>2, RecordTypes
  <2>2. r \in [Specifiers -> Records \cup {None}]
    BY <1>5, <2>1 DEF LoadsOK
  <2>3. \A t \in Specifiers : r[t] = IF t = s THEN x ELSE registry[t]
    BY <1>5, <2>1 DEF LoadsOK
  <2>4. \A i \in DOMAIN below : below[i].spec # s
    BY <1>0, <1>5
  <2>5. \A i \in DOMAIN below : below[i].spec \in Specifiers
    BY <1>0
  <2>6. l \in LoadRecord /\ l.spec = s /\ l.file = Target[f][s]
    BY <1>2, <1>5, ProgramTypes DEF LoadRecord
  <2>7. PICK b : b = Append(below, l)
    OBVIOUS
  <2>8. /\ b \in Seq(LoadRecord) /\ DOMAIN below = 1..Len(below) /\ Len(below) \in Nat
        /\ DOMAIN b = 1..Len(below) + 1
        /\ \A i \in 1..Len(below) : b[i] = below[i]
        /\ b[Len(below) + 1] = l
    BY <2>6, <2>7, AppendedIs DEF LoadsOK
  <2>9. \A i, j \in DOMAIN b : b[i].spec = b[j].spec => i = j
    BY <2>4, <2>6, <2>8 DEF LoadsOK
  <2>10. \A i \in DOMAIN b : r[b[i].spec] = Record(b[i].file, "resolved")
    BY <2>1, <2>3, <2>4, <2>5, <2>6, <2>8 DEF LoadsOK
  <2>11. \A t \in Specifiers :
            r[t] # None /\ r[t].state = "resolved" => \E i \in DOMAIN b : b[i].spec = t
    <3> SUFFICES ASSUME NEW t \in Specifiers, r[t] # None, r[t].state = "resolved"
                 PROVE  \E i \in DOMAIN b : b[i].spec = t
      OBVIOUS
    <3>1. CASE t = s
      BY <2>6, <2>8, <3>1
    <3>2. CASE t # s
      <4>1. PICK i \in DOMAIN below : below[i].spec = t
        BY <2>3, <3>2 DEF LoadsOK
      <4> QED
        BY <2>8, <4>1
    <3> QED
      BY <3>1, <3>2
  <2> QED
    BY <1>5, <2>2, <2>3, <2>7, <2>8, <2>9, <2>10, <2>11 DEF LoadsOK, Keeps, Compiled
<1> QED
  BY <1>1, <1>3, <1>4, <1>5 DEF LoadModule, LoadJson, RegistrySet

LEMMA LoadDependencyKeeps ==
  ASSUME LoaderInv, LoadDependency
  PROVE  LoaderInv' /\ Keeps(registry, registry')
<1>1. loads \in Seq(LoadRecord) /\ loads # <<>>
  BY DEF LoaderInv, LoadsOK, LoadDependency
<1>2. PICK l : l = Last(loads)
  OBVIOUS
<1>3. PICK n \in Nat : n = Len(loads)
  BY <1>1
<1>4. /\ DOMAIN loads = 1..n /\ n > 0 /\ l = loads[n] /\ l \in LoadRecord
      /\ Front(loads) \in Seq(LoadRecord) /\ Len(Front(loads)) = n - 1
      /\ \A i \in 1..n - 1 : Front(loads)[i] = loads[i]
  BY <1>1, <1>2, <1>3, SequenceEnds
<1>5. l.rest # <<>> /\ l.rest \in Seq(Specifiers) /\ l.file \in Files
  BY <1>2, <1>4 DEF LoadDependency, LoadRecord
<1>6. Head(l.rest) \in Specifiers /\ Tail(l.rest) \in Seq(Specifiers)
  BY <1>5
<1>7. PICK m : m = [l EXCEPT !.rest = Tail(@)]
  OBVIOUS
<1>8. m \in LoadRecord /\ m.spec = l.spec /\ m.file = l.file
  BY <1>4, <1>6, <1>7 DEF LoadRecord
<1>9. PICK b : b = Append(Front(loads), m)
  OBVIOUS
<1>10. /\ b \in Seq(LoadRecord) /\ DOMAIN b = 1..n
       /\ \A i \in 1..n : b[i].spec = loads[i].spec /\ b[i].file = loads[i].file
  BY <1>4, <1>8, <1>9, AppendedIs
<1>11. LoadsOK(registry, b)
  BY <1>4, <1>10 DEF LoaderInv, LoadsOK
<1>12. LoadModule(Head(l.rest), l.file, b) /\ imports' = imports
  BY <1>2, <1>7, <1>9 DEF LoadDependency
<1> QED
  BY <1>5, <1>6, <1>11, <1>12, LoadModuleKeeps DEF LoaderInv

LEMMA CheckAndCompileKeeps ==
  ASSUME LoaderInv, CheckAndCompile
  PROVE  LoaderInv' /\ Keeps(registry, registry')
<1>1. loads \in Seq(LoadRecord) /\ loads # <<>> /\ registry \in [Specifiers -> Records \cup {None}]
  BY DEF LoaderInv, LoadsOK, CheckAndCompile
<1>2. PICK l : l = Last(loads)
  OBVIOUS
<1>3. PICK n \in Nat : n = Len(loads)
  BY <1>1
<1>4. PICK b : b = Front(loads)
  OBVIOUS
<1>5. /\ DOMAIN loads = 1..n /\ n > 0 /\ l = loads[n] /\ l \in LoadRecord
      /\ b \in Seq(LoadRecord) /\ DOMAIN b = 1..n - 1
      /\ \A i \in 1..n - 1 : b[i] = loads[i]
  BY <1>1, <1>2, <1>3, <1>4, SequenceEnds
<1>6. PICK state \in {"compiled", "error"} : RegistrySet(l.spec, Record(l.file, state))
  BY <1>2 DEF CheckAndCompile
<1>7. l.spec \in Specifiers /\ l.file \in Files
  BY <1>5 DEF LoadRecord
<1>8. PICK x \in Records : x = Record(l.file, state) /\ x.state = state /\ x # None
  BY <1>6, <1>7, RecordTypes
<1>9. PICK r : r = registry'
  OBVIOUS
<1>10. /\ r \in [Specifiers -> Records \cup {None}]
       /\ \A t \in Specifiers : r[t] = IF t = l.spec THEN x ELSE registry[t]
  BY <1>1, <1>6, <1>7, <1>8, <1>9 DEF RegistrySet
<1>11. registry[l.spec] # None /\ registry[l.spec].state = "resolved"
  BY <1>5, <1>7, RecordTypes DEF LoaderInv, LoadsOK
<1>12. \A i \in 1..n - 1 : loads[i].spec # l.spec /\ loads[i].spec \in Specifiers
  <2> TAKE i \in 1..n - 1
  <2>1. loads[i] \in LoadRecord
    BY <1>1, <1>5
  <2>2. i \in DOMAIN loads /\ n \in DOMAIN loads /\ i # n
    BY <1>5
  <2>3. loads[i].spec # loads[n].spec
    BY <2>2 DEF LoaderInv, LoadsOK
  <2> QED
    BY <1>5, <2>1, <2>3 DEF LoadRecord
<1>13. LoadsOK(r, b)
  <2>1. \A i \in DOMAIN b : r[b[i].spec] = Record(b[i].file, "resolved")
    BY <1>5, <1>10, <1>12 DEF LoaderInv, LoadsOK
  <2>2. ASSUME NEW t \in Specifiers, r[t] # None, r[t].state = "resolved"
        PROVE  \E i \in DOMAIN b : b[i].spec = t
    <3>1. t # l.spec
      BY <1>6, <1>8, <1>10, <2>2
    <3>2. PICK i \in DOMAIN loads : loads[i].spec = t
      BY <1>10, <2>2, <3>1 DEF LoaderInv, LoadsOK
    <3> QED
      BY <1>5, <3>1, <3>2
  <2> QED
    BY <1>5, <1>10, <2>1, <2>2 DEF LoaderInv, LoadsOK
<1>14. Keeps(registry, r)
  BY <1>10, <1>11 DEF Keeps, Compiled
<1> QED
  BY <1>4, <1>9, <1>13, <1>14 DEF CheckAndCompile, LoaderInv

LEMMA LoaderKeeps ==
  ASSUME LoaderInv, LoaderNext
  PROVE  LoaderInv' /\ Keeps(registry, registry')
BY LoadDependencyKeeps, CheckAndCompileKeeps DEF LoaderNext

-----------------------------------------------------------------------------
(* Modules that run.                                                       *)

RunRecord == [module : Owners, how : {"script", "static", "dynamic"}, rest : Seq(Specifiers),
              failed : BOOLEAN]

ModuleRecord == [known : BOOLEAN, executing : BOOLEAN, executed : BOOLEAN,
                 exports : Values \cup {None}, namespace : Values \cup {None}]

(* The import d of the run i needs nothing more: it has been executed, it  *)
(* is being executed around the run or, as the last that was asked for, by *)
(* the next; or it is still asked for (W).                                 *)
Served(d, i, rs, ms, W) ==
    \/ ms[d].executed
    \/ \E q \in 2..i : rs[q].module = d
    \/ i < Len(rs) /\ rs[i + 1].how = "static" /\ rs[i + 1].module = d
    \/ i = Len(rs) /\ d \in W

OwnImports(i, rs, r) == imports[r[rs[i].module].file]

(* rest is the end of the list own.                                        *)
IsLeft(rest, own) ==
    /\ Len(rest) <= Len(own)
    /\ \A k \in 1..Len(rest) : rest[k] = own[Len(own) - Len(rest) + k]

(* What is not left of the imports of a run is served.                     *)
ImportsServed(i, rs, ms, r, W) ==
    /\ IsLeft(rs[i].rest, OwnImports(i, rs, r))
    /\ ~rs[i].failed =>
          \A k \in 1..Len(OwnImports(i, rs, r)) - Len(rs[i].rest) :
              Served(OwnImports(i, rs, r)[k], i, rs, ms, W)

RunOK(i, rs, ms, r, W) ==
    /\ rs[i].module \in Specifiers \ Json
    /\ rs[i].how # "script"
    /\ Compiled(r, rs[i].module)
    /\ ms[rs[i].module].executing
    /\ ImportsServed(i, rs, ms, r, W)

ModuleOK(s, rs, ms, r) ==
    /\ ms[s].executing => ms[s].known /\ ~ms[s].executed
    /\ ms[s].executing => \E i \in 2..Len(rs) : rs[i].module = s
    /\ ms[s].executed => ms[s].known
    /\ ms[s].known /\ ~ms[s].executed => s \notin Json /\ Compiled(r, s)

(* Of the runs rs, the modules ms, the registry r, and what is asked for:  *)
(* the modules that are marked as executing are those of the runs, one     *)
(* run each, and have been compiled.                                       *)
Chain(rs, ms, r, W) ==
    /\ rs \in Seq(RunRecord)
    /\ ms \in [Specifiers -> ModuleRecord]
    /\ r \in [Specifiers -> Records \cup {None}]
    /\ W \subseteq Specifiers
    /\ \A i \in 2..Len(rs) : RunOK(i, rs, ms, r, W)
    /\ \A i, j \in 2..Len(rs) : rs[i].module = rs[j].module => i = j
    /\ \A s \in Specifiers : ModuleOK(s, rs, ms, r)

(* What the static import asks the loader for.                             *)
AskedFor == IF wanted # None /\ wanted.how = "static" THEN {wanted.spec} ELSE {}

ExecutionInv ==
    /\ LoaderInv
    /\ Chain(runs, modules, registry, AskedFor)
    /\ heap \in [Names -> Values]
    /\ wanted \in [spec : Specifiers, how : {"static", "dynamic"}] \cup {None}
    /\ wanted = None => loads = <<>>
    /\ wanted # None => runs # <<>> /\ ~Top.failed /\ ~modules[wanted.spec].known

LEMMA OwnImportsType ==
  ASSUME imports \in Programs, NEW rs, NEW ms, NEW r, NEW W, Chain(rs, ms, r, W), NEW i \in 2..Len(rs)
  PROVE  OwnImports(i, rs, r) \in Seq(Specifiers)
<1>1. rs[i].module \in Specifiers /\ Compiled(r, rs[i].module)
  BY DEF Chain, RunOK
<1>2. r[rs[i].module] \in Records
  BY <1>1 DEF Chain, Compiled
<1> QED
  BY <1>2, ProgramTypes DEF OwnImports, Records

(* More is executed or compiled.                                           *)
GrowsTo(ms, ms2, r2) ==
    \A s \in Specifiers :
        /\ ms[s].executed => ms2[s].executed
        /\ ms2[s].executing = ms[s].executing
        /\ ms2[s].executing => ~ms2[s].executed /\ ms2[s].known
        /\ ms2[s].executed => ms2[s].known
        /\ ms2[s].known /\ ~ms2[s].executed => s \notin Json /\ Compiled(r2, s)

LEMMA ChainGrows ==
  ASSUME imports \in Programs, NEW rs, NEW ms, NEW r, NEW W, Chain(rs, ms, r, W),
         NEW ms2 \in [Specifiers -> ModuleRecord], NEW r2 \in [Specifiers -> Records \cup {None}],
         NEW W2 \in SUBSET Specifiers,
         Keeps(r, r2),
         GrowsTo(ms, ms2, r2),
         \A d \in W : d \in W2 \/ ms2[d].executed \/ ms2[d].executing
  PROVE  Chain(rs, ms2, r2, W2)
<1>1. ASSUME NEW i \in 2..Len(rs) PROVE RunOK(i, rs, ms2, r2, W2)
  <2>1. RunOK(i, rs, ms, r, W)
    BY DEF Chain
  <2>2. r2[rs[i].module] = r[rs[i].module] /\ rs[i].module \in Specifiers
    BY <2>1 DEF Keeps, RunOK
  <2>3. OwnImports(i, rs, r2) = OwnImports(i, rs, r)
    BY <2>2 DEF OwnImports
  <2>4. ASSUME NEW d, d \in Specifiers, Served(d, i, rs, ms, W) PROVE Served(d, i, rs, ms2, W2)
    <3>1. CASE i = Len(rs) /\ d \in W
      <4>1. ms2[d].executing => \E q \in 2..i : rs[q].module = d
        BY <2>4, <3>1 DEF Chain, ModuleOK, GrowsTo
      <4> QED
        BY <3>1, <4>1 DEF Served
    <3>2. CASE ~(i = Len(rs) /\ d \in W)
      BY <2>4, <3>2 DEF Served, GrowsTo
    <3> QED
      BY <3>1, <3>2
  <2>5. ImportsServed(i, rs, ms2, r2, W2)
    <3>1. PICK own \in Seq(Specifiers) : own = OwnImports(i, rs, r)
      BY OwnImportsType
    <3>2. rs[i] \in RunRecord
      BY DEF Chain
    <3>3. rs[i].rest \in Seq(Specifiers) /\ Len(rs[i].rest) \in Nat
      BY <3>2 DEF RunRecord
    <3>4. \A k \in 1..Len(own) - Len(rs[i].rest) : own[k] \in Specifiers
      BY <3>3
    <3> QED
      BY <2>1, <2>3, <2>4, <3>1, <3>4 DEF RunOK, ImportsServed
  <2> QED
    BY <2>1, <2>2, <2>5 DEF RunOK, Compiled, GrowsTo
<1>2. ASSUME NEW s \in Specifiers PROVE ModuleOK(s, rs, ms2, r2)
  BY DEF Chain, ModuleOK, GrowsTo
<1> QED
  BY <1>1, <1>2 DEF Chain

(* The loader goes on, or what is asked for is executed already.           *)
LEMMA ChainKeeps ==
  ASSUME imports \in Programs, NEW rs, NEW ms, NEW r, NEW W, Chain(rs, ms, r, W),
         NEW r2 \in [Specifiers -> Records \cup {None}], Keeps(r, r2), NEW W2 \in SUBSET Specifiers,
         \A d \in W : d \in W2 \/ ms[d].executed \/ ms[d].executing
  PROVE  Chain(rs, ms, r2, W2)
<1>1. ms \in [Specifiers -> ModuleRecord]
  BY DEF Chain
<1>2. GrowsTo(ms, ms, r2)
  <2> SUFFICES ASSUME NEW t \in Specifiers
               PROVE  /\ ms[t].executing => ~ms[t].executed /\ ms[t].known
                      /\ ms[t].executed => ms[t].known
                      /\ ms[t].known /\ ~ms[t].executed => t \notin Json /\ Compiled(r2, t)
    BY DEF GrowsTo
  <2>1. ModuleOK(t, rs, ms, r)
    BY DEF Chain
  <2>2. Compiled(r, t) => Compiled(r2, t)
    BY DEF Keeps, Compiled
  <2> QED
    BY <2>1, <2>2 DEF ModuleOK
<1> QED
  BY <1>1, <1>2, ChainGrows

(* The innermost run fails.                                                *)
LEMMA ChainFails ==
  ASSUME imports \in Programs, NEW rs, NEW ms, NEW r, NEW W, Chain(rs, ms, r, W), rs # <<>>
  PROVE  Chain([rs EXCEPT ![Len(rs)].failed = TRUE], ms, r, {})
<1>1. PICK n \in Nat : n = Len(rs)
  BY DEF Chain
<1>2. PICK rs2 : rs2 = [rs EXCEPT ![Len(rs)].failed = TRUE]
  OBVIOUS
<1>3. rs \in Seq(RunRecord) /\ n > 0 /\ DOMAIN rs = 1..n /\ rs[n] \in RunRecord
  BY <1>1, EmptySeq DEF Chain
<1>4. /\ rs2 \in Seq(RunRecord) /\ Len(rs2) = n
      /\ \A i \in 1..n - 1 : rs2[i] = rs[i]
      /\ \A i \in 1..n : /\ rs2[i].module = rs[i].module /\ rs2[i].rest = rs[i].rest
                        /\ rs2[i].how = rs[i].how
      /\ rs2[n].failed
  <2>1. [rs[n] EXCEPT !.failed = TRUE] \in RunRecord
    BY <1>3 DEF RunRecord
  <2>2. rs2 = [rs EXCEPT ![n] = [rs[n] EXCEPT !.failed = TRUE]]
    BY <1>1, <1>2
  <2>3. rs2 \in Seq(RunRecord) /\ Len(rs2) = n
    BY <1>1, <1>3, <2>1, <2>2, ExceptSeq
  <2> QED
    BY <1>3, <2>1, <2>2, <2>3 DEF RunRecord
<1>5. ASSUME NEW i \in 2..n PROVE RunOK(i, rs2, ms, r, {})
  <2>1. RunOK(i, rs, ms, r, W)
    BY <1>1 DEF Chain
  <2>2. OwnImports(i, rs2, r) = OwnImports(i, rs, r)
    BY <1>4 DEF OwnImports
  <2>3. ASSUME NEW d, i # n, Served(d, i, rs, ms, W) PROVE Served(d, i, rs2, ms, {})
    BY <1>1, <1>4, <2>3 DEF Served
  <2>4. ImportsServed(i, rs2, ms, r, {})
    <3>1. CASE i = n
      BY <1>4, <2>1, <2>2, <3>1 DEF RunOK, ImportsServed
    <3>2. CASE i # n
      BY <1>4, <2>1, <2>2, <2>3, <3>2 DEF RunOK, ImportsServed
    <3> QED
      BY <3>1, <3>2
  <2> QED
    BY <1>4, <2>1, <2>4 DEF RunOK
<1>6. ASSUME NEW s \in Specifiers PROVE ModuleOK(s, rs2, ms, r)
  BY <1>1, <1>4 DEF Chain, ModuleOK
<1>7. \A i, j \in 2..n : rs2[i].module = rs2[j].module => i = j
  <2>1. \A i \in 2..n : rs2[i].module = rs[i].module
    BY <1>4
  <2> QED
    BY <1>1, <2>1 DEF Chain
<1> QED
  BY <1>2, <1>4, <1>5, <1>6, <1>7, ZenonT(30) DEF Chain

(* The innermost run asks for its next import.                             *)
LEMMA ChainAsks ==
  ASSUME imports \in Programs, NEW rs, NEW ms, NEW r, Chain(rs, ms, r, {}),
         rs # <<>>, Last(rs).rest # <<>>
  PROVE  /\ Head(Last(rs).rest) \in Specifiers
         /\ Chain([rs EXCEPT ![Len(rs)].rest = Tail(@)], ms, r, {Head(Last(rs).rest)})
<1>1. PICK n \in Nat : n = Len(rs)
  BY DEF Chain
<1>2. PICK rs2 : rs2 = [rs EXCEPT ![Len(rs)].rest = Tail(@)]
  OBVIOUS
<1>3. rs \in Seq(RunRecord) /\ n > 0 /\ DOMAIN rs = 1..n /\ rs[n] \in RunRecord
  BY <1>1, EmptySeq DEF Chain
<1>4. PICK l \in Seq(Specifiers) : l = rs[n].rest
  BY <1>3 DEF RunRecord
<1>5. PICK d : d = Head(l)
  OBVIOUS
<1>6. l # <<>> /\ Last(rs).rest = l
  BY <1>1, <1>4 DEF Last
<1>7. /\ d \in Specifiers /\ d = l[1] /\ Tail(l) \in Seq(Specifiers) /\ Len(l) \in Nat
      /\ Len(l) > 0 /\ Len(Tail(l)) = Len(l) - 1
      /\ \A k \in 1..Len(l) - 1 : Tail(l)[k] = l[k + 1]
  BY <1>5, <1>6, HeadTailProperties, EmptySeq
<1>8. /\ rs2 \in Seq(RunRecord) /\ Len(rs2) = n
      /\ \A i \in 1..n - 1 : rs2[i] = rs[i]
      /\ \A i \in 1..n : /\ rs2[i].module = rs[i].module /\ rs2[i].failed = rs[i].failed
                        /\ rs2[i].how = rs[i].how
      /\ rs2[n].rest = Tail(l)
  <2>1. [rs[n] EXCEPT !.rest = Tail(l)] \in RunRecord
    BY <1>3, <1>7 DEF RunRecord
  <2>2. rs2 = [rs EXCEPT ![n] = [rs[n] EXCEPT !.rest = Tail(l)]]
    BY <1>1, <1>2, <1>4
  <2>3. rs2 \in Seq(RunRecord) /\ Len(rs2) = n
    BY <1>1, <1>3, <2>1, <2>2, ExceptSeq
  <2> QED
    BY <1>3, <2>1, <2>2, <2>3 DEF RunRecord
<1>9. ASSUME NEW i \in 2..n PROVE RunOK(i, rs2, ms, r, {d})
  <2>1. RunOK(i, rs, ms, r, {})
    BY <1>1 DEF Chain
  <2>2. PICK own : own = OwnImports(i, rs, r)
    OBVIOUS
  <2>3. OwnImports(i, rs2, r) = own /\ own \in Seq(Specifiers) /\ Len(own) \in Nat
    BY <1>1, <1>8, <2>2, OwnImportsType DEF OwnImports
  <2>4. ASSUME NEW x, Served(x, i, rs, ms, {}) PROVE Served(x, i, rs2, ms, {d})
    BY <1>1, <1>8, <2>4 DEF Served
  <2>5. CASE i = n
    <3>1. /\ Len(l) <= Len(own)
          /\ \A k \in 1..Len(l) : l[k] = own[Len(own) - Len(l) + k]
          /\ ~rs[n].failed => \A k \in 1..Len(own) - Len(l) : Served(own[k], n, rs, ms, {})
      BY <1>4, <2>1, <2>2, <2>5 DEF RunOK, ImportsServed, IsLeft
    <3>2. own[Len(own) - Len(l) + 1] = d
      BY <1>7, <3>1
    <3>3. Served(d, n, rs2, ms, {d})
      BY <1>8 DEF Served
    <3>4. ASSUME ~rs[n].failed, NEW k \in 1..Len(own) - Len(Tail(l))
          PROVE  Served(own[k], n, rs2, ms, {d})
      <4>1. CASE k = Len(own) - Len(l) + 1
        BY <3>2, <3>3, <4>1
      <4>2. CASE k # Len(own) - Len(l) + 1
        <5>1. k \in 1..Len(own) - Len(l)
          BY <1>7, <2>3, <4>2
        <5> QED
          BY <2>4, <2>5, <3>1, <3>4, <5>1
      <4> QED
        BY <4>1, <4>2
    <3>5. IsLeft(Tail(l), own)
      BY <1>7, <2>3, <3>1 DEF IsLeft
    <3>6. rs2[i].rest = Tail(l) /\ rs2[i].failed = rs[n].failed /\ OwnImports(i, rs2, r) = own
      BY <1>8, <2>3, <2>5
    <3>7. ImportsServed(i, rs2, ms, r, {d})
      BY <2>5, <3>4, <3>5, <3>6 DEF ImportsServed
    <3> QED
      BY <1>8, <2>1, <3>7 DEF RunOK
  <2>6. CASE i # n
    <3>0. rs2[i] = rs[i] /\ ImportsServed(i, rs, ms, r, {}) /\ OwnImports(i, rs2, r) = own
      BY <1>8, <2>1, <2>3, <2>6 DEF RunOK
    <3>1. ImportsServed(i, rs2, ms, r, {d})
      BY <2>2, <2>4, <3>0 DEF ImportsServed
    <3> QED
      BY <1>8, <2>1, <3>1 DEF RunOK
  <2> QED
    BY <2>5, <2>6
<1>10. ASSUME NEW s \in Specifiers PROVE ModuleOK(s, rs2, ms, r)
  BY <1>1, <1>8 DEF Chain, ModuleOK
<1>11. \A i, j \in 2..n : rs2[i].module = rs2[j].module => i = j
  <2>1. \A i \in 2..n : rs2[i].module = rs[i].module
    BY <1>8
  <2> QED
    BY <1>1, <2>1 DEF Chain
<1>12. Chain(rs2, ms, r, {d})
  BY <1>7, <1>8, <1>9, <1>10, <1>11 DEF Chain
<1> QED
  BY <1>2, <1>5, <1>6, <1>7, <1>12

(* A module starts.                                                        *)
LEMMA ChainStarts ==
  ASSUME imports \in Programs, NEW rs, NEW ms, NEW r, NEW W, Chain(rs, ms, r, W), rs # <<>>,
         NEW s \in Specifiers \ Json, NEW how \in {"static", "dynamic"},
         ~ms[s].executed, ~ms[s].executing, Compiled(r, s),
         W \subseteq (IF how = "static" THEN {s} ELSE {})
  PROVE  Chain(Append(rs, Run(s, how, imports[r[s].file])),
               [ms EXCEPT ![s].known = TRUE, ![s].executing = TRUE], r, {})
<1>1. PICK n \in Nat : n = Len(rs)
  BY DEF Chain
<1>2. PICK x : x = Run(s, how, imports[r[s].file])
  OBVIOUS
<1>3. PICK own : own = imports[r[s].file]
  OBVIOUS
<1>4. own \in Seq(Specifiers) /\ Len(own) \in Nat
  <2>1. r[s] \in Records
    BY DEF Chain, Compiled
  <2> QED
    BY <1>3, <2>1, ProgramTypes DEF Records
<1>5. /\ x \in RunRecord /\ x.module = s /\ x.how = how /\ x.rest = own /\ ~x.failed
  BY <1>2, <1>3, <1>4 DEF Run, RunRecord, Owners
<1>6. PICK rs2 : rs2 = Append(rs, x)
  OBVIOUS
<1>7. /\ rs2 \in Seq(RunRecord) /\ Len(rs2) = n + 1
      /\ \A i \in 1..n : rs2[i] = rs[i]
      /\ rs2[n + 1] = x
  BY <1>1, <1>5, <1>6, AppendedIs DEF Chain
<1>8. n > 0
  BY <1>1, EmptySeq DEF Chain
<1>9. PICK ms2 : ms2 = [ms EXCEPT ![s].known = TRUE, ![s].executing = TRUE]
  OBVIOUS
<1>10. /\ ms2 \in [Specifiers -> ModuleRecord]
       /\ ms2[s].known /\ ms2[s].executing /\ ~ms2[s].executed
       /\ \A t \in Specifiers : t # s => ms2[t] = ms[t]
  BY <1>9 DEF Chain, ModuleRecord
<1>11. \A t \in Specifiers : ms2[t].executed <=> ms[t].executed
  BY <1>10
<1>12. \A i \in 2..n : rs[i].module # s
  BY <1>1 DEF Chain, RunOK
<1>13. ASSUME NEW i \in 2..n PROVE RunOK(i, rs2, ms2, r, {})
  <2>1. RunOK(i, rs, ms, r, W) /\ rs2[i] = rs[i]
    BY <1>1, <1>7 DEF Chain
  <2>2. PICK o \in Seq(Specifiers) : o = OwnImports(i, rs, r) /\ o = OwnImports(i, rs2, r)
    BY <1>1, <2>1, OwnImportsType DEF OwnImports
  <2>3. ASSUME NEW d \in Specifiers, Served(d, i, rs, ms, W) PROVE Served(d, i, rs2, ms2, {})
    <3>1. CASE ms[d].executed
      BY <1>11, <3>1 DEF Served
    <3>2. CASE \E q \in 2..i : rs[q].module = d
      BY <1>7, <3>2 DEF Served
    <3>3. CASE i < Len(rs) /\ rs[i + 1].how = "static" /\ rs[i + 1].module = d
      BY <1>1, <1>7, <3>3 DEF Served
    <3>4. CASE i = Len(rs) /\ d \in W
      BY <1>1, <1>5, <1>7, <3>4 DEF Served
    <3> QED
      BY <2>3, <3>1, <3>2, <3>3, <3>4 DEF Served
  <2>4. \A k \in 1..Len(o) - Len(rs[i].rest) : o[k] \in Specifiers
    <3>1. rs[i] \in RunRecord
      BY <1>1 DEF Chain
    <3> QED
      BY <3>1 DEF RunRecord
  <2>5. ImportsServed(i, rs2, ms2, r, {})
    BY <2>1, <2>2, <2>3, <2>4 DEF RunOK, ImportsServed
  <2>6. ms2[rs[i].module].executing
    BY <1>10, <2>1 DEF RunOK
  <2> QED
    BY <2>1, <2>5, <2>6 DEF RunOK
<1>14. RunOK(n + 1, rs2, ms2, r, {})
  <2>1. OwnImports(n + 1, rs2, r) = own
    BY <1>3, <1>5, <1>7 DEF OwnImports
  <2>2. ImportsServed(n + 1, rs2, ms2, r, {})
    <3>1. IsLeft(own, own) /\ Len(own) - Len(own) = 0
      BY <1>4 DEF IsLeft
    <3>2. rs2[n + 1].rest = own
      BY <1>5, <1>7
    <3> QED
      BY <2>1, <3>1, <3>2 DEF ImportsServed
  <2> QED
    BY <1>5, <1>7, <1>10, <2>2 DEF RunOK
<1>15. \A i \in 2..Len(rs2) : RunOK(i, rs2, ms2, r, {})
  BY <1>7, <1>13, <1>14
<1>16. \A i, j \in 2..Len(rs2) : rs2[i].module = rs2[j].module => i = j
  <2>1. \A i \in 2..n : rs2[i].module # s /\ rs2[i].module = rs[i].module
    BY <1>7, <1>12
  <2>2. \A i, j \in 2..n : rs2[i].module = rs2[j].module => i = j
    BY <1>1, <2>1 DEF Chain
  <2>3. \A i \in 2..Len(rs2) : i \in 2..n \/ i = n + 1
    BY <1>7
  <2> QED
    BY <1>5, <1>7, <2>1, <2>2, <2>3
<1>17. ASSUME NEW t \in Specifiers PROVE ModuleOK(t, rs2, ms2, r)
  <2>1. CASE t = s
    BY <1>5, <1>7, <1>8, <1>10, <2>1 DEF ModuleOK
  <2>2. CASE t # s
    <3>1. ms2[t] = ms[t] /\ ModuleOK(t, rs, ms, r)
      BY <1>10, <2>2 DEF Chain
    <3> QED
      BY <1>1, <1>7, <3>1 DEF ModuleOK
  <2> QED
    BY <2>1, <2>2
<1>18. Chain(rs2, ms2, r, {})
  BY <1>7, <1>10, <1>15, <1>16, <1>17 DEF Chain
<1> QED
  BY <1>2, <1>6, <1>9, <1>18

(* The module of the innermost run is done.                                *)
LEMMA ChainPops ==
  ASSUME imports \in Programs, NEW rs, NEW ms, NEW r, Chain(rs, ms, r, {}), Len(rs) > 1,
         NEW m, m = Last(rs).module,
         NEW ms2 \in [Specifiers -> ModuleRecord],
         \A t \in Specifiers : t # m => ms2[t] = ms[t],
         ms2[m].known, ~ms2[m].executing,
         NEW W, W = IF Last(rs).how = "static" THEN {m} ELSE {}
  PROVE  /\ m \in Specifiers \ Json /\ ms[m].executing /\ Compiled(r, m)
         /\ Chain(Front(rs), ms2, r, W)
<1>1. PICK n \in Nat : n = Len(rs)
  BY DEF Chain
<1>2. n > 1 /\ rs # <<>> /\ rs \in Seq(RunRecord)
  BY <1>1, EmptySeq DEF Chain
<1>3. PICK b : b = Front(rs)
  OBVIOUS
<1>4. /\ b \in Seq(RunRecord) /\ Len(b) = n - 1
      /\ \A i \in 1..n - 1 : b[i] = rs[i]
      /\ Last(rs) = rs[n]
  BY <1>1, <1>2, <1>3, SequenceEnds
<1>5. m = rs[n].module /\ RunOK(n, rs, ms, r, {})
  BY <1>1, <1>2, <1>4 DEF Chain
<1>6. m \in Specifiers \ Json /\ ms[m].executing /\ Compiled(r, m) /\ ~ms[m].executed
  BY <1>5 DEF RunOK, Chain, ModuleOK
<1>7. W = IF Last(rs).how = "static" THEN {m} ELSE {}
  OBVIOUS
<1>8. W \subseteq Specifiers
  BY <1>6
<1>9. ASSUME NEW i \in 2..n - 1 PROVE RunOK(i, b, ms2, r, W)
  <2>0. i \in 2..Len(rs) /\ i < n
    BY <1>1, <1>2
  <2>1. RunOK(i, rs, ms, r, {}) /\ b[i] = rs[i]
    BY <1>4, <2>0 DEF Chain
  <2>2. rs[i].module # m
    BY <1>1, <1>2, <1>5, <2>0 DEF Chain
  <2>3. PICK o \in Seq(Specifiers) : o = OwnImports(i, rs, r) /\ o = OwnImports(i, b, r)
    BY <2>0, <2>1, OwnImportsType DEF OwnImports
  <2>4. ASSUME NEW d \in Specifiers, Served(d, i, rs, ms, {}) PROVE Served(d, i, b, ms2, W)
    <3>1. CASE ms[d].executed
      <4>1. d # m
        BY <1>6, <3>1
      <4> QED
        BY <3>1, <4>1 DEF Served
    <3>2. CASE \E q \in 2..i : rs[q].module = d
      BY <1>4, <3>2 DEF Served
    <3>3. CASE i < Len(rs) /\ rs[i + 1].how = "static" /\ rs[i + 1].module = d
      <4>1. CASE i + 1 = n
        BY <1>4, <1>5, <1>7, <3>3, <4>1 DEF Served
      <4>2. CASE i + 1 # n
        BY <1>1, <1>4, <3>3, <4>2 DEF Served
      <4> QED
        BY <4>1, <4>2
    <3> QED
      BY <2>4, <3>1, <3>2, <3>3 DEF Served
  <2>5. \A k \in 1..Len(o) - Len(rs[i].rest) : o[k] \in Specifiers
    <3>1. rs[i] \in RunRecord
      BY <1>1, <1>2, <2>0 DEF Chain
    <3> QED
      BY <3>1 DEF RunRecord
  <2>6. ImportsServed(i, b, ms2, r, W)
    BY <2>1, <2>3, <2>4, <2>5 DEF RunOK, ImportsServed
  <2> QED
    BY <2>1, <2>2, <2>6 DEF RunOK
<1>10. \A i, j \in 2..n - 1 : b[i].module = b[j].module => i = j
  BY <1>1, <1>4 DEF Chain
<1>11. ASSUME NEW t \in Specifiers PROVE ModuleOK(t, b, ms2, r)
  <2>1. CASE t = m
    BY <1>6, <2>1 DEF ModuleOK
  <2>2. CASE t # m
    <3>1. ms2[t] = ms[t] /\ ModuleOK(t, rs, ms, r)
      BY <2>2 DEF Chain
    <3>2. \A i \in 2..Len(rs) : rs[i].module = t => i \in 2..n - 1 /\ b[i].module = t
      BY <1>1, <1>4, <1>5, <2>2
    <3> QED
      BY <1>4, <3>1, <3>2 DEF ModuleOK
  <2> QED
    BY <2>1, <2>2
<1>12. Chain(b, ms2, r, W)
  BY <1>4, <1>8, <1>9, <1>10, <1>11 DEF Chain
<1> QED
  BY <1>3, <1>6, <1>7, <1>12

-----------------------------------------------------------------------------
(* The steps.                                                              *)

LEMMA InvTypes ==
  ASSUME ExecutionInv
  PROVE  /\ imports \in Programs /\ LoadsOK(registry, loads) /\ heap \in [Names -> Values]
         /\ runs \in Seq(RunRecord) /\ modules \in [Specifiers -> ModuleRecord]
         /\ registry \in [Specifiers -> Records \cup {None}]
         /\ wanted = None => AskedFor = {}
BY DEF ExecutionInv, LoaderInv, Chain, AskedFor

LEMMA WantedTypes ==
  ASSUME ExecutionInv, wanted # None
  PROVE  wanted.spec \in Specifiers /\ wanted.how \in {"static", "dynamic"}
<1>1. wanted \in [spec : Specifiers, how : {"static", "dynamic"}]
  BY DEF ExecutionInv
<1> QED
  BY <1>1

(* The program stays what it is.                                           *)
LEMMA SameProgram ==
  ASSUME imports' = imports, Chain(runs', modules', registry', AskedFor')
  PROVE  Chain(runs, modules, registry, AskedFor)'
BY DEF Chain, RunOK, ImportsServed, OwnImports

(* A step after which the loader is wanted for nothing.                    *)
LEMMA NothingWanted ==
  ASSUME ExecutionInv, loads = <<>>, UNCHANGED <<imports, registry, loads>>,
         heap' \in [Names -> Values], wanted' = None, Chain(runs', modules', registry, {})
  PROVE  ExecutionInv'
<1>1. AskedFor' = {}
  BY DEF AskedFor
<1>2. Chain(runs', modules', registry', AskedFor')
  BY <1>1
<1>3. LoaderInv'
  BY DEF ExecutionInv, LoaderInv
<1>4. wanted' \in [spec : Specifiers, how : {"static", "dynamic"}] \cup {None}
  OBVIOUS
<1>5. (wanted' = None => loads' = <<>>) /\ heap' \in [Names -> Values]
  OBVIOUS
<1> QED
  BY <1>2, <1>3, <1>4, <1>5, SameProgram, Zenon DEF ExecutionInv

(* The module s starts, or finds no room for its registers.                *)
LEMMA StartModuleKeeps ==
  ASSUME imports \in Programs, NEW rs, NEW W, Chain(rs, modules, registry, W), rs # <<>>,
         NEW s \in Specifiers \ Json, NEW how \in {"static", "dynamic"},
         ~modules[s].executed, ~modules[s].executing, Compiled(registry, s),
         W \subseteq (IF how = "static" THEN {s} ELSE {}),
         StartModule(s, how, rs)
  PROVE  Chain(runs', modules', registry, {})
<1>1. CASE /\ modules' = [modules EXCEPT ![s].known = TRUE, ![s].executing = TRUE]
           /\ runs' = Append(rs, Run(s, how, imports[registry[s].file]))
  <2>1. Chain(Append(rs, Run(s, how, imports[registry[s].file])),
              [modules EXCEPT ![s].known = TRUE, ![s].executing = TRUE], registry, {})
    BY ChainStarts
  <2> QED
    BY <1>1, <2>1
<1>2. CASE modules' = [modules EXCEPT ![s].known = TRUE] /\ Failed(rs, how)
  <2>1. PICK ms2 : ms2 = [modules EXCEPT ![s].known = TRUE]
    OBVIOUS
  <2>2. /\ ms2 \in [Specifiers -> ModuleRecord]
        /\ \A t \in Specifiers : /\ ms2[t].executed = modules[t].executed
                                 /\ ms2[t].executing = modules[t].executing
                                 /\ modules[t].known => ms2[t].known
                                 /\ t # s => ms2[t] = modules[t]
    BY <2>1 DEF Chain, ModuleRecord
  <2>3. Chain(rs, ms2, registry, W)
    <3>1. GrowsTo(modules, ms2, registry)
      <4> SUFFICES ASSUME NEW t \in Specifiers
                   PROVE  /\ modules[t].executed => ms2[t].executed
                          /\ ms2[t].executing = modules[t].executing
                          /\ ms2[t].executing => ~ms2[t].executed /\ ms2[t].known
                          /\ ms2[t].executed => ms2[t].known
                          /\ ms2[t].known /\ ~ms2[t].executed => t \notin Json /\ Compiled(registry, t)
        BY DEF GrowsTo
      <4>1. ModuleOK(t, rs, modules, registry)
        BY DEF Chain
      <4>2. CASE t = s
        BY <2>2, <4>1, <4>2 DEF ModuleOK
      <4>3. CASE t # s
        BY <2>2, <4>1, <4>3 DEF ModuleOK
      <4> QED
        BY <4>2, <4>3
    <3>2. W \in SUBSET Specifiers /\ registry \in [Specifiers -> Records \cup {None}]
      BY DEF Chain
    <3>3. Keeps(registry, registry)
      BY DEF Keeps
    <3> QED
      BY <2>2, <3>1, <3>2, <3>3, ChainGrows
  <2>4. CASE how = "static"
    <3>1. runs' = [rs EXCEPT ![Len(rs)].failed = TRUE]
      BY <1>2, <2>4 DEF Failed
    <3>2. Chain([rs EXCEPT ![Len(rs)].failed = TRUE], ms2, registry, {})
      BY <2>3, ChainFails
    <3> QED
      BY <1>2, <2>1, <3>1, <3>2
  <2>5. CASE how = "dynamic"
    <3>1. runs' = rs /\ W = {}
      BY <1>2, <2>5 DEF Failed
    <3> QED
      BY <1>2, <2>1, <2>3, <3>1
  <2> QED
    BY <2>4, <2>5
<1> QED
  BY <1>1, <1>2 DEF StartModule

(* A module is asked for by the innermost of the runs rs.                  *)
LEMMA ExecuteModuleKeeps ==
  ASSUME ExecutionInv, wanted = None, NEW s \in Specifiers, NEW how \in {"static", "dynamic"},
         NEW rs, Chain(rs, modules, registry, IF how = "static" THEN {s} ELSE {}),
         rs # <<>>, ~Last(rs).failed,
         executeModule(s, how, rs), heap' = heap
  PROVE  ExecutionInv'
<1>1. PICK W \in SUBSET Specifiers : W = IF how = "static" THEN {s} ELSE {}
  OBVIOUS
<1>2. Chain(rs, modules, registry, W)
  BY <1>1
<1>3. loads = <<>>
  BY DEF ExecutionInv
<1>4. ASSUME NEW r2 \in [Specifiers -> Records \cup {None}], Keeps(registry, r2), NEW W2 \in SUBSET Specifiers,
             \A d \in W : d \in W2 \/ modules[d].executed \/ modules[d].executing
      PROVE  Chain(rs, modules, r2, W2)
  BY <1>2, <1>4, InvTypes, ChainKeeps
<1>5. CASE /\ modules[s].executed \/ modules[s].executing
           /\ runs' = rs
           /\ UNCHANGED <<loaderVars, frames, frameCount, contexts, current, modules, wanted>>
  <2>1. Keeps(registry, registry) /\ registry \in [Specifiers -> Records \cup {None}]
    BY InvTypes DEF Keeps
  <2>2. Chain(rs, modules, registry, {})
    BY <1>1, <1>4, <1>5, <2>1
  <2> QED
    BY <1>3, <1>5, <2>2, InvTypes, NothingWanted DEF loaderVars
<1>6. CASE /\ ~modules[s].known
           /\ wanted' = [spec |-> s, how |-> how]
           /\ LoadModule(s, Root, <<>>)
           /\ runs' = rs
           /\ UNCHANGED <<imports, frames, frameCount, contexts, current, modules>>
  <2>1. LoadsOK(registry', loads') /\ Keeps(registry, registry')
    BY <1>3, <1>6, InvTypes, LoaderAssumption, LoadModuleKeeps
  <2>2. Chain(rs, modules, registry', W)
    BY <1>4, <2>1 DEF LoadsOK
  <2>3. wanted' \in [spec : Specifiers, how : {"static", "dynamic"}] /\ wanted' # None
    BY <1>6, ExecutionAssumption
  <2>4. AskedFor' = W
    BY <1>1, <1>6, <2>3 DEF AskedFor
  <2>5. Top' = Last(rs)
    BY <1>6 DEF Top, Last
  <2>6. Chain(runs', modules', registry', AskedFor')
    BY <1>6, <2>2, <2>4
  <2>7. LoaderInv'
    BY <1>6, <2>1, InvTypes DEF LoaderInv
  <2>8. wanted'.spec = s
    BY <1>6
  <2>9. ExecutionInv'
    <3>1. heap' \in [Names -> Values] /\ imports' = imports
      BY <1>6, InvTypes
    <3>2. runs' # <<>> /\ ~Top'.failed /\ ~modules'[wanted'.spec].known
      BY <1>6, <2>5, <2>8
    <3>3. wanted' \in [spec : Specifiers, how : {"static", "dynamic"}] \cup {None}
      BY <2>3
    <3> QED
      BY <2>3, <2>6, <2>7, <3>1, <3>2, <3>3, SameProgram, Zenon DEF ExecutionInv
  <2> QED
    BY <2>9
<1>7. CASE /\ modules[s].known /\ ~modules[s].executed /\ ~modules[s].executing
           /\ StartModule(s, how, rs)
           /\ UNCHANGED <<loaderVars, wanted>>
  <2>1. s \notin Json /\ Compiled(registry, s)
    BY <1>2, <1>7 DEF Chain, ModuleOK
  <2>2. Chain(runs', modules', registry, {})
    BY <1>1, <1>2, <1>7, <2>1, InvTypes, StartModuleKeeps
  <2> QED
    BY <1>3, <1>7, <2>2, InvTypes, NothingWanted DEF loaderVars
<1> QED
  BY <1>5, <1>6, <1>7 DEF executeModule

(* An import of the innermost run has failed.                              *)
LEMMA FailedKeeps ==
  ASSUME imports \in Programs, NEW rs, NEW ms, NEW r, NEW W, Chain(rs, ms, r, W), rs # <<>>,
         NEW how \in {"static", "dynamic"}, how = "dynamic" => W = {}, Failed(rs, how)
  PROVE  Chain(runs', ms, r, {})
<1>1. CASE how = "static"
  <2>1. runs' = [rs EXCEPT ![Len(rs)].failed = TRUE]
    BY <1>1 DEF Failed
  <2> QED
    BY <2>1, ChainFails
<1>2. CASE how = "dynamic"
  <2>1. runs' = rs /\ W = {}
    BY <1>2 DEF Failed
  <2> QED
    BY <2>1
<1> QED
  BY <1>1, <1>2

LEMMA LoadingKeeps ==
  ASSUME ExecutionInv, Loading
  PROVE  ExecutionInv'
<1>1. loads # <<>> /\ imports' = imports /\ LoaderNext /\ UNCHANGED executionVars
  BY DEF Loading, LoaderNext, LoadDependency, CheckAndCompile
<1>2. wanted # None /\ LoaderInv
  BY <1>1 DEF ExecutionInv
<1>3. LoaderInv' /\ Keeps(registry, registry')
  BY <1>1, <1>2, LoaderKeeps
<1>4. /\ UNCHANGED <<modules, heap, runs, wanted>>
      /\ AskedFor' = AskedFor /\ Top' = Top
  BY <1>1 DEF executionVars, AskedFor, Top, Last
<1>5. Chain(runs, modules, registry, AskedFor)
  BY DEF ExecutionInv
<1>6. AskedFor \in SUBSET Specifiers /\ registry' \in [Specifiers -> Records \cup {None}]
  BY <1>3, <1>5 DEF Chain, LoaderInv, LoadsOK
<1>7. Chain(runs, modules, registry', AskedFor)
  BY <1>2, <1>3, <1>5, <1>6, ChainKeeps DEF LoaderInv
<1>8. Chain(runs', modules', registry', AskedFor')
  BY <1>4, <1>7
<1>9. /\ heap' \in [Names -> Values]
      /\ wanted' \in [spec : Specifiers, how : {"static", "dynamic"}] \cup {None}
      /\ wanted' # None /\ runs' # <<>> /\ ~Top'.failed /\ ~modules'[wanted'.spec].known
  BY <1>2, <1>4 DEF ExecutionInv
<1> QED
  BY <1>1, <1>3, <1>8, <1>9, SameProgram, Zenon DEF ExecutionInv

LEMMA ModuleLoadedKeeps ==
  ASSUME ExecutionInv, ModuleLoaded
  PROVE  ExecutionInv'
<1>1. /\ wanted # None /\ loads = <<>> /\ wanted' = None
      /\ UNCHANGED <<imports, registry, loads, heap>>
  BY DEF ModuleLoaded, loaderVars
<1>2. PICK s \in Specifiers : s = wanted.spec
  BY <1>1, WantedTypes
<1>3. PICK how \in {"static", "dynamic"} : how = wanted.how
  BY <1>1, WantedTypes
<1>4. PICK W \in SUBSET Specifiers : W = IF how = "static" THEN {s} ELSE {}
  OBVIOUS
<1>5. Chain(runs, modules, registry, W) /\ runs # <<>> /\ ~modules[s].known
  BY <1>1, <1>2, <1>3, <1>4 DEF ExecutionInv, AskedFor
<1>6. ModuleOK(s, runs, modules, registry) /\ modules \in [Specifiers -> ModuleRecord]
  BY <1>5 DEF Chain
<1>7. ~modules[s].executed /\ ~modules[s].executing
  BY <1>5, <1>6 DEF ModuleOK
<1>8. CASE Failed(runs, how) /\ modules' = modules
  <2>1. Chain(runs', modules, registry, {})
    BY <1>4, <1>5, <1>8, InvTypes, FailedKeeps
  <2> QED
    BY <1>1, <1>8, <2>1, InvTypes, NothingWanted
<1>9. CASE s \in Json /\ modules' = [modules EXCEPT ![s] = JsonModule(s)] /\ runs' = runs
  <2>1. PICK x : x = JsonModule(s)
    OBVIOUS
  <2>2. x \in ModuleRecord /\ x.known /\ x.executed /\ ~x.executing
    BY <2>1 DEF JsonModule, Unknown, ModuleRecord, Values
  <2>3. PICK ms2 : ms2 = modules'
    OBVIOUS
  <2>4. /\ ms2 \in [Specifiers -> ModuleRecord] /\ ms2[s] = x
        /\ \A t \in Specifiers : t # s => ms2[t] = modules[t]
    BY <1>6, <1>9, <2>1, <2>2, <2>3
  <2>5. GrowsTo(modules, ms2, registry)
    <3> SUFFICES ASSUME NEW t \in Specifiers
                 PROVE  /\ modules[t].executed => ms2[t].executed
                        /\ ms2[t].executing = modules[t].executing
                        /\ ms2[t].executing => ~ms2[t].executed /\ ms2[t].known
                        /\ ms2[t].executed => ms2[t].known
                        /\ ms2[t].known /\ ~ms2[t].executed => t \notin Json /\ Compiled(registry, t)
      BY DEF GrowsTo
    <3>1. CASE t = s
      <4>1. modules[s] \in ModuleRecord
        BY <1>6
      <4>2. modules[s].executing = x.executing
        BY <1>7, <2>2, <4>1 DEF ModuleRecord
      <4> QED
        BY <2>2, <2>4, <3>1, <4>2
    <3>2. CASE t # s
      <4>1. ModuleOK(t, runs, modules, registry)
        BY <1>5 DEF Chain
      <4> QED
        BY <2>4, <3>2, <4>1 DEF ModuleOK
    <3> QED
      BY <3>1, <3>2
  <2>6. \A d \in W : ms2[d].executed
    BY <1>4, <2>2, <2>4
  <2>7. Keeps(registry, registry)
    BY DEF Keeps
  <2>8. Chain(runs, ms2, registry, {})
    BY <1>5, <2>4, <2>5, <2>6, <2>7, InvTypes, ChainGrows
  <2> QED
    BY <1>1, <1>9, <2>3, <2>8, InvTypes, NothingWanted
<1>10. CASE Compiled(registry, s) /\ s \notin Json /\ StartModule(s, how, runs)
  <2>1. Chain(runs', modules', registry, {})
    BY <1>4, <1>5, <1>7, <1>10, InvTypes, StartModuleKeeps
  <2> QED
    BY <1>1, <2>1, InvTypes, NothingWanted
<1> QED
  BY <1>2, <1>3, <1>8, <1>9, <1>10 DEF ModuleLoaded, Compiled

LEMMA ImportsKeep ==
  ASSUME ExecutionInv
  PROVE  /\ OpEvalModule => ExecutionInv'
         /\ \A s \in Specifiers : OpDynamicImport(s) => ExecutionInv'
<1>1. ASSUME OpEvalModule PROVE ExecutionInv'
  <2>1. wanted = None /\ runs # <<>> /\ ~Top.failed /\ Top.rest # <<>> /\ heap' = heap
    BY <1>1 DEF OpEvalModule, Running
  <2>2. AskedFor = {} /\ Chain(runs, modules, registry, {})
    BY <2>1, InvTypes DEF ExecutionInv
  <2>3. PICK s : s = Head(Last(runs).rest)
    OBVIOUS
  <2>4. PICK rs : rs = [runs EXCEPT ![Len(runs)].rest = Tail(@)]
    OBVIOUS
  <2>5. s \in Specifiers /\ Chain(rs, modules, registry, {s})
    BY <2>1, <2>2, <2>3, <2>4, InvTypes, ChainAsks DEF Top
  <2>6. executeModule(s, "static", rs)
    BY <1>1, <2>3, <2>4 DEF OpEvalModule, Top
  <2>7. rs # <<>> /\ Last(rs).failed = Last(runs).failed
    <3>1. runs \in Seq(RunRecord)
      BY InvTypes
    <3>2. Len(runs) \in Nat /\ Len(runs) > 0 /\ DOMAIN runs = 1..Len(runs) /\ runs[Len(runs)] \in RunRecord
      BY <2>1, <3>1, EmptySeq
    <3>3. rs = [runs EXCEPT ![Len(runs)] = [runs[Len(runs)] EXCEPT !.rest = Tail(@)]]
      BY <2>4
    <3>4. Len(rs) = Len(runs) /\ rs[Len(rs)].failed = runs[Len(runs)].failed
      BY <3>1, <3>2, <3>3 DEF RunRecord
    <3> QED
      BY <3>2, <3>4 DEF Last
  <2>8. Chain(rs, modules, registry, IF "static" = "static" THEN {s} ELSE {})
    BY <2>5
  <2> QED
    BY <2>1, <2>5, <2>6, <2>7, <2>8, ExecuteModuleKeeps DEF Top
<1>2. ASSUME NEW s \in Specifiers, OpDynamicImport(s) PROVE ExecutionInv'
  <2>1. wanted = None /\ runs # <<>> /\ ~Top.failed /\ heap' = heap /\ executeModule(s, "dynamic", runs)
    BY <1>2 DEF OpDynamicImport, Step, Body, Running
  <2>2. Chain(runs, modules, registry, {})
    BY <2>1, InvTypes DEF ExecutionInv
  <2>3. Chain(runs, modules, registry, IF "dynamic" = "static" THEN {s} ELSE {})
    BY <2>2
  <2> QED
    BY <2>1, <2>3, ExecuteModuleKeeps DEF Top
<1> QED
  BY <1>1, <1>2

LEMMA ModuleTop ==
  ASSUME ExecutionInv, Len(runs) > 1
  PROVE  Top.module \in Specifiers /\ modules[Top.module].known /\ ~modules[Top.module].executed
<1>1. Len(runs) \in 2..Len(runs) /\ runs \in Seq(RunRecord)
  BY InvTypes
<1>2. RunOK(Len(runs), runs, modules, registry, AskedFor)
  BY <1>1 DEF ExecutionInv, Chain
<1>3. Top.module \in Specifiers /\ modules[Top.module].executing
  BY <1>2 DEF RunOK, Top, Last
<1> QED
  BY <1>3 DEF ExecutionInv, Chain, ModuleOK

(* Of the last two steps of a program, and those that leave the modules    *)
(* alone.                                                                  *)
LEMMA PlainStepKeeps ==
  ASSUME ExecutionInv, wanted = None, UNCHANGED <<loaderVars, wanted>>, heap' \in [Names -> Values],
         modules' = modules,
         \/ runs' = runs
         \/ runs # <<>> /\ runs' = [runs EXCEPT ![Len(runs)].failed = TRUE]
         \/ Len(runs) = 1 /\ runs' = <<>>
  PROVE  ExecutionInv'
<1>1. loads = <<>> /\ UNCHANGED <<imports, registry, loads>> /\ wanted' = None
  BY DEF ExecutionInv, loaderVars
<1>2. Chain(runs, modules, registry, {})
  BY InvTypes DEF ExecutionInv
<1>3. CASE runs' = runs
  BY <1>1, <1>2, <1>3, NothingWanted
<1>4. CASE runs # <<>> /\ runs' = [runs EXCEPT ![Len(runs)].failed = TRUE]
  <2>1. Chain(runs', modules, registry, {})
    BY <1>2, <1>4, InvTypes, ChainFails
  <2> QED
    BY <1>1, <2>1, NothingWanted
<1>5. CASE Len(runs) = 1 /\ runs' = <<>>
  <2>1. PICK rs : rs = <<>>
    OBVIOUS
  <2>2. rs \in Seq(RunRecord) /\ Len(rs) = 0
    BY <2>1
  <2>3. \A s \in Specifiers : ModuleOK(s, rs, modules, registry)
    BY <1>2, <1>5 DEF Chain, ModuleOK
  <2>4. Chain(rs, modules, registry, {})
    BY <1>2, <2>2, <2>3 DEF Chain
  <2> QED
    BY <1>1, <1>5, <2>1, <2>4, NothingWanted
<1> QED
  BY <1>3, <1>4, <1>5

LEMMA VariablesKeep ==
  ASSUME ExecutionInv
  PROVE  /\ OpSetGlobal => ExecutionInv'
         /\ \A s \in Specifiers : ReExport(s) => ExecutionInv'
<1>1. ASSUME NEW s \in Specifiers, NEW x \in Values PROVE [heap EXCEPT ![Export[s]] = x] \in [Names -> Values]
  BY InvTypes, ExecutionAssumption
<1>2. ASSUME OpSetGlobal PROVE ExecutionInv'
  <2>1. /\ wanted = None /\ runs # <<>> /\ Top.module # Script
        /\ heap' = [heap EXCEPT ![Export[Top.module]] = Top.module]
        /\ UNCHANGED <<loaderVars, modules, runs, wanted>>
    BY <1>2 DEF OpSetGlobal, Step, Body, Running
  <2>2. Top.module \in Owners
    <3>1. runs \in Seq(RunRecord)
      BY InvTypes
    <3>2. Last(runs) \in RunRecord
      BY <2>1, <3>1, SequenceEnds
    <3> QED
      BY <3>2 DEF Top, RunRecord
  <2>3. heap' \in [Names -> Values]
    BY <1>1, <2>1, <2>2 DEF Owners, Values
  <2> QED
    BY <2>1, <2>3, PlainStepKeeps
<1>3. ASSUME NEW s \in Specifiers, ReExport(s) PROVE ExecutionInv'
  <2>1. /\ wanted = None
        /\ heap' = [heap EXCEPT ![Export[s]] = IF modules[s].exports = None THEN Unset ELSE modules[s].exports]
        /\ UNCHANGED <<loaderVars, modules, runs, wanted>>
    BY <1>3 DEF ReExport, Step, Body, Running
  <2>2. modules[s] \in ModuleRecord
    BY InvTypes
  <2>3. (IF modules[s].exports = None THEN Unset ELSE modules[s].exports) \in Values
    BY <2>2 DEF ModuleRecord, Values
  <2>4. heap' \in [Names -> Values]
    BY <1>1, <2>1, <2>3
  <2> QED
    BY <2>1, <2>4, PlainStepKeeps
<1> QED
  BY <1>2, <1>3

LEMMA NamespaceKeeps ==
  ASSUME ExecutionInv, NEW s \in Specifiers, OpCreateNamespace(s)
  PROVE  ExecutionInv'
<1>1. PICK e : e = IF modules[s].exports = None THEN Exports(s) ELSE modules[s].exports
  OBVIOUS
<1>2. PICK n : n = IF modules[s].exports = None \/ modules[s].namespace = None THEN e ELSE modules[s].namespace
  OBVIOUS
<1>3. /\ wanted = None
      /\ modules' = [modules EXCEPT ![s] = [@ EXCEPT !.exports = e, !.namespace = n]]
      /\ UNCHANGED <<loaderVars, heap, runs, wanted>>
  BY <1>1, <1>2 DEF OpCreateNamespace, Step, Body, Running
<1>4. modules \in [Specifiers -> ModuleRecord] /\ modules[s] \in ModuleRecord
  BY InvTypes
<1>5. Exports(s) \in Values
  BY InvTypes, ExecutionAssumption DEF Exports
<1>6. e \in Values \cup {None} /\ n \in Values \cup {None}
  BY <1>1, <1>2, <1>4, <1>5 DEF ModuleRecord
<1>7. PICK ms2 : ms2 = modules'
  OBVIOUS
<1>8. /\ ms2 \in [Specifiers -> ModuleRecord]
      /\ \A t \in Specifiers : /\ ms2[t].executed = modules[t].executed
                               /\ ms2[t].executing = modules[t].executing
                               /\ ms2[t].known = modules[t].known
  <2>1. PICK x : x = [modules[s] EXCEPT !.exports = e, !.namespace = n]
    OBVIOUS
  <2>2. /\ x \in ModuleRecord /\ x.executed = modules[s].executed
        /\ x.executing = modules[s].executing /\ x.known = modules[s].known
    BY <1>4, <1>6, <2>1 DEF ModuleRecord
  <2>3. ms2 = [modules EXCEPT ![s] = x]
    BY <1>3, <1>7, <2>1
  <2> QED
    BY <1>4, <2>2, <2>3
<1>9. Chain(runs, modules, registry, {}) /\ loads = <<>>
  BY <1>3, InvTypes DEF ExecutionInv
<1>10. GrowsTo(modules, ms2, registry)
  BY <1>8, <1>9 DEF GrowsTo, Chain, ModuleOK
<1>11. Keeps(registry, registry)
  BY DEF Keeps
<1>12. Chain(runs, ms2, registry, {})
  BY <1>8, <1>9, <1>10, <1>11, InvTypes, ChainGrows
<1> QED
  BY <1>3, <1>7, <1>9, <1>12, InvTypes, NothingWanted DEF loaderVars

LEMMA ModuleEndsKeeps ==
  ASSUME ExecutionInv, ModuleEnds
  PROVE  ExecutionInv'
<1>1. PICK m : m = Last(runs).module
  OBVIOUS
<1>2. PICK f : f = Last(runs).failed
  OBVIOUS
<1>3. PICK e : e = IF f THEN modules[m].exports ELSE Exports(m)
  OBVIOUS
<1>4. Top = Last(runs) /\ Top.module = m /\ Top.failed = f
  BY <1>1, <1>2 DEF Top
<1>5. /\ wanted = None /\ Len(runs) > 1 /\ UNCHANGED <<imports, registry, loads, heap, wanted>>
      /\ f => Failed(Front(runs), Last(runs).how)
      /\ ~f => runs' = Front(runs)
      /\ modules' = [modules EXCEPT ![m] =
                        [@ EXCEPT !.executing = FALSE, !.executed = ~f, !.exports = e]]
  <2>1. wanted = None /\ Len(runs) > 1 /\ UNCHANGED <<imports, registry, loads, heap, wanted>>
    BY DEF ModuleEnds, Ended, loaderVars
  <2>2. IF Top.failed THEN Failed(Front(runs), Top.how) ELSE runs' = Front(runs)
    BY DEF ModuleEnds
  <2>3. modules' = [modules EXCEPT
                          ![m].executing = FALSE,
                          ![m].executed = ~f,
                          ![m].exports = IF f THEN @ ELSE Exports(m)]
    BY <1>4, Zenon DEF ModuleEnds
  <2>4. modules' = [modules EXCEPT ![m] =
                        [@ EXCEPT !.executing = FALSE, !.executed = ~f, !.exports = e]]
    BY <1>3, <2>3
  <2> QED
    BY <1>4, <2>1, <2>2, <2>4
<1>6. m \in Specifiers /\ modules[m].known /\ ~modules[m].executed
  BY <1>1, <1>5, ModuleTop DEF Top
<1>7. runs \in Seq(RunRecord) /\ modules \in [Specifiers -> ModuleRecord] /\ modules[m] \in ModuleRecord
  BY <1>6, InvTypes
<1>8. runs # <<>> /\ Len(runs) \in Nat
  BY <1>5, <1>7
<1>9. /\ Last(runs) \in RunRecord /\ f \in BOOLEAN
      /\ Front(runs) \in Seq(RunRecord) /\ Len(Front(runs)) = Len(runs) - 1
      /\ \A i \in 1..Len(runs) - 1 : Front(runs)[i] = runs[i]
      /\ Last(runs) = runs[Len(runs)]
  <2>1. Last(runs) \in RunRecord
    BY <1>7, <1>8, SequenceEnds
  <2> QED
    BY <1>2, <1>7, <1>8, <2>1, SequenceEnds DEF RunRecord
<1>10. Last(runs).how \in {"static", "dynamic"}
  <2>1. Len(runs) \in 2..Len(runs)
    BY <1>5, <1>8
  <2>2. RunOK(Len(runs), runs, modules, registry, AskedFor)
    BY <2>1 DEF ExecutionInv, Chain
  <2> QED
    BY <1>9, <2>2 DEF RunOK, RunRecord
<1>11. PICK ms2 : ms2 = modules'
  OBVIOUS
<1>12. /\ ms2 \in [Specifiers -> ModuleRecord]
       /\ \A t \in Specifiers : t # m => ms2[t] = modules[t]
       /\ ms2[m].known /\ ~ms2[m].executing /\ (ms2[m].executed <=> ~f)
  <2>1. Exports(m) \in Values
    BY <1>6, InvTypes, ExecutionAssumption DEF Exports
  <2>2. e \in Values \cup {None}
    BY <1>7, <1>3, <2>1 DEF ModuleRecord
  <2>3. PICK x : x = [modules[m] EXCEPT !.executing = FALSE, !.executed = ~f, !.exports = e]
    OBVIOUS
  <2>4. x \in ModuleRecord /\ x.known = modules[m].known /\ x.executing = FALSE /\ x.executed = ~f
    BY <1>7, <1>9, <2>2, <2>3 DEF ModuleRecord
  <2>5. ms2 = [modules EXCEPT ![m] = x]
    BY <1>5, <1>11, <2>3
  <2> QED
    BY <1>6, <1>7, <2>4, <2>5
<1>13. Chain(runs, modules, registry, {}) /\ loads = <<>>
  BY <1>5, InvTypes DEF ExecutionInv
<1>14. PICK W : W = IF Last(runs).how = "static" THEN {m} ELSE {}
  OBVIOUS
<1>15. Chain(Front(runs), ms2, registry, W)
  BY <1>1, <1>5, <1>12, <1>13, <1>14, InvTypes, ChainPops
<1>16. CASE f
  <2>1. Front(runs) # <<>>
    BY <1>5, <1>8, <1>9
  <2>2. Failed(Front(runs), Last(runs).how) /\ (Last(runs).how = "dynamic" => W = {})
    BY <1>5, <1>14, <1>16
  <2>3. Chain(runs', ms2, registry, {})
    BY <1>10, <1>15, <2>1, <2>2, InvTypes, FailedKeeps
  <2> QED
    BY <1>5, <1>11, <1>13, <2>3, InvTypes, NothingWanted
<1>17. CASE ~f
  <2>1. \A d \in W : ms2[d].executed
    BY <1>12, <1>14, <1>17
  <2>2. Keeps(registry, registry)
    BY DEF Keeps
  <2>3. Chain(Front(runs), ms2, registry, {})
    BY <1>15, <2>1, <2>2, InvTypes, ChainKeeps
  <2>4. runs' = Front(runs)
    BY <1>5, <1>17
  <2> QED
    BY <1>5, <1>11, <1>13, <2>3, <2>4, InvTypes, NothingWanted
<1> QED
  BY <1>9, <1>16, <1>17

LEMMA InitInv ==
  ASSUME Init
  PROVE  ExecutionInv
<1>1. imports \in Programs /\ registry = [s \in Specifiers |-> None] /\ loads = <<>>
  BY DEF Init, LoaderInit
<1>2. LoaderInv
  BY <1>1 DEF LoaderInv, LoadsOK
<1>3. PICK x : x = Run(Script, "script", imports[Root])
  OBVIOUS
<1>4. x \in RunRecord
  BY <1>1, <1>3, ProgramTypes, LoaderAssumption DEF Run, RunRecord, Owners
<1>5. runs = <<x>> /\ wanted = None /\ modules = [s \in Specifiers |-> Unknown]
  BY <1>3 DEF Init
<1>6. runs \in Seq(RunRecord) /\ Len(runs) = 1
  BY <1>4, <1>5
<1>7. modules \in [Specifiers -> ModuleRecord]
  BY <1>5 DEF Unknown, ModuleRecord
<1>8. \A s \in Specifiers : ModuleOK(s, runs, modules, registry)
  BY <1>5 DEF ModuleOK, Unknown
<1>9. AskedFor = {} /\ registry \in [Specifiers -> Records \cup {None}]
  BY <1>1, <1>5 DEF AskedFor
<1>10. Chain(runs, modules, registry, AskedFor)
  BY <1>6, <1>7, <1>8, <1>9 DEF Chain
<1>11. heap \in [Names -> Values]
  BY DEF Init, Values
<1> QED
  BY <1>1, <1>2, <1>5, <1>10, <1>11 DEF ExecutionInv

LEMMA NextKeeps ==
  ASSUME ExecutionInv, [Next]_vars
  PROVE  ExecutionInv'
<1>1. CASE Loading
  BY <1>1, LoadingKeeps
<1>2. CASE ModuleLoaded
  BY <1>2, ModuleLoadedKeeps
<1>3. CASE OpEvalModule
  BY <1>3, ImportsKeep
<1>4. ASSUME Call \/ Return PROVE ExecutionInv'
  <2>1. wanted = None /\ UNCHANGED <<loaderVars, heap, modules, runs, wanted>>
    BY <1>4 DEF Call, Return, Step, Body, Running
  <2> QED
    BY <2>1, InvTypes, PlainStepKeeps
<1>5. CASE OpSetGlobal
  BY <1>5, VariablesKeep
<1>6. CASE OpThrow
  <2>1. /\ wanted = None /\ UNCHANGED <<loaderVars, heap, modules, wanted>>
        /\ runs # <<>> /\ runs' = [runs EXCEPT ![Len(runs)].failed = TRUE]
    BY <1>6 DEF OpThrow, Running
  <2> QED
    BY <2>1, InvTypes, PlainStepKeeps
<1>7. CASE ModuleEnds
  BY <1>7, ModuleEndsKeeps
<1>8. CASE ScriptEnds
  <2>1. /\ wanted = None /\ UNCHANGED <<loaderVars, heap, modules, wanted>>
        /\ Len(runs) = 1 /\ runs' = <<>>
    BY <1>8 DEF ScriptEnds, Ended
  <2> QED
    BY <2>1, InvTypes, PlainStepKeeps
<1>9. ASSUME NEW s \in Specifiers, OpDynamicImport(s) \/ OpCreateNamespace(s) \/ ReExport(s)
      PROVE  ExecutionInv'
  BY <1>9, ImportsKeep, NamespaceKeeps, VariablesKeep
<1>10. CASE UNCHANGED vars
  <2>1. UNCHANGED <<imports, registry, loads, heap, modules, runs, wanted>>
    BY <1>10 DEF vars, loaderVars, executionVars
  <2> QED
    BY <2>1 DEF ExecutionInv, LoaderInv, LoadsOK, LoadRecord, Chain, AskedFor, Top, Last, RunOK, ModuleOK,
                ImportsServed, OwnImports
<1> QED
  BY <1>1, <1>2, <1>3, <1>4, <1>5, <1>6, <1>7, <1>8, <1>9, <1>10 DEF Next

LEMMA ExecutionAlways == Spec => []ExecutionInv
BY InitInv, NextKeeps, PTL DEF Spec

(* No module is loaded within its own loading, and a module is compiled    *)
(* after everything it imports, except what is still being loaded around   *)
(* it: the records of pkg/modules/registry.go end the cycles of imports.   *)
THEOREM LoadingOrder == Spec => []LoadOrder
<1>1. ExecutionInv => LoadOrder
  <2> SUFFICES ASSUME ExecutionInv PROVE LoadOrder
    OBVIOUS
  <2>1. LoadsOK(registry, loads) /\ imports \in Programs
    BY InvTypes
  <2>2. ASSUME NEW s \in Specifiers \ Json, registry[s] # None, NEW i \in DOMAIN imports[registry[s].file],
               NEW d, d = imports[registry[s].file][i], registry[d] # None, registry[d].state = "resolved"
        PROVE  d \in BeingLoaded
    <3>1. registry[s].file \in Files
      BY <2>1, <2>2 DEF LoadsOK, Records
    <3>2. d \in Specifiers
      BY <2>1, <2>2, <3>1, ProgramTypes
    <3> QED
      BY <2>1, <2>2, <3>2 DEF LoadsOK, BeingLoaded
  <2> QED
    BY <2>1, <2>2 DEF LoadOrder, LoadsOK
<1> QED
  BY <1>1, ExecutionAlways, PTL

-----------------------------------------------------------------------------
(* Modules are evaluated as ModuleEvaluation says.                         *)

Executed(ms) == {s \in Specifiers : ms[s].executed}

StackOf(rs) == [i \in 1..Len(rs) - 1 |-> rs[i + 1].module]

EvaluationStep == [Evaluation!EvaluationNext]_(Evaluation!evaluationVars)

LEMMA StackIs ==
  ASSUME NEW rs \in Seq(RunRecord)
  PROVE  /\ StackOf(rs) \in Seq(Owners)
         /\ rs # <<>> => Len(StackOf(rs)) = Len(rs) - 1
         /\ \A i \in 1..Len(rs) - 1 : StackOf(rs)[i] = rs[i + 1].module
<1>1. PICK n \in Nat : n = Len(rs)
  OBVIOUS
<1>2. \A i \in 1..n - 1 : rs[i + 1].module \in Owners
  <2> TAKE i \in 1..n - 1
  <2>1. rs[i + 1] \in RunRecord
    BY <1>1
  <2> QED
    BY <2>1 DEF RunRecord
<1>3. PICK st : st = StackOf(rs)
  OBVIOUS
<1>4. st = [i \in 1..n - 1 |-> rs[i + 1].module]
  BY <1>1, <1>3 DEF StackOf
<1>5. CASE n = 0
  <2>1. 1..n - 1 = 1..0
    BY <1>5
  <2>2. st = [i \in 1..0 |-> rs[i + 1].module]
    BY <1>4, <2>1
  <2>3. st \in Seq(Owners)
    BY <2>2
  <2>4. rs = <<>>
    BY <1>1, <1>5, EmptySeq
  <2> QED
    BY <1>1, <1>3, <2>1, <2>3, <2>4
<1>6. CASE n > 0
  <2>1. n - 1 \in Nat
    BY <1>6
  <2>2. st \in Seq(Owners) /\ Len(st) = n - 1
    BY <1>2, <1>4, <2>1
  <2> QED
    BY <1>1, <1>3, <1>4, <2>2
<1> QED
  BY <1>5, <1>6

(* The same modules run.                                                   *)
SameModules(rs, rs2) == Len(rs2) = Len(rs) /\ \A i \in 1..Len(rs) : rs2[i].module = rs[i].module

LEMMA StackSame ==
  ASSUME NEW rs \in Seq(RunRecord), NEW rs2 \in Seq(RunRecord), SameModules(rs, rs2)
  PROVE  StackOf(rs2) = StackOf(rs)
<1>1. \A i \in 1..Len(rs) - 1 : rs2[i + 1].module = rs[i + 1].module
  BY DEF SameModules
<1> QED
  BY <1>1 DEF StackOf, SameModules

LEMMA RunChanged ==
  ASSUME NEW rs \in Seq(RunRecord), rs # <<>>, NEW x \in RunRecord, x.module = rs[Len(rs)].module,
         NEW rs2, rs2 = [rs EXCEPT ![Len(rs)] = x]
  PROVE  rs2 \in Seq(RunRecord) /\ SameModules(rs, rs2) /\ rs2 # <<>> /\ Last(rs2) = x
<1>1. PICK n \in Nat : n = Len(rs) /\ n > 0
  BY EmptySeq
<1>2. DOMAIN rs = 1..n /\ n \in 1..n
  BY <1>1
<1>3. rs2 \in Seq(RunRecord) /\ Len(rs2) = n
  BY <1>1, <1>2, ExceptSeq
<1>4. ASSUME NEW i \in 1..n PROVE rs2[i].module = rs[i].module
  <2>1. CASE i = n
    BY <1>1, <1>2, <2>1
  <2>2. CASE i # n
    BY <1>1, <1>2, <2>2
  <2> QED
    BY <2>1, <2>2
<1>5. rs2 # <<>>
  BY <1>1, <1>3
<1>6. rs2[Len(rs2)] = x
  BY <1>1, <1>2, <1>3
<1> QED
  BY <1>1, <1>3, <1>4, <1>5, <1>6 DEF Last, SameModules

(* The innermost run fails.                                                *)
LEMMA RunFails ==
  ASSUME NEW rs \in Seq(RunRecord), rs # <<>>, NEW rs2, rs2 = [rs EXCEPT ![Len(rs)].failed = TRUE]
  PROVE  /\ rs2 \in Seq(RunRecord) /\ SameModules(rs, rs2) /\ rs2 # <<>>
         /\ Last(rs2).rest = Last(rs).rest
<1>1. rs[Len(rs)] \in RunRecord
  BY EmptySeq
<1>2. PICK x : x = [rs[Len(rs)] EXCEPT !.failed = TRUE]
  OBVIOUS
<1>3. x \in RunRecord /\ x.module = rs[Len(rs)].module /\ x.rest = rs[Len(rs)].rest
  BY <1>1, <1>2 DEF RunRecord
<1>4. rs2 = [rs EXCEPT ![Len(rs)] = x]
  BY <1>2
<1>5. rs2 \in Seq(RunRecord) /\ SameModules(rs, rs2) /\ rs2 # <<>> /\ Last(rs2) = x
  BY <1>3, <1>4, RunChanged
<1> QED
  BY <1>3, <1>5 DEF Last

(* The innermost run asks for its next import.                             *)
LEMMA RunAsks ==
  ASSUME NEW rs \in Seq(RunRecord), rs # <<>>, Last(rs).rest # <<>>,
         NEW rs2, rs2 = [rs EXCEPT ![Len(rs)].rest = Tail(@)]
  PROVE  rs2 \in Seq(RunRecord) /\ SameModules(rs, rs2) /\ rs2 # <<>>
<1>1. rs[Len(rs)] \in RunRecord
  BY EmptySeq
<1>2. PICK l \in Seq(Specifiers) : l = rs[Len(rs)].rest
  BY <1>1 DEF RunRecord
<1>3. Tail(l) \in Seq(Specifiers)
  BY <1>2 DEF Last
<1>4. PICK x : x = [rs[Len(rs)] EXCEPT !.rest = Tail(l)]
  OBVIOUS
<1>5. x \in RunRecord /\ x.module = rs[Len(rs)].module
  BY <1>1, <1>3, <1>4 DEF RunRecord
<1>6. rs2 = [rs EXCEPT ![Len(rs)] = x]
  BY <1>2, <1>4
<1> QED
  BY <1>5, <1>6, RunChanged

LEMMA StackChanged ==
  ASSUME NEW rs \in Seq(RunRecord), rs # <<>>
  PROVE  /\ StackOf([rs EXCEPT ![Len(rs)].failed = TRUE]) = StackOf(rs)
         /\ Last(rs).rest # <<>> => StackOf([rs EXCEPT ![Len(rs)].rest = Tail(@)]) = StackOf(rs)
<1>1. PICK rs2 : rs2 = [rs EXCEPT ![Len(rs)].failed = TRUE]
  OBVIOUS
<1>2. StackOf(rs2) = StackOf(rs)
  BY <1>1, RunFails, StackSame
<1>3. PICK rs3 : rs3 = [rs EXCEPT ![Len(rs)].rest = Tail(@)]
  OBVIOUS
<1>4. Last(rs).rest # <<>> => StackOf(rs3) = StackOf(rs)
  BY <1>3, RunAsks, StackSame
<1> QED
  BY <1>1, <1>2, <1>3, <1>4

LEMMA StackGrows ==
  ASSUME NEW rs \in Seq(RunRecord), rs # <<>>, NEW x \in RunRecord
  PROVE  StackOf(Append(rs, x)) = Append(StackOf(rs), x.module)
<1>1. PICK n \in Nat : n = Len(rs) /\ n > 0
  BY EmptySeq
<1>2. PICK rs2 : rs2 = Append(rs, x)
  OBVIOUS
<1>3. /\ rs2 \in Seq(RunRecord) /\ Len(rs2) = n + 1
      /\ \A i \in 1..n : rs2[i] = rs[i]
      /\ rs2[n + 1] = x
  BY <1>1, <1>2, AppendedIs
<1>4. PICK st \in Seq(Owners) : st = StackOf(rs)
  BY StackIs
<1>5. Len(st) = n - 1 /\ \A i \in 1..n - 1 : st[i] = rs[i + 1].module
  BY <1>1, <1>4, StackIs
<1>6. x.module \in Owners
  BY DEF RunRecord
<1>7. PICK st2 : st2 = Append(st, x.module)
  OBVIOUS
<1>8. /\ st2 \in Seq(Owners) /\ Len(st2) = n
      /\ \A i \in 1..n - 1 : st2[i] = st[i]
      /\ st2[n] = x.module
  BY <1>1, <1>5, <1>6, <1>7, AppendedIs
<1>9. \A i \in 1..n : st2[i] = rs2[i + 1].module
  BY <1>1, <1>3, <1>5, <1>8
<1>10. st2 = [i \in 1..n |-> rs2[i + 1].module]
  BY <1>8, <1>9
<1> QED
  BY <1>2, <1>3, <1>4, <1>7, <1>10 DEF StackOf

LEMMA StackShrinks ==
  ASSUME NEW rs \in Seq(RunRecord), Len(rs) > 1
  PROVE  /\ StackOf(rs) # <<>> /\ StackOf(rs)[Len(StackOf(rs))] = Last(rs).module
         /\ StackOf(Front(rs)) = SubSeq(StackOf(rs), 1, Len(StackOf(rs)) - 1)
<1>1. PICK n \in Nat : n = Len(rs) /\ n > 1 /\ rs # <<>>
  OBVIOUS
<1>2. PICK b : b = Front(rs)
  OBVIOUS
<1>3. /\ b \in Seq(RunRecord) /\ Len(b) = n - 1
      /\ \A i \in 1..n - 1 : b[i] = rs[i]
      /\ Last(rs) = rs[n]
  BY <1>1, <1>2, SequenceEnds
<1>4. PICK st \in Seq(Owners) : st = StackOf(rs)
  BY StackIs
<1>5. Len(st) = n - 1 /\ \A i \in 1..n - 1 : st[i] = rs[i + 1].module
  BY <1>1, <1>4, StackIs
<1>6. PICK st2 : st2 = SubSeq(st, 1, n - 2)
  OBVIOUS
<1>7. st2 \in Seq(Owners) /\ Len(st2) = n - 2 /\ \A i \in 1..n - 2 : st2[i] = st[i]
  BY <1>1, <1>5, <1>6
<1>8. st2 = [i \in 1..n - 2 |-> b[i + 1].module]
  BY <1>1, <1>3, <1>5, <1>7
<1>9. StackOf(b) = st2
  BY <1>1, <1>3, <1>8 DEF StackOf
<1>10. st # <<>> /\ st[Len(st)] = Last(rs).module
  BY <1>1, <1>3, <1>5
<1>11. Len(st) - 1 = n - 2
  BY <1>1, <1>5
<1> QED
  BY <1>2, <1>4, <1>6, <1>9, <1>10, <1>11

LEMMA Stutters ==
  ASSUME StackOf(runs') = StackOf(runs),
         \A s \in Specifiers : modules'[s].executed <=> modules[s].executed
  PROVE  EvaluationStep
<1>1. Executed(modules') = Executed(modules)
  BY DEF Executed
<1> QED
  BY <1>1 DEF EvaluationStep, Evaluation!evaluationVars, StackOf, Executed

(* A module that is not marked is not being evaluated.                     *)
LEMMA NotOnStack ==
  ASSUME ExecutionInv, NEW s \in Specifiers, ~modules[s].executing, ~modules[s].executed
  PROVE  s \notin Executed(modules) \cup Evaluation!OnStack
<1>1. PICK n \in Nat : n = Len(runs)
  BY InvTypes
<1>2. \A i \in 2..n : runs[i].module # s
  BY <1>1 DEF ExecutionInv, Chain, RunOK
<1>3. \A i \in 1..n - 1 : i + 1 \in 2..n
  BY <1>1
<1>4. s \notin Evaluation!OnStack
  BY <1>1, <1>2, <1>3 DEF Evaluation!OnStack
<1> QED
  BY <1>4 DEF Executed

LEMMA StartModuleEvaluates ==
  ASSUME ExecutionInv, NEW s \in Specifiers, ~modules[s].executed, ~modules[s].executing,
         NEW how \in {"static", "dynamic"}, NEW rs \in Seq(RunRecord), rs # <<>>,
         StackOf(rs) = StackOf(runs), Compiled(registry, s), StartModule(s, how, rs)
  PROVE  EvaluationStep
<1>1. modules \in [Specifiers -> ModuleRecord]
  BY InvTypes
<1>2. CASE /\ modules' = [modules EXCEPT ![s].known = TRUE, ![s].executing = TRUE]
           /\ runs' = Append(rs, Run(s, how, imports[registry[s].file]))
  <2>1. PICK x : x = Run(s, how, imports[registry[s].file])
    OBVIOUS
  <2>2. registry[s].file \in Files
    BY InvTypes DEF Compiled, Records
  <2>3. x \in RunRecord /\ x.module = s
    BY <2>1, <2>2, InvTypes, ProgramTypes DEF Run, RunRecord, Owners
  <2>4. StackOf(runs') = Append(StackOf(runs), s)
    BY <1>2, <2>1, <2>3, StackGrows
  <2>5. Executed(modules') = Executed(modules)
    BY <1>1, <1>2 DEF Executed, ModuleRecord
  <2>6. s \notin Executed(modules) \cup Evaluation!OnStack
    BY NotOnStack
  <2>7. Evaluation!Begin(s)
    BY <2>4, <2>5, <2>6 DEF Evaluation!Begin, StackOf, Executed
  <2> QED
    BY <2>7 DEF EvaluationStep, Evaluation!EvaluationNext
<1>3. CASE modules' = [modules EXCEPT ![s].known = TRUE] /\ Failed(rs, how)
  <2>1. StackOf(runs') = StackOf(runs)
    BY <1>3, StackChanged DEF Failed
  <2>2. \A t \in Specifiers : modules'[t].executed <=> modules[t].executed
    BY <1>1, <1>3 DEF ModuleRecord
  <2> QED
    BY <2>1, <2>2, Stutters
<1> QED
  BY <1>2, <1>3 DEF StartModule

LEMMA ExecuteModuleEvaluates ==
  ASSUME ExecutionInv, NEW s \in Specifiers, NEW how \in {"static", "dynamic"},
         NEW rs \in Seq(RunRecord), rs # <<>>, StackOf(rs) = StackOf(runs), executeModule(s, how, rs)
  PROVE  EvaluationStep
<1>1. CASE runs' = rs /\ modules' = modules
  BY <1>1, Stutters
<1>2. CASE /\ modules[s].known /\ ~modules[s].executed /\ ~modules[s].executing
           /\ StartModule(s, how, rs)
  <2>1. Compiled(registry, s)
    BY <1>2 DEF ExecutionInv, Chain, ModuleOK
  <2> QED
    BY <1>2, <2>1, StartModuleEvaluates
<1> QED
  BY <1>1, <1>2 DEF executeModule

LEMMA ImportsEvaluate ==
  ASSUME ExecutionInv
  PROVE  /\ OpEvalModule => EvaluationStep
         /\ \A s \in Specifiers : OpDynamicImport(s) => EvaluationStep
<1>1. ASSUME OpEvalModule PROVE EvaluationStep
  <2>1. wanted = None /\ runs # <<>> /\ Last(runs).rest # <<>> /\ runs \in Seq(RunRecord)
    BY <1>1, InvTypes DEF OpEvalModule, Running, Top
  <2>2. Chain(runs, modules, registry, {})
    BY <2>1, InvTypes DEF ExecutionInv
  <2>3. PICK s : s = Head(Last(runs).rest)
    OBVIOUS
  <2>4. PICK rs : rs = [runs EXCEPT ![Len(runs)].rest = Tail(@)]
    OBVIOUS
  <2>5. s \in Specifiers /\ Chain(rs, modules, registry, {s})
    BY <2>1, <2>2, <2>3, <2>4, InvTypes, ChainAsks
  <2>6. rs \in Seq(RunRecord) /\ StackOf(rs) = StackOf(runs)
    BY <2>1, <2>4, <2>5, StackChanged DEF Chain
  <2>7. executeModule(s, "static", rs)
    BY <1>1, <2>3, <2>4 DEF OpEvalModule, Top
  <2>8. rs # <<>>
    <3>1. DOMAIN rs = DOMAIN runs
      BY <2>4
    <3>2. DOMAIN rs = 1..Len(rs) /\ Len(rs) \in Nat
      BY <2>6
    <3>3. DOMAIN runs = 1..Len(runs) /\ Len(runs) \in Nat /\ Len(runs) > 0
      BY <2>1, EmptySeq
    <3>4. 1 \in DOMAIN rs
      <4>1. 1 \in DOMAIN runs
        BY <3>3
      <4> QED
        BY <3>1, <4>1
    <3> QED
      BY <3>2, <3>4
  <2> QED
    BY <2>5, <2>6, <2>7, <2>8, ExecuteModuleEvaluates
<1>2. ASSUME NEW s \in Specifiers, OpDynamicImport(s) PROVE EvaluationStep
  <2>1. runs # <<>> /\ executeModule(s, "dynamic", runs)
    BY <1>2 DEF OpDynamicImport, Step, Body, Running
  <2> QED
    BY <2>1, InvTypes, ExecuteModuleEvaluates
<1> QED
  BY <1>1, <1>2

LEMMA ModuleLoadedEvaluates ==
  ASSUME ExecutionInv, ModuleLoaded
  PROVE  EvaluationStep
<1>1. wanted # None
  BY DEF ModuleLoaded
<1>2. PICK s \in Specifiers : s = wanted.spec
  BY <1>1, WantedTypes
<1>3. PICK how \in {"static", "dynamic"} : how = wanted.how
  BY <1>1, WantedTypes
<1>4. runs # <<>> /\ ~modules[s].known /\ runs \in Seq(RunRecord) /\ modules \in [Specifiers -> ModuleRecord]
  BY <1>1, <1>2, InvTypes DEF ExecutionInv
<1>5. ~modules[s].executed /\ ~modules[s].executing
  BY <1>4 DEF ExecutionInv, Chain, ModuleOK
<1>6. CASE Failed(runs, how) /\ modules' = modules
  <2>1. StackOf(runs') = StackOf(runs)
    BY <1>4, <1>6, StackChanged DEF Failed
  <2> QED
    BY <1>6, <2>1, Stutters
<1>7. CASE modules' = [modules EXCEPT ![s] = JsonModule(s)] /\ runs' = runs
  <2>1. Executed(modules') = Executed(modules) \cup {s}
    BY <1>4, <1>7 DEF Executed, JsonModule, Unknown
  <2>2. s \notin Executed(modules) \cup Evaluation!OnStack
    BY <1>5, NotOnStack
  <2>3. Evaluation!Provide(s)
    BY <1>7, <2>1, <2>2 DEF Evaluation!Provide, Executed
  <2> QED
    BY <2>3 DEF EvaluationStep, Evaluation!EvaluationNext
<1>8. CASE Compiled(registry, s) /\ StartModule(s, how, runs)
  BY <1>4, <1>5, <1>8, StartModuleEvaluates
<1> QED
  BY <1>2, <1>3, <1>6, <1>7, <1>8 DEF ModuleLoaded, Compiled

LEMMA ModuleEndsEvaluates ==
  ASSUME ExecutionInv, ModuleEnds
  PROVE  EvaluationStep
<1>1. PICK m : m = Last(runs).module
  OBVIOUS
<1>2. PICK f : f = Last(runs).failed
  OBVIOUS
<1>3. Top = Last(runs) /\ Top.module = m /\ Top.failed = f
  BY <1>1, <1>2 DEF Top
<1>4. /\ wanted = None /\ Len(runs) > 1
      /\ f \/ Last(runs).rest = <<>>
  BY <1>3 DEF ModuleEnds, Ended
<1>5. m \in Specifiers /\ ~modules[m].executed
  BY <1>3, <1>4, ModuleTop
<1>6. PICK n \in Nat : n = Len(runs) /\ n > 1
  BY <1>4, InvTypes
<1>7. runs \in Seq(RunRecord) /\ runs # <<>> /\ modules \in [Specifiers -> ModuleRecord]
  BY <1>6, InvTypes
<1>8. /\ Last(runs) \in RunRecord /\ Last(runs) = runs[n] /\ f \in BOOLEAN
      /\ Front(runs) \in Seq(RunRecord) /\ Len(Front(runs)) = n - 1
  <2>1. Last(runs) \in RunRecord
    BY <1>7, SequenceEnds
  <2> QED
    BY <1>2, <1>6, <1>7, <2>1, SequenceEnds DEF RunRecord
<1>9. /\ \A t \in Specifiers : t # m => (modules'[t].executed <=> modules[t].executed)
      /\ modules'[m].executed <=> ~f
  <2>1. modules' = [modules EXCEPT
                          ![m].executing = FALSE,
                          ![m].executed = ~f,
                          ![m].exports = IF f THEN @ ELSE Exports(m)]
    BY <1>3, Zenon DEF ModuleEnds
  <2> QED
    BY <1>5, <1>7, <2>1 DEF ModuleRecord
<1>10. IF f THEN Failed(Front(runs), Last(runs).how) ELSE runs' = Front(runs)
  BY <1>3, Zenon DEF ModuleEnds
<1>11. StackOf(runs') = StackOf(Front(runs))
  <2>1. Front(runs) # <<>>
    BY <1>6, <1>8
  <2> QED
    BY <1>8, <1>10, <2>1, StackChanged DEF Failed
<1>12. /\ StackOf(runs) # <<>> /\ StackOf(runs)[Len(StackOf(runs))] = m
       /\ StackOf(runs') = SubSeq(StackOf(runs), 1, Len(StackOf(runs)) - 1)
  BY <1>1, <1>4, <1>7, <1>11, StackShrinks
<1>13. Evaluation!Innermost(m)
  BY <1>12 DEF Evaluation!Innermost, StackOf
<1>14. CASE f
  <2>1. Executed(modules') = Executed(modules)
    BY <1>5, <1>9, <1>14 DEF Executed
  <2>2. Evaluation!Fail(m)
    BY <1>12, <1>13, <2>1 DEF Evaluation!Fail, StackOf, Executed
  <2> QED
    BY <1>5, <2>2 DEF EvaluationStep, Evaluation!EvaluationNext
<1>15. CASE ~f
  <2>1. Executed(modules') = Executed(modules) \cup {m}
    BY <1>5, <1>9, <1>15 DEF Executed
  <2>2. Chain(runs, modules, registry, {})
    BY <1>4, InvTypes DEF ExecutionInv
  <2>3. RunOK(n, runs, modules, registry, {})
    BY <1>6, <2>2 DEF Chain
  <2>4. PICK own \in Seq(Specifiers) : own = OwnImports(n, runs, registry)
    BY <1>6, <2>2, InvTypes, OwnImportsType
  <2>5. own = imports[registry[m].file] /\ registry[m] # None
    BY <1>1, <1>8, <2>3, <2>4 DEF RunOK, OwnImports, Compiled
  <2>6. \A k \in 1..Len(own) : Served(own[k], n, runs, modules, {})
    <3>1. Len(runs[n].rest) = 0
      BY <1>4, <1>8, <1>15
    <3>2. \A k \in 1..Len(own) - Len(runs[n].rest) : Served(own[k], n, runs, modules, {})
      BY <1>2, <1>8, <1>15, <2>3, <2>4 DEF RunOK, ImportsServed
    <3> QED
      BY <3>1, <3>2
  <2>7. ASSUME NEW k \in 1..Len(own) PROVE own[k] \in Executed(modules) \cup Evaluation!OnStack
    <3>1. own[k] \in Specifiers
      OBVIOUS
    <3>2. CASE modules[own[k]].executed
      BY <3>1, <3>2 DEF Executed
    <3>3. CASE \E q \in 2..n : runs[q].module = own[k]
      <4>1. PICK q \in 2..n : runs[q].module = own[k]
        BY <3>3
      <4>2. q - 1 \in 1..n - 1 /\ StackOf(runs)[q - 1] = own[k]
        BY <1>6, <1>7, <4>1, StackIs
      <4>3. own[k] \in Evaluation!OnStack
        BY <1>6, <4>2 DEF Evaluation!OnStack, StackOf
      <4> QED
        BY <4>3
    <3> QED
      BY <1>6, <2>6, <3>2, <3>3 DEF Served
  <2>8. \A i \in DOMAIN own : own[i] \in Executed(modules) \cup Evaluation!OnStack
    BY <2>7
  <2>9. Evaluation!Complete(m)
    BY <1>5, <1>12, <1>13, <2>1, <2>5, <2>8 DEF Evaluation!Complete, StackOf, Executed
  <2> QED
    BY <1>5, <2>9 DEF EvaluationStep, Evaluation!EvaluationNext
<1> QED
  BY <1>8, <1>14, <1>15

LEMMA NextEvaluates ==
  ASSUME ExecutionInv, [Next]_vars
  PROVE  EvaluationStep
<1>1. ASSUME runs' = runs, modules' = modules PROVE EvaluationStep
  BY <1>1, Stutters
<1>2. ASSUME Loading \/ Call \/ Return \/ OpSetGlobal \/ UNCHANGED vars PROVE EvaluationStep
  BY <1>1, <1>2 DEF Loading, Call, Return, OpSetGlobal, vars, executionVars
<1>3. CASE ModuleLoaded
  BY <1>3, ModuleLoadedEvaluates
<1>4. CASE OpEvalModule
  BY <1>4, ImportsEvaluate
<1>5. CASE OpThrow
  <2>1. StackOf(runs') = StackOf(runs) /\ modules' = modules
    BY <1>5, InvTypes, StackChanged DEF OpThrow, Running
  <2> QED
    BY <2>1, Stutters
<1>6. CASE ModuleEnds
  BY <1>6, ModuleEndsEvaluates
<1>7. CASE ScriptEnds
  <2>1. Len(runs) = 1 /\ runs' = <<>> /\ modules' = modules
    BY <1>7 DEF ScriptEnds
  <2>2. 1..Len(runs) - 1 = {} /\ 1..Len(runs') - 1 = {}
    BY <2>1
  <2>3. StackOf(runs') = StackOf(runs)
    BY <2>2 DEF StackOf
  <2> QED
    BY <2>1, <2>3, Stutters
<1>8. ASSUME NEW s \in Specifiers, OpDynamicImport(s) PROVE EvaluationStep
  BY <1>8, ImportsEvaluate
<1>9. ASSUME NEW s \in Specifiers, ReExport(s) PROVE EvaluationStep
  BY <1>1, <1>9 DEF ReExport
<1>10. ASSUME NEW s \in Specifiers, OpCreateNamespace(s) PROVE EvaluationStep
  <2>1. PICK e : e = IF modules[s].exports = None THEN Exports(s) ELSE modules[s].exports
    OBVIOUS
  <2>2. PICK n : n = IF modules[s].exports = None \/ modules[s].namespace = None THEN e ELSE modules[s].namespace
    OBVIOUS
  <2>3. runs' = runs /\ modules' = [modules EXCEPT ![s] = [@ EXCEPT !.exports = e, !.namespace = n]]
    BY <1>10, <2>1, <2>2 DEF OpCreateNamespace
  <2>4. modules \in [Specifiers -> ModuleRecord]
    BY InvTypes
  <2>5. \A t \in Specifiers : modules'[t].executed <=> modules[t].executed
    BY <2>3, <2>4 DEF ModuleRecord
  <2> QED
    BY <2>3, <2>5, Stutters
<1> QED
  BY <1>2, <1>3, <1>4, <1>5, <1>6, <1>7, <1>8, <1>9, <1>10 DEF Next

(* Modules are evaluated as the language says: after what they import, or  *)
(* within its evaluation, one at a time, and once.  The records of         *)
(* moduleContexts and the saved contexts of executeModule implement        *)
(* ModuleEvaluation for every program, also with import() in functions and *)
(* where registers run out.                                                *)
THEOREM EvaluationIsKept == Spec => KeepsEvaluation
<1>1. Init => Evaluation!EvaluationInit
  <2> SUFFICES ASSUME Init PROVE Evaluation!EvaluationInit
    OBVIOUS
  <2>1. {s \in Specifiers : modules[s].executed} = {}
    BY DEF Init, Unknown
  <2>2. Len(runs) = 1
    BY DEF Init
  <2>3. runs \in Seq(RunRecord)
    BY InitInv, InvTypes
  <2>4. runs # <<>>
    BY <2>2
  <2>5. StackOf(runs) \in Seq(Owners) /\ Len(StackOf(runs)) = 0
    BY <2>2, <2>3, <2>4, StackIs
  <2>6. StackOf(runs) = <<>>
    BY <2>5, EmptySeq
  <2> QED
    BY <2>1, <2>6 DEF Evaluation!EvaluationInit, StackOf
<1>2. ExecutionInv /\ [Next]_vars => EvaluationStep
  BY NextEvaluates
<1> QED
  BY <1>1, <1>2, ExecutionAlways, PTL DEF Spec, KeepsEvaluation, Evaluation!EvaluationSpec, EvaluationStep

-----------------------------------------------------------------------------
(* The way back to the importing code.                                     *)

Context == [frame : [owner : Owners, level : 1..MaxFrames], count : 1..MaxFrames, path : Owners]

SavedBy(run) == [frame |-> Frame(run.module, 1), count |-> 1, path |-> run.module]

(* Of the runs rs, the frames fs, fc of them in use, the contexts cs, and  *)
(* the path cur: the innermost run has all the frames in use, each other   *)
(* has its first frame saved.                                              *)
Framed(rs, fs, fc, cs, cur) ==
    /\ fc \in 1..MaxFrames
    /\ DOMAIN fs = 1..MaxFrames
    /\ cs \in Seq(Context)
    /\ Len(cs) = Len(rs) - 1
    /\ cur = Last(rs).module
    /\ \A k \in 1..fc : fs[k] = Frame(Last(rs).module, k)
    /\ \A i \in 1..Len(cs) : cs[i] = SavedBy(rs[i])

(* Modules are imported with one frame in use.                             *)
FrameInv ==
    runs # <<>> =>
        /\ Framed(runs, frames, frameCount, contexts, current)
        /\ wanted # None \/ Top.rest # <<>> => frameCount = 1

LEMMA FramedSame ==
  ASSUME NEW rs \in Seq(RunRecord), rs # <<>>, NEW rs2 \in Seq(RunRecord), SameModules(rs, rs2),
         NEW fs, NEW fc, NEW cs, NEW cur, Framed(rs, fs, fc, cs, cur)
  PROVE  Framed(rs2, fs, fc, cs, cur)
<1>1. Len(rs) \in Nat /\ Len(rs) > 0
  BY EmptySeq
<1>2. Last(rs2).module = Last(rs).module
  BY <1>1 DEF Last, SameModules
<1>3. \A i \in 1..Len(cs) : SavedBy(rs2[i]) = SavedBy(rs[i])
  BY <1>1 DEF Framed, SavedBy, SameModules
<1> QED
  BY <1>2, <1>3 DEF Framed, SameModules

LEMMA FramedOwner ==
  ASSUME NEW rs \in Seq(RunRecord), rs # <<>>
  PROVE  Last(rs).module \in Owners
<1>1. Last(rs) \in RunRecord
  BY SequenceEnds
<1> QED
  BY <1>1 DEF RunRecord

LEMMA StartModuleFrames ==
  ASSUME Patterns = {}, imports \in Programs, registry \in [Specifiers -> Records \cup {None}],
         NEW rs \in Seq(RunRecord), rs # <<>>, Framed(rs, frames, frameCount, contexts, current),
         frameCount = 1, NEW s \in Specifiers, NEW how \in {"static", "dynamic"},
         Compiled(registry, s), StartModule(s, how, rs)
  PROVE  Framed(runs', frames', frameCount', contexts', current') /\ frameCount' = 1
<1>1. PICK x : x = Run(s, how, imports[registry[s].file])
  OBVIOUS
<1>2. x \in RunRecord /\ x.module = s
  <2>1. registry[s].file \in Files
    BY DEF Compiled, Records
  <2> QED
    BY <1>1, <2>1, ProgramTypes DEF Run, RunRecord, Owners
<1>3. PICK c : c = [frame |-> frames[frameCount], count |-> frameCount, path |-> current]
  OBVIOUS
<1>4. /\ contexts' = Append(contexts, c) /\ current' = s
      /\ frames' = [frames EXCEPT ![1] = Frame(s, 1)] /\ frameCount' = 1
      /\ runs' = Append(rs, x)
  BY <1>1, <1>3 DEF StartModule
<1>5. PICK n \in Nat : n = Len(rs) /\ n > 0
  BY EmptySeq
<1>6. 1 \in 1..MaxFrames
  BY ExecutionAssumption
<1>7. c = SavedBy(rs[n])
  BY <1>3, <1>5, <1>6 DEF Framed, SavedBy, Last
<1>8. c \in Context
  <2>1. Last(rs).module \in Owners
    BY FramedOwner
  <2> QED
    BY <1>5, <1>6, <1>7, <2>1 DEF SavedBy, Frame, Context, Last
<1>9. PICK rs2 : rs2 = runs'
  OBVIOUS
<1>10. /\ Len(rs2) = n + 1
       /\ \A i \in 1..n : rs2[i] = rs[i]
       /\ rs2[n + 1] = x
  BY <1>2, <1>4, <1>5, <1>9, AppendedIs
<1>11. PICK cs2 : cs2 = contexts'
  OBVIOUS
<1>12. /\ cs2 \in Seq(Context) /\ Len(cs2) = n
       /\ \A i \in 1..n - 1 : cs2[i] = contexts[i]
       /\ cs2[n] = c
  <2>1. contexts \in Seq(Context) /\ Len(contexts) = n - 1
    BY <1>5 DEF Framed
  <2> QED
    BY <1>4, <1>8, <1>11, <2>1, AppendedIs
<1>13. \A i \in 1..n : cs2[i] = SavedBy(rs2[i])
  <2>1. \A i \in 1..n - 1 : contexts[i] = SavedBy(rs[i])
    BY <1>5 DEF Framed
  <2> QED
    BY <1>5, <1>7, <1>10, <1>12, <2>1
<1>14. Last(rs2).module = s
  BY <1>2, <1>5, <1>10 DEF Last
<1>15. DOMAIN frames' = 1..MaxFrames /\ \A k \in 1..1 : frames'[k] = Frame(s, k)
  BY <1>4, <1>6 DEF Framed
<1>16. Framed(rs2, frames', 1, cs2, s)
  BY <1>5, <1>6, <1>10, <1>12, <1>13, <1>14, <1>15 DEF Framed
<1> QED
  BY <1>4, <1>9, <1>11, <1>16

(* A step of the innermost run that leaves its frames alone.               *)
LEMMA RunFrames ==
  ASSUME NEW rs \in Seq(RunRecord), rs # <<>>, Framed(rs, frames, frameCount, contexts, current),
         runs' = rs, UNCHANGED <<frames, frameCount, contexts, current>>,
         wanted' # None \/ Last(rs).rest # <<>> => frameCount = 1
  PROVE  FrameInv'
BY DEF FrameInv, Top, Last

LEMMA FailedFrames ==
  ASSUME NEW rs \in Seq(RunRecord), rs # <<>>, NEW how \in {"static", "dynamic"}, Failed(rs, how),
         Framed(rs, frames, frameCount, contexts, current)
  PROVE  /\ runs' \in Seq(RunRecord) /\ runs' # <<>>
         /\ Framed(runs', frames, frameCount, contexts, current)
<1>1. CASE runs' = rs
  BY <1>1
<1>2. CASE runs' = [rs EXCEPT ![Len(rs)].failed = TRUE]
  <2>1. PICK rs2 : rs2 = runs' /\ rs2 = [rs EXCEPT ![Len(rs)].failed = TRUE]
    BY <1>2
  <2>2. rs2 \in Seq(RunRecord) /\ SameModules(rs, rs2) /\ rs2 # <<>>
    BY <2>1, RunFails
  <2>3. Framed(rs2, frames, frameCount, contexts, current)
    BY <2>2, FramedSame
  <2> QED
    BY <2>1, <2>2, <2>3
<1> QED
  BY <1>1, <1>2 DEF Failed

LEMMA ExecuteModuleFrames ==
  ASSUME Patterns = {}, ExecutionInv, NEW s \in Specifiers, NEW how \in {"static", "dynamic"},
         NEW rs \in Seq(RunRecord), rs # <<>>, Framed(rs, frames, frameCount, contexts, current),
         frameCount = 1, executeModule(s, how, rs)
  PROVE  FrameInv'
<1>1. CASE runs' = rs /\ UNCHANGED <<frames, frameCount, contexts, current>>
  BY <1>1, RunFrames
<1>2. CASE modules[s].known /\ ~modules[s].executed /\ StartModule(s, how, rs)
  <2>1. Compiled(registry, s)
    BY <1>2 DEF ExecutionInv, Chain, ModuleOK
  <2>2. Framed(runs', frames', frameCount', contexts', current') /\ frameCount' = 1
    BY <1>2, <2>1, InvTypes, StartModuleFrames
  <2> QED
    BY <2>2 DEF FrameInv, Framed, SavedBy, Frame, Last, Context
<1> QED
  BY <1>1, <1>2 DEF executeModule

LEMMA NextFrames ==
  ASSUME Patterns = {}, ExecutionInv, FrameInv, [Next]_vars
  PROVE  FrameInv'
<1>1. runs \in Seq(RunRecord)
  BY InvTypes
<1>2. ASSUME Loading \/ UNCHANGED vars PROVE FrameInv'
  <2>1. UNCHANGED <<frames, frameCount, contexts, current, runs, wanted>>
    BY <1>2 DEF Loading, vars, executionVars
  <2> QED
    BY <2>1 DEF FrameInv, Top, Last, Framed
<1>3. CASE ModuleLoaded
  <2>1. wanted # None /\ runs # <<>> /\ Framed(runs, frames, frameCount, contexts, current) /\ frameCount = 1
    BY <1>3 DEF ModuleLoaded, ExecutionInv, FrameInv
  <2>2. PICK s \in Specifiers : s = wanted.spec
    BY <2>1, WantedTypes
  <2>3. PICK how \in {"static", "dynamic"} : how = wanted.how
    BY <2>1, WantedTypes
  <2>4. CASE Failed(runs, how) /\ UNCHANGED <<frames, frameCount, contexts, current>>
    <3>1. /\ runs' \in Seq(RunRecord) /\ runs' # <<>>
          /\ Framed(runs', frames, frameCount, contexts, current)
      BY <1>1, <2>1, <2>4, FailedFrames
    <3> QED
      BY <2>1, <2>4, <3>1, RunFrames
  <2>5. CASE runs' = runs /\ UNCHANGED <<frames, frameCount, contexts, current>>
    BY <1>1, <2>1, <2>5, RunFrames
  <2>6. CASE Compiled(registry, s) /\ StartModule(s, how, runs)
    <3>1. Framed(runs', frames', frameCount', contexts', current') /\ frameCount' = 1
      BY <1>1, <2>1, <2>6, InvTypes, StartModuleFrames
    <3> QED
      BY <3>1 DEF FrameInv
  <2> QED
    BY <1>3, <2>2, <2>3, <2>4, <2>5, <2>6 DEF ModuleLoaded, Compiled
<1>4. CASE OpEvalModule
  <2>1. /\ wanted = None /\ runs # <<>> /\ Last(runs).rest # <<>> /\ frameCount = 1
        /\ Framed(runs, frames, frameCount, contexts, current)
    BY <1>4 DEF OpEvalModule, Running, Top, FrameInv
  <2>2. PICK s : s = Head(Last(runs).rest)
    OBVIOUS
  <2>3. PICK rs : rs = [runs EXCEPT ![Len(runs)].rest = Tail(@)]
    OBVIOUS
  <2>4. Chain(runs, modules, registry, {})
    BY <2>1, InvTypes DEF ExecutionInv
  <2>5. s \in Specifiers
    BY <2>1, <2>2, <2>4, InvTypes, ChainAsks
  <2>6. rs \in Seq(RunRecord) /\ SameModules(runs, rs) /\ rs # <<>>
    BY <1>1, <2>1, <2>3, RunAsks
  <2>7. Framed(rs, frames, frameCount, contexts, current)
    BY <1>1, <2>1, <2>6, FramedSame
  <2>8. executeModule(s, "static", rs)
    BY <1>4, <2>2, <2>3 DEF OpEvalModule, Top
  <2> QED
    BY <2>1, <2>5, <2>6, <2>7, <2>8, ExecuteModuleFrames
<1>5. ASSUME NEW s \in Specifiers, OpDynamicImport(s) PROVE FrameInv'
  <2>1. /\ runs # <<>> /\ executeModule(s, "dynamic", runs)
        /\ Framed(runs, frames, frameCount, contexts, current)
        /\ ~(frameCount > 1)
    BY <1>5 DEF OpDynamicImport, Step, Body, Running, FrameInv
  <2>2. frameCount = 1
    BY <2>1, ExecutionAssumption DEF Framed
  <2> QED
    BY <1>1, <2>1, <2>2, ExecuteModuleFrames
<1>6. ASSUME Call \/ Return PROVE FrameInv'
  <2>1. /\ runs # <<>> /\ wanted = None /\ Last(runs).rest = <<>>
        /\ UNCHANGED <<contexts, current, runs, wanted>>
        /\ Framed(runs, frames, frameCount, contexts, current)
    BY <1>6 DEF Call, Return, Step, Body, Running, Top, FrameInv
  <2>2. PICK m : m = Last(runs).module
    OBVIOUS
  <2>3. CASE Call
    <3>1. /\ frameCount < MaxFrames /\ frameCount' = frameCount + 1
          /\ frames' = [frames EXCEPT ![frameCount + 1] = Frame(frames[frameCount].owner, frameCount + 1)]
      BY <2>3 DEF Call
    <3>2. frameCount \in 1..MaxFrames /\ MaxFrames \in Nat /\ frames[frameCount] = Frame(m, frameCount)
      BY <2>1, <2>2, ExecutionAssumption DEF Framed
    <3>3. frames[frameCount].owner = m
      BY <3>2 DEF Frame
    <3>4. DOMAIN frames' = 1..MaxFrames /\ \A k \in 1..frameCount + 1 : frames'[k] = Frame(m, k)
      BY <2>1, <2>2, <3>1, <3>2, <3>3 DEF Framed
    <3>5. Framed(runs, frames', frameCount', contexts, current)
      BY <2>1, <2>2, <3>1, <3>2, <3>4 DEF Framed
    <3> QED
      BY <2>1, <3>5 DEF FrameInv, Top, Last
  <2>4. CASE Return
    <3>1. frameCount > 1 /\ frameCount' = frameCount - 1 /\ frames' = frames
      BY <2>4 DEF Return
    <3>2. frameCount' \in 1..MaxFrames /\ \A k \in 1..frameCount' : k \in 1..frameCount
      BY <2>1, <3>1, ExecutionAssumption DEF Framed
    <3>3. Framed(runs, frames', frameCount', contexts, current)
      BY <2>1, <3>1, <3>2 DEF Framed
    <3> QED
      BY <2>1, <3>3 DEF FrameInv, Top, Last
  <2> QED
    BY <1>6, <2>3, <2>4
<1>7. ASSUME UNCHANGED <<frames, frameCount, contexts, current, runs, wanted>> PROVE FrameInv'
  BY <1>7 DEF FrameInv, Top, Last
<1>8. CASE OpSetGlobal
  BY <1>7, <1>8 DEF OpSetGlobal
<1>9. CASE OpThrow
  <2>1. /\ runs # <<>> /\ wanted = None
        /\ runs' = [runs EXCEPT ![Len(runs)].failed = TRUE]
        /\ UNCHANGED <<frames, frameCount, contexts, current, wanted>>
        /\ Framed(runs, frames, frameCount, contexts, current)
        /\ Last(runs).rest # <<>> => frameCount = 1
    BY <1>9 DEF OpThrow, Running, FrameInv, Top
  <2>2. PICK rs : rs = runs' /\ rs = [runs EXCEPT ![Len(runs)].failed = TRUE]
    BY <2>1
  <2>3. /\ rs \in Seq(RunRecord) /\ SameModules(runs, rs) /\ rs # <<>>
        /\ Last(rs).rest = Last(runs).rest
    BY <1>1, <2>1, <2>2, RunFails
  <2>4. Framed(rs, frames, frameCount, contexts, current)
    BY <1>1, <2>1, <2>3, FramedSame
  <2> QED
    BY <2>1, <2>2, <2>3, <2>4, RunFrames
<1>10. CASE ModuleEnds
  <2>1. PICK n \in Nat : n = Len(runs) /\ n > 1
    BY <1>1, <1>10 DEF ModuleEnds
  <2>2. runs # <<>> /\ Framed(runs, frames, frameCount, contexts, current)
    BY <1>1, <2>1 DEF FrameInv
  <2>3. PICK b : b = Front(runs)
    OBVIOUS
  <2>4. /\ b \in Seq(RunRecord) /\ Len(b) = n - 1
        /\ \A i \in 1..n - 1 : b[i] = runs[i]
        /\ Last(runs) = runs[n]
    BY <1>1, <2>1, <2>2, <2>3, SequenceEnds
  <2>5. b # <<>> /\ Last(b) = runs[n - 1]
    BY <2>1, <2>4 DEF Last
  <2>6. PICK m : m = runs[n - 1].module
    OBVIOUS
  <2>7. /\ contexts \in Seq(Context) /\ Len(contexts) = n - 1
        /\ \A i \in 1..n - 1 : contexts[i] = SavedBy(runs[i])
    BY <2>1, <2>2 DEF Framed
  <2>8. contexts # <<>> /\ Last(contexts) = SavedBy(runs[n - 1])
    BY <2>1, <2>7 DEF Last
  <2>9. PICK cs : cs = contexts'
    OBVIOUS
  <2>10. /\ cs \in Seq(Context) /\ Len(cs) = n - 2
         /\ \A i \in 1..n - 2 : cs[i] = SavedBy(b[i])
    <3>1. cs = Front(contexts)
      BY <1>10, <2>9 DEF ModuleEnds
    <3>2. /\ Front(contexts) \in Seq(Context) /\ Len(Front(contexts)) = n - 1 - 1
          /\ \A i \in 1..n - 1 - 1 : Front(contexts)[i] = contexts[i]
      BY <2>7, <2>8, SequenceEnds
    <3> QED
      BY <2>1, <2>4, <2>7, <3>1, <3>2
  <2>11. frameCount' = 1 /\ current' = m /\ frames' = [frames EXCEPT ![1] = Frame(m, 1)]
    BY <1>10, <2>6, <2>8 DEF ModuleEnds, SavedBy
  <2>12. DOMAIN frames' = 1..MaxFrames /\ 1 \in 1..MaxFrames /\ \A k \in 1..1 : frames'[k] = Frame(m, k)
    BY <2>2, <2>11, ExecutionAssumption DEF Framed
  <2>13. Framed(b, frames', 1, cs, m)
    BY <2>1, <2>4, <2>5, <2>6, <2>10, <2>12 DEF Framed
  <2>14. runs' = b \/ runs' = [b EXCEPT ![Len(b)].failed = TRUE]
    BY <1>10, <2>3 DEF ModuleEnds, Failed
  <2>15. Framed(runs', frames', 1, cs, m)
    <3>1. CASE runs' = b
      BY <2>13, <3>1
    <3>2. CASE runs' = [b EXCEPT ![Len(b)].failed = TRUE]
      <4>1. PICK rs : rs = runs' /\ rs = [b EXCEPT ![Len(b)].failed = TRUE]
        BY <3>2
      <4>2. rs \in Seq(RunRecord) /\ SameModules(b, rs)
        BY <2>4, <2>5, <4>1, RunFails
      <4> QED
        BY <2>4, <2>5, <2>13, <4>1, <4>2, FramedSame
    <3> QED
      BY <2>14, <3>1, <3>2
  <2> QED
    BY <2>9, <2>11, <2>15 DEF FrameInv
<1>11. CASE ScriptEnds
  BY <1>11 DEF ScriptEnds, FrameInv
<1>12. ASSUME NEW s \in Specifiers, OpCreateNamespace(s) \/ ReExport(s) PROVE FrameInv'
  BY <1>7, <1>12 DEF OpCreateNamespace, ReExport
<1> QED
  BY <1>2, <1>3, <1>4, <1>5, <1>6, <1>8, <1>9, <1>10, <1>11, <1>12 DEF Next

(* Whatever a module did while it ran, and however it ended, the code that *)
(* imported it goes on in its own frames and under its own path, and one   *)
(* context is saved for each module being executed: in programs that do    *)
(* not import in functions and for whose modules there is room.            *)
THEOREM ControlIsReturned ==
  ASSUME Patterns = {}
  PROVE  Spec => []ControlReturns
<1>1. Init => FrameInv
  <2> SUFFICES ASSUME Init PROVE FrameInv
    OBVIOUS
  <2>1. PICK x : x = Run(Script, "script", imports[Root])
    OBVIOUS
  <2>2. runs = <<x>> /\ x.module = Script /\ frameCount = 1 /\ contexts = <<>> /\ current = Script
    BY <2>1 DEF Init, Run
  <2>3. Len(runs) = 1 /\ Last(runs).module = Script
    BY <2>2 DEF Last
  <2>4. 1 \in 1..MaxFrames
    BY ExecutionAssumption
  <2>5. DOMAIN frames = 1..MaxFrames /\ \A k \in 1..1 : frames[k] = Frame(Script, k)
    BY <2>4 DEF Init
  <2>6. contexts \in Seq(Context) /\ Len(contexts) = 0
    BY <2>2
  <2> QED
    BY <2>2, <2>3, <2>4, <2>5, <2>6 DEF FrameInv, Framed
<1>2. ExecutionInv /\ FrameInv /\ [Next]_vars => FrameInv'
  BY NextFrames
<1>3. FrameInv => ControlReturns
  BY DEF FrameInv, Framed, ControlReturns, Running, Top
<1> QED
  BY <1>1, <1>2, <1>3, ExecutionAlways, PTL DEF Spec
=============================================================================
