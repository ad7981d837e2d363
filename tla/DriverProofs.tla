---------------------------- MODULE DriverProofs ----------------------------
(***************************************************************************)
(* Proofs about main(), for every number of functions, every module, every *)
(* set of globals and every command line: what the call hierarchy promises *)
(* is kept while the driver works, and the may-write sets that the         *)
(* converter reads are exact.                                              *)
(***************************************************************************)
EXTENDS ConversionDriver, HierarchyProofs, FiniteSetTheorems

-----------------------------------------------------------------------------
(* The driver runs the hierarchy builder and leaves its state alone.        *)

LEMMA DriverRunsBuilder == [DriverNext]_allVars => [Next]_hbVars
BY DEF DriverNext, ParseOptions, ReadModule, ChooseFunction, CheckHierarchy, TransformModule,
   BuildHierarchy, SelectComponents, AnalyzeFunction, EndAnalysis, CloseMayZap, EndMayZap,
   ConvertFunction, Finish, allVars

LEMMA BuilderInDriver == DriverSpec => []BuilderInv
<1>1. DriverInit => BuilderInv
  BY BuilderInit DEF DriverInit
<1>2. BuilderInv /\ [DriverNext]_allVars => BuilderInv'
  BY DriverRunsBuilder, BuilderNext
<1> QED
  BY <1>1, <1>2, PTL DEF DriverSpec

-----------------------------------------------------------------------------
(* The may-write sets.                                                      *)

MayWrite(f) == UNION {writes[g] : g \in funcDependsOn(f)}

(* What the two loops over dependsOn have done, and what they have left.     *)
MayZapInv ==
  /\ step \notin {"analyze", "mayzap", "convert", "stop", "exit"} =>
       funcMayZapDirect = NoEntries /\ funcMayZap = NoEntries
  /\ step \in {"analyze", "mayzap", "convert", "stop"} => pc = "done" /\ function \in Function
  /\ step = "analyze" =>
       /\ todo \subseteq dependsOn
       /\ DOMAIN funcMayZapDirect = dependsOn \ todo
       /\ funcMayZap = NoEntries
  /\ step \in {"mayzap", "convert", "stop"} => DOMAIN funcMayZapDirect = dependsOn
  /\ step = "mayzap" =>
       /\ todo \subseteq dependsOn
       /\ DOMAIN funcMayZap = dependsOn \ todo
  /\ step \in {"convert", "stop"} => DOMAIN funcMayZap = dependsOn
  /\ \A f \in DOMAIN funcMayZapDirect : funcMayZapDirect[f] = writes[f]
  /\ \A f \in DOMAIN funcMayZap : funcMayZap[f] = MayWrite(f)

(* What a function depends on is what it may run.                           *)
LEMMA DependsOnIsMayRun ==
  ASSUME BuilderInv, pc = "done", NEW f \in Function
  PROVE  funcDependsOn(f) = MayRun(f)
<1>1. m = TransitiveClosure(DirectCalls)
  BY HierarchyExactLemma DEF BuilderInv, HierarchyExact
<1> QED
  BY <1>1 DEF funcDependsOn, getTransitivelyCalledFunctions, MayRun, TransitiveClosure, Function

(* What is called from a function that was analysed was analysed as well.    *)
LEMMA DependsOnClosed ==
  ASSUME BuilderInv, pc = "done", function \in Function, NEW f \in dependsOn
  PROVE  funcDependsOn(f) \subseteq dependsOn
<1>1. Transitive
  BY MatrixTransitive DEF BuilderInv
<1> QED
  BY <1>1 DEF Transitive, dependsOn, funcDependsOn, getTransitivelyCalledFunctions

(* The lookups of the second loop find what the first one has put there: the *)
(* program does not end with exit(9876).                                    *)
LEMMA MayZapLookups ==
  ASSUME BuilderInv, MayZapInv, step = "mayzap", NEW f \in todo
  PROVE  /\ f \in dependsOn
         /\ funcDependsOn(f) \subseteq DOMAIN funcMayZapDirect
         /\ UNION {funcMayZapDirect[g] : g \in funcDependsOn(f)} = MayWrite(f)
<1>1. f \in dependsOn /\ pc = "done" /\ function \in Function
  BY DEF MayZapInv
<1>2. funcDependsOn(f) \subseteq DOMAIN funcMayZapDirect
  BY <1>1, DependsOnClosed DEF MayZapInv
<1>3. \A g \in funcDependsOn(f) : funcMayZapDirect[g] = writes[g]
  BY <1>2 DEF MayZapInv
<1> QED
  BY <1>1, <1>2, <1>3 DEF MayWrite

LEMMA MayZapInit == DriverInit => MayZapInv
BY DEF DriverInit, MayZapInv, NoEntries

(* Steps that leave the hierarchy and the two maps alone.                    *)
LEMMA DependsOnUnchanged ==
  ASSUME m' = m
  PROVE  /\ function' = function => dependsOn' = dependsOn
         /\ \A f : writes' = writes => MayWrite(f)' = MayWrite(f)
BY DEF dependsOn, MayWrite, funcDependsOn, getTransitivelyCalledFunctions

LEMMA MayZapNext == BuilderInv /\ MayZapInv /\ [DriverNext]_allVars => MayZapInv'
<1> SUFFICES ASSUME BuilderInv, MayZapInv, [DriverNext]_allVars
             PROVE  MayZapInv'
  OBVIOUS
<1>1. CASE ParseOptions \/ ReadModule \/ ChooseFunction \/ CheckHierarchy \/ TransformModule
  <2>1. /\ step \notin {"analyze", "mayzap", "convert", "stop", "exit"}
        /\ step' \notin {"analyze", "mayzap", "convert", "stop", "exit"}
        /\ UNCHANGED mapVars
    BY <1>1 DEF ParseOptions, ReadModule, ChooseFunction, CheckHierarchy, TransformModule,
       ReturnWith, Continue, workVars
  <2> QED
    BY <2>1 DEF MayZapInv, mapVars, NoEntries
<1>2. CASE BuildHierarchy
  <2>1. step = "hierarchy" /\ UNCHANGED <<step, mapVars>>
    BY <1>2 DEF BuildHierarchy, driverVars, workVars
  <2> QED
    BY <2>1 DEF MayZapInv, mapVars, NoEntries
<1>3. CASE SelectComponents
  <2>1. /\ step = "hierarchy" /\ pc = "done" /\ UNCHANGED <<m, pc, mapVars, function, writes>>
        /\ \/ function \in Function /\ step' = "analyze" /\ todo' = dependsOn
           \/ step' = "exit"
    BY <1>3 DEF SelectComponents, hbVars, givenVars
  <2>2. dependsOn' = dependsOn
    BY <2>1, DependsOnUnchanged
  <2>3. funcMayZapDirect' = NoEntries /\ funcMayZap' = NoEntries
    BY <2>1 DEF MayZapInv, mapVars
  <2>4. DOMAIN NoEntries = {}
    BY DEF NoEntries
  <2> QED
    BY <2>1, <2>2, <2>3, <2>4 DEF MayZapInv
<1>4. ASSUME NEW f \in todo, AnalyzeFunction(f)
      PROVE  MayZapInv'
  <2>1. /\ step = "analyze" /\ step' = "analyze" /\ todo' = todo \ {f}
        /\ UNCHANGED <<m, pc, function, writes, funcMayZap>>
        /\ funcMayZapDirect' = With(funcMayZapDirect, f, writes[f])
    BY <1>4 DEF AnalyzeFunction, hbVars, givenVars
  <2>2. dependsOn' = dependsOn /\ f \in dependsOn
    BY <2>1, DependsOnUnchanged DEF MayZapInv
  <2>3. /\ DOMAIN funcMayZapDirect' = DOMAIN funcMayZapDirect \cup {f}
        /\ funcMayZapDirect'[f] = writes[f]
        /\ \A e \in DOMAIN funcMayZapDirect : e # f => funcMayZapDirect'[e] = funcMayZapDirect[e]
    BY <2>1 DEF With
  <2>4. DOMAIN NoEntries = {}
    BY DEF NoEntries
  <2> QED
    BY <2>1, <2>2, <2>3, <2>4 DEF MayZapInv
<1>5. CASE EndAnalysis
  <2>1. /\ step = "analyze" /\ todo = {} /\ step' = "mayzap" /\ todo' = dependsOn
        /\ UNCHANGED <<m, pc, function, writes, mapVars>>
    BY <1>5 DEF EndAnalysis, hbVars, givenVars
  <2>2. dependsOn' = dependsOn
    BY <2>1, DependsOnUnchanged
  <2>3. DOMAIN NoEntries = {}
    BY DEF NoEntries
  <2> QED
    BY <2>1, <2>2, <2>3 DEF MayZapInv, mapVars
<1>6. ASSUME NEW f \in todo, CloseMayZap(f)
      PROVE  MayZapInv'
  <2>1. step = "mayzap" /\ UNCHANGED <<m, pc, function, writes, funcMayZapDirect>>
    BY <1>6 DEF CloseMayZap, hbVars, givenVars
  <2>2. /\ f \in dependsOn /\ funcDependsOn(f) \subseteq DOMAIN funcMayZapDirect
        /\ UNION {funcMayZapDirect[g] : g \in funcDependsOn(f)} = MayWrite(f)
    BY <2>1, MayZapLookups
  <2>3. /\ funcMayZap' = With(funcMayZap, f, MayWrite(f))
        /\ todo' = todo \ {f} /\ step' = "mayzap"
    BY <1>6, <2>1, <2>2 DEF CloseMayZap
  <2>4. dependsOn' = dependsOn /\ \A e : MayWrite(e)' = MayWrite(e)
    BY <2>1, DependsOnUnchanged
  <2>5. /\ DOMAIN funcMayZap' = DOMAIN funcMayZap \cup {f}
        /\ funcMayZap'[f] = MayWrite(f)
        /\ \A e \in DOMAIN funcMayZap : e # f => funcMayZap'[e] = funcMayZap[e]
    BY <2>3 DEF With
  <2> QED
    BY <2>1, <2>2, <2>3, <2>4, <2>5 DEF MayZapInv
<1>7. CASE EndMayZap \/ ConvertFunction \/ Finish
  <2>1. /\ UNCHANGED <<m, pc, function, writes, mapVars>>
        /\ \/ step = "mayzap" /\ todo = {} /\ step' = "convert"
           \/ step = "convert" /\ step' \in {"convert", "stop", "exit"}
    BY <1>7 DEF EndMayZap, ConvertFunction, Finish, hbVars, givenVars
  <2>2. dependsOn' = dependsOn /\ \A e : MayWrite(e)' = MayWrite(e)
    BY <2>1, DependsOnUnchanged
  <2> QED
    BY <2>1, <2>2 DEF MayZapInv, mapVars
<1>8. CASE UNCHANGED allVars
  <2>1. UNCHANGED <<m, pc, step, function, writes, todo, mapVars>>
    BY <1>8 DEF allVars, hbVars, driverVars, givenVars, workVars
  <2>2. dependsOn' = dependsOn /\ \A e : MayWrite(e)' = MayWrite(e)
    BY <2>1, DependsOnUnchanged
  <2> QED
    BY <2>1, <2>2 DEF MayZapInv, mapVars
<1> QED
  BY <1>1, <1>2, <1>3, <1>4, <1>5, <1>6, <1>7, <1>8 DEF DriverNext

LEMMA MayZapExactLemma == BuilderInv /\ MayZapInv => MayZapExact
<1> SUFFICES ASSUME BuilderInv, MayZapInv, step \in {"convert", "stop"}
             PROVE  /\ DOMAIN funcMayZap = MayRun(function)
                    /\ \A f \in DOMAIN funcMayZap :
                         funcMayZap[f] = UNION {writes[g] : g \in MayRun(f)}
  BY DEF MayZapExact
<1>1. pc = "done" /\ function \in Function /\ DOMAIN funcMayZap = dependsOn
  BY DEF MayZapInv
<1>2. dependsOn = MayRun(function)
  BY <1>1, DependsOnIsMayRun DEF dependsOn, funcDependsOn
<1>3. ASSUME NEW f \in dependsOn
      PROVE  funcMayZap[f] = UNION {writes[g] : g \in MayRun(f)}
  <2>1. f \in Function
    BY <1>2 DEF MayRun
  <2>2. funcDependsOn(f) = MayRun(f)
    BY <1>1, <2>1, DependsOnIsMayRun
  <2> QED
    BY <1>1, <2>2 DEF MayZapInv, MayWrite
<1> QED
  BY <1>1, <1>2, <1>3

(* For every module and every function of it: when components are converted, *)
(* the may-write set of each function that may run holds exactly the globals *)
(* that a call of it may change.                                            *)
THEOREM MayZapCorrect == DriverSpec => []MayZapExact
BY BuilderInDriver, MayZapInit, MayZapNext, MayZapExactLemma, PTL DEF DriverSpec

-----------------------------------------------------------------------------
(* The order of the conversion.                                             *)

Members(i) == {SCCs[i][j] : j \in 1 .. Len(SCCs[i])}

(* What the two loops have been through: whole components, and the beginning *)
(* of the current one.                                                      *)
BeenTo(f) ==
  \/ \E i \in dependsOnSccs \ sccQueue : f \in Members(i)
  \/ sccQueue # {} /\ \E j \in 1 .. fi - 1 : f = scc[j]

CalleesBefore ==
  \A i \in 1 .. Len(converted) : \A g \in callees(converted[i]) :
     \/ Mutual(DirectCalls, converted[i], g)
     \/ \E k \in 1 .. i - 1 : converted[k] = g

LoopsInv ==
  /\ sccQueue \subseteq dependsOnSccs
  /\ \A i \in dependsOnSccs \ sccQueue, k \in sccQueue : i < k
  /\ fi \in Nat \ {0}
  /\ sccQueue # {} => fi <= Len(scc)
  /\ \A f \in Function : BeenTo(f) <=> \E i \in 1 .. Len(converted) : converted[i] = f

(* Nothing is converted before the loops begin; then what was converted is   *)
(* what the loops have been to, in order and once, callees first; and no     *)
(* lookup has failed, so the program ends early only for want of a body.     *)
ConvertInv ==
  /\ converted \in Seq(Function)
  /\ \A i, k \in 1 .. Len(converted) : converted[i] = converted[k] => i = k
  /\ CalleesBefore
  /\ step \notin {"convert", "stop", "exit"} => converted = <<>> /\ fi = 1
  /\ step \in {"analyze", "mayzap"} => sccQueue = dependsOnSccs
  /\ step \in {"convert", "stop"} => LoopsInv
  /\ step = "stop" => sccQueue = {}
  /\ step = "exit" => function \notin Function

(* The components that getSccs has returned.                                *)
LEMMA ComponentFacts ==
  ASSUME BuilderInv, pc = "done"
  PROVE  /\ Len(SCCs) \in Nat /\ DOMAIN SCCs = 1 .. Len(SCCs)
         /\ \A i \in 1 .. Len(SCCs) :
              /\ Len(SCCs[i]) \in Nat \ {0}
              /\ \A j \in 1 .. Len(SCCs[i]) : SCCs[i][j] \in Function
              /\ \A j, k \in 1 .. Len(SCCs[i]) : SCCs[i][j] = SCCs[i][k] => j = k
              /\ Members(i) = ToSet(SCCs[i]) /\ Members(i) \subseteq Function
         /\ \A i, k \in 1 .. Len(SCCs) : \A f \in Members(i) : f \in Members(k) => i = k
         /\ \A f \in Function : \E i \in 1 .. Len(SCCs) : f \in Members(i)
<1>1. TarjanTypeOK /\ SearchInv
  BY DEF BuilderInv, TypeOK, TarjanTypeOK, Numbers, Frame, TarjanInv
<1>2. Len(SCCs) \in Nat /\ DOMAIN SCCs = 1 .. Len(SCCs)
      /\ \A i \in 1 .. Len(SCCs) : SCCs[i] \in Seq(Function)
  BY <1>1, LenProperties, SearchTypes DEF TarjanTypeOK
<1>3. ASSUME NEW i \in 1 .. Len(SCCs)
      PROVE  /\ Len(SCCs[i]) \in Nat \ {0}
             /\ \A j \in 1 .. Len(SCCs[i]) : SCCs[i][j] \in Function
             /\ Members(i) = ToSet(SCCs[i]) /\ Members(i) \subseteq Function
  <2>1. Len(SCCs[i]) \in Nat /\ DOMAIN SCCs[i] = 1 .. Len(SCCs[i])
        /\ \A j \in 1 .. Len(SCCs[i]) : SCCs[i][j] \in Function
    BY <1>2, LenProperties, ElementOfSeq
  <2>2. Members(i) = ToSet(SCCs[i]) /\ Members(i) \subseteq Function
    BY <2>1 DEF Members, ToSet
  <2>3. PICK f \in Function : f \in ToSet(SCCs[i])
    BY <1>1 DEF SearchInv, EmittedInv
  <2>4. PICK j \in 1 .. Len(SCCs[i]) : f = SCCs[i][j]
    BY <2>2, <2>3 DEF Members
  <2> QED
    BY <2>1, <2>2, <2>4
<1>4. \A i \in 1 .. Len(SCCs) :
        \A j, k \in 1 .. Len(SCCs[i]) : SCCs[i][j] = SCCs[i][k] => j = k
  BY <1>1 DEF SearchInv, EmittedInv
<1>5. \A i, k \in 1 .. Len(SCCs) : \A f \in Members(i) : f \in Members(k) => i = k
  BY <1>1, <1>3 DEF SearchInv, EmittedInv
<1>6. \A f \in Function : \E i \in 1 .. Len(SCCs) : f \in Members(i)
  BY <1>2, <1>3, ComponentsPartitionLemma DEF ComponentsPartition
<1> QED
  BY <1>2, <1>3, <1>4, <1>5, <1>6

(* Calls lead to the same component, whose functions are mutually recursive, *)
(* or to an earlier one.                                                    *)
LEMMA ComponentOrder ==
  ASSUME BuilderInv, pc = "done", NEW i \in 1 .. Len(SCCs),
         NEW f \in Members(i), NEW g \in Function, <<f, g>> \in m
  PROVE  /\ \E k \in 1 .. i : g \in Members(k)
         /\ g \in Members(i) => Mutual(DirectCalls, f, g)
<1>1. SearchInv
  BY DEF BuilderInv, TarjanInv
<1>2. /\ Len(SCCs) \in Nat
      /\ \A k \in 1 .. Len(SCCs) : Members(k) = ToSet(SCCs[k]) /\ Members(k) \subseteq Function
  BY ComponentFacts
<1>3. \E k \in 1 .. i : g \in Members(k)
  BY <1>1, <1>2 DEF SearchInv, EmittedInv
<1>4. ASSUME g \in Members(i) PROVE Mutual(DirectCalls, f, g)
  <2>1. Transitive /\ m = TransitiveClosure(DirectCalls)
    BY MatrixTransitive, HierarchyExactLemma DEF BuilderInv, HierarchyExact
  <2>2. PICK r \in Function :
          \A z \in Function : z \in Members(i) <=> z = r \/ (<<r, z>> \in m /\ <<z, r>> \in m)
    <3>1. \A k \in 1 .. Len(SCCs) : \E r \in Function : \A z \in Function :
            z \in ToSet(SCCs[k]) <=> z = r \/ (<<r, z>> \in m /\ <<z, r>> \in m)
      BY <1>1 DEF SearchInv, EmittedInv
    <3> QED
      BY <1>2, <3>1
  <2>3. Members(i) \in SUBSET Function
    BY <1>2
  <2>4. Members(i) = ClassOf(DirectCalls, f)
    BY <2>1, <2>2, <2>3, ComponentIsClass
  <2> QED
    BY <1>4, <2>4 DEF ClassOf
<1> QED
  BY <1>3, <1>4

(* What the converter looks up for a call is what the hierarchy follows.     *)
LEMMA CalleesAreCalled ==
  ASSUME BuilderInv, pc = "done", NEW f \in Function, NEW g \in callees(f)
  PROVE  g \in Function /\ <<f, g>> \in m
<1>1. m = TransitiveClosure(DirectCalls) /\ DirectCalls \in Relation
  BY HierarchyExactLemma, DirectCallsType DEF BuilderInv, HierarchyExact
<1>2. PICK s \in sites : s.caller = f /\ g \in lookedUp(s)
  BY DEF callees
<1>3. g \in Function /\ g \in Called(s)
  BY <1>2 DEF lookedUp, Called
<1>4. <<f, g>> \in DirectCalls
  BY <1>2, <1>3 DEF DirectCalls
<1> QED
  BY <1>1, <1>3, <1>4, ReachesStep DEF TransitiveClosure, Function

(* The chosen components hold what the function depends on, and no more.     *)
LEMMA ChosenComponents ==
  ASSUME BuilderInv, pc = "done", function \in Function
  PROVE  /\ dependsOn \subseteq Function
         /\ dependsOnSccs \subseteq 1 .. Len(SCCs)
         /\ \A i \in dependsOnSccs : Members(i) \subseteq dependsOn
         /\ \A f \in dependsOn : \A i \in 1 .. Len(SCCs) : f \in Members(i) => i \in dependsOnSccs
         /\ \A f \in dependsOn : \E i \in dependsOnSccs : f \in Members(i)
         /\ \A f \in dependsOn : \A g \in Function : <<f, g>> \in m => g \in dependsOn
<1>1. dependsOn \subseteq Function
  BY DEF dependsOn, getTransitivelyCalledFunctions
<1>2. /\ DOMAIN SCCs = 1 .. Len(SCCs)
      /\ \A i \in 1 .. Len(SCCs) : Members(i) = ToSet(SCCs[i]) /\ Members(i) \subseteq Function
      /\ \A f \in Function : \E i \in 1 .. Len(SCCs) : f \in Members(i)
  BY ComponentFacts
<1>3. dependsOnSccs = {i \in 1 .. Len(SCCs) : \E f \in dependsOn : f \in Members(i)}
  BY <1>2 DEF dependsOnSccs
<1>4. \A f \in dependsOn : \A g \in Function : <<f, g>> \in m => g \in dependsOn
  BY DependsOnClosed DEF funcDependsOn, getTransitivelyCalledFunctions
<1>5. ASSUME NEW i \in dependsOnSccs, NEW g \in Members(i)
      PROVE  g \in dependsOn
  <2>1. PICK f \in dependsOn : f \in Members(i)
    BY <1>3
  <2>2. SearchInv
    BY DEF BuilderInv, TarjanInv
  <2>3. PICK r \in Function :
          \A z \in Function : z \in Members(i) <=> z = r \/ (<<r, z>> \in m /\ <<z, r>> \in m)
    <3>1. i \in 1 .. Len(SCCs) /\ Members(i) = ToSet(SCCs[i])
      BY <1>2, <1>3
    <3> QED
      BY <2>2, <3>1 DEF SearchInv, EmittedInv
  <2>4. f \in Function /\ g \in Function
    BY <1>1, <1>2, <1>3, <2>1
  <2>5. r \in dependsOn
    BY <1>4, <2>1, <2>3, <2>4
  <2> QED
    BY <1>4, <2>3, <2>4, <2>5
<1> QED
  BY <1>1, <1>2, <1>3, <1>4, <1>5

(* The first component of the queue, and the function the loops are at.      *)
LEMMA CurrentFunction ==
  ASSUME BuilderInv, pc = "done", function \in Function, LoopsInv, sccQueue # {}
  PROVE  /\ Min(sccQueue) \in sccQueue /\ \A i \in sccQueue : Min(sccQueue) <= i
         /\ Min(sccQueue) \in 1 .. Len(SCCs)
         /\ fi \in 1 .. Len(scc)
         /\ curr \in Members(Min(sccQueue)) /\ curr \in dependsOn
         /\ ~BeenTo(curr)
<1>1. dependsOnSccs \subseteq 1 .. Len(SCCs) /\ Len(SCCs) \in Nat
      /\ \A i \in dependsOnSccs : Members(i) \subseteq dependsOn
  BY ComponentFacts, ChosenComponents
<1>2. sccQueue \in SUBSET Nat
  BY <1>1 DEF LoopsInv
<1>3. \E z \in sccQueue : \A w \in sccQueue : z =< w
  BY <1>2, LeastElement
<1>4. Min(sccQueue) \in sccQueue /\ \A i \in sccQueue : Min(sccQueue) <= i
  BY <1>3 DEF Min
<1>5. Min(sccQueue) \in dependsOnSccs /\ Min(sccQueue) \in 1 .. Len(SCCs)
  BY <1>1, <1>4 DEF LoopsInv
<1>6. Len(scc) \in Nat /\ fi \in 1 .. Len(scc)
  BY <1>5, ComponentFacts DEF LoopsInv, scc
<1>7. curr \in Members(Min(sccQueue)) /\ curr \in dependsOn
  BY <1>1, <1>5, <1>6 DEF curr, scc, Members
<1>8. ~BeenTo(curr)
  <2>1. ASSUME NEW i \in dependsOnSccs \ sccQueue, curr \in Members(i) PROVE FALSE
    <3>1. i = Min(sccQueue)
      BY <1>1, <1>5, <1>7, <2>1, ComponentFacts
    <3> QED
      BY <1>4, <3>1
  <2>2. ASSUME NEW j \in 1 .. fi - 1, curr = scc[j] PROVE FALSE
    <3>1. j \in 1 .. Len(scc) /\ j # fi
      BY <1>6
    <3> QED
      BY <1>5, <1>6, <2>2, <3>1, ComponentFacts DEF curr, scc
  <2> QED
    BY <2>1, <2>2 DEF BeenTo
<1> QED
  BY <1>4, <1>5, <1>6, <1>7, <1>8

(* The maps hold the current function and all that it calls.                 *)
LEMMA CurrentLookups ==
  ASSUME BuilderInv, MayZapInv, step = "convert", LoopsInv, sccQueue # {}
  PROVE  LookupsSucceed(curr)
<1>1. /\ pc = "done" /\ function \in Function
      /\ DOMAIN funcMayZapDirect = dependsOn /\ DOMAIN funcMayZap = dependsOn
  BY DEF MayZapInv
<1>2. curr \in dependsOn /\ dependsOn \subseteq Function
  BY <1>1, CurrentFunction, ChosenComponents
<1>3. ASSUME NEW g \in callees(curr) PROVE g \in dependsOn
  BY <1>1, <1>2, CalleesAreCalled, ChosenComponents
<1> QED
  BY <1>1, <1>2, <1>3 DEF LookupsSucceed

(* What the current function calls was converted before it, or the two are   *)
(* mutually recursive.                                                      *)
LEMMA CurrentCallees ==
  ASSUME BuilderInv, pc = "done", function \in Function, LoopsInv, sccQueue # {},
         NEW g \in callees(curr)
  PROVE  Mutual(DirectCalls, curr, g) \/ \E k \in 1 .. Len(converted) : converted[k] = g
<1> DEFINE i == Min(sccQueue)
<1>1. /\ i \in 1 .. Len(SCCs) /\ Len(SCCs) \in Nat
      /\ curr \in Members(i) /\ curr \in dependsOn /\ curr \in Function
  BY CurrentFunction, ChosenComponents, ComponentFacts
<1>2. g \in Function /\ <<curr, g>> \in m
  BY <1>1, CalleesAreCalled
<1>3. PICK k \in 1 .. i : g \in Members(k)
  BY <1>1, <1>2, ComponentOrder
<1>4. CASE k = i
  BY <1>1, <1>2, <1>3, <1>4, ComponentOrder
<1>5. CASE k # i
  <2>1. k \in 1 .. Len(SCCs) /\ k < i
    BY <1>1, <1>5
  <2>2. k \in dependsOnSccs
    BY <1>1, <1>2, <1>3, <2>1, ChosenComponents
  <2>3. k \notin sccQueue
    BY <1>1, <2>1, CurrentFunction
  <2>4. BeenTo(g)
    BY <1>3, <2>2, <2>3 DEF BeenTo
  <2> QED
    BY <1>2, <2>4 DEF LoopsInv
<1> QED
  BY <1>4, <1>5

(* Steps that leave the hierarchy and the function alone.                    *)
LEMMA CallsUnchanged ==
  ASSUME UNCHANGED <<m, SCCs, function, typeOf, sites>>
  PROVE  /\ dependsOnSccs' = dependsOnSccs /\ DirectCalls' = DirectCalls
         /\ \A f : callees(f)' = callees(f)
         /\ \A i : Members(i)' = Members(i)
         /\ UNCHANGED converted => CalleesBefore' = CalleesBefore
         /\ UNCHANGED <<converted, sccQueue, fi>> => LoopsInv' = LoopsInv
<1>1. dependsOnSccs' = dependsOnSccs /\ DirectCalls' = DirectCalls
      /\ (\A f : callees(f)' = callees(f)) /\ \A i : Members(i)' = Members(i)
  BY DEF dependsOnSccs, dependsOn, getTransitivelyCalledFunctions, DirectCalls, Called, callees,
     lookedUp, Members
<1>2. UNCHANGED converted => CalleesBefore' = CalleesBefore
  BY <1>1 DEF CalleesBefore
<1>3. UNCHANGED <<converted, sccQueue, fi>> => LoopsInv' = LoopsInv
  BY <1>1 DEF LoopsInv, BeenTo, scc
<1> QED
  BY <1>1, <1>2, <1>3

LEMMA NothingConverted ==
  ASSUME converted = <<>>
  PROVE  /\ converted \in Seq(Function) /\ Len(converted) = 0
         /\ \A i, k \in 1 .. Len(converted) : converted[i] = converted[k] => i = k
         /\ CalleesBefore
BY EmptySeq DEF CalleesBefore

LEMMA NothingConvertedNext ==
  ASSUME converted' = <<>>
  PROVE  /\ converted' \in Seq(Function) /\ Len(converted') = 0
         /\ \A i, k \in 1 .. Len(converted') : converted'[i] = converted'[k] => i = k
         /\ CalleesBefore'
BY EmptySeq DEF CalleesBefore

LEMMA ConvertInit == DriverInit => ConvertInv
BY NothingConverted DEF DriverInit, ConvertInv

(* The loops begin with all of the chosen components before them.            *)
LoopsStart ==
  /\ BuilderInv /\ pc = "done" /\ function \in Function
  /\ converted = <<>> /\ fi = 1 /\ sccQueue = dependsOnSccs

LEMMA LoopsBegin == LoopsStart => LoopsInv
<1> SUFFICES ASSUME LoopsStart PROVE LoopsInv
  OBVIOUS
<1> USE DEF LoopsStart
<1>1. sccQueue \subseteq 1 .. Len(SCCs)
  BY ChosenComponents
<1>2. sccQueue # {} => fi <= Len(scc)
  <2>1. ASSUME sccQueue # {} PROVE Min(sccQueue) \in sccQueue
    <3>1. sccQueue \in SUBSET Nat
      BY <1>1, ComponentFacts
    <3>2. \E z \in sccQueue : \A w \in sccQueue : z =< w
      BY <2>1, <3>1, LeastElement
    <3> QED
      BY <3>2 DEF Min
  <2>2. \A i \in 1 .. Len(SCCs) : Len(SCCs[i]) \in Nat /\ Len(SCCs[i]) >= 1
    BY ComponentFacts
  <2>3. ASSUME sccQueue # {} PROVE Len(scc) >= 1 /\ Len(scc) \in Nat
    BY <1>1, <2>1, <2>2, <2>3 DEF scc
  <2> QED
    BY <2>3
<1>3. \A f \in Function : ~BeenTo(f)
  BY DEF BeenTo
<1> QED
  BY <1>2, <1>3, NothingConverted DEF LoopsInv

LEMMA LoopsBeginNext == LoopsStart' => LoopsInv'
BY LoopsBegin, PTL

(* One more function is converted.                                          *)
LEMMA ConvertStep ==
  ASSUME BuilderInv, MayZapInv, ConvertInv, ConvertFunction
  PROVE  ConvertInv'
<1>1. /\ step = "convert" /\ sccQueue # {} /\ LoopsInv
      /\ pc = "done" /\ function \in Function
  BY DEF ConvertFunction, ConvertInv, MayZapInv
<1>2. /\ step' = "convert" /\ converted' = Append(converted, curr)
      /\ \/ fi < Len(scc) /\ fi' = fi + 1 /\ UNCHANGED sccQueue
         \/ fi = Len(scc) /\ fi' = 1 /\ sccQueue' = sccQueue \ {Min(sccQueue)}
  BY <1>1, CurrentLookups DEF ConvertFunction
<1>3. UNCHANGED <<m, SCCs, function, typeOf, sites, pc>>
  BY DEF ConvertFunction, hbVars
<1>4. /\ dependsOnSccs' = dependsOnSccs /\ DirectCalls' = DirectCalls
      /\ \A f : callees(f)' = callees(f)
      /\ \A i : Members(i)' = Members(i)
  BY <1>3, CallsUnchanged
<1> DEFINE n == Len(converted)
           i == Min(sccQueue)
<1>5. /\ i \in sccQueue /\ (\A k \in sccQueue : i <= k) /\ i \in 1 .. Len(SCCs)
      /\ fi \in 1 .. Len(scc) /\ Len(scc) \in Nat /\ Len(SCCs) \in Nat
      /\ curr \in Function /\ ~BeenTo(curr)
  BY <1>1, CurrentFunction, ChosenComponents, ComponentFacts DEF scc
<1>6. /\ n \in Nat /\ Len(converted') = n + 1 /\ converted' \in Seq(Function)
      /\ converted'[n + 1] = curr
      /\ \A k \in 1 .. n : converted'[k] = converted[k]
  BY <1>2, <1>5, LenProperties, AppendProperties DEF ConvertInv
<1>7. \A k \in 1 .. n : converted[k] # curr
  BY <1>1, <1>5 DEF LoopsInv
<1>8. \A j, k \in 1 .. Len(converted') : converted'[j] = converted'[k] => j = k
  BY <1>6, <1>7 DEF ConvertInv
<1>9. CalleesBefore'
  <2> SUFFICES ASSUME NEW k \in 1 .. n + 1, NEW g \in callees(converted'[k])
               PROVE  \/ Mutual(DirectCalls, converted'[k], g)
                      \/ \E j \in 1 .. k - 1 : converted'[j] = g
    BY <1>4, <1>6 DEF CalleesBefore
  <2>1. CASE k = n + 1
    BY <1>1, <1>6, <2>1, CurrentCallees
  <2>2. CASE k # n + 1
    <3>1. k \in 1 .. n /\ converted'[k] = converted[k]
      BY <1>6, <2>2
    <3>2. \/ Mutual(DirectCalls, converted[k], g)
          \/ \E j \in 1 .. k - 1 : converted[j] = g
      BY <3>1 DEF ConvertInv, CalleesBefore
    <3>3. \A j \in 1 .. k - 1 : converted'[j] = converted[j]
      BY <1>6, <3>1
    <3> QED
      BY <3>1, <3>2, <3>3
  <2> QED
    BY <2>1, <2>2
<1>10. LoopsInv'
  <2> DEFINE Loops ==
        /\ sccQueue' \subseteq dependsOnSccs
        /\ \A j \in dependsOnSccs \ sccQueue', k \in sccQueue' : j < k
        /\ fi' \in Nat \ {0}
        /\ sccQueue' # {} => fi' <= Len(scc')
        /\ \A f \in Function : BeenTo(f)' <=> BeenTo(f) \/ f = curr
  <2>1. \A f : BeenTo(f)' <=>
          \/ \E j \in dependsOnSccs \ sccQueue' : f \in Members(j)
          \/ sccQueue' # {} /\ \E j \in 1 .. fi' - 1 : f = scc'[j]
    BY <1>4 DEF BeenTo
  <2>2. ASSUME fi < Len(scc), fi' = fi + 1, UNCHANGED sccQueue
        PROVE  Loops
    <3>1. scc' = scc
      BY <1>3, <2>2 DEF scc
    <3>2. \A j : j \in 1 .. fi' - 1 <=> j \in 1 .. fi - 1 \/ j = fi
      BY <1>5, <2>2
    <3>3. \A f : BeenTo(f)' <=> BeenTo(f) \/ f = curr
      BY <1>1, <2>1, <2>2, <3>1, <3>2 DEF BeenTo, curr
    <3>4. fi' \in Nat \ {0} /\ fi' <= Len(scc')
      BY <1>5, <2>2, <3>1
    <3> QED
      BY <1>1, <2>2, <3>3, <3>4 DEF LoopsInv
  <2>3. ASSUME fi = Len(scc), fi' = 1, sccQueue' = sccQueue \ {i}
        PROVE  Loops
    <3>1. sccQueue \subseteq dependsOnSccs /\ sccQueue \subseteq 1 .. Len(SCCs)
      BY <1>1, ChosenComponents DEF LoopsInv
    <3>2. \A f : f \in Members(i) <=> f = curr \/ \E j \in 1 .. fi - 1 : f = scc[j]
      <4>1. \A j : j \in 1 .. Len(SCCs[i]) <=> j \in 1 .. fi - 1 \/ j = fi
        BY <1>5, <2>3 DEF scc
      <4> QED
        BY <4>1 DEF Members, curr, scc
    <3>3. dependsOnSccs \ sccQueue' = (dependsOnSccs \ sccQueue) \cup {i}
      BY <1>5, <2>3, <3>1
    <3>4. 1 .. fi' - 1 = {}
      BY <2>3
    <3>5. \A f : BeenTo(f)' <=> BeenTo(f) \/ f = curr
      BY <1>1, <2>1, <3>2, <3>3, <3>4 DEF BeenTo
    <3>6. \A k \in sccQueue' : i < k
      BY <1>5, <2>3, <3>1
    <3>7. \A j \in dependsOnSccs \ sccQueue', k \in sccQueue' : j < k
      BY <1>1, <2>3, <3>3, <3>6 DEF LoopsInv
    <3>8. sccQueue' # {} => fi' <= Len(scc')
      <4>1. \A k \in 1 .. Len(SCCs) : Len(SCCs[k]) \in Nat /\ Len(SCCs[k]) >= 1
        BY <1>1, ComponentFacts
      <4>2. sccQueue' \in SUBSET Nat
        <5>1. sccQueue \subseteq Nat
          BY <3>1
        <5> QED
          BY <2>3, <5>1
      <4>3. sccQueue' # {} => \E z \in sccQueue' : \A w \in sccQueue' : z =< w
        BY <4>2, LeastElement
      <4>4. sccQueue' # {} => Min(sccQueue') \in sccQueue'
        BY <4>3 DEF Min
      <4>5. scc' = SCCs[Min(sccQueue')]
        BY <1>3 DEF scc
      <4>6. sccQueue' # {} => Min(sccQueue') \in 1 .. Len(SCCs)
        <5>1. \A k \in sccQueue' : k \in 1 .. Len(SCCs)
          BY <2>3, <3>1
        <5> QED
          BY <4>4, <5>1
      <4>7. sccQueue' # {} => Len(scc') \in Nat /\ Len(scc') >= 1
        BY <4>1, <4>5, <4>6
      <4> QED
        BY <2>3, <4>7
    <3>9. sccQueue' \subseteq dependsOnSccs
      <4> HIDE DEF i
      <4> QED
        BY <2>3, <3>1
    <3>10. fi' \in Nat \ {0}
      BY <2>3
    <3> QED
      BY <3>5, <3>7, <3>8, <3>9, <3>10
  <2>4. Loops
    BY <1>2, <2>2, <2>3
  <2>5. \A f \in Function : BeenTo(f)' <=> \E k \in 1 .. Len(converted') : converted'[k] = f
    <3>1. \A k : k \in 1 .. n + 1 <=> k \in 1 .. n \/ k = n + 1
      BY <1>6
    <3>2. \A f \in Function : BeenTo(f) <=> \E k \in 1 .. n : converted[k] = f
      BY <1>1 DEF LoopsInv
    <3>3. \A f : (\E k \in 1 .. n + 1 : converted'[k] = f)
                  <=> (\E k \in 1 .. n : converted[k] = f) \/ f = curr
      BY <1>6, <3>1
    <3> QED
      BY <1>6, <2>4, <3>2, <3>3
  <2> HIDE DEF Loops
  <2> QED
    BY <1>4, <2>4, <2>5 DEF LoopsInv, Loops
<1> QED
  BY <1>2, <1>6, <1>8, <1>9, <1>10 DEF ConvertInv

LEMMA ConvertNext ==
  BuilderInv /\ BuilderInv' /\ MayZapInv /\ MayZapInv' /\ ConvertInv /\ [DriverNext]_allVars
    => ConvertInv'
<1> SUFFICES ASSUME BuilderInv, BuilderInv', MayZapInv, MayZapInv', ConvertInv,
                    [DriverNext]_allVars
             PROVE  ConvertInv'
  OBVIOUS
<1>1. CASE ParseOptions \/ ReadModule \/ ChooseFunction \/ CheckHierarchy \/ TransformModule
           \/ BuildHierarchy
  <2>1. /\ step \notin {"analyze", "mayzap", "convert", "stop", "exit"}
        /\ step' \notin {"analyze", "mayzap", "convert", "stop", "exit"}
        /\ UNCHANGED <<converted, fi>>
    BY <1>1 DEF ParseOptions, ReadModule, ChooseFunction, CheckHierarchy, TransformModule,
       BuildHierarchy, ReturnWith, Continue, driverVars, workVars, queueVars
  <2>2. converted' = <<>> /\ fi' = 1
    BY <2>1 DEF ConvertInv
  <2> QED
    BY <2>1, <2>2, NothingConvertedNext DEF ConvertInv
<1>2. CASE SelectComponents
  <2>1. /\ step = "hierarchy" /\ UNCHANGED <<m, SCCs, function, typeOf, sites, converted, fi>>
        /\ \/ step' = "analyze" /\ sccQueue' = dependsOnSccs
           \/ step' = "exit" /\ function' \notin Function
    BY <1>2 DEF SelectComponents, hbVars
  <2>2. converted' = <<>> /\ fi' = 1
    BY <2>1 DEF ConvertInv
  <2>3. dependsOnSccs' = dependsOnSccs
    BY <2>1, CallsUnchanged
  <2> QED
    BY <2>1, <2>2, <2>3, NothingConvertedNext DEF ConvertInv
<1>3. CASE EndAnalysis \/ \E f \in todo : AnalyzeFunction(f) \/ CloseMayZap(f)
  <2>1. /\ step \in {"analyze", "mayzap"}
        /\ UNCHANGED <<m, SCCs, function, typeOf, sites, converted, sccQueue, fi>>
    BY <1>3 DEF EndAnalysis, AnalyzeFunction, CloseMayZap, hbVars, queueVars
  <2>2. step' \in {"analyze", "mayzap"}
    <3>1. CASE EndAnalysis
      BY <3>1 DEF EndAnalysis
    <3>2. ASSUME NEW f \in todo, AnalyzeFunction(f) PROVE step' \in {"analyze", "mayzap"}
      BY <3>2 DEF AnalyzeFunction
    <3>3. ASSUME NEW f \in todo, CloseMayZap(f) PROVE step' \in {"analyze", "mayzap"}
      BY <3>3, MayZapLookups DEF CloseMayZap
    <3> QED
      BY <1>3, <3>1, <3>2, <3>3
  <2>3. converted' = <<>> /\ fi' = 1
    BY <2>1 DEF ConvertInv
  <2>4. sccQueue' = dependsOnSccs'
    BY <2>1, CallsUnchanged DEF ConvertInv
  <2> QED
    BY <2>2, <2>3, <2>4, NothingConvertedNext DEF ConvertInv
<1>4. CASE EndMayZap
  <2>1. /\ step = "mayzap" /\ step' = "convert"
        /\ UNCHANGED <<m, SCCs, function, typeOf, sites, converted, sccQueue, fi>>
    BY <1>4 DEF EndMayZap, hbVars, queueVars
  <2>2. converted' = <<>> /\ fi' = 1 /\ sccQueue' = dependsOnSccs'
    BY <2>1, CallsUnchanged DEF ConvertInv
  <2>3. pc' = "done" /\ function' \in Function'
    BY <2>1 DEF MayZapInv
  <2>4. LoopsInv'
    BY <2>2, <2>3, LoopsBeginNext DEF LoopsStart
  <2> QED
    BY <2>1, <2>2, <2>4, NothingConvertedNext DEF ConvertInv
<1>5. CASE ConvertFunction
  BY <1>5, ConvertStep
<1>6. CASE Finish \/ UNCHANGED allVars
  <2>1. /\ UNCHANGED <<m, SCCs, function, typeOf, sites, converted, sccQueue, fi>>
        /\ step' = step \/ (step = "convert" /\ step' = "stop" /\ sccQueue = {})
    BY <1>6 DEF Finish, allVars, hbVars, driverVars, workVars, queueVars
  <2>2. dependsOnSccs' = dependsOnSccs /\ CalleesBefore' = CalleesBefore /\ LoopsInv' = LoopsInv
    BY <2>1, CallsUnchanged
  <2> QED
    BY <2>1, <2>2 DEF ConvertInv
<1> QED
  BY <1>1, <1>2, <1>3, <1>4, <1>5, <1>6 DEF DriverNext

LEMMA ConvertInvariant == DriverSpec => []ConvertInv
<1>1. DriverSpec => []MayZapInv
  BY BuilderInDriver, MayZapInit, MayZapNext, PTL DEF DriverSpec
<1> QED
  BY <1>1, BuilderInDriver, ConvertInit, ConvertNext, PTL DEF DriverSpec

(* For every module and every way to ask for a function: the program ends    *)
(* with exit(123), exit(767) or exit(9876) only when the function that was   *)
(* asked for has no body.                                                   *)
THEOREM LookupsCorrect == DriverSpec => []NoLookupFails
<1>1. ConvertInv => NoLookupFails
  BY DEF ConvertInv, NoLookupFails
<1> QED
  BY <1>1, ConvertInvariant, PTL

(* A sequence without repetitions has as many places as elements.            *)
LEMMA PlacesAreElements ==
  ASSUME NEW T, NEW s \in Seq(T),
         \A i, k \in 1 .. Len(s) : s[i] = s[k] => i = k
  PROVE  Len(s) = Cardinality(ToSet(s))
<1>1. Len(s) \in Nat /\ DOMAIN s = 1 .. Len(s) /\ s \in [1 .. Len(s) -> T]
  BY LenProperties
<1>2. ToSet(s) = {s[i] : i \in 1 .. Len(s)}
  BY <1>1 DEF ToSet
<1>3. s \in Bijection(1 .. Len(s), ToSet(s))
  BY <1>1, <1>2 DEF Bijection, Injection, Surjection, IsInjective
<1> QED
  BY <1>1, <1>3, FS_CountingElements DEF ExistsBijection

LEMMA BottomUpLemma == BuilderInv /\ MayZapInv /\ ConvertInv => ConvertsBottomUp
<1> SUFFICES ASSUME BuilderInv, MayZapInv, ConvertInv PROVE ConvertsBottomUp
  OBVIOUS
<1>1. DOMAIN converted = 1 .. Len(converted) /\ Len(converted) \in Nat
  BY LenProperties DEF ConvertInv
<1>2. ASSUME step = "stop"
      PROVE  ToSet(converted) = MayRun(function)
  <2>1. LoopsInv /\ sccQueue = {} /\ pc = "done" /\ function \in Function
    BY <1>2 DEF ConvertInv, MayZapInv
  <2>2. dependsOn = MayRun(function)
    BY <2>1, DependsOnIsMayRun DEF dependsOn, funcDependsOn
  <2>3. \A f \in Function : BeenTo(f) <=> f \in dependsOn
    BY <2>1, ChosenComponents DEF BeenTo
  <2>4. \A f \in Function : f \in ToSet(converted) <=> BeenTo(f)
    BY <1>1, <2>1 DEF LoopsInv, ToSet
  <2>5. ToSet(converted) \subseteq Function
    BY <1>1, ElementOfSeq DEF ConvertInv, ToSet
  <2> QED
    BY <2>1, <2>2, <2>3, <2>4, <2>5, ChosenComponents
<1>3. Len(converted) = Cardinality(ToSet(converted))
  BY PlacesAreElements DEF ConvertInv
<1> QED
  BY <1>1, <1>2, <1>3 DEF ConvertsBottomUp, ConvertInv, CalleesBefore

(* For every module and every function of it: main() converts the functions  *)
(* that may run, each once, and each after the functions it calls that are   *)
(* not mutually recursive with it.                                          *)
THEOREM BottomUpCorrect == DriverSpec => []ConvertsBottomUp
<1>1. DriverSpec => []MayZapInv
  BY BuilderInDriver, MayZapInit, MayZapNext, PTL DEF DriverSpec
<1> QED
  BY <1>1, BuilderInDriver, ConvertInvariant, BottomUpLemma, PTL
=============================================================================
