-------------------------- MODULE ConversionDriver --------------------------
(***************************************************************************)
(* main(): the options, the module and the function to be analysed, the    *)
(* check for recursion before -eager-inline, the transformation of the     *)
(* module, and from its call hierarchy to the last converted component.    *)
(*                                                                         *)
(* The driver runs the hierarchy builder to its end, analyses the memory   *)
(* accesses of every function the chosen one depends on (in the order of a *)
(* std::set of pointers, so any order), closes the sets of globals they    *)
(* may write, and converts component by component.  A failed lookup ends   *)
(* the program with exit(123), exit(767) or exit(9876).                    *)
(*                                                                         *)
(* Of transformModule only BitcastCallEliminator is visible here.  Inlined *)
(* or not, what comes out is some module, and source may be any module.    *)
(***************************************************************************)
EXTENDS HierarchyBuilder

CONSTANTS
  Options,                       \* the command lines considered
  SourceSets,                    \* the call instructions of the modules read
  Globals,                       \* the integer global variables
  Writes                         \* the choices for what each function writes

(* A function name: one of a defined function, that of a function without a *)
(* body, one that no function has, or none at all.                           *)
External == N
Empty == -1
Unknown == -2
NoFunction == -1
FunctionName == Function \cup {External, Empty, Unknown}

Option ==
  [boundedIntegers : BOOLEAN, exactDivision : BOOLEAN, unsignedEncoding : BOOLEAN,
   bitwiseConditions : BOOLEAN, inline : BOOLEAN, eagerInline : BOOLEAN,
   functionname : FunctionName]

(* In the file a function may also be called through a cast of its address   *)
(* to a pointer of another type; here its arguments and result fit.          *)
SourceSite == Site \cup [caller : Function, kind : {"cast"}, callee : Function, type : Types]

ASSUME OptionsAssumption == Options \subseteq Option
ASSUME SourceAssumption == SourceSets \subseteq SUBSET SourceSite
ASSUME WritesAssumption == Writes \subseteq [Function -> SUBSET Globals]

VARIABLES
  step,                          \* where main() is
  status,                        \* what main() returns
  options, source, mainFunction, \* input: options, module, the function called main
  writes,                        \* input: the globals each function writes itself
  function,                      \* the function to be converted
  todo,                          \* the rest of the set main() is looping over
  funcMayZapDirect, funcMayZap,  \* maps: function -> globals
  sccQueue,                      \* scci: the places of the components left, the current one first
  fi,                            \* the place of the current function in its component
  converted                      \* the functions converted so far, in order

givenVars == <<options, source, mainFunction, writes>>
mapVars == <<funcMayZapDirect, funcMayZap>>
queueVars == <<sccQueue, fi>>
workVars == <<todo, mapVars, queueVars, converted>>
driverVars == <<step, status, givenVars, function, workVars>>
allVars == <<hbVars, driverVars>>

NoEntries == [f \in {} |-> {}]

-----------------------------------------------------------------------------
(* BitcastCallEliminator: the call becomes one of the function itself.       *)
Eliminated(s) ==
  IF s.kind = "cast" THEN [caller |-> s.caller, kind |-> "direct", callee |-> s.callee] ELSE s

(* sites is what transformModule makes of the module that was read.          *)
DriverInit ==
  /\ source \in SourceSets
  /\ sites = {Eliminated(s) : s \in source}
  /\ Init
  /\ step = "options"
  /\ status = 0
  /\ options \in Options
  /\ mainFunction \in Function \cup {External, NoFunction}
  /\ writes \in Writes
  /\ function = NoFunction
  /\ todo = {}
  /\ funcMayZapDirect = NoEntries
  /\ funcMayZap = NoEntries
  /\ sccQueue = {}
  /\ fi = 1
  /\ converted = <<>>

-----------------------------------------------------------------------------
(* The beginning of main().                                                 *)
ReturnWith(code) == step' = "return" /\ status' = code
Continue(next) == step' = next /\ UNCHANGED status

Conflict(o) ==
  \/ o.boundedIntegers /\ o.exactDivision
  \/ ~o.boundedIntegers /\ (o.unsignedEncoding \/ o.bitwiseConditions)
  \/ o.inline /\ o.eagerInline

ParseOptions ==
  /\ step = "options"
  /\ IF Conflict(options) THEN ReturnWith(333) ELSE Continue("read")
  /\ UNCHANGED <<hbVars, givenVars, function, workVars>>

(* The file may not be there, or not be a module.                            *)
ReadModule ==
  /\ step = "read"
  /\ Continue("choose") \/ ReturnWith(1) \/ ReturnWith(2)
  /\ UNCHANGED <<hbVars, givenVars, function, workVars>>

(* The first function with the name that was given, or called main if none   *)
(* was; the only one if there is just one with a body.                       *)
ChooseFunction ==
  /\ step = "choose"
  /\ \/ /\ options.functionname \in Function \cup {External}
        /\ function' = options.functionname
        /\ Continue("check")
     \/ /\ options.functionname = Unknown
        /\ ReturnWith(IF N = 0 THEN 3 ELSE 5)
        /\ UNCHANGED function
     \/ /\ options.functionname = Empty
        /\ \/ /\ mainFunction # NoFunction
              /\ function' = mainFunction
              /\ Continue("check")
           \/ /\ mainFunction = NoFunction
              /\ IF N = 1
                 THEN function' = 0 /\ Continue("check")
                 ELSE ReturnWith(IF N = 0 THEN 3 ELSE 4) /\ UNCHANGED function
  /\ UNCHANGED <<hbVars, givenVars, workVars>>

(* checkHierarchy: another HierarchyBuilder, for the module as it was read,  *)
(* in which a call through a cast may reach what has the type of the cast.   *)
CalledInSource(s) ==
  IF s.kind = "cast" THEN {f \in Function : typeOf[f] = s.type} ELSE Called(s)
SourceCalls ==
  {c \in Function \X Function : \E s \in source : s.caller = c[1] /\ c[2] \in CalledInSource(s)}

Cyclic(calls) == \E f \in Function : <<f, f>> \in TransitiveClosure(calls)

CheckHierarchy ==
  /\ step = "check"
  /\ IF options.eagerInline /\ Cyclic(SourceCalls) THEN ReturnWith(7) ELSE Continue("transform")
  /\ UNCHANGED <<hbVars, givenVars, function, workVars>>

(* transformModule, and InstChecker, which may find unsuitable instructions. *)
TransformModule ==
  /\ step = "transform"
  /\ Continue("hierarchy") \/ ReturnWith(6)
  /\ UNCHANGED <<hbVars, givenVars, function, workVars>>

-----------------------------------------------------------------------------
(* From the call hierarchy to the last part.                                *)
dependsOn == getTransitivelyCalledFunctions(function) \cup {function}

(* The components with a function in dependsOn, by their places in what      *)
(* getSccs returns.                                                         *)
dependsOnSccs == {i \in DOMAIN SCCs : ToSet(SCCs[i]) \cap dependsOn # {}}

BuildHierarchy ==
  /\ step = "hierarchy"
  /\ Next
  /\ UNCHANGED driverVars

SelectComponents ==
  /\ step = "hierarchy"
  /\ pc = "done"
  /\ \/ /\ function \in Function
        /\ step' = "analyze"
        /\ todo' = dependsOn
        /\ sccQueue' = dependsOnSccs
     \/ /\ function \notin Function            \* getIdx: exit(123)
        /\ step' = "exit"
        /\ UNCHANGED <<todo, sccQueue>>
  /\ UNCHANGED <<hbVars, status, givenVars, function, mapVars, fi, converted>>

(* A map with one more entry (std::map::insert).                            *)
With(map, f, globals) ==
  [g \in DOMAIN map \cup {f} |-> IF g = f THEN globals ELSE map[g]]

(* getMayMustMap(func): the globals func may write by itself.                *)
AnalyzeFunction(f) ==
  /\ step = "analyze"
  /\ f \in todo
  /\ funcMayZapDirect' = With(funcMayZapDirect, f, writes[f])
  /\ todo' = todo \ {f}
  /\ UNCHANGED <<hbVars, step, status, givenVars, function, funcMayZap, queueVars, converted>>

EndAnalysis ==
  /\ step = "analyze"
  /\ todo = {}
  /\ step' = "mayzap"
  /\ todo' = dependsOn
  /\ UNCHANGED <<hbVars, status, givenVars, function, mapVars, queueVars, converted>>

(* Mutant of funcDependsOn: what f writes itself is left out.                *)
funcDependsOnCallees(f) == getTransitivelyCalledFunctions(f)

funcDependsOn(f) == getTransitivelyCalledFunctions(f) \cup {f}

(* Mutant of CloseMayZap: the loop does not move on.                         *)
CloseMayZapStuck(f) ==
  /\ step = "mayzap"
  /\ f \in todo
  /\ funcMayZap' =
       With(funcMayZap, f, UNION {funcMayZapDirect[g] : g \in funcDependsOn(f)})
  /\ UNCHANGED <<hbVars, status, givenVars, function, step, todo, funcMayZapDirect, queueVars, converted>>

(* The globals f or a function it calls may write; exit(9876) when one of    *)
(* them was not analysed.                                                    *)
CloseMayZap(f) ==
  /\ step = "mayzap"
  /\ f \in todo
  /\ \/ /\ funcDependsOn(f) \subseteq DOMAIN funcMayZapDirect
        /\ funcMayZap' =
             With(funcMayZap, f, UNION {funcMayZapDirect[g] : g \in funcDependsOn(f)})
        /\ todo' = todo \ {f}
        /\ step' = step
     \/ /\ ~(funcDependsOn(f) \subseteq DOMAIN funcMayZapDirect)
        /\ step' = "exit"
        /\ UNCHANGED <<funcMayZap, todo>>
  /\ UNCHANGED <<hbVars, status, givenVars, function, funcMayZapDirect, queueVars, converted>>

EndMayZap ==
  /\ step = "mayzap"
  /\ todo = {}
  /\ step' = "convert"
  /\ UNCHANGED <<hbVars, status, givenVars, function, todo, mapVars, queueVars, converted>>

(* The defined functions that the converter looks up for a call: the callee, *)
(* or, through a pointer, all functions of the type (getMatchingFunctions).  *)
lookedUp(s) ==
  {g \in Function : \/ s.kind = "direct" /\ g = s.callee
                    \/ s.kind = "indirect" /\ typeOf[g] = s.type}

callees(f) == UNION {lookedUp(s) : s \in {t \in sites : t.caller = f}}

LookupsSucceed(f) ==
  /\ f \in DOMAIN funcMayZapDirect           \* mmMap has the same keys
  /\ callees(f) \subseteq DOMAIN funcMayZap

(* Mutant of scc: push_front instead of push_back.                           *)
sccReversed == SCCs[Max(sccQueue)]

(* The component and the function that the two loops are at.                 *)
scc == SCCs[Min(sccQueue)]
curr == scc[fi]

ConvertFunction ==
  /\ step = "convert"
  /\ sccQueue # {}
  /\ \/ /\ LookupsSucceed(curr)
        /\ converted' = Append(converted, curr)
        /\ \/ fi < Len(scc) /\ fi' = fi + 1 /\ UNCHANGED sccQueue
           \/ fi = Len(scc) /\ fi' = 1 /\ sccQueue' = sccQueue \ {Min(sccQueue)}
        /\ step' = step
     \/ /\ ~LookupsSucceed(curr)
        /\ step' = "exit"
        /\ UNCHANGED <<converted, queueVars>>
  /\ UNCHANGED <<hbVars, status, givenVars, function, todo, mapVars>>

Finish ==
  /\ step = "convert"
  /\ sccQueue = {}
  /\ step' = "stop"
  /\ UNCHANGED <<hbVars, status, givenVars, function, todo, mapVars, queueVars, converted>>

DriverNext ==
  \/ ParseOptions
  \/ ReadModule
  \/ ChooseFunction
  \/ CheckHierarchy
  \/ TransformModule
  \/ BuildHierarchy
  \/ SelectComponents
  \/ \E f \in todo : AnalyzeFunction(f) \/ CloseMayZap(f)
  \/ EndAnalysis
  \/ EndMayZap
  \/ ConvertFunction
  \/ Finish

DriverSpec == DriverInit /\ [][DriverNext]_allVars /\ WF_allVars(DriverNext)

-----------------------------------------------------------------------------
(* Properties.                                                              *)

(* What a run of f may execute: f and whatever it reaches through calls.     *)
MayRun(f) == {g \in Function : f = g \/ Reaches(DirectCalls, f, g)}

(* No lookup of main() or of visitCallInst misses, unless a function without *)
(* a body was asked for: the set of functions main() analyses is closed      *)
(* under the calls that the closure loop and the converter follow, so that   *)
(* neither exit(9876) nor exit(767) is reached, also after casts are gone.   *)
NoLookupFails == step = "exit" => function \notin Function

(* When components are converted, the may-write set of a function holds every *)
(* global that a call of it may change at run time, and no other.            *)
MayZapExact ==
  step \in {"convert", "stop"} =>
     /\ DOMAIN funcMayZap = MayRun(function)
     /\ \A f \in DOMAIN funcMayZap :
          funcMayZap[f] = UNION {writes[g] : g \in MayRun(f)}

(* Parts come out bottom-up: a function is converted after every function it *)
(* calls, unless the two are mutually recursive; and when main() stops it    *)
(* has converted exactly the functions the chosen one may run, each once.    *)
ConvertsBottomUp ==
  /\ \A i \in DOMAIN converted : \A g \in callees(converted[i]) :
        \/ Mutual(DirectCalls, converted[i], g)
        \/ \E k \in 1 .. i - 1 : converted[k] = g
  /\ step = "stop" => /\ ToSet(converted) = MayRun(function)
                      /\ Len(converted) = Cardinality(MayRun(function))

(* main() comes to its end.                                                  *)
DriverTerminates == <>(step \in {"stop", "return", "exit"})
=============================================================================
