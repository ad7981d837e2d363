------------------------- MODULE MCConversionDriver -------------------------
(***************************************************************************)
(* Instances of the driver for TLC.  First, every module of N functions    *)
(* with at most MaxSites direct calls, or two more if the first functions  *)
(* call each other, converted from one function while another writes a     *)
(* global.  Second, two calls of any kind among the first functions, with  *)
(* all ways to name the function to be analysed.                           *)
(***************************************************************************)
EXTENDS ConversionDriver

CONSTANTS
  MaxSites,                      \* bound on the number of direct calls
  t1, t2                         \* types

Direct == {s \in Site : s.kind = "direct"}
Few == {c \in SUBSET Direct : Cardinality(c) <= MaxSites}
MutualCalls == {s \in Direct : {s.caller, s.callee} = {0, 1}}
DirectSites == Few \cup {{s, t} \cup MutualCalls : s, t \in Direct}

Among(F) ==
  {s \in SourceSite : s.caller \in F /\ ("callee" \in DOMAIN s => s.callee \in F)}
MixedSites == {{s, t} : s, t \in Among({0, 1})} \cup {{s, t} : s \in Among({2, 3}), t \in Among({1, 2})}

MCSources == SUBSET SourceSite
MCSites == SUBSET Site
MCWrites == {[f \in Function |-> IF f = w THEN Globals ELSE {}] : w \in Function}

Default(name) ==
  [boundedIntegers |-> FALSE, exactDivision |-> FALSE, unsignedEncoding |-> FALSE,
   bitwiseConditions |-> FALSE, inline |-> FALSE, eagerInline |-> FALSE, functionname |-> name]
MCOptions ==
  {Default(name) : name \in FunctionName}
  \cup {[Default(2) EXCEPT !.eagerInline = TRUE],
        [Default(2) EXCEPT !.boundedIntegers = TRUE, !.unsignedEncoding = TRUE],
        [Default(2) EXCEPT !.boundedIntegers = TRUE, !.exactDivision = TRUE],
        [Default(2) EXCEPT !.bitwiseConditions = TRUE],
        [Default(2) EXCEPT !.inline = TRUE, !.eagerInline = TRUE]}

Types4 == [f \in Function |-> IF f \in {0, 3} THEN t1 ELSE t2]
OneType == [f \in Function |-> t1]

MCInit ==
  /\ \/ /\ source \in DirectSites
        /\ options \in {Default(1)}
        /\ typeOf = OneType
        /\ mainFunction = NoFunction
        /\ writes = [f \in Function |-> IF f = 2 THEN Globals ELSE {}]
     \/ /\ source \in MixedSites
        /\ options \in MCOptions
        /\ typeOf = Types4
        /\ mainFunction \in {0, External, NoFunction}
        /\ options.functionname # Empty => mainFunction = NoFunction
        /\ writes = [f \in Function |-> IF f = 1 THEN Globals ELSE {}]
  /\ DriverInit

MCSpec == MCInit /\ [][DriverNext]_allVars /\ WF_allVars(DriverNext)
=============================================================================
