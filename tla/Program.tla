------------------------------ MODULE Program ------------------------------
(***************************************************************************)
(* What a function in LLVM IR does, as far as llvm2KITTeL models it: the   *)
(* yardstick for the rules of the Converter.  Blocks hold instructions     *)
(* over integer variables in SSA form, integer globals that are read and   *)
(* written through pointers, and comparisons whose outcomes are kept as    *)
(* Booleans until a branch, a select or an assume uses them.               *)
(*                                                                         *)
(* A variable is the argument, a global, the result of an instruction or a *)
(* phi, an operand <<"var", v>>, <<"const", c>> or <<"undef", 0>>, a       *)
(* comparison the place <<block, index>> where it is made.  at = <<b, k>>  *)
(* is a place in block b: 0 before it, k in front of instruction k, one    *)
(* further behind the last, two further at its terminator.                 *)
(***************************************************************************)
EXTENDS Integers, SequencesExt, FiniteSetsExt

CONSTANTS
  Value,                         \* the values of variables, 0 and 1 among them
  Globals,                       \* the integer globals, pairs <<"global", n>>
  Functions                      \* the functions considered

VARIABLES
  fn,                            \* input: the function
  at, env, bools                 \* the run

programVars == <<at, env, bools>>

Start == <<-1, 0>>
Stop == <<-2, 0>>
Entered(f) == <<-3, f>>          \* a call has entered function f

-----------------------------------------------------------------------------
(* Functions as LLVM's verifier and the passes before leave them: operands of *)
(* the right kinds that are defined before they are used, no jump to the      *)
(* entry, no unreachable block, no switch, no branch whose sides are one.     *)

Arg == <<"arg", 1>>
Register == {Arg} \cup ({"result", "phi"} \X Nat \X Nat)
Operand == ({"var"} \X Register) \cup ({"const"} \X Value) \cup {<<"undef", 0>>}
Alias == [Globals -> {"No", "May", "Partial", "Must"}]

InstructionsOf(f) ==
  [op : {"arith"}, x : {"var"} \X Register]
    \cup [op : {"nondef", "other", "fcmp"}]
    \cup [op : {"icmp"}, x : Operand]
    \cup [op : {"assume", "zext"}, c : Nat \X Nat]
    \cup [op : {"select"}, c : Nat \X Nat, x : Operand, y : Operand]
    \cup [op : {"load", "store"}, x : Operand, alias : Alias]
    \cup [op : {"call", "callvoid"}, x : Operand, callees : Seq(DOMAIN f.mayZap)]

hasResult(I) == I.op \in {"arith", "nondef", "other", "select", "zext", "load", "call"}

GraphOK(f) ==
  LET blocks == DOMAIN f.succ
  IN  /\ IsFiniteSet(blocks) /\ 0 \in blocks /\ blocks = 0 .. Cardinality(blocks) - 1
      /\ \A b \in blocks :
           /\ f.succ[b] \in Seq(blocks \ {0}) /\ Len(f.succ[b]) <= 2
           /\ Len(f.succ[b]) = 2 => f.succ[b][1] # f.succ[b][2]
      /\ \A R \in SUBSET blocks :
           0 \in R /\ (\A b \in R : ToSet(f.succ[b]) \subseteq R) => R = blocks

(* The blocks of f that control reaches from u by one or more edges not in Cut. *)
Reached(f, u, Cut) ==
  LET next(v) == {w \in ToSet(f.succ[v]) : <<v, w>> \notin Cut}
  IN  {b \in DOMAIN f.succ :
         \A R \in SUBSET DOMAIN f.succ :
           next(u) \subseteq R /\ (\A v \in R : next(v) \subseteq R) => b \in R}

(* On every way to the place q, f has been at the place p.                   *)
Precedes(f, p, q) ==
  IF p[1] = q[1] THEN p[2] < q[2]
  ELSE q[1] # 0 /\ q[1] \notin Reached(f, 0, {p[1]} \X DOMAIN f.succ)

PlacesOf(f) == UNION {{<<b, k>> : k \in DOMAIN f.code[b]} : b \in DOMAIN f.succ}
At(f, p) == f.code[p[1]][p[2]]

(* A variable stands for its value at the place q: it has been assigned.      *)
DefinedAt(f, v, q) ==
  CASE v[1] = "arg" -> TRUE
    [] v[1] = "result" ->
         LET p == <<v[2], v[3]>>
         IN  p \in PlacesOf(f) /\ hasResult(At(f, p)) /\ Precedes(f, p, q)
    [] v[1] = "phi" ->
         v[2] \in DOMAIN f.succ /\ v[3] \in DOMAIN f.phis[v[2]] /\ Precedes(f, <<v[2], 0>>, q)
UsesDefined(f, x, q) == x[1] = "var" => DefinedAt(f, x[2], q)

(* c is a comparison that has been made when control is at the place q.      *)
Compared(f, c, q) == c \in PlacesOf(f) /\ At(f, c).op \in {"icmp", "fcmp"} /\ Precedes(f, c, q)

DefinitionsOK(f) ==
  /\ \A p \in PlacesOf(f) :
       /\ "x" \in DOMAIN At(f, p) => UsesDefined(f, At(f, p).x, p)
       /\ "y" \in DOMAIN At(f, p) => UsesDefined(f, At(f, p).y, p)
       /\ "c" \in DOMAIN At(f, p) => Compared(f, At(f, p).c, p)
  /\ \A b \in DOMAIN f.succ :
       LET exit == <<b, Len(f.code[b]) + 1>>
       IN  /\ Len(f.succ[b]) = 2 => Compared(f, f.cond[b], exit)
           /\ \A s \in ToSet(f.succ[b]) : \A j \in DOMAIN f.phis[s] :
                f.phis[s][j][b] \in Operand /\ UsesDefined(f, f.phis[s][j][b], exit)

ASSUME ValueAssumption == {0, 1} \subseteq Value /\ \A a \in Value : a \in Int /\ 1 - a \in Value

ASSUME FunctionsAssumption ==
  /\ IsFiniteSet(Globals) /\ \A g \in Globals : g[1] = "global"
  /\ \A f \in Functions :
       /\ GraphOK(f)
       /\ \A b \in DOMAIN f.succ :
            /\ f.code[b] \in Seq(InstructionsOf(f))
            /\ f.phis[b] \in Seq(ToSet(f.phis[b]))
       /\ DefinitionsOK(f)
       /\ \A b \in f.unreachable : f.succ[b] = <<>>
       /\ \A g \in DOMAIN f.mayZap : g \in Nat /\ f.mayZap[g] \subseteq Globals
       /\ \A g \in f.declared : f.mayZap[g] = {}

-----------------------------------------------------------------------------
Blocks == DOMAIN fn.succ
entry == 0
InstrAt(p) == fn.code[p[1]][p[2]]
Places == UNION {{<<b, k>> : k \in DOMAIN fn.code[b]} : b \in Blocks}

Result(p) == <<"result", p[1], p[2]>>
PhiVar(b, j) == <<"phi", b, j>>

Comparisons == {p \in Places : InstrAt(p).op \in {"icmp", "fcmp"}}
Results == {Result(p) : p \in {q \in Places : hasResult(InstrAt(q))}}
Phis == UNION {{PhiVar(b, j) : j \in DOMAIN fn.phis[b]} : b \in Blocks}
Vars == {Arg} \cup Globals \cup Results \cup Phis

(* The values an operand can have.                                          *)
Val(x, e) ==
  CASE x[1] = "var" -> {e[x[2]]} [] x[1] = "const" -> {x[2]} [] x[1] = "undef" -> Value

Havoc(e, V) ==
  {[v \in DOMAIN e |-> IF v \in V THEN w[v] ELSE e[v]] : w \in [V -> Value]}
Assign(e, v, S) == {[e EXCEPT ![v] = a] : a \in S}

(* A store through a pointer: to the location it must be, or to one of those  *)
(* it may be, or to none of the globals; part of one changes to anything.    *)
Stores(I, e) ==
  LET Aliased(a) == {g \in Globals : I.alias[g] = a}
  IN  IF Aliased("Must") # {}
      THEN UNION {Assign(e, g, Val(I.x, e)) : g \in Aliased("Must")}
      ELSE {e} \cup (UNION {Assign(e, g, Val(I.x, e)) : g \in Aliased("May")})
               \cup (UNION {Havoc(e, {g}) : g \in Aliased("Partial")})

Loads(I, e) ==
  LET musts == {g \in Globals : I.alias[g] = "Must"}
  IN  IF musts # {} THEN {e[g] : g \in musts} ELSE Value

(* What instruction I, with result v, makes of the variables.  A call that    *)
(* returns has changed what its callee may write.                            *)
Effects(I, v, e, t) ==
  CASE I.op = "arith" -> Assign(e, v, {1 - a : a \in Val(I.x, e)})
    [] I.op \in {"nondef", "other"} -> Havoc(e, {v})
    [] I.op = "select" -> Assign(e, v, Val(IF t[I.c] THEN I.x ELSE I.y, e))
    [] I.op = "zext" -> Assign(e, v, {IF t[I.c] THEN 1 ELSE 0})
    [] I.op = "load" -> Assign(e, v, Loads(I, e))
    [] I.op = "store" -> Stores(I, e)
    [] I.op = "call" -> UNION {Havoc(e, {v} \cup fn.mayZap[f]) : f \in ToSet(I.callees)}
    [] I.op = "callvoid" -> UNION {Havoc(e, fn.mayZap[f]) : f \in ToSet(I.callees)}
    [] I.op = "assume" -> IF t[I.c] THEN {e} ELSE {}
    [] OTHER -> {e}

Outcomes(p, e, t) ==
  CASE InstrAt(p).op = "icmp" -> {[t EXCEPT ![p] = a > 0] : a \in Val(InstrAt(p).x, e)}
    [] InstrAt(p).op = "fcmp" -> {[t EXCEPT ![p] = o] : o \in BOOLEAN}
    [] OTHER -> {t}

(* The variables of a function a call enters: its arguments and the globals. *)
Passed(I, e) ==
  UNION {{[v \in {Arg} \cup Globals |-> IF v = Arg THEN a ELSE e[v]] : a \in Val(I.x, e)}}

Calls(I, e, t) ==
  IF I.op \in {"call", "callvoid"}
  THEN {<<Entered(f), c, t>> : f \in ToSet(I.callees), c \in Passed(I, e)}
  ELSE {}

(* The phis of a block are assigned at once on the way in.                   *)
PhiValues(b, s, e) ==
  LET js == DOMAIN fn.phis[s]
      incoming(j) == fn.phis[s][j][b]
  IN  {[v \in DOMAIN e |->
          IF \E j \in js : v = PhiVar(s, j)
          THEN w[CHOOSE j \in js : v = PhiVar(s, j)] ELSE e[v]] :
         w \in {u \in [js -> Value] : \A j \in js : u[j] \in Val(incoming(j), e)}}

Jump(b, s, e, t) == {<<<<s, 0>>, c, t>> : c \in PhiValues(b, s, e)}

Branches(b, e, t) ==
  CASE b \in fn.unreachable \/ fn.succ[b] = <<>> -> {<<Stop, e, t>>}
    [] Len(fn.succ[b]) = 1 -> Jump(b, fn.succ[b][1], e, t)
    [] Len(fn.succ[b]) = 2 -> Jump(b, fn.succ[b][IF t[fn.cond[b]] THEN 1 ELSE 2], e, t)

(* All next steps of the function from place p.                              *)
Steps(p, e, t) ==
  LET b == p[1]  k == p[2]
  IN  CASE p = Start -> {<<<<entry, 0>>, e, t>>}
        [] b < 0 /\ p # Start -> {}
        [] p \in Places ->
             {<<<<b, k + 1>>, c, u>> : c \in Effects(InstrAt(p), Result(p), e, t), u \in Outcomes(p, e, t)}
               \cup Calls(InstrAt(p), e, t)
        [] b >= 0 /\ k \in {0, Len(fn.code[b]) + 1} -> {<<<<b, k + 1>>, e, t>>}
        [] b >= 0 /\ k = Len(fn.code[b]) + 2 -> Branches(b, e, t)

(* At the start arguments and globals have any values.                       *)
StartStates == Havoc([v \in Vars |-> 0], {Arg} \cup Globals)
=============================================================================
