------------------------------ MODULE Converter ------------------------------
(***************************************************************************)
(* Converter: phase1 collects the variables of a function, phase2 emits    *)
(* rewrite rules block by block.  A block has the symbols in and out, an   *)
(* instruction leads from the symbol numbered m_counter to the next number *)
(* and is remembered in m_idMap; the rules of a block are collected in     *)
(* m_blockRules while its instructions are visited, one action each.       *)
(*                                                                         *)
(* A polynomial is an operand, <<"one-", v>> or <<"nondef", n>>, a         *)
(* constraint a set of atoms <<p, TRUE>> for p > 0 and <<p, FALSE>> for    *)
(* p <= 0, one for every comparison it came from; a comparison of floats   *)
(* gives no atom.  When the rules are complete the module runs the         *)
(* function (Program) and compares.  Integers are mathematical ones.       *)
(***************************************************************************)
EXTENDS Program, MemoryAnalyzer

CONSTANT OptionSets              \* the command line options considered

VARIABLES
  options,                       \* input: the options
  pc, bb, i,                     \* the loops of phase2: block bb, its instruction i
  m_trivial, m_vars,
  m_counter, m_nondef,           \* the next number of a symbol and of a nondef
  m_idMap, m_blockRules, m_rules,
  m_returns, m_controlPoints, m_complexityLHSs

inputVars == <<fn, options>>
counters == <<m_counter, m_nondef>>
rulesVars == <<m_idMap, m_blockRules, m_rules, m_returns, m_controlPoints, m_complexityLHSs>>
vars == <<inputVars, programVars, pc, bb, i, m_trivial, m_vars, counters, rulesVars>>

-----------------------------------------------------------------------------
(* Symbols.                                                                 *)

m_function == 0
eval(n) == <<"eval", n>>
inSymbol(b) == <<"in", b>>
outSymbol(b) == <<"out", b>>
startSymbol(f) == <<"start", f>>
stopSymbol == <<"stop", m_function>>

preds(b) == {u \in Blocks : b \in ToSet(fn.succ[u])}

(* Mutant of control: only the blocks with one predecessor.                  *)
controlUnique(b) ==
  IF ~options.onlyMultiPredIsControl \/ Cardinality(preds(b)) = 1 THEN {inSymbol(b)} ELSE {}

(* What getEval(b, "in") adds to the control points.                         *)
control(b) ==
  IF ~options.onlyMultiPredIsControl \/ Cardinality(preds(b)) # 1 THEN {inSymbol(b)} ELSE {}

-----------------------------------------------------------------------------
(* Terms and constraints.                                                   *)

m_lhs == [k \in DOMAIN m_vars |-> <<"var", m_vars[k]>>]

Rule(left, right, args, cond) == [left |-> left, right |-> right, args |-> args, cond |-> cond]

(* getPolynomial, with n for the number of a new nondef.                     *)
getPolynomial(x, n) == IF x[1] = "undef" THEN <<"nondef", n>> ELSE x

getNewArgs(v, p) == [k \in DOMAIN m_vars |-> IF m_vars[k] = v THEN p ELSE m_lhs[k]]

(* A nondef, from number n on, for every variable to zap.                    *)
getZappedArgs(toZap, n, args) ==
  LET before(k) == Cardinality({j \in 1 .. k - 1 : m_vars[j] \in toZap})
  IN  [k \in DOMAIN m_vars |->
         IF m_vars[k] \in toZap THEN <<"nondef", n + before(k)>> ELSE args[k]]

(* Of a comparison with undef, for which every outcome is a nondef, nothing is *)
(* kept.                                                                    *)
getCondition(c, positive) ==
  IF InstrAt(c).op = "icmp" /\ InstrAt(c).x[1] # "undef" THEN {<<InstrAt(c).x, positive>>} ELSE {}

(* What the phis of block to take on the way from block from.                 *)
phiIncoming(from, to) == [j \in DOMAIN fn.phis[to] |-> fn.phis[to][j][from]]

phiValues(from, to, n) ==
  LET coming == phiIncoming(from, to)
      undefs(j) == Cardinality({l \in 1 .. j - 1 : coming[l][1] = "undef"})
  IN  [j \in DOMAIN coming |-> getPolynomial(coming[j], n + undefs(j))]

withPhis(to, values) ==
  [k \in DOMAIN m_vars |->
     LET js == {j \in DOMAIN values : m_vars[k] = PhiVar(to, j)}
     IN  IF js = {} THEN m_lhs[k] ELSE values[Min(js)]]

(* Mutant of getArgsWithPhis: a phi reads the phis before it.                *)
getArgsWithPhisInOrder(from, to, n) ==
  LET values == phiValues(from, to, n)
      earlier(j) == {l \in 1 .. j - 1 : values[j] = <<"var", PhiVar(to, l)>>}
  IN  withPhis(to, [j \in DOMAIN values |->
                      IF earlier(j) = {} THEN values[j] ELSE values[Min(earlier(j))]])

getArgsWithPhis(from, to, n) == withPhis(to, phiValues(from, to, n))

undefIncoming(from, to) ==
  Cardinality({j \in DOMAIN fn.phis[to] : phiIncoming(from, to)[j][1] = "undef"})

-----------------------------------------------------------------------------
(* phase1.                                                                  *)

isTrivial ==
  /\ \A b \in Blocks : b \notin Reached(fn, b, {})
  /\ \A p \in Places : InstrAt(p).op \in {"call", "callvoid"} =>
       ToSet(InstrAt(p).callees) \cap fn.scc = {}

resultVar(p) == IF hasResult(InstrAt(p)) THEN <<Result(p)>> ELSE <<>>

blockVars(b) ==
  [j \in DOMAIN fn.phis[b] |-> PhiVar(b, j)] \o FlattenSeq([k \in DOMAIN fn.code[b] |-> resultVar(<<b, k>>)])

variables == <<Arg>> \o SetToSeq(Globals)
allVariables == variables \o FlattenSeq([k \in 1 .. Cardinality(Blocks) |-> blockVars(k - 1)])

Init ==
  /\ fn \in Functions
  /\ options \in OptionSets
  /\ at = Start
  /\ env = [v \in {} |-> 0]
  /\ bools = [p \in Comparisons |-> FALSE]
  /\ pc = "phase1"
  /\ bb = 0
  /\ i = 1
  /\ m_trivial = FALSE
  /\ m_vars = <<>>
  /\ m_counter = 0
  /\ m_nondef = 0
  /\ m_idMap = [p \in {} |-> 0]
  /\ m_blockRules = <<>>
  /\ m_rules = <<>>
  /\ m_returns = <<>>
  /\ m_controlPoints = {startSymbol(m_function), stopSymbol}
  /\ m_complexityLHSs = {}

phase1 ==
  /\ pc = "phase1"
  /\ pc' = "phase2"
  /\ m_trivial' = isTrivial
  /\ m_vars' = IF isTrivial THEN variables ELSE allVariables
  /\ UNCHANGED <<inputVars, programVars, bb, i, counters, rulesVars>>

-----------------------------------------------------------------------------
(* phase2.                                                                  *)

phase2Trivial ==
  /\ pc = "phase2"
  /\ m_trivial
  /\ pc' = "ready"
  /\ m_rules' = <<Rule(startSymbol(m_function), stopSymbol, m_lhs, {})>>
  /\ UNCHANGED <<inputVars, programVars, bb, i, m_trivial, m_vars, counters, m_idMap,
                 m_blockRules, m_returns, m_controlPoints, m_complexityLHSs>>

(* visitBB up to the visit of the instructions.                              *)
EnterBB ==
  /\ pc = "phase2"
  /\ ~m_trivial
  /\ bb \in Blocks
  /\ pc' = "instructions"
  /\ i' = 1
  /\ m_blockRules' = <<>>
  /\ m_returns' = IF fn.succ[bb] = <<>> /\ bb \notin fn.unreachable
                  THEN Append(m_returns, bb) ELSE m_returns
  /\ IF bb = entry
     THEN /\ m_rules' = Append(m_rules, Rule(startSymbol(m_function), inSymbol(bb), m_lhs, {}))
          /\ m_controlPoints' = m_controlPoints \cup control(bb)
     ELSE UNCHANGED <<m_rules, m_controlPoints>>
  /\ UNCHANGED <<inputVars, programVars, bb, m_trivial, m_vars, counters, m_idMap, m_complexityLHSs>>

here == <<bb, i>>
I == fn.code[bb][i]
atInstruction == pc = "instructions" /\ here \in Places

(* Comparisons have no rules of their own.                                   *)
visitCmpInst ==
  /\ atInstruction
  /\ I.op \in {"icmp", "fcmp"}
  /\ i' = i + 1
  /\ UNCHANGED <<inputVars, programVars, pc, bb, m_trivial, m_vars, counters, rulesVars>>

(* The rules of the instruction: one for each pair <<args, cond>>, to the     *)
(* next number, and callRules, which lead to other symbols.                         *)
Emit(callRules, alternatives, nondefs, controls) ==
  /\ m_idMap' = [p \in DOMAIN m_idMap \cup {here} |-> IF p = here THEN m_counter ELSE m_idMap[p]]
  /\ m_blockRules' = m_blockRules \o callRules
       \o [k \in DOMAIN alternatives |->
             Rule(eval(m_counter), eval(m_counter + 1), alternatives[k][1], alternatives[k][2])]
  /\ m_counter' = m_counter + 1
  /\ m_nondef' = m_nondef + nondefs
  /\ m_controlPoints' = m_controlPoints \cup controls
  /\ i' = i + 1
  /\ UNCHANGED <<inputVars, programVars, pc, bb, m_trivial, m_vars, m_rules, m_returns>>

newNondef == <<"nondef", m_nondef>>
setResult(p) == getNewArgs(Result(here), p)

visitArithmetic ==
  /\ atInstruction
  /\ I.op = "arith"
  /\ Emit(<<>>, << <<setResult(<<"one-", I.x[2]>>), {}>> >>, 0, {})
  /\ UNCHANGED m_complexityLHSs

(* __kittel_nondef, and the instructions nothing is known about.             *)
visitInstruction ==
  /\ atInstruction
  /\ I.op \in {"nondef", "other"}
  /\ Emit(<<>>, << <<setResult(newNondef), {}>> >>, 1, {})
  /\ UNCHANGED m_complexityLHSs

visitAssume ==
  /\ atInstruction
  /\ I.op = "assume"
  /\ Emit(<<>>, << <<m_lhs, IF options.onlyLoopConditions THEN {} ELSE getCondition(I.c, TRUE)>> >>, 0,
          IF options.assumeIsControl THEN {eval(m_counter)} ELSE {})
  /\ UNCHANGED m_complexityLHSs

visitSelectInst ==
  /\ atInstruction
  /\ I.op = "select"
  /\ LET c(positive) == IF options.onlyLoopConditions THEN {} ELSE getCondition(I.c, positive)
         undef == IF I.x[1] = "undef" THEN 1 ELSE 0
     IN  Emit(<<>>, << <<setResult(getPolynomial(I.x, m_nondef)), c(TRUE)>>,
                       <<setResult(getPolynomial(I.y, m_nondef + undef)), c(FALSE)>> >>,
              undef + (IF I.y[1] = "undef" THEN 1 ELSE 0),
              IF options.selectIsControl THEN {eval(m_counter)} ELSE {})
  /\ UNCHANGED m_complexityLHSs

(* A Boolean made an integer.                                                *)
visitZExtInst ==
  /\ atInstruction
  /\ I.op = "zext"
  /\ Emit(<<>>, << <<setResult(<<"const", 0>>), getCondition(I.c, FALSE)>>,
                   <<setResult(<<"const", 1>>), getCondition(I.c, TRUE)>> >>, 0, {})
  /\ UNCHANGED m_complexityLHSs

unique(mays, musts) == Cardinality(musts) = 1 /\ mays = {}
the(musts) == CHOOSE g \in musts : TRUE

visitLoadInst ==
  /\ atInstruction
  /\ I.op = "load"
  /\ LET musts == loadMust(I.alias)
     IN  IF unique(maySet(I.alias), musts)
         THEN Emit(<<>>, << <<setResult(<<"var", the(musts)>>), {}>> >>, 0, {})
         ELSE Emit(<<>>, << <<setResult(newNondef), {}>> >>, 1, {})
  /\ UNCHANGED m_complexityLHSs

(* exit(1212) for a store to one global that may also write another.         *)
visitStoreInst ==
  /\ atInstruction
  /\ I.op = "store"
  /\ LET mays == maySet(I.alias)
         musts == storeMust(I.alias)
     IN  IF musts # {} /\ ~unique(mays, musts)
         THEN /\ pc' = "exit"
              /\ UNCHANGED <<inputVars, programVars, bb, i, m_trivial, m_vars, counters, rulesVars>>
         ELSE /\ IF musts # {}
                 THEN Emit(<<>>, << <<getNewArgs(the(musts), getPolynomial(I.x, m_nondef)), {}>> >>,
                           IF I.x[1] = "undef" THEN 1 ELSE 0, {})
                 ELSE Emit(<<>>, << <<getZappedArgs(mays, m_nondef, m_lhs), {}>> >>, Cardinality(mays), {})
              /\ UNCHANGED m_complexityLHSs

-----------------------------------------------------------------------------
(* Calls: a rule into every callee of interest, and one that goes on with    *)
(* what the callees may have written forgotten.                              *)

(* Mutant of callArgs: the globals are not passed.                           *)
callArgsOnly(n) == <<getPolynomial(I.x, n)>>

callArgs(n) ==
  [k \in DOMAIN variables |-> IF k = 1 THEN getPolynomial(I.x, n) ELSE <<"var", variables[k]>>]

ofInterest(f) == IF f \in fn.scc \/ options.complexityTuples THEN <<f>> ELSE <<>>
calleesOfInterest == FlattenSeq([k \in DOMAIN I.callees |-> ofInterest(I.callees[k])])

toZap == UNION {fn.mayZap[f] : f \in ToSet(I.callees) \ fn.declared}

(* Mutant of zapNondefs: the counter only moves for the result.              *)
zapNondefsNone == 0

zapNondefs == Cardinality(toZap)

callControls ==
  {startSymbol(f) : f \in ToSet(calleesOfInterest)} \cup
    (IF options.complexityTuples THEN {eval(m_counter), eval(m_counter + 1)} ELSE {})

visitCallInst ==
  /\ atInstruction
  /\ I.op \in {"call", "callvoid"}
  /\ LET passed == IF I.x[1] = "undef" THEN Len(calleesOfInterest) ELSE 0
         result == IF I.op = "call" THEN 1 ELSE 0
         args == IF I.op = "call" THEN setResult(<<"nondef", m_nondef + passed>>) ELSE m_lhs
     IN  Emit([k \in DOMAIN calleesOfInterest |->
                 Rule(eval(m_counter), startSymbol(calleesOfInterest[k]), callArgs(m_nondef + k - 1), {})],
              << <<getZappedArgs(toZap, m_nondef + passed + result, args), {}>> >>,
              passed + result + zapNondefs,
              callControls)
  /\ m_complexityLHSs' =
       IF options.complexityTuples THEN m_complexityLHSs \cup {eval(m_counter)} ELSE m_complexityLHSs

-----------------------------------------------------------------------------
(* visitBB when the instructions have been visited.                          *)

(* What m_tfMap may hold for block b: the branches and the assumes that every *)
(* way into b has passed.  ConditionPropagator finds some or all of them, and  *)
(* no others where every loop has one entry.                                *)
knownConditions(b) ==
  IF ~options.propagateConditions \/ b = entry THEN {}
  ELSE {<<fn.cond[e[1]], e[2] = 1>> :
          e \in {d \in Blocks \X {1, 2} :
                   /\ Len(fn.succ[d[1]]) = 2 /\ d[1] # b
                   /\ options.onlyLoopConditions => d[1] \in fn.lcbs
                   /\ b \notin Reached(fn, entry, {<<d[1], fn.succ[d[1]][d[2]]>>})}}
       \cup
       {<<InstrAt(p).c, TRUE>> :
          p \in {q \in Places :
                   /\ InstrAt(q).op = "assume" /\ q[1] # b
                   /\ ~options.onlyLoopConditions
                   /\ b \notin Reached(fn, entry, {q[1]} \X Blocks)}}

buildConjunction(b) == UNION {getCondition(f[1], f[2]) : f \in knownConditions(b)}

numbered(b) == {k \in DOMAIN fn.code[b] : <<b, k>> \in DOMAIN m_idMap}
firstID(b) == m_idMap[<<b, Min(numbered(b))>>]
lastID(b) == m_idMap[<<b, Max(numbered(b))>>]

counterAfter == IF numbered(bb) = {} THEN m_counter ELSE m_counter + 1

(* The nondefs of the first k jumps.                                         *)
jumpNondefs(k) ==
  IF k = 0 THEN 0
  ELSE undefIncoming(bb, fn.succ[bb][1]) + (IF k = 2 THEN undefIncoming(bb, fn.succ[bb][2]) ELSE 0)

jump(k, cond) ==
  Rule(outSymbol(bb), inSymbol(fn.succ[bb][k]),
       getArgsWithPhis(bb, fn.succ[bb][k], m_nondef + jumpNondefs(k - 1)), cond)

(* Mutant of useCondition: the option is not asked for.                      *)
useConditionInLoops == bb \in fn.lcbs

useCondition == ~options.onlyLoopConditions \/ bb \in fn.lcbs

terminatorRules ==
  LET c(positive) == IF useCondition THEN getCondition(fn.cond[bb], positive) ELSE {}
  IN  CASE bb \in fn.unreachable -> <<Rule(outSymbol(bb), stopSymbol, m_lhs, {})>>
        [] bb \notin fn.unreachable /\ Len(fn.succ[bb]) = 0 -> <<>>
        [] Len(fn.succ[bb]) = 1 -> <<jump(1, {})>>
        [] Len(fn.succ[bb]) = 2 -> <<jump(1, c(TRUE)), jump(2, c(FALSE))>>

LeaveBB ==
  /\ pc = "instructions"
  /\ here \notin Places
  /\ pc' = "phase2"
  /\ bb' = bb + 1
  /\ m_rules' =
       m_rules
         \o <<Rule(inSymbol(bb), IF numbered(bb) = {} THEN outSymbol(bb) ELSE eval(firstID(bb)),
                   m_lhs, buildConjunction(bb))>>
         \o m_blockRules
         \o (IF numbered(bb) = {} THEN <<>>
             ELSE <<Rule(eval(lastID(bb) + 1), outSymbol(bb), m_lhs, {})>>)
         \o terminatorRules
  /\ m_counter' = counterAfter
  /\ m_nondef' = m_nondef + jumpNondefs(Len(fn.succ[bb]))
  /\ m_controlPoints' = m_controlPoints \cup control(bb) \cup UNION {control(s) : s \in ToSet(fn.succ[bb])}
  /\ UNCHANGED <<inputVars, programVars, i, m_trivial, m_vars, m_idMap, m_blockRules, m_returns, m_complexityLHSs>>

(* From the returns to stop.                                                 *)
AddReturns ==
  /\ pc = "phase2"
  /\ ~m_trivial
  /\ bb \notin Blocks
  /\ pc' = "ready"
  /\ m_rules' = m_rules \o [k \in DOMAIN m_returns |->
                              Rule(outSymbol(m_returns[k]), stopSymbol, m_lhs, {})]
  /\ UNCHANGED <<inputVars, programVars, bb, i, m_trivial, m_vars, counters, m_idMap,
                 m_blockRules, m_returns, m_controlPoints, m_complexityLHSs>>

-----------------------------------------------------------------------------
(* The function is run.                                                      *)

StartRun ==
  /\ pc = "ready"
  /\ pc' = "run"
  /\ env' \in StartStates
  /\ UNCHANGED <<inputVars, at, bools, bb, i, m_trivial, m_vars, counters, rulesVars>>

Run ==
  /\ pc = "run"
  /\ \E s \in Steps(at, env, bools) : at' = s[1] /\ env' = s[2] /\ bools' = s[3]
  /\ UNCHANGED <<inputVars, pc, bb, i, m_trivial, m_vars, counters, rulesVars>>

Next ==
  \/ phase1 \/ phase2Trivial
  \/ EnterBB \/ LeaveBB \/ AddReturns
  \/ visitCmpInst \/ visitArithmetic \/ visitInstruction \/ visitAssume \/ visitSelectInst
  \/ visitZExtInst \/ visitLoadInst \/ visitStoreInst \/ visitCallInst
  \/ StartRun \/ Run

Spec == Init /\ [][Next]_vars

-----------------------------------------------------------------------------
(* What the rules do, and where the program is in them.                      *)

PolyValue(p, e, w) ==
  CASE p[1] = "var" -> e[p[2]]
    [] p[1] = "const" -> p[2]
    [] p[1] = "one-" -> 1 - e[p[2]]
    [] p[1] = "nondef" -> w[p[2]]

Nondefs(r) == {p[2] : p \in {q \in ToSet(r.args) : q[1] = "nondef"}}

(* The arguments rule r may lead to when its variables have the values e.     *)
Targets(r, e) ==
  IF \A c \in r.cond : PolyValue(c[1], e, <<>>) > 0 <=> c[2]
  THEN {[k \in DOMAIN r.args |-> PolyValue(r.args[k], e, w)] : w \in [Nondefs(r) -> Value]}
  ELSE {}

SymbolAt(p) ==
  LET b == p[1]  k == p[2]
  IN  CASE p = Start -> startSymbol(m_function)
        [] p = Stop -> stopSymbol
        [] b = -3 -> startSymbol(k)
        [] b >= 0 /\ k = Len(fn.code[b]) + 2 -> outSymbol(b)
        [] b >= 0 /\ k < Len(fn.code[b]) + 2 /\ (k = 0 \/ numbered(b) = {}) -> inSymbol(b)
        [] OTHER ->
             LET ahead == {j \in numbered(b) : j >= k}
             IN  IF ahead # {} THEN eval(m_idMap[<<b, Min(ahead)>>]) ELSE eval(lastID(b) + 1)

Arguments(p, e) ==
  LET names == IF p[1] = -3 THEN variables ELSE m_vars
  IN  [k \in DOMAIN names |-> e[names[k]]]

followed(p) == p[1] = -3 => p[2] \in fn.scc \/ options.complexityTuples

(* The places where the next step of the function has rules.                 *)
hasRules(p) ==
  \/ p = Start
  \/ p[1] >= 0 /\ \/ p[2] \in numbered(p[1]) \/ p[2] > Len(fn.code[p[1]])
                  \/ p[2] = 0 /\ numbered(p[1]) # {}

(* Nothing is forgotten: no comparison of floats or of undef, no store and no *)
(* load that may access one global or another, no call through a pointer.     *)
exactlyTranslated ==
  /\ ~options.onlyLoopConditions
  /\ \A p \in Places :
       LET J == InstrAt(p)
       IN  /\ J.op # "fcmp"
           /\ J.op = "icmp" => J.x[1] # "undef"
           /\ J.op = "store" => unique(maySet(J.alias), storeMust(J.alias))
           /\ J.op = "load" => loadMust(J.alias) = {} \/ unique(maySet(J.alias), loadMust(J.alias))
           /\ J.op \in {"call", "callvoid"} => Len(J.callees) = 1

-----------------------------------------------------------------------------
(* Properties.                                                              *)

Symbol == {"start", "stop", "in", "out", "eval"} \X Nat

(* Type invariant; every term but a call has an argument for every variable.  *)
ConverterTypeOK ==
  /\ pc \in {"phase1", "phase2", "instructions", "ready", "run", "exit"}
  /\ m_counter \in Nat /\ m_nondef \in Nat
  /\ DOMAIN m_idMap \subseteq Places /\ \A p \in DOMAIN m_idMap : m_idMap[p] \in 0 .. m_counter
  /\ m_controlPoints \subseteq Symbol /\ m_complexityLHSs \subseteq Symbol
  /\ pc = "ready" =>
       \A r \in ToSet(m_rules) :
         /\ {r.left, r.right} \subseteq Symbol
         /\ Len(r.args) = IF r.right[1] = "start" THEN Len(variables) ELSE Len(m_vars)

(* Every step of the function is a step of the rules, or happens within one   *)
(* symbol: a run that never ends gives rewriting that never ends.  A function *)
(* that is taken for trivial neither loops nor calls back into its component. *)
Simulated ==
  [][pc = "run" =>
       IF m_trivial
       THEN /\ at'[1] >= 0 => at'[1] \notin Reached(fn, at'[1], {})
            /\ at'[1] = -3 => at'[2] \notin fn.scc
       ELSE \/ ~followed(at')
            \/ SymbolAt(at) = SymbolAt(at') /\ env' = env
            \/ \E r \in ToSet(m_rules) :
                 /\ r.left = SymbolAt(at)
                 /\ r.right = SymbolAt(at')
                 /\ Arguments(at', env') \in Targets(r, env)]_vars

(* Where nothing is forgotten, a rule that applies where the function is does *)
(* what the function may do next, and nothing else.                          *)
Exact ==
  pc = "run" /\ ~m_trivial /\ exactlyTranslated /\ hasRules(at) =>
    \A r \in ToSet(m_rules) :
      r.left = SymbolAt(at) =>
        \A a \in Targets(r, env) :
          \E s \in Steps(at, env, bools) : SymbolAt(s[1]) = r.right /\ Arguments(s[1], s[2]) = a

(* Every cycle of rules passes a control point (no symbols lead to each other *)
(* without one): getCondensedRules, which has no other bound, ends.          *)
CyclesCut ==
  pc = "ready" =>
    LET junk == {r \in ToSet(m_rules) : {r.left, r.right} \cap m_controlPoints = {}}
        next == [s \in {r.left : r \in junk} |-> {r.right : r \in {q \in junk : q.left = s}}]
        inside == DOMAIN next \cap {r.right : r \in junk}
    IN  \A S \in SUBSET inside : (\A s \in S : next[s] \cap S # {}) => S = {}

(* Two rules share a nondef only as alternatives of one symbol: chaining the  *)
(* rules never makes two free values one.                                    *)
NondefsFresh ==
  pc = "ready" =>
    \A r, q \in ToSet(m_rules) : Nondefs(r) \cap Nondefs(q) # {} => r.left = q.left

=============================================================================
