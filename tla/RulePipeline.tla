---------------------------- MODULE RulePipeline ----------------------------
(***************************************************************************)
(* What becomes of the arithmetic of a block on its way through main()     *)
(* (tools/llvm2kittel.cpp, the loop over the components): Converter makes  *)
(* a rule for every instruction, getCondensedRules joins them, kittelize   *)
(* splits disjunctions, slicing drops arguments, addBoundConstraints makes *)
(* the integers wrap around, simplifyConstraints drops conditions, and one *)
(* of four printers writes them as rules, tuples, or transitions of T2.    *)
(* Then what was printed is run on an input and compared with the machine. *)
(*                                                                         *)
(* A program is one block with a conditional branch: code and condition,   *)
(* the variables with their widths, the options o, what slicing found to   *)
(* be unused, and what it found to have no value yet at the start.  Calls  *)
(* are calls of the function itself, with two arguments.  The symbols are the start, the block between its         *)
(* instructions, its two successors, and the stop symbol.  An instruction  *)
(* whose result is an argument stands for the instruction and the phi node *)
(* that takes it.                                                          *)
(***************************************************************************)
EXTENDS InstChecker, StrengthIncreaser, BoundConstrainer, Kittelizer, T2Export, TuplePrinter
LOCAL INSTANCE SequencesExt
LOCAL INSTANCE FiniteSetsExt
LOCAL INSTANCE Functions

CONSTANTS
  Programs

ASSUME PipelineAssumption == IsFiniteSet(Programs)

VARIABLES
  prog,
  insts,                         \* the instructions after transformModule
  stage,                         \* how far main() got
  rules,
  tuples,                        \* the rules or tuples that are printed
  t2,                            \* the transitions of T2, where the rules are printed as such
  input,                         \* the values the program is run with
  front,                         \* the terms that may come next
  outcomes                       \* the terms the run had at the two successors

vars == <<prog, insts, stage, rules, tuples, t2, input, front, outcomes>>

Start == <<"start", 0>>
Block(k) == <<"block", k>>
Yes == <<"yes", 0>>
No == <<"no", 0>>
Stop == <<"stop", 0>>

isCall(J) == J.op \in {"call", "callvoid"}
m_complexityTuples(p) == p.o.format \in {"tuples", "uniform"}
callsOf(p) == {k \in DOMAIN p.code : m_complexityTuples(p) /\ isCall(p.code[k])}
m_complexityLHSs(p) == {Block(k - 1) : k \in callsOf(p)}
controlPoints(p) ==
  {Start, Block(0), Yes, No, Stop} \cup m_complexityLHSs(p) \cup {Block(k) : k \in callsOf(p)}

-----------------------------------------------------------------------------
(* Converter                                                               *)

m_lhs(p) == [i \in DOMAIN p.names |-> Variable(p.names[i])]

getNewArgs(p, x, q) == [i \in DOMAIN p.names |-> IF p.names[i] = x THEN q ELSE Variable(p.names[i])]

assumeRule(p, k) ==
  Rule(Term(Block(k - 1), m_lhs(p)), Term(Block(k), m_lhs(p)), toNNF(getCondition(p.code[k].c, p.o), FALSE))

callArgs(p, J) ==
  LET args == SelectSeq(p.names, LAMBDA x : x \in p.args)
  IN  [j \in DOMAIN args |-> getPolynomial(IF args[j] = "x" THEN J.x ELSE J.y, p.o)]

(* One rule into the callee and one that goes on, with any result.          *)
callRules(p, k) ==
  LET J == p.code[k]
      from(t) == Rule(Term(Block(k - 1), m_lhs(p)), t, true)
      after == IF J.op = "call" THEN getNewArgs(p, J.z, Variable(J.n)) ELSE m_lhs(p)
  IN  <<from(Term(Start, callArgs(p, J))), from(Term(Block(k), after))>>

instructionRules(p, k) ==
  LET A == Alternatives(p.code[k], p.o)
  IN  IF p.code[k].op = "assume" THEN <<assumeRule(p, k)>>
      ELSE IF isCall(p.code[k]) THEN callRules(p, k)
      ELSE [i \in DOMAIN A |-> Rule(Term(Block(k - 1), m_lhs(p)),
                                    Term(Block(k), getNewArgs(p, p.code[k].z, A[i][1])), A[i][2])]

branchRules(p) ==
  LET c == getCondition(p.cond, p.o)
      to(f, negate) == Rule(Term(Block(Len(p.code)), m_lhs(p)), Term(f, m_lhs(p)), toNNF(c, negate))
  IN  <<to(Yes, FALSE), to(No, TRUE)>>

functionRules(p) ==
  LET jump(f, g) == Rule(Term(f, m_lhs(p)), Term(g, m_lhs(p)), true)
  IN  <<jump(Start, Block(0))>>
        \o FlattenSeq([k \in DOMAIN p.code |-> instructionRules(p, k)])
        \o branchRules(p)
        \o <<jump(Yes, Stop), jump(No, Stop)>>

(* getCondensedRules, which module Condense has loop by loop.               *)
RECURSIVE expand(_, _, _)
expand(r, rs, p) ==
  LET next == SelectSeq(rs, LAMBDA q : q.lhs.fun = r.rhs.fun)
  IN  IF r.rhs.fun \in controlPoints(p) THEN <<r>>
      ELSE flattenRules([i \in DOMAIN next |-> expand(instantiatedRule(r, next[i], p.names), rs, p)])

getCondensedRules(p, rs) ==
  LET good == SelectSeq(rs, LAMBDA r : r.lhs.fun \in controlPoints(p))
  IN  flattenRules([i \in DOMAIN good |-> expand(good[i], rs, p)])

-----------------------------------------------------------------------------
(* Slicing as far as it matters here: positions that were found unused go,   *)
(* and from the start symbol those of variables without a value.            *)
droppedNames(p, f) == p.unused \cup (IF f = Start THEN p.local ELSE {})
keptNames(p, f) == SelectSeq(p.names, LAMBDA x : x \notin droppedNames(p, f))
keptPositions(p, f) == SelectSeq([i \in DOMAIN p.names |-> i], LAMBDA i : p.names[i] \notin droppedNames(p, f))

dropArgs(p, t) ==
  LET kept == keptPositions(p, t.fun) IN Term(t.fun, [j \in DOMAIN kept |-> t.args[kept[j]]])

sliced(p, rs) ==
  [i \in DOMAIN rs |-> Rule(dropArgs(p, rs[i].lhs), dropArgs(p, rs[i].rhs), rs[i].c)]

-----------------------------------------------------------------------------
(* The machine: the results of an instruction on the values x and y, none    *)
(* where it is undefined.                                                    *)

wrap(v, w, o) ==
  IF ~o.bounded THEN v ELSE IF o.unsigned THEN v % 2^w ELSE asSigned(v % 2^w, w)
signed(v, w, o) == IF o.bounded THEN asSigned(v % 2^w, w) ELSE v
unsignedOf(v, w, o) == IF o.bounded THEN v % 2^w ELSE v

magnitude(a) == IF a < 0 THEN -a ELSE a
quotient(a, b) ==
  IF (a < 0) = (b < 0) THEN magnitude(a) \div magnitude(b) ELSE -(magnitude(a) \div magnitude(b))
bit(a, i) == (a \div 2^i) % 2
bitwise(op, a, b, w) ==
  LET joined(i) == CASE op = "and" -> bit(a, i) * bit(b, i)
                     [] op = "or" -> bit(a, i) + bit(b, i) - bit(a, i) * bit(b, i)
                     [] op = "xor" -> (bit(a, i) + bit(b, i)) % 2
  IN  FoldLeft(LAMBDA s, i : s + 2^(i - 1) * joined(i - 1), 0, [i \in 1 .. w |-> i])

smallest(w) == -(2^(w - 1))

results(J, x, y, o) ==
  LET w == J.width
      a == signed(x, w, o)
      b == signed(y, w, o)
      c == unsignedOf(x, w, o)
      d == unsignedOf(y, w, o)
      overflows == o.bounded /\ a = smallest(w) /\ b = -1
      if(defined, v) == IF defined THEN {wrap(v, w, o)} ELSE {}
  IN  CASE J.op = "add" -> {wrap(x + y, w, o)}
        [] J.op = "sub" -> {wrap(x - y, w, o)}
        [] J.op = "mul" -> {wrap(x * y, w, o)}
        [] J.op = "sdiv" -> if(b # 0 /\ ~overflows, quotient(a, b))
        [] J.op = "srem" -> if(b # 0 /\ ~overflows, a - b * quotient(a, b))
        [] J.op = "udiv" -> if(d # 0, quotient(c, d))
        [] J.op = "urem" -> if(d # 0, c - d * quotient(c, d))
        [] J.op \in {"and", "or", "xor"} -> {wrap(bitwise(J.op, x % 2^w, y % 2^w, w), w, o)}
        [] J.op = "shl" -> if(d < w, c * 2^d)
        [] J.op = "ashr" -> if(d < w, a \div 2^d)
        [] J.op = "lshr" -> if(d < w, c \div 2^d)
        [] J.op = "sext" -> {wrap(signed(x, J.from, o), w, o)}
        [] J.op = "zext" -> {wrap(unsignedOf(x, J.from, o), w, o)}
        [] J.op = "trunc" -> {wrap(x, w, o)}

valueOf(v, env, o) == IF v.kind = "var" THEN env[v.name] ELSE getPolynomial(v, o).const

compares(c, x, y, o) ==
  LET value(v) == IF isUnsigned(c.pred) THEN unsignedOf(v, c.width, o) ELSE signed(v, c.width, o)
  IN  Compare(value(x), c.pred[2], value(y))

(* The ways the condition may turn out.                                     *)
RECURSIVE decisions(_, _, _)
decisions(c, env, o) ==
  LET on(d) == decisions(d, env, o)
  IN  CASE c.type = "const" -> {c.bit # 0}
        [] c.type \in {"arg", "inst"} -> BOOLEAN
        [] c.type = "zext" -> on(c.arg)
        [] c.type = "value" -> {valueOf(c.x, env, o) # 0}
        [] c.type = "icmp" -> {compares(c, valueOf(c.x, env, o), valueOf(c.y, env, o), o)}
        [] c.type = "and" -> {a /\ b : a \in on(c.left), b \in on(c.right)}
        [] c.type = "or" -> {a \/ b : a \in on(c.left), b \in on(c.right)}
        [] c.type = "xor" -> {a # (c.bit = 1) : a \in on(c.arg)}
        [] c.type = "select" -> UNION {IF a THEN on(c.left) ELSE on(c.right) : a \in on(c.test)}

(* The values a variable of the program has.                                *)
box(p, x) ==
  IF ~p.o.bounded THEN p.values
  ELSE IF p.o.unsigned THEN 0 .. 2^p.width[x] - 1
  ELSE smallest(p.width[x]) .. 2^(p.width[x] - 1) - 1

executed(J, env, p) ==
  LET new == IF J.op = "zextbool" THEN {IF b THEN 1 ELSE 0 : b \in decisions(J.c, env, p.o)}
             ELSE IF J.op = "call" THEN box(p, J.z)
             ELSE results(J, valueOf(J.x, env, p.o), valueOf(J.y, env, p.o), p.o)
  IN  IF J.op = "assume" THEN {e \in {env} : TRUE \in decisions(J.c, env, p.o)}
      ELSE IF J.op = "callvoid" THEN {env}
      ELSE {[env EXCEPT ![J.z] = v] : v \in new}

(* The environments in front of the instruction k.                          *)
environments(p, start, k) ==
  FoldLeft(LAMBDA E, J : UNION {executed(J, env, p) : env \in E}, {start}, SubSeq(p.code, 1, k - 1))

(* The functions that have been called: the environments they start in.     *)
RECURSIVE started(_, _)
started(p, starts) ==
  LET entered(env, J) == [v \in ToSet(p.names) |-> CASE v = "x" -> valueOf(J.x, env, p.o)
                                                     [] v = "y" -> valueOf(J.y, env, p.o)
                                                     [] OTHER -> 0]
      called == UNION {UNION {{entered(env, p.code[k]) : env \in environments(p, s, k)} : s \in starts} :
                       k \in {j \in DOMAIN p.code : isCall(p.code[j])}}
  IN  IF called \subseteq starts THEN starts ELSE started(p, starts \cup called)

machine(p, start) ==
  LET names == keptNames(p, Yes)
      term(env, yes) == Term(IF yes THEN Yes ELSE No, [j \in DOMAIN names |-> env[names[j]]])
      ends == UNION {environments(p, s, Len(p.code) + 1) : s \in started(p, {start})}
  IN  UNION {{term(env, yes) : yes \in decisions(p.cond, env, p.o)} : env \in ends}

-----------------------------------------------------------------------------
(* Running what was printed.                                                *)

nondefs(p) == {p.code[k].n : k \in DOMAIN p.code}
argumentsOf(p, qs, f) == IF p.o.format = "uniform" THEN lhsNames(qs[1]) ELSE keptNames(p, f)

(* The arguments of a term of the function, without what a uniform tuple has *)
(* besides.                                                                 *)
shown(p, qs, t) ==
  LET has == argumentsOf(p, qs, t.fun)
      names == keptNames(p, t.fun)
  IN  IF p.o.format # "uniform" THEN t
      ELSE Term(t.fun, [j \in DOMAIN names |-> t.args[CHOOSE i \in DOMAIN has : has[i] = names[j]]])

(* What a tuple makes of a term: all of its terms.  A variable that the left *)
(* side does not have may have any value; those of twice the width are       *)
(* looked at.                                                               *)
successors(t, q, p) ==
  LET names == [i \in DOMAIN q.lhs.args |-> q.lhs.args[i].monos[1].mono[1][1]]
      here == [x \in ToSet(names) |-> t.args[CHOOSE i \in DOMAIN names : names[i] = x]]
      free == (constraintVariables(q.c) \cup UNION {termVariables(u) : u \in ToSet(q.right)}) \ ToSet(names)
      envs == {e \in {here @@ f : f \in [free -> p.values]} : Holds(q.c, e)}
  IN  IF t.fun # q.lhs.fun THEN {}
      ELSE {Term(u.fun, [i \in DOMAIN u.args |-> Value(u.args[i], e)]) : u \in ToSet(q.right), e \in envs}

(* What a transition makes of a term: the arguments are the variables that   *)
(* the rules for the next symbol read.                                      *)
successorsT2(t, m, tr, p) ==
  LET pre == m.names[t.fun]
      env == [x \in ToSet(pre) |-> t.args[CHOOSE i \in DOMAIN pre : pre[i] = x]]
      to == CHOOSE f \in DOMAIN m.id : m.id[f] = tr.to
  IN  IF m.id[t.fun] # tr.from THEN {}
      ELSE {Term(to, [j \in DOMAIN m.names[to] |-> e[m.names[to][j]]]) :
            e \in Outcomes(env, tr.body, p.values)}

Init ==
  /\ prog \in Programs
  /\ insts = prog.code
  /\ stage = "read"
  /\ rules = <<>>
  /\ tuples = <<>>
  /\ t2 = {}
  /\ input = [x \in ToSet(prog.names) |-> 0]
  /\ front = {}
  /\ outcomes = {}

(* transformModule, for this option.                                        *)
IncreaseStrength ==
  /\ stage = "read"
  /\ stage' = "transformed"
  /\ insts' = IF prog.o.increase THEN runOnBasicBlock(insts) ELSE insts
  /\ UNCHANGED <<prog, rules, tuples, t2, input, front, outcomes>>

(* main() returns 6 if there is an unsuitable instruction.                  *)
CheckInstructions ==
  /\ stage = "transformed"
  /\ stage' = IF getUnsuitableInsts(insts) = {} /\ suitable(prog.cond) THEN "checked" ELSE "refused"
  /\ UNCHANGED <<prog, insts, rules, tuples, t2, input, front, outcomes>>

transformed == [prog EXCEPT !.code = insts]
conditions == {prog.cond} \cup {insts[k].c : k \in DOMAIN insts}

Convert ==
  /\ stage = "checked"
  /\ \/ /\ \A c \in conditions : handled(c)
        /\ stage' = "converted"
        /\ rules' = functionRules(transformed)
     \/ /\ \E c \in conditions : ~handled(c)        \* exit(5)
        /\ stage' = "ended"
        /\ UNCHANGED rules
  /\ UNCHANGED <<prog, insts, tuples, t2, input, front, outcomes>>

Pass(from, to, new) ==
  /\ stage = from
  /\ stage' = to
  /\ rules' = new
  /\ UNCHANGED <<prog, insts, tuples, t2, input, front, outcomes>>

Condense == Pass("converted", "condensed", getCondensedRules(prog, rules))
Kittelize == Pass("condensed", "kittelized", kittelize(rules, prog.o.integers))
Slice == Pass("kittelized", "sliced", sliced(prog, rules))

(* Only when the integers are bounded.                                      *)
AddBoundConstraints ==
  Pass("sliced", "bounded",
       IF prog.o.bounded THEN kittelize(addBoundConstraints(rules, prog.width, prog.o.unsigned), prog.o.integers)
       ELSE rules)

(* The solver could not be run: exit(277).                                  *)
FailToEliminate ==
  /\ \/ stage = "condensed" /\ asksSolver(rules, prog.o.integers)
     \/ stage = "sliced" /\ prog.o.bounded /\ asksSolver(addBoundConstraints(rules, prog.width, prog.o.unsigned), prog.o.integers)
  /\ stage' = "ended"
  /\ UNCHANGED <<prog, insts, rules, tuples, t2, input, front, outcomes>>

(* Only with the option simplify-conditions.                                *)
SimplifyConstraints ==
  \/ Pass("bounded", "simplified", simplifyConstraints(rules))
  \/ Pass("bounded", "simplified", rules)

(* One of the printers, by the options; the rules are not needed again.      *)
PrintAs(format, ends, newTuples, newT2) ==
  /\ stage = "simplified"
  /\ prog.o.format = format
  /\ IF ends THEN stage' = "ended" /\ UNCHANGED <<rules, tuples, t2>>
     ELSE stage' = "printed" /\ rules' = <<>> /\ tuples' = newTuples /\ t2' = newT2
  /\ UNCHANGED <<prog, insts, input, front, outcomes>>

PrintRules == PrintAs("kittel", FALSE, [i \in DOMAIN rules |-> tupleOf(rules[i])], {})

PrintComplexityTuples ==
  PrintAs("tuples", FALSE, printComplexityTuples(rules, m_complexityLHSs(transformed)), {})

PrintUniformComplexityTuples ==
  PrintAs("uniform", argNamesDiffer(rules),
          printUniformComplexityTuples(rules, m_complexityLHSs(transformed), nondefs(prog)), {})

PrintT2System == PrintAs("t2", namesDiffer(rules), <<>>, {printT2System(rules, Start)})

(* What was printed is run on every input.                                  *)
Run ==
  /\ stage = "printed"
  /\ \E e \in [prog.args -> UNION {box(prog, x) : x \in prog.args}] :
       /\ \A x \in prog.args : e[x] \in box(prog, x) /\ e[x] \in prog.inputs
       /\ input' = e @@ input
  /\ LET names == argumentsOf(prog, tuples, Start)
         others == [ToSet(names) \ DOMAIN input -> prog.values]
     IN  front' = {Term(Start, [j \in DOMAIN names |-> (input' @@ e)[names[j]]]) : e \in others}
  /\ stage' = "running"
  /\ UNCHANGED <<prog, insts, rules, tuples, t2, outcomes>>

Rewrite ==
  /\ stage = "running"
  /\ front # {}
  /\ front' = (UNION {successors(t, tuples[i], prog) : t \in front, i \in DOMAIN tuples})
                \cup (UNION {UNION {successorsT2(t, m, tr, prog) : t \in front, tr \in ToSet(m.transitions)} : m \in t2})
  /\ outcomes' = outcomes \cup {shown(prog, tuples, t) : t \in {u \in front' : u.fun \in {Yes, No}}}
  /\ UNCHANGED <<prog, insts, stage, rules, tuples, t2, input>>

Finish ==
  /\ stage = "running"
  /\ front = {}
  /\ stage' = "done"
  /\ UNCHANGED <<prog, insts, rules, tuples, t2, input, front, outcomes>>

Next ==
  \/ IncreaseStrength \/ CheckInstructions \/ Convert
  \/ Condense \/ Kittelize \/ Slice \/ AddBoundConstraints \/ SimplifyConstraints
  \/ FailToEliminate
  \/ PrintRules \/ PrintComplexityTuples \/ PrintUniformComplexityTuples \/ PrintT2System
  \/ Run \/ Rewrite \/ Finish

(* main() runs on: the weak fairness of Next, with the condition under which *)
(* it is enabled written out, which is that the run is not over.             *)
RunsOn == []<>(stage \in {"done", "refused", "ended"}) \/ []<><<TRUE>>_vars

Spec == Init /\ [][Next]_vars /\ RunsOn

-----------------------------------------------------------------------------
(* Rules stay rules: left sides are variables, every symbol has one number   *)
(* of arguments once slicing is over (a call has fewer before), and the names *)
(* the printers look at agree; after kittelize no constraint has a           *)
(* disjunction, a negation, # or TRUE inside; main() hands them to passes    *)
(* that end the program otherwise.  It does end, in the middle of the         *)
(* conversion, exactly for a condition that is no instruction.               *)
PipelineTypeOK ==
  LET terms == {rules[i].lhs : i \in DOMAIN rules} \cup {rules[i].rhs : i \in DOMAIN rules}
      plain(c) == c = true \/ \A a \in ToSet(atomics(c)) : a.type = "Atom" /\ a.op # "#"
      endsConversion == \E c \in conditions : \E d \in parts(c) : noInstruction(d)
  IN  /\ stage = "ended" /\ prog.o.integers = {} => endsConversion
      /\ endsConversion => stage \in {"read", "transformed", "checked", "refused", "ended"}
      /\ stage \notin {"printed", "running", "done"} =>
           /\ \A i \in DOMAIN rules : \A k \in DOMAIN rules[i].lhs.args : isVar(rules[i].lhs.args[k])
           /\ stage \in {"sliced", "bounded", "simplified"} =>
                Cardinality({<<t.fun, Len(t.args)>> : t \in terms}) = Cardinality({t.fun : t \in terms})
           /\ stage \notin {"converted", "condensed", "ended"} =>
                \A i \in DOMAIN rules : Len(dualClauses(rules[i].c)) = 1 /\ plain(rules[i].c)

(* Where the rules differ from the machine.  The smallest number of a width   *)
(* has no negation: divided by less than -1, or below the dividend of a      *)
(* remainder.                                                                *)
LosesSmallest(J, a, b, o) ==
  /\ o.bounded /\ o.division # "None"
  /\ \/ J.op = "sdiv" /\ a = smallest(J.width) /\ b < -1
     \/ J.op = "srem" /\ b = smallest(J.width) /\ a > 0

(* A shift that became a product or a division: a negative number is rounded *)
(* to zero, and the highest power of a width is its smallest number.         *)
LosesShift(J, a, o) ==
  LET d == J.y.bits
  IN  /\ o.increase /\ isShift(J)
      /\ \/ /\ J.op = "ashr" /\ a < 0 /\ o.division # "None"
            /\ d = J.width - 1 \/ (a % 2^d # 0 /\ (o.division = "Exact" \/ a = -1))
         \/ J.op = "shl" /\ a # 0 /\ ~o.bounded /\ d = J.width - 1

(* The bounds of or are upper ones: its result has to be below the operands   *)
(* that have its sign.                                                       *)
LosesOr(J, a, b, o) ==
  /\ J.op = "or" /\ o.bounded /\ o.bitwise
  /\ \E c \in {a, b} : \E r \in results(J, a, b, o) : (c < 0) = (r < 0) /\ r > c

Loses(p, env) ==
  \E k \in DOMAIN p.code :
    LET J == p.code[k]
        a == valueOf(J.x, env, p.o)
        b == valueOf(J.y, env, p.o)
        s == signed(a, J.width, p.o)
        t == signed(b, J.width, p.o)
    IN  LosesSmallest(J, s, t, p.o) \/ LosesShift(J, s, p.o) \/ LosesOr(J, a, b, p.o)

(* What the machine does, the rules do: no result of an instruction and no   *)
(* branch is lost on the way through the passes, but for these inputs, and    *)
(* of these nothing is left unless the result is not used.                   *)
ResultsKept ==
  stage = "done" /\ machine(prog, input) # {} =>
    IF ~Loses(prog, input) THEN machine(prog, input) \subseteq outcomes
    ELSE prog.unused = {} => ~(machine(prog, input) \subseteq outcomes)

(* The instructions the converter translates without a nondef, and division  *)
(* when it is exact.                                                         *)
Deterministic(p) ==
  \A k \in DOMAIN p.code :
    \/ p.code[k].op \in {"add", "sub", "mul", "sext", "zext", "zextbool", "assume", "call", "callvoid"}
    \/ p.code[k].op = "xor" /\ visitXor(p.code[k], null, p.o)[1][1] = negone
    \/ p.code[k].op = "trunc" /\ ~p.o.bounded
    \/ p.code[k].op \in {"sdiv", "udiv"} /\ ~p.o.bounded /\ p.o.division = "Exact"

Divides(p) == \E k \in DOMAIN p.code : p.code[k].op \in {"sdiv", "udiv"}

(* For those the rules do nothing else either, on any path and with any      *)
(* choice of the passes, unless a division is undefined.                     *)
ResultsExact ==
  /\ stage = "done" /\ Deterministic(transformed) /\ ~Loses(prog, input)
  /\ Divides(transformed) => machine(prog, input) # {}
  =>
    outcomes \subseteq machine(prog, input)

(* A term that is no step of a normalization has its values in the boxes of  *)
(* their widths, as each rule of the next block expects.                     *)
ResultsBounded ==
  stage = "running" /\ prog.o.bounded =>
    \A t \in {shown(prog, tuples, u) : u \in {v \in front : Len(v.fun) = 2}} :
      \A j \in DOMAIN t.args : t.args[j] \in box(prog, keptNames(prog, t.fun)[j])

(* Moving values into their boxes comes to an end: the rules stop on every   *)
(* path, as the block does.                                                  *)
RunsEnd == <>(stage \in {"done", "refused", "ended"})
=============================================================================
