---------------------------- MODULE TuplePrinter ----------------------------
(***************************************************************************)
(* printComplexityTuples and printUniformComplexityTuples                  *)
(* (lib/Export/ComplexityTuplePrinter.cpp and                              *)
(* UniformComplexityTuplePrinter.cpp): a rule becomes a tuple of one term, *)
(* the rules that leave a call one tuple of all their terms.  Uniform      *)
(* tuples have the same variables as arguments of every symbol.            *)
(***************************************************************************)
EXTENDS Constraint
LOCAL INSTANCE SequencesExt
LOCAL INSTANCE FiniteSetsExt

Tuple(lhs, right, c) == [lhs |-> lhs, right |-> right, c |-> c]

tupleOf(r) == Tuple(r.lhs, <<r.rhs>>, r.c)

(* Mutant of printComplexityTuples: of a tuple only the first term.          *)
printComplexityTuplesOne(rules, complexityLHSs) ==
  LET taken(i) == \E j \in 1 .. i - 1 : rules[j].lhs.fun = rules[i].lhs.fun
      become(i) == IF rules[i].lhs.fun \in complexityLHSs /\ taken(i) THEN <<>> ELSE <<tupleOf(rules[i])>>
  IN  flattenRules([i \in DOMAIN rules |-> become(i)])

(* The rules of a symbol in complexityLHSs, at the first of them.  Conditions *)
(* they have are only warned about, not printed.                            *)
printComplexityTuples(rules, complexityLHSs) ==
  LET from(f) == SelectSeq(rules, LAMBDA r : r.lhs.fun = f)
      taken(i) == \E j \in 1 .. i - 1 : rules[j].lhs.fun = rules[i].lhs.fun
      become(i) ==
        LET f == rules[i].lhs.fun
        IN  IF f \notin complexityLHSs THEN <<tupleOf(rules[i])>>
            ELSE IF taken(i) THEN <<>>
            ELSE <<Tuple(rules[i].lhs, [k \in DOMAIN from(f) |-> from(f)[k].rhs], true)>>
  IN  flattenRules([i \in DOMAIN rules |-> become(i)])

-----------------------------------------------------------------------------
(* Uniform tuples.                                                          *)

getVars(rules, nondefs) == SetToSeq((UNION {ruleVariables(rules[i]) : i \in DOMAIN rules}) \ nondefs)

lhsNames(r) == [k \in DOMAIN r.lhs.args |-> CHOOSE x \in Variables(r.lhs.args[k]) : TRUE]

(* The program ends.                                                        *)
argNamesDiffer(rules) ==
  \/ \E i \in DOMAIN rules : \E k \in DOMAIN rules[i].lhs.args : ~isVar(rules[i].lhs.args[k])
  \/ \E i, j \in DOMAIN rules : rules[i].lhs.fun = rules[j].lhs.fun /\ lhsNames(rules[i]) # lhsNames(rules[j])

getArgNames(rules) ==
  [f \in {rules[i].lhs.fun : i \in DOMAIN rules} |->
     lhsNames(rules[Min({i \in DOMAIN rules : rules[i].lhs.fun = f})])]

getArg(x, names, args) == args[Min({k \in DOMAIN names : names[k] = x})]

(* Variables that are no argument of the symbol keep their values, and all   *)
(* of them do where no rule has the symbol on its left.                     *)
getRight(t, names, argNames) ==
  LET arg(x) == IF t.fun \in DOMAIN argNames /\ x \in ToSet(argNames[t.fun])
                THEN getArg(x, argNames[t.fun], t.args) ELSE Variable(x)
  IN  Term(t.fun, [k \in DOMAIN names |-> arg(names[k])])

getLeft(t, names) == Term(t.fun, [k \in DOMAIN names |-> Variable(names[k])])

printUniformComplexityTuples(rules, complexityLHSs, nondefs) ==
  LET names == getVars(rules, nondefs)
      argNames == getArgNames(rules)
      uniform(r) == Rule(getLeft(r.lhs, names), getRight(r.rhs, names, argNames), r.c)
  IN  printComplexityTuples([i \in DOMAIN rules |-> uniform(rules[i])], complexityLHSs)
=============================================================================
