----------------------------- MODULE Kittelizer -----------------------------
(***************************************************************************)
(* kittelize (lib/Core/Kittelizer.cpp): a rule becomes one rule for every  *)
(* disjunct of its constraint.  simplifyConstraints                        *)
(* (lib/Core/ConstraintSimplifier.cpp): conditions that speak of no        *)
(* argument, or twice of the same, go.                                     *)
(***************************************************************************)
EXTENDS Constraint
LOCAL INSTANCE SequencesExt

simplify(c) ==
  LET used == SelectSeq(atomics(c), LAMBDA a : a.type \notin {"True", "Nondef"})
  IN  IF isLeaf(c) THEN c
      ELSE IF \E i \in DOMAIN used : used[i].type = "False" THEN false
      ELSE IF used = <<>> THEN true
      ELSE FoldRight(And, Front(used), Last(used))

(* Mutant of kittelizeRule: # stays in the conditions.                       *)
kittelizeRuleNeq(r, integers) ==
  LET clauses == dualClauses(toDNF(r.c, integers))
      simple == [i \in DOMAIN clauses |-> simplify(clauses[i])]
      kept == SelectSeq(simple, LAMBDA c : c.type # "False")
  IN  [i \in DOMAIN kept |-> Rule(r.lhs, r.rhs, IF kept[i].type = "Nondef" THEN true ELSE kept[i])]

kittelizeRule(r, integers) ==
  LET clauses == dualClauses(toDNF(eliminateNeq(r.c), integers))
      simple == [i \in DOMAIN clauses |-> simplify(clauses[i])]
      kept == SelectSeq(simple, LAMBDA c : c.type # "False")
  IN  [i \in DOMAIN kept |-> Rule(r.lhs, r.rhs, IF kept[i].type = "Nondef" THEN true ELSE kept[i])]

kittelize(rules, integers) == flattenRules([i \in DOMAIN rules |-> kittelizeRule(rules[i], integers)])

(* kittelize asks the solver about every conjunction.                       *)
RECURSIVE hasConjunction(_)
hasConjunction(c) == c.type = "And" \/ (c.type = "Or" /\ (hasConjunction(c.left) \/ hasConjunction(c.right)))
asksSolver(rules, integers) == integers # {} /\ \E i \in DOMAIN rules : hasConjunction(rules[i].c)

-----------------------------------------------------------------------------
sameAtom(a, b) == a.op = b.op /\ polyEquals(a.lhs, b.lhs) /\ polyEquals(a.rhs, b.rhs)

alreadyThere(a, atoms) == \E i \in DOMAIN atoms : sameAtom(a, atoms[i])

(* The atoms in the order of getAtoms, which takes the right side first.     *)
filterAtoms(atoms, names) ==
  FoldLeft(LAMBDA res, a :
             IF constraintVariables(a) \cap names = {} \/ alreadyThere(a, res) THEN res ELSE Append(res, a),
           <<>>, atoms)

simplifyRule(r) ==
  LET atoms == Reverse(atomics(r.c))
      new == filterAtoms(atoms, termVariables(r.lhs) \cup termVariables(r.rhs))
  IN  IF r.c = true \/ Len(new) = Len(atoms) THEN r ELSE [r EXCEPT !.c = AllOf(new)]

simplifyConstraints(rules) == [i \in DOMAIN rules |-> simplifyRule(rules[i])]
=============================================================================
