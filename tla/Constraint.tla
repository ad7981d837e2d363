----------------------------- MODULE Constraint -----------------------------
(***************************************************************************)
(* Conditions of rules (lib/IntTRS/Constraint.cpp) and the rules that have *)
(* them (Term.cpp, Rule.cpp).                                              *)
(*                                                                         *)
(* A constraint is a tree.  The create functions evaluate on the way: an   *)
(* atom between constants is TRUE or FALSE, and TRUE and FALSE vanish from *)
(* conjunctions and disjunctions.                                          *)
(***************************************************************************)
EXTENDS Polynomial
LOCAL INSTANCE SequencesExt
LOCAL INSTANCE Functions

true == [type |-> "True"]
false == [type |-> "False"]
nondef == [type |-> "Nondef"]

Compare(a, op, b) ==
  CASE op = "=" -> a = b [] op = "#" -> a # b
    [] op = ">=" -> a >= b [] op = ">" -> a > b
    [] op = "<=" -> a <= b [] op = "<" -> a < b

Atom(p, op, q) ==
  IF isConst(p) /\ isConst(q)
  THEN IF Compare(p.const, op, q.const) THEN true ELSE false
  ELSE [type |-> "Atom", lhs |-> p, op |-> op, rhs |-> q]

And(a, b) ==
  IF a.type = "True" THEN b
  ELSE IF b.type = "True" THEN a
  ELSE IF a.type = "False" \/ b.type = "False" THEN false
  ELSE [type |-> "And", left |-> a, right |-> b]

Or(a, b) ==
  IF a.type = "True" \/ b.type = "True" THEN true
  ELSE IF a.type = "False" THEN b
  ELSE IF b.type = "False" THEN a
  ELSE [type |-> "Or", left |-> a, right |-> b]

Not(a) ==
  CASE a.type = "True" -> false
    [] a.type = "False" -> true
    [] a.type = "Nondef" -> a
    [] a.type = "Not" -> a.arg
    [] OTHER -> [type |-> "Not", arg |-> a]

AllOf(cs) == FoldLeft(And, true, cs)
AnyOf(cs) == FoldLeft(Or, false, cs)
Join(type, a, b) == IF type = "And" THEN And(a, b) ELSE Or(a, b)

isLeaf(c) == c.type \in {"True", "False", "Nondef", "Atom"}

-----------------------------------------------------------------------------
Complement(op) ==
  CASE op = "=" -> "#" [] op = "#" -> "=" [] op = ">=" -> "<"
    [] op = ">" -> "<=" [] op = "<=" -> ">" [] op = "<" -> ">="

RECURSIVE toNNF(_, _)
toNNF(c, negate) ==
  CASE c.type = "Nondef" -> c
    [] c.type = "True" -> IF negate THEN false ELSE true
    [] c.type = "False" -> IF negate THEN true ELSE false
    [] c.type = "Atom" -> IF negate THEN Atom(c.lhs, Complement(c.op), c.rhs) ELSE c
    [] c.type = "Not" -> toNNF(c.arg, ~negate)
    [] c.type \in {"And", "Or"} ->
         Join(IF negate THEN (IF c.type = "And" THEN "Or" ELSE "And") ELSE c.type,
              toNNF(c.left, negate), toNNF(c.right, negate))

RECURSIVE eliminateNeq(_)
eliminateNeq(c) ==
  CASE c.type = "Atom" /\ c.op = "#" -> Or(Atom(c.lhs, "<", c.rhs), Atom(c.lhs, ">", c.rhs))
    [] c.type = "Not" -> Not(eliminateNeq(c.arg))
    [] c.type \in {"And", "Or"} -> Join(c.type, eliminateNeq(c.left), eliminateNeq(c.right))
    [] OTHER -> c

RECURSIVE instantiateC(_, _)
instantiateC(c, bindings) ==
  CASE c.type = "Atom" -> Atom(instantiate(c.lhs, bindings), c.op, instantiate(c.rhs, bindings))
    [] c.type = "Not" -> Not(instantiateC(c.arg, bindings))
    [] c.type \in {"And", "Or"} ->
         Join(c.type, instantiateC(c.left, bindings), instantiateC(c.right, bindings))
    [] OTHER -> c

RECURSIVE dualClauses(_)
dualClauses(c) ==
  IF c.type = "Or" THEN dualClauses(c.left) \o dualClauses(c.right) ELSE <<c>>

RECURSIVE atomics(_)
atomics(c) ==
  CASE c.type = "Not" -> atomics(c.arg)
    [] c.type \in {"And", "Or"} -> atomics(c.left) \o atomics(c.right)
    [] OTHER -> <<c>>

-----------------------------------------------------------------------------
(* c may hold (way = TRUE) or fail (way = FALSE) where the variables have    *)
(* the values env: Nondef may do both.                                       *)
RECURSIVE May(_, _, _)
May(c, env, way) ==
  CASE c.type = "True" -> way
    [] c.type = "False" -> ~way
    [] c.type = "Nondef" -> TRUE
    [] c.type = "Atom" -> Compare(Value(c.lhs, env), c.op, Value(c.rhs, env)) = way
    [] c.type = "Not" -> May(c.arg, env, ~way)
    [] (c.type = "And") = way -> May(c.left, env, way) /\ May(c.right, env, way)
    [] OTHER -> May(c.left, env, way) \/ May(c.right, env, way)

Holds(c, env) == May(c, env, TRUE)

RECURSIVE constraintVariables(_)
constraintVariables(c) ==
  CASE c.type = "Atom" -> Variables(c.lhs) \cup Variables(c.rhs)
    [] c.type = "Not" -> constraintVariables(c.arg)
    [] c.type \in {"And", "Or"} -> constraintVariables(c.left) \cup constraintVariables(c.right)
    [] OTHER -> {}

-----------------------------------------------------------------------------
(* ConstraintEliminator.cpp: a solver for linear arithmetic on the integers  *)
(* is asked about the linear atoms of c.  Without a solver integers is {}.   *)
linearPart(c) == {a \in ToSet(atomics(c)) : a.type = "Atom" /\ isLinear(a.lhs) /\ isLinear(a.rhs)}

shouldEliminate(c, integers) ==
  /\ integers # {}
  /\ \A env \in [constraintVariables(c) -> integers] : \E a \in linearPart(c) : ~Holds(a, env)

(* Every conjunction of a clause of a and a clause of b, false if a solver   *)
(* finds that it is.                                                        *)
combined(a, b, integers) ==
  LET A == dualClauses(a)
      B == dualClauses(b)
      both(c) == IF c # false /\ shouldEliminate(c, integers) THEN false ELSE c
  IN  FlattenSeq([i \in DOMAIN A |-> [j \in DOMAIN B |-> both(And(A[i], B[j]))]])

(* No case for Not: the program would end here, toNNF has removed them.     *)
RECURSIVE toDNF(_, _)
toDNF(c, integers) ==
  CASE c.type = "Or" -> Or(toDNF(c.left, integers), toDNF(c.right, integers))
    [] c.type = "And" ->
         LET cs == combined(toDNF(c.left, integers), toDNF(c.right, integers), integers)
         IN  FoldRight(Or, Front(cs), Last(cs))
    [] isLeaf(c) -> c

-----------------------------------------------------------------------------
(* FlattenSeq for lists of rules: by halves, since TLC's stack does not hold *)
(* one step for each of a hundred rules.                                     *)
RECURSIVE flattenRules(_)
flattenRules(lists) ==
  LET n == Len(lists)
  IN  CASE n = 0 -> <<>>
        [] n = 1 -> lists[1]
        [] OTHER -> flattenRules(SubSeq(lists, 1, n \div 2)) \o flattenRules(SubSeq(lists, n \div 2 + 1, n))

Term(f, args) == [fun |-> f, args |-> args]
termVariables(t) == UNION {Variables(t.args[i]) : i \in DOMAIN t.args}
instantiateT(t, bindings) ==
  [t EXCEPT !.args = [i \in DOMAIN @ |-> instantiate(@[i], bindings)]]

Rule(lhs, rhs, c) == [lhs |-> lhs, rhs |-> rhs, c |-> c]
ruleVariables(r) == termVariables(r.lhs) \cup termVariables(r.rhs) \cup constraintVariables(r.c)

(* r1 followed by r2, which reads the arguments of r1 where its left side    *)
(* has the variables names.                                                  *)
instantiatedRule(r1, r2, names) ==
  LET subby == [x \in ToSet(names) |->
                  r1.rhs.args[CHOOSE i \in DOMAIN names : names[i] = x /\ \A j \in 1 .. i - 1 : names[j] # x]]
  IN  Rule(r1.lhs, instantiateT(r2.rhs, subby), And(r1.c, instantiateC(r2.c, subby)))
=============================================================================
