----------------------------- MODULE Arithmetic -----------------------------
(***************************************************************************)
(* The conditions and the arithmetic instructions of the converter         *)
(* (lib/Core/Converter.cpp): what value the result gets, under which       *)
(* constraint.                                                             *)
(*                                                                         *)
(* An operand is a variable or a constant of so many bits.  o has the      *)
(* options: bounded integers, their unsigned encoding, the kind of         *)
(* constraint for divisions, conditions for bitwise instructions.  In the  *)
(* tables u says that the values are in the unsigned box, w is the width.  *)
(***************************************************************************)
EXTENDS Constraint
LOCAL INSTANCE SequencesExt

Var(x) == [kind |-> "var", name |-> x]
Const(b, w) == [kind |-> "const", bits |-> b, width |-> w]

asSigned(b, w) == IF b >= 2^(w - 1) THEN b - 2^w ELSE b

getPolynomial(v, o) ==
  IF v.kind = "var" THEN Variable(v.name)
  ELSE Constant(IF o.bounded /\ o.unsigned THEN v.bits ELSE asSigned(v.bits, v.width))

-----------------------------------------------------------------------------
(* Comparisons                                                             *)

isUnsigned(pred) == pred[1] = "u"
isSigned(pred) == pred[1] = "s"

(* Mutant of getUnsignedComparison: two negative numbers are not compared.   *)
getUnsignedComparisonMixed(op, x, y) ==
  LET isLess == op \in {"<", "<="}
      a == IF isLess THEN y ELSE x
      b == IF isLess THEN x ELSE y
      cmp == Atom(a, CASE op = "<" -> ">" [] op = "<=" -> ">=" [] OTHER -> op, b)
  IN  Or(AllOf(<<Atom(a, ">=", null), Atom(b, ">=", null), cmp>>),
         And(Atom(a, "<", null), Atom(b, ">=", null)))

(* In the signed box the negative numbers are the large ones.                *)
getUnsignedComparison(op, x, y) ==
  LET isLess == op \in {"<", "<="}
      a == IF isLess THEN y ELSE x
      b == IF isLess THEN x ELSE y
      cmp == Atom(a, CASE op = "<" -> ">" [] op = "<=" -> ">=" [] OTHER -> op, b)
  IN  AnyOf(<<AllOf(<<Atom(a, ">=", null), Atom(b, ">=", null), cmp>>),
              AllOf(<<Atom(a, "<", null), Atom(b, "<", null), cmp>>),
              And(Atom(a, "<", null), Atom(b, ">=", null))>>)

(* In the unsigned box those beyond the largest signed one are negative.     *)
getSignedComparison(op, x, y, w) ==
  LET isLess == op \in {"<", "<="}
      a == IF isLess THEN y ELSE x
      b == IF isLess THEN x ELSE y
      cmp == Atom(a, CASE op = "<" -> ">" [] op = "<=" -> ">=" [] OTHER -> op, b)
  IN  AnyOf(<<AllOf(<<Atom(a, "<=", simax(w)), Atom(b, "<=", simax(w)), cmp>>),
              AllOf(<<Atom(a, ">", simax(w)), Atom(b, ">", simax(w)), cmp>>),
              And(Atom(a, "<=", simax(w)), Atom(b, ">", simax(w)))>>)

getComparison(pred, x, y, o, w) ==
  LET op == pred[2]
  IN  IF o.bounded /\ ~o.unsigned /\ isUnsigned(pred) THEN getUnsignedComparison(op, x, y)
      ELSE IF o.bounded /\ o.unsigned /\ isSigned(pred) THEN getSignedComparison(op, x, y, w)
      ELSE Atom(x, op, y)

isTrue(c) == c.type = "const" /\ c.bit = 1
isFalse(c) == c.type = "const" /\ c.bit = 0

(* The conditions a condition is made of, itself among them.                *)
RECURSIVE parts(_)
parts(c) ==
  {c} \cup CASE c.type \in {"and", "or"} -> parts(c.left) \cup parts(c.right)
             [] c.type \in {"xor", "zext"} -> parts(c.arg)
             [] c.type = "select" -> parts(c.test) \cup parts(c.left) \cup parts(c.right)
             [] OTHER -> {}

(* Neither an instruction nor a constant nor an argument of one bit: exit(5). *)
noInstruction(c) == c.type = "undef" \/ (c.type = "arg" /\ c.width # 1)

(* For the xor of two instructions, a constant is read that is not there.    *)
handled(c) == \A d \in parts(c) : ~noInstruction(d) /\ d.type # "xor of two"

RECURSIVE getCondition(_, _)
getCondition(c, o) ==
  LET on(d) == getCondition(d, o)
  IN  CASE c.type = "const" -> Atom(Constant(c.bit), "#", null)
        [] c.type \in {"arg", "inst"} -> nondef
        [] c.type = "value" -> Atom(getPolynomial(c.x, o), "#", null)
        [] c.type = "icmp" -> getComparison(c.pred, getPolynomial(c.x, o), getPolynomial(c.y, o), o, c.width)
        [] c.type = "and" -> And(on(c.left), on(c.right))
        [] c.type = "or" -> Or(on(c.left), on(c.right))
        [] c.type = "zext" -> on(c.arg)
        [] c.type = "xor" -> IF c.bit = 1 THEN Not(on(c.arg)) ELSE on(c.arg)
        [] c.type = "select" ->
             CASE isTrue(c.left) /\ isFalse(c.right) -> on(c.test)
               [] isTrue(c.left) /\ ~isFalse(c.right) -> Or(on(c.test), on(c.right))
               [] ~isTrue(c.left) /\ isFalse(c.right) -> And(on(c.test), on(c.left))
               [] OTHER -> Or(And(on(c.test), on(c.left)), And(Not(on(c.test)), on(c.right)))

-----------------------------------------------------------------------------
(* The signs of a value and comparisons of values, in either box           *)

isNull(p) == Atom(p, "=", null)
positive(p, u, w) == IF u THEN And(Atom(p, ">", null), Atom(p, "<=", simax(w))) ELSE Atom(p, ">", null)
negative(p, u, w) == IF u THEN Atom(p, ">=", simin_as_ui(w)) ELSE Atom(p, "<", null)
nonNegative(p, u, w) == IF u THEN Atom(p, "<=", simax(w)) ELSE Atom(p, ">=", null)
nonPositive(p, u, w) == IF u THEN Or(Atom(p, ">=", simin_as_ui(w)), isNull(p)) ELSE Atom(p, "<=", null)
aboveOne(p, u, w) == IF u THEN And(Atom(p, ">", one), Atom(p, "<=", simax(w))) ELSE Atom(p, ">", one)
isNegOne(p, u, w) == Atom(p, "=", IF u THEN uimax(w) ELSE negone)
belowNegOne(p, u, w) ==
  IF u THEN And(Atom(p, ">=", simin_as_ui(w)), Atom(p, "<", uimax(w))) ELSE Atom(p, "<", negone)
less(p, q, u, w) == IF u THEN getSignedComparison("<", p, q, w) ELSE Atom(p, "<", q)
greater(p, q, u, w) == IF u THEN getSignedComparison(">", p, q, w) ELSE Atom(p, ">", q)

negated(p) == constMult(p, -1)

(* z = x / y, approximated: z is closer to zero than x.                      *)
getSDivConstraint(x, y, z, u, w) ==
  AnyOf(<<
    And(isNull(x), isNull(z)),
    And(Atom(y, "=", one), Atom(z, "=", x)),
    And(isNegOne(y, u, w), Atom(z, "=", negated(x))),
    AllOf(<<aboveOne(y, u, w), positive(x, u, w), nonNegative(z, u, w), less(z, x, u, w)>>),
    AllOf(<<aboveOne(y, u, w), negative(x, u, w), nonPositive(z, u, w), greater(z, x, u, w)>>),
    AllOf(<<belowNegOne(y, u, w), positive(x, u, w), nonPositive(z, u, w), greater(z, negated(x), u, w)>>),
    AllOf(<<belowNegOne(y, u, w), negative(x, u, w), nonNegative(z, u, w), less(z, negated(x), u, w)>>)>>)

(* Mutant of getExactSDivConstraint: the remainder may be as large as y.      *)
getExactSDivConstraintWeak(x, y, z) ==
  LET r == sub(x, mult(y, z))
      negr == add(negated(x), mult(y, z))
      remainder(p, q) == And(Atom(p, ">=", null), Atom(p, "<=", q))
  IN  AnyOf(<<
        And(isNull(x), isNull(z)),
        AllOf(<<Atom(y, ">", null), Atom(x, ">", null), Atom(z, ">=", null), remainder(r, y)>>),
        AllOf(<<Atom(y, "<", null), Atom(x, ">", null), Atom(z, "<=", null), remainder(r, negated(y))>>),
        AllOf(<<Atom(y, ">", null), Atom(x, "<", null), Atom(z, "<=", null), remainder(negr, y)>>),
        AllOf(<<Atom(y, "<", null), Atom(x, "<", null), Atom(z, ">=", null), remainder(negr, negated(y))>>)>>)

(* z = x / y on mathematical integers: the remainder x - y*z has the sign of *)
(* x and is smaller than y.                                                  *)
getExactSDivConstraint(x, y, z) ==
  LET r == sub(x, mult(y, z))
      negr == add(negated(x), mult(y, z))
      remainder(p, q) == And(Atom(p, ">=", null), Atom(p, "<", q))
  IN  AnyOf(<<
        And(isNull(x), isNull(z)),
        AllOf(<<Atom(y, ">", null), Atom(x, ">", null), Atom(z, ">=", null), remainder(r, y)>>),
        AllOf(<<Atom(y, "<", null), Atom(x, ">", null), Atom(z, "<=", null), remainder(r, negated(y))>>),
        AllOf(<<Atom(y, ">", null), Atom(x, "<", null), Atom(z, "<=", null), remainder(negr, y)>>),
        AllOf(<<Atom(y, "<", null), Atom(x, "<", null), Atom(z, ">=", null), remainder(negr, negated(y))>>)>>)

(* z = x % y, approximated: z is closer to zero than y.                      *)
getSRemConstraint(x, y, z, u, w) ==
  AnyOf(<<
    And(isNull(x), isNull(z)),
    And(Atom(y, "=", one), isNull(z)),
    And(isNegOne(y, u, w), isNull(z)),
    AllOf(<<aboveOne(y, u, w), positive(x, u, w), nonNegative(z, u, w), less(z, y, u, w)>>),
    AllOf(<<aboveOne(y, u, w), negative(x, u, w), nonPositive(z, u, w), greater(z, negated(y), u, w)>>),
    AllOf(<<belowNegOne(y, u, w), positive(x, u, w), nonNegative(z, u, w), less(z, negated(y), u, w)>>),
    AllOf(<<belowNegOne(y, u, w), negative(x, u, w), nonPositive(z, u, w), greater(z, y, u, w)>>)>>)

(* Unsigned division and remainder of bounded integers                     *)

above(p, q, u) == IF u THEN Atom(p, ">", q) ELSE Or(Atom(p, ">", q), Atom(p, "<", null))
below(p, q, u) == IF u THEN Atom(p, "<", q) ELSE getUnsignedComparison("<", p, q)

getUDivConstraint(x, y, z, u) ==
  AnyOf(<<
    And(isNull(x), isNull(z)),
    And(Atom(y, "=", one), Atom(z, "=", x)),
    AllOf(<<above(y, one, u), above(x, null, u), below(z, x, u)>>)>>)

getURemConstraint(x, y, z, u) ==
  AnyOf(<<
    And(isNull(x), isNull(z)),
    And(Atom(y, "=", one), isNull(z)),
    AllOf(<<above(y, one, u), above(x, null, u), below(z, y, u)>>)>>)

-----------------------------------------------------------------------------
(* The instructions: the constraint for the result z                       *)

visitSDiv(x, y, z, o, w) ==
  CASE o.division = "None" -> true
    [] o.division # "None" /\ o.bounded -> getSDivConstraint(x, y, z, o.unsigned, w)
    [] o.division = "Exact" /\ ~o.bounded -> getExactSDivConstraint(x, y, z)
    [] o.division = "Approximated" /\ ~o.bounded -> getSDivConstraint(x, y, z, FALSE, w)

visitUDiv(x, y, z, o, w) ==
  IF o.division # "None" /\ o.bounded THEN getUDivConstraint(x, y, z, o.unsigned)
  ELSE visitSDiv(x, y, z, o, w)

(* Exact or not makes no difference here.                                    *)
visitSRem(x, y, z, o, w) ==
  IF o.division = "None" THEN true ELSE getSRemConstraint(x, y, z, o.bounded /\ o.unsigned, w)

visitURem(x, y, z, o, w) ==
  IF o.division # "None" /\ o.bounded THEN getURemConstraint(x, y, z, o.unsigned)
  ELSE visitSRem(x, y, z, o, w)

getAndConstraint(x, y, z, u) ==
  LET signs(a, b, c) == AllOf(<<Atom(x, a, null), Atom(y, b, null), Atom(z, c, null)>>)
      upTo(p) == Atom(z, "<=", p)
  IN  IF u THEN And(upTo(x), upTo(y))
      ELSE AnyOf(<<AllOf(<<signs(">=", ">=", ">="), upTo(x), upTo(y)>>),
                   And(signs(">=", "<", ">="), upTo(x)),
                   And(signs("<", ">=", ">="), upTo(y)),
                   AllOf(<<signs("<", "<", "<"), upTo(x), upTo(y)>>)>>)

(* The atoms resGEQx and resGEQy are made with Leq.                          *)
getOrConstraint(x, y, z, u) ==
  LET signs(a, b, c) == AllOf(<<Atom(x, a, null), Atom(y, b, null), Atom(z, c, null)>>)
      resGEQ(p) == Atom(z, "<=", p)
  IN  IF u THEN And(resGEQ(x), resGEQ(y))
      ELSE AnyOf(<<AllOf(<<signs(">=", ">=", ">="), resGEQ(x), resGEQ(y)>>),
                   And(signs(">=", "<", "<"), resGEQ(y)),
                   And(signs("<", ">=", "<"), resGEQ(x)),
                   AllOf(<<signs("<", "<", "<"), resGEQ(x), resGEQ(y)>>)>>)

visitAnd(x, y, z, o) == IF o.bounded /\ o.bitwise THEN getAndConstraint(x, y, z, o.unsigned) ELSE true
visitOr(x, y, z, o) == IF o.bounded /\ o.bitwise THEN getOrConstraint(x, y, z, o.unsigned) ELSE true

-----------------------------------------------------------------------------
(* The rules of instruction J: the values its result may get, each with a    *)
(* constraint.  J.n is its nondef, J.from and J.width the widths of the      *)
(* operands and the result.                                                  *)
always(p) == <<<<p, true>>>>

visitSExtInst(J, x, o) ==
  IF o.bounded /\ o.unsigned
  THEN <<<<x, Atom(x, "<=", simax(J.from))>>,
         <<add(sub(power_of_two(J.width), power_of_two(J.from)), x), Atom(x, ">", simax(J.from))>>>>
  ELSE always(x)

visitZExtInst(J, x, o) ==
  IF o.bounded /\ ~o.unsigned
  THEN <<<<x, Atom(x, ">=", null)>>, <<add(power_of_two(J.from), x), Atom(x, "<", null)>>>>
  ELSE always(x)

visitZExtBool(J, o) ==
  LET c == getCondition(J.c, o) IN <<<<null, toNNF(c, TRUE)>>, <<one, toNNF(c, FALSE)>>>>

visitTruncInst(J, x, o) == always(IF o.bounded THEN Variable(J.n) ELSE x)

visitXor(J, x, o) ==
  IF J.y.kind = "const" /\ J.y.bits = 2^J.y.width - 1 THEN always(sub(negated(x), one))
  ELSE always(Variable(J.n))

Alternatives(J, o) ==
  LET x == getPolynomial(J.x, o)
      y == getPolynomial(J.y, o)
      n == Variable(J.n)
  IN  CASE J.op = "add" -> always(add(x, y))
        [] J.op = "sub" -> always(sub(x, y))
        [] J.op = "mul" -> always(mult(x, y))
        [] J.op = "sdiv" -> <<<<n, visitSDiv(x, y, n, o, J.width)>>>>
        [] J.op = "udiv" -> <<<<n, visitUDiv(x, y, n, o, J.width)>>>>
        [] J.op = "srem" -> <<<<n, visitSRem(x, y, n, o, J.width)>>>>
        [] J.op = "urem" -> <<<<n, visitURem(x, y, n, o, J.width)>>>>
        [] J.op = "and" -> <<<<n, visitAnd(x, y, n, o)>>>>
        [] J.op = "or" -> <<<<n, visitOr(x, y, n, o)>>>>
        [] J.op = "xor" -> visitXor(J, x, o)
        [] J.op = "sext" -> visitSExtInst(J, x, o)
        [] J.op = "zext" -> visitZExtInst(J, x, o)
        [] J.op = "zextbool" -> visitZExtBool(J, o)
        [] J.op = "trunc" -> visitTruncInst(J, x, o)
        [] J.op \in {"shl", "ashr", "lshr"} -> always(n)
=============================================================================
