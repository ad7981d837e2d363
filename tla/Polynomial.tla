----------------------------- MODULE Polynomial -----------------------------
(***************************************************************************)
(* Polynomials over the integers (lib/IntTRS/Polynomial.cpp).              *)
(*                                                                         *)
(* A monomial is the sequence of its powers <<x, k>>, a polynomial its     *)
(* constant and the sequence of its monomials with their coefficients.     *)
(* The lists stay sequences since the result of an operation depends on    *)
(* their order: Monomial::equals is not symmetric.  Coefficients are GMP   *)
(* integers, which have no width.                                          *)
(***************************************************************************)
EXTENDS Integers, Sequences, FiniteSets
LOCAL INSTANCE SequencesExt
LOCAL INSTANCE FiniteSetsExt
LOCAL INSTANCE Functions

(* Monomials                                                               *)

getPower(m, x) ==
  LET I == {i \in DOMAIN m : m[i][1] = x} IN IF I = {} THEN 0 ELSE m[Min(I)][2]

monoVariables(m) == {m[i][1] : i \in DOMAIN m}

(* Every power of m is one of n; n may have more.                            *)
monoEquals(m, n) == \A i \in DOMAIN m : getPower(n, m[i][1]) = m[i][2]

monoLinear(m) == Len(m) = 1 /\ m[1][2] = 1

monoMult(m, n) ==
  [i \in DOMAIN m |-> <<m[i][1], m[i][2] + getPower(n, m[i][1])>>]
    \o SelectSeq(n, LAMBDA p : getPower(m, p[1]) = 0)

-----------------------------------------------------------------------------
(* Polynomials                                                             *)

Constant(c) == [const |-> c, monos |-> <<>>]
null == Constant(0)
one == Constant(1)
negone == Constant(-1)
Variable(x) == [const |-> 0, monos |-> <<[coeff |-> 1, mono |-> <<<<x, 1>>>>]>>]
Product(m) == [const |-> 0, monos |-> <<[coeff |-> 1, mono |-> m]>>]

simax(bitwidth) == Constant(2^(bitwidth - 1) - 1)
simin_as_ui(bitwidth) == Constant(2^(bitwidth - 1))
simin(bitwidth) == Constant(-(2^(bitwidth - 1)))
uimax(bitwidth) == Constant(2^bitwidth - 1)
power_of_two(power) == Constant(2^power)

isConst(p) == p.monos = <<>>
isLinear(p) == \A i \in DOMAIN p.monos : monoLinear(p.monos[i].mono)
isVar(p) ==
  p.const = 0 /\ Len(p.monos) = 1 /\ p.monos[1].coeff = 1 /\ monoLinear(p.monos[1].mono)
Variables(p) == UNION {monoVariables(p.monos[i].mono) : i \in DOMAIN p.monos}

(* The last monomial that m equals decides.                                  *)
getCoeff(p, m) ==
  LET I == {i \in DOMAIN p.monos : monoEquals(m, p.monos[i].mono)}
  IN  IF I = {} THEN 0 ELSE p.monos[Max(I)].coeff

constMult(p, d) ==
  IF d = 0 THEN null
  ELSE [const |-> p.const * d,
        monos |-> [i \in DOMAIN p.monos |-> [p.monos[i] EXCEPT !.coeff = @ * d]]]

add(p, q) ==
  LET sums == [i \in DOMAIN p.monos |->
                 [p.monos[i] EXCEPT !.coeff = @ + getCoeff(q, p.monos[i].mono)]]
  IN  [const |-> p.const + q.const,
       monos |-> SelectSeq(sums, LAMBDA t : t.coeff # 0)
                   \o SelectSeq(q.monos, LAMBDA t : getCoeff(p, t.mono) = 0)]

sub(p, q) == add(p, constMult(q, -1))

(* Every product of two monomials, in the order of the two loops.            *)
products(p, q) ==
  FlattenSeq([i \in DOMAIN p.monos |-> [j \in DOMAIN q.monos |->
    constMult(Product(monoMult(p.monos[i].mono, q.monos[j].mono)),
              p.monos[i].coeff * q.monos[j].coeff)]])

mult(p, q) ==
  IF isConst(q) THEN constMult(p, q.const)
  ELSE LET pp == FoldLeft(add, null, products(p, q))
           cp == constMult([q EXCEPT !.const = 0], p.const)
           pc == constMult([p EXCEPT !.const = 0], q.const)
       IN  add(pp, add(cp, add(pc, Constant(p.const * q.const))))

(* The polynomial for x after the substitution.                              *)
bound(bindings, x) == IF x \in DOMAIN bindings THEN bindings[x] ELSE Variable(x)

instantiateMono(m, bindings) ==
  FoldLeft(LAMBDA accu, x : mult(accu, bound(bindings, x)), one,
           FlattenSeq([i \in DOMAIN m |-> [k \in 1 .. m[i][2] |-> m[i][1]]]))

instantiate(p, bindings) ==
  FoldLeft(LAMBDA res, t : add(res, constMult(instantiateMono(t.mono, bindings), t.coeff)),
           Constant(p.const), p.monos)

(* How often 2^w may have to be added to, or taken from, a value of p; -1 if *)
(* that is not known.  Coefficients beyond int are outside the model.        *)
normStepsNeeded(p) ==
  LET needs(t) == IF t.coeff >= 0 THEN t.coeff ELSE 1 - t.coeff
  IN  IF isConst(p) \/ isVar(p) THEN 0
      ELSE IF \E i \in DOMAIN p.monos : ~monoLinear(p.monos[i].mono) THEN -1
      ELSE FoldLeft(LAMBDA res, t : res + needs(t), 0, p.monos)
             + (IF p.const = 0 THEN 0 ELSE 1) - 1

polyEquals(p, q) == LET d == sub(p, q) IN isConst(d) /\ d.const = 0

-----------------------------------------------------------------------------
(* The value of p where the variables have the values env.                 *)
RECURSIVE monomialValue(_, _)
monomialValue(mono, env) ==
  IF mono = <<>> THEN 1 ELSE env[Head(mono)[1]]^Head(mono)[2] * monomialValue(Tail(mono), env)

RECURSIVE sumOf(_, _)
sumOf(monos, env) ==
  IF monos = <<>> THEN 0
  ELSE Head(monos).coeff * monomialValue(Head(monos).mono, env) + sumOf(Tail(monos), env)

Value(p, env) == p.const + sumOf(p.monos, env)
=============================================================================
