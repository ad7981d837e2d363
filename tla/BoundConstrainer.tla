-------------------------- MODULE BoundConstrainer --------------------------
(***************************************************************************)
(* addBoundConstraints (lib/Core/BoundConstrainer.cpp): rules over the     *)
(* integers are made rules over integers of a width.  Every variable gets  *)
(* the bounds of its width; a rule that computes goes through two new      *)
(* symbols, one where the polynomials of its constraint and one where its  *)
(* new arguments are moved into their width by adding or taking 2^w, and   *)
(* a third between them.  The new symbols are then chained away again      *)
(* where the number of moves is known.                                     *)
(*                                                                         *)
(* A symbol of the converter is a pair, a new one a triple.  width is      *)
(* bitwidthMap, unsigned the choice of the box.                            *)
(***************************************************************************)
EXTENDS Constraint
LOCAL INSTANCE SequencesExt
LOCAL INSTANCE FiniteSetsExt
LOCAL INSTANCE TLC

getNormFun(f, i) == <<f, i, "norm">>
getBlockFun(f, i) == <<f, i, "block">>
isNormSymbol(f) == Len(f) = 3 /\ f[3] = "norm"
isBlockSymbol(f) == Len(f) = 3 /\ f[3] = "block"
getNewVar(k) == "c_norm_" \o ToString(k)

Lower(w, unsigned) == IF unsigned THEN null ELSE simin(w)
Upper(w, unsigned) == IF unsigned THEN uimax(w) ELSE simax(w)

(* Mutant of boundsOf: no lower bound.                                       *)
boundsAbove(x, width, unsigned) == Atom(Variable(x), "<=", Upper(width[x], unsigned))

boundsOf(x, width, unsigned) ==
  And(Atom(Variable(x), ">=", Lower(width[x], unsigned)),
      Atom(Variable(x), "<=", Upper(width[x], unsigned)))

getBoundConstraints(names, width, unsigned) ==
  FoldLeft(LAMBDA c, x : And(c, boundsOf(x, width, unsigned)), true, SetToSeq(names))

(* The arguments of a symbol: those it has on a left side, or, for a stop    *)
(* symbol, on a right side.                                                  *)
getNormArgs(f, rules) ==
  LET side(r) == IF f[1] = "stop" THEN r.rhs ELSE r.lhs
      first == CHOOSE i \in DOMAIN rules :
                 side(rules[i]).fun = f /\ \A j \in 1 .. i - 1 : side(rules[j]).fun # f
  IN  side(rules[first]).args

isNormal(p) == isVar(p) \/ isConst(p)
nonNormal(ps) == SelectSeq(ps, LAMBDA p : ~isNormal(p))

getNonNormalAtomPolynomials(c) ==
  LET A == SelectSeq(atomics(c), LAMBDA a : a.type = "Atom")
  IN  nonNormal(FlattenSeq([i \in DOMAIN A |-> <<A[i].lhs, A[i].rhs>>]))

firstVariable(p) == CHOOSE x \in Variables(p) : TRUE

(* Mutant of getNormRules: the largest value is moved as well.               *)
getNormRulesFrom(lhs, pos, width, unsigned) ==
  LET x == firstVariable(lhs.args[pos])
      w == width[x]
      moved(q) == [lhs EXCEPT !.args[pos] = q]
  IN  <<Rule(lhs, moved(add(lhs.args[pos], power_of_two(w))), Atom(Variable(x), "<", Lower(w, unsigned))),
        Rule(lhs, moved(sub(lhs.args[pos], power_of_two(w))), Atom(Variable(x), ">=", Upper(w, unsigned)))>>

getNormRules(lhs, pos, width, unsigned) ==
  LET x == firstVariable(lhs.args[pos])
      w == width[x]
      moved(q) == [lhs EXCEPT !.args[pos] = q]
  IN  <<Rule(lhs, moved(add(lhs.args[pos], power_of_two(w))), Atom(Variable(x), "<", Lower(w, unsigned))),
        Rule(lhs, moved(sub(lhs.args[pos], power_of_two(w))), Atom(Variable(x), ">", Upper(w, unsigned)))>>

chainRules(r1, r2) ==
  instantiatedRule(r1, r2, [i \in DOMAIN r2.lhs.args |-> firstVariable(r2.lhs.args[i])])

(* The constraint with c_norm variables in place of the polynomials ps; of   *)
(* equal ones any will do.                                                   *)
mapPolysToVars(c, ps) ==
  LET A == atomics(c)
      mapped(p) == LET I == {i \in DOMAIN ps : polyEquals(ps[i], p)}
                   IN  IF I = {} THEN p ELSE Variable(getNewVar(Max(I)))
  IN  IF ps = <<>> THEN c
      ELSE AllOf([i \in DOMAIN A |-> Atom(mapped(A[i].lhs), A[i].op, mapped(A[i].rhs))])

-----------------------------------------------------------------------------
(* The rules for r, as the second branch of the loop makes them, with the    *)
(* counters, widths and kept symbols in s.                                   *)
Normalizing(s, r, rules, unsigned) ==
  LET ps == getNonNormalAtomPolynomials(r.c)
      f == r.rhs.fun
      ruleNormArgs == getNormArgs(f, rules)
      condNorm == getNormFun(f, s.normCount)
      ruleNorm == getNormFun(f, s.normCount + 1)
      blocker == getBlockFun(f, s.blockCount)
      \* bitwidthMap.insert: an entry that is there stays
      width == FoldLeft(LAMBDA m, k : m @@ (getNewVar(k) :> s.width[firstVariable(ps[k])]),
                        s.width, [k \in DOMAIN ps |-> k])
      lhsArgs == r.lhs.args
      condDone == Term(condNorm, lhsArgs \o [k \in DOMAIN ps |-> Variable(getNewVar(k))])
      ruleDone == Term(ruleNorm, ruleNormArgs)
      bounds(t) == getBoundConstraints(termVariables(t), width, unsigned)
      condRules == FlattenSeq([k \in DOMAIN ps |-> getNormRules(condDone, Len(lhsArgs) + k, width, unsigned)])
      moves == [i \in DOMAIN r.rhs.args |->
                  IF isNormal(r.rhs.args[i]) THEN <<>> ELSE getNormRules(ruleDone, i, width, unsigned)]
      multiplies(qs) == \E i \in DOMAIN qs : normStepsNeeded(qs[i]) = -1
  IN  [s EXCEPT
        !.normCount = @ + 2,
        !.blockCount = @ + 1,
        !.width = width,
        !.keep = @ \cup (IF multiplies(ps) THEN {condNorm} ELSE {})
                   \cup (IF multiplies(r.rhs.args) THEN {getNormFun(f, s.normCount + 2)} ELSE {}),
        !.res = @ \o <<Rule(r.lhs, Term(condNorm, lhsArgs \o ps), bounds(r.lhs))>>
                  \o condRules
                  \o <<Rule(condDone, Term(blocker, lhsArgs), And(mapPolysToVars(r.c, ps), bounds(condDone))),
                       Rule(Term(blocker, lhsArgs), Term(ruleNorm, r.rhs.args), true)>>
                  \o FlattenSeq(moves)
                  \o <<Rule(ruleDone, Term(f, ruleNormArgs), bounds(ruleDone))>>]

Bounding(s, r, unsigned) ==
  [s EXCEPT !.res = Append(@, [r EXCEPT !.c = And(@,
     getBoundConstraints(termVariables(r.lhs) \cup termVariables(r.rhs), s.width, unsigned))])]

-----------------------------------------------------------------------------
(* The two rules at f that move the argument pos.                            *)
getTheNormRules(f, pos, rules) ==
  SelectSeq(rules, LAMBDA r : r.lhs.fun = f /\ r.rhs.fun = f /\ ~isVar(r.rhs.args[pos]))

(* r and the rules it becomes when one of two rules is applied up to n times.*)
chainedUpTo(n, r, two) ==
  LET times[k \in 0 .. n, j \in 1 .. 2] == IF k = 0 THEN r ELSE chainRules(times[k - 1, j], two[j])
  IN  <<r>> \o FlattenSeq([k \in 1 .. n |-> <<times[k, 1], times[k, 2]>>])

getChainedNormRules(r, rules) ==
  LET f == r.rhs.fun
      exit == SelectSeq(rules, LAMBDA q : q.lhs.fun = f /\ q.rhs.fun # f)[1]
      chainAt(thusFar, pos) ==
        LET n == normStepsNeeded(r.rhs.args[pos])
        IN  IF isNormal(r.rhs.args[pos]) THEN thusFar
            ELSE flattenRules([i \in DOMAIN thusFar |-> chainedUpTo(n, thusFar[i], getTheNormRules(f, pos, rules))])
      thusFar == FoldLeft(chainAt, <<r>>, [pos \in DOMAIN r.rhs.args |-> pos])
  IN  [i \in DOMAIN thusFar |-> chainRules(thusFar[i], exit)]

eliminateUnneededNorms(rules, keep) ==
  LET unneeded(f) == isNormSymbol(f) /\ f \notin keep
      become(r) == IF unneeded(r.lhs.fun) THEN <<>>
                   ELSE IF unneeded(r.rhs.fun) THEN getChainedNormRules(r, rules)
                   ELSE <<r>>
  IN  flattenRules([i \in DOMAIN rules |-> become(rules[i])])

eliminateBlocks(rules) ==
  LET from(f) == SelectSeq(rules, LAMBDA q : q.lhs.fun = f)
      become(r) == IF isBlockSymbol(r.rhs.fun)
                   THEN [i \in DOMAIN from(r.rhs.fun) |-> chainRules(r, from(r.rhs.fun)[i])]
                   ELSE IF isBlockSymbol(r.lhs.fun) THEN <<>>
                   ELSE <<r>>
  IN  flattenRules([i \in DOMAIN rules |-> become(rules[i])])

addBoundConstraints(rules, width, unsigned) ==
  LET computes(r) == nonNormal(r.rhs.args) # <<>> \/ getNonNormalAtomPolynomials(r.c) # <<>>
      start == [res |-> <<>>, keep |-> {}, normCount |-> 0, blockCount |-> 0, width |-> width]
      done == FoldLeft(LAMBDA s, r : IF computes(r) THEN Normalizing(s, r, rules, unsigned)
                                     ELSE Bounding(s, r, unsigned), start, rules)
  IN  eliminateBlocks(eliminateUnneededNorms(done.res, done.keep))
=============================================================================
