----------------------------- MODULE MCCondense -----------------------------
(***************************************************************************)
(* Rules over one variable x in {0, 1} and two nondefs: a function with a   *)
(* control point h and three symbols between its visits.                   *)
(***************************************************************************)
EXTENDS Condense, FiniteSets

MCNondef == {"n1", "n2"}
MCSymbol == {"h", "stop", "a", "b"}
MCState == {0, 1}
MCControlPoints == {"h", "stop"}

(* The polynomials x, 0, 1 - x and the nondef n.                             *)
Update(n) == {[x \in Point |-> x[1]], [x \in Point |-> 0], [x \in Point |-> 1 - x[1]],
              [x \in Point |-> x[2][n]]}

(* The constraints true, x = 0 and n = x.                                    *)
Cond(n) == {Point, {x \in Point : x[1] = 0}, {x \in Point : x[2][n] = x[1]}}

RulesFrom(f, g, n) ==
  [left : {f}, right : {g}, cond : Cond(n), update : Update(n)]

Plain(f, g) == [left |-> f, right |-> g, cond |-> Point, update |-> [x \in Point |-> x[1]]]

(* From h through a, or through a and b, back to h, and by other rules to      *)
(* stop; the symbols between control points have no cycle.  The rules of a symbol  *)
(* need not be next to each other.                                           *)
MCSystems ==
  {<<Plain("b", "stop"), p, q, Plain("a", "b")>> :
     p \in RulesFrom("h", "a", "n1"), q \in RulesFrom("a", "h", "n2")}
  \cup
  {<<p, Plain("a", "b"), q, Plain("h", "stop"), Plain("a", "stop")>> :
     p \in RulesFrom("h", "a", "n1"), q \in RulesFrom("b", "h", "n2")}
=============================================================================
