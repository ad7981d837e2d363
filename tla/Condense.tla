------------------------------ MODULE Condense ------------------------------
(***************************************************************************)
(* Converter::getCondensedRules: the rules of a function are chained       *)
(* through the symbols that are not control points, until every rule leads *)
(* from a control point to a control point.                                *)
(*                                                                         *)
(* A rule f(x) -> g(p(x)) [c(x)] is kept by what it means: on State, the   *)
(* values of the variables m_vars, and Choice, the values of the nondefs,  *)
(* "update" is the tuple p and "cond" the set where c holds.  Substituting *)
(* the right side of one rule into another is then composition.  The first *)
(* half of the function, which sorts the rules into good and junk, is the  *)
(* test of the left symbol when the loops come to a rule.                  *)
(***************************************************************************)
EXTENDS Naturals, Sequences

CONSTANTS
  Symbol, State,
  Nondef, Value,                 \* the variables from getNondef, and what they may be
  ControlPoints,                 \* m_controlPoints
  Systems                        \* the sequences of rules considered

Choice == [Nondef -> Value]

Point == State \X Choice

Rule == [left : Symbol, right : Symbol, cond : SUBSET Point, update : [Point -> State]]

ASSUME CondenseAssumption ==
  /\ ControlPoints \subseteq Symbol
  /\ Systems \subseteq Seq(Rule)

isControl(f) == f \in ControlPoints

-----------------------------------------------------------------------------
(* What the converter says of the rules it hands over.                       *)

(* Rules lead from symbol f to g, through symbols that are no control points. *)
Leads(rs, f, g) ==
  \A U \in SUBSET Symbol :
    /\ f \in U
    /\ \A k \in DOMAIN rs : ~isControl(rs[k].left) /\ rs[k].left \in U => rs[k].right \in U
    => g \in U

(* Whether the rule applies and what it does depends on no other nondef.      *)
Reads(r, D) ==
  \A n, m \in Choice : (\A d \in D : n[d] = m[d]) =>
    \A x \in State :
      /\ <<x, n>> \in r.cond <=> <<x, m>> \in r.cond
      /\ r.update[<<x, n>>] = r.update[<<x, m>>]

(* own gives every rule its nondefs.  A rule shares none with a rule that may *)
(* be chained to it: two rules share one only as alternatives of a symbol,    *)
(* which no cycle of rules leads back to without a control point.            *)
Distinct(rs, own) ==
  \A k \in DOMAIN rs :
    /\ Reads(rs[k], own[k])
    /\ \A l \in DOMAIN rs :
         ~isControl(rs[l].left) /\ Leads(rs, rs[k].right, rs[l].left) => own[k] \cap own[l] = {}

ASSUME NondefsAssumption ==
  \A rs \in Systems : \E own \in [DOMAIN rs -> SUBSET Nondef] : Distinct(rs, own)

-----------------------------------------------------------------------------
VARIABLES
  rules,                         \* m_rules
  i,                             \* the loop over the good rules
  todo,
  ii, newtodo,                   \* the loop over the junk rules for Head(todo)
  res

vars == <<rules, i, todo, ii, newtodo, res>>

-----------------------------------------------------------------------------
(* Mutant of instantiated: the constraint of the second rule is read before   *)
(* the first.                                                                *)
CondNotInstantiated(r, junkrule) ==
  [left |-> r.left,
   right |-> junkrule.right,
   cond |-> r.cond \cap junkrule.cond,
   update |-> [x \in Point |-> junkrule.update[<<r.update[x], x[2]>>]]]

(* r followed by junkrule, with subby put into the second.                   *)
instantiated(r, junkrule) ==
  LET subby(x) == <<r.update[x], x[2]>>
  IN  [left |-> r.left,
       right |-> junkrule.right,
       cond |-> {x \in r.cond : subby(x) \in junkrule.cond},
       update |-> [x \in Point |-> junkrule.update[subby(x)]]]

Init ==
  /\ rules \in Systems
  /\ i = 1
  /\ todo = <<>>
  /\ ii = 1
  /\ newtodo = <<>>
  /\ res = <<>>

(* The next rule, which is good or not.                                      *)
NextRule ==
  /\ todo = <<>>
  /\ i <= Len(rules)
  /\ i' = i + 1
  /\ todo' = IF isControl(rules[i].left) THEN <<rules[i]>> ELSE <<>>
  /\ UNCHANGED <<rules, ii, newtodo, res>>

(* Mutant of Keep: the rule stays at the front.                              *)
KeepTwice ==
  /\ todo # <<>>
  /\ isControl(Head(todo).right)
  /\ res' = <<Head(todo)>>
  /\ UNCHANGED <<rules, i, todo, ii, newtodo>>

Keep ==
  /\ todo # <<>>
  /\ isControl(Head(todo).right)
  /\ res' = Append(res, Head(todo))
  /\ todo' = Tail(todo)
  /\ UNCHANGED <<rules, i, ii, newtodo>>

isJunkFor(rule, r) == ~isControl(rule.left) /\ rule.left = r.right

(* Mutant of Extend: the loop does not end with the list.                     *)
ExtendFurther ==
  /\ todo # <<>>
  /\ ~isControl(Head(todo).right)
  /\ ii <= Len(rules)
  /\ ii' = ii + 2
  /\ newtodo' = IF isJunkFor(rules[ii], Head(todo))
                THEN Append(newtodo, instantiated(Head(todo), rules[ii]))
                ELSE newtodo
  /\ UNCHANGED <<rules, i, todo, res>>

(* One rule of the inner loop.                                               *)
Extend ==
  /\ todo # <<>>
  /\ ~isControl(Head(todo).right)
  /\ ii <= Len(rules)
  /\ ii' = ii + 1
  /\ newtodo' = IF isJunkFor(rules[ii], Head(todo))
                THEN Append(newtodo, instantiated(Head(todo), rules[ii]))
                ELSE newtodo
  /\ UNCHANGED <<rules, i, todo, res>>

(* Mutant of Insert: the rules that wait are lost.                           *)
InsertOnly ==
  /\ todo # <<>>
  /\ ii > Len(rules)
  /\ todo' = newtodo
  /\ ii' = 1
  /\ newtodo' = <<>>
  /\ UNCHANGED <<rules, i, res>>

Insert ==
  /\ todo # <<>>
  /\ ii > Len(rules)
  /\ todo' = newtodo \o Tail(todo)
  /\ ii' = 1
  /\ newtodo' = <<>>
  /\ UNCHANGED <<rules, i, res>>

Next == NextRule \/ Keep \/ Extend \/ Insert

(* The loops run on: there is one thread and nothing to wait for.            *)
Spec == Init /\ [][Next]_vars /\ WF_vars(Next)

condensed == todo = <<>> /\ i > Len(rules)

-----------------------------------------------------------------------------
(* What a system of rules does.                                              *)

Config == Symbol \X State

Relates(r, a, b) ==
  /\ a[1] = r.left /\ b[1] = r.right
  /\ \E n \in Choice : <<a[2], n>> \in r.cond /\ r.update[<<a[2], n>>] = b[2]

Steps(rs, a, b) == \E k \in DOMAIN rs : Relates(rs[k], a, b)

Successors(rs) == [a \in Config |-> {b \in Config : Steps(rs, a, b)}]

(* a run leads from a to b by one or more rules, through symbols between them *)
(* that are no control points: b is in every set with the successors of a    *)
(* that is closed under the steps from such symbols.                         *)
Passes(rs, a, b) ==
  LET succ == Successors(rs)
  IN  \A U \in SUBSET Config :
        /\ succ[a] \subseteq U
        /\ \A c \in U : isControl(c[1]) \/ succ[c] \subseteq U
        => b \in U

-----------------------------------------------------------------------------
(* Properties.                                                               *)

Members(s) == {s[k] : k \in DOMAIN s}

(* Type invariant.                                                           *)
TypeOK ==
  /\ rules \in Seq(Rule)
  /\ i \in 1 .. Len(rules) + 1
  /\ todo \in Seq(Rule)
  /\ ii \in 1 .. Len(rules) + 1
  /\ newtodo \in Seq(Rule)
  /\ res \in Seq(Rule)

(* A rule starts at a control point and does only what a run of the input     *)
(* does that passes no other control point.                                  *)
Chained(r) ==
  /\ isControl(r.left)
  /\ \A a, b \in Config : Relates(r, a, b) => Passes(rules, a, b)

(* Every rule there is, in the result or on its way, is such a chain.         *)
ChainInv == \A r \in Members(todo) \cup Members(newtodo) \cup Members(res) : Chained(r)

(* The condensed rules join control points and have no run that the rules of  *)
(* the function do not have.                                                 *)
CondensedSound ==
  \A r \in Members(res) : isControl(r.right) /\ Chained(r)

(* And they lose none: a run from control point to control point is one step  *)
(* of a condensed rule.  This needs the nondefs to be distinct.               *)
CondensedComplete ==
  condensed =>
    \A a, b \in Config :
      isControl(a[1]) /\ isControl(b[1]) /\ Passes(rules, a, b) => Steps(res, a, b)

(* The expansion ends: every cycle of rules has a control point.              *)
Terminates == <>condensed
=============================================================================
