------------------------------ MODULE T2Export ------------------------------
(***************************************************************************)
(* printT2System (lib/Export/T2Export.cpp): the rules as transitions of T2.*)
(* A symbol becomes a location, and its arguments global variables, which  *)
(* a transition assigns one after the other where a rule gives all of them *)
(* at once.                                                                *)
(***************************************************************************)
EXTENDS Constraint
LOCAL INSTANCE SequencesExt
LOCAL INSTANCE FiniteSetsExt
LOCAL INSTANCE TLC

Assign(x, p) == [do |-> "assign", var |-> x, poly |-> p]
NonDet(x) == [do |-> "nondet", var |-> x]
Assume(c) == [do |-> "assume", c |-> c]

(* Locations are numbered as the symbols appear.                            *)
funToLocId(rules) ==
  LET at(i) == <<<<2 * i, rules[i].lhs.fun>>, <<2 * i + 1, rules[i].rhs.fun>>>>
      places == UNION {ToSet(at(i)) : i \in DOMAIN rules}
      first == [f \in {p[2] : p \in places} |-> Min({p[1] : p \in {q \in places : q[2] = f}})]
  IN  [f \in DOMAIN first |-> Cardinality({g \in DOMAIN first : first[g] <= first[f]})]

(* The names of the arguments that every rule for a symbol has on its left;  *)
(* where two rules differ the program ends.                                 *)
namesDiffer(rules) ==
  \E i, j \in DOMAIN rules : rules[i].lhs.fun = rules[j].lhs.fun /\ rules[i].lhs.args # rules[j].lhs.args

funToLhsNames(rules) ==
  [f \in DOMAIN funToLocId(rules) |->
     LET I == {i \in DOMAIN rules : rules[i].lhs.fun = f}
     IN  IF I = {} THEN <<>>
         ELSE LET args == rules[Min(I)].lhs.args
              IN  [j \in DOMAIN args |-> args[j].monos[1].mono[1][1]]]

old(x) == "kittel_old__" \o x

(* Mutant of body: the new values are assigned without the old ones kept.    *)
bodyForgetting(r, pre, post) ==
  LET changed == {j \in DOMAIN r.rhs.args \cap DOMAIN post : r.rhs.args[j] # Variable(post[j])}
      free == SetToSeq(ruleVariables(r) \ ToSet(pre))
  IN  [k \in DOMAIN free |-> NonDet(free[k])]
        \o (IF r.c = true THEN <<>> ELSE <<Assume(r.c)>>)
        \o [k \in 1 .. Cardinality(changed) |->
              LET j == SetToSortSeq(changed, <)[k] IN Assign(post[j], r.rhs.args[j])]

(* What a transition does for a rule, where pre and post name the arguments  *)
(* of its two symbols.                                                      *)
body(r, pre, post) ==
  LET changed == SetToSortSeq({j \in DOMAIN r.rhs.args \cap DOMAIN post :
                                 r.rhs.args[j] # Variable(post[j])}, <)
      copied == SelectSeq(pre, LAMBDA x : \E k \in DOMAIN changed : post[changed[k]] = x)
      sigma == [x \in ToSet(copied) |-> Variable(old(x))]
      free == SetToSeq(ruleVariables(r) \ ToSet(pre))
      c == instantiateC(r.c, sigma)
  IN  [k \in DOMAIN copied |-> Assign(old(copied[k]), Variable(copied[k]))]
        \o [k \in DOMAIN free |-> NonDet(free[k])]
        \o (IF c = true THEN <<>> ELSE <<Assume(c)>>)
        \o [k \in DOMAIN changed |->
              Assign(post[changed[k]], instantiate(r.rhs.args[changed[k]], sigma))]

printT2Rule(r, id, names) ==
  [from |-> id[r.lhs.fun], to |-> id[r.rhs.fun],
   body |-> body(r, names[r.lhs.fun], names[r.rhs.fun])]

printT2System(rules, startFun) ==
  LET id == funToLocId(rules)
      names == funToLhsNames(rules)
  IN  [start |-> id[startFun], id |-> id, names |-> names,
       transitions |-> [i \in DOMAIN rules |-> printT2Rule(rules[i], id, names)]]

-----------------------------------------------------------------------------
(* T2 runs a transition: the values a body may leave the variables with.     *)
(* nondet() is a member of values.                                          *)
Step(envs, s, values) ==
  CASE s.do = "assign" -> {(s.var :> Value(s.poly, e)) @@ e : e \in envs}
    [] s.do = "nondet" -> {(s.var :> v) @@ e : v \in values, e \in envs}
    [] s.do = "assume" -> {e \in envs : Holds(s.c, e)}

Outcomes(env, statements, values) ==
  FoldLeft(LAMBDA envs, s : Step(envs, s, values), {env}, statements)
=============================================================================
