------------------------------- MODULE Slicer -------------------------------
(***************************************************************************)
(* Slicer: the six passes that remove from the rules of one function the   *)
(* argument positions, and at the end the constraints and rules, that do   *)
(* not matter.  One action is one pass, in the order main() calls them.    *)
(*                                                                         *)
(* A rule f(lvars) -> g(args) [constraint] keeps of a polynomial only its  *)
(* variables and whether it is just a variable, which is all the passes    *)
(* look at; two polynomials with the same two are taken to be equal.  The  *)
(* constraint is the conjunction of its atoms, as kittelize leaves it.     *)
(* The field id is the rule's place in the input: no pass reads it, the    *)
(* properties use it to compare a rule with the one it was made from.      *)
(***************************************************************************)
EXTENDS Naturals, SequencesExt, FiniteSetsExt

CONSTANTS
  start, stop,                   \* eval_f_start and eval_f_stop of this function
  OtherStarts,                   \* eval_g_start of the functions it calls
  Nondef,                        \* the variables nondef.0, nondef.1, ...
  Systems                        \* the inputs considered

VARIABLES
  sys,                           \* input: [rules, inputs, phis, conservative]
  pass,                          \* the pass that ran last, "exit" or "undefined"
  rules                          \* the rules after it

vars == <<sys, pass, rules>>

-----------------------------------------------------------------------------
(* Terms, rules and constraints.                                            *)

isRecursiveCall(f) == f = start \/ f \in OtherStarts

atomVars(a) == a.left.vars \cup a.right.vars
constraintVars(r) == UNION {atomVars(a) : a \in ToSet(r.atoms)}
rhsVars(r) == UNION {p.vars : p \in ToSet(r.args)}

Drop(s, D) ==
  LET keep == SetToSortSeq(DOMAIN s \ D, <)
  IN  [i \in DOMAIN keep |-> s[keep[i]]]

(* Mutant of dropArgs: the right side loses the arguments one position further *)
(* right.                                                                    *)
dropShiftedArgs(r, D) ==
  [r EXCEPT !.lvars = Drop(@, D),
            !.args = IF isRecursiveCall(r.right) THEN @ ELSE Drop(@, {i + 1 : i \in D})]

(* Rule::dropArgs and the case of a recursive call, which keeps its args.   *)
dropArgs(r, D) ==
  [r EXCEPT !.lvars = Drop(@, D),
            !.args = IF isRecursiveCall(r.right) THEN @ ELSE Drop(@, D)]

MapRules(Op(_), rs) == [i \in DOMAIN rs |-> Op(rs[i])]

(* The inputs and globals are the first positions of the left sides.        *)
Inputs == 1 .. sys.inputs
initial == {sys.rules[1].lvars[i] : i \in Inputs}

Closure(R, nodes) ==
  FoldSet(LAMBDA z, acc :
            acc \cup {<<a, b>> \in nodes \X nodes : <<a, z>> \in acc /\ <<z, b>> \in acc},
          R, nodes)

-----------------------------------------------------------------------------
(* sliceUsage: a position goes if no rule reads its variable elsewhere.     *)

usesAt(r, v, i) ==
  \/ v \in constraintVars(r)
  \/ isRecursiveCall(r.right) /\ v \in rhsVars(r)
  \/ ~isRecursiveCall(r.right) /\ \E k \in DOMAIN r.args : k # i /\ v \in r.args[k].vars

unusedPositions(rs) ==
  {i \in DOMAIN rs[1].lvars :
     i \notin Inputs /\ \A r \in ToSet(rs) : ~usesAt(r, rs[1].lvars[i], i)}

sliceUsage ==
  /\ pass = "input"
  /\ pass' = "usage"
  /\ rules' = MapRules(LAMBDA r : dropArgs(r, unusedPositions(rules)), rules)
  /\ UNCHANGED sys

-----------------------------------------------------------------------------
(* sliceConstraint: a position goes if no constraint and no recursive call   *)
(* depends on its variable.                                                  *)

controlVars(rs) ==
  UNION {constraintVars(r) \cup (IF isRecursiveCall(r.right) THEN rhsVars(r) ELSE {}) :
         r \in ToSet(rs)} \ Nondef

(* Mutant of depends: the nondefs are not left out.                           *)
dependsOnAny(rs) ==
  UNION {UNION {{<<r.lvars[i], w>> : w \in r.args[i].vars} : i \in DOMAIN r.lvars} :
         r \in {q \in ToSet(rs) : ~isRecursiveCall(q.right)}}

(* v depends on w if a rule assigns v a polynomial with w in it.             *)
depends(rs) ==
  UNION {UNION {{<<r.lvars[i], w>> : w \in r.args[i].vars \ Nondef} : i \in DOMAIN r.lvars} :
         r \in {q \in ToSet(rs) : ~isRecursiveCall(q.right)}}

irrelevantPositions(rs) ==
  LET vs == ToSet(rs[1].lvars)
      dep == Closure(depends(rs), vs)
  IN  {i \in DOMAIN rs[1].lvars :
         i \notin Inputs /\ \A v \in controlVars(rs) : <<v, rs[1].lvars[i]>> \notin dep}

(* getIdxVar ends the program for a variable that no left side has.          *)
variablesIndexed(rs) ==
  controlVars(rs) \cup {d[2] : d \in depends(rs)} \subseteq ToSet(rs[1].lvars)

sliceConstraint ==
  /\ pass = "usage"
  /\ LET indexed == variablesIndexed(rules)
     IN  /\ pass' = IF indexed THEN "constraint" ELSE "exit"
         /\ rules' = IF indexed
                     THEN MapRules(LAMBDA r : dropArgs(r, irrelevantPositions(rules)), rules)
                     ELSE rules
  /\ UNCHANGED sys

-----------------------------------------------------------------------------
(* The breadth-first searches over the symbols, from start.  A symbol may be *)
(* queued several times; an edge of "preceeds" leads to a symbol that was    *)
(* not visited yet, an edge of "calls" to any.                               *)

successors(rs, f) ==
  LET out == SelectSeq(rs, LAMBDA r : r.left = f)
  IN  [i \in DOMAIN out |-> out[i].right]

RECURSIVE Search(_, _, _)
Search(rs, todo, found) ==
  IF todo = <<>> THEN found
  ELSE LET v == Head(todo)
           visited == found.visited \cup {v}
           succs == successors(rs, v)
           new == SelectSeq(succs, LAMBDA c : c \notin visited)
       IN  Search(rs, Tail(todo) \o new,
                  [visited |-> visited,
                   preceeds |-> found.preceeds \cup {<<v, c>> : c \in ToSet(new)},
                   calls |-> found.calls \cup {<<v, c>> : c \in ToSet(succs)}])

searched(rs) == Search(rs, <<start>>, [visited |-> {}, preceeds |-> {}, calls |-> {}])

reachableRules(rs) ==
  LET reachableFuns == searched(rs).visited
  IN  SelectSeq(rs, LAMBDA r : r.left \in reachableFuns)

-----------------------------------------------------------------------------
(* sliceDefined: a symbol keeps the positions of the variables that it, or a *)
(* symbol that precedes it, defines.                                         *)

defs(r) ==
  {r.lvars[i] : i \in {k \in DOMAIN r.lvars :
                         ~(r.args[k].isVar /\ r.args[k].vars = {r.lvars[k]})}}

(* m_defined: only the first rule into a symbol counts.                      *)
defined(rs) ==
  LET into(g) == {i \in DOMAIN rs : rs[i].right = g}
      targets == {f \in {r.right : r \in ToSet(rs)} : ~isRecursiveCall(f)}
  IN  [f \in targets \cup {start} |->
         IF f = start THEN initial ELSE defs(rs[Min(into(f))])]

knownVars(rs) ==
  LET def == defined(rs)
      search == searched(rs)
      before == Closure(search.preceeds, search.visited)
  IN  [f \in DOMAIN def |->
         def[f] \cup UNION {def[g] : g \in {h \in DOMAIN def : <<h, f>> \in before}}]

sliceDefinedRules(rs) ==
  LET vs == rs[1].lvars
      known == knownVars(rs)
      unknown(f) == {i \in DOMAIN vs : vs[i] \notin known[f]}
      right(r) == CASE r.right = stop -> <<>>
                    [] isRecursiveCall(r.right) -> r.args
                    [] OTHER -> Drop(r.args, unknown(r.right))
  IN  MapRules(LAMBDA r : [r EXCEPT !.lvars = Drop(@, unknown(r.left)), !.args = right(r)], rs)

sliceDefined ==
  /\ pass = "constraint"
  /\ pass' = "defined"
  /\ LET rs == reachableRules(rules)
     IN  rules' = IF rs = <<>> THEN rs ELSE sliceDefinedRules(rs)
  /\ UNCHANGED sys

-----------------------------------------------------------------------------
(* sliceStillUsed: a symbol keeps the positions of the variables that a rule *)
(* of it, or of a symbol it leads to, reads for more than passing them on.   *)

(* Mutant of passesOn: any variable counts as passed on.                      *)
passesSome(r, i) ==
  /\ i \in DOMAIN r.lvars
  /\ r.args[i].isVar
  /\ ~(sys.conservative /\ r.lvars[i] \in sys.phis)

passesOn(r, i) ==
  /\ i \in DOMAIN r.lvars
  /\ r.args[i].isVar
  /\ r.args[i].vars = {r.lvars[i]}
  /\ ~(sys.conservative /\ r.lvars[i] \in sys.phis)

interestingVars(r) ==
  IF isRecursiveCall(r.right) THEN rhsVars(r)
  ELSE UNION {r.args[i].vars : i \in {k \in DOMAIN r.args : ~passesOn(r, k)}}

usedBy(r) == ToSet(r.lvars) \cap (constraintVars(r) \cup interestingVars(r))

(* m_stillUsed                                                              *)
directlyUsed(rs) ==
  [f \in {r.left : r \in ToSet(rs)} \cup {start, stop} |->
     (IF f = start THEN initial ELSE {})
       \cup UNION {usedBy(r) : r \in {q \in ToSet(rs) : q.left = f}}]

(* The symbols whose entry getStillUsed(f) reads.                            *)
readBy(rs, f) ==
  LET search == searched(rs)
      after == Closure(search.calls, search.visited)
  IN  {f} \cup {g \in search.visited : <<f, g>> \in after /\ ~isRecursiveCall(g)}

getStillUsed(rs, f) == UNION {directlyUsed(rs)[g] : g \in readBy(rs, f)}

(* The symbols getStillUsed is called for: all left sides, and the right     *)
(* sides without rules of their own, a start symbol only from its second     *)
(* call on.                                                                  *)
lookedUp(rs) ==
  LET lefts == {r.left : r \in ToSet(rs)}
      calls(f) == {i \in DOMAIN rs : rs[i].right = f}
      rights == {r.right : r \in ToSet(rs)} \ lefts
  IN  lefts \cup {f \in rights : isRecursiveCall(f) => Cardinality(calls(f)) > 1}

(* A look-up of a symbol without an entry dereferences m_stillUsed.end().    *)
lookupsDefined(rs) ==
  \A f \in lookedUp(rs) : readBy(rs, f) \subseteq DOMAIN directlyUsed(rs)

sliceStillUsedRules(rs) ==
  LET lvarsOf(f) == rs[Min({i \in DOMAIN rs : rs[i].left = f})].lvars
      lefts == {r.left : r \in ToSet(rs)}
      still == [f \in lefts |-> getStillUsed(rs, f)]
      notneeded(f) == IF f \in lefts
                      THEN {i \in DOMAIN lvarsOf(f) : lvarsOf(f)[i] \notin still[f]}
                      ELSE {}
  IN  MapRules(LAMBDA r : [r EXCEPT !.lvars = Drop(@, notneeded(r.left)),
                                    !.args = Drop(@, notneeded(r.right))], rs)

sliceStillUsed ==
  /\ pass = "defined"
  /\ LET rs == reachableRules(rules)
         found == lookupsDefined(rs)
     IN  /\ pass' = IF found THEN "stillUsed" ELSE "undefined"
         /\ rules' = CASE ~found -> rules
                       [] found /\ rs = <<>> -> rs
                       [] OTHER -> sliceStillUsedRules(rs)
  /\ UNCHANGED sys

-----------------------------------------------------------------------------
(* sliceTrivialNondefConstraints: an atom with a nondef alone on one side    *)
(* goes if the nondef occurs nowhere else in the rule.                       *)

onlyIn(r, n, i) ==
  /\ n \notin rhsVars(r)
  /\ \A k \in DOMAIN r.atoms : n \in atomVars(r.atoms[k]) <=> k = i

(* Mutant of trivialAtom: any variable will do.                               *)
trivialAtomOfAny(r, i) ==
  \E n \in atomVars(r.atoms[i]) :
     /\ onlyIn(r, n, i)
     /\ \E p \in {r.atoms[i].left, r.atoms[i].right} : p.isVar /\ n \in p.vars

trivialAtom(r, i) ==
  \E n \in Nondef : /\ onlyIn(r, n, i)
                    /\ \E p \in {r.atoms[i].left, r.atoms[i].right} : p.isVar /\ n \in p.vars

sliceTrivialNondefConstraints ==
  /\ pass = "stillUsed"
  /\ pass' = "trivial"
  /\ rules' = MapRules(LAMBDA r :
                [r EXCEPT !.atoms = Drop(@, {i \in DOMAIN @ : trivialAtom(r, i)})], rules)
  /\ UNCHANGED sys

-----------------------------------------------------------------------------
(* sliceDuplicates: the first of several equal rules stays.                  *)

(* Mutant of equals: the symbol on the right is not compared.                 *)
equalsButRight(r, q) ==
  r.left = q.left /\ r.lvars = q.lvars /\ r.args = q.args /\ r.atoms = q.atoms

equals(r, q) ==
  /\ r.left = q.left /\ r.lvars = q.lvars
  /\ r.right = q.right /\ r.args = q.args
  /\ r.atoms = q.atoms

sliceDuplicates ==
  /\ pass = "trivial"
  /\ pass' = "done"
  /\ rules' = Drop(rules, {i \in DOMAIN rules :
                             \E k \in 1 .. i - 1 : equals(rules[i], rules[k])})
  /\ UNCHANGED sys

-----------------------------------------------------------------------------
Init ==
  /\ sys \in Systems
  /\ pass = "input"
  /\ rules = sys.rules

Next ==
  \/ sliceUsage
  \/ sliceConstraint
  \/ sliceDefined
  \/ sliceStillUsed
  \/ sliceTrivialNondefConstraints
  \/ sliceDuplicates

Spec == Init /\ [][Next]_vars

-----------------------------------------------------------------------------
(* Properties.                                                              *)

sliced == pass \notin {"exit", "undefined"}

(* Left and right sides of all rules lose the same positions: the rules of a  *)
(* symbol have the same left side, every rule that leads to it has as many   *)
(* arguments, and every argument is the value the original rule gives to the *)
(* variable at that position of the target.  For the calls of the function   *)
(* itself the number is right once sliceDefined has cut its left side down   *)
(* to the inputs, which is all that a call passes.                           *)
ArityConsistent(r, q) ==
  /\ r.left = q.left => r.lvars = q.lvars
  /\ r.right = q.right => Len(r.args) = Len(q.args)
  /\ r.right = q.left =>
       \/ Len(r.args) = Len(q.lvars)
       \/ isRecursiveCall(r.right) /\ pass \in {"input", "usage", "constraint"}
PositionsAligned ==
  sliced =>
    \A r, q \in ToSet(rules) :
      /\ ArityConsistent(r, q)
      /\ r.right = q.left /\ ~isRecursiveCall(r.right) =>
           \A k \in DOMAIN q.lvars :
             LET original == sys.rules[r.id]
             IN  r.args[k] = original.args[SelectInSeq(original.lvars, LAMBDA v : v = q.lvars[k])]

(* No rule reads a variable that its left side has lost: otherwise the        *)
(* variable could take any value, and the sliced system would have runs that *)
(* the program does not have.                                                *)
NoFreeVariables ==
  sliced => \A r \in ToSet(rules) :
              (constraintVars(r) \cup rhsVars(r)) \ Nondef \subseteq ToSet(r.lvars)

(* The passes only remove what no run of the rules can use: after the last    *)
(* one there is a rule for every transition of a reachable symbol, between   *)
(* the same symbols.                                                         *)
TransitionsKept ==
  pass = "done" =>
    {<<r.left, r.right>> : r \in ToSet(rules)} =
    {<<r.left, r.right>> : r \in ToSet(reachableRules(sys.rules))}

(* A constraint is only weakened by atoms over nondefs that are used nowhere: *)
(* every atom over the program's variables alone survives in its rule.       *)
ConstraintsKept ==
  sliced =>
    \A r \in ToSet(rules) : \A a \in ToSet(sys.rules[r.id].atoms) :
      atomVars(a) \cap Nondef = {} => a \in ToSet(r.atoms)

(* getIdxVar finds every variable: no exit(123).                             *)
VariablesFound == pass # "exit"

(* The comment in sliceStillUsed: of the start symbol of another function it  *)
(* has to "keep everything", and go on.                                      *)
RecursiveCallsKept == pass # "undefined"
=============================================================================
