------------------------------ MODULE MCSlicer ------------------------------
(***************************************************************************)
(* Rule systems for TLC.  Each is what the converter makes of a small      *)
(* function in SSA form with one input x (or x and a global), a phi p and  *)
(* an instruction q, with the blocks in the order of BasicBlockSorter:     *)
(* a loop, a loop that calls, and a branch that joins again.               *)
(***************************************************************************)
EXTENDS Slicer

Const == [vars |-> {}, isVar |-> FALSE]
Var(v) == [vars |-> {v}, isVar |-> TRUE]
Expr(V) == [vars |-> V, isVar |-> FALSE]

Args(p, q) == <<Var("x"), p, q>>
Same == Args(Var("p"), Var("q"))
Atoms(V) ==
  LET left == [vars |-> V, isVar |-> Cardinality(V) = 1]
  IN  IF V = {} THEN <<>> ELSE <<[left |-> left, right |-> Const]>>

Rule(f, args, g, atoms) ==
  [left |-> f, lvars |-> <<"x", "p", "q">>, right |-> g, args |-> args, atoms |-> atoms]

Numbered(rs) == [i \in DOMAIN rs |-> rs[i] @@ [id |-> i]]

System(rs, phis, conservative) ==
  [rules |-> Numbered(rs), inputs |-> 1, phis |-> phis, conservative |-> conservative]

-----------------------------------------------------------------------------
(* The converter's input is in SSA form: a variable is assigned on every     *)
(* path to a rule that reads it.                                             *)
Assigns(r, i) == r.args[i] # Var(r.lvars[i])

ReadVars(r) ==
  ((constraintVars(r) \cup
    UNION {r.args[i].vars : i \in {k \in DOMAIN r.args :
                                    isRecursiveCall(r.right) \/ Assigns(r, k)}}) \ Nondef)

Unassigned(rs, i) ==
  LET keep == SelectSeq(rs, LAMBDA r : isRecursiveCall(r.right) \/ ~Assigns(r, i))
  IN  searched(keep).visited

IsSSA(rs) ==
  \A r \in ToSet(rs) : \A i \in DOMAIN r.lvars \ {1} :
    r.lvars[i] \in ReadVars(r) => r.left \notin Unassigned(rs, i)

-----------------------------------------------------------------------------
(* while (c1) { if (c2) continue; } return, with q computed in the header or  *)
(* in the body.                                                              *)
PhiEntry == {Const, Var("x"), Var("nondef.0")}
PhiLatch == {Var("p"), Var("q"), Expr({"p"}), Expr({"p", "x"}), Var("nondef.0")}
Instr == {Expr({"p"}), Var("x"), Expr({"p", "x"}), Var("nondef.1")}
Guards == {{}, {"p"}, {"nondef.2"}, {"p", "nondef.2"}}

Loop(e, l, inHead, q, c, d) ==
  LET unchanged == Var("q")
      head == IF inHead THEN q ELSE unchanged
      body == IF inHead THEN unchanged ELSE q
  IN  <<Rule(start, Args(e, unchanged), "h", <<>>),
        Rule("h", Args(Var("p"), head), "b", Atoms(c)),
        Rule("h", Args(Var("p"), head), stop, Atoms(c)),
        Rule("b", Args(l, body), "h", Atoms(d))>>

Loops == {Loop(e, l, inHead, q, c, d) :
            e \in PhiEntry, l \in PhiLatch, inHead \in BOOLEAN, q \in Instr,
            c \in Guards, d \in {{}, {"q"}, {"p", "x"}}}

(* The same with a call in the body, of the function itself or of another.   *)
WithCall(rs, g, a) == Append(rs, Rule("b", <<a>>, g, <<>>))

Calls == {<<start, Var("q")>>, <<start, Expr({"p"})>>, <<start, Var("nondef.0")>>}
           \cup {<<g, Expr({"p", "x"})>> : g \in OtherStarts}

CallLoops == {WithCall(Loop(e, l, inHead, q, c, {}), g[1], g[2]) :
                e \in PhiEntry, l \in PhiLatch, inHead \in BOOLEAN,
                q \in {Expr({"p"}), Var("nondef.1")}, c \in {{}, {"p"}}, g \in Calls}

(* A branch on c that joins in a block with the phi p, after which d is read. *)
Join(q, l, r, c, d) ==
  <<Rule(start, Args(Var("p"), Var("q")), "a", <<>>),
    Rule("a", Args(Var("p"), q), "b", Atoms(c)),
    Rule("a", Args(Var("p"), q), "c", Atoms(c)),
    Rule("b", Args(l, Var("q")), "m", <<>>),
    Rule("c", Args(r, Var("q")), "m", <<>>),
    Rule("m", Same, "a2", Atoms(d)),
    Rule("a2", Same, stop, <<>>)>>

Joins == {Join(q, l, r, c, d) :
            q \in {Const, Var("x"), Expr({"x"}), Var("nondef.0")},
            l \in {Const, Var("q"), Var("nondef.1")}, r \in {Var("x"), Expr({"q", "x"})},
            c \in {{}, {"x"}}, d \in {{}, {"p"}, {"q"}, {"p", "q"}}}

WellFormed(Family, conservatives) ==
  {System(rs, {"p"}, b) : rs \in {s \in Family : IsSSA(s)}, b \in conservatives}

MCSystems == WellFormed(Loops \cup CallLoops \cup Joins, BOOLEAN)

-----------------------------------------------------------------------------
(* Two calls of another function of the same component.                      *)
TwoCallSystems ==
  {System(WithCall(WithCall(s, g, Var("x")), g, Expr({"p"})), {"p"}, FALSE) :
     s \in {t \in Loops : IsSSA(t)}, g \in OtherStarts}
=============================================================================
