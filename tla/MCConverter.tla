----------------------------- MODULE MCConverter -----------------------------
(***************************************************************************)
(* Functions for TLC: a while loop whose phis are exchanged in every       *)
(* round, a loop of one block, and a branch, with one instruction of every *)
(* kind in two places.  Function 0 is converted, 1 is in its component, 2  *)
(* is another defined function and 3 is only declared.                     *)
(***************************************************************************)
EXTENDS Converter

G == <<"global", 1>>
H == <<"global", 2>>
MCGlobals == {G, H}
MCValue == {0, 1}

X == <<"var", Arg>>
One == <<"const", 1>>
Undef == <<"undef", 0>>

icmp(x) == [op |-> "icmp", x |-> x]
Access(op, a, b, x) == [op |-> op, x |-> x, alias |-> (G :> a) @@ (H :> b)]
CallOf(op, callees, x) == [op |-> op, x |-> x, callees |-> callees]

(* Instructions that read x and the comparison c.                            *)
Pure(x, c) ==
  {[op |-> "arith", x |-> x], [op |-> "nondef"], [op |-> "assume", c |-> c],
   [op |-> "select", c |-> c, x |-> x, y |-> One], [op |-> "select", c |-> c, x |-> Undef, y |-> Undef],
   [op |-> "zext", c |-> c]}
Memory(x) ==
  {Access("load", "Must", "No", x), Access("load", "No", "May", x), Access("load", "Partial", "No", x), Access("load", "Must", "May", x), Access("load", "Must", "Partial", x),
   Access("store", "Must", "No", x), Access("store", "May", "May", x), Access("store", "Must", "May", x),
   Access("store", "No", "No", x)}
Calling(x) ==
  {CallOf("call", <<0>>, x), CallOf("call", <<1, 0>>, Undef), CallOf("call", <<2>>, x), CallOf("call", <<1, 2>>, x),
   CallOf("callvoid", <<1>>, x), CallOf("call", <<3>>, x)}
Few(x, c) ==
  {[op |-> "arith", x |-> x], [op |-> "assume", c |-> c], Access("store", "Must", "No", x), CallOf("call", <<1>>, x)}

(* None or one of the instructions S.                                        *)
AtMost(S) == {<<>>} \cup {<<J>> : J \in S}

Sequence(s) == [b \in 0 .. Len(s) - 1 |-> s[b + 1]]

Shape(succ, code, phis, cond) ==
  [succ |-> Sequence(succ), code |-> Sequence(code), phis |-> Sequence(phis), cond |-> cond,
   unreachable |-> {}, lcbs |-> {1}, scc |-> {0, 1}, declared |-> {3},
   mayZap |-> (0 :> {G}) @@ (1 :> {G}) @@ (2 :> {G, H}) @@ (3 :> {})]

(* while (p > 0) { one; p, q = q, p; }                                       *)
WhileLoops ==
  LET p == <<"var", PhiVar(1, 1)>>  q == <<"var", PhiVar(1, 2)>>  c == <<1, 1>>
  IN  {Shape(<<<<1>>, <<2, 3>>, <<1>>, <<>>>>,
             <<before, <<icmp(p)>> \o inHeader, inBody, <<>>>>,
             <<<<>>, <<(0 :> X) @@ (2 :> q), (0 :> Undef) @@ (2 :> p)>>, <<>>, <<>>>>,
             1 :> c) :
       before \in AtMost({[op |-> "nondef"]}), inHeader \in AtMost(Few(p, c)),
       inBody \in AtMost(Pure(q, c) \cup Memory(q) \cup Calling(q))}

(* do { one; another; } while (p > 0), also with a comparison of floats.      *)
SelfLoops ==
  LET p == <<"var", PhiVar(1, 1)>>  c == <<1, 2>>
  IN  {Shape(<<<<1>>, <<1, 2>>, <<>>>>,
             <<<<>>, <<one, cmp>> \o another, <<>>>>,
             <<<<>>, <<(0 :> X) @@ (1 :> back)>>, <<>>>>,
             1 :> c) :
       one \in {[op |-> "arith", x |-> p], Access("load", "Must", "No", p)},
       cmp \in {icmp(<<"var", Result(<<1, 1>>)>>), icmp(Undef), icmp(One), [op |-> "fcmp"]},
       another \in AtMost(Pure(p, c) \cup Memory(p)), back \in {p, <<"var", Result(<<1, 1>>)>>, Undef}}

(* if (x > 0) { one; } else { another; }, which may end in unreachable.       *)
BranchFunctions ==
  LET c == <<0, 1>>
      base(inThen, inElse) ==
        Shape(<<<<1, 2>>, <<3>>, <<3>>, <<>>>>, <<<<icmp(X)>>, inThen, inElse, <<>>>>,
              <<<<>>, <<>>, <<>>, <<(1 :> X) @@ (2 :> One)>>>>, 0 :> c)
      thens == AtMost(Few(X, c))  elses == AtMost(Memory(X) \cup Calling(X))
  IN  {base(t, e) : t \in thens, e \in elses}
        \cup {[base(t, e) EXCEPT !.unreachable = {2}, !.succ[2] = <<>>] : t \in thens, e \in elses}

MCFunctions == WhileLoops \cup SelfLoops \cup BranchFunctions

Option(multi, loops, points, tuples, propagate) ==
  [onlyMultiPredIsControl |-> multi, onlyLoopConditions |-> loops, assumeIsControl |-> points,
   selectIsControl |-> points, complexityTuples |-> tuples, propagateConditions |-> propagate]

MCOptions ==
  {Option(FALSE, FALSE, FALSE, FALSE, FALSE), Option(TRUE, FALSE, FALSE, FALSE, TRUE),
   Option(TRUE, TRUE, TRUE, FALSE, TRUE), Option(TRUE, FALSE, TRUE, TRUE, TRUE)}
=============================================================================
