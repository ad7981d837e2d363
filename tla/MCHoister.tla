------------------------------ MODULE MCHoister ------------------------------
(***************************************************************************)
(* Functions for TLC: four nests of loops; a value that changes in the     *)
(* loop; and two more instructions in any two blocks, of which the second  *)
(* may use the first.                                                      *)
(***************************************************************************)
EXTENDS Hoister

(* A loop with a branch in it, and a block nothing leads to; a loop in a      *)
(* loop; a loop with two ways in; two loops in a loop, the second without a  *)
(* preheader.                                                               *)
Graph(succ) == [b \in 0 .. Len(succ) - 1 |-> succ[b + 1]]
Branching == Graph(<<<<1>>, <<2, 5>>, <<3, 4>>, <<4>>, <<1>>, <<>>, <<4, 5>> >>)
Nested == Graph(<<<<1>>, <<2, 5>>, <<3>>, <<3, 4>>, <<1>>, <<>> >>)
TwoEntries == Graph(<<<<1, 2>>, <<2>>, <<2, 3>>, <<>> >>)
Sequence == Graph(<<<<1>>, <<2>>, <<2, 3>>, <<3, 4>>, <<1, 5>>, <<>> >>)
MCGraphs == {Branching, Nested, TwoEntries, Sequence}

MCArguments == {"a", "b"}
MCLocation == {"g", "h", "k"}
MCConstant == {"k"}

Function(body) == [declared |-> FALSE, attr |-> "none", body |-> body]
External(attr) == [declared |-> TRUE, attr |-> attr, body |-> <<>>]
To(f) == [op |-> "call", callee |-> f]
MCCallees ==
  [pure |-> Function(<<>>), reads |-> Function(<<[op |-> "load"]>>),
   sets |-> Function(<<[op |-> "store"]>>), wraps |-> Function(<<To("pure"), To("pure")>>),
   deep |-> Function(<<To("wraps"), To("reads")>>), loops |-> Function(<<To("loops")>>),
   external |-> External("none"), readonly |-> External("readonly"),
   readnone |-> External("readnone")]

Plain(op, args) ==
  [op |-> op, args |-> args, ptr |-> {}, volatile |-> FALSE, callee |-> "", latch |-> -1]
Load(ptr) == [Plain("load", <<>>) EXCEPT !.ptr = ptr]
Store(ptr, x) == [Plain("store", <<x>>) EXCEPT !.ptr = ptr]
CallOf(f, x) == [Plain("call", <<x>>) EXCEPT !.callee = f]

First ==
  {Plain("and", <<"a", "b">>), Plain("and", <<"i", "b">>), Plain("div", <<"a", "b">>),
   Plain("add", <<"a", "b">>),
   [Load({"g"}) EXCEPT !.volatile = TRUE], Load({"g", "h"}), Load({"k"}),
   Store({"g"}, "i"), Store({"h"}, "i"), Store({"g", "h"}, "a")}
  \cup {CallOf(f, "a") : f \in DOMAIN MCCallees}
Second ==
  {Load({"g"}), Load({"h", "k"}), Plain("and", <<"u", "b">>),
   Plain("div", <<"u", "b">>)}
  \cup {Store({"g"}, "i"), CallOf("readonly", "u")}

Named(I, n) == [x \in DOMAIN I \cup {"id"} |-> IF x = "id" THEN n ELSE I[x]]

(* The value that changes: i = phi(a, not i) in the header of the outermost loop. *)
Outermost(g) == IF g = TwoEntries THEN 2 ELSE 1
Base(g) ==
  LET h == Outermost(g)
      latch == CHOOSE l \in Latches(g, h) : TRUE
  IN  [b \in Blocks(g) |->
         IF b = h THEN <<Named([Plain("phi", <<"a", "n">>) EXCEPT !.latch = latch], "i"),
                         Named(Plain("not", <<"i">>), "n")>>
         ELSE <<>>]

MCPrograms ==
  {[graph |-> g, code |-> [b \in Blocks(g) |->
      Base(g)[b] \o (IF b = p THEN <<Named(u, "u")>> ELSE <<>>)
                 \o (IF b = q THEN <<Named(v, "v")>> ELSE <<>>)]] :
     <<g, p, q, u, v>> \in
       {<<g, p, q, u, v>> \in MCGraphs \X (1 .. 4) \X (1 .. 4) \X First \X Second :
          {p, q} \subseteq Blocks(g) /\ Dominates(g, p, q) /\ Dominates(g, Outermost(g), p)}}
=============================================================================
