----------------------------- MODULE LoopProgram -----------------------------
(***************************************************************************)
(* Functions with nested loops as the Hoister sees them, what LLVM knows   *)
(* of them (dominators, loops, alias sets), and what a block does when it  *)
(* runs.  An instruction has a name, which is its value; an operand is the *)
(* name of an instruction, of an argument or of a constant.  A pointer is  *)
(* the set of locations it may point to.                                   *)
(***************************************************************************)
EXTENDS Integers, SequencesExt, FiniteSetsExt

CONSTANTS
  Graphs,                        \* control flow graphs: block -> successors, 0 is the entry
  Callees,                       \* functions: [declared, attr, body]
  Location, ConstantLocation,    \* places in memory, those that never change
  Arguments                      \* the arguments of the function, and constant operands

Value == {0, 1}

ASSUME MemoryAssumption == ConstantLocation \subseteq Location

-----------------------------------------------------------------------------
(* Dominators and loops.                                                    *)
Blocks(g) == DOMAIN g
NoBlock == -1

(* A block is a number; nothing leads to the entry block.                    *)
ASSUME GraphsAssumption ==
  \A g \in Graphs :
    /\ 0 \in Blocks(g) /\ Blocks(g) \subseteq Nat
    /\ \A b \in Blocks(g) : ToSet(g[b]) \subseteq Blocks(g) \ {0}

ReachedWithout(g, a) ==          \* blocks that the entry reaches without a
  {b \in Blocks(g) : \A U \in SUBSET Blocks(g) :
     0 \in U \cup {a} /\ (\A u \in U : ToSet(g[u]) \ {a} \subseteq U) => b \in U}
Reachable(g) == ReachedWithout(g, NoBlock)

dominated == [g \in Graphs |-> [a \in Blocks(g) |-> {a} \cup (Blocks(g) \ ReachedWithout(g, a))]]
Dominates(g, a, b) == b \in dominated[g][a]

(* DomTreeNode::getChildren                                                 *)
getChildren(g, a) ==
  {b \in Blocks(g) \ {a} :
     /\ Dominates(g, a, b)
     /\ \A c \in Blocks(g) \ {b} : Dominates(g, c, b) => Dominates(g, c, a)}

Preds(g, b) == {p \in Blocks(g) : b \in ToSet(g[p])}
Latches(g, h) == {l \in Preds(g, h) \cap Reachable(g) : Dominates(g, h, l)}

(* A loop is its header; its blocks reach a latch without the header.        *)
NaturalLoop(g, h) ==
  LET start == {h} \cup Latches(g, h)
      reachable == Reachable(g)
  IN  {b \in Blocks(g) : \A U \in SUBSET Blocks(g) :
         /\ start \subseteq U
         /\ \A u \in U \ {h} : Preds(g, u) \cap reachable \subseteq U
         => b \in U}

bodies == [g \in Graphs |->
             [h \in {b \in Blocks(g) : Latches(g, b) # {}} |-> NaturalLoop(g, h)]]
Body(g, l) == bodies[g][l]
Loops(g) == DOMAIN bodies[g]
contains(g, l, b) == b \in Body(g, l)
subloops(g, l) == {k \in Loops(g) \ {l} : contains(g, l, k)}

(* Loop::getLoopPreheader: the only way into the loop, which leads nowhere else. *)
IsPreheader(g, l, p) ==
  {q \in Preds(g, l) : ~contains(g, l, q)} = {p} /\ ToSet(g[p]) = {l}
getLoopPreheader(g, l) ==
  IF \E p \in Blocks(g) : IsPreheader(g, l, p)
  THEN CHOOSE p \in Blocks(g) : IsPreheader(g, l, p) ELSE NoBlock

-----------------------------------------------------------------------------
(* Memory: what an instruction may access, and LLVM's AliasSetTracker.       *)
isDeclaration(f) == Callees[f].declared
Behavior(f) == Callees[f].attr   \* "readnone", "readonly" or "none"

Accesses(I) ==
  CASE I.op = "load" -> {[at |-> I.ptr, mod |-> FALSE]}
    [] I.op = "store" -> {[at |-> I.ptr, mod |-> TRUE]}
    [] I.op = "call" /\ Behavior(I.callee) # "readnone" ->
         {[at |-> Location, mod |-> Behavior(I.callee) = "none"]}
    [] OTHER -> {}

(* Accesses that may overlap are in one alias set, directly or by a third.   *)
AliasSet(ast, ptr) ==
  LET Grow(P, x) == P \cup UNION {a.at : a \in {b \in ast : b.at \cap P # {}}}
      places == FoldSet(LAMBDA x, P : Grow(P, x), ptr, Location)
  IN  {a \in ast : a.at \cap places # {}}
isMod(accesses) == \E a \in accesses : a.mod

-----------------------------------------------------------------------------
(* The run.  What a call may do follows from the bodies it reaches; the       *)
(* choice c gives the values that are anybody's guess.                       *)
Calls(f) == {i.callee : i \in {j \in ToSet(Callees[f].body) : j.op = "call"}}
MayEnter(f) ==
  LET Grow(U, x) == U \cup UNION {Calls(u) : u \in U}
  IN  FoldSet(LAMBDA x, U : Grow(U, x), {f}, DOMAIN Callees)
Recursive(f) == \E h \in MayEnter(f) : h \in UNION {MayEnter(k) : k \in Calls(h)}
Does(f, op) == \E h \in MayEnter(f) : \E i \in ToSet(Callees[h].body) : i.op = op
Unknown(f) == \E h \in MayEnter(f) : isDeclaration(h) /\ Behavior(h) = "none"

(* Where a pointer that may point to several places points in this run.       *)
Accessed(I, points) == IF points \in I.ptr THEN points ELSE CHOOSE l \in I.ptr : TRUE

Result(I, s, points, c) ==
  LET x(k) == s.env[I.args[k]]
      anything == c[I.id]
  IN  CASE I.op = "phi" -> x(IF s.from = I.latch THEN 2 ELSE 1)
        [] I.op = "div" -> x(1)
        [] I.op = "and" -> x(1) * x(2)
        [] I.op = "add" -> (x(1) + x(2)) % 2
        [] I.op = "not" -> 1 - x(1)
        [] I.op = "icmp" -> IF x(1) = x(2) THEN 1 ELSE 0
        [] I.op = "load" -> IF I.volatile THEN anything ELSE s.mem[Accessed(I, points)]
        [] I.op = "store" -> x(1)
        [] I.op = "call" ->
             IF Unknown(I.callee) THEN anything
             ELSE IF Behavior(I.callee) = "readonly" \/ Does(I.callee, "load")
             THEN s.mem[CHOOSE l \in Location \ ConstantLocation : TRUE]
             ELSE 1 - x(1)

Writes(I, points) ==
  CASE I.op = "store" -> {Accessed(I, points)}
    [] I.op = "call" /\ (Unknown(I.callee) \/ Does(I.callee, "store")) -> Location \ ConstantLocation
    [] OTHER -> {}

(* One instruction; a division by zero has no next state.                    *)
Step(s, I, points, c) ==
  LET r == Result(I, s, points, c)
  IN  IF ~s.ok \/ (I.op = "div" /\ s.env[I.args[2]] = 0)
      THEN [s EXCEPT !.ok = FALSE]
      ELSE [s EXCEPT !.env[I.id] = r,
                     !.mem = [l \in Location |-> IF l \in Writes(I, points) THEN r ELSE @[l]]]

RunBlock(instructions, s, points, c) ==
  FoldLeft(LAMBDA t, I : Step(t, I, points, c), s, instructions)
=============================================================================
