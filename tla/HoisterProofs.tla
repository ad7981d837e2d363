---------------------------- MODULE HoisterProofs ----------------------------
(***************************************************************************)
(* Proofs about the Hoister, for every control flow graph and every        *)
(* function in which values are defined before they are used: what the     *)
(* pass moves in front of a loop is still defined before it is used.       *)
(***************************************************************************)
EXTENDS Hoister, SequenceTheorems, TLAPS

-----------------------------------------------------------------------------
(* Reachability and dominators.                                             *)

LEMMA GraphFacts ==
  ASSUME NEW g \in Graphs
  PROVE  /\ 0 \in Blocks(g) /\ NoBlock \notin Blocks(g) /\ NoBlock # 0
         /\ \A b \in Blocks(g) : ToSet(g[b]) \subseteq Blocks(g) \ {0}
BY GraphsAssumption DEF NoBlock

(* The blocks that are reached are the least set with the entry block that    *)
(* leads to a only.                                                         *)
LEMMA ReachedLeast ==
  ASSUME NEW g \in Graphs, NEW a, NEW U \in SUBSET Blocks(g), a = 0 \/ 0 \in U,
         \A u \in U : ToSet(g[u]) \ {a} \subseteq U
  PROVE  ReachedWithout(g, a) \subseteq U
BY DEF ReachedWithout

LEMMA ReachedOn ==
  ASSUME NEW g \in Graphs, NEW a, NEW u \in ReachedWithout(g, a), NEW v \in ToSet(g[u]), v # a
  PROVE  v \in ReachedWithout(g, a)
<1>1. u \in Blocks(g)
  BY DEF ReachedWithout
<1>2. v \in Blocks(g)
  BY <1>1, GraphFacts
<1>3. ASSUME NEW U \in SUBSET Blocks(g), 0 \in U \cup {a},
             \A w \in U : ToSet(g[w]) \ {a} \subseteq U
      PROVE  v \in U
  <2>1. u \in U
    BY <1>3 DEF ReachedWithout
  <2> QED
    BY <1>3, <2>1
<1> QED
  BY <1>2, <1>3 DEF ReachedWithout

LEMMA ReachedFacts ==
  ASSUME NEW g \in Graphs, NEW a
  PROVE  /\ ReachedWithout(g, a) \subseteq Blocks(g)
         /\ a # 0 => 0 \in ReachedWithout(g, a)
         /\ a \notin ReachedWithout(g, a)
         /\ ReachedWithout(g, a) \subseteq Reachable(g)
<1>1. ReachedWithout(g, a) \subseteq Blocks(g)
  BY DEF ReachedWithout
<1>2. a # 0 => 0 \in ReachedWithout(g, a)
  BY GraphFacts DEF ReachedWithout
<1>3. a \notin ReachedWithout(g, a)
  <2> DEFINE U == Blocks(g) \ {a}
  <2>1. \A u \in U : ToSet(g[u]) \ {a} \subseteq U
    BY GraphFacts
  <2>2. a = 0 \/ 0 \in U
    BY GraphFacts
  <2>3. ReachedWithout(g, a) \subseteq U
    BY <2>1, <2>2, ReachedLeast
  <2> QED
    BY <2>3
<1>4. ReachedWithout(g, a) \subseteq Reachable(g)
  <2>1. 0 \in Reachable(g) /\ Reachable(g) \subseteq Blocks(g)
    BY GraphFacts DEF Reachable, ReachedWithout
  <2>2. \A u \in Reachable(g) : ToSet(g[u]) \subseteq Reachable(g)
    <3> SUFFICES ASSUME NEW u \in Reachable(g), NEW v \in ToSet(g[u]) PROVE v \in Reachable(g)
      OBVIOUS
    <3>1. v # NoBlock
      BY <2>1, GraphFacts
    <3> QED
      BY <3>1, ReachedOn DEF Reachable
  <2> QED
    BY <2>1, <2>2, ReachedLeast
<1> QED
  BY <1>1, <1>2, <1>3, <1>4

LEMMA ReachableFacts ==
  ASSUME NEW g \in Graphs
  PROVE  /\ Reachable(g) \subseteq Blocks(g) /\ 0 \in Reachable(g)
         /\ \A u \in Reachable(g) : ToSet(g[u]) \subseteq Reachable(g)
         /\ \A U \in SUBSET Blocks(g) :
              0 \in U /\ (\A u \in U : ToSet(g[u]) \subseteq U) => Reachable(g) \subseteq U
<1>1. Reachable(g) \subseteq Blocks(g) /\ 0 \in Reachable(g)
  BY ReachedFacts, GraphFacts DEF Reachable
<1>2. ASSUME NEW u \in Reachable(g), NEW v \in ToSet(g[u])
      PROVE  v \in Reachable(g)
  <2>1. v # NoBlock
    BY <1>1, GraphFacts
  <2> QED
    BY <2>1, ReachedOn DEF Reachable
<1>3. ASSUME NEW U \in SUBSET Blocks(g), 0 \in U, \A u \in U : ToSet(g[u]) \subseteq U
      PROVE  Reachable(g) \subseteq U
  BY <1>3, ReachedLeast DEF Reachable
<1> QED
  BY <1>1, <1>2, <1>3

LEMMA DominatesFacts ==
  ASSUME NEW g \in Graphs, NEW a \in Blocks(g), NEW b \in Blocks(g)
  PROVE  Dominates(g, a, b) <=> a = b \/ b \notin ReachedWithout(g, a)
BY DEF Dominates, dominated

(* Only the entry block dominates the entry block.                          *)
LEMMA EntryDominated ==
  ASSUME NEW g \in Graphs, NEW a \in Blocks(g), Dominates(g, a, 0)
  PROVE  a = 0
BY GraphFacts, DominatesFacts, ReachedFacts

LEMMA DominatesTransitive ==
  ASSUME NEW g \in Graphs, NEW a \in Blocks(g), NEW b \in Blocks(g), NEW c \in Blocks(g),
         Dominates(g, a, b), Dominates(g, b, c)
  PROVE  Dominates(g, a, c)
<1> SUFFICES ASSUME a # b, b # c, a # c, c \in ReachedWithout(g, a) PROVE FALSE
  BY DominatesFacts
<1>1. b \notin ReachedWithout(g, a) /\ c \notin ReachedWithout(g, b)
  BY DominatesFacts
<1> DEFINE U == ReachedWithout(g, a) \cap ReachedWithout(g, b)
<1>2. U \in SUBSET Blocks(g)
  BY ReachedFacts
<1>3. a = 0 \/ 0 \in U
  <2>1. b = 0 => a = 0
    BY EntryDominated
  <2> QED
    BY <2>1, ReachedFacts
<1>4. \A u \in U : ToSet(g[u]) \ {a} \subseteq U
  BY <1>1, ReachedOn
<1>5. c \notin U
  BY <1>1
<1> HIDE DEF U
<1>6. ReachedWithout(g, a) \subseteq U
  BY <1>2, <1>3, <1>4, ReachedLeast
<1> QED
  BY <1>5, <1>6

LEMMA DominatesAntisymmetric ==
  ASSUME NEW g \in Graphs, NEW a \in Blocks(g), NEW b \in Reachable(g),
         Dominates(g, a, b), Dominates(g, b, a)
  PROVE  a = b
<1> SUFFICES ASSUME a # b PROVE FALSE
  OBVIOUS
<1>1. b \in Blocks(g)
  BY ReachableFacts
<1>2. a \notin ReachedWithout(g, b) /\ b \notin ReachedWithout(g, a)
  BY <1>1, DominatesFacts
<1>3. a # 0 /\ b # 0
  BY <1>1, EntryDominated
<1> DEFINE U == ReachedWithout(g, a) \cap ReachedWithout(g, b)
<1>4. U \in SUBSET Blocks(g) /\ 0 \in U
  BY <1>3, ReachedFacts
<1>5. \A u \in U : ToSet(g[u]) \subseteq U
  BY <1>2, ReachedOn
<1>6. b \in U
  BY <1>4, <1>5, ReachableFacts
<1> QED
  BY <1>2, <1>6

-----------------------------------------------------------------------------
(* Loops.                                                                   *)

LEMMA LoopFacts ==
  ASSUME NEW g \in Graphs, NEW h \in Loops(g)
  PROVE  /\ h \in Blocks(g) /\ h # 0 /\ h \in Body(g, h)
         /\ Body(g, h) \subseteq Reachable(g)
         /\ \A u \in Body(g, h) \ {h} : Preds(g, u) \cap Reachable(g) \subseteq Body(g, h)
         /\ \A b \in Body(g, h) : Dominates(g, h, b)
         /\ 0 \notin Body(g, h)
<1>1. h \in Blocks(g) /\ Latches(g, h) # {} /\ Body(g, h) = NaturalLoop(g, h)
  BY DEF Loops, Body, bodies
<1> DEFINE start == {h} \cup Latches(g, h)
           closed(U) == /\ start \subseteq U
                        /\ \A u \in U \ {h} : Preds(g, u) \cap Reachable(g) \subseteq U
<1>2. /\ Body(g, h) \subseteq Blocks(g)
      /\ \A b \in Blocks(g) : b \in Body(g, h) <=> \A U \in SUBSET Blocks(g) : closed(U) => b \in U
  BY <1>1 DEF NaturalLoop
<1>3. \A U \in SUBSET Blocks(g) : closed(U) => Body(g, h) \subseteq U
  BY <1>2, Zenon
<1>4. h \in Body(g, h)
  BY <1>1, <1>2
<1>5. \A l \in Latches(g, h) : /\ l \in Reachable(g) /\ h \in ToSet(g[l])
                               /\ l \in Blocks(g) /\ Dominates(g, h, l)
  BY DEF Latches, Preds
<1>6. h \in Reachable(g) /\ h # 0
  BY <1>1, <1>5, ReachableFacts, GraphFacts
<1>7. Body(g, h) \subseteq Reachable(g)
  <2>1. closed(Reachable(g))
    BY <1>5, <1>6
  <2> QED
    BY <1>3, <2>1, ReachableFacts
<1>8. ASSUME NEW u \in Body(g, h) \ {h}, NEW p \in Preds(g, u) \cap Reachable(g)
      PROVE  p \in Body(g, h)
  <2>1. ASSUME NEW U \in SUBSET Blocks(g), closed(U) PROVE p \in U
    <3>1. u \in U
      BY <1>3, <2>1
    <3> QED
      BY <2>1, <3>1
  <2>2. p \in Blocks(g)
    BY DEF Preds
  <2> HIDE DEF closed
  <2> QED
    BY <1>2, <2>1, <2>2
<1>9. \A b \in Body(g, h) : Dominates(g, h, b)
  <2> DEFINE U == Blocks(g) \ ReachedWithout(g, h)
  <2>1. start \subseteq U
    <3>1. h \in U
      BY <1>1, ReachedFacts
    <3>2. \A l \in Latches(g, h) : l \in U
      BY <1>1, <1>5, <3>1, DominatesFacts
    <3> QED
      BY <3>1, <3>2
  <2>2. ASSUME NEW u \in U \ {h}, NEW p \in Preds(g, u) \cap Reachable(g) PROVE p \in U
    <3>1. p \in Blocks(g) /\ u \in ToSet(g[p])
      BY DEF Preds
    <3> QED
      BY <3>1, ReachedOn
  <2>3. closed(U)
    BY <2>1, <2>2
  <2>4. Body(g, h) \subseteq U
    BY <1>3, <2>3
  <2> QED
    BY <1>1, <1>2, <2>4, DominatesFacts
<1>10. 0 \notin Body(g, h)
  BY <1>1, <1>6, <1>9, EntryDominated
<1> QED
  BY <1>1, <1>4, <1>6, <1>7, <1>8, <1>9, <1>10

(* What leads into a loop is its preheader.                                  *)
LEMMA PreheaderFacts ==
  ASSUME NEW g \in Graphs, NEW h \in Loops(g), NEW p, p = getLoopPreheader(g, h), p # NoBlock
  PROVE  /\ p \in Blocks(g) /\ p \notin Body(g, h) /\ h \in ToSet(g[p])
         /\ \A u \in Preds(g, h) : u \in Body(g, h) \/ u = p
<1>1. p \in Blocks(g) /\ IsPreheader(g, h, p)
  BY DEF getLoopPreheader
<1> QED
  BY <1>1 DEF IsPreheader, contains, Preds

LEMMA WayIn ==
  ASSUME NEW g \in Graphs, NEW h \in Loops(g), NEW p, p = getLoopPreheader(g, h), p # NoBlock,
         NEW u \in Reachable(g), u \notin Body(g, h), u # p, NEW v \in ToSet(g[u])
  PROVE  v \notin Body(g, h)
<1> SUFFICES ASSUME v \in Body(g, h) PROVE FALSE
  OBVIOUS
<1>1. u \in Preds(g, v)
  BY ReachableFacts DEF Preds
<1>2. v = h
  BY <1>1, LoopFacts
<1> QED
  BY <1>1, <1>2, PreheaderFacts

(* It dominates the loop, and so does, of the blocks outside, only what       *)
(* dominates the preheader.                                                 *)
LEMMA PreheaderDominates ==
  ASSUME NEW g \in Graphs, NEW h \in Loops(g), NEW p, p = getLoopPreheader(g, h), p # NoBlock,
         NEW b \in Body(g, h)
  PROVE  Dominates(g, p, b)
<1>1. p \in Blocks(g) /\ b \in Blocks(g) /\ b # p
  BY PreheaderFacts, LoopFacts, ReachableFacts
<1> DEFINE U == ReachedWithout(g, p) \ Body(g, h)
<1>2. U \in SUBSET Blocks(g)
  BY ReachedFacts
<1>3. p = 0 \/ 0 \in U
  BY ReachedFacts, LoopFacts
<1>4. ASSUME NEW u \in U, NEW v \in ToSet(g[u]), v # p PROVE v \in U
  <2>1. v \in ReachedWithout(g, p)
    BY <1>4, ReachedOn
  <2>2. u \in Reachable(g) /\ u # p
    BY ReachedFacts
  <2> QED
    BY <2>1, <2>2, WayIn
<1>5. b \notin U
  OBVIOUS
<1> HIDE DEF U
<1>6. \A u \in U : ToSet(g[u]) \ {p} \subseteq U
  BY <1>4
<1>7. ReachedWithout(g, p) \subseteq U
  BY <1>2, <1>3, <1>6, ReachedLeast
<1> QED
  BY <1>1, <1>5, <1>7, DominatesFacts

LEMMA OutsideDominates ==
  ASSUME NEW g \in Graphs, NEW h \in Loops(g), NEW p, p = getLoopPreheader(g, h), p # NoBlock,
         NEW b \in Body(g, h), NEW d \in Blocks(g), d \notin Body(g, h), Dominates(g, d, b)
  PROVE  Dominates(g, d, p)
<1> SUFFICES ASSUME ~Dominates(g, d, p) PROVE FALSE
  OBVIOUS
<1>1. p \in Blocks(g) /\ h \in ToSet(g[p]) /\ p \in ReachedWithout(g, d)
  BY PreheaderFacts, DominatesFacts
<1>2. h \in ReachedWithout(g, d)
  BY <1>1, LoopFacts, ReachedOn
<1> DEFINE U == Reachable(g) \ (Body(g, h) \ ReachedWithout(g, d))
<1>3. U \in SUBSET Blocks(g) /\ 0 \in U
  BY ReachableFacts, LoopFacts
<1>4. ASSUME NEW u \in U, NEW v \in ToSet(g[u]), v \notin U PROVE FALSE
  <2>1. v \in Reachable(g) /\ v \in Body(g, h) /\ v \notin ReachedWithout(g, d)
    BY <1>4, ReachableFacts
  <2>2. v # h /\ u \in Preds(g, v) /\ u \in Reachable(g)
    BY <1>2, <2>1, ReachableFacts DEF Preds
  <2>3. u \in Body(g, h)
    BY <2>1, <2>2, LoopFacts
  <2>4. u \in ReachedWithout(g, d) /\ v # d
    BY <2>1, <2>3
  <2> QED
    BY <2>1, <2>4, ReachedOn
<1>5. b \in U => b \in ReachedWithout(g, d)
  OBVIOUS
<1> HIDE DEF U
<1>6. \A u \in U : ToSet(g[u]) \subseteq U
  BY <1>4
<1>7. Reachable(g) \subseteq U
  BY <1>3, <1>6, ReachableFacts
<1>8. b \in ReachedWithout(g, d)
  BY <1>5, <1>7, LoopFacts
<1>9. b \in Blocks(g) /\ b # d
  BY LoopFacts, ReachableFacts
<1> QED
  BY <1>8, <1>9, DominatesFacts

(* The preheader is dominated by no block of the loop.                       *)
LEMMA PreheaderNotDominated ==
  ASSUME NEW g \in Graphs, NEW h \in Loops(g), NEW p, p = getLoopPreheader(g, h), p # NoBlock,
         NEW b \in Body(g, h)
  PROVE  ~Dominates(g, b, p)
BY PreheaderFacts, PreheaderDominates, DominatesAntisymmetric, LoopFacts, ReachableFacts

-----------------------------------------------------------------------------
(* One instruction leaves its block and becomes the last of another.         *)

LEMMA ConcatFacts ==
  ASSUME NEW S, NEW x \in Seq(S), NEW y \in Seq(S), NEW m, NEW k, Len(x) = m, Len(y) = k
  PROVE  /\ x \o y \in Seq(S) /\ Len(x \o y) = m + k
         /\ \A j \in 1 .. m + k : (x \o y)[j] = IF j <= m THEN x[j] ELSE y[j - m]
<1>1. /\ x \o y \in Seq(S) /\ Len(x \o y) = Len(x) + Len(y)
      /\ \A j \in 1 .. Len(x) + Len(y) :
           (x \o y)[j] = IF j <= Len(x) THEN x[j] ELSE y[j - Len(x)]
  BY ConcatProperties
<1> QED
  BY <1>1

LEMMA RemoveFacts ==
  ASSUME NEW S, NEW s \in Seq(S), NEW p \in 1 .. Len(s)
  PROVE  /\ RemoveAt(s, p) \in Seq(S) /\ Len(RemoveAt(s, p)) = Len(s) - 1
         /\ \A j \in 1 .. Len(s) - 1 :
              RemoveAt(s, p)[j] = IF j < p THEN s[j] ELSE s[j + 1]
<1> DEFINE n == Len(s)
           front == SubSeq(s, 1, p - 1)
           rest == SubSeq(s, p + 1, n)
<1>1. n \in Nat /\ p \in 1 .. n /\ \A j \in 1 .. n : s[j] \in S
  BY LenProperties, ElementOfSeq
<1> HIDE DEF n
<1>2. front \in Seq(S) /\ Len(front) = p - 1 /\ \A j \in 1 .. p - 1 : front[j] = s[j]
  <2>1. \A j \in 1 .. p - 1 : s[j] \in S
    BY <1>1
  <2>2. /\ front \in Seq(S) /\ Len(front) = IF 1 <= p - 1 THEN p - 1 - 1 + 1 ELSE 0
        /\ \A j \in 1 .. p - 1 - 1 + 1 : front[j] = s[1 + j - 1]
    BY <1>1, <2>1, SubSeqProperties
  <2> HIDE DEF front
  <2> QED
    BY <1>1, <2>2
<1>3. rest \in Seq(S) /\ Len(rest) = n - p /\ \A j \in 1 .. n - p : rest[j] = s[p + j]
  <2>1. \A j \in p + 1 .. n : s[j] \in S
    BY <1>1
  <2>2. /\ rest \in Seq(S) /\ Len(rest) = IF p + 1 <= n THEN n - (p + 1) + 1 ELSE 0
        /\ \A j \in 1 .. n - (p + 1) + 1 : rest[j] = s[p + 1 + j - 1]
    BY <1>1, <2>1, SubSeqProperties
  <2> HIDE DEF rest
  <2> QED
    BY <1>1, <2>2
<1>4. RemoveAt(s, p) = front \o rest
  BY DEF RemoveAt, n
<1> HIDE DEF front, rest
<1>5. /\ front \o rest \in Seq(S) /\ Len(front \o rest) = p - 1 + (n - p)
      /\ \A j \in 1 .. p - 1 + (n - p) :
           (front \o rest)[j] = IF j <= p - 1 THEN front[j] ELSE rest[j - (p - 1)]
  BY <1>2, <1>3, ConcatFacts
<1> DEFINE r == front \o rest
<1> HIDE DEF r
<1>6. r \in Seq(S) /\ Len(r) = n - 1
      /\ \A j \in 1 .. n - 1 : r[j] = IF j < p THEN s[j] ELSE s[j + 1]
  <2>1. r \in Seq(S) /\ Len(r) = n - 1
        /\ \A j \in 1 .. n - 1 : r[j] = IF j <= p - 1 THEN front[j] ELSE rest[j - (p - 1)]
    <3>1. p - 1 + (n - p) = n - 1
      BY <1>1
    <3> QED
      BY <1>5, <3>1 DEF r
  <2>2. ASSUME NEW j \in 1 .. n - 1 PROVE r[j] = IF j < p THEN s[j] ELSE s[j + 1]
    <3>1. CASE j < p
      BY <1>1, <1>2, <2>1, <3>1
    <3>2. CASE ~(j < p)
      <4>1. j - (p - 1) \in 1 .. n - p /\ p + (j - (p - 1)) = j + 1 /\ ~(j <= p - 1)
        BY <1>1, <3>2
      <4> QED
        BY <1>3, <2>1, <3>2, <4>1
    <3> QED
      BY <3>1, <3>2
  <2> QED
    BY <2>1, <2>2
<1> QED
  BY <1>4, <1>6 DEF r, n


(* b, k is the place of the instruction, p the block it is moved to.         *)
Moved(program, p, b, k) ==
  [program EXCEPT ![p] = Append(@, program[b][k]), ![b] = RemoveAt(@, k)]

(* The new place of what was at u, m.                                       *)
NewIndex(b, k, u, m) == IF u = b /\ m > k THEN m - 1 ELSE m

IsMove(B, program, new, p, b, k) ==
  /\ \A u \in B : /\ Len(program[u]) \in Nat /\ DOMAIN program[u] = 1 .. Len(program[u])
                  /\ DOMAIN new[u] = 1 .. Len(new[u])
  /\ Len(new[p]) = Len(program[p]) + 1
  /\ new[p][Len(program[p]) + 1] = program[b][k]
  /\ Len(new[b]) = Len(program[b]) - 1
  /\ \A u \in B \ {p, b} : new[u] = program[u]
  /\ \A m \in DOMAIN program[p] : new[p][m] = program[p][m]
  /\ \A m \in DOMAIN new[b] :
       new[b][m] = IF m < k THEN program[b][m] ELSE program[b][m + 1]

LEMMA MovedFacts ==
  ASSUME NEW B, NEW S, NEW program \in [B -> Seq(S)], NEW p \in B, NEW b \in B, p # b,
         NEW k \in DOMAIN program[b], NEW new, new = Moved(program, p, b, k)
  PROVE  new \in [B -> Seq(S)] /\ IsMove(B, program, new, p, b, k)
<1> DEFINE I == program[b][k]
<1>1. \A u \in B : program[u] \in Seq(S)
  OBVIOUS
<1>2. \A u \in B : Len(program[u]) \in Nat /\ DOMAIN program[u] = 1 .. Len(program[u])
  BY <1>1, LenProperties
<1>3. k \in 1 .. Len(program[b])
  BY <1>2
<1>4. I \in S
  BY <1>1, <1>3, ElementOfSeq
<1>5. /\ new[p] = Append(program[p], I)
      /\ new[b] = RemoveAt(program[b], k)
      /\ \A u \in B \ {p, b} : new[u] = program[u]
      /\ new = [u \in B |-> new[u]]
  BY DEF Moved
<1> HIDE DEF I
<1>6. /\ new[p] \in Seq(S) /\ Len(new[p]) = Len(program[p]) + 1
      /\ new[p][Len(program[p]) + 1] = I
      /\ \A m \in 1 .. Len(program[p]) : new[p][m] = program[p][m]
  BY <1>1, <1>4, <1>5, AppendProperties
<1>7. /\ new[b] \in Seq(S) /\ Len(new[b]) = Len(program[b]) - 1
      /\ \A m \in 1 .. Len(program[b]) - 1 :
           new[b][m] = IF m < k THEN program[b][m] ELSE program[b][m + 1]
  BY <1>1, <1>3, <1>5, RemoveFacts
<1>8. \A u \in B : new[u] \in Seq(S)
  BY <1>1, <1>5, <1>6, <1>7
<1>9. \A u \in B : DOMAIN new[u] = 1 .. Len(new[u])
  BY <1>8, LenProperties
<1>10. new \in [B -> Seq(S)]
  BY <1>5, <1>8
<1> QED
  BY <1>2, <1>5, <1>6, <1>7, <1>9, <1>10 DEF I, IsMove

(* What is moved may be moved: the block it goes to dominates its own, and    *)
(* not the other way round.                                                 *)
LEMMA DefinitionKept ==
  ASSUME NEW g \in Graphs, NEW S, NEW program \in [Blocks(g) -> Seq(S)],
         NEW p \in Blocks(g), NEW b \in Blocks(g), p # b, NEW k \in DOMAIN program[b],
         Dominates(g, p, b), ~Dominates(g, b, p),
         NEW n, NEW u \in Blocks(g), NEW m \in Nat, ~(u = b /\ m = k),
         DefinedBefore(g, program, n, u, m)
  PROVE  DefinedBefore(g, Moved(program, p, b, k), n, u, NewIndex(b, k, u, m))
<1> DEFINE new == Moved(program, p, b, k)
           i == NewIndex(b, k, u, m)
<1>0. new = Moved(program, p, b, k)
  OBVIOUS
<1> HIDE DEF new
<1>m. IsMove(Blocks(g), program, new, p, b, k)
  BY <1>0, MovedFacts
<1>1. /\ \A v \in Blocks(g) : /\ Len(program[v]) \in Nat
                              /\ DOMAIN program[v] = 1 .. Len(program[v])
                              /\ DOMAIN new[v] = 1 .. Len(new[v])
      /\ Len(new[p]) = Len(program[p]) + 1
      /\ new[p][Len(program[p]) + 1] = program[b][k]
      /\ Len(new[b]) = Len(program[b]) - 1
      /\ \A v \in Blocks(g) \ {p, b} : new[v] = program[v]
      /\ \A l \in DOMAIN program[p] : new[p][l] = program[p][l]
      /\ \A l \in DOMAIN new[b] :
           new[b][l] = IF l < k THEN program[b][l] ELSE program[b][l + 1]
  BY <1>m DEF IsMove
<1>2. k \in 1 .. Len(program[b])
  BY <1>1
<1>3. i = IF u = b /\ m > k THEN m - 1 ELSE m
  BY DEF NewIndex
<1> HIDE DEF i
<1>4. CASE n \in Arguments
  BY <1>4 DEF DefinedBefore
<1>5. ASSUME NEW d \in Blocks(g), NEW j \in DOMAIN program[d], program[d][j].id = n,
             IF d = u THEN j < m ELSE Dominates(g, d, u)
      PROVE  \E e \in Blocks(g) : \E l \in DOMAIN new[e] :
               new[e][l].id = n /\ IF e = u THEN l < i ELSE Dominates(g, e, u)
  <2>1. CASE d = b /\ j = k
    <3>1. u # p
      BY <1>5, <2>1
    <3>2. Dominates(g, p, u)
      BY <1>5, <2>1, DominatesTransitive
    <3>3. Len(program[p]) + 1 \in DOMAIN new[p]
      BY <1>1
    <3> QED
      BY <1>1, <1>5, <2>1, <3>1, <3>2, <3>3
  <2>2. CASE d = b /\ j < k
    <3>1. j \in 1 .. Len(program[b]) /\ j \in DOMAIN new[b] /\ new[b][j] = program[b][j]
      <4>1. Len(program[b]) \in Nat /\ DOMAIN new[b] = 1 .. Len(program[b]) - 1
            /\ j \in 1 .. Len(program[b])
        BY <1>1, <2>2
      <4>2. j \in 1 .. Len(program[b]) - 1
        BY <1>2, <2>2, <4>1
      <4> QED
        BY <1>1, <2>2, <4>1, <4>2
    <3>2. d = u => j < i
      <4>1. ASSUME u = b, m > k PROVE j < m - 1
        BY <1>2, <2>2, <3>1, <4>1
      <4> QED
        BY <1>3, <1>5, <2>2, <4>1
    <3> QED
      BY <1>5, <2>2, <3>1, <3>2
  <2>3. CASE d = b /\ j > k
    <3>1. j \in 1 .. Len(program[b])
      BY <1>1, <2>3
    <3>2. j - 1 \in DOMAIN new[b] /\ new[b][j - 1] = program[b][j]
      <4>1. j - 1 \in 1 .. Len(program[b]) - 1 /\ ~(j - 1 < k) /\ j - 1 + 1 = j
        <5>1. Len(program[b]) \in Nat
          BY <1>1
        <5> QED
          BY <1>2, <2>3, <3>1, <5>1
      <4>2. j - 1 \in DOMAIN new[b]
        BY <1>1, <4>1
      <4>3. new[b][j - 1] = program[b][j - 1 + 1]
        BY <1>1, <4>1, <4>2
      <4> QED
        BY <4>1, <4>2, <4>3
    <3>3. d = u => j - 1 < i
      BY <1>2, <1>3, <1>5, <2>3, <3>1
    <3> QED
      BY <1>5, <2>3, <3>2, <3>3
  <2>4. CASE d # b
    <3>1. j \in DOMAIN new[d] /\ new[d][j] = program[d][j]
      <4>1. CASE d = p
        <5>1. j \in 1 .. Len(program[p]) + 1
          BY <1>1, <4>1
        <5> QED
          BY <1>1, <4>1, <5>1
      <4>2. CASE d # p
        BY <1>1, <2>4, <4>2
      <4> QED
        BY <4>1, <4>2
    <3>2. d = u => j < i
      BY <1>3, <1>5, <2>4
    <3> QED
      BY <1>5, <3>1, <3>2
  <2>5. d = b => j = k \/ j < k \/ j > k
    BY <1>1, <1>2
  <2> QED
    BY <2>1, <2>2, <2>3, <2>4, <2>5
<1>6. DefinedBefore(g, new, n, u, i)
  BY <1>4, <1>5 DEF DefinedBefore
<1> QED
  BY <1>6 DEF new, i

(* What is defined before a place is defined before the places behind it.    *)
LEMMA DefinedLater ==
  ASSUME NEW g, NEW program, NEW n, NEW u, NEW m \in Nat, NEW i \in Nat, m <= i,
         \A d \in Blocks(g) : \A j \in DOMAIN program[d] : j \in Nat,
         DefinedBefore(g, program, n, u, m)
  PROVE  DefinedBefore(g, program, n, u, i)
<1>1. CASE n \in Arguments
  BY <1>1 DEF DefinedBefore
<1>2. ASSUME NEW d \in Blocks(g), NEW j \in DOMAIN program[d], program[d][j].id = n,
             IF d = u THEN j < m ELSE Dominates(g, d, u)
      PROVE  DefinedBefore(g, program, n, u, i)
  <2>1. IF d = u THEN j < i ELSE Dominates(g, d, u)
    BY <1>2
  <2> QED
    BY <1>2, <2>1 DEF DefinedBefore
<1> QED
  BY <1>1, <1>2 DEF DefinedBefore

(* A move in front of a dominated block keeps uses behind definitions, when   *)
(* what the instruction uses is defined before its new place.                *)
LEMMA UsesKept ==
  ASSUME NEW g \in Graphs, NEW S, NEW program \in [Blocks(g) -> Seq(S)],
         NEW p \in Blocks(g), NEW b \in Blocks(g), p # b, NEW k \in DOMAIN program[b],
         Dominates(g, p, b), ~Dominates(g, b, p),
         program[b][k].op # "phi",
         \A n \in ToSet(program[b][k].args) :
            DefinedBefore(g, program, n, p, Len(program[p]) + 1),
         UsesDefined(g, program)
  PROVE  UsesDefined(g, Moved(program, p, b, k))
<1> DEFINE new == Moved(program, p, b, k)
           UseOK(q, u, m) ==
             IF q[u][m].op = "phi"
             THEN \A l \in Preds(g, u) :
                    DefinedBefore(g, q, q[u][m].args[IF l = q[u][m].latch THEN 2 ELSE 1],
                                  l, Len(q[l]) + 1)
             ELSE \A n \in ToSet(q[u][m].args) : DefinedBefore(g, q, n, u, m)
<1>0. new = Moved(program, p, b, k)
  OBVIOUS
<1> HIDE DEF new
<1>1. IsMove(Blocks(g), program, new, p, b, k)
  BY <1>0, MovedFacts
<1>2. /\ \A v \in Blocks(g) : /\ Len(program[v]) \in Nat
                              /\ DOMAIN program[v] = 1 .. Len(program[v])
                              /\ DOMAIN new[v] = 1 .. Len(new[v])
      /\ Len(new[p]) = Len(program[p]) + 1
      /\ new[p][Len(program[p]) + 1] = program[b][k]
      /\ Len(new[b]) = Len(program[b]) - 1
      /\ \A v \in Blocks(g) \ {p, b} : new[v] = program[v]
      /\ \A l \in DOMAIN program[p] : new[p][l] = program[p][l]
      /\ \A l \in DOMAIN new[b] :
           new[b][l] = IF l < k THEN program[b][l] ELSE program[b][l + 1]
  BY <1>1 DEF IsMove
<1>3. k \in 1 .. Len(program[b])
  BY <1>2
<1>4. ASSUME NEW u \in Blocks(g), NEW m \in DOMAIN program[u] PROVE UseOK(program, u, m)
  BY DEF UsesDefined
<1>5. ASSUME NEW n, NEW u \in Blocks(g), NEW m \in Nat, ~(u = b /\ m = k),
             DefinedBefore(g, program, n, u, m)
      PROVE  DefinedBefore(g, new, n, u, NewIndex(b, k, u, m))
  BY <1>0, <1>5, DefinitionKept
<1>6. ASSUME NEW n, NEW u \in Blocks(g), DefinedBefore(g, program, n, u, Len(program[u]) + 1)
      PROVE  DefinedBefore(g, new, n, u, Len(new[u]) + 1)
  <2> DEFINE m == Len(program[u]) + 1
             i == NewIndex(b, k, u, m)
             e == Len(new[u]) + 1
  <2>1. m \in Nat /\ ~(u = b /\ m = k)
    BY <1>2, <1>3
  <2>2. DefinedBefore(g, new, n, u, i)
    BY <1>5, <1>6, <2>1
  <2>3. i \in Nat /\ e \in Nat /\ i <= e
    <3>1. CASE u = b
      BY <1>2, <1>3, <3>1 DEF NewIndex
    <3>2. CASE u # b
      <4>1. i = m
        BY <3>2 DEF NewIndex
      <4>2. Len(program[u]) \in Nat
            /\ (Len(new[u]) = Len(program[u]) \/ Len(new[u]) = Len(program[u]) + 1)
        BY <1>2, <3>2
      <4> HIDE DEF i
      <4> QED
        BY <4>1, <4>2
    <3> QED
      BY <3>1, <3>2
  <2>4. \A d \in Blocks(g) : \A j \in DOMAIN new[d] : j \in Nat
    BY <1>2
  <2> HIDE DEF i, e
  <2>5. DefinedBefore(g, new, n, u, e)
    BY <2>2, <2>3, <2>4, DefinedLater
  <2> QED
    BY <2>5 DEF e
<1>7. ASSUME NEW u \in Blocks(g), NEW m \in DOMAIN program[u], ~(u = b /\ m = k),
             NEW i, i = NewIndex(b, k, u, m), new[u][i] = program[u][m]
      PROVE  UseOK(new, u, i)
  <2>1. m \in Nat
    BY <1>2
  <2>2. CASE program[u][m].op = "phi"
    <3>1. ASSUME NEW l \in Preds(g, u)
          PROVE  DefinedBefore(g, new, program[u][m].args[IF l = program[u][m].latch THEN 2 ELSE 1],
                               l, Len(new[l]) + 1)
      <4> DEFINE n == program[u][m].args[IF l = program[u][m].latch THEN 2 ELSE 1]
      <4>1. l \in Blocks(g)
        BY DEF Preds
      <4>2. DefinedBefore(g, program, n, l, Len(program[l]) + 1)
        BY <1>4, <2>2
      <4> HIDE DEF n
      <4>3. DefinedBefore(g, new, n, l, Len(new[l]) + 1)
        BY <1>6, <4>1, <4>2
      <4> QED
        BY <4>3 DEF n
    <3> QED
      BY <1>7, <2>2, <3>1
  <2>3. CASE program[u][m].op # "phi"
    <3>1. \A n \in ToSet(program[u][m].args) : DefinedBefore(g, program, n, u, m)
      BY <1>4, <2>3
    <3>2. \A n \in ToSet(program[u][m].args) : DefinedBefore(g, new, n, u, i)
      BY <1>5, <1>7, <2>1, <3>1
    <3> QED
      BY <1>7, <2>3, <3>2
  <2> QED
    BY <2>2, <2>3
<1>8. ASSUME NEW u \in Blocks(g), NEW i \in DOMAIN new[u] PROVE UseOK(new, u, i)
  <2>1. CASE u = p /\ i = Len(program[p]) + 1
    <3>1. new[u][i] = program[b][k]
      BY <1>2, <2>1
    <3>2. i \in Nat /\ NewIndex(b, k, u, i) = i /\ ~(u = b /\ i = k)
      BY <1>2, <2>1 DEF NewIndex
    <3>3. \A n \in ToSet(program[b][k].args) : DefinedBefore(g, new, n, u, i)
      BY <1>5, <2>1, <3>2
    <3> QED
      BY <3>1, <3>3
  <2>2. CASE u = b /\ i >= k
    <3>1. i \in 1 .. Len(program[b]) - 1
      BY <1>2, <1>8, <2>2
    <3>2. i + 1 \in DOMAIN program[u] /\ i + 1 # k
      BY <1>2, <1>3, <2>2, <3>1
    <3>3. NewIndex(b, k, u, i + 1) = i
      BY <1>3, <2>2, <3>1 DEF NewIndex
    <3>4. new[u][i] = program[u][i + 1]
      BY <1>2, <1>3, <2>2, <3>1
    <3> QED
      BY <1>7, <3>2, <3>3, <3>4
  <2>3. CASE u = b /\ i < k
    <3>1. i \in 1 .. Len(program[b]) - 1
      BY <1>2, <1>8, <2>3
    <3>2. i \in DOMAIN program[u] /\ i # k /\ new[u][i] = program[u][i]
      BY <1>2, <1>3, <2>3, <3>1
    <3>3. NewIndex(b, k, u, i) = i
      BY <1>3, <2>3, <3>1 DEF NewIndex
    <3> QED
      BY <1>7, <3>2, <3>3
  <2>4. CASE u # b /\ ~(u = p /\ i = Len(program[p]) + 1)
    <3>1. i \in DOMAIN program[u] /\ new[u][i] = program[u][i]
      <4>1. CASE u = p
        <5>1. i \in 1 .. Len(program[p]) + 1
          BY <1>2, <1>8, <4>1
        <5>2. i \in 1 .. Len(program[p])
          BY <1>2, <2>4, <4>1, <5>1
        <5> QED
          BY <1>2, <4>1, <5>2
      <4>2. CASE u # p
        BY <1>2, <1>8, <2>4, <4>2
      <4> QED
        BY <4>1, <4>2
    <3>2. NewIndex(b, k, u, i) = i
      BY <2>4 DEF NewIndex
    <3> QED
      BY <1>7, <2>4, <3>1, <3>2
  <2>5. u = b => i >= k \/ i < k
    BY <1>2, <1>3, <1>8
  <2> QED
    BY <2>1, <2>2, <2>3, <2>4, <2>5
<1>9. UsesDefined(g, new)
  BY <1>8 DEF UsesDefined
<1> QED
  BY <1>9 DEF new

-----------------------------------------------------------------------------
(* The pass.                                                                *)

Frame == [BB : Blocks(graph), II : Nat \ {0}, children : SUBSET Blocks(graph)]
Instruction == UNION {ToSet(prog.code[b]) : b \in Blocks(graph)}

(* The code may be in the middle of a loop that has a preheader.             *)
HoistInv ==
  /\ prog \in Programs
  /\ code \in [Blocks(graph) -> Seq(Instruction)]
  /\ frames \in Seq(Frame)
  /\ frames # <<>> => L \in Loops(graph) /\ getLoopPreheader(graph, L) # NoBlock
  /\ UsesDefined(graph, code)

LEMMA HoistInit == Init => HoistInv
<1> SUFFICES ASSUME Init PROVE HoistInv
  OBVIOUS
<1>1. prog \in Programs /\ code = prog.code /\ frames = <<>>
  BY DEF Init
<1> QED
  BY <1>1, ProgramsAssumption DEF HoistInv, Instruction, graph

LEMMA TopFacts ==
  ASSUME HoistInv, frames # <<>>
  PROVE  /\ Len(frames) \in Nat \ {0} /\ DOMAIN frames = 1 .. Len(frames)
         /\ Top = frames[Len(frames)] /\ Top \in Frame
<1>1. Len(frames) \in Nat \ {0} /\ DOMAIN frames = 1 .. Len(frames)
  BY DEF HoistInv
<1>2. Len(frames) \in 1 .. Len(frames)
  BY <1>1
<1>3. frames[Len(frames)] \in Frame
  BY <1>2, ElementOfSeq DEF HoistInv
<1> QED
  BY <1>1, <1>3 DEF Top, Last

(* Steps that leave the code alone.                                         *)
LEMMA CodeStable ==
  ASSUME HoistInv, UNCHANGED <<prog, code>>, frames' \in Seq(Frame),
         frames' # <<>> =>
            L' \in Loops(graph) /\ getLoopPreheader(graph, L') # NoBlock
  PROVE  HoistInv'
BY DEF HoistInv, graph, Frame, Instruction

LEMMA RegionType ==
  ASSUME NEW b \in Blocks(graph)
  PROVE  Region(b) \in Frame
BY DEF Region, Frame, getChildren

LEMMA RunOnLoopStep ==
  ASSUME HoistInv, NEW l, runOnLoop(l)
  PROVE  HoistInv'
<1>1. l \in Loops(graph) /\ L' = l /\ UNCHANGED <<prog, code>>
      /\ frames' = IF getLoopPreheader(graph, l) # NoBlock THEN <<Region(l)>> ELSE <<>>
  BY DEF runOnLoop
<1>2. l \in Blocks(graph)
  BY <1>1, ProgramsAssumption, LoopFacts DEF HoistInv, graph
<1>3. <<Region(l)>> \in Seq(Frame)
  BY <1>2, RegionType
<1> QED
  BY <1>1, <1>3, CodeStable

LEMMA VisitChildStep == HoistInv /\ VisitChild => HoistInv'
<1> SUFFICES ASSUME HoistInv, VisitChild PROVE HoistInv'
  OBVIOUS
<1> DEFINE n == Len(frames)
<1>1. PICK b \in Top.children :
        frames' = Append([frames EXCEPT ![n].children = @ \ {b}], Region(b))
  BY DEF VisitChild
<1>2. frames # <<>> /\ UNCHANGED <<prog, code, L>>
  BY DEF VisitChild
<1>3. /\ n \in Nat \ {0} /\ DOMAIN frames = 1 .. n /\ Top = frames[n] /\ Top \in Frame
      /\ frames \in Seq(Frame)
  BY <1>2, TopFacts DEF HoistInv
<1>4. b \in Blocks(graph)
  BY <1>3 DEF Frame
<1>5. Region(b) \in Frame
  BY <1>4, RegionType
<1> DEFINE f == [frames[n] EXCEPT !.children = @ \ {b}]
<1>6. f \in Frame
  BY <1>3 DEF Frame
<1>7. [frames EXCEPT ![n].children = @ \ {b}] = [frames EXCEPT ![n] = f]
  OBVIOUS
<1> HIDE DEF f
<1>8. [frames EXCEPT ![n] = f] \in Seq(Frame)
  BY <1>3, <1>6
<1>9. frames' \in Seq(Frame)
  BY <1>1, <1>5, <1>7, <1>8, AppendProperties
<1> QED
  BY <1>2, <1>9, CodeStable DEF HoistInv

LEMMA KeepInstructionStep == HoistInv /\ KeepInstruction => HoistInv'
<1> SUFFICES ASSUME HoistInv, KeepInstruction PROVE HoistInv'
  OBVIOUS
<1> DEFINE n == Len(frames)
<1>1. /\ frames' = [frames EXCEPT ![n].II = @ + 1]
      /\ frames # <<>> /\ UNCHANGED <<prog, code, L>>
  BY DEF KeepInstruction, AtInstruction
<1>2. /\ n \in Nat \ {0} /\ DOMAIN frames = 1 .. n /\ Top = frames[n] /\ Top \in Frame
      /\ frames \in Seq(Frame)
  BY <1>1, TopFacts DEF HoistInv
<1> DEFINE f == [frames[n] EXCEPT !.II = @ + 1]
<1>3. f \in Frame
  <2>1. frames[n].II \in Nat \ {0} /\ frames[n] \in Frame
    BY <1>2 DEF Frame
  <2>2. frames[n].II + 1 \in Nat \ {0}
    BY <2>1
  <2> QED
    BY <2>1, <2>2 DEF Frame
<1>4. frames' = [frames EXCEPT ![n] = f]
  BY <1>1
<1> HIDE DEF f
<1>5. frames' \in Seq(Frame)
  BY <1>2, <1>3, <1>4
<1> QED
  BY <1>1, <1>5, CodeStable DEF HoistInv

LEMMA LeaveRegionStep == HoistInv /\ LeaveRegion => HoistInv'
<1> SUFFICES ASSUME HoistInv, LeaveRegion PROVE HoistInv'
  OBVIOUS
<1> DEFINE n == Len(frames)
<1>1. /\ frames' = SubSeq(frames, 1, n - 1)
      /\ frames # <<>> /\ UNCHANGED <<prog, code, L>>
  BY DEF LeaveRegion, Front
<1>2. /\ n \in Nat \ {0} /\ DOMAIN frames = 1 .. n /\ frames \in Seq(Frame)
  BY <1>1, TopFacts DEF HoistInv
<1>3. \A i \in 1 .. n - 1 : frames[i] \in Frame
  BY <1>2, ElementOfSeq
<1>4. frames' \in Seq(Frame)
  BY <1>1, <1>2, <1>3, SubSeqProperties
<1> QED
  BY <1>1, <1>4, CodeStable DEF HoistInv

LEMMA HoistInstructionStep == HoistInv /\ HoistInstruction => HoistInv'
<1> SUFFICES ASSUME HoistInv, HoistInstruction PROVE HoistInv'
  OBVIOUS
<1> DEFINE b == Top.BB
           k == Top.II
           p == getLoopPreheader(graph, L)
<1>1. /\ frames # <<>> /\ contains(graph, L, b) /\ k <= Len(code[b])
      /\ isLoopInvariantInst(L, Inst) /\ canHoistInst(Inst, CurAST, known = "pure")
      /\ code' = Hoist(Inst) /\ UNCHANGED <<prog, L, frames>>
  BY DEF HoistInstruction, AtInstruction
<1>2. /\ graph \in Graphs /\ L \in Loops(graph) /\ p # NoBlock
      /\ code \in [Blocks(graph) -> Seq(Instruction)] /\ UsesDefined(graph, code)
  BY <1>1, ProgramsAssumption DEF HoistInv, graph
<1>3. Top \in Frame
  BY <1>1, TopFacts
<1>4. b \in Blocks(graph) /\ b \in Body(graph, L) /\ k \in Nat \ {0}
  BY <1>1, <1>3 DEF Frame, contains
<1>5. p \in Blocks(graph) /\ p # b
  BY <1>2, <1>4, PreheaderFacts
<1>6. k \in DOMAIN code[b] /\ Inst = code[b][k]
  <2>1. code[b] \in Seq(Instruction)
    BY <1>2, <1>4
  <2>2. DOMAIN code[b] = 1 .. Len(code[b]) /\ Len(code[b]) \in Nat
    BY <2>1, LenProperties
  <2> QED
    BY <1>1, <1>4, <2>2 DEF Inst
<1>7. Dominates(graph, p, b) /\ ~Dominates(graph, b, p)
  BY <1>2, <1>4, PreheaderDominates, PreheaderNotDominated
<1>8. Inst.op # "phi"
  BY <1>1 DEF canHoistInst
<1>9. ASSUME NEW n \in ToSet(Inst.args)
      PROVE  DefinedBefore(graph, code, n, p, Len(code[p]) + 1)
  <2>1. DefinedBefore(graph, code, n, b, k)
    BY <1>2, <1>4, <1>6, <1>8 DEF UsesDefined
  <2>2. CASE n \in Arguments
    BY <2>2 DEF DefinedBefore
  <2>3. ASSUME NEW d \in Blocks(graph), NEW j \in DOMAIN code[d], code[d][j].id = n,
               IF d = b THEN j < k ELSE Dominates(graph, d, b)
        PROVE  IF d = p THEN j < Len(code[p]) + 1 ELSE Dominates(graph, d, p)
    <3>1. d \notin Body(graph, L)
      <4>1. code[d][j] \in ToSet(code[d])
        BY DEF ToSet
      <4> QED
        BY <1>1, <2>3, <4>1 DEF isLoopInvariantInst, definedIn
    <3>2. Dominates(graph, d, p)
      <4>1. Dominates(graph, d, b)
        BY <1>4, <2>3, <3>1
      <4> QED
        BY <1>2, <1>4, <3>1, <4>1, OutsideDominates
    <3>3. j <= Len(code[d]) /\ Len(code[d]) \in Nat /\ j \in Nat
      <4>1. code[d] \in Seq(Instruction)
        BY <1>2
      <4>2. DOMAIN code[d] = 1 .. Len(code[d]) /\ Len(code[d]) \in Nat
        BY <4>1, LenProperties
      <4> QED
        BY <4>2
    <3> QED
      BY <3>2, <3>3
  <2> QED
    BY <2>1, <2>2, <2>3 DEF DefinedBefore
<1>10. code' = Moved(code, p, b, k)
  BY <1>1, <1>6 DEF Hoist, Moved
<1> HIDE DEF b, k, p
<1>11. Moved(code, p, b, k) \in [Blocks(graph) -> Seq(Instruction)]
  BY <1>2, <1>4, <1>5, <1>6, MovedFacts
<1>12. UsesDefined(graph, Moved(code, p, b, k))
  BY <1>2, <1>4, <1>5, <1>6, <1>7, <1>8, <1>9, UsesKept
<1>13. graph' = graph /\ Instruction' = Instruction /\ Frame' = Frame
  BY <1>1 DEF graph, Instruction, Frame
<1> QED
  BY <1>1, <1>10, <1>11, <1>12, <1>13 DEF HoistInv, graph

LEMMA HoistInductive == HoistInv /\ [Next]_vars => HoistInv'
<1> SUFFICES ASSUME HoistInv, [Next]_vars PROVE HoistInv'
  OBVIOUS
<1>1. CASE \E l \in Loops(graph) : runOnLoop(l)
  BY <1>1, RunOnLoopStep
<1>2. CASE HoistInstruction
  BY <1>2, HoistInstructionStep
<1>3. CASE KeepInstruction
  BY <1>3, KeepInstructionStep
<1>4. CASE VisitChild
  BY <1>4, VisitChildStep
<1>5. CASE LeaveRegion
  BY <1>5, LeaveRegionStep
<1>6. CASE \/ AskCallee \/ EndLoop \/ FoundAccess \/ FollowCall \/ FoundNothing
           \/ StartRun \/ RunStep \/ UNCHANGED vars
  <2>1. frames' = frames /\ L' = L /\ prog' = prog /\ code' = code
    BY Zenon, <1>6 DEF AskCallee, EndLoop, FoundAccess, FollowCall, FoundNothing, StartRun, RunStep,
                vars, passVars
  <2>2. /\ frames \in Seq(Frame)
        /\ frames # <<>> => L \in Loops(graph) /\ getLoopPreheader(graph, L) # NoBlock
    BY DEF HoistInv
  <2>3. frames' \in Seq(Frame)
    BY <2>1, <2>2, Zenon
  <2>4. frames' # <<>> => L' \in Loops(graph) /\ getLoopPreheader(graph, L') # NoBlock
    BY <2>1, <2>2, Zenon
  <2>5. UNCHANGED <<prog, code>>
    BY <2>1
  <2> QED
    BY <2>3, <2>4, <2>5, CodeStable, Zenon
<1> QED
  BY <1>1, <1>2, <1>3, <1>4, <1>5, <1>6 DEF Next, PassNext

LEMMA HoistInvariant == Spec => []HoistInv
BY HoistInit, HoistInductive, PTL DEF Spec

(* Whatever the pass moves, from whatever loops of a function in which every  *)
(* value is defined before it is used, this stays so after every step.       *)
THEOREM DefinitionsCorrect == Spec => []DefinitionsDominateUses
<1>1. HoistInv => DefinitionsDominateUses
  BY DEF HoistInv, DefinitionsDominateUses
<1> QED
  BY <1>1, HoistInvariant, PTL

=============================================================================
