-------------------------- MODULE ConditionProofs --------------------------
(***************************************************************************)
(* Proofs about the order of the blocks and about ConditionPropagator.     *)
(*                                                                         *)
(* BasicBlockSorter, for every control flow graph without unreachable      *)
(* blocks: the depth-first visit leaves a block after all it dominates,    *)
(* and the loop of moveBefore calls turns the order in which blocks are    *)
(* left round.                                                             *)
(*                                                                         *)
(* ConditionPropagator, for every control flow graph whose loops have one  *)
(* entry each: the pass finds what it needs, and what it says of a block   *)
(* holds whenever the block is entered.  Both depth-first searches, the    *)
(* one of BasicBlockSorter and the one of FindFunctionBackedges, take      *)
(* exactly the edges to dominating blocks for those that close loops, so   *)
(* that the predecessors of a block come before it but for those.          *)
(***************************************************************************)
EXTENDS ConditionPropagator, SequenceTheorems, FiniteSetTheorems, TLAPS

-----------------------------------------------------------------------------
(* The invariant of the visit.                                              *)

Frame == [BB : Block, idx : 0 .. 2]

(* The lists hold blocks.                                                   *)
VisitType ==
  /\ cfg \in CFGs
  /\ frames \in Seq(Frame)
  /\ visitedBlocks \in SUBSET Block
  /\ blockList \in Seq(Block)

(* A visited block is active or in the list, in one place.                  *)
Listed(b) == \E j \in DOMAIN blockList : blockList[j] = b
Active(b) == \E j \in DOMAIN frames : frames[j].BB = b

VisitedOnce ==
  /\ \A b \in Block : b \in visitedBlocks <=> Listed(b) \/ Active(b)
  /\ \A j, k \in DOMAIN blockList : blockList[j] = blockList[k] => j = k
  /\ \A j, k \in DOMAIN frames : frames[j].BB = frames[k].BB => j = k
  /\ \A b \in Block : ~(Listed(b) /\ Active(b))

(* The successors from idx on have been visited, of a listed block all.      *)
SuccessorsVisited ==
  /\ \A k \in DOMAIN frames :
       /\ frames[k].idx <= Len(cfg[frames[k].BB])
       /\ \A j \in DOMAIN cfg[frames[k].BB] :
            j > frames[k].idx => cfg[frames[k].BB][j] \in visitedBlocks
  /\ \A b \in Block : Listed(b) => ToSet(cfg[b]) \subseteq visitedBlocks

(* The active calls are a path from the entry block, on which every block    *)
(* reaches the later ones.  The path to an active block cannot be cut at a   *)
(* block that is not on it.                                                 *)
PathActive ==
  /\ frames # <<>> => frames[1].BB = entry
  /\ \A k, l \in DOMAIN frames : k <= l => frames[l].BB \in ReachedAvoiding(frames[k].BB, entry)
  /\ \A l \in DOMAIN frames : \A d \in Block :
       (\E k \in 1 .. l : frames[k].BB = d) \/ frames[l].BB \in ReachedAvoiding(entry, d)

(* A listed block is behind those it dominates, and of its successors only   *)
(* those it closes a loop with are behind it.                               *)
ListedOrder ==
  /\ \A j \in DOMAIN blockList : \A d \in Block : Dominates(d, blockList[j]) =>
       Active(d) \/ \E k \in DOMAIN blockList : j <= k /\ blockList[k] = d
  /\ \A j \in DOMAIN blockList : \A v \in ToSet(cfg[blockList[j]]) :
       \/ \E k \in DOMAIN blockList : k < j /\ blockList[k] = v
       \/ blockList[j] \in ReachedAvoiding(v, entry)

VisitInv ==
  /\ VisitType
  /\ VisitedOnce
  /\ SuccessorsVisited
  /\ PathActive
  /\ ListedOrder
  /\ entry \in visitedBlocks

-----------------------------------------------------------------------------
(* The invariant of the moves.                                              *)

(* Every block is in the sequence once.                                     *)
IsOrder(s) ==
  /\ s \in Seq(Block)
  /\ \A j, k \in DOMAIN s : s[j] = s[k] => j = k
  /\ \A b \in Block : \E j \in DOMAIN s : s[j] = b

Before(s, a, b) == \E j, k \in DOMAIN s : j < k /\ s[j] = a /\ s[k] = b

MoveInv ==
  /\ phase \in {"visit", "move", "done"}
  /\ moved \in Nat \ {0}
  /\ IsOrder(layout)
  /\ phase = "visit" => moved = 1
  /\ phase # "visit" =>
       /\ frames = <<>> /\ IsOrder(blockList) /\ moved <= Len(blockList)
       /\ \A j, k \in DOMAIN blockList :
            j < k /\ k <= moved => Before(layout, blockList[k], blockList[j])

SortInv == VisitInv /\ MoveInv

-----------------------------------------------------------------------------
(* Reachability.                                                            *)

(* What the graphs of the assumption are, for the steps below.              *)
LEMMA GraphFacts ==
  ASSUME cfg \in CFGs
  PROVE  /\ entry \in Block
         /\ cfg \in [Block -> Seq(Block)]
         /\ \A b \in Block : /\ Len(cfg[b]) \in 0 .. 2 /\ DOMAIN cfg[b] = 1 .. Len(cfg[b])
                             /\ ToSet(cfg[b]) \subseteq Block
                             /\ entry \notin ToSet(cfg[b])
<1>1. entry \in Block /\ cfg \in [Block -> Seq(Block)]
      /\ \A b \in Block : Len(cfg[b]) <= 2 /\ entry \notin ToSet(cfg[b])
  BY CFGsAssumption DEF IsCFG
<1>2. ASSUME NEW b \in Block
      PROVE  /\ Len(cfg[b]) \in 0 .. 2 /\ DOMAIN cfg[b] = 1 .. Len(cfg[b])
             /\ ToSet(cfg[b]) \subseteq Block
  <2>1. cfg[b] \in Seq(Block) /\ Len(cfg[b]) <= 2
    BY <1>1
  <2>2. Len(cfg[b]) \in Nat /\ DOMAIN cfg[b] = 1 .. Len(cfg[b])
        /\ \A k \in 1 .. Len(cfg[b]) : cfg[b][k] \in Block
    BY <2>1, LenProperties, ElementOfSeq
  <2>3. ToSet(cfg[b]) \subseteq Block
    BY <2>2 DEF ToSet
  <2>4. Len(cfg[b]) \in 0 .. 2
    <3> DEFINE n == Len(cfg[b])
    <3>1. n \in Nat /\ n <= 2
      BY <2>1, <2>2
    <3> HIDE DEF n
    <3>2. n \in 0 .. 2
      BY <3>1
    <3> QED
      BY <3>2 DEF n
  <2> QED
    BY <2>2, <2>3, <2>4
<1> QED
  BY <1>1, <1>2

(* A block reaches itself, and its successors but d.                        *)
LEMMA ReachedHere ==
  ASSUME NEW u \in Block, NEW d
  PROVE  u \in ReachedAvoiding(u, d)
BY DEF ReachedAvoiding

LEMMA ReachedOn ==
  ASSUME cfg \in CFGs, NEW u, NEW d, NEW b \in ReachedAvoiding(u, d),
         NEW c \in ToSet(cfg[b]), c # d
  PROVE  c \in ReachedAvoiding(u, d)
<1>1. b \in Block /\ c \in Block
  BY GraphFacts DEF ReachedAvoiding
<1>2. ASSUME NEW U \in SUBSET Block, u \in U, \A v \in U : ToSet(cfg[v]) \ {d} \subseteq U
      PROVE  c \in U
  <2>1. b \in U
    BY <1>2 DEF ReachedAvoiding
  <2> QED
    BY <1>2, <2>1
<1> QED
  BY <1>1, <1>2 DEF ReachedAvoiding

(* A set of blocks that has the entry block and the successors of its blocks *)
(* has them all.                                                            *)
LEMMA AllReached ==
  ASSUME cfg \in CFGs, NEW U \in SUBSET Block, entry \in U,
         \A b \in U : ToSet(cfg[b]) \subseteq U
  PROVE  U = Block
<1>1. Reached(cfg) = Block
  BY CFGsAssumption DEF IsCFG
<1> QED
  BY <1>1 DEF Reached

-----------------------------------------------------------------------------
(* The visit.                                                               *)

LEMMA VisitInit == Init => VisitInv
<1> SUFFICES ASSUME Init PROVE VisitInv
  OBVIOUS
<1>1. cfg \in CFGs /\ entry \in Block
  BY GraphFacts DEF Init
<1>2. Len(cfg[entry]) \in 0 .. 2 /\ DOMAIN cfg[entry] = 1 .. Len(cfg[entry])
  BY <1>1, GraphFacts
<1>3. /\ frames = <<[BB |-> entry, idx |-> Len(cfg[entry])]>>
      /\ visitedBlocks = {entry} /\ blockList = <<>>
  BY DEF Init, Call
<1>4. VisitType
  BY <1>1, <1>2, <1>3 DEF VisitType, Frame
<1>5. DOMAIN frames = {1} /\ Len(frames) = 1
      /\ frames[1].BB = entry /\ frames[1].idx = Len(cfg[entry]) /\ DOMAIN blockList = {}
  BY <1>3
<1>6. VisitedOnce
  BY <1>1, <1>3, <1>5 DEF VisitedOnce, Listed, Active
<1>7. SuccessorsVisited
  BY <1>2, <1>5 DEF SuccessorsVisited, Listed
<1>8. entry \in ReachedAvoiding(entry, entry)
      /\ \A d \in Block : entry \in ReachedAvoiding(entry, d)
  BY <1>1, ReachedHere
<1>9. PathActive
  BY <1>5, <1>8 DEF PathActive
<1>10. ListedOrder
  BY <1>5 DEF ListedOrder
<1> QED
  BY <1>3, <1>4, <1>6, <1>7, <1>9, <1>10 DEF VisitInv

(* The active call that goes on.                                            *)
LEMMA TopFacts ==
  ASSUME VisitInv, InLoop
  PROVE  /\ Len(frames) \in Nat /\ Len(frames) > 0 /\ DOMAIN frames = 1 .. Len(frames)
         /\ Top = frames[Len(frames)] /\ Top \in Frame
         /\ Top.BB \in Block /\ Top.idx \in Nat
         /\ Top.idx \in DOMAIN cfg[Top.BB] /\ Top.idx - 1 \in 0 .. 2
         /\ Top.idx <= Len(cfg[Top.BB]) /\ Len(cfg[Top.BB]) \in Nat
         /\ DOMAIN cfg[Top.BB] = 1 .. Len(cfg[Top.BB])
         /\ Successor \in Block /\ Successor \in ToSet(cfg[Top.BB]) /\ Successor # entry
<1>1. Len(frames) \in Nat /\ Len(frames) > 0 /\ DOMAIN frames = 1 .. Len(frames)
  BY DEF VisitInv, VisitType, InLoop
<1>2. Top = frames[Len(frames)] /\ Top \in Frame
  <2>1. frames \in Seq(Frame) /\ Len(frames) \in 1 .. Len(frames)
    BY <1>1 DEF VisitInv, VisitType
  <2>2. frames[Len(frames)] \in Frame
    BY <2>1, ElementOfSeq
  <2> QED
    BY <2>2 DEF Top, Last
<1>3. Top.idx # 0 /\ Top.idx <= Len(cfg[Top.BB])
  BY <1>1, <1>2 DEF InLoop, VisitInv, SuccessorsVisited
<1>4. /\ Top.idx \in DOMAIN cfg[Top.BB] /\ Top.idx - 1 \in 0 .. 2
      /\ Len(cfg[Top.BB]) \in Nat /\ DOMAIN cfg[Top.BB] = 1 .. Len(cfg[Top.BB])
  BY <1>2, <1>3, GraphFacts DEF VisitInv, VisitType, Frame
<1>5. Successor \in ToSet(cfg[Top.BB])
  BY <1>4 DEF Successor, ToSet
<1>6. Successor \in Block /\ Successor # entry
  BY <1>2, <1>5, GraphFacts DEF VisitInv, VisitType, Frame
<1>7. Top.BB \in Block /\ Top.idx \in Nat
  BY <1>2 DEF Frame
<1> QED
  BY <1>1, <1>2, <1>3, <1>4, <1>5, <1>6, <1>7

(* Counting down changes nothing but the counter.                           *)
LEMMA CountDownFacts ==
  ASSUME VisitInv, InLoop
  PROVE  /\ CountDown \in Seq(Frame)
         /\ Len(CountDown) = Len(frames) /\ DOMAIN CountDown = DOMAIN frames
         /\ \A k \in DOMAIN frames :
              /\ CountDown[k].BB = frames[k].BB
              /\ CountDown[k].idx = IF k = Len(frames) THEN Top.idx - 1 ELSE frames[k].idx
<1>1. /\ Len(frames) \in Nat /\ Len(frames) > 0 /\ DOMAIN frames = 1 .. Len(frames)
      /\ Top = frames[Len(frames)] /\ Top.idx - 1 \in 0 .. 2
  BY TopFacts
<1>2. frames \in Seq(Frame)
  BY DEF VisitInv, VisitType
<1> DEFINE n == Len(frames)
           f == [frames[n] EXCEPT !.idx = @ - 1]
<1>3. frames[n] \in Frame /\ n \in DOMAIN frames
  <2>1. n \in 1 .. Len(frames)
    BY <1>1
  <2> QED
    BY <1>1, <1>2, <2>1, ElementOfSeq
<1>4. f \in Frame /\ f.BB = frames[n].BB /\ f.idx = Top.idx - 1
  BY <1>1, <1>3 DEF Frame
<1>5. CountDown = [frames EXCEPT ![n] = f]
  BY DEF CountDown
<1> HIDE DEF f
<1>6. CountDown \in Seq(Frame) /\ Len(CountDown) = Len(frames)
  BY <1>1, <1>2, <1>3, <1>4, <1>5
<1>7. \A k \in DOMAIN frames : CountDown[k] = IF k = n THEN f ELSE frames[k]
  BY <1>1, <1>2, <1>5
<1> QED
  BY <1>1, <1>4, <1>6, <1>7

(* What is said of the graph alone stays true: no step changes it.          *)
LEMMA GraphStable ==
  ASSUME cfg' = cfg
  PROVE  /\ \A u, d : ReachedAvoiding(u, d)' = ReachedAvoiding(u, d)
         /\ \A d, b : Dominates(d, b)' <=> Dominates(d, b)
BY DEF ReachedAvoiding, Dominates

(* The parts of the invariant after a step, in terms of the graph before.    *)
LEMMA AfterStep ==
  ASSUME cfg' = cfg,
         frames' # <<>> => frames'[1].BB = entry,
         \A k, l \in DOMAIN frames' : k <= l =>
            frames'[l].BB \in ReachedAvoiding(frames'[k].BB, entry),
         \A l \in DOMAIN frames' : \A d \in Block :
            (\E k \in 1 .. l : frames'[k].BB = d) \/ frames'[l].BB \in ReachedAvoiding(entry, d),
         \A j \in DOMAIN blockList' : \A d \in Block : Dominates(d, blockList'[j]) =>
            Active(d)' \/ \E k \in DOMAIN blockList' : j <= k /\ blockList'[k] = d,
         \A j \in DOMAIN blockList' : \A v \in ToSet(cfg[blockList'[j]]) :
            \/ \E k \in DOMAIN blockList' : k < j /\ blockList'[k] = v
            \/ blockList'[j] \in ReachedAvoiding(v, entry)
  PROVE  PathActive' /\ ListedOrder'
<1>1. PathActive'
  BY DEF PathActive, ReachedAvoiding
<1>2. ListedOrder'
  BY DEF ListedOrder, ReachedAvoiding, Dominates, Active
<1> QED
  BY <1>1, <1>2

LEMMA VisitSuccessorStep == VisitInv /\ VisitSuccessor => VisitInv'
<1> SUFFICES ASSUME VisitInv, VisitSuccessor PROVE VisitInv'
  OBVIOUS
<1> DEFINE n == Len(frames)
           s == Successor
           t == Top.BB
<1>0. InLoop /\ cfg' = cfg /\ cfg \in CFGs /\ blockList' = blockList
      /\ visitedBlocks' = visitedBlocks \cup {s} /\ s \notin visitedBlocks
      /\ frames' = Append(CountDown, Call(s))
  BY DEF VisitSuccessor, VisitInv, VisitType
<1>1. /\ n \in Nat /\ n > 0 /\ DOMAIN frames = 1 .. n /\ frames[n].BB = t
      /\ Top = frames[n] /\ t \in Block /\ Top.idx \in Nat
      /\ s \in Block /\ s \in ToSet(cfg[t]) /\ s # entry /\ s = cfg[t][Top.idx]
  <2>1. /\ n \in Nat /\ n > 0 /\ DOMAIN frames = 1 .. n /\ Top = frames[n]
        /\ t \in Block /\ Top.idx \in Nat
        /\ s \in Block /\ s \in ToSet(cfg[t]) /\ s # entry
    BY <1>0, TopFacts
  <2> QED
    BY <2>1 DEF Successor
<1>2. /\ CountDown \in Seq(Frame) /\ Len(CountDown) = n /\ DOMAIN CountDown = 1 .. n
      /\ \A k \in 1 .. n : /\ CountDown[k].BB = frames[k].BB
                           /\ CountDown[k].idx = IF k = n THEN Top.idx - 1 ELSE frames[k].idx
  BY Zenon, <1>0, <1>1, CountDownFacts
<1>3. Call(s) \in Frame /\ Call(s).BB = s /\ Call(s).idx = Len(cfg[s])
      /\ DOMAIN cfg[s] = 1 .. Len(cfg[s]) /\ Len(cfg[s]) \in Nat
  BY <1>0, <1>1, GraphFacts DEF Call, Frame
<1> HIDE DEF n, s, t
<1>4a. frames' \in Seq(Frame) /\ Len(frames') = n + 1
      /\ (\A k \in 1 .. n : frames'[k] = CountDown[k])
      /\ frames'[n + 1] = Call(s)
  BY <1>0, <1>2, <1>3, AppendProperties
<1>4b. DOMAIN frames' = 1 .. n + 1
  <2>1. DOMAIN frames' = 1 .. Len(frames')
    BY <1>4a, LenProperties
  <2> QED
    BY <1>4a, <2>1
<1>5. /\ \A k \in 1 .. n : /\ frames'[k].BB = frames[k].BB
                           /\ frames'[k].idx = IF k = n THEN Top.idx - 1 ELSE frames[k].idx
      /\ frames'[n + 1].BB = s /\ frames'[n + 1].idx = Len(cfg[s])
  BY <1>2, <1>3, <1>4a, <1>4b
<1>6. \A k \in 1 .. n + 1 : k \in 1 .. n \/ k = n + 1
  BY <1>1
<1>7. VisitType'
  BY <1>0, <1>1, <1>4a, <1>4b DEF VisitInv, VisitType
<1>8. \A b : /\ Listed(b)' <=> Listed(b)
             /\ Active(b)' <=> Active(b) \/ b = s
  <2>1. \A b : Active(b)' <=> \E k \in 1 .. n + 1 : frames'[k].BB = b
    BY <1>4a, <1>4b DEF Active
  <2>2. \A b : Active(b) <=> \E k \in 1 .. n : frames[k].BB = b
    BY <1>1 DEF Active
  <2>3. 1 .. n \subseteq 1 .. n + 1 /\ n + 1 \in 1 .. n + 1
    BY <1>1
  <2>4. \A b : Active(b)' <=> Active(b) \/ b = s
    BY <1>5, <1>6, <2>1, <2>2, <2>3
  <2> QED
    BY <1>0, <2>4 DEF Listed
<1>9. ~Listed(s) /\ ~Active(s)
  BY <1>0, <1>1 DEF VisitInv, VisitedOnce
<1>10. VisitedOnce'
  <2>1. \A b \in Block : b \in visitedBlocks' <=> Listed(b)' \/ Active(b)'
    BY <1>0, <1>8 DEF VisitInv, VisitedOnce
  <2>2. \A b \in Block : ~(Listed(b)' /\ Active(b)')
    BY <1>8, <1>9 DEF VisitInv, VisitedOnce
  <2>3. \A k \in 1 .. n : frames'[k].BB # s
    BY <1>1, <1>5, <1>9 DEF Active
  <2>4. \A j, k \in 1 .. n + 1 : frames'[j].BB = frames'[k].BB => j = k
    BY <1>1, <1>5, <1>6, <2>3 DEF VisitInv, VisitedOnce
  <2> QED
    BY <1>0, <1>4a, <1>4b, <2>1, <2>2, <2>4 DEF VisitInv, VisitedOnce
<1>11. SuccessorsVisited'
  <2>1. ASSUME NEW k \in DOMAIN frames'
        PROVE  /\ frames'[k].idx <= Len(cfg[frames'[k].BB])
               /\ \A j \in DOMAIN cfg[frames'[k].BB] :
                    j > frames'[k].idx => cfg[frames'[k].BB][j] \in visitedBlocks'
    <3>1. CASE k \in 1 .. n /\ k # n
      <4>1. k \in DOMAIN frames /\ frames'[k].BB = frames[k].BB /\ frames'[k].idx = frames[k].idx
        BY <1>1, <1>5, <3>1
      <4>2. /\ frames[k].idx <= Len(cfg[frames[k].BB])
            /\ \A j \in DOMAIN cfg[frames[k].BB] :
                 j > frames[k].idx => cfg[frames[k].BB][j] \in visitedBlocks
        BY <4>1 DEF VisitInv, SuccessorsVisited
      <4>3. visitedBlocks \subseteq visitedBlocks'
        BY <1>0
      <4> QED
        BY <4>1, <4>2, <4>3
    <3>2. CASE k = n
      <4>1. frames'[k].BB = t /\ frames'[k].idx = Top.idx - 1
        BY <1>1, <1>5, <3>2
      <4>2. Top.idx <= Len(cfg[t]) /\ Len(cfg[t]) \in Nat /\ DOMAIN cfg[t] = 1 .. Len(cfg[t])
        BY <1>0, TopFacts DEF t
      <4>3. ASSUME NEW j \in DOMAIN cfg[t], j > Top.idx - 1 PROVE cfg[t][j] \in visitedBlocks'
        <5>1. CASE j = Top.idx
          BY <1>0, <1>1, <5>1
        <5>2. CASE j > Top.idx
          BY <1>0, <1>1, <5>2 DEF VisitInv, SuccessorsVisited
        <5> QED
          BY <1>1, <4>2, <4>3, <5>1, <5>2
      <4> QED
        BY <1>1, <4>1, <4>2, <4>3
    <3>3. CASE k = n + 1
      BY <1>3, <1>5, <3>3
    <3>4. (k \in 1 .. n /\ k # n) \/ k = n \/ k = n + 1
      BY <1>4b, <1>6
    <3> QED
      BY <3>1, <3>2, <3>3, <3>4
  <2>2. \A b \in Block : Listed(b)' => ToSet(cfg[b]) \subseteq visitedBlocks'
    BY <1>0, <1>8 DEF VisitInv, SuccessorsVisited
  <2> QED
    BY <1>0, <2>1, <2>2 DEF SuccessorsVisited
<1>12. \A k, l \in DOMAIN frames' : k <= l =>
         frames'[l].BB \in ReachedAvoiding(frames'[k].BB, entry)
  <2> SUFFICES ASSUME NEW k \in 1 .. n + 1, NEW l \in 1 .. n + 1, k <= l
               PROVE  frames'[l].BB \in ReachedAvoiding(frames'[k].BB, entry)
    BY <1>4a, <1>4b
  <2>1. CASE l \in 1 .. n
    <3>1. k \in 1 .. n
      BY <1>1, <2>1
    <3> QED
      BY <1>1, <1>5, <2>1, <3>1 DEF VisitInv, PathActive
  <2>2. CASE l = n + 1 /\ k \in 1 .. n
    <3>1. t \in ReachedAvoiding(frames[k].BB, entry)
      <4>1. k <= n /\ n \in 1 .. n
        BY <1>1, <2>2
      <4> QED
        BY <1>1, <2>2, <4>1 DEF VisitInv, PathActive
    <3>2. s \in ReachedAvoiding(frames[k].BB, entry)
      BY <1>0, <1>1, <3>1, ReachedOn
    <3> QED
      BY <1>5, <2>2, <3>2
  <2>3. CASE l = n + 1 /\ k = n + 1
    BY <1>1, <1>5, <2>3, ReachedHere
  <2> QED
    BY <1>6, <2>1, <2>2, <2>3
<1>13. \A l \in DOMAIN frames' : \A d \in Block :
         (\E k \in 1 .. l : frames'[k].BB = d) \/ frames'[l].BB \in ReachedAvoiding(entry, d)
  <2> SUFFICES ASSUME NEW l \in 1 .. n + 1, NEW d \in Block, \A k \in 1 .. l : frames'[k].BB # d
               PROVE  frames'[l].BB \in ReachedAvoiding(entry, d)
    BY <1>4a, <1>4b
  <2>1. CASE l \in 1 .. n
    <3>1. \A k \in 1 .. l : k \in 1 .. n /\ frames[k].BB # d
      BY <1>1, <1>5, <2>1
    <3> QED
      BY <1>1, <1>5, <2>1, <3>1 DEF VisitInv, PathActive
  <2>2. CASE l = n + 1
    <3>1. \A k \in 1 .. n : frames[k].BB # d
      BY <1>1, <1>5, <2>2
    <3>2. n + 1 \in 1 .. l /\ s # d
      BY <1>1, <1>5, <2>2
    <3>3. n \in DOMAIN frames
      BY <1>1
    <3>4. t \in ReachedAvoiding(entry, d)
      BY <1>1, <3>1, <3>3 DEF VisitInv, PathActive
    <3> QED
      BY <1>0, <1>1, <1>5, <2>2, <3>2, <3>4, ReachedOn
  <2> QED
    BY <1>6, <2>1, <2>2
<1>14. frames'[1].BB = entry
  BY <1>1, <1>5 DEF VisitInv, PathActive
<1>15. PathActive' /\ ListedOrder'
  BY <1>0, <1>8, <1>12, <1>13, <1>14, AfterStep DEF VisitInv, ListedOrder
<1> QED
  BY <1>0, <1>7, <1>10, <1>11, <1>15 DEF VisitInv

LEMMA SkipSuccessorStep == VisitInv /\ SkipSuccessor => VisitInv'
<1> SUFFICES ASSUME VisitInv, SkipSuccessor PROVE VisitInv'
  OBVIOUS
<1> DEFINE n == Len(frames)
           t == Top.BB
<1>0. InLoop /\ cfg' = cfg /\ cfg \in CFGs /\ blockList' = blockList
      /\ visitedBlocks' = visitedBlocks /\ Successor \in visitedBlocks
      /\ frames' = CountDown
  BY DEF SkipSuccessor, VisitInv, VisitType
<1>1. /\ n \in Nat /\ n > 0 /\ DOMAIN frames = 1 .. n /\ frames[n].BB = t
      /\ Top = frames[n] /\ t \in Block /\ Top.idx \in Nat
      /\ Successor = cfg[t][Top.idx]
  <2>1. /\ n \in Nat /\ n > 0 /\ DOMAIN frames = 1 .. n /\ Top = frames[n]
        /\ t \in Block /\ Top.idx \in Nat
    BY <1>0, TopFacts
  <2> QED
    BY <2>1 DEF Successor
<1>2. /\ frames' \in Seq(Frame) /\ DOMAIN frames' = 1 .. n
      /\ \A k \in 1 .. n : /\ frames'[k].BB = frames[k].BB
                           /\ frames'[k].idx = IF k = n THEN Top.idx - 1 ELSE frames[k].idx
  BY <1>0, <1>1, CountDownFacts
<1> HIDE DEF n, t
<1>3. VisitType'
  BY <1>0, <1>2 DEF VisitInv, VisitType
<1>4. \A b : (Listed(b)' <=> Listed(b)) /\ (Active(b)' <=> Active(b))
  BY <1>0, <1>1, <1>2 DEF Listed, Active
<1>5. VisitedOnce'
  BY <1>0, <1>1, <1>2, <1>4 DEF VisitInv, VisitedOnce
<1>6. SuccessorsVisited'
  <2>1. ASSUME NEW k \in 1 .. n
        PROVE  /\ frames'[k].idx <= Len(cfg[frames'[k].BB])
               /\ \A j \in DOMAIN cfg[frames'[k].BB] :
                    j > frames'[k].idx => cfg[frames'[k].BB][j] \in visitedBlocks'
    <3>1. CASE k # n
      BY <1>0, <1>1, <1>2, <3>1 DEF VisitInv, SuccessorsVisited
    <3>2. CASE k = n
      <4>1. frames'[k].BB = t /\ frames'[k].idx = Top.idx - 1
        BY <1>1, <1>2, <3>2
      <4>2. Top.idx <= Len(cfg[t]) /\ Len(cfg[t]) \in Nat /\ DOMAIN cfg[t] = 1 .. Len(cfg[t])
        BY <1>0, TopFacts DEF t
      <4>3. ASSUME NEW j \in DOMAIN cfg[t], j > Top.idx - 1 PROVE cfg[t][j] \in visitedBlocks'
        <5>1. CASE j = Top.idx
          BY <1>0, <1>1, <5>1
        <5>2. CASE j > Top.idx
          BY <1>0, <1>1, <5>2 DEF VisitInv, SuccessorsVisited
        <5> QED
          BY <1>1, <4>2, <4>3, <5>1, <5>2
      <4> QED
        BY <1>1, <4>1, <4>2, <4>3
    <3> QED
      BY <3>1, <3>2
  <2>2. \A b \in Block : Listed(b)' => ToSet(cfg[b]) \subseteq visitedBlocks'
    BY <1>0, <1>4 DEF VisitInv, SuccessorsVisited
  <2> QED
    BY <1>0, <1>2, <2>1, <2>2 DEF SuccessorsVisited
<1>7. /\ frames'[1].BB = entry
      /\ \A k, l \in DOMAIN frames' : k <= l =>
           frames'[l].BB \in ReachedAvoiding(frames'[k].BB, entry)
  BY <1>1, <1>2 DEF VisitInv, PathActive
<1>8. \A l \in DOMAIN frames' : \A d \in Block :
        (\E k \in 1 .. l : frames'[k].BB = d) \/ frames'[l].BB \in ReachedAvoiding(entry, d)
  <2> SUFFICES ASSUME NEW l \in 1 .. n, NEW d \in Block, \A k \in 1 .. l : frames'[k].BB # d
               PROVE  frames'[l].BB \in ReachedAvoiding(entry, d)
    BY <1>2
  <2>1. \A k \in 1 .. l : k \in 1 .. n /\ frames[k].BB # d
    BY <1>1, <1>2
  <2> QED
    BY <1>1, <1>2, <2>1 DEF VisitInv, PathActive
<1>9. PathActive' /\ ListedOrder'
  BY <1>0, <1>4, <1>7, <1>8, AfterStep DEF VisitInv, ListedOrder
<1> QED
  BY <1>0, <1>3, <1>5, <1>6, <1>9 DEF VisitInv

LEMMA LeaveBlockStep == VisitInv /\ LeaveBlock => VisitInv'
<1> SUFFICES ASSUME VisitInv, LeaveBlock PROVE VisitInv'
  OBVIOUS
<1> DEFINE n == Len(frames)
           m == Len(blockList)
           t == frames[n].BB
<1>0. cfg' = cfg /\ cfg \in CFGs /\ visitedBlocks' = visitedBlocks
      /\ frames # <<>> /\ frames[n].idx = 0
      /\ frames' = SubSeq(frames, 1, n - 1) /\ blockList' = Append(blockList, t)
  BY DEF LeaveBlock, VisitInv, VisitType, Top, Last, Front
<1>1. n \in Nat /\ n > 0 /\ DOMAIN frames = 1 .. n /\ frames \in Seq(Frame)
      /\ \A k \in 1 .. n : frames[k] \in Frame
  BY <1>0, LenProperties, EmptySeq, ElementOfSeq DEF VisitInv, VisitType
<1>2. t \in Block
  BY <1>1 DEF Frame
<1>3. m \in Nat /\ DOMAIN blockList = 1 .. m /\ blockList \in Seq(Block)
  BY LenProperties DEF VisitInv, VisitType
<1> HIDE DEF n, m, t
<1>4. frames' \in Seq(Frame) /\ Len(frames') = n - 1
      /\ \A k \in 1 .. n - 1 : frames'[k] = frames[k]
  <2>1. \A k \in 1 .. n - 1 : frames[k] \in Frame
    BY <1>1
  <2>2. n - 1 \in Int /\ 1 \in Int /\ (IF 1 <= n - 1 THEN n - 1 - 1 + 1 ELSE 0) = n - 1
    BY <1>1
  <2>3. /\ SubSeq(frames, 1, n - 1) \in Seq(Frame) /\ Len(SubSeq(frames, 1, n - 1)) = n - 1
        /\ \A k \in 1 .. n - 1 - 1 + 1 : SubSeq(frames, 1, n - 1)[k] = frames[1 + k - 1]
    BY <2>1, <2>2, SubSeqProperties
  <2> QED
    BY <1>0, <1>1, <2>3
<1>5. DOMAIN frames' = 1 .. n - 1
  BY <1>4, LenProperties
<1>6. blockList' \in Seq(Block) /\ Len(blockList') = m + 1
      /\ (\A j \in 1 .. m : blockList'[j] = blockList[j]) /\ blockList'[m + 1] = t
  BY <1>0, <1>2, <1>3, AppendProperties DEF m
<1>7. DOMAIN blockList' = 1 .. m + 1
  BY <1>6, LenProperties
<1>8. /\ \A k \in 1 .. n : k \in 1 .. n - 1 \/ k = n
      /\ \A k \in 1 .. n - 1 : k \in 1 .. n /\ k # n /\ k < n
      /\ n \in 1 .. n
      /\ \A j \in 1 .. m + 1 : j \in 1 .. m \/ j = m + 1
      /\ \A j \in 1 .. m : j \in 1 .. m + 1 /\ j < m + 1
      /\ m + 1 \in 1 .. m + 1
  BY <1>1, <1>3
<1>9. VisitType'
  BY <1>0, <1>4, <1>6 DEF VisitInv, VisitType
<1>10. \A b : /\ Listed(b)' <=> Listed(b) \/ b = t
              /\ Active(b) <=> Active(b)' \/ b = t
  <2>1. \A b : /\ Active(b)' <=> \E k \in 1 .. n - 1 : frames'[k].BB = b
               /\ Active(b) <=> \E k \in 1 .. n : frames[k].BB = b
    BY <1>1, <1>5 DEF Active
  <2>2. \A b : /\ Listed(b)' <=> \E j \in 1 .. m + 1 : blockList'[j] = b
               /\ Listed(b) <=> \E j \in 1 .. m : blockList[j] = b
    BY <1>3, <1>7 DEF Listed
  <2>3. \A b : Active(b) <=> Active(b)' \/ b = t
    BY <1>4, <1>8, <2>1 DEF t
  <2>4. \A b : Listed(b)' <=> Listed(b) \/ b = t
    BY <1>6, <1>8, <2>2
  <2> QED
    BY <2>3, <2>4
<1>11. ~Listed(t) /\ Active(t) /\ \A b : b = t => ~Active(b)'
  <2>1. Active(t)
    BY <1>10
  <2>2. ~Listed(t)
    BY <1>2, <2>1 DEF VisitInv, VisitedOnce
  <2>3. \A k \in 1 .. n - 1 : frames'[k].BB # t
    BY <1>1, <1>4, <1>8 DEF VisitInv, VisitedOnce, t
  <2>4. \A b : b = t => ~Active(b)'
    BY <1>5, <2>3 DEF Active
  <2> QED
    BY <2>1, <2>2, <2>4
<1>12. VisitedOnce'
  <2>1. \A b \in Block : b \in visitedBlocks' <=> Listed(b)' \/ Active(b)'
    BY <1>0, <1>10 DEF VisitInv, VisitedOnce
  <2>2. \A b \in Block : ~(Listed(b)' /\ Active(b)')
    BY <1>10, <1>11 DEF VisitInv, VisitedOnce
  <2>3. \A j \in 1 .. m : blockList'[j] # t
    BY <1>3, <1>6, <1>11 DEF Listed
  <2>4. \A j, k \in 1 .. m + 1 : blockList'[j] = blockList'[k] => j = k
    BY <1>3, <1>6, <1>8, <2>3 DEF VisitInv, VisitedOnce
  <2>5. \A j, k \in 1 .. n - 1 : frames'[j].BB = frames'[k].BB => j = k
    BY <1>1, <1>4, <1>8 DEF VisitInv, VisitedOnce
  <2> QED
    BY <1>5, <1>7, <2>1, <2>2, <2>4, <2>5 DEF VisitedOnce
<1>13. SuccessorsVisited'
  <2>1. ASSUME NEW k \in 1 .. n - 1
        PROVE  /\ frames'[k].idx <= Len(cfg[frames'[k].BB])
               /\ \A j \in DOMAIN cfg[frames'[k].BB] :
                    j > frames'[k].idx => cfg[frames'[k].BB][j] \in visitedBlocks'
    <3>1. k \in DOMAIN frames /\ frames'[k] = frames[k]
      BY <1>1, <1>4, <1>8
    <3>2. /\ frames[k].idx <= Len(cfg[frames[k].BB])
          /\ \A j \in DOMAIN cfg[frames[k].BB] :
               j > frames[k].idx => cfg[frames[k].BB][j] \in visitedBlocks
      BY <3>1 DEF VisitInv, SuccessorsVisited
    <3> QED
      BY <1>0, <3>1, <3>2
  <2>2. ToSet(cfg[t]) \subseteq visitedBlocks'
    <3>1. \A j \in DOMAIN cfg[t] : cfg[t][j] \in visitedBlocks
      <4>1. DOMAIN cfg[t] = 1 .. Len(cfg[t]) /\ Len(cfg[t]) \in 0 .. 2
        BY <1>0, <1>2, GraphFacts
      <4>2. \A j \in DOMAIN cfg[t] : j > 0
        BY <4>1
      <4> QED
        BY <1>0, <1>1, <1>8, <4>2 DEF VisitInv, SuccessorsVisited, t
    <3> QED
      BY <1>0, <3>1 DEF ToSet
  <2>3. \A b \in Block : Listed(b)' => ToSet(cfg[b]) \subseteq visitedBlocks'
    BY <1>0, <1>10, <2>2 DEF VisitInv, SuccessorsVisited
  <2>4. ASSUME NEW k \in DOMAIN frames'
        PROVE  /\ frames'[k].idx <= Len(cfg'[frames'[k].BB])
               /\ \A j \in DOMAIN cfg'[frames'[k].BB] :
                    j > frames'[k].idx => cfg'[frames'[k].BB][j] \in visitedBlocks'
    <3>1. k \in 1 .. n - 1 /\ cfg' = cfg
      BY <1>0, <1>5
    <3> QED
      BY <2>1, <3>1
  <2> QED
    BY <1>0, <2>3, <2>4 DEF SuccessorsVisited
<1>14. /\ frames' # <<>> => frames'[1].BB = entry
       /\ \A k, l \in DOMAIN frames' : k <= l =>
            frames'[l].BB \in ReachedAvoiding(frames'[k].BB, entry)
  <2>1. frames' # <<>> => 1 \in 1 .. n - 1
    BY <1>1, <1>4, EmptySeq
  <2> QED
    BY <1>0, <1>1, <1>4, <1>5, <1>8, <2>1 DEF VisitInv, PathActive
<1>15. \A l \in DOMAIN frames' : \A d \in Block :
         (\E k \in 1 .. l : frames'[k].BB = d) \/ frames'[l].BB \in ReachedAvoiding(entry, d)
  <2> SUFFICES ASSUME NEW l \in 1 .. n - 1, NEW d \in Block, \A k \in 1 .. l : frames'[k].BB # d
               PROVE  frames'[l].BB \in ReachedAvoiding(entry, d)
    BY <1>5
  <2>1. \A k \in 1 .. l : k \in 1 .. n - 1
    BY <1>1
  <2>2. \A k \in 1 .. l : frames[k].BB # d
    BY <1>4, <2>1
  <2> QED
    BY <1>1, <1>4, <1>8, <2>2 DEF VisitInv, PathActive
<1>16. \A j \in DOMAIN blockList' : \A d \in Block : Dominates(d, blockList'[j]) =>
         Active(d)' \/ \E k \in DOMAIN blockList' : j <= k /\ blockList'[k] = d
  <2> SUFFICES ASSUME NEW j \in 1 .. m + 1, NEW d \in Block, Dominates(d, blockList'[j]), d # t
               PROVE  Active(d)' \/ \E k \in 1 .. m + 1 : j <= k /\ blockList'[k] = d
    BY <1>3, <1>6, <1>7, <1>8
  <2>1. CASE j \in 1 .. m
    <3>1. Active(d) \/ \E k \in 1 .. m : j <= k /\ blockList[k] = d
      BY <1>3, <1>6, <2>1 DEF VisitInv, ListedOrder
    <3> QED
      BY <1>6, <1>8, <1>10, <3>1
  <2>2. CASE j = m + 1
    <3>1. Dominates(d, t)
      BY <1>6, <2>2
    <3>2. CASE d = entry
      <4>1. frames[1].BB = entry /\ 1 \in DOMAIN frames
        BY <1>0, <1>1 DEF VisitInv, PathActive
      <4>2. Active(d)
        BY <3>2, <4>1 DEF Active
      <4> QED
        BY <1>10, <4>2
    <3>3. CASE d # entry
      <4>1. t \notin ReachedAvoiding(entry, d)
        BY <3>1, <3>3 DEF Dominates
      <4>2. \E k \in 1 .. n : frames[k].BB = d
        BY <1>1, <1>8, <4>1 DEF VisitInv, PathActive, t
      <4>3. Active(d)
        BY <1>1, <4>2 DEF Active
      <4> QED
        BY <1>10, <4>3
    <3> QED
      BY <3>2, <3>3
  <2> QED
    BY <1>8, <2>1, <2>2
<1>17. \A j \in DOMAIN blockList' : \A v \in ToSet(cfg[blockList'[j]]) :
         \/ \E k \in DOMAIN blockList' : k < j /\ blockList'[k] = v
         \/ blockList'[j] \in ReachedAvoiding(v, entry)
  <2> SUFFICES ASSUME NEW j \in 1 .. m + 1, NEW v \in ToSet(cfg[blockList'[j]])
               PROVE  \/ \E k \in 1 .. m + 1 : k < j /\ blockList'[k] = v
                      \/ blockList'[j] \in ReachedAvoiding(v, entry)
    BY <1>7
  <2>1. CASE j \in 1 .. m
    <3>1. \/ \E k \in 1 .. m : k < j /\ blockList[k] = v
          \/ blockList[j] \in ReachedAvoiding(v, entry)
      BY <1>3, <1>6, <2>1 DEF VisitInv, ListedOrder
    <3> QED
      BY <1>6, <1>8, <2>1, <3>1
  <2>2. CASE j = m + 1
    <3>1. v \in ToSet(cfg[t]) /\ v \in Block
      BY <1>0, <1>2, <1>6, <2>2, GraphFacts
    <3>2. v \in visitedBlocks'
      BY <1>0, <1>2, <1>10, <1>13, <3>1 DEF SuccessorsVisited
    <3>3. CASE Listed(v)
      <4>1. PICK k \in 1 .. m : blockList[k] = v
        BY <1>3, <3>3 DEF Listed
      <4> QED
        BY <1>6, <1>8, <2>2, <4>1
    <3>4. CASE Active(v)
      <4>1. PICK k \in 1 .. n : frames[k].BB = v
        BY <1>1, <3>4 DEF Active
      <4>2. k <= n
        BY <1>1
      <4>3. t \in ReachedAvoiding(v, entry)
        BY <1>1, <1>8, <4>1, <4>2 DEF VisitInv, PathActive, t
      <4> QED
        BY <1>6, <2>2, <4>3
    <3> QED
      BY <1>0, <3>1, <3>2, <3>3, <3>4 DEF VisitInv, VisitedOnce
  <2> QED
    BY <1>8, <2>1, <2>2
<1>18. PathActive' /\ ListedOrder'
  BY <1>0, <1>14, <1>15, <1>16, <1>17, AfterStep
<1> QED
  BY <1>0, <1>9, <1>12, <1>13, <1>18 DEF VisitInv

(* The steps that are no steps of the visit leave its invariant alone.       *)
LEMMA VisitStable ==
  ASSUME VisitInv, UNCHANGED <<cfg, frames, visitedBlocks, blockList>>
  PROVE  VisitInv'
<1>1. VisitType' /\ (entry \in visitedBlocks)'
  BY DEF VisitInv, VisitType
<1>2. \A b : (Listed(b)' <=> Listed(b)) /\ (Active(b)' <=> Active(b))
  BY DEF Listed, Active
<1>3. VisitedOnce'
  BY <1>2 DEF VisitInv, VisitedOnce
<1>4. SuccessorsVisited'
  BY <1>2 DEF VisitInv, SuccessorsVisited
<1>5. PathActive' /\ ListedOrder'
  BY <1>2, AfterStep DEF VisitInv, PathActive, ListedOrder
<1> QED
  BY <1>1, <1>3, <1>4, <1>5 DEF VisitInv

-----------------------------------------------------------------------------
(* Sequences in which every block has one place.                            *)

LEMMA OrderFacts ==
  ASSUME NEW s, IsOrder(s)
  PROVE  /\ s \in Seq(Block) /\ Len(s) \in Nat /\ DOMAIN s = 1 .. Len(s)
         /\ \A j \in 1 .. Len(s) : s[j] \in Block
BY LenProperties, ElementOfSeq DEF IsOrder

(* The first place of a block is its only one.                              *)
LEMMA PlaceFound ==
  ASSUME NEW s \in Seq(Block), \A j, k \in DOMAIN s : s[j] = s[k] => j = k,
         NEW k \in DOMAIN s, NEW b, s[k] = b
  PROVE  Place(s, b) = k
<1>1. Len(s) \in Nat /\ DOMAIN s = 1 .. Len(s)
  BY LenProperties
<1>2. {i \in 1 .. Len(s) : s[i] = b} = {k}
  BY <1>1
<1>3. Min({k}) = k
  BY <1>1 DEF Min
<1>4. {k} # {}
  OBVIOUS
<1> QED
  BY <1>2, <1>3, <1>4 DEF Place, SelectInSeq

LEMMA ConcatFacts ==
  ASSUME NEW x \in Seq(Block), NEW y \in Seq(Block), NEW m, NEW k, Len(x) = m, Len(y) = k
  PROVE  /\ x \o y \in Seq(Block) /\ Len(x \o y) = m + k
         /\ \A j \in 1 .. m + k : (x \o y)[j] = IF j <= m THEN x[j] ELSE y[j - m]
<1>1. /\ x \o y \in Seq(Block) /\ Len(x \o y) = Len(x) + Len(y)
      /\ \A j \in 1 .. Len(x) + Len(y) :
           (x \o y)[j] = IF j <= Len(x) THEN x[j] ELSE y[j - Len(x)]
  BY ConcatProperties
<1> QED
  BY <1>1

LEMMA RemoveFacts ==
  ASSUME NEW s \in Seq(Block), NEW p \in 1 .. Len(s)
  PROVE  /\ RemoveAt(s, p) \in Seq(Block) /\ Len(RemoveAt(s, p)) = Len(s) - 1
         /\ \A j \in 1 .. Len(s) - 1 :
              RemoveAt(s, p)[j] = IF j < p THEN s[j] ELSE s[j + 1]
<1> DEFINE n == Len(s)
           front == SubSeq(s, 1, p - 1)
           rest == SubSeq(s, p + 1, n)
<1>1. n \in Nat /\ p \in 1 .. n /\ \A j \in 1 .. n : s[j] \in Block
  BY LenProperties, ElementOfSeq
<1> HIDE DEF n
<1>2. front \in Seq(Block) /\ Len(front) = p - 1 /\ \A j \in 1 .. p - 1 : front[j] = s[j]
  <2>1. \A j \in 1 .. p - 1 : s[j] \in Block
    BY <1>1
  <2>2. /\ front \in Seq(Block) /\ Len(front) = IF 1 <= p - 1 THEN p - 1 - 1 + 1 ELSE 0
        /\ \A j \in 1 .. p - 1 - 1 + 1 : front[j] = s[1 + j - 1]
    BY <1>1, <2>1, SubSeqProperties
  <2> HIDE DEF front
  <2> QED
    BY <1>1, <2>2
<1>3. rest \in Seq(Block) /\ Len(rest) = n - p /\ \A j \in 1 .. n - p : rest[j] = s[p + j]
  <2>1. \A j \in p + 1 .. n : s[j] \in Block
    BY <1>1
  <2>2. /\ rest \in Seq(Block) /\ Len(rest) = IF p + 1 <= n THEN n - (p + 1) + 1 ELSE 0
        /\ \A j \in 1 .. n - (p + 1) + 1 : rest[j] = s[p + 1 + j - 1]
    BY <1>1, <2>1, SubSeqProperties
  <2> HIDE DEF rest
  <2> QED
    BY <1>1, <2>2
<1>4. RemoveAt(s, p) = front \o rest
  BY DEF RemoveAt, n
<1> HIDE DEF front, rest
<1>5. /\ front \o rest \in Seq(Block) /\ Len(front \o rest) = p - 1 + (n - p)
      /\ \A j \in 1 .. p - 1 + (n - p) :
           (front \o rest)[j] = IF j <= p - 1 THEN front[j] ELSE rest[j - (p - 1)]
  BY <1>2, <1>3, ConcatFacts
<1> DEFINE r == front \o rest
<1> HIDE DEF r
<1>6. r \in Seq(Block) /\ Len(r) = n - 1
      /\ \A j \in 1 .. n - 1 : r[j] = IF j < p THEN s[j] ELSE s[j + 1]
  <2>1. r \in Seq(Block) /\ Len(r) = n - 1
        /\ \A j \in 1 .. n - 1 : r[j] = IF j <= p - 1 THEN front[j] ELSE rest[j - (p - 1)]
    <3>1. p - 1 + (n - p) = n - 1
      BY <1>1
    <3> QED
      BY <1>5, <3>1 DEF r
  <2>2. ASSUME NEW j \in 1 .. n - 1 PROVE r[j] = IF j < p THEN s[j] ELSE s[j + 1]
    <3>1. CASE j < p
      BY <1>1, <1>2, <2>1, <3>1
    <3>2. CASE ~(j < p)
      <4>1. j - (p - 1) \in 1 .. n - p /\ p + (j - (p - 1)) = j + 1 /\ ~(j <= p - 1)
        BY <1>1, <3>2
      <4> QED
        BY <1>3, <2>1, <3>2, <4>1
    <3> QED
      BY <3>1, <3>2
  <2> QED
    BY <2>1, <2>2
<1> QED
  BY <1>4, <1>6 DEF r, n

LEMMA InsertFacts ==
  ASSUME NEW s \in Seq(Block), NEW q \in 1 .. Len(s), NEW e \in Block
  PROVE  /\ InsertAt(s, q, e) \in Seq(Block) /\ Len(InsertAt(s, q, e)) = Len(s) + 1
         /\ \A j \in 1 .. Len(s) + 1 :
              InsertAt(s, q, e)[j] = IF j < q THEN s[j] ELSE IF j = q THEN e ELSE s[j - 1]
<1> DEFINE n == Len(s)
           front == SubSeq(s, 1, q - 1)
           mid == <<e>>
           rest == SubSeq(s, q, n)
<1>1. n \in Nat /\ q \in 1 .. n /\ \A j \in 1 .. n : s[j] \in Block
  BY LenProperties, ElementOfSeq
<1> HIDE DEF n
<1>2. front \in Seq(Block) /\ Len(front) = q - 1 /\ \A j \in 1 .. q - 1 : front[j] = s[j]
  <2>1. \A j \in 1 .. q - 1 : s[j] \in Block
    BY <1>1
  <2>2. /\ front \in Seq(Block) /\ Len(front) = IF 1 <= q - 1 THEN q - 1 - 1 + 1 ELSE 0
        /\ \A j \in 1 .. q - 1 - 1 + 1 : front[j] = s[1 + j - 1]
    BY <1>1, <2>1, SubSeqProperties
  <2> HIDE DEF front
  <2> QED
    BY <1>1, <2>2
<1>3. /\ rest \in Seq(Block) /\ Len(rest) = n - q + 1
      /\ \A j \in 1 .. n - q + 1 : rest[j] = s[q + j - 1]
  <2>1. \A j \in q .. n : s[j] \in Block
    BY <1>1
  <2>2. /\ rest \in Seq(Block) /\ Len(rest) = IF q <= n THEN n - q + 1 ELSE 0
        /\ \A j \in 1 .. n - q + 1 : rest[j] = s[q + j - 1]
    BY <1>1, <2>1, SubSeqProperties
  <2> HIDE DEF rest
  <2> QED
    BY <1>1, <2>2
<1>4. mid \in Seq(Block) /\ Len(mid) = 1 /\ mid[1] = e
  OBVIOUS
<1>5. InsertAt(s, q, e) = front \o mid \o rest
  BY DEF InsertAt, n
<1> HIDE DEF front, rest, mid
<1> DEFINE l == front \o mid
           r == l \o rest
<1>6. /\ l \in Seq(Block) /\ Len(l) = q
      /\ \A j \in 1 .. q : l[j] = IF j <= q - 1 THEN front[j] ELSE mid[j - (q - 1)]
  <2>1. /\ l \in Seq(Block) /\ Len(l) = Len(front) + Len(mid)
        /\ \A j \in 1 .. Len(front) + Len(mid) :
             l[j] = IF j <= Len(front) THEN front[j] ELSE mid[j - Len(front)]
    BY <1>2, <1>4, ConcatProperties
  <2>2. Len(front) + Len(mid) = q
    BY <1>1, <1>2, <1>4
  <2> QED
    BY <1>2, <2>1, <2>2
<1> HIDE DEF l
<1>7. /\ l \o rest \in Seq(Block) /\ Len(l \o rest) = q + (n - q + 1)
      /\ \A j \in 1 .. q + (n - q + 1) : (l \o rest)[j] = IF j <= q THEN l[j] ELSE rest[j - q]
  <2>1. l \in Seq(Block) /\ rest \in Seq(Block) /\ Len(l) = q /\ Len(rest) = n - q + 1
    BY <1>3, <1>6
  <2>2. \A m, k : Len(l) = m /\ Len(rest) = k =>
          /\ l \o rest \in Seq(Block) /\ Len(l \o rest) = m + k
          /\ \A j \in 1 .. m + k : (l \o rest)[j] = IF j <= m THEN l[j] ELSE rest[j - m]
    BY <2>1, ConcatFacts
  <2> QED
    BY <2>1, <2>2
<1>8. /\ r \in Seq(Block) /\ Len(r) = n + 1
      /\ \A j \in 1 .. n + 1 : r[j] = IF j <= q THEN l[j] ELSE rest[j - q]
  <2>1. q + (n - q + 1) = n + 1
    BY <1>1
  <2> QED
    BY <1>7, <2>1
<1> HIDE DEF r
<1>9. ASSUME NEW j \in 1 .. n + 1
      PROVE  r[j] = IF j < q THEN s[j] ELSE IF j = q THEN e ELSE s[j - 1]
  <2>1. CASE j < q
    <3>1. j \in 1 .. q /\ j \in 1 .. q - 1 /\ j <= q - 1 /\ j <= q
      BY <1>1, <2>1
    <3> QED
      BY <1>2, <1>6, <1>8, <2>1, <3>1
  <2>2. CASE j = q
    <3>1. j \in 1 .. q /\ ~(j <= q - 1) /\ j <= q /\ ~(j < q) /\ j - (q - 1) = 1
      BY <1>1, <2>2
    <3> QED
      BY <1>4, <1>6, <1>8, <2>2, <3>1
  <2>3. CASE j > q
    <3>1. ~(j <= q) /\ ~(j < q) /\ j # q /\ j - q \in 1 .. n - q + 1 /\ q + (j - q) - 1 = j - 1
      BY <1>1, <2>3
    <3> QED
      BY <1>3, <1>8, <3>1
  <2> QED
    BY <1>1, <2>1, <2>2, <2>3
<1> QED
  BY <1>5, <1>8, <1>9 DEF r, l, n

(* Taking a block out, or putting one in, leaves the order of the others.    *)
LEMMA RemoveKeeps ==
  ASSUME NEW s \in Seq(Block), NEW p \in 1 .. Len(s), NEW x, NEW y,
         Before(s, x, y), x # s[p], y # s[p]
  PROVE  Before(RemoveAt(s, p), x, y)
<1> DEFINE n == Len(s)
           r == RemoveAt(s, p)
<1>1. n \in Nat /\ DOMAIN s = 1 .. n /\ p \in 1 .. n
  BY LenProperties
<1>2. DOMAIN r = 1 .. n - 1 /\ \A j \in 1 .. n - 1 : r[j] = IF j < p THEN s[j] ELSE s[j + 1]
  <2>1. /\ r \in Seq(Block) /\ Len(r) = n - 1
        /\ \A j \in 1 .. n - 1 : r[j] = IF j < p THEN s[j] ELSE s[j + 1]
    BY RemoveFacts
  <2> HIDE DEF r
  <2>2. DOMAIN r = 1 .. Len(r)
    BY <2>1, LenProperties
  <2> QED
    BY <2>1, <2>2
<1> HIDE DEF n, r
<1>3. PICK j \in 1 .. n, k \in 1 .. n : j < k /\ s[j] = x /\ s[k] = y
  BY <1>1 DEF Before
<1>4. j # p /\ k # p
  BY <1>3
<1> DEFINE f(i) == IF i < p THEN i ELSE i - 1
<1>5. \A i \in 1 .. n : i # p => f(i) \in 1 .. n - 1 /\ r[f(i)] = s[i]
  <2> SUFFICES ASSUME NEW i \in 1 .. n, i # p PROVE f(i) \in 1 .. n - 1 /\ r[f(i)] = s[i]
    OBVIOUS
  <2>1. CASE i < p
    <3>1. i \in 1 .. n - 1
      BY <1>1, <2>1
    <3> QED
      BY <1>2, <2>1, <3>1
  <2>2. CASE i > p
    <3>1. i - 1 \in 1 .. n - 1 /\ ~(i - 1 < p) /\ i - 1 + 1 = i /\ ~(i < p)
      BY <1>1, <2>2
    <3> QED
      BY <1>2, <3>1
  <2> QED
    BY <1>1, <2>1, <2>2
<1>6. f(j) < f(k)
  BY <1>1, <1>3, <1>4
<1> HIDE DEF f
<1>7. f(j) \in DOMAIN r /\ f(k) \in DOMAIN r /\ r[f(j)] = x /\ r[f(k)] = y
  BY <1>2, <1>3, <1>4, <1>5
<1>8. Before(r, x, y)
  BY <1>6, <1>7 DEF Before
<1> QED
  BY <1>8 DEF r

LEMMA InsertKeeps ==
  ASSUME NEW s \in Seq(Block), NEW q \in 1 .. Len(s), NEW e \in Block, NEW x, NEW y,
         Before(s, x, y)
  PROVE  Before(InsertAt(s, q, e), x, y)
<1> DEFINE n == Len(s)
           r == InsertAt(s, q, e)
<1>1. n \in Nat /\ DOMAIN s = 1 .. n /\ q \in 1 .. n
  BY LenProperties
<1>2. /\ DOMAIN r = 1 .. n + 1
      /\ \A j \in 1 .. n + 1 : r[j] = IF j < q THEN s[j] ELSE IF j = q THEN e ELSE s[j - 1]
  <2>1. /\ r \in Seq(Block) /\ Len(r) = n + 1
        /\ \A j \in 1 .. n + 1 : r[j] = IF j < q THEN s[j] ELSE IF j = q THEN e ELSE s[j - 1]
    BY InsertFacts
  <2> HIDE DEF r
  <2>2. DOMAIN r = 1 .. Len(r)
    BY <2>1, LenProperties
  <2> QED
    BY <2>1, <2>2
<1> HIDE DEF n, r
<1>3. PICK j \in 1 .. n, k \in 1 .. n : j < k /\ s[j] = x /\ s[k] = y
  BY <1>1 DEF Before
<1> DEFINE f(i) == IF i < q THEN i ELSE i + 1
<1>4. \A i \in 1 .. n : f(i) \in 1 .. n + 1 /\ r[f(i)] = s[i]
  <2> SUFFICES ASSUME NEW i \in 1 .. n PROVE f(i) \in 1 .. n + 1 /\ r[f(i)] = s[i]
    OBVIOUS
  <2>1. CASE i < q
    <3>1. i \in 1 .. n + 1
      BY <1>1
    <3> QED
      BY <1>2, <2>1, <3>1
  <2>2. CASE ~(i < q)
    <3>1. i + 1 \in 1 .. n + 1 /\ ~(i + 1 < q) /\ i + 1 # q /\ i + 1 - 1 = i
      BY <1>1, <2>2
    <3> QED
      BY <1>2, <2>2, <3>1
  <2> QED
    BY <2>1, <2>2
<1>5. f(j) < f(k)
  BY <1>1, <1>3
<1> HIDE DEF f
<1>6. f(j) \in DOMAIN r /\ f(k) \in DOMAIN r /\ r[f(j)] = x /\ r[f(k)] = y
  BY <1>2, <1>3, <1>4
<1>7. Before(r, x, y)
  BY <1>5, <1>6 DEF Before
<1> QED
  BY <1>7 DEF r

(* An element of the sequence without its place p keeps an own place.        *)
LEMMA RemovePlaces ==
  ASSUME NEW s, IsOrder(s), NEW p \in 1 .. Len(s)
  PROVE  LET r == RemoveAt(s, p)
         IN  /\ r \in Seq(Block) /\ Len(r) = Len(s) - 1 /\ DOMAIN r = 1 .. Len(s) - 1
             /\ \A j, k \in DOMAIN r : r[j] = r[k] => j = k
             /\ \A j \in DOMAIN r : r[j] # s[p]
             /\ \A x \in Block : x # s[p] => \E j \in DOMAIN r : r[j] = x
<1> DEFINE n == Len(s)
           r == RemoveAt(s, p)
<1>1. n \in Nat /\ DOMAIN s = 1 .. n /\ p \in 1 .. n /\ s \in Seq(Block)
  <2>1. s \in Seq(Block)
    BY DEF IsOrder
  <2> QED
    BY <2>1, LenProperties
<1>2. /\ r \in Seq(Block) /\ Len(r) = n - 1
      /\ \A j \in 1 .. n - 1 : r[j] = IF j < p THEN s[j] ELSE s[j + 1]
  BY Zenon, <1>1, RemoveFacts
<1> HIDE DEF n, r
<1>3. DOMAIN r = 1 .. n - 1
  BY <1>2, LenProperties
<1> DEFINE g(j) == IF j < p THEN j ELSE j + 1
<1>4. \A j \in 1 .. n - 1 : g(j) \in 1 .. n /\ g(j) # p /\ r[j] = s[g(j)]
  BY <1>1, <1>2
<1>5. \A j, k \in 1 .. n - 1 : g(j) = g(k) => j = k
  BY <1>1
<1>6. \A i \in 1 .. n : i # p => \E j \in 1 .. n - 1 : g(j) = i
  <2> SUFFICES ASSUME NEW i \in 1 .. n, i # p PROVE \E j \in 1 .. n - 1 : g(j) = i
    OBVIOUS
  <2>1. CASE i < p
    <3>1. i \in 1 .. n - 1
      BY <1>1, <2>1
    <3> QED
      BY <2>1, <3>1
  <2>2. CASE i > p
    <3>1. i - 1 \in 1 .. n - 1 /\ ~(i - 1 < p) /\ i - 1 + 1 = i
      BY <1>1, <2>2
    <3>2. g(i - 1) = i
      BY <3>1
    <3> QED
      BY <3>1, <3>2
  <2> QED
    BY <1>1, <2>1, <2>2
<1> HIDE DEF g
<1>7. \A j, k \in DOMAIN r : r[j] = r[k] => j = k
  BY <1>1, <1>3, <1>4, <1>5 DEF IsOrder
<1>8. \A j \in DOMAIN r : r[j] # s[p]
  BY <1>1, <1>3, <1>4 DEF IsOrder
<1>9. ASSUME NEW x \in Block, x # s[p] PROVE \E j \in DOMAIN r : r[j] = x
  <2>1. PICK i \in 1 .. n : s[i] = x
    BY <1>1 DEF IsOrder
  <2>2. PICK j \in 1 .. n - 1 : g(j) = i
    BY <1>6, <1>9, <2>1
  <2> QED
    BY <1>3, <1>4, <2>1, <2>2
<1> QED
  BY <1>2, <1>3, <1>7, <1>8, <1>9 DEF r, n

LEMMA InsertPlaces ==
  ASSUME NEW s \in Seq(Block), \A j, k \in DOMAIN s : s[j] = s[k] => j = k,
         NEW e \in Block, \A j \in DOMAIN s : s[j] # e,
         \A x \in Block : x # e => \E j \in DOMAIN s : s[j] = x,
         NEW q \in 1 .. Len(s)
  PROVE  IsOrder(InsertAt(s, q, e)) /\ Before(InsertAt(s, q, e), e, s[q])
<1> DEFINE n == Len(s)
           r == InsertAt(s, q, e)
<1>1. n \in Nat /\ DOMAIN s = 1 .. n /\ q \in 1 .. n
  BY LenProperties
<1>2. /\ r \in Seq(Block) /\ Len(r) = n + 1
      /\ \A j \in 1 .. n + 1 : r[j] = IF j < q THEN s[j] ELSE IF j = q THEN e ELSE s[j - 1]
  BY InsertFacts
<1> HIDE DEF n, r
<1>3. DOMAIN r = 1 .. n + 1
  BY <1>2, LenProperties
<1> DEFINE g(j) == IF j < q THEN j ELSE j - 1
<1>4. \A j \in 1 .. n + 1 : j # q => g(j) \in 1 .. n /\ r[j] = s[g(j)]
  BY <1>1, <1>2
<1>5. \A j, k \in 1 .. n + 1 : j # q /\ k # q /\ g(j) = g(k) => j = k
  BY <1>1
<1>6. \A i \in 1 .. n : \E j \in 1 .. n + 1 : j # q /\ g(j) = i
  <2> SUFFICES ASSUME NEW i \in 1 .. n PROVE \E j \in 1 .. n + 1 : j # q /\ g(j) = i
    OBVIOUS
  <2>1. CASE i < q
    <3>1. i \in 1 .. n + 1 /\ i # q /\ g(i) = i
      BY <1>1, <2>1
    <3> QED
      BY <3>1
  <2>2. CASE i >= q
    <3>1. i + 1 \in 1 .. n + 1 /\ i + 1 # q /\ g(i + 1) = i
      BY <1>1, <2>2
    <3> QED
      BY <3>1
  <2> QED
    BY <1>1, <2>1, <2>2
<1>7. q \in 1 .. n + 1 /\ q + 1 \in 1 .. n + 1 /\ q + 1 # q /\ g(q + 1) = q /\ q < q + 1
  BY <1>1
<1> HIDE DEF g
<1>8. r[q] = e
  BY <1>1, <1>2, <1>7
<1>9. \A j, k \in DOMAIN r : r[j] = r[k] => j = k
  BY <1>1, <1>3, <1>4, <1>5, <1>8
<1>10. ASSUME NEW x \in Block PROVE \E j \in DOMAIN r : r[j] = x
  <2>1. CASE x = e
    BY <1>3, <1>7, <1>8, <2>1
  <2>2. CASE x # e
    <3>1. PICK i \in 1 .. n : s[i] = x
      BY <1>1, <2>2
    <3>2. PICK j \in 1 .. n + 1 : j # q /\ g(j) = i
      BY <1>6
    <3> QED
      BY <1>3, <1>4, <3>1, <3>2
  <2> QED
    BY <2>1, <2>2
<1>11. r[q + 1] = s[q]
  BY <1>4, <1>7
<1>12. IsOrder(r) /\ Before(r, e, s[q])
  BY <1>2, <1>3, <1>7, <1>8, <1>9, <1>10, <1>11 DEF IsOrder, Before
<1> QED
  BY <1>12 DEF r

(* moveBefore puts b directly in front of a and keeps the order of the rest.  *)
LEMMA MoveBeforeFacts ==
  ASSUME IsOrder(layout), NEW a \in Block, NEW b \in Block, a # b
  PROVE  LET new == MoveBefore(b, a)
         IN  /\ IsOrder(new) /\ Before(new, b, a)
             /\ \A x, y : x # b /\ y # b /\ Before(layout, x, y) => Before(new, x, y)
<1> DEFINE p == Position(b)
           r == RemoveAt(layout, p)
           q == Place(r, a)
<1>1. PICK i \in DOMAIN layout : layout[i] = b
  BY DEF IsOrder
<1>2. DOMAIN layout = 1 .. Len(layout) /\ layout \in Seq(Block)
  BY OrderFacts
<1>3. p = i
  BY <1>1, <1>2, PlaceFound DEF Position, IsOrder
<1>4. p \in 1 .. Len(layout) /\ layout[p] = b
  BY <1>1, <1>2, <1>3
<1>5. MoveBefore(b, a) = InsertAt(r, q, b)
  BY DEF MoveBefore
<1> HIDE DEF p
<1>6. /\ r \in Seq(Block) /\ Len(r) = Len(layout) - 1 /\ DOMAIN r = 1 .. Len(layout) - 1
      /\ \A j, k \in DOMAIN r : r[j] = r[k] => j = k
      /\ \A j \in DOMAIN r : r[j] # b
      /\ \A x \in Block : x # b => \E j \in DOMAIN r : r[j] = x
  <2>1. p \in 1 .. Len(layout)
    BY <1>4
  <2>2. /\ r \in Seq(Block) /\ Len(r) = Len(layout) - 1 /\ DOMAIN r = 1 .. Len(layout) - 1
        /\ \A j, k \in DOMAIN r : r[j] = r[k] => j = k
        /\ \A j \in DOMAIN r : r[j] # layout[p]
        /\ \A x \in Block : x # layout[p] => \E j \in DOMAIN r : r[j] = x
    BY <2>1, RemovePlaces
  <2> QED
    BY <1>4, <2>2
<1>7. \A x, y : x # b /\ y # b /\ Before(layout, x, y) => Before(r, x, y)
  BY <1>2, <1>4, RemoveKeeps
<1> HIDE DEF r
<1>8. PICK k \in DOMAIN r : r[k] = a
  BY <1>6
<1>9. q = k
  BY <1>6, <1>8, PlaceFound
<1>10. q \in DOMAIN r /\ q \in 1 .. Len(r) /\ r[q] = a
  BY <1>6, <1>8, <1>9
<1> HIDE DEF q
<1>11. IsOrder(InsertAt(r, q, b)) /\ Before(InsertAt(r, q, b), b, a)
  BY <1>6, <1>10, InsertPlaces
<1>12. \A x, y : Before(r, x, y) => Before(InsertAt(r, q, b), x, y)
  BY <1>6, <1>10, InsertKeeps
<1> QED
  BY <1>5, <1>7, <1>11, <1>12

(* In an order, what comes before is transitive and read off the positions.  *)
LEMMA BeforeTransitive ==
  ASSUME NEW s, IsOrder(s), NEW a, NEW b, NEW c, Before(s, a, b), Before(s, b, c)
  PROVE  Before(s, a, c)
<1>1. DOMAIN s = 1 .. Len(s) /\ Len(s) \in Nat
  BY OrderFacts
<1>2. PICK j \in DOMAIN s, k \in DOMAIN s : j < k /\ s[j] = a /\ s[k] = b
  BY DEF Before
<1>3. PICK l \in DOMAIN s, m \in DOMAIN s : l < m /\ s[l] = b /\ s[m] = c
  BY DEF Before
<1>4. k = l
  BY <1>2, <1>3 DEF IsOrder
<1>5. j < m
  BY <1>1, <1>2, <1>3, <1>4
<1> QED
  BY <1>2, <1>3, <1>5 DEF Before

LEMMA BeforePositions ==
  ASSUME IsOrder(layout), NEW a, NEW b, Before(layout, a, b)
  PROVE  Position(a) \in Nat /\ Position(b) \in Nat /\ Position(a) < Position(b)
<1>1. /\ DOMAIN layout = 1 .. Len(layout) /\ Len(layout) \in Nat /\ layout \in Seq(Block)
      /\ \A j, k \in DOMAIN layout : layout[j] = layout[k] => j = k
  BY OrderFacts DEF IsOrder
<1>2. PICK j \in DOMAIN layout, k \in DOMAIN layout : j < k /\ layout[j] = a /\ layout[k] = b
  BY DEF Before
<1>3. Position(a) = j
  BY <1>1, <1>2, PlaceFound DEF Position
<1>4. Position(b) = k
  BY <1>1, <1>2, PlaceFound DEF Position
<1> QED
  BY <1>1, <1>2, <1>3, <1>4

-----------------------------------------------------------------------------
(* The moves.                                                               *)

LEMMA MoveInit == Init => MoveInv
<1> SUFFICES ASSUME Init PROVE MoveInv
  OBVIOUS
<1> DEFINE n == Cardinality(Block)
<1>1. n \in Nat /\ Block = 0 .. n - 1
  BY CFGsAssumption, FS_CardinalityType
<1>2. layout = [i \in 1 .. n |-> i - 1]
  BY DEF Init
<1> HIDE DEF n
<1>3. layout \in Seq(Block)
  <2>1. \A i \in 1 .. n : i - 1 \in Block
    BY <1>1
  <2> QED
    BY <1>1, <1>2, <2>1, SeqDef
<1>4. DOMAIN layout = 1 .. n
  BY <1>2
<1>5. \A j, k \in DOMAIN layout : layout[j] = layout[k] => j = k
  BY <1>1, <1>2
<1>6. \A b \in Block : b + 1 \in DOMAIN layout /\ layout[b + 1] = b
  BY <1>1, <1>2
<1>7. \A b \in Block : \E j \in DOMAIN layout : layout[j] = b
  BY <1>6
<1>8. IsOrder(layout)
  BY <1>3, <1>5, <1>7 DEF IsOrder
<1>9. phase = "visit" /\ moved = 1
  BY DEF Init
<1> QED
  BY <1>8, <1>9 DEF MoveInv

(* When no call is active, the list has every block once.                   *)
LEMMA AllListed ==
  ASSUME VisitInv, frames = <<>>
  PROVE  IsOrder(blockList) /\ 1 <= Len(blockList)
<1>1. cfg \in CFGs /\ visitedBlocks \in SUBSET Block /\ entry \in visitedBlocks
      /\ blockList \in Seq(Block)
  BY DEF VisitInv, VisitType
<1>2. \A b : ~Active(b)
  BY DEF Active
<1>3. \A b \in visitedBlocks : Listed(b) /\ ToSet(cfg[b]) \subseteq visitedBlocks
  BY <1>1, <1>2 DEF VisitInv, VisitedOnce, SuccessorsVisited
<1>4. visitedBlocks = Block
  BY <1>1, <1>3, AllReached
<1>5. IsOrder(blockList)
  BY <1>1, <1>3, <1>4 DEF VisitInv, VisitedOnce, IsOrder, Listed
<1>6. Listed(entry)
  BY <1>1, <1>3
<1>7. 1 <= Len(blockList)
  BY <1>5, <1>6, OrderFacts DEF Listed
<1> QED
  BY <1>5, <1>7

LEMMA SortedStep == SortInv /\ Sorted => SortInv'
<1> SUFFICES ASSUME SortInv, Sorted PROVE SortInv'
  OBVIOUS
<1>1. VisitInv'
  BY VisitStable DEF SortInv, Sorted
<1>2. frames' = <<>> /\ blockList' = blockList /\ layout' = layout /\ moved' = moved
      /\ phase' = "move" /\ IsOrder(blockList) /\ Len(blockList) \in Nat
  BY AllListed, OrderFacts DEF SortInv, Sorted
<1>3. IsOrder(layout)' /\ IsOrder(blockList)'
  BY <1>2 DEF SortInv, MoveInv, IsOrder
<1>4. moved = 1
  BY DEF SortInv, MoveInv, Sorted
<1>5. \A j, k \in DOMAIN blockList : ~(j < k /\ k <= moved)
  <2>1. DOMAIN blockList = 1 .. Len(blockList)
    BY <1>2, OrderFacts
  <2> QED
    BY <1>4, <2>1
<1>6. moved <= Len(blockList)
  BY <1>4, AllListed DEF SortInv, Sorted
<1>7. MoveInv'
  BY <1>2, <1>3, <1>4, <1>5, <1>6 DEF MoveInv
<1> QED
  BY <1>1, <1>7 DEF SortInv

LEMMA MoveNextStep == SortInv /\ MoveNext => SortInv'
<1> SUFFICES ASSUME SortInv, MoveNext PROVE SortInv'
  OBVIOUS
<1> DEFINE a == blockList[moved]
           b == blockList[moved + 1]
           m == Len(blockList)
<1>1. VisitInv'
  BY VisitStable DEF SortInv, MoveNext
<1>2. /\ frames' = frames /\ blockList' = blockList /\ phase' = phase /\ phase = "move"
      /\ layout' = MoveBefore(b, a) /\ moved' = moved + 1 /\ moved + 1 <= m
  BY DEF MoveNext
<1>3. /\ moved \in Nat \ {0} /\ frames = <<>> /\ IsOrder(blockList) /\ IsOrder(layout)
      /\ \A j, k \in DOMAIN blockList :
           j < k /\ k <= moved => Before(layout, blockList[k], blockList[j])
  BY <1>2 DEF SortInv, MoveInv
<1>4. m \in Nat /\ DOMAIN blockList = 1 .. m /\ \A j \in 1 .. m : blockList[j] \in Block
  BY <1>3, OrderFacts
<1> HIDE DEF m
<1>5. moved \in 1 .. m /\ moved + 1 \in 1 .. m /\ moved # moved + 1
  BY <1>2, <1>3, <1>4
<1>6. \A j, k \in 1 .. m : blockList[j] = blockList[k] => j = k
  BY <1>3, <1>4 DEF IsOrder
<1>7. a \in Block /\ b \in Block /\ a # b
  BY <1>4, <1>5, <1>6
<1>8. /\ IsOrder(layout') /\ Before(layout', b, a)
      /\ \A x, y : x # b /\ y # b /\ Before(layout, x, y) => Before(layout', x, y)
  BY <1>2, <1>3, <1>7, MoveBeforeFacts
<1>9. ASSUME NEW j \in 1 .. m, NEW k \in 1 .. m, j < k, k <= moved + 1
      PROVE  Before(layout', blockList[k], blockList[j])
  <2>1. CASE k <= moved
    <3>1. k # moved + 1 /\ j # moved + 1
      BY <1>3, <1>4, <1>9, <2>1
    <3>2. blockList[k] # b /\ blockList[j] # b
      BY <1>5, <1>6, <3>1
    <3>3. Before(layout, blockList[k], blockList[j])
      BY <1>3, <1>4, <1>9, <2>1
    <3> QED
      BY <1>8, <3>2, <3>3
  <2>2. CASE k = moved + 1 /\ j = moved
    BY <1>8, <2>2
  <2>3. CASE k = moved + 1 /\ j < moved
    <3>1. j # moved + 1 /\ moved # moved + 1
      BY <1>3, <1>4, <2>3
    <3>2. a # b /\ blockList[j] # b
      BY <1>5, <1>6, <3>1
    <3>3. Before(layout, a, blockList[j])
      <4>1. moved <= moved
        BY <1>3
      <4> QED
        BY <1>3, <1>4, <1>5, <2>3, <4>1
    <3>4. Before(layout', a, blockList[j])
      BY <1>8, <3>2, <3>3
    <3>5. Before(layout', b, blockList[j])
      BY <1>8, <3>4, BeforeTransitive
    <3> QED
      BY <2>3, <3>5
  <2>4. k <= moved \/ k = moved + 1
    BY <1>3, <1>4, <1>9
  <2>5. k = moved + 1 => j = moved \/ j < moved
    BY <1>3, <1>4, <1>9
  <2> QED
    BY <2>1, <2>2, <2>3, <2>4, <2>5
<1>10. IsOrder(layout)' /\ IsOrder(blockList)'
  BY <1>2, <1>3, <1>8 DEF IsOrder
<1>11. \A j, k \in DOMAIN blockList' :
         j < k /\ k <= moved' => Before(layout, blockList[k], blockList[j])'
  BY <1>2, <1>4, <1>9 DEF Before
<1>12. moved' \in Nat \ {0} /\ moved' <= Len(blockList') /\ phase' = "move" /\ frames' = <<>>
  BY <1>2, <1>3 DEF m
<1>13. MoveInv'
  BY <1>10, <1>11, <1>12 DEF MoveInv
<1> QED
  BY <1>1, <1>13 DEF SortInv

LEMMA DoneStep == SortInv /\ Done => SortInv'
<1> SUFFICES ASSUME SortInv, Done PROVE SortInv'
  OBVIOUS
<1>1. VisitInv'
  BY VisitStable DEF SortInv, Done
<1>2. MoveInv'
  BY DEF SortInv, MoveInv, IsOrder, Before, Done
<1> QED
  BY <1>1, <1>2 DEF SortInv

(* The moves wait for the visit to end.                                     *)
LEMMA VisitStep ==
  ASSUME SortInv, VisitSuccessor \/ SkipSuccessor \/ LeaveBlock
  PROVE  SortInv'
<1>1. VisitInv'
  BY VisitSuccessorStep, SkipSuccessorStep, LeaveBlockStep DEF SortInv
<1>2. phase = "visit" /\ phase' = "visit" /\ layout' = layout /\ moved' = moved
  BY DEF VisitSuccessor, SkipSuccessor, LeaveBlock, InLoop
<1>3. MoveInv'
  BY <1>2 DEF SortInv, MoveInv, IsOrder
<1> QED
  BY <1>1, <1>3 DEF SortInv

LEMMA SortInductive == SortInv /\ [Next]_vars => SortInv'
<1> SUFFICES ASSUME SortInv, [Next]_vars PROVE SortInv'
  OBVIOUS
<1>1. CASE VisitSuccessor \/ SkipSuccessor \/ LeaveBlock
  BY <1>1, VisitStep
<1>2. CASE Sorted
  BY <1>2, SortedStep
<1>3. CASE MoveNext
  BY <1>3, MoveNextStep
<1>4. CASE Done
  BY <1>4, DoneStep
<1>5. CASE UNCHANGED vars
  <2>1. VisitInv'
    BY <1>5, VisitStable DEF SortInv, vars
  <2>2. MoveInv'
    BY <1>5 DEF SortInv, MoveInv, IsOrder, Before, vars
  <2> QED
    BY <2>1, <2>2 DEF SortInv
<1> QED
  BY <1>1, <1>2, <1>3, <1>4, <1>5 DEF Next

LEMMA SortInvariant == Spec => []SortInv
<1>1. Init => SortInv
  BY VisitInit, MoveInit DEF SortInv
<1> QED
  BY <1>1, SortInductive, PTL DEF Spec

-----------------------------------------------------------------------------
(* The theorems.                                                            *)

(* After the last move the layout is blockList turned round.                 *)
LEMMA Reversed ==
  ASSUME SortInv, phase # "visit", moved = Len(blockList)
  PROVE  /\ IsOrder(blockList) /\ IsOrder(layout)
         /\ \A b : ~Active(b)
         /\ \A j, k \in DOMAIN blockList : j < k =>
              /\ Position(blockList[k]) \in Nat /\ Position(blockList[j]) \in Nat
              /\ Position(blockList[k]) < Position(blockList[j])
<1>1. /\ IsOrder(blockList) /\ IsOrder(layout) /\ frames = <<>> /\ moved = Len(blockList)
      /\ \A j, k \in DOMAIN blockList :
            j < k /\ k <= moved => Before(layout, blockList[k], blockList[j])
  BY DEF SortInv, MoveInv
<1>2. DOMAIN blockList = 1 .. Len(blockList) /\ Len(blockList) \in Nat
  BY <1>1, OrderFacts
<1>3. \A b : ~Active(b)
  BY <1>1 DEF Active
<1>4. \A j, k \in DOMAIN blockList : j < k => Before(layout, blockList[k], blockList[j])
  BY <1>1, <1>2
<1> QED
  BY <1>1, <1>3, <1>4, BeforePositions

(* The positions of a function's blocks are numbers.                        *)
LEMMA PositionType ==
  ASSUME IsOrder(layout), NEW b \in Block
  PROVE  Position(b) \in Nat
<1>1. PICK k \in DOMAIN layout : layout[k] = b
  BY DEF IsOrder
<1>2. layout \in Seq(Block) /\ DOMAIN layout = 1 .. Len(layout) /\ Len(layout) \in Nat
  BY OrderFacts
<1>3. Position(b) = k
  BY <1>1, <1>2, PlaceFound DEF Position, IsOrder
<1> QED
  BY <1>2, <1>3

(* A block's dominators come before it in the final order.                  *)
LEMMA DominatorsBefore ==
  ASSUME SortInv, phase # "visit", moved = Len(blockList),
         NEW d \in Block, NEW b \in Block, Dominates(d, b)
  PROVE  Position(d) <= Position(b)
<1>1. /\ IsOrder(blockList) /\ IsOrder(layout) /\ ~Active(d)
      /\ \A j, k \in DOMAIN blockList : j < k =>
           /\ Position(blockList[k]) \in Nat /\ Position(blockList[j]) \in Nat
           /\ Position(blockList[k]) < Position(blockList[j])
  BY Reversed
<1>2. PICK j \in DOMAIN blockList : blockList[j] = b
  BY <1>1 DEF IsOrder
<1>3. PICK k \in DOMAIN blockList : j <= k /\ blockList[k] = d
  BY <1>1, <1>2 DEF SortInv, VisitInv, ListedOrder
<1>4. Position(b) \in Nat
  BY <1>1, PositionType
<1>5. DOMAIN blockList = 1 .. Len(blockList) /\ Len(blockList) \in Nat
  BY <1>1, OrderFacts
<1>6. CASE j = k
  BY <1>2, <1>3, <1>4, <1>6
<1>7. CASE j < k
  BY <1>1, <1>2, <1>3, <1>7
<1> QED
  BY <1>3, <1>5, <1>6, <1>7

LEMMA DominatorsFirstLemma == SortInv => DominatorsFirst
BY DominatorsBefore DEF DominatorsFirst, allMoved

(* In every function the blocks that dominate a block come before it when    *)
(* BasicBlockSorter has moved the last block.                               *)
THEOREM DominatorsCorrect == Spec => []DominatorsFirst
BY DominatorsFirstLemma, SortInvariant, PTL

LEMMA BackwardEdgesLemma == SortInv => BackwardEdgesCloseLoops
<1> SUFFICES ASSUME SortInv, allMoved, NEW u \in Block, NEW v \in ToSet(cfg[u]),
                    Position(v) <= Position(u)
             PROVE  u \in ReachedAvoiding(v, entry)
  BY DEF BackwardEdgesCloseLoops
<1>1. /\ IsOrder(blockList)
      /\ \A j, k \in DOMAIN blockList : j < k =>
           /\ Position(blockList[k]) \in Nat /\ Position(blockList[j]) \in Nat
           /\ Position(blockList[k]) < Position(blockList[j])
  BY Reversed DEF allMoved
<1>2. PICK j \in DOMAIN blockList : blockList[j] = u
  BY <1>1 DEF IsOrder
<1>3. CASE \E k \in DOMAIN blockList : k < j /\ blockList[k] = v
  BY <1>1, <1>2, <1>3
<1>4. CASE blockList[j] \in ReachedAvoiding(v, entry)
  BY <1>2, <1>4
<1> QED
  BY <1>2, <1>3, <1>4 DEF SortInv, VisitInv, ListedOrder

(* In every function an edge that leads backwards in the final order closes  *)
(* a loop.                                                                  *)
THEOREM BackwardEdgesCorrect == Spec => []BackwardEdgesCloseLoops
BY BackwardEdgesLemma, SortInvariant, PTL

-----------------------------------------------------------------------------
(* The graph.                                                               *)

(* A dominator of a block, other than the block, dominates its predecessors. *)
LEMMA DominatesBefore ==
  ASSUME cfg \in CFGs, NEW u \in Block, NEW v \in ToSet(cfg[u]),
         NEW d \in Block, d # v, Dominates(d, v)
  PROVE  Dominates(d, u)
<1>1. CASE d = entry
  BY <1>1 DEF Dominates
<1>2. CASE d # entry
  <2>1. v \notin ReachedAvoiding(entry, d)
    BY <1>2 DEF Dominates
  <2>2. u \notin ReachedAvoiding(entry, d)
    BY <2>1, ReachedOn
  <2> QED
    BY <2>2 DEF Dominates
<1> QED
  BY <1>1, <1>2

(* Only the entry block dominates the entry block, and every block itself.   *)
LEMMA DominatesEntry ==
  ASSUME cfg \in CFGs, NEW d \in Block, Dominates(d, entry)
  PROVE  d = entry
<1>1. entry \in ReachedAvoiding(entry, d)
  BY ReachedHere, GraphFacts
<1> QED
  BY <1>1 DEF Dominates

(* A path without repetition that has every dominator of a block before the  *)
(* block, and an edge from its end back into it: that edge leads to a         *)
(* dominator, in a function whose loops have one entry each.                 *)
LEMMA RingDominates ==
  ASSUME cfg \in CFGs, Reducible, NEW n \in Nat, NEW s, NEW k \in 1 .. n,
         \A j \in 1 .. n : s[j] \in Block,
         \A i, j \in 1 .. n : s[i] = s[j] => i = j,
         \A j \in 1 .. n - 1 : s[j + 1] \in ToSet(cfg[s[j]]),
         \A l \in 1 .. n : \A d \in Block : Dominates(d, s[l]) => \E i \in 1 .. l : s[i] = d,
         s[k] \in ToSet(cfg[s[n]])
  PROVE  Dominates(s[k], s[n])
<1> SUFFICES ASSUME ~Dominates(s[k], s[n]) PROVE FALSE
  OBVIOUS
<1> DEFINE S == {s[j] : j \in k .. n}
<1>1. \A j \in k .. n : j \in 1 .. n
  OBVIOUS
<1>2. S \in SUBSET Block /\ s[k] \in S
  BY <1>1
<1>3. ASSUME NEW u \in S PROVE \E v \in ToSet(cfg[u]) \cap S : ~Dominates(v, u)
  <2>1. PICK j \in k .. n : u = s[j]
    BY <1>3
  <2>2. CASE j = n
    BY <1>2, <2>1, <2>2
  <2>3. CASE j # n
    <3>1. j \in 1 .. n - 1 /\ j + 1 \in k .. n /\ j + 1 \in 1 .. n /\ j \in 1 .. n
      BY <2>1, <2>3
    <3>2. s[j + 1] \in ToSet(cfg[u]) /\ s[j + 1] \in S /\ s[j + 1] \in Block
      BY <2>1, <3>1
    <3>3. ASSUME Dominates(s[j + 1], u) PROVE FALSE
      <4>1. PICK i \in 1 .. j : s[i] = s[j + 1]
        BY <2>1, <3>1, <3>2, <3>3
      <4>2. i \in 1 .. n /\ i # j + 1
        BY <3>1
      <4> QED
        BY <3>1, <4>1, <4>2
    <3> QED
      BY <3>2, <3>3
  <2> QED
    BY <2>2, <2>3
<1> HIDE DEF S
<1>4. S = {}
  BY <1>2, <1>3 DEF Reducible
<1> QED
  BY <1>2, <1>4

(* What is said of the graph stays true.                                    *)
LEMMA PassGraphStable ==
  ASSUME cfg' = cfg
  PROVE  (Reducible' <=> Reducible) /\ \A d, b : Dominates(d, b)' <=> Dominates(d, b)
BY DEF ReachedAvoiding, Dominates, Reducible

-----------------------------------------------------------------------------
(* The edges that BasicBlockSorter leaves to lead backwards.                 *)

(* The active calls are a path.                                             *)
CallsLinked ==
  \A k \in DOMAIN frames : k + 1 \in DOMAIN frames =>
    frames[k + 1].BB \in ToSet(cfg[frames[k].BB])

(* The successors of a listed block are listed before it or dominate it.     *)
ListedForward ==
  Reducible =>
    \A j \in DOMAIN blockList : \A v \in ToSet(cfg[blockList[j]]) :
      \/ \E k \in DOMAIN blockList : k < j /\ blockList[k] = v
      \/ Dominates(v, blockList[j])

ForwardInv ==
  /\ CallsLinked
  /\ ListedForward
  /\ phase = "done" => moved = Len(blockList)

LEMMA ForwardInit == Init => ForwardInv
<1> SUFFICES ASSUME Init PROVE ForwardInv
  OBVIOUS
<1>1. DOMAIN frames = {1} /\ DOMAIN blockList = {} /\ phase = "visit"
  BY DEF Init
<1>2. CallsLinked
  BY <1>1 DEF CallsLinked
<1> QED
  BY <1>1, <1>2 DEF ForwardInv, ListedForward

(* A step that keeps the list.                                              *)
LEMMA ListedForwardStable ==
  ASSUME ListedForward, cfg' = cfg, blockList' = blockList
  PROVE  ListedForward'
BY PassGraphStable DEF ListedForward

LEMMA ForwardVisitSuccessor == VisitInv /\ ForwardInv /\ VisitSuccessor => ForwardInv'
<1> SUFFICES ASSUME VisitInv, ForwardInv, VisitSuccessor PROVE ForwardInv'
  OBVIOUS
<1> DEFINE n == Len(frames)
           s == Successor
<1>1. InLoop /\ cfg' = cfg /\ blockList' = blockList /\ phase' = phase /\ phase = "visit"
      /\ frames' = Append(CountDown, Call(s))
  BY DEF VisitSuccessor, InLoop
<1>2. /\ n \in Nat /\ n > 0 /\ DOMAIN frames = 1 .. n /\ Top = frames[n]
      /\ s \in ToSet(cfg[frames[n].BB])
  BY <1>1, TopFacts
<1>3. /\ CountDown \in Seq(Frame) /\ Len(CountDown) = n /\ DOMAIN CountDown = 1 .. n
      /\ \A k \in 1 .. n : CountDown[k].BB = frames[k].BB
  BY <1>1, <1>2, CountDownFacts
<1>4. Call(s).BB = s
  BY DEF Call
<1> HIDE DEF n, s
<1> DEFINE f == Append(CountDown, Call(s))
<1>5. DOMAIN f = 1 .. n + 1 /\ (\A k \in 1 .. n : f[k] = CountDown[k]) /\ f[n + 1] = Call(s)
  BY <1>2, <1>3
<1> HIDE DEF f
<1>6. ASSUME NEW k \in 1 .. n + 1, k + 1 \in 1 .. n + 1
      PROVE  f[k + 1].BB \in ToSet(cfg[f[k].BB])
  <2>1. CASE k = n
    BY <1>2, <1>3, <1>4, <1>5, <2>1
  <2>2. CASE k # n
    <3>1. k \in 1 .. n /\ k + 1 \in 1 .. n
      BY <1>2, <1>6, <2>2
    <3>2. frames[k + 1].BB \in ToSet(cfg[frames[k].BB])
      BY <1>2, <3>1 DEF ForwardInv, CallsLinked
    <3> QED
      BY <1>3, <1>5, <3>1, <3>2
  <2> QED
    BY <2>1, <2>2
<1>7. frames' = f
  BY <1>1 DEF f
<1>8. CallsLinked'
  BY <1>1, <1>5, <1>6, <1>7 DEF CallsLinked
<1>9. ListedForward'
  BY <1>1, ListedForwardStable DEF ForwardInv
<1> QED
  BY <1>1, <1>8, <1>9 DEF ForwardInv

LEMMA ForwardSkipSuccessor == VisitInv /\ ForwardInv /\ SkipSuccessor => ForwardInv'
<1> SUFFICES ASSUME VisitInv, ForwardInv, SkipSuccessor PROVE ForwardInv'
  OBVIOUS
<1>1. InLoop /\ cfg' = cfg /\ blockList' = blockList /\ phase' = phase /\ phase = "visit"
      /\ frames' = CountDown
  BY DEF SkipSuccessor, InLoop
<1>2. DOMAIN frames' = DOMAIN frames /\ \A k \in DOMAIN frames : frames'[k].BB = frames[k].BB
  BY <1>1, CountDownFacts
<1>3. CallsLinked'
  BY <1>1, <1>2 DEF ForwardInv, CallsLinked
<1>4. ListedForward'
  BY <1>1, ListedForwardStable DEF ForwardInv
<1> QED
  BY <1>1, <1>3, <1>4 DEF ForwardInv

(* The successors of the block that is left are listed, or active below it.   *)
LEMMA ForwardLeaveBlock == VisitInv /\ ForwardInv /\ LeaveBlock => ForwardInv'
<1> SUFFICES ASSUME VisitInv, ForwardInv, LeaveBlock PROVE ForwardInv'
  OBVIOUS
<1> DEFINE n == Len(frames)
           m == Len(blockList)
           t == frames[n].BB
           s == [k \in 1 .. n |-> frames[k].BB]
<1>0. cfg' = cfg /\ cfg \in CFGs /\ phase' = phase /\ phase = "visit"
      /\ frames # <<>> /\ frames[n].idx = 0
      /\ frames' = Front(frames) /\ blockList' = Append(blockList, t)
  BY DEF LeaveBlock, VisitInv, VisitType, Top, Last
<1>1. n \in Nat /\ n > 0 /\ DOMAIN frames = 1 .. n /\ frames \in Seq(Frame)
      /\ \A k \in 1 .. n : frames[k] \in Frame
  BY <1>0, LenProperties, EmptySeq, ElementOfSeq DEF VisitInv, VisitType
<1>2. m \in Nat /\ DOMAIN blockList = 1 .. m /\ blockList \in Seq(Block)
  BY LenProperties DEF VisitInv, VisitType
<1>3. t \in Block /\ n \in 1 .. n
  BY <1>1 DEF Frame
<1>4. DOMAIN Front(frames) = 1 .. n - 1 /\ \A k \in 1 .. n - 1 : Front(frames)[k] = frames[k]
  BY <1>1 DEF Front
<1> HIDE DEF n, m, t, s
<1>5. CallsLinked'
  <2>1. ASSUME NEW k \in 1 .. n - 1, k + 1 \in 1 .. n - 1
        PROVE  frames'[k + 1].BB \in ToSet(cfg[frames'[k].BB])
    <3>1. k \in 1 .. n /\ k + 1 \in 1 .. n
      BY <1>1
    <3>2. frames[k + 1].BB \in ToSet(cfg[frames[k].BB])
      BY <1>1, <3>1 DEF ForwardInv, CallsLinked
    <3> QED
      BY <1>0, <1>4, <2>1, <3>2
  <2> QED
    BY <1>0, <1>4, <2>1 DEF CallsLinked
<1>6. /\ DOMAIN blockList' = 1 .. m + 1 /\ blockList'[m + 1] = t
      /\ \A j \in 1 .. m : blockList'[j] = blockList[j]
  BY <1>0, <1>2
<1>7. ASSUME Reducible, NEW v \in ToSet(cfg[t])
      PROVE  (\E k \in 1 .. m : blockList[k] = v) \/ Dominates(v, t)
  <2>1. v \in Block
    BY <1>0, <1>3, <1>7, GraphFacts
  <2>2. v \in visitedBlocks
    <3>1. PICK j \in DOMAIN cfg[t] : cfg[t][j] = v
      BY <1>7 DEF ToSet
    <3>2. j > frames[n].idx
      BY <1>0, <1>3, <3>1, GraphFacts
    <3> QED
      BY <1>1, <1>3, <3>1, <3>2 DEF VisitInv, SuccessorsVisited, t
  <2>3. CASE Listed(v)
    BY <1>2, <2>3 DEF Listed
  <2>4. CASE Active(v)
    <3>1. PICK k \in 1 .. n : frames[k].BB = v
      BY <1>1, <2>4 DEF Active
    <3>2. \A j \in 1 .. n : s[j] = frames[j].BB /\ s[j] \in Block
      BY <1>1 DEF s, Frame
    <3>3. \A i, j \in 1 .. n : s[i] = s[j] => i = j
      BY <1>1, <3>2 DEF VisitInv, VisitedOnce
    <3>4. \A j \in 1 .. n - 1 : s[j + 1] \in ToSet(cfg[s[j]])
      <4>1. \A j \in 1 .. n - 1 : j \in 1 .. n /\ j + 1 \in 1 .. n
        BY <1>1
      <4> QED
        BY <1>1, <3>2, <4>1 DEF ForwardInv, CallsLinked
    <3>5. ASSUME NEW l \in 1 .. n, NEW d \in Block, Dominates(d, s[l])
          PROVE  \E i \in 1 .. l : s[i] = d
      <4>0. \A i \in 1 .. l : i \in 1 .. n
        BY <1>1
      <4>1. CASE d = entry
        <5>1. frames[1].BB = entry /\ 1 \in 1 .. l
          BY <1>0 DEF VisitInv, PathActive
        <5> QED
          BY <3>2, <4>0, <4>1, <5>1
      <4>2. CASE d # entry
        <5>1. d = s[l] \/ s[l] \notin ReachedAvoiding(entry, d)
          BY <3>5, <4>2 DEF Dominates
        <5>2. l \in 1 .. l /\ (d = s[l] => s[l] = d)
          OBVIOUS
        <5>3. s[l] \notin ReachedAvoiding(entry, d) => \E i \in 1 .. l : frames[i].BB = d
          BY <1>1, <3>2 DEF VisitInv, PathActive
        <5> QED
          BY <3>2, <4>0, <5>1, <5>2, <5>3
      <4> QED
        BY <4>1, <4>2
    <3>6. s[k] = v /\ s[n] = t
      BY <1>3, <3>1, <3>2 DEF t
    <3>7. Dominates(s[k], s[n])
      BY <1>0, <1>1, <1>7, <3>2, <3>3, <3>4, <3>5, <3>6, RingDominates
    <3> QED
      BY <3>6, <3>7
  <2> QED
    BY <2>1, <2>2, <2>3, <2>4 DEF VisitInv, VisitedOnce
<1>8. ListedForward'
  <2> SUFFICES ASSUME Reducible, NEW j \in 1 .. m + 1, NEW v \in ToSet(cfg[blockList'[j]])
               PROVE  \/ \E k \in 1 .. m + 1 : k < j /\ blockList'[k] = v
                      \/ Dominates(v, blockList'[j])
    BY <1>0, <1>6, PassGraphStable DEF ListedForward
  <2>0. \A k \in 1 .. m : k \in 1 .. m + 1 /\ k < m + 1
    BY <1>2
  <2>1. CASE j = m + 1
    BY <1>6, <1>7, <2>0, <2>1
  <2>2. CASE j # m + 1
    <3>1. j \in 1 .. m
      BY <1>2, <2>2
    <3>2. \/ \E k \in 1 .. m : k < j /\ blockList[k] = v
          \/ Dominates(v, blockList[j])
      BY <1>2, <1>6, <3>1 DEF ForwardInv, ListedForward
    <3> QED
      BY <1>6, <2>0, <3>1, <3>2
  <2> QED
    BY <2>1, <2>2
<1> QED
  BY <1>0, <1>5, <1>8 DEF ForwardInv

LEMMA ForwardNext == SortInv /\ ForwardInv /\ [Next]_vars => ForwardInv'
<1> SUFFICES ASSUME SortInv, ForwardInv, [Next]_vars PROVE ForwardInv'
  OBVIOUS
<1>1. CASE VisitSuccessor \/ SkipSuccessor \/ LeaveBlock
  BY <1>1, ForwardVisitSuccessor, ForwardSkipSuccessor, ForwardLeaveBlock DEF SortInv
<1>2. CASE Sorted \/ MoveNext \/ Done \/ UNCHANGED vars
  <2>1. cfg' = cfg /\ frames' = frames /\ blockList' = blockList
    BY <1>2 DEF Sorted, MoveNext, Done, vars
  <2>2. phase' = "done" => moved' = Len(blockList')
    BY <1>2 DEF Sorted, MoveNext, Done, vars, ForwardInv
  <2>3. CallsLinked'
    BY <2>1 DEF ForwardInv, CallsLinked
  <2>4. ListedForward'
    BY <2>1, ListedForwardStable DEF ForwardInv
  <2> QED
    BY <2>2, <2>3, <2>4 DEF ForwardInv
<1> QED
  BY <1>1, <1>2 DEF Next

(* In the final order every edge but those to dominators leads forwards.     *)
LEMMA ForwardEdges ==
  ASSUME SortInv, ForwardInv, phase = "done", Reducible,
         NEW u \in Block, NEW v \in ToSet(cfg[u]), ~Dominates(v, u)
  PROVE  Position(u) < Position(v)
<1>1. phase # "visit" /\ moved = Len(blockList)
  BY DEF ForwardInv
<1>2. /\ IsOrder(blockList)
      /\ \A j, k \in DOMAIN blockList : j < k => Position(blockList[k]) < Position(blockList[j])
  BY <1>1, Reversed
<1>3. PICK j \in DOMAIN blockList : blockList[j] = u
  BY <1>2 DEF IsOrder
<1>4. PICK k \in DOMAIN blockList : k < j /\ blockList[k] = v
  BY <1>3 DEF ForwardInv, ListedForward
<1> QED
  BY <1>2, <1>3, <1>4

-----------------------------------------------------------------------------
(* The edges that FindFunctionBackedges finds.                               *)

Entered == [BB : Block, idx : 1 .. 3]

SearchType ==
  /\ cfg \in CFGs
  /\ stack \in Seq(Entered)
  /\ searched \in SUBSET Block
  /\ entry \in searched

(* The stack is a path without repetition from the entry block, on which the  *)
(* dominators of a block come before it.                                     *)
StackPath ==
  /\ \A k \in DOMAIN stack : stack[k].BB \in searched
  /\ \A k, l \in DOMAIN stack : stack[k].BB = stack[l].BB => k = l
  /\ \A k \in DOMAIN stack : k + 1 \in DOMAIN stack =>
       stack[k + 1].BB \in ToSet(cfg[stack[k].BB])
  /\ \A l \in DOMAIN stack : \A d \in Block :
       Dominates(d, stack[l].BB) => \E k \in 1 .. l : stack[k].BB = d

(* What is found are edges, to dominators if loops have one entry.            *)
FoundEdges ==
  \A u \in Block : \A h \in Block : <<u, h>> \in backedges =>
    h \in ToSet(cfg[u]) /\ (Reducible => Dominates(h, u))

(* Of a searched block the search has been along the successors before idx,   *)
(* and has found the edges to dominators among them.                         *)
Along(u, v) == v \in searched /\ (Dominates(v, u) => <<u, v>> \in backedges)
Ahead(u, j) == \E k \in DOMAIN stack : stack[k].BB = u /\ stack[k].idx <= j

EdgesSearched ==
  \A u \in searched : \A j \in DOMAIN cfg[u] : Ahead(u, j) \/ Along(u, cfg[u][j])

SearchInv == SearchType /\ StackPath /\ FoundEdges /\ EdgesSearched

LEMMA SearchInit == PassInit => SearchInv
<1> SUFFICES ASSUME PassInit PROVE SearchInv
  OBVIOUS
<1>1. cfg \in CFGs /\ entry \in Block
  BY GraphFacts DEF PassInit, Init
<1>2. stack = <<[BB |-> entry, idx |-> 1]>> /\ searched = {entry} /\ backedges = {}
  BY DEF PassInit
<1>3. DOMAIN stack = {1} /\ stack[1].BB = entry /\ stack[1].idx = 1
  BY <1>2
<1>4. SearchType
  BY <1>1, <1>2 DEF SearchType, Entered
<1>5. StackPath
  BY <1>1, <1>2, <1>3, DominatesEntry DEF StackPath
<1>6. FoundEdges
  BY <1>2 DEF FoundEdges
<1>7. EdgesSearched
  <2>1. \A j \in DOMAIN cfg[entry] : 1 <= j
    BY <1>1, GraphFacts
  <2> QED
    BY <1>2, <1>3, <2>1 DEF EdgesSearched, Ahead
<1> QED
  BY <1>4, <1>5, <1>6, <1>7 DEF SearchInv

(* The block the search is at.                                              *)
LEMMA SearchTopFacts ==
  ASSUME SearchInv, stack # <<>>
  PROVE  /\ Len(stack) \in Nat /\ Len(stack) > 0 /\ DOMAIN stack = 1 .. Len(stack)
         /\ SearchTop = stack[Len(stack)] /\ SearchTop.BB \in Block /\ SearchTop.idx \in 1 .. 3
         /\ \A k \in 1 .. Len(stack) : stack[k] \in Entered
<1>1. /\ Len(stack) \in Nat /\ Len(stack) > 0 /\ DOMAIN stack = 1 .. Len(stack)
      /\ \A k \in 1 .. Len(stack) : stack[k] \in Entered
  BY LenProperties, EmptySeq, ElementOfSeq DEF SearchInv, SearchType
<1>2. SearchTop = stack[Len(stack)]
  BY DEF SearchTop, Last
<1> QED
  BY <1>1, <1>2 DEF Entered

LEMMA CountUpFacts ==
  ASSUME SearchInv, stack # <<>>, MoreEdges
  PROVE  /\ CountUp \in Seq(Entered) /\ Len(CountUp) = Len(stack) /\ DOMAIN CountUp = DOMAIN stack
         /\ \A k \in DOMAIN stack :
              /\ CountUp[k].BB = stack[k].BB
              /\ CountUp[k].idx = IF k = Len(stack) THEN SearchTop.idx + 1 ELSE stack[k].idx
         /\ SearchTop.idx \in DOMAIN cfg[SearchTop.BB]
         /\ NextBlock \in ToSet(cfg[SearchTop.BB]) /\ NextBlock \in Block
<1> DEFINE n == Len(stack)
           f == [stack[n] EXCEPT !.idx = @ + 1]
<1>1. /\ n \in Nat /\ n > 0 /\ DOMAIN stack = 1 .. n /\ stack \in Seq(Entered)
      /\ SearchTop = stack[n] /\ stack[n] \in Entered
      /\ SearchTop.BB \in Block /\ SearchTop.idx \in 1 .. 3
  BY SearchTopFacts DEF SearchInv, SearchType
<1>2. /\ Len(cfg[SearchTop.BB]) \in 0 .. 2 /\ DOMAIN cfg[SearchTop.BB] = 1 .. Len(cfg[SearchTop.BB])
      /\ ToSet(cfg[SearchTop.BB]) \subseteq Block
  BY <1>1, GraphFacts DEF SearchInv, SearchType
<1>3. SearchTop.idx <= Len(cfg[SearchTop.BB])
  BY DEF MoreEdges
<1>4. SearchTop.idx \in DOMAIN cfg[SearchTop.BB] /\ SearchTop.idx + 1 \in 1 .. 3
  <2> DEFINE i == SearchTop.idx
             l == Len(cfg[SearchTop.BB])
  <2>1. i \in 1 .. 3 /\ l \in 0 .. 2 /\ i <= l
    BY <1>1, <1>2, <1>3
  <2> HIDE DEF i, l
  <2>2. i \in 1 .. l /\ i + 1 \in 1 .. 3
    BY <2>1
  <2> QED
    BY <1>2, <2>2 DEF i, l
<1>5. f \in Entered /\ f.BB = stack[n].BB /\ f.idx = SearchTop.idx + 1
  BY <1>1, <1>4 DEF Entered
<1>6. CountUp = [stack EXCEPT ![n] = f]
  BY DEF CountUp
<1> HIDE DEF f, n
<1>7. CountUp \in Seq(Entered) /\ Len(CountUp) = Len(stack)
  BY <1>1, <1>5, <1>6
<1>8. DOMAIN CountUp = DOMAIN stack /\ \A k \in DOMAIN stack : CountUp[k] = IF k = n THEN f ELSE stack[k]
  BY <1>1, <1>6
<1>9. NextBlock \in ToSet(cfg[SearchTop.BB]) /\ NextBlock \in Block
  BY <1>2, <1>4 DEF NextBlock, ToSet
<1> QED
  BY <1>4, <1>5, <1>7, <1>8, <1>9 DEF n

(* A block that dominates the top of the stack is on the stack.               *)
LEMMA DominatorOnStack ==
  ASSUME SearchInv, stack # <<>>, NEW d \in Block, Dominates(d, SearchTop.BB)
  PROVE  OnStack(d) /\ d \in searched
<1>1. /\ Len(stack) \in 1 .. Len(stack) /\ DOMAIN stack = 1 .. Len(stack)
      /\ SearchTop = stack[Len(stack)]
  BY SearchTopFacts
<1>2. PICK k \in 1 .. Len(stack) : stack[k].BB = d
  BY <1>1 DEF SearchInv, StackPath
<1> QED
  BY <1>1, <1>2 DEF SearchInv, StackPath, OnStack

(* The stack closes a ring at a block on it.                                 *)
LEMMA BackedgeDominates ==
  ASSUME SearchInv, stack # <<>>, MoreEdges, OnStack(NextBlock), Reducible
  PROVE  Dominates(NextBlock, SearchTop.BB)
<1> DEFINE n == Len(stack)
           s == [k \in 1 .. n |-> stack[k].BB]
<1>1. /\ n \in Nat /\ n > 0 /\ DOMAIN stack = 1 .. n /\ SearchTop = stack[n]
      /\ \A k \in 1 .. n : stack[k].BB \in Block
  BY SearchTopFacts DEF Entered
<1>2. NextBlock \in ToSet(cfg[SearchTop.BB]) /\ cfg \in CFGs
  BY CountUpFacts DEF SearchInv, SearchType
<1> HIDE DEF n
<1>3. PICK k \in 1 .. n : stack[k].BB = NextBlock
  BY <1>1 DEF OnStack
<1>4. \A j \in 1 .. n : s[j] = stack[j].BB /\ s[j] \in Block
  BY <1>1
<1> HIDE DEF s
<1>5. \A i, j \in 1 .. n : s[i] = s[j] => i = j
  BY <1>1, <1>4 DEF SearchInv, StackPath
<1>6. \A j \in 1 .. n - 1 : s[j + 1] \in ToSet(cfg[s[j]])
  <2>1. \A j \in 1 .. n - 1 : j \in 1 .. n /\ j + 1 \in 1 .. n
    BY <1>1
  <2> QED
    BY <1>1, <1>4, <2>1 DEF SearchInv, StackPath
<1>7. ASSUME NEW l \in 1 .. n, NEW d \in Block, Dominates(d, s[l])
      PROVE  \E i \in 1 .. l : s[i] = d
  <2>1. \E i \in 1 .. l : stack[i].BB = d
    BY <1>1, <1>4, <1>7 DEF SearchInv, StackPath
  <2>2. \A i \in 1 .. l : i \in 1 .. n
    BY <1>1
  <2> QED
    BY <1>4, <2>1, <2>2
<1>8. s[k] = NextBlock /\ s[n] = SearchTop.BB
  BY <1>1, <1>3, <1>4
<1>9. Dominates(s[k], s[n])
  BY <1>1, <1>2, <1>4, <1>5, <1>6, <1>7, <1>8, RingDominates
<1> QED
  BY <1>8, <1>9

LEMMA SearchNewStep == SearchInv /\ SearchNew => SearchInv'
<1> SUFFICES ASSUME SearchInv, SearchNew PROVE SearchInv'
  OBVIOUS
<1> DEFINE n == Len(stack)
           b == NextBlock
           t == SearchTop.BB
           f == Append(CountUp, [BB |-> b, idx |-> 1])
           AlongNow(u, v) == v \in searched' /\ (Dominates(v, u) => <<u, v>> \in backedges')
<1>0. /\ stack # <<>> /\ MoreEdges /\ b \notin searched /\ cfg' = cfg /\ backedges' = backedges
      /\ searched' = searched \cup {b} /\ stack' = f /\ cfg \in CFGs
  BY DEF SearchNew, Searching, vars, SearchInv, SearchType
<1>1. /\ n \in Nat /\ n > 0 /\ DOMAIN stack = 1 .. n /\ stack[n] = SearchTop /\ t \in Block
      /\ SearchTop.idx \in 1 .. 3
  BY <1>0, SearchTopFacts
<1>2. /\ CountUp \in Seq(Entered) /\ Len(CountUp) = n /\ DOMAIN CountUp = 1 .. n
      /\ \A k \in 1 .. n : /\ CountUp[k].BB = stack[k].BB
                           /\ CountUp[k].idx = IF k = n THEN SearchTop.idx + 1 ELSE stack[k].idx
      /\ b \in ToSet(cfg[t]) /\ b \in Block /\ b = cfg[t][SearchTop.idx]
  BY Zenon, <1>0, <1>1, CountUpFacts DEF NextBlock
<1> HIDE DEF n, b, t
<1>3. [BB |-> b, idx |-> 1] \in Entered
  BY <1>2 DEF Entered
<1>4. /\ f \in Seq(Entered) /\ DOMAIN f = 1 .. n + 1
      /\ \A k \in 1 .. n : f[k] = CountUp[k]
      /\ f[n + 1] = [BB |-> b, idx |-> 1]
  BY <1>1, <1>2, <1>3
<1> HIDE DEF f
<1>5. /\ \A k \in 1 .. n : /\ f[k].BB = stack[k].BB
                           /\ f[k].idx = IF k = n THEN SearchTop.idx + 1 ELSE stack[k].idx
      /\ f[n + 1].BB = b /\ f[n + 1].idx = 1
  BY <1>2, <1>4
<1>6. /\ \A k \in 1 .. n + 1 : k \in 1 .. n \/ k = n + 1
      /\ \A k \in 1 .. n : k \in 1 .. n + 1 /\ k # n + 1
      /\ n \in 1 .. n /\ n + 1 \in 1 .. n + 1
  BY <1>1
<1>7. SearchType'
  BY <1>0, <1>2, <1>4 DEF SearchInv, SearchType
<1>8. \A k \in 1 .. n : stack[k].BB # b /\ stack[k].BB \in searched
  BY <1>0, <1>1 DEF SearchInv, StackPath
<1>9. StackPath'
  <2>1. \A k \in 1 .. n + 1 : f[k].BB \in searched'
    BY <1>0, <1>5, <1>6, <1>8
  <2>2. \A k, l \in 1 .. n + 1 : f[k].BB = f[l].BB => k = l
    BY <1>1, <1>5, <1>6, <1>8 DEF SearchInv, StackPath
  <2>3. ASSUME NEW k \in 1 .. n + 1, k + 1 \in 1 .. n + 1
        PROVE  f[k + 1].BB \in ToSet(cfg[f[k].BB])
    <3>1. CASE k = n
      BY <1>1, <1>2, <1>5, <1>6, <3>1 DEF t
    <3>2. CASE k # n
      <4>1. k \in 1 .. n /\ k + 1 \in 1 .. n
        BY <1>1, <2>3, <3>2
      <4> QED
        BY <1>1, <1>5, <4>1 DEF SearchInv, StackPath
    <3> QED
      BY <3>1, <3>2
  <2>4. ASSUME NEW l \in 1 .. n + 1, NEW d \in Block, Dominates(d, f[l].BB)
        PROVE  \E k \in 1 .. l : f[k].BB = d
    <3>1. CASE l \in 1 .. n
      <4>1. \E k \in 1 .. l : stack[k].BB = d
        BY <1>1, <1>5, <2>4, <3>1 DEF SearchInv, StackPath
      <4>2. \A k \in 1 .. l : k \in 1 .. n
        BY <1>1, <3>1
      <4> QED
        BY <1>5, <4>1, <4>2
    <3>2. CASE l = n + 1 /\ d = b
      BY <1>5, <1>6, <3>2
    <3>3. CASE l = n + 1 /\ d # b
      <4>1. Dominates(d, t)
        BY <1>0, <1>1, <1>2, <1>5, <2>4, <3>3, DominatesBefore
      <4>2. \E k \in 1 .. n : stack[k].BB = d
        BY <1>1, <1>6, <4>1 DEF SearchInv, StackPath, t
      <4> QED
        BY <1>5, <1>6, <3>3, <4>2
    <3> QED
      BY <1>6, <3>1, <3>2, <3>3
  <2> QED
    BY <1>0, <1>4, <2>1, <2>2, <2>3, <2>4, PassGraphStable DEF StackPath
<1>10. FoundEdges'
  BY <1>0, PassGraphStable DEF SearchInv, FoundEdges
<1>11. ~Dominates(b, t)
  BY <1>0, <1>2, DominatorOnStack DEF t
<1>12. \A u, v : Along(u, v) => AlongNow(u, v)
  BY <1>0 DEF Along
<1>13. ASSUME NEW u \in searched \cup {b}, NEW j \in DOMAIN cfg[u]
       PROVE  Ahead(u, j)' \/ AlongNow(u, cfg[u][j])
  <2>1. CASE u = b
    <3>1. 1 <= j
      BY <1>0, <1>2, <2>1, GraphFacts
    <3> QED
      BY <1>0, <1>4, <1>5, <1>6, <2>1, <3>1 DEF Ahead
  <2>2. CASE u \in searched /\ Along(u, cfg[u][j])
    BY <1>12, <2>2
  <2>3. CASE u \in searched /\ Ahead(u, j)
    <3>1. PICK k \in 1 .. n : stack[k].BB = u /\ stack[k].idx <= j
      BY <1>1, <2>3 DEF Ahead
    <3>2. CASE k # n \/ j # SearchTop.idx
      <4>1. j \in Nat
        BY <1>0, <2>3, GraphFacts DEF SearchInv, SearchType
      <4>2. f[k].BB = u /\ f[k].idx <= j
        BY <1>1, <1>5, <3>1, <3>2, <4>1
      <4> QED
        BY <1>0, <1>4, <1>6, <4>2 DEF Ahead
    <3>3. CASE k = n /\ j = SearchTop.idx
      <4>1. u = t /\ cfg[u][j] = b
        BY <1>1, <1>2, <3>1, <3>3 DEF t
      <4>2. AlongNow(u, cfg[u][j])
        BY <1>0, <1>11, <4>1
      <4> QED
        BY <4>2
    <3> QED
      BY <3>2, <3>3
  <2>4. u \in searched => Ahead(u, j) \/ Along(u, cfg[u][j])
    BY DEF SearchInv, EdgesSearched
  <2> QED
    BY <2>1, <2>2, <2>3, <2>4
<1>14. EdgesSearched'
  BY <1>0, <1>13, PassGraphStable DEF EdgesSearched, Along
<1> QED
  BY <1>7, <1>9, <1>10, <1>14 DEF SearchInv

LEMMA SearchOldStep == SearchInv /\ SearchOld => SearchInv'
<1> SUFFICES ASSUME SearchInv, SearchOld PROVE SearchInv'
  OBVIOUS
<1> DEFINE n == Len(stack)
           b == NextBlock
           t == SearchTop.BB
           AlongNow(u, v) == v \in searched' /\ (Dominates(v, u) => <<u, v>> \in backedges')
<1>0. /\ stack # <<>> /\ MoreEdges /\ b \in searched /\ cfg' = cfg /\ searched' = searched
      /\ stack' = CountUp /\ cfg \in CFGs
      /\ backedges' = IF OnStack(b) THEN backedges \cup {<<t, b>>} ELSE backedges
  BY DEF SearchOld, Searching, vars, SearchInv, SearchType
<1>1. /\ n \in Nat /\ n > 0 /\ DOMAIN stack = 1 .. n /\ stack[n] = SearchTop /\ t \in Block
      /\ SearchTop.idx \in 1 .. 3
  <2>1. stack # <<>>
    BY Zenon, <1>0
  <2> QED
    BY <2>1, SearchTopFacts
<1>2. /\ stack' \in Seq(Entered) /\ DOMAIN stack' = 1 .. n
      /\ \A k \in 1 .. n : /\ stack'[k].BB = stack[k].BB
                           /\ stack'[k].idx = IF k = n THEN SearchTop.idx + 1 ELSE stack[k].idx
      /\ b \in ToSet(cfg[t]) /\ b \in Block /\ b = cfg[t][SearchTop.idx]
  BY Zenon, <1>0, <1>1, CountUpFacts DEF NextBlock
<1>3. OnStack(b) /\ Reducible => Dominates(b, t)
  BY <1>0, BackedgeDominates
<1>4. Dominates(b, t) => OnStack(b)
  BY <1>0, <1>2, DominatorOnStack
<1> HIDE DEF n, b, t
<1>5. SearchType'
  BY <1>0, <1>2 DEF SearchInv, SearchType
<1>6. StackPath'
  <2>1. \A k \in 1 .. n : stack'[k].BB \in searched
    BY <1>1, <1>2 DEF SearchInv, StackPath
  <2>2. \A k, l \in 1 .. n : stack'[k].BB = stack'[l].BB => k = l
    BY <1>1, <1>2 DEF SearchInv, StackPath
  <2>3. \A k \in 1 .. n : k + 1 \in 1 .. n => stack'[k + 1].BB \in ToSet(cfg[stack'[k].BB])
    BY <1>1, <1>2 DEF SearchInv, StackPath
  <2>4. ASSUME NEW l \in 1 .. n, NEW d \in Block, Dominates(d, stack'[l].BB)
        PROVE  \E k \in 1 .. l : stack'[k].BB = d
    <3>1. \E k \in 1 .. l : stack[k].BB = d
      BY <1>1, <1>2, <2>4 DEF SearchInv, StackPath
    <3>2. \A k \in 1 .. l : k \in 1 .. n
      BY <1>1
    <3> QED
      BY <1>2, <3>1, <3>2
  <2> QED
    BY <1>0, <1>2, <2>1, <2>2, <2>3, <2>4, PassGraphStable DEF StackPath
<1>7. FoundEdges'
  <2>1. ASSUME NEW u \in Block, NEW h \in Block, <<u, h>> \in backedges'
        PROVE  h \in ToSet(cfg[u]) /\ (Reducible => Dominates(h, u))
    <3>1. CASE <<u, h>> \in backedges
      BY <3>1 DEF SearchInv, FoundEdges
    <3>2. CASE <<u, h>> = <<t, b>> /\ OnStack(b)
      <4>1. u = t /\ h = b
        BY <3>2
      <4> QED
        BY <1>2, <1>3, <3>2, <4>1
    <3> QED
      BY <1>0, <2>1, <3>1, <3>2
  <2> QED
    BY <1>0, <2>1, PassGraphStable DEF FoundEdges
<1>8. \A u, v : Along(u, v) => AlongNow(u, v)
  BY <1>0 DEF Along
<1>9. AlongNow(t, b)
  BY <1>0, <1>4
<1>10. ASSUME NEW u \in searched, NEW j \in DOMAIN cfg[u]
       PROVE  Ahead(u, j)' \/ AlongNow(u, cfg[u][j])
  <2>1. CASE Along(u, cfg[u][j])
    BY <1>8, <2>1
  <2>2. CASE Ahead(u, j)
    <3>1. PICK k \in 1 .. n : stack[k].BB = u /\ stack[k].idx <= j
      BY <1>1, <2>2 DEF Ahead
    <3>2. CASE k # n \/ j # SearchTop.idx
      <4>1. j \in Nat
        BY <1>0, GraphFacts DEF SearchInv, SearchType
      <4>2. stack'[k].BB = u /\ stack'[k].idx <= j
        BY <1>1, <1>2, <3>1, <3>2, <4>1
      <4> QED
        BY <1>2, <4>2 DEF Ahead
    <3>3. CASE k = n /\ j = SearchTop.idx
      <4>1. u = t /\ cfg[u][j] = b
        BY <1>1, <1>2, <3>1, <3>3 DEF t
      <4> QED
        BY <1>9, <4>1
    <3> QED
      BY <3>2, <3>3
  <2> QED
    BY <2>1, <2>2 DEF SearchInv, EdgesSearched
<1>11. EdgesSearched'
  BY <1>0, <1>10, PassGraphStable DEF EdgesSearched, Along
<1> QED
  BY <1>5, <1>6, <1>7, <1>11 DEF SearchInv

LEMMA SearchBackStep == SearchInv /\ SearchBack => SearchInv'
<1> SUFFICES ASSUME SearchInv, SearchBack PROVE SearchInv'
  OBVIOUS
<1> DEFINE n == Len(stack)
           f == Front(stack)
           AlongNow(u, v) == v \in searched' /\ (Dominates(v, u) => <<u, v>> \in backedges')
<1>0. /\ stack # <<>> /\ ~MoreEdges /\ cfg' = cfg /\ searched' = searched
      /\ stack' = f /\ cfg \in CFGs /\ backedges' = backedges
  BY DEF SearchBack, Searching, vars, SearchInv, SearchType
<1>1. /\ n \in Nat /\ n > 0 /\ DOMAIN stack = 1 .. n /\ stack[n] = SearchTop
      /\ stack \in Seq(Entered) /\ \A k \in 1 .. n : stack[k] \in Entered
  BY <1>0, SearchTopFacts DEF SearchInv, SearchType
<1>2. f \in Seq(Entered) /\ DOMAIN f = 1 .. n - 1 /\ \A k \in 1 .. n - 1 : f[k] = stack[k]
  BY <1>1 DEF Front
<1> HIDE DEF n, f
<1>3. \A k \in 1 .. n - 1 : k \in 1 .. n
  BY <1>1
<1>4. SearchType'
  BY <1>0, <1>2 DEF SearchInv, SearchType
<1>5. StackPath'
  <2>1. \A k \in 1 .. n - 1 : f[k].BB \in searched
    BY <1>1, <1>2, <1>3 DEF SearchInv, StackPath
  <2>2. \A k, l \in 1 .. n - 1 : f[k].BB = f[l].BB => k = l
    BY <1>1, <1>2, <1>3 DEF SearchInv, StackPath
  <2>3. \A k \in 1 .. n - 1 : k + 1 \in 1 .. n - 1 => f[k + 1].BB \in ToSet(cfg[f[k].BB])
    BY <1>1, <1>2, <1>3 DEF SearchInv, StackPath
  <2>4. ASSUME NEW l \in 1 .. n - 1, NEW d \in Block, Dominates(d, f[l].BB)
        PROVE  \E k \in 1 .. l : f[k].BB = d
    <3>1. \E k \in 1 .. l : stack[k].BB = d
      BY <1>1, <1>2, <1>3, <2>4 DEF SearchInv, StackPath
    <3>2. \A k \in 1 .. l : k \in 1 .. n - 1
      BY <1>1
    <3> QED
      BY <1>2, <3>1, <3>2
  <2> QED
    BY <1>0, <1>2, <2>1, <2>2, <2>3, <2>4, PassGraphStable DEF StackPath
<1>6. FoundEdges'
  BY <1>0, PassGraphStable DEF SearchInv, FoundEdges
<1>7. \A u, v : Along(u, v) => AlongNow(u, v)
  BY <1>0 DEF Along
<1>8. ASSUME NEW u \in searched, NEW j \in DOMAIN cfg[u]
      PROVE  Ahead(u, j)' \/ AlongNow(u, cfg[u][j])
  <2>1. CASE Along(u, cfg[u][j])
    BY <1>7, <2>1
  <2>2. CASE Ahead(u, j)
    <3>1. PICK k \in 1 .. n : stack[k].BB = u /\ stack[k].idx <= j
      BY <1>1, <2>2 DEF Ahead
    <3>2. k # n
      <4>1. SUFFICES ASSUME k = n PROVE FALSE
        OBVIOUS
      <4>2. u = SearchTop.BB /\ SearchTop.idx <= j
        BY <1>1, <3>1, <4>1
      <4>3. j <= Len(cfg[u]) /\ j \in Nat /\ Len(cfg[u]) \in Nat /\ SearchTop.idx \in Nat
        BY <1>0, <1>1, GraphFacts, SearchTopFacts DEF SearchInv, SearchType
      <4>4. SearchTop.idx <= Len(cfg[u])
        BY <4>2, <4>3
      <4> QED
        BY <1>0, <4>2, <4>4 DEF MoreEdges
    <3>3. k \in 1 .. n - 1
      BY <1>1, <3>2
    <3> QED
      BY <1>0, <1>2, <3>1, <3>3 DEF Ahead
  <2> QED
    BY <2>1, <2>2 DEF SearchInv, EdgesSearched
<1>9. EdgesSearched'
  BY <1>0, <1>8, PassGraphStable DEF EdgesSearched, Along
<1> QED
  BY <1>4, <1>5, <1>6, <1>9 DEF SearchInv

LEMMA SearchStable == SearchInv /\ cfg' = cfg /\ UNCHANGED searchVars => SearchInv'
<1> SUFFICES ASSUME SearchInv, cfg' = cfg, UNCHANGED searchVars PROVE SearchInv'
  OBVIOUS
<1>1. stack' = stack /\ searched' = searched /\ backedges' = backedges
  BY DEF searchVars
<1>2. SearchType'
  BY <1>1 DEF SearchInv, SearchType
<1>3. StackPath'
  BY <1>1, PassGraphStable DEF SearchInv, StackPath
<1>4. FoundEdges'
  BY <1>1, PassGraphStable DEF SearchInv, FoundEdges
<1>5. EdgesSearched'
  BY <1>1, PassGraphStable DEF SearchInv, EdgesSearched, Ahead, Along
<1> QED
  BY <1>2, <1>3, <1>4, <1>5 DEF SearchInv

(* After the search its edges are those to dominators.                       *)
LEMMA BackedgesFound ==
  ASSUME SearchInv, stack = <<>>, Reducible, NEW u \in Block, NEW v \in ToSet(cfg[u])
  PROVE  v \in Block /\ (<<u, v>> \in backedges <=> Dominates(v, u))
<1>1. cfg \in CFGs /\ searched \in SUBSET Block /\ entry \in searched
  BY DEF SearchInv, SearchType
<1>2. \A w, j : ~Ahead(w, j)
  BY DEF Ahead
<1>3. \A w \in searched : \A j \in DOMAIN cfg[w] : Along(w, cfg[w][j])
  BY <1>2 DEF SearchInv, EdgesSearched
<1>4. \A w \in searched : ToSet(cfg[w]) \subseteq searched
  BY <1>3 DEF Along, ToSet
<1>5. searched = Block
  BY <1>1, <1>4, AllReached
<1>6. PICK j \in DOMAIN cfg[u] : v = cfg[u][j]
  BY DEF ToSet
<1>7. Along(u, v)
  BY <1>3, <1>5, <1>6
<1>8. v \in Block
  BY <1>1, GraphFacts
<1>9. <<u, v>> \in backedges => Dominates(v, u)
  BY <1>8 DEF SearchInv, FoundEdges
<1> QED
  BY <1>7, <1>8, <1>9 DEF Along

-----------------------------------------------------------------------------
(* The pass.                                                                *)

(* What passing from u to b adds to what is known.                           *)
TrueOf(f, u, b) == f = <<"assume", u>> \/ (f = <<"branch", u>> /\ Len(cfg[u]) = 2 /\ cfg[u][1] = b)
FalseOf(f, u, b) == f = <<"branch", u>> /\ Len(cfg[u]) = 2 /\ cfg[u][1] # b

(* A block with conditions is entered from blocks that knew them, or on the   *)
(* way of which they are; and they are about blocks before it.               *)
Justified(b) ==
  /\ preds(b) \subseteq DOMAIN map
  /\ preds(b) = {} => map[b].trues = {} /\ map[b].falses = {}
  /\ \A u \in preds(b) :
       /\ \A f \in map[b].trues : f \in map[u].trues \/ TrueOf(f, u, b)
       /\ \A f \in map[b].falses : f \in map[u].falses \/ FalseOf(f, u, b)

(* The map has the blocks that have been done.                              *)
MapInv ==
  /\ DOMAIN map \in SUBSET Block
  /\ ~failed => DOMAIN map = {layout[i] : i \in 1 .. bbi}
  /\ \A b \in DOMAIN map : Justified(b)
  /\ Reducible => \A b \in DOMAIN map : \A f \in map[b].trues \cup map[b].falses :
       f[2] \in Block /\ Position(f[2]) < Position(b)

PassInv ==
  /\ phase # "done" \/ stack # <<>> => bbi = 0 /\ DOMAIN map = {} /\ ~failed /\ at = none
  /\ bbi \in 0 .. Len(layout)
  /\ failed => ~Reducible /\ at = none /\ bbi = Len(layout)
  /\ MapInv

(* While the function runs: the conditions of the blocks that dominate the    *)
(* current one hold, those of the current one among them.                    *)
RunInv ==
  /\ latest \in [Block -> {"none", "left", "true", "false"}]
  /\ at # none =>
       /\ at \in Block /\ ready /\ stack = <<>>
       /\ Reducible => \A c \in Block : Dominates(c, at) => Hold(c)

CondInv == SortInv /\ ForwardInv /\ SearchInv /\ PassInv /\ RunInv

LEMMA CondInit == PassInit => CondInv
<1> SUFFICES ASSUME PassInit PROVE CondInv
  OBVIOUS
<1>1. SortInv /\ ForwardInv /\ SearchInv
  BY VisitInit, MoveInit, ForwardInit, SearchInit DEF PassInit, SortInv
<1>2. /\ bbi = 0 /\ DOMAIN map = {} /\ ~failed /\ at = none
      /\ latest = [b \in Block |-> "none"]
  BY DEF PassInit
<1>3. bbi \in 0 .. Len(layout)
  <2>1. Len(layout) \in Nat
    BY <1>1, OrderFacts DEF SortInv, MoveInv
  <2> QED
    BY <1>2, <2>1
<1>4. 1 .. bbi = {}
  BY <1>2
<1>5. MapInv
  BY <1>2, <1>4 DEF MapInv
<1>6. PassInv
  BY <1>2, <1>3, <1>5 DEF PassInv
<1>7. RunInv
  BY <1>2 DEF RunInv
<1> QED
  BY <1>1, <1>6, <1>7 DEF CondInv

(* A block that has been done is at its place, and every block has one.      *)
LEMMA LayoutFacts ==
  ASSUME SortInv
  PROVE  /\ Len(layout) \in Nat
         /\ \A i \in 1 .. Len(layout) : layout[i] \in Block /\ Position(layout[i]) = i
         /\ \A b \in Block : Position(b) \in 1 .. Len(layout) /\ layout[Position(b)] = b
<1>1. IsOrder(layout) /\ layout \in Seq(Block) /\ DOMAIN layout = 1 .. Len(layout)
      /\ Len(layout) \in Nat /\ \A i \in 1 .. Len(layout) : layout[i] \in Block
  BY OrderFacts DEF SortInv, MoveInv
<1>2. \A i \in 1 .. Len(layout) : Position(layout[i]) = i
  BY <1>1, PlaceFound DEF Position, IsOrder
<1>3. ASSUME NEW b \in Block
      PROVE  Position(b) \in 1 .. Len(layout) /\ layout[Position(b)] = b
  <2>1. PICK i \in DOMAIN layout : layout[i] = b
    BY <1>1 DEF IsOrder
  <2> QED
    BY <1>1, <1>2, <2>1
<1> QED
  BY <1>1, <1>2, <1>3

(* Without the edges that close loops the predecessors of a block come before *)
(* it.                                                                      *)
LEMMA PredecessorsBefore ==
  ASSUME SortInv, ForwardInv, SearchInv, phase = "done", stack = <<>>, Reducible,
         NEW b \in Block, NEW u \in preds(b)
  PROVE  u \in Block /\ Position(u) < Position(b)
<1>1. u \in Block /\ b \in ToSet(cfg[u]) /\ <<u, b>> \notin backedges
  BY DEF preds, isPred
<1>2. ~Dominates(b, u)
  BY <1>1, BackedgesFound
<1> QED
  BY <1>1, <1>2, ForwardEdges

(* What the pass puts at a block.                                           *)
LEMMA KnownJustified ==
  ASSUME NEW b, NEW u \in preds(b)
  PROVE  /\ \A f \in known(b).trues : f \in map[u].trues \/ TrueOf(f, u, b)
         /\ \A f \in known(b).falses : f \in map[u].falses \/ FalseOf(f, u, b)
<1>1. /\ known(b).trues = intersect(preds(b)).trues \cup learned(b).trues
      /\ known(b).falses = intersect(preds(b)).falses \cup learned(b).falses
  BY DEF known, Facts
<1>2. /\ \A f \in intersect(preds(b)).trues : f \in map[u].trues
      /\ \A f \in intersect(preds(b)).falses : f \in map[u].falses
  BY DEF intersect, Facts
<1>3. /\ \A f \in learned(b).trues : TrueOf(f, u, b)
      /\ \A f \in learned(b).falses : FalseOf(f, u, b)
  <2>1. CASE Cardinality(preds(b)) # 1
    BY <2>1 DEF learned, Facts
  <2>2. CASE Cardinality(preds(b)) = 1
    <3>1. IsFiniteSet(preds(b))
      <4>1. preds(b) \subseteq Block
        BY DEF preds
      <4> QED
        BY <4>1, CFGsAssumption, FS_Subset
    <3>2. (CHOOSE w \in preds(b) : TRUE) = u
      <4>1. PICK w : preds(b) = {w}
        BY <2>2, <3>1, FS_Singleton
      <4> QED
        BY <4>1
    <3>3. learned(b) = onTheWay(u, b)
      BY <2>2, <3>2 DEF learned
    <3>4. \A f \in branchCondition(u) : f = <<"branch", u>> /\ Len(cfg[u]) = 2
      BY DEF branchCondition
    <3>5. \A f \in assumes(u) : f = <<"assume", u>>
      BY DEF assumes
    <3>6. CASE cfg[u][1] = b
      <4>1. learned(b).trues = branchCondition(u) \cup assumes(u) /\ learned(b).falses = {}
        BY <3>3, <3>6 DEF onTheWay, Facts
      <4> QED
        BY <3>4, <3>5, <3>6, <4>1 DEF TrueOf
    <3>7. CASE cfg[u][1] # b
      <4>1. learned(b).trues = assumes(u) /\ learned(b).falses = branchCondition(u)
        BY <3>3, <3>7 DEF onTheWay, Facts
      <4> QED
        BY <3>4, <3>5, <3>7, <4>1 DEF TrueOf, FalseOf
    <3> QED
      BY <3>6, <3>7
  <2> QED
    BY <2>1, <2>2
<1> QED
  BY <1>1, <1>2, <1>3

LEMMA KnownNothing ==
  ASSUME NEW b, preds(b) = {}
  PROVE  known(b).trues = {} /\ known(b).falses = {}
<1>1. Cardinality(preds(b)) = 0
  BY FS_EmptySet
<1>2. learned(b) = Facts({}, {})
  BY <1>1 DEF learned
<1>3. intersect(preds(b)).trues = {} /\ intersect(preds(b)).falses = {}
  BY DEF intersect, Facts
<1> QED
  BY <1>2, <1>3 DEF known, Facts

LEMMA MapStable ==
  ASSUME MapInv, UNCHANGED <<vars, backedges, bbi, map, failed>>
  PROVE  MapInv'
<1>1. /\ cfg' = cfg /\ layout' = layout /\ backedges' = backedges /\ bbi' = bbi /\ map' = map
      /\ failed' = failed
  BY DEF vars
<1>2. \A b : preds(b)' = preds(b)
  BY <1>1 DEF preds, isPred
<1>3. \A b : Justified(b)' <=> Justified(b)
  BY <1>1, <1>2 DEF Justified, TrueOf, FalseOf
<1>4. \A b : Position(b)' = Position(b)
  BY <1>1 DEF Position
<1> QED
  BY <1>1, <1>3, <1>4, PassGraphStable DEF MapInv

(* Nothing has been done while the blocks are sorted and searched.           *)
LEMMA MapEmpty ==
  ASSUME bbi' = 0, DOMAIN map' = {}
  PROVE  MapInv'
<1>1. 1 .. bbi' = {}
  OBVIOUS
<1> QED
  BY <1>1 DEF MapInv

LEMMA PropagateStep ==
  ASSUME SortInv, ForwardInv, SearchInv, PassInv, RunInv, PropagateBlock
  PROVE  PassInv'
<1>0. PICK b : b = layout[bbi + 1]
  OBVIOUS
<1>1. /\ phase = "done" /\ stack = <<>> /\ bbi < Len(layout)
      /\ cfg' = cfg /\ layout' = layout /\ phase' = phase /\ stack' = stack
      /\ backedges' = backedges /\ at' = at
  BY DEF PropagateBlock, vars, searchVars, runVars
<1>2. /\ Len(layout) \in Nat /\ bbi \in 0 .. Len(layout)
      /\ \A i \in 1 .. Len(layout) : layout[i] \in Block /\ Position(layout[i]) = i
      /\ \A c \in Block : Position(c) \in 1 .. Len(layout) /\ layout[Position(c)] = c
  BY LayoutFacts DEF PassInv
<1>3. bbi + 1 \in 1 .. Len(layout) /\ b \in Block /\ Position(b) = bbi + 1
  BY <1>0, <1>1, <1>2
<1>4. at = none /\ ~failed
  <2>1. at # none => bbi = Len(layout)
    BY DEF RunInv, ready
  <2> QED
    BY <1>1, <1>2, <2>1 DEF PassInv
<1>5. DOMAIN map = {layout[i] : i \in 1 .. bbi} /\ DOMAIN map \in SUBSET Block
  BY <1>4 DEF PassInv, MapInv
<1>6. \A c \in DOMAIN map : Position(c) <= bbi /\ c # b
  BY <1>2, <1>3, <1>5
<1>7. \A c \in Block : Position(c) <= bbi => c \in DOMAIN map
  BY <1>2, <1>5
<1>8. /\ \A c : preds(c)' = preds(c)
      /\ \A c : Position(c)' = Position(c)
      /\ \A f, u, c : (TrueOf(f, u, c)' <=> TrueOf(f, u, c)) /\ (FalseOf(f, u, c)' <=> FalseOf(f, u, c))
  BY <1>1 DEF preds, isPred, Position, TrueOf, FalseOf
<1>9. Reducible => preds(b) \subseteq DOMAIN map
  <2> SUFFICES ASSUME Reducible, NEW u \in preds(b) PROVE u \in DOMAIN map
    OBVIOUS
  <2>1. u \in Block /\ Position(u) < Position(b)
    BY <1>1, <1>3, PredecessorsBefore
  <2> QED
    BY <1>2, <1>3, <1>7, <2>1
<1>10. CASE ~(preds(b) \subseteq DOMAIN map)
  <2>1. failed' = TRUE /\ bbi' = Len(layout) /\ map' = map
    BY <1>0, <1>10 DEF PropagateBlock
  <2>2. ~Reducible'
    BY <1>1, <1>9, <1>10, PassGraphStable
  <2>3. \A c \in DOMAIN map : Justified(c)'
    BY <1>8, <2>1 DEF PassInv, MapInv, Justified
  <2>4. MapInv'
    BY <1>5, <2>1, <2>2, <2>3 DEF MapInv
  <2> QED
    BY <1>1, <1>2, <1>4, <2>1, <2>2, <2>4 DEF PassInv
<1>11. CASE preds(b) \subseteq DOMAIN map
  <2>1. /\ map' = [c \in DOMAIN map \cup {b} |-> IF c = b THEN known(b) ELSE map[c]]
        /\ bbi' = bbi + 1 /\ failed' = failed
    BY <1>0, <1>11 DEF PropagateBlock
  <2>2. /\ DOMAIN map' = DOMAIN map \cup {b} /\ map'[b] = known(b)
        /\ \A c \in DOMAIN map : map'[c] = map[c]
    BY <1>6, <2>1
  <2>3. DOMAIN map' = {layout[i] : i \in 1 .. bbi + 1}
    <3>1. 1 .. bbi + 1 = 1 .. bbi \cup {bbi + 1}
      BY <1>2
    <3> QED
      BY <1>0, <1>5, <2>2, <3>1
  <2>4. ASSUME NEW c \in DOMAIN map PROVE Justified(c)'
    <3>1. Justified(c)
      BY DEF PassInv, MapInv
    <3> QED
      BY <1>8, <2>2, <3>1 DEF Justified
  <2>5. Justified(b)'
    <3>1. \A u \in preds(b) : map'[u] = map[u]
      BY <1>11, <2>2
    <3>2. preds(b) = {} => map'[b].trues = {} /\ map'[b].falses = {}
      BY <2>2, KnownNothing
    <3>3. \A u \in preds(b) :
            /\ \A f \in map'[b].trues : f \in map'[u].trues \/ TrueOf(f, u, b)
            /\ \A f \in map'[b].falses : f \in map'[u].falses \/ FalseOf(f, u, b)
      BY <2>2, <3>1, KnownJustified
    <3> QED
      BY <1>8, <1>11, <2>2, <3>2, <3>3 DEF Justified
  <2>6. ASSUME Reducible, NEW c \in DOMAIN map', NEW f \in map'[c].trues \cup map'[c].falses
        PROVE  f[2] \in Block /\ Position(f[2]) < Position(c)
    <3>1. CASE c \in DOMAIN map
      BY <2>2, <2>6, <3>1 DEF PassInv, MapInv
    <3>2. CASE c = b
      <4>1. f \in known(b).trues \cup known(b).falses
        BY <2>2, <2>6, <3>2
      <4>2. PICK u : u \in preds(b)
        BY <4>1, KnownNothing
      <4>3. u \in DOMAIN map /\ u \in Block /\ Position(u) < Position(b)
        BY <1>5, <1>6, <1>11, <1>2, <1>3, <4>2
      <4>4. CASE f \in map[u].trues \cup map[u].falses
        <5>1. f[2] \in Block /\ Position(f[2]) < Position(u)
          BY <2>6, <4>3, <4>4 DEF PassInv, MapInv
        <5>2. Position(f[2]) \in Nat /\ Position(u) \in Nat /\ Position(b) \in Nat
          BY <1>2, <1>3, <4>3, <5>1
        <5> QED
          BY <3>2, <4>3, <5>1, <5>2
      <4>5. CASE TrueOf(f, u, b) \/ FalseOf(f, u, b)
        <5>1. f[2] = u
          BY <4>5 DEF TrueOf, FalseOf
        <5> QED
          BY <3>2, <4>3, <5>1
      <4> QED
        BY <4>1, <4>2, <4>4, <4>5, KnownJustified
    <3> QED
      BY <2>2, <3>1, <3>2
  <2>7. MapInv'
    <3>1. DOMAIN map' \in SUBSET Block
      BY <1>3, <1>5, <2>2
    <3>2. Reducible' => \A c \in DOMAIN map' : \A f \in map'[c].trues \cup map'[c].falses :
            f[2] \in Block /\ Position(f[2])' < Position(c)'
      BY <1>1, <1>8, <2>6, PassGraphStable
    <3>3. \A c \in DOMAIN map' : Justified(c)'
      BY <2>2, <2>4, <2>5
    <3>4. DOMAIN map' = {layout'[i] : i \in 1 .. bbi'}
      BY <1>1, <2>1, <2>3
    <3> QED
      BY <3>1, <3>2, <3>3, <3>4 DEF MapInv
  <2>8. bbi' \in 0 .. Len(layout')
    BY <1>1, <1>2, <2>1
  <2> QED
    BY <1>1, <1>4, <2>1, <2>7, <2>8 DEF PassInv
<1> QED
  BY <1>10, <1>11

(* Sorting and searching come before the pass and the run.                   *)
LEMMA BeforePass ==
  ASSUME CondInv, SortInv', cfg' = cfg,
         phase # "done" \/ stack # <<>>, UNCHANGED <<passVars, runVars>>
  PROVE  PassInv' /\ RunInv'
<1>1. /\ bbi = 0 /\ DOMAIN map = {} /\ ~failed /\ at = none
      /\ latest \in [Block -> {"none", "left", "true", "false"}]
  BY DEF CondInv, PassInv, RunInv
<1>2. /\ bbi' = 0 /\ DOMAIN map' = {} /\ ~failed' /\ at' = none
      /\ latest' \in [Block -> {"none", "left", "true", "false"}]
  BY <1>1 DEF passVars, runVars
<1>3. Len(layout') \in Nat
  BY OrderFacts DEF SortInv, MoveInv, IsOrder
<1>4. PassInv'
  BY <1>2, <1>3, MapEmpty DEF PassInv
<1> QED
  BY <1>2, <1>4 DEF RunInv

LEMMA SortStep == CondInv /\ Sort => CondInv'
<1> SUFFICES ASSUME CondInv, Sort PROVE CondInv'
  OBVIOUS
<1>1. Next /\ UNCHANGED <<searchVars, passVars, runVars>>
  BY DEF Sort
<1>2. SortInv' /\ ForwardInv'
  BY <1>1, SortInductive, ForwardNext DEF CondInv
<1>3. cfg' = cfg /\ phase # "done"
  BY <1>1 DEF Next, VisitSuccessor, SkipSuccessor, LeaveBlock, Sorted, MoveNext, Done, InLoop
<1>4. SearchInv'
  BY <1>1, <1>3, SearchStable DEF CondInv
<1>5. PassInv' /\ RunInv'
  BY <1>1, <1>2, <1>3, BeforePass
<1> QED
  BY <1>2, <1>4, <1>5 DEF CondInv

(* The steps after the sorting leave its variables alone.                    *)
LEMMA SortedStable ==
  ASSUME CondInv, UNCHANGED vars
  PROVE  SortInv' /\ ForwardInv' /\ cfg' = cfg
<1>1. SortInv' /\ ForwardInv'
  BY SortInductive, ForwardNext DEF CondInv
<1> QED
  BY <1>1 DEF vars

LEMMA SearchStep == CondInv /\ (SearchNew \/ SearchOld \/ SearchBack) => CondInv'
<1> SUFFICES ASSUME CondInv, SearchNew \/ SearchOld \/ SearchBack PROVE CondInv'
  OBVIOUS
<1>1. UNCHANGED vars /\ UNCHANGED <<passVars, runVars>> /\ stack # <<>>
  BY DEF SearchNew, SearchOld, SearchBack, Searching
<1>2. SortInv' /\ ForwardInv' /\ cfg' = cfg
  BY <1>1, SortedStable
<1>3. SearchInv'
  BY SearchNewStep, SearchOldStep, SearchBackStep DEF CondInv
<1>4. PassInv' /\ RunInv'
  BY <1>1, <1>2, BeforePass
<1> QED
  BY <1>2, <1>3, <1>4 DEF CondInv

LEMMA PropagateBlockStep == CondInv /\ PropagateBlock => CondInv'
<1> SUFFICES ASSUME CondInv, PropagateBlock PROVE CondInv'
  OBVIOUS
<1>1. UNCHANGED vars /\ UNCHANGED searchVars /\ UNCHANGED runVars /\ bbi < Len(layout)
  BY DEF PropagateBlock
<1>2. SortInv' /\ ForwardInv' /\ cfg' = cfg
  BY <1>1, SortedStable
<1>3. SearchInv'
  BY <1>1, <1>2, SearchStable DEF CondInv
<1>4. PassInv'
  BY PropagateStep DEF CondInv
<1>5. at = none
  <2>1. Len(layout) \in Nat /\ bbi \in 0 .. Len(layout)
    BY LayoutFacts DEF CondInv, PassInv
  <2>2. bbi # Len(layout)
    BY <1>1, <2>1
  <2> QED
    BY <2>2 DEF CondInv, RunInv, ready
<1>6. RunInv'
  BY <1>1, <1>5 DEF CondInv, RunInv, runVars
<1> QED
  BY <1>2, <1>3, <1>4, <1>6 DEF CondInv

(* A step that only the run takes.                                          *)
LEMMA RunKeepsPass ==
  ASSUME CondInv, UNCHANGED <<vars, searchVars, passVars>>, ready, stack = <<>>
  PROVE  SortInv' /\ ForwardInv' /\ SearchInv' /\ PassInv'
<1>1. SortInv' /\ ForwardInv' /\ cfg' = cfg /\ layout' = layout /\ phase' = phase
  BY SortedStable DEF vars
<1>2. SearchInv'
  BY <1>1, SearchStable DEF CondInv
<1>3. /\ phase = "done" /\ stack = <<>> /\ ~failed /\ stack' = stack /\ backedges' = backedges
      /\ bbi' = bbi /\ map' = map /\ failed' = failed
  BY DEF ready, searchVars, passVars
<1>4. MapInv'
  BY <1>3, MapStable DEF CondInv, PassInv
<1>5. bbi' \in 0 .. Len(layout')
  BY <1>1, <1>3 DEF CondInv, PassInv
<1> QED
  BY <1>1, <1>2, <1>3, <1>4, <1>5 DEF PassInv

(* The invariant of the run after a step, in terms of the graph before.       *)
LEMMA RunsOn ==
  ASSUME cfg' = cfg, NEW a, at' = a, a \in Block, ready', stack' = <<>>,
         latest' \in [Block -> {"none", "left", "true", "false"}],
         Reducible => \A c \in Block : Dominates(c, a) => Hold(c)'
  PROVE  RunInv'
<1>1. \A c : Dominates(c, at)' <=> Dominates(c, a)
  BY DEF Dominates, ReachedAvoiding
<1> QED
  BY <1>1, PassGraphStable DEF RunInv

LEMMA EnterStep == CondInv /\ Enter => CondInv'
<1> SUFFICES ASSUME CondInv, Enter PROVE CondInv'
  OBVIOUS
<1>1. /\ ready /\ at' = entry /\ latest' = latest /\ UNCHANGED <<vars, searchVars, passVars>>
      /\ cfg' = cfg /\ layout' = layout /\ phase' = phase /\ stack' = stack /\ map' = map
      /\ bbi' = bbi /\ failed' = failed
  BY DEF Enter, vars, searchVars, passVars
<1>2. cfg \in CFGs /\ entry \in Block
  BY GraphFacts DEF CondInv, SearchInv, SearchType
<1>3. stack = <<>>
  <2>1. Len(layout) \in Nat /\ Position(entry) \in 1 .. Len(layout)
    BY <1>2, LayoutFacts DEF CondInv
  <2>2. Len(layout) # 0
    BY <2>1
  <2> QED
    BY <1>1, <2>2 DEF CondInv, PassInv, ready
<1>4. SortInv' /\ ForwardInv' /\ SearchInv' /\ PassInv'
  BY <1>1, <1>3, RunKeepsPass
<1>5. map[entry].trues = {} /\ map[entry].falses = {}
  <2>1. preds(entry) = {}
    BY <1>2, GraphFacts DEF preds, isPred
  <2>2. entry \in DOMAIN map
    <3>1. /\ Position(entry) \in 1 .. Len(layout) /\ layout[Position(entry)] = entry
      BY <1>2, LayoutFacts DEF CondInv
    <3>2. DOMAIN map = {layout[i] : i \in 1 .. Len(layout)}
      BY <1>1 DEF CondInv, PassInv, MapInv, ready
    <3> QED
      BY <3>1, <3>2
  <2> QED
    BY <2>1, <2>2 DEF CondInv, PassInv, MapInv, Justified
<1>6. Hold(entry)'
  BY <1>1, <1>5 DEF Hold
<1>7. \A c \in Block : Dominates(c, entry) => Hold(c)'
  BY <1>2, <1>6, DominatesEntry
<1>8. ready' /\ stack' = <<>>
  BY <1>1, <1>3 DEF ready
<1>9. RunInv'
  BY <1>1, <1>2, <1>7, <1>8, RunsOn DEF CondInv, RunInv
<1> QED
  BY <1>4, <1>9 DEF CondInv

(* A condition of a block that dominates the current one is not about the     *)
(* current one: what the branch there does leaves it true.                   *)
LEMMA ConditionsElsewhere ==
  ASSUME CondInv, ready, stack = <<>>, Reducible, NEW u \in Block,
         NEW c \in Block, Dominates(c, u), NEW f \in map[c].trues \cup map[c].falses
  PROVE  f[2] \in Block /\ f[2] # u
<1>1. DOMAIN map = Block
  <2>1. \A b \in Block : Position(b) \in 1 .. Len(layout) /\ layout[Position(b)] = b
    BY LayoutFacts DEF CondInv
  <2>2. DOMAIN map = {layout[i] : i \in 1 .. Len(layout)} /\ DOMAIN map \in SUBSET Block
    BY DEF CondInv, PassInv, MapInv, ready
  <2> QED
    BY <2>1, <2>2
<1>2. f[2] \in Block /\ Position(f[2]) < Position(c)
  BY <1>1 DEF CondInv, PassInv, MapInv
<1>3. Position(c) <= Position(u)
  <2>1. phase # "visit" /\ moved = Len(blockList)
    BY DEF ready, CondInv, ForwardInv
  <2> QED
    BY <2>1, DominatorsBefore DEF CondInv
<1>4. Position(f[2]) \in Nat /\ Position(c) \in Nat /\ Position(u) \in Nat
  BY <1>2, PositionType DEF CondInv, SortInv, MoveInv
<1>5. f[2] # u
  BY <1>2, <1>3, <1>4
<1> QED
  BY <1>2, <1>5

LEMMA BranchStep == CondInv /\ Branch => CondInv'
<1> SUFFICES ASSUME CondInv, Branch PROVE CondInv'
  OBVIOUS
<1>a. PICK u \in Block : u = at
  BY DEF Branch, CondInv, RunInv
<1>0. PICK k \in DOMAIN cfg[u] :
        /\ at' = cfg[u][k]
        /\ latest' = [latest EXCEPT ![u] = IF Len(cfg[u]) = 1 THEN "left"
                                           ELSE IF k = 1 THEN "true" ELSE "false"]
  BY <1>a DEF Branch
<1>b. PICK v : v = cfg[u][k]
  OBVIOUS
<1>1. /\ UNCHANGED <<vars, searchVars, passVars>>
      /\ cfg' = cfg /\ layout' = layout /\ phase' = phase /\ stack' = stack /\ map' = map
      /\ bbi' = bbi /\ failed' = failed
  BY DEF Branch, vars, searchVars, passVars
<1>2. ready /\ stack = <<>> /\ at # none
  BY DEF Branch, CondInv, RunInv
<1>3. cfg \in CFGs
  BY DEF CondInv, SearchInv, SearchType
<1>4. /\ Len(cfg[u]) \in 0 .. 2 /\ DOMAIN cfg[u] = 1 .. Len(cfg[u])
      /\ v \in ToSet(cfg[u]) /\ v \in Block
  <2>1. v \in ToSet(cfg[u])
    BY <1>b DEF ToSet
  <2> QED
    BY <1>3, <2>1, GraphFacts
<1>5. at' = v
  BY <1>0, <1>b
<1>6. SortInv' /\ ForwardInv' /\ SearchInv' /\ PassInv'
  BY <1>1, <1>2, RunKeepsPass
<1>7. /\ latest \in [Block -> {"none", "left", "true", "false"}]
      /\ latest' \in [Block -> {"none", "left", "true", "false"}]
      /\ latest'[u] = IF Len(cfg[u]) = 1 THEN "left" ELSE IF k = 1 THEN "true" ELSE "false"
      /\ \A c \in Block : c # u => latest'[c] = latest[c]
  BY <1>0 DEF CondInv, RunInv
<1>8. ASSUME Reducible, NEW c \in Block, Dominates(c, u) PROVE Hold(c)'
  <2>1. Hold(c)
    BY <1>a, <1>2, <1>8 DEF CondInv, RunInv
  <2>2. \A f \in map[c].trues \cup map[c].falses : latest'[f[2]] = latest[f[2]]
    BY <1>2, <1>7, <1>8, ConditionsElsewhere
  <2> QED
    BY <1>1, <2>1, <2>2 DEF Hold
<1>9. ASSUME Reducible, ~Dominates(v, u) PROVE Hold(v)'
  <2>1. u \in preds(v)
    <3>1. <<u, v>> \notin backedges
      BY <1>2, <1>4, <1>9, BackedgesFound DEF CondInv
    <3> QED
      BY <1>4, <3>1 DEF preds, isPred
  <2>2. /\ \A f \in map[v].trues : f \in map[u].trues \/ TrueOf(f, u, v)
        /\ \A f \in map[v].falses : f \in map[u].falses \/ FalseOf(f, u, v)
    <3>1. v \in DOMAIN map
      <4>1. Position(v) \in 1 .. Len(layout) /\ layout[Position(v)] = v
        BY <1>4, LayoutFacts DEF CondInv
      <4>2. DOMAIN map = {layout[i] : i \in 1 .. Len(layout)}
        BY <1>2 DEF CondInv, PassInv, MapInv, ready
      <4> QED
        BY <4>1, <4>2
    <3> QED
      BY <2>1, <3>1 DEF CondInv, PassInv, MapInv, Justified
  <2>3. Hold(u)'
    <3>1. Dominates(u, u)
      BY DEF Dominates
    <3> QED
      BY <1>8, <1>9, <3>1
  <2>4. /\ \A f \in map[u].trues :
             IF f[1] = "branch" THEN latest'[f[2]] = "true" ELSE latest'[f[2]] # "none"
        /\ \A f \in map[u].falses : latest'[f[2]] = "false"
    BY <1>1, <2>3 DEF Hold
  <2>5. ASSUME NEW f, TrueOf(f, u, v)
        PROVE  IF f[1] = "branch" THEN latest'[f[2]] = "true" ELSE latest'[f[2]] # "none"
    <3>1. CASE f = <<"assume", u>>
      <4>1. f[1] # "branch" /\ f[2] = u
        BY <3>1
      <4> QED
        BY <1>7, <4>1
    <3>2. CASE f = <<"branch", u>> /\ Len(cfg[u]) = 2 /\ cfg[u][1] = v
      <4>1. f[2] = u
        BY <3>2
      <4>2. k = 1
        <5>1. cfg[u][1] # cfg[u][2]
          BY <1>3, <3>2, BranchesAssumption
        <5>2. k \in {1, 2}
          BY <1>4, <3>2
        <5> QED
          BY <1>b, <3>2, <5>1, <5>2
      <4> QED
        BY <1>7, <3>2, <4>1, <4>2
    <3> QED
      BY <2>5, <3>1, <3>2 DEF TrueOf
  <2>6. ASSUME NEW f, FalseOf(f, u, v) PROVE latest'[f[2]] = "false"
    <3>1. f[2] = u /\ Len(cfg[u]) = 2 /\ cfg[u][1] # v
      BY <2>6 DEF FalseOf
    <3>2. k # 1
      BY <1>b, <3>1
    <3> QED
      BY <1>7, <3>1, <3>2
  <2>7. /\ \A f \in map[v].trues :
             IF f[1] = "branch" THEN latest'[f[2]] = "true" ELSE latest'[f[2]] # "none"
        /\ \A f \in map[v].falses : latest'[f[2]] = "false"
    BY <2>2, <2>4, <2>5, <2>6
  <2> QED
    BY <1>1, <2>7 DEF Hold
<1>10. ASSUME Reducible, NEW c \in Block, Dominates(c, v) PROVE Hold(c)'
  <2>1. CASE Dominates(c, u)
    BY <1>8, <1>10, <2>1
  <2>2. CASE ~Dominates(c, u)
    <3>1. c = v
      BY <1>3, <1>4, <1>10, <2>2, DominatesBefore
    <3> QED
      BY <1>9, <1>10, <2>2, <3>1
  <2> QED
    BY <2>1, <2>2
<1>11. ready' /\ stack' = <<>>
  BY <1>1, <1>2 DEF ready
<1>12. RunInv'
  BY <1>1, <1>4, <1>5, <1>7, <1>10, <1>11, RunsOn
<1> QED
  BY <1>6, <1>12 DEF CondInv

LEMMA CondNext == CondInv /\ [PassNext]_cpVars => CondInv'
<1> SUFFICES ASSUME CondInv, [PassNext]_cpVars PROVE CondInv'
  OBVIOUS
<1>1. CASE Sort
  BY <1>1, SortStep
<1>2. CASE SearchNew \/ SearchOld \/ SearchBack
  BY <1>2, SearchStep
<1>3. CASE PropagateBlock
  BY <1>3, PropagateBlockStep
<1>4. CASE Enter
  BY <1>4, EnterStep
<1>5. CASE Branch
  BY <1>5, BranchStep
<1>6. CASE UNCHANGED cpVars
  <2>1. UNCHANGED vars /\ UNCHANGED searchVars /\ UNCHANGED passVars /\ UNCHANGED runVars
    BY <1>6 DEF cpVars
  <2>2. CASE phase # "done" \/ stack # <<>>
    <3>1. SortInv' /\ ForwardInv' /\ cfg' = cfg
      BY <2>1, SortedStable
    <3>2. SearchInv'
      BY <2>1, <3>1, SearchStable DEF CondInv
    <3>3. PassInv' /\ RunInv'
      BY <2>1, <2>2, <3>1, BeforePass
    <3> QED
      BY <3>1, <3>2, <3>3 DEF CondInv
  <2>3. CASE phase = "done" /\ stack = <<>>
    <3>1. SortInv' /\ ForwardInv' /\ cfg' = cfg /\ layout' = layout /\ phase' = phase
      BY <2>1, SortedStable DEF vars
    <3>2. SearchInv'
      BY <2>1, <3>1, SearchStable DEF CondInv
    <3>3. /\ stack' = stack /\ backedges' = backedges /\ bbi' = bbi /\ map' = map
          /\ failed' = failed /\ at' = at /\ latest' = latest
      BY <2>1 DEF searchVars, passVars, runVars
    <3>4. MapInv'
      BY <2>1, <3>3, MapStable DEF CondInv, PassInv
    <3>5. PassInv'
      BY <2>3, <3>1, <3>3, <3>4, PassGraphStable DEF CondInv, PassInv
    <3>6. RunInv'
      <4>1. CASE at = none
        BY <3>3, <4>1 DEF CondInv, RunInv
      <4>2. CASE at # none
        <5>1. /\ at \in Block /\ ready' /\ stack' = <<>>
              /\ latest' \in [Block -> {"none", "left", "true", "false"}]
              /\ Reducible => \A c \in Block : Dominates(c, at) => Hold(c)'
          BY <3>1, <3>3, <4>2 DEF CondInv, RunInv, ready, Hold
        <5>2. PICK a \in Block : a = at
          BY <5>1
        <5> QED
          BY <3>1, <3>3, <5>1, <5>2, RunsOn
      <4> QED
        BY <4>1, <4>2
    <3> QED
      BY <3>1, <3>2, <3>5, <3>6 DEF CondInv
  <2> QED
    BY <2>2, <2>3
<1> QED
  BY <1>1, <1>2, <1>3, <1>4, <1>5, <1>6 DEF PassNext

LEMMA CondInvariant == PassSpec => []CondInv
BY CondInit, CondNext, PTL DEF PassSpec

-----------------------------------------------------------------------------
(* The theorems.                                                            *)

(* The order of the blocks that the pass works on is the one of               *)
(* BasicBlockSorter.                                                         *)
THEOREM OrderCorrect == PassSpec => [](DominatorsFirst /\ BackwardEdgesCloseLoops)
<1>1. CondInv => DominatorsFirst /\ BackwardEdgesCloseLoops
  BY DominatorsFirstLemma, BackwardEdgesLemma DEF CondInv
<1> QED
  BY <1>1, CondInvariant, PTL

(* Whichever way a function is run, the conditions ConditionPropagator has    *)
(* put at a block hold when the block is entered, if no loop has two entries. *)
THEOREM FactsCorrect == PassSpec => []FactsHold
<1>1. CondInv => FactsHold
  <2> SUFFICES ASSUME CondInv, at # none, Reducible PROVE Hold(at)
    BY DEF FactsHold
  <2>1. at \in Block /\ Dominates(at, at)
    BY DEF CondInv, RunInv, Dominates
  <2> QED
    BY <2>1 DEF CondInv, RunInv
<1> QED
  BY <1>1, CondInvariant, PTL

(* The lookups of the predecessors in ConditionPropagator never fail, if no   *)
(* loop has two entries.                                                    *)
THEOREM PredecessorsCorrect == PassSpec => []ReduciblePredecessorsFirst
<1>1. CondInv => ReduciblePredecessorsFirst
  BY DEF CondInv, PassInv, ReduciblePredecessorsFirst
<1> QED
  BY <1>1, CondInvariant, PTL

=============================================================================
