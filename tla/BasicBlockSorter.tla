-------------------------- MODULE BasicBlockSorter --------------------------
(***************************************************************************)
(* BasicBlockSorter: the last transformation before a function is          *)
(* converted moves its basic blocks into the reverse of a depth-first      *)
(* post-order.  The converter emits the rules of a function in block       *)
(* order, and the slicer takes what a symbol defines from the FIRST rule   *)
(* that leads to it, so what this order guarantees matters downstream.     *)
(*                                                                         *)
(* A block is a number; 0 is the entry block and comes first in the        *)
(* function, as LLVM requires.  The recursion of visitBasicBlock is a      *)
(* stack of frames with the counter idx of its loop over the successors.   *)
(***************************************************************************)
EXTENDS Integers, SequencesExt, FiniteSetsExt

CONSTANTS
  Block,                         \* the blocks of the function, 0 among them
  CFGs                           \* the control flow graphs considered

entry == 0

(* The terminators InstChecker accepts have at most two successors.  The     *)
(* entry block has no predecessor and CFG simplification, which runs         *)
(* earlier, has removed the unreachable blocks.                              *)
Reached(cfg) ==
  {b \in Block : \A U \in SUBSET Block :
                   entry \in U /\ (\A u \in U : ToSet(cfg[u]) \subseteq U) => b \in U}

IsCFG(cfg) ==
  /\ \A b \in Block : entry \notin ToSet(cfg[b])
  /\ Reached(cfg) = Block

ASSUME CFGsAssumption ==
  /\ IsFiniteSet(Block) /\ entry \in Block /\ Block = 0 .. Cardinality(Block) - 1
  /\ \A cfg \in CFGs :
       /\ cfg \in [Block -> Seq(Block)] /\ \A b \in Block : Len(cfg[b]) <= 2
       /\ IsCFG(cfg)

VARIABLES
  cfg,                           \* input: the successors of every block
  phase,                         \* "visit", "move" or "done"
  frames,                        \* the active calls of visitBasicBlock, innermost last
  visitedBlocks,
  blockList,                     \* the post-order
  moved,                         \* the iterator of the loop that moves the blocks
  layout                         \* the order of the blocks in the function

vars == <<cfg, phase, frames, visitedBlocks, blockList, moved, layout>>

-----------------------------------------------------------------------------
Call(bb) == [BB |-> bb, idx |-> Len(cfg[bb])]

Init ==
  /\ cfg \in CFGs
  /\ phase = "visit"
  /\ frames = <<Call(entry)>>
  /\ visitedBlocks = {entry}
  /\ blockList = <<>>
  /\ moved = 1
  /\ layout = [i \in 1 .. Cardinality(Block) |-> i - 1]

Top == Last(frames)
Successor == cfg[Top.BB][Top.idx]
(* Mutant of CountDown: the counter is decremented twice.                    *)
CountDownTwice == [frames EXCEPT ![Len(frames)].idx = @ - 2]

CountDown == [frames EXCEPT ![Len(frames)].idx = @ - 1]

InLoop == phase = "visit" /\ frames # <<>> /\ Top.idx # 0

(* The successors are visited from the last to the first.                    *)
VisitSuccessor ==
  /\ InLoop
  /\ Successor \notin visitedBlocks
  /\ visitedBlocks' = visitedBlocks \cup {Successor}
  /\ frames' = Append(CountDown, Call(Successor))
  /\ UNCHANGED <<cfg, phase, blockList, moved, layout>>

SkipSuccessor ==
  /\ InLoop
  /\ Successor \in visitedBlocks
  /\ frames' = CountDown
  /\ UNCHANGED <<cfg, phase, visitedBlocks, blockList, moved, layout>>

(* Mutant of LeaveBlock: the block is put in front of the list.               *)
LeaveBlockFront ==
  /\ phase = "visit"
  /\ frames # <<>>
  /\ Top.idx = 0
  /\ blockList' = Cons(Top.BB, blockList)
  /\ frames' = Front(frames)
  /\ UNCHANGED <<cfg, phase, visitedBlocks, moved, layout>>

LeaveBlock ==
  /\ phase = "visit"
  /\ frames # <<>>
  /\ Top.idx = 0
  /\ blockList' = Append(blockList, Top.BB)
  /\ frames' = Front(frames)
  /\ UNCHANGED <<cfg, phase, visitedBlocks, moved, layout>>

Sorted ==
  /\ phase = "visit"
  /\ frames = <<>>
  /\ phase' = "move"
  /\ UNCHANGED <<cfg, frames, visitedBlocks, blockList, moved, layout>>

Place(s, b) == SelectInSeq(s, LAMBDA c : c = b)
Position(b) == Place(layout, b)

(* Mutant of MoveBefore: the block is moved behind the other one.             *)
MoveBehind(b, a) ==
  LET rest == RemoveAt(layout, Position(b))
      at == Place(rest, a)
  IN  InsertAt(rest, at + 1, b)

(* b->moveBefore(a) in the list of the function's blocks.                    *)
MoveBefore(b, a) ==
  LET rest == RemoveAt(layout, Position(b))
      at == Place(rest, a)
  IN  InsertAt(rest, at, b)

(* Mutant of MoveNext: the loop stops before the last pair.                  *)
MoveNextShort ==
  /\ phase = "move"
  /\ moved + 2 <= Len(blockList)
  /\ layout' = MoveBefore(blockList[moved + 1], blockList[moved])
  /\ moved' = moved + 1
  /\ UNCHANGED <<cfg, phase, frames, visitedBlocks, blockList>>

MoveNext ==
  /\ phase = "move"
  /\ moved + 1 <= Len(blockList)
  /\ layout' = MoveBefore(blockList[moved + 1], blockList[moved])
  /\ moved' = moved + 1
  /\ UNCHANGED <<cfg, phase, frames, visitedBlocks, blockList>>

Done ==
  /\ phase = "move"
  /\ moved = Len(blockList)
  /\ phase' = "done"
  /\ UNCHANGED <<cfg, frames, visitedBlocks, blockList, moved, layout>>

Next ==
  \/ VisitSuccessor
  \/ SkipSuccessor
  \/ LeaveBlock
  \/ Sorted
  \/ MoveNext
  \/ Done

Spec == Init /\ [][Next]_vars /\ WF_vars(Next)

-----------------------------------------------------------------------------
(* Properties.                                                              *)

(* Type invariant.                                                          *)
TypeOK ==
  /\ cfg \in CFGs
  /\ phase \in {"visit", "move", "done"}
  /\ frames \in Seq([BB : Block, idx : 0 .. 2])
  /\ visitedBlocks \subseteq Block
  /\ blockList \in Seq(Block)
  /\ moved \in Nat \ {0}
  /\ layout \in Seq(Block)

(* The blocks that u reaches without passing through the block d.            *)
ReachedAvoiding(u, d) ==
  {b \in Block : \A U \in SUBSET Block :
                   u \in U /\ (\A v \in U : ToSet(cfg[v]) \ {d} \subseteq U) => b \in U}

Dominates(d, b) == d = b \/ d = entry \/ b \notin ReachedAvoiding(entry, d)

(* The last block has found its place; the layout stays as it is.            *)
allMoved == phase = "move" /\ moved = Len(blockList)

(* A block comes after every block that dominates it, the entry block first:  *)
(* the rules that define a variable are emitted before those that may read   *)
(* it.                                                                       *)
DominatorsFirst ==
  allMoved =>
    \A d, b \in Block : Dominates(d, b) => Position(d) <= Position(b)

(* An edge that leads backwards closes a loop: in a function without loops    *)
(* all edges lead forwards.                                                  *)
BackwardEdgesCloseLoops ==
  allMoved =>
    \A u \in Block : \A v \in ToSet(cfg[u]) :
       Position(v) <= Position(u) => u \in ReachedAvoiding(v, entry)
=============================================================================
