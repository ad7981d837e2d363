------------------------ MODULE ConditionPropagator ------------------------
(***************************************************************************)
(* ConditionPropagator, run after BasicBlockSorter: for every block, in    *)
(* the order of the function, the conditions that are known to be true or  *)
(* false when control enters it.  The converter puts them into the         *)
(* constraint of the block's first rule, so a condition that does not hold *)
(* cuts off runs of the program.                                           *)
(*                                                                         *)
(* The condition of the branch at the end of block b is <<"branch", b>>,   *)
(* the arguments of the assumes in b are <<"assume", b>>.  After the pass  *)
(* the module runs the function, along any path, and remembers how the     *)
(* latest branch of every block went.                                      *)
(***************************************************************************)
EXTENDS BasicBlockSorter

(* CFG simplification leaves no branch with the same block on both sides.     *)
ASSUME BranchesAssumption ==
  \A g \in CFGs : \A b \in Block : Len(g[b]) = 2 => g[b][1] # g[b][2]

VARIABLES
  stack, searched, backedges,    \* llvm::FindFunctionBackedges
  bbi,                           \* how many blocks have been done
  map,                           \* m_map
  failed,                        \* the pass has called exit(99999)
  onlyLoopConditions,            \* m_onlyLoopConditions
  at,                            \* the run: the current block, none before it starts
  latest                         \* the latest outcome of every block

searchVars == <<stack, searched, backedges>>
passVars == <<bbi, map, failed, onlyLoopConditions>>
runVars == <<at, latest>>
cpVars == <<vars, searchVars, passVars, runVars>>

none == -1

PassInit ==
  /\ Init
  /\ stack = <<[BB |-> entry, idx |-> 1]>>
  /\ searched = {entry}
  /\ backedges = {}
  /\ bbi = 0
  /\ map = [b \in {} |-> [trues |-> {}, falses |-> {}]]
  /\ failed = FALSE
  /\ onlyLoopConditions \in BOOLEAN
  /\ at = none
  /\ latest = [b \in Block |-> "none"]

-----------------------------------------------------------------------------
(* llvm::FindFunctionBackedges: the edges to a block on the stack of a depth- *)
(* first search that visits successors from the first to the last.           *)
Searching == phase = "done" /\ stack # <<>>

SearchTop == Last(stack)
MoreEdges == SearchTop.idx <= Len(cfg[SearchTop.BB])
NextBlock == cfg[SearchTop.BB][SearchTop.idx]
CountUp == [stack EXCEPT ![Len(stack)].idx = @ + 1]
OnStack(b) == \E k \in DOMAIN stack : stack[k].BB = b

SearchNew ==
  /\ Searching
  /\ MoreEdges
  /\ NextBlock \notin searched
  /\ searched' = searched \cup {NextBlock}
  /\ stack' = Append(CountUp, [BB |-> NextBlock, idx |-> 1])
  /\ UNCHANGED <<vars, backedges, passVars, runVars>>

SearchOld ==
  /\ Searching
  /\ MoreEdges
  /\ NextBlock \in searched
  /\ stack' = CountUp
  /\ backedges' = IF OnStack(NextBlock) THEN backedges \cup {<<SearchTop.BB, NextBlock>>} ELSE backedges
  /\ UNCHANGED <<vars, searched, passVars, runVars>>

SearchBack ==
  /\ Searching
  /\ ~MoreEdges
  /\ stack' = Front(stack)
  /\ UNCHANGED <<vars, searched, backedges, passVars, runVars>>

-----------------------------------------------------------------------------
(* LoopConditionBlocksCollector: the header and the only latch of a loop if   *)
(* an edge leaves the loop from there.                                       *)
isPred(u, b) == b \in ToSet(cfg[u])

latches(h) == {u \in Block : isPred(u, h) /\ Dominates(h, u)}
loopOf(h) == {h} \cup {b \in Block : latches(h) \cap ReachedAvoiding(b, h) # {}}
isLoopExiting(b, loop) == \E v \in ToSet(cfg[b]) : v \notin loop
conditionBlocks ==
  UNION {{b \in {h} \cup (IF Cardinality(latches(h)) = 1 THEN latches(h) ELSE {}) :
            isLoopExiting(b, loopOf(h))} :
         h \in {b \in Block : latches(b) # {}}}

-----------------------------------------------------------------------------
(* The pass.                                                                *)

(* Mutant of preds: the edges that close loops count as well.                *)
predsOfAll(b) == {u \in Block : isPred(u, b)}

preds(b) == {u \in Block : isPred(u, b) /\ <<u, b>> \notin backedges}

Facts(T, F) == [trues |-> T, falses |-> F]

(* What all predecessors know.                                              *)
intersect(P) ==
  Facts({f \in UNION {map[u].trues : u \in P} : \A u \in P : f \in map[u].trues},
        {f \in UNION {map[u].falses : u \in P} : \A u \in P : f \in map[u].falses})

branchCondition(u) ==
  IF Len(cfg[u]) = 2 /\ (~onlyLoopConditions \/ u \in conditionBlocks)
  THEN {<<"branch", u>>} ELSE {}
assumes(u) == IF onlyLoopConditions THEN {} ELSE {<<"assume", u>>}

(* What the way from u to b adds.                                           *)
onTheWay(u, b) ==
  IF cfg[u][1] = b THEN Facts(branchCondition(u) \cup assumes(u), {})
  ELSE Facts(assumes(u), branchCondition(u))

(* Mutant of learned: also at a block with several predecessors.             *)
learnedFromAny(b) ==
  IF preds(b) = {} THEN Facts({}, {}) ELSE onTheWay(CHOOSE u \in preds(b) : TRUE, b)

(* The way from the only predecessor.                                       *)
learned(b) ==
  IF Cardinality(preds(b)) # 1 THEN Facts({}, {}) ELSE onTheWay(CHOOSE u \in preds(b) : TRUE, b)

known(b) ==
  Facts(intersect(preds(b)).trues \cup learned(b).trues, intersect(preds(b)).falses \cup learned(b).falses)

PropagateBlock ==
  /\ phase = "done"
  /\ stack = <<>>
  /\ bbi < Len(layout)
  /\ LET b == layout[bbi + 1]
     IN  IF preds(b) \subseteq DOMAIN map
         THEN /\ map' = [c \in DOMAIN map \cup {b} |-> IF c = b THEN known(b) ELSE map[c]]
              /\ bbi' = bbi + 1
              /\ UNCHANGED failed
         ELSE failed' = TRUE /\ bbi' = Len(layout) /\ UNCHANGED map
  /\ UNCHANGED <<vars, searchVars, onlyLoopConditions, runVars>>

-----------------------------------------------------------------------------
(* The function runs.                                                       *)

ready == phase = "done" /\ bbi = Len(layout) /\ ~failed

Enter ==
  /\ ready
  /\ at = none
  /\ at' = entry
  /\ UNCHANGED <<vars, searchVars, passVars, latest>>

Branch ==
  /\ at # none
  /\ \E k \in DOMAIN cfg[at] :
       /\ at' = cfg[at][k]
       /\ latest' = [latest EXCEPT ![at] = IF Len(cfg[at]) = 1 THEN "left"
                                           ELSE IF k = 1 THEN "true" ELSE "false"]
  /\ UNCHANGED <<vars, searchVars, passVars>>

Sort == Next /\ UNCHANGED <<searchVars, passVars, runVars>>

PassNext ==
  \/ Sort
  \/ SearchNew
  \/ SearchOld
  \/ SearchBack
  \/ PropagateBlock
  \/ Enter
  \/ Branch

(* Sorting runs on in its one thread; the function may stop anywhere.        *)
PassSpec ==
  /\ PassInit
  /\ [][PassNext]_cpVars
  /\ WF_cpVars(Sort)

-----------------------------------------------------------------------------
(* Properties.                                                              *)

(* The loops of the function have one entry each: without the edges to        *)
(* dominating blocks there is no cycle, no set of blocks in which every block *)
(* has a successor.                                                         *)
Reducible ==
  \A S \in SUBSET Block :
    (\A u \in S : \E v \in ToSet(cfg[u]) \cap S : ~Dominates(v, u)) => S = {}

(* The branches and assumes the conditions of block b stand for have been     *)
(* passed, and went that way the last time.                                  *)
Hold(b) ==
  /\ \A f \in map[b].trues :
       IF f[1] = "branch" THEN latest[f[2]] = "true" ELSE latest[f[2]] # "none"
  /\ \A f \in map[b].falses : latest[f[2]] = "false"

(* Whichever way control enters a block, the conditions of the block hold, in *)
(* any function whose loops have one entry each.  With two entries a          *)
(* condition may be put at a block that is entered without it.               *)
FactsHold == at # none => Hold(at) \/ ~Reducible

(* The pass finds what it needs to know of a predecessor, which comes earlier *)
(* in the function or closes a loop: no exit(99999), in any function whose   *)
(* loops have one entry each, whatever the two depth-first searches take for *)
(* the edges that close them.  With two entries it may.                      *)
ReduciblePredecessorsFirst == failed => ~Reducible

(* The recursive visit of the blocks and the loop that moves them end.       *)
SortTerminates == <>(phase = "done")
=============================================================================
