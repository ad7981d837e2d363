----------------------- MODULE MCConditionPropagator -----------------------
(***************************************************************************)
(* Control flow graphs in which the two successors of a branch differ, as  *)
(* CFG simplification leaves them.                                         *)
(***************************************************************************)
EXTENDS ConditionPropagator

MCBlock == 0 .. 3
Successors == {<<>>} \cup {<<a>> : a \in Block \ {entry}}
                \cup {s \in (Block \ {entry}) \X (Block \ {entry}) : s[1] # s[2]}
AllCFGs == {g \in [Block -> Successors] : IsCFG(g)}

(* Six blocks: a loop of 4 and 5 that is entered from 3 and from 1.  Both      *)
(* searches come to 4 first, by 3, and take the edge from 5 for one that      *)
(* closes a loop: the assumes of 3 are put at 4, which a run may enter by 1   *)
(* and 5.  Reducible leaves it out, and Hold fails.                          *)
TwoEntries ==
  [b \in 0 .. 5 |->
     CASE b = 0 -> <<1, 2>> [] b = 1 -> <<3, 5>> [] b = 2 -> <<3>>
       [] b = 3 -> <<4>> [] b = 4 -> <<5>> [] b = 5 -> <<4>>]
=============================================================================
