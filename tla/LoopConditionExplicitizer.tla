--------------------- MODULE LoopConditionExplicitizer ---------------------
(***************************************************************************)
(* LoopConditionExplicitizer: from the exit test of a loop with a          *)
(* canonical induction variable iv (0, 1, 2, ...) it derives conditions    *)
(* for the blocks of the loops inside and for the exit block.  The         *)
(* converter adds them to the constraint of the block's first rule, where  *)
(* a comparison has lost its sign: an unsigned one is written as <, <=, >  *)
(* or >= between the integers of the system.                               *)
(*                                                                         *)
(* The module runs such a loop with one inner loop, in a loop around both: *)
(* the test compares iv with a value op, in the header or in the latch,    *)
(* with iv as its first or second operand, and either successor of the     *)
(* branch stays in the loop.                                               *)
(***************************************************************************)
EXTENDS Integers

CONSTANTS
  Shapes,                        \* the loops considered
  Half,                          \* 2^(w-1) for integers of w bits
  Values,                        \* the values of op
  MaxIterations                  \* bound on iv where integers have no width

Signed == {"SLT", "SLE", "SGT", "SGE"}
Unsigned == {"ULT", "ULE", "UGT", "UGE"}
Preds == Signed \cup Unsigned \cup {"EQ", "NE"}

(* opInside: op is an instruction of the loop.  exitShared: the exit block    *)
(* has another predecessor, from which it is reached without the loop.  ints: *)
(* what the integers of the system are, with -bounded-integers "signed" or   *)
(* "unsigned".                                                              *)
Shape == [pred : Preds, ivFirst : BOOLEAN, stayOnTrue : BOOLEAN, test : {"header", "latch"},
          opInside : BOOLEAN, exitShared : BOOLEAN,
          ints : {"mathematical", "signed", "unsigned"}]

ASSUME ExplicitizerAssumption ==
  /\ Shapes \subseteq Shape /\ Values \subseteq Int
  /\ Half \in Nat \ {0} /\ MaxIterations \in Nat

VARIABLES
  loop, op,                      \* input
  inner, exit,                   \* m_map: predicates that compare op with zero in the inner
                                 \* blocks, and iv with op in the exit block
  at, iv                         \* the run

vars == <<loop, op, inner, exit, at, iv>>

-----------------------------------------------------------------------------
(* Integers of the system, and the comparisons of the program on them.      *)
isInteger(v) ==
  /\ loop.ints = "signed" => -Half <= v /\ v < Half
  /\ loop.ints = "unsigned" => 0 <= v /\ v < 2 * Half

plusOne(v) ==
  CASE loop.ints = "signed" /\ v + 1 = Half -> -Half
    [] loop.ints = "unsigned" /\ v + 1 = 2 * Half -> 0
    [] OTHER -> v + 1

inOrderOf(pred, v) ==
  CASE loop.ints = "signed" /\ pred \in Unsigned /\ v < 0 -> v + 2 * Half
    [] loop.ints = "unsigned" /\ pred \in Signed /\ v >= Half -> v - 2 * Half
    [] OTHER -> v

(* What getAtomType and buildBoundConjunction make of a comparison.          *)
Holds(x, pred, y) ==
  CASE pred \in {"SLT", "ULT"} -> x < y
    [] pred \in {"SLE", "ULE"} -> x <= y
    [] pred \in {"SGT", "UGT"} -> x > y
    [] pred \in {"SGE", "UGE"} -> x >= y
    [] pred = "EQ" -> x = y
    [] pred = "NE" -> x # y

Compare(x, pred, y) == Holds(inOrderOf(pred, x), pred, inOrderOf(pred, y))

-----------------------------------------------------------------------------
flip(pred) ==
  CASE pred = "SGT" -> "SLT" [] pred = "SGE" -> "SLE"
    [] pred = "SLT" -> "SGT" [] pred = "SLE" -> "SGE"
    [] pred = "UGT" -> "ULT" [] pred = "UGE" -> "ULE"
    [] pred = "ULT" -> "UGT" [] pred = "ULE" -> "UGE" [] OTHER -> pred

turned ==
  LET doflip == IF loop.ivFirst THEN loop.stayOnTrue ELSE ~loop.stayOnTrue
  IN  IF doflip THEN flip(loop.pred) ELSE loop.pred

(* Mutant of innerConditions: op may change in the loop.                     *)
innerConditionsAlways == {turned}

(* For every block of the inner loops, if op is no instruction of the loop.   *)
innerConditions == IF loop.opInside THEN {} ELSE {turned}

(* Mutant of exitConditions: the exit block may have other predecessors.     *)
exitConditionsShared ==
  IF \/ loop.ivFirst /\ loop.pred \in {"SLT", "ULT"}
     \/ ~loop.ivFirst /\ loop.pred \in {"SGT", "UGT"}
  THEN {"EQ"} ELSE {}

(* For the exit block, if the exiting block is its only predecessor, and      *)
(* whether or not op is an instruction of the loop.                          *)
exitConditions ==
  IF /\ ~loop.exitShared
     /\ \/ loop.ivFirst /\ loop.pred \in {"SLT", "ULT"}
        \/ ~loop.ivFirst /\ loop.pred \in {"SGT", "UGT"}
  THEN {"EQ"} ELSE {}

values == {v \in Values : isInteger(v)}

Init ==
  /\ loop \in Shapes
  /\ op \in values
  /\ inner = {}
  /\ exit = {}
  /\ at = "analysis"
  /\ iv = 0

runOnLoop ==
  /\ at = "analysis"
  /\ inner' = innerConditions
  /\ exit' = exitConditions
  /\ at' = "before"
  /\ UNCHANGED <<loop, op, iv>>

-----------------------------------------------------------------------------
(* The run.                                                                 *)
stays ==
  (IF loop.ivFirst THEN Compare(iv, loop.pred, op) ELSE Compare(op, loop.pred, iv))
    <=> loop.stayOnTrue

(* The exiting block leaves the loop, any other one goes on.                 *)
leaves(block) == loop.test = block /\ ~stays

(* An instruction of the loop has a new value in every iteration.            *)
iteration == op' \in IF loop.opInside THEN values ELSE {op}

Enter ==
  /\ at = "before"
  /\ at' = "header"
  /\ iv' = 0
  /\ iteration
  /\ UNCHANGED <<loop, inner, exit>>

GoAround ==
  /\ at = "before" /\ loop.exitShared
  /\ at' = "exit"
  /\ UNCHANGED <<loop, op, inner, exit, iv>>

Header ==
  /\ at = "header"
  /\ at' = IF leaves("header") THEN "exit" ELSE "inner"
  /\ UNCHANGED <<loop, op, inner, exit, iv>>

Inner ==
  /\ at = "inner"
  /\ at' = "latch"
  /\ UNCHANGED <<loop, op, inner, exit, iv>>

Latch ==
  /\ at = "latch"
  /\ \/ /\ leaves("latch")
        /\ at' = "exit"
        /\ UNCHANGED <<op, iv>>
     \/ /\ ~leaves("latch")
        /\ loop.ints = "mathematical" => iv < MaxIterations
        /\ at' = "header"
        /\ iv' = plusOne(iv)
        /\ iteration
  /\ UNCHANGED <<loop, inner, exit>>

(* The loop around comes back, perhaps with another op.                      *)
Again ==
  /\ at = "exit"
  /\ at' = "before"
  /\ op' \in values
  /\ UNCHANGED <<loop, inner, exit, iv>>

Next == runOnLoop \/ Enter \/ GoAround \/ Header \/ Inner \/ Latch \/ Again

Spec == Init /\ [][Next]_vars

-----------------------------------------------------------------------------
(* Properties.                                                              *)

(* Inner conditions a run does not satisfy although it passed the test: the   *)
(* branch stays when false, and the comparison was turned round where it had *)
(* to be negated; or the comparison has the other sign than the integers.    *)
LostInside ==
  \E p \in inner :
    \/ /\ ~loop.stayOnTrue
       /\ p \in {"EQ", "NE"} \/ (op = 0 /\ p \in {"SLT", "SGT", "ULT", "UGT"})
    \/ loop.ints = "signed" /\ p \in {"UGT", "UGE"} /\ op < 0
    \/ loop.ints = "unsigned" /\ p \in {"SLT", "SLE"} /\ op >= Half

(* A run that has passed the test since it entered the loop and comes to an   *)
(* inner loop, at whatever iteration, satisfies the conditions of its blocks: *)
(* otherwise the system loses the run.  It does so in the cases of LostInside *)
(* and in no other.                                                         *)
Tested == loop.test = "header" \/ iv # 0
InnerConditionsHold ==
  at = "inner" /\ Tested => ((\A p \in inner : Holds(op, p, 0)) <=> ~LostInside)

(* Exit conditions a run does not satisfy: the branch stays when false, the   *)
(* bound was below zero from the start, or it has moved below iv.            *)
LostAtExit ==
  /\ exit # {}
  /\ \/ ~loop.stayOnTrue
     \/ inOrderOf(loop.pred, op) < IF loop.opInside THEN inOrderOf(loop.pred, iv) ELSE 0

(* A run that comes to the exit block, out of the loop or around it, after    *)
(* however many iterations and whether or not iv has wrapped, satisfies its   *)
(* condition, except in the cases of LostAtExit.                             *)
ExitConditionsHold ==
  at = "exit" => ((\A p \in exit : Holds(iv, p, op)) <=> ~LostAtExit)
=============================================================================
