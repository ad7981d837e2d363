------------------------ MODULE LoopConditionProofs ------------------------
(***************************************************************************)
(* Proofs about the conditions the LoopConditionExplicitizer derives from  *)
(* the test of a loop: for every comparison, every place and order of its  *)
(* operands, every bound, integers of any width or of none, and any number *)
(* of iterations.                                                           *)
(***************************************************************************)
EXTENDS LoopConditionExplicitizer, TLAPS

-----------------------------------------------------------------------------
(* What the test says when the induction variable has the value x.          *)
Test(x) == IF loop.ivFirst THEN Compare(x, loop.pred, op) ELSE Compare(op, loop.pred, x)
Passed(x) == Test(x) <=> loop.stayOnTrue

(* The variables have their types; the induction variable starts at zero    *)
(* and wraps where integers have a width.                                   *)
TypeInv ==
  /\ loop \in Shapes /\ op \in values
  /\ inner \in SUBSET Preds /\ exit \in SUBSET {"EQ"}
  /\ at \in {"analysis", "before", "header", "inner", "latch", "exit"}
  /\ iv \in Int /\ isInteger(iv)
  /\ loop.ints = "mathematical" => iv >= 0

(* The conditions are those of the loop, from when the pass has run.        *)
Derived == at # "analysis" => inner = innerConditions /\ exit = exitConditions

(* If op does not change in the loop, a run that is past the test has       *)
(* passed it at zero: the first test tells what the later ones need.        *)
Gone == (at \in {"inner", "latch"} /\ Tested) \/ (at = "header" /\ iv # 0)
FirstTestPassed == ~loop.opInside /\ Gone => Passed(0)

(* A loop that counts up to a bound it can reach does not pass it, and does *)
(* not wrap before.                                                         *)
Upwards == (loop.ivFirst /\ loop.pred \in {"SLT", "ULT"})
             \/ (~loop.ivFirst /\ loop.pred \in {"SGT", "UGT"})
position == inOrderOf(loop.pred, iv)
bound == inOrderOf(loop.pred, op)
Inside == at \in {"header", "inner", "latch"} \/ (at = "exit" /\ ~loop.exitShared)
BelowBound ==
  Upwards /\ loop.stayOnTrue /\ ~loop.opInside /\ bound >= 0 /\ Inside =>
    /\ position <= bound
    /\ at \in {"inner", "latch"} /\ loop.test = "header" => position < bound

(* A bound below zero is not passed even once.                               *)
FirstAtZero ==
  Upwards /\ loop.stayOnTrue /\ ~loop.opInside /\ bound < 0 /\ Inside => iv = 0

(* Out of the loop there is no way but the test.                            *)
TestFailed == at = "exit" /\ ~loop.exitShared => ~Passed(iv)

LoopInv == TypeInv /\ Derived /\ FirstTestPassed /\ BelowBound /\ FirstAtZero /\ TestFailed

-----------------------------------------------------------------------------
(* A shape, as the provers see it.                                           *)
LEMMA ShapeFacts ==
  ASSUME loop \in Shapes
  PROVE  /\ loop.pred \in Preds /\ loop.ivFirst \in BOOLEAN /\ loop.stayOnTrue \in BOOLEAN
         /\ loop.test \in {"header", "latch"} /\ loop.opInside \in BOOLEAN
         /\ loop.exitShared \in BOOLEAN
         /\ loop.ints \in {"mathematical", "signed", "unsigned"}
<1>1. loop \in Shape
  BY ExplicitizerAssumption
<1> QED
  BY <1>1 DEF Shape

(* Zero is an integer of every kind, and zero in every order.               *)
LEMMA ZeroFacts ==
  ASSUME loop.ints \in {"mathematical", "signed", "unsigned"}, NEW pred
  PROVE  isInteger(0) /\ inOrderOf(pred, 0) = 0
BY ExplicitizerAssumption DEF isInteger, inOrderOf

(* The next integer is one, and in every order it is one more, unless the   *)
(* greatest integer of the order has been reached.                          *)
LEMMA PlusOneFacts ==
  ASSUME loop.ints \in {"mathematical", "signed", "unsigned"},
         NEW v \in Int, isInteger(v)
  PROVE  /\ plusOne(v) \in Int /\ isInteger(plusOne(v))
         /\ loop.ints = "mathematical" => plusOne(v) = v + 1
         /\ \A pred \in Preds, b \in Int :
              isInteger(b) /\ inOrderOf(pred, v) < inOrderOf(pred, b)
                => inOrderOf(pred, plusOne(v)) = inOrderOf(pred, v) + 1
<1> USE ExplicitizerAssumption DEF isInteger, inOrderOf, plusOne
<1>1. CASE loop.ints = "mathematical"
  BY <1>1
<1>2. CASE loop.ints = "signed"
  <2>1. plusOne(v) \in Int /\ isInteger(plusOne(v))
    BY <1>2
  <2>2. ASSUME NEW pred \in Preds, NEW b \in Int,
               isInteger(b), inOrderOf(pred, v) < inOrderOf(pred, b)
        PROVE  inOrderOf(pred, plusOne(v)) = inOrderOf(pred, v) + 1
    <3>1. CASE pred \in Unsigned
      BY <1>2, <2>2, <3>1
    <3>2. CASE pred \notin Unsigned
      BY <1>2, <2>2, <3>2
    <3> QED
      BY <3>1, <3>2
  <2> QED
    BY <1>2, <2>1, <2>2
<1>3. CASE loop.ints = "unsigned"
  <2>1. plusOne(v) \in Int /\ isInteger(plusOne(v))
    BY <1>3
  <2>2. ASSUME NEW pred \in Preds, NEW b \in Int,
               isInteger(b), inOrderOf(pred, v) < inOrderOf(pred, b)
        PROVE  inOrderOf(pred, plusOne(v)) = inOrderOf(pred, v) + 1
    <3>1. CASE pred \in Signed
      BY <1>3, <2>2, <3>1
    <3>2. CASE pred \notin Signed
      BY <1>3, <2>2, <3>2
    <3> QED
      BY <3>1, <3>2
  <2> QED
    BY <1>3, <2>1, <2>2
<1> QED
  BY <1>1, <1>2, <1>3

(* Two integers are the same if they are in some order.                      *)
LEMMA OrderFacts ==
  ASSUME loop.ints \in {"mathematical", "signed", "unsigned"}, NEW pred \in Preds,
         NEW v \in Int, isInteger(v), NEW b \in Int, isInteger(b)
  PROVE  /\ inOrderOf(pred, v) \in Int
         /\ (inOrderOf(pred, v) = inOrderOf(pred, b)) <=> v = b
<1>1. pred \in Signed => pred \notin Unsigned
  BY DEF Signed, Unsigned
<1> QED
  BY <1>1, ExplicitizerAssumption DEF isInteger, inOrderOf

(* A loop that counts up tests that it is below its bound.                  *)
LEMMA UpwardsTest ==
  ASSUME Upwards, NEW x \in Int, op \in Int, loop.ivFirst \in BOOLEAN,
         loop.stayOnTrue = TRUE,
         inOrderOf(loop.pred, x) \in Int, bound \in Int
  PROVE  Passed(x) <=> inOrderOf(loop.pred, x) < bound
BY DEF Upwards, Passed, Test, Compare, Holds, bound

(* A comparison with its operands exchanged, which keeps its sign.           *)
LEMMA FlipExchanges ==
  ASSUME NEW pred \in Preds, NEW x \in Int, NEW y \in Int
  PROVE  /\ flip(pred) \in Preds /\ flip(flip(pred)) = pred
         /\ flip(pred) \in Signed <=> pred \in Signed
         /\ flip(pred) \in Unsigned <=> pred \in Unsigned
         /\ Holds(x, flip(pred), y) <=> Holds(y, pred, x)
BY DEF Preds, Signed, Unsigned, flip, Holds

(* A run that has passed the test at zero, as a comparison of op with zero   *)
(* in the order of the test: the one the pass has chosen, if the branch      *)
(* stays when true, and else the negation of its other direction.            *)
LEMMA TurnedTest ==
  ASSUME loop \in Shapes, op \in Int, isInteger(op), Passed(0)
  PROVE  /\ turned \in Preds
         /\ loop.stayOnTrue => Holds(inOrderOf(turned, op), turned, 0)
         /\ ~loop.stayOnTrue => ~Holds(inOrderOf(turned, op), flip(turned), 0)
<1>0. /\ loop.pred \in Preds /\ loop.ivFirst \in BOOLEAN /\ loop.stayOnTrue \in BOOLEAN
      /\ loop.ints \in {"mathematical", "signed", "unsigned"}
  BY ShapeFacts
<1>1. bound \in Int /\ inOrderOf(loop.pred, 0) = 0
  BY <1>0, ZeroFacts, OrderFacts DEF bound
<1>2. Test(0) <=> loop.stayOnTrue
  BY DEF Passed
<1>3. Test(0) <=> IF loop.ivFirst THEN Holds(0, loop.pred, bound) ELSE Holds(bound, loop.pred, 0)
  BY <1>1 DEF Test, Compare, bound
<1>4. Holds(bound, flip(loop.pred), 0) <=> Holds(0, loop.pred, bound)
  BY <1>0, <1>1, FlipExchanges
<1>5. inOrderOf(flip(loop.pred), op) = bound
  BY <1>0, <1>1, FlipExchanges DEF inOrderOf, bound
<1>6. flip(loop.pred) \in Preds /\ flip(flip(loop.pred)) = loop.pred
  BY <1>0, <1>1, FlipExchanges
<1>7. CASE loop.ivFirst /\ loop.stayOnTrue
  BY <1>2, <1>3, <1>4, <1>5, <1>6, <1>7 DEF turned
<1>8. CASE loop.ivFirst /\ ~loop.stayOnTrue
  BY <1>0, <1>2, <1>3, <1>4, <1>8 DEF turned, bound
<1>9. CASE ~loop.ivFirst /\ loop.stayOnTrue
  BY <1>0, <1>2, <1>3, <1>9 DEF turned, bound
<1>10. CASE ~loop.ivFirst /\ ~loop.stayOnTrue
  BY <1>2, <1>3, <1>5, <1>6, <1>10 DEF turned
<1> QED
  BY <1>0, <1>7, <1>8, <1>9, <1>10

(* The comparison without its sign holds for such a run except in the cases  *)
(* of LostInside.                                                            *)
LostFor(p) ==
  \/ /\ ~loop.stayOnTrue
     /\ p \in {"EQ", "NE"} \/ (op = 0 /\ p \in {"SLT", "SGT", "ULT", "UGT"})
  \/ loop.ints = "signed" /\ p \in {"UGT", "UGE"} /\ op < 0
  \/ loop.ints = "unsigned" /\ p \in {"SLT", "SLE"} /\ op >= Half

LEMMA WithoutSign ==
  ASSUME loop \in Shapes, op \in Int, isInteger(op), NEW p \in Preds,
         loop.stayOnTrue => Holds(inOrderOf(p, op), p, 0),
         ~loop.stayOnTrue => ~Holds(inOrderOf(p, op), flip(p), 0)
  PROVE  Holds(op, p, 0) <=> ~LostFor(p)
<1>0. loop.stayOnTrue \in BOOLEAN /\ loop.ints \in {"mathematical", "signed", "unsigned"}
  BY ShapeFacts
<1> USE <1>0, ExplicitizerAssumption
    DEF Holds, flip, LostFor, isInteger, inOrderOf, Signed, Unsigned
<1>1. CASE p = "SLT"  BY <1>1
<1>2. CASE p = "SLE"  BY <1>2
<1>3. CASE p = "SGT"  BY <1>3
<1>4. CASE p = "SGE"  BY <1>4
<1>5. CASE p = "ULT"  BY <1>5
<1>6. CASE p = "ULE"  BY <1>6
<1>7. CASE p = "UGT"  BY <1>7
<1>8. CASE p = "UGE"  BY <1>8
<1>9. CASE p = "EQ"  BY <1>9
<1>10. CASE p = "NE"  BY <1>10
<1> QED
  BY <1>1, <1>2, <1>3, <1>4, <1>5, <1>6, <1>7, <1>8, <1>9, <1>10 DEF Preds
-----------------------------------------------------------------------------
(* What a state of the invariant gives to every step.                       *)
LEMMA StateFacts ==
  ASSUME TypeInv
  PROVE  /\ op \in Int /\ isInteger(op) /\ position \in Int /\ bound \in Int
         /\ \A v \in values : v \in Int /\ isInteger(v)
         /\ stays <=> Passed(iv)
<1>1. op \in Int /\ isInteger(op) /\ \A v \in values : v \in Int /\ isInteger(v)
  BY ExplicitizerAssumption DEF TypeInv, values
<1>2. position \in Int /\ bound \in Int
  BY <1>1, ShapeFacts, OrderFacts DEF TypeInv, position, bound
<1>3. stays <=> Passed(iv)
  BY DEF stays, Passed, Test
<1> QED
  BY <1>1, <1>2, <1>3

(* It holds at the start.                                                   *)
LEMMA LoopInvInit == Init => LoopInv
<1> SUFFICES ASSUME Init PROVE LoopInv
  OBVIOUS
<1>1. isInteger(0)
  BY ShapeFacts, ZeroFacts DEF Init
<1> QED
  BY <1>1 DEF Init, LoopInv, TypeInv, Derived, FirstTestPassed, Gone, BelowBound, FirstAtZero,
              Inside, TestFailed

(* The pass.                                                                *)
LEMMA PassKeeps == LoopInv /\ runOnLoop => LoopInv'
<1> SUFFICES ASSUME LoopInv, runOnLoop PROVE LoopInv'
  OBVIOUS
<1> USE DEF runOnLoop
<1>1. loop.pred \in Preds
  BY ShapeFacts DEF LoopInv, TypeInv
<1>2. flip(loop.pred) \in Preds
  BY <1>1, FlipExchanges
<1>3. innerConditions \in SUBSET Preds /\ exitConditions \in SUBSET {"EQ"}
  BY <1>1, <1>2 DEF innerConditions, turned, exitConditions
<1>4. TypeInv'
  BY <1>3 DEF LoopInv, TypeInv, values, isInteger
<1>5. Derived'
  BY DEF Derived, innerConditions, turned, exitConditions
<1> QED
  BY <1>4, <1>5 DEF LoopInv, FirstTestPassed, Gone, BelowBound, FirstAtZero, Inside, TestFailed

(* Steps that leave the loop, its conditions, op and iv alone.               *)
LEMMA StillTyped ==
  ASSUME TypeInv, Derived, at # "analysis", UNCHANGED <<loop, inner, exit>>,
         op' \in values, iv' \in Int, isInteger(iv'), loop.ints = "mathematical" => iv' >= 0,
         at' \in {"before", "header", "inner", "latch", "exit"}
  PROVE  TypeInv' /\ Derived'
<1>1. TypeInv'
  BY DEF TypeInv, values, isInteger
<1>2. Derived'
  BY DEF Derived, innerConditions, turned, exitConditions
<1> QED
  BY <1>1, <1>2

LEMMA EnterKeeps == LoopInv /\ Enter => LoopInv'
<1> SUFFICES ASSUME LoopInv, Enter PROVE LoopInv'
  OBVIOUS
<1> USE DEF Enter
<1>0. /\ loop.ints \in {"mathematical", "signed", "unsigned"} /\ loop.pred \in Preds
      /\ op \in values
  BY ShapeFacts DEF LoopInv, TypeInv
<1>1. op' \in values /\ (~loop.opInside => op' = op)
  BY <1>0 DEF iteration
<1>2. isInteger(0) /\ inOrderOf(loop.pred, 0) = 0
  BY <1>0, ZeroFacts
<1>3. TypeInv' /\ Derived'
  BY <1>1, <1>2, StillTyped DEF LoopInv
<1>4. FirstTestPassed' /\ TestFailed' /\ FirstAtZero'
  BY DEF FirstTestPassed, Gone, TestFailed, FirstAtZero
<1>5. BelowBound'
  <2>1. position' = 0
    BY <1>2 DEF position, inOrderOf
  <2>2. bound' \in Int
    <3>1. op' \in Int
      BY <1>1, ExplicitizerAssumption DEF values
    <3> QED
      BY <3>1, ExplicitizerAssumption DEF bound, inOrderOf
  <2> QED
    BY <2>1, <2>2 DEF BelowBound
<1> QED
  BY <1>3, <1>4, <1>5 DEF LoopInv

LEMMA GoAroundKeeps == LoopInv /\ GoAround => LoopInv'
<1> SUFFICES ASSUME LoopInv, GoAround PROVE LoopInv'
  OBVIOUS
<1>1. TypeInv' /\ Derived'
  BY StillTyped DEF GoAround, LoopInv, TypeInv
<1> QED
  BY <1>1 DEF GoAround, LoopInv, FirstTestPassed, Gone, BelowBound, FirstAtZero, Inside, TestFailed

LEMMA AgainKeeps == LoopInv /\ Again => LoopInv'
<1> SUFFICES ASSUME LoopInv, Again PROVE LoopInv'
  OBVIOUS
<1>1. TypeInv' /\ Derived'
  BY StillTyped DEF Again, LoopInv, TypeInv
<1> QED
  BY <1>1 DEF Again, LoopInv, FirstTestPassed, Gone, BelowBound, FirstAtZero, Inside, TestFailed

(* What the test says at iv, for a loop that counts up.                     *)
LEMMA UpwardsHere ==
  ASSUME TypeInv, Upwards, loop.stayOnTrue
  PROVE  stays <=> position < bound
<1>1. loop.ivFirst \in BOOLEAN /\ loop.stayOnTrue = TRUE
  BY ShapeFacts DEF TypeInv
<1>2. op \in Int /\ position \in Int /\ bound \in Int /\ (stays <=> Passed(iv)) /\ iv \in Int
  BY StateFacts DEF TypeInv
<1> QED
  BY <1>1, <1>2, UpwardsTest DEF position

LEMMA HeaderKeeps == LoopInv /\ Header => LoopInv'
<1> SUFFICES ASSUME LoopInv, Header PROVE LoopInv'
  OBVIOUS
<1> USE DEF Header, LoopInv
<1>0. stays <=> Passed(iv)
  BY StateFacts
<1>1. TypeInv' /\ Derived'
  BY StillTyped DEF TypeInv
<1>2. /\ Passed(iv)' <=> Passed(iv)
      /\ Passed(0)' <=> Passed(0)
      /\ position' = position /\ bound' = bound
      /\ Upwards' <=> Upwards
  BY DEF Passed, Test, Compare, inOrderOf, position, bound, Upwards
<1>3. FirstTestPassed'
  <2> SUFFICES ASSUME ~loop.opInside, Gone' PROVE Passed(0)
    BY <1>2 DEF FirstTestPassed
  <2>1. CASE iv # 0
    BY <2>1 DEF FirstTestPassed, Gone
  <2>2. CASE iv = 0
    BY <1>0, <2>2 DEF Gone, Tested, leaves
  <2> QED
    BY <2>1, <2>2
<1>4. BelowBound'
  <2> SUFFICES ASSUME Upwards, loop.stayOnTrue, ~loop.opInside, bound >= 0
               PROVE  /\ position <= bound
                      /\ at' = "inner" /\ loop.test = "header" => position < bound
    BY <1>2 DEF BelowBound
  <2>1. stays <=> position < bound
    BY UpwardsHere
  <2> QED
    BY <2>1 DEF BelowBound, Inside, leaves
<1>5. FirstAtZero'
  BY <1>2 DEF FirstAtZero, Inside
<1>6. TestFailed'
  BY <1>0, <1>2 DEF TestFailed, leaves
<1> QED
  BY <1>1, <1>3, <1>4, <1>5, <1>6

LEMMA InnerKeeps == LoopInv /\ Inner => LoopInv'
<1> SUFFICES ASSUME LoopInv, Inner PROVE LoopInv'
  OBVIOUS
<1> USE DEF Inner, LoopInv
<1>1. TypeInv' /\ Derived'
  BY StillTyped DEF TypeInv
<1>2. /\ Passed(0)' <=> Passed(0)
      /\ position' = position /\ bound' = bound
      /\ Upwards' <=> Upwards
  BY DEF Passed, Test, Compare, inOrderOf, position, bound, Upwards
<1> QED
  BY <1>1, <1>2 DEF FirstTestPassed, Gone, Tested, BelowBound, FirstAtZero, Inside, TestFailed

(* Out of the latch: the loop is left.                                      *)
LEMMA LatchLeaves == LoopInv /\ Latch /\ leaves("latch") => LoopInv'
<1> SUFFICES ASSUME LoopInv, Latch, leaves("latch") PROVE LoopInv'
  OBVIOUS
<1> USE DEF LoopInv
<1>0. /\ at = "latch" /\ at' = "exit" /\ UNCHANGED <<loop, op, inner, exit, iv>>
      /\ loop.test = "latch" /\ ~Passed(iv)
  BY StateFacts DEF Latch, leaves
<1>1. TypeInv' /\ Derived'
  BY <1>0, StillTyped DEF TypeInv
<1>2. /\ Passed(iv)' <=> Passed(iv)
      /\ position' = position /\ bound' = bound
      /\ Upwards' <=> Upwards
  BY <1>0 DEF Passed, Test, Compare, inOrderOf, position, bound, Upwards
<1>3. FirstTestPassed'
  BY <1>0 DEF FirstTestPassed, Gone
<1> QED
  BY <1>0, <1>1, <1>2, <1>3 DEF BelowBound, FirstAtZero, Inside, TestFailed

(* Out of the latch: the next iteration.                                    *)
LEMMA LatchGoesOn == LoopInv /\ Latch /\ ~leaves("latch") => LoopInv'
<1> SUFFICES ASSUME LoopInv, Latch, ~leaves("latch") PROVE LoopInv'
  OBVIOUS
<1> USE DEF LoopInv
<1>0. /\ at = "latch" /\ at' = "header" /\ UNCHANGED <<loop, inner, exit>>
      /\ iv' = plusOne(iv) /\ iteration /\ op \in values /\ iv \in Int /\ isInteger(iv)
      /\ loop.test = "latch" => Passed(iv)
  BY StateFacts DEF Latch, leaves, TypeInv
<1>1. /\ loop.ints \in {"mathematical", "signed", "unsigned"} /\ loop.pred \in Preds
      /\ loop.test \in {"header", "latch"}
  BY ShapeFacts DEF TypeInv
<1>2. /\ op \in Int /\ isInteger(op) /\ position \in Int /\ bound \in Int
      /\ stays <=> Passed(iv)
  BY StateFacts
<1>3. /\ plusOne(iv) \in Int /\ isInteger(plusOne(iv))
      /\ loop.ints = "mathematical" => plusOne(iv) = iv + 1
      /\ position < bound => inOrderOf(loop.pred, plusOne(iv)) = position + 1
  <2>1. /\ plusOne(iv) \in Int /\ isInteger(plusOne(iv))
        /\ loop.ints = "mathematical" => plusOne(iv) = iv + 1
        /\ \A pred \in Preds, b \in Int :
             isInteger(b) /\ inOrderOf(pred, iv) < inOrderOf(pred, b)
               => inOrderOf(pred, plusOne(iv)) = inOrderOf(pred, iv) + 1
    BY <1>0, <1>1, PlusOneFacts
  <2> QED
    BY <1>1, <1>2, <2>1 DEF position, bound
<1>4. op' \in values /\ (~loop.opInside => op' = op)
  BY <1>0 DEF iteration
<1>5. TypeInv' /\ Derived'
  <2>1. loop.ints = "mathematical" => iv' >= 0
    BY <1>0, <1>3 DEF TypeInv
  <2>2. iv' \in Int /\ isInteger(iv')
    BY <1>0, <1>3
  <2> QED
    BY <1>0, <1>4, <2>1, <2>2, StillTyped
<1>6. ~loop.opInside => /\ Passed(0)' <=> Passed(0)
                        /\ bound' = bound
  BY <1>0, <1>4 DEF Passed, Test, Compare, inOrderOf, bound
<1>7. Upwards' <=> Upwards
  BY <1>0 DEF Upwards
<1>8. FirstTestPassed'
  <2> SUFFICES ASSUME ~loop.opInside PROVE Passed(0)
    BY <1>0, <1>6 DEF FirstTestPassed
  <2>1. CASE Tested
    BY <1>0, <2>1 DEF FirstTestPassed, Gone
  <2>2. CASE ~Tested
    BY <1>0, <1>1, <2>2 DEF Tested
  <2> QED
    BY <2>1, <2>2
<1>9. ASSUME Upwards, loop.stayOnTrue, ~loop.opInside
      PROVE  (bound >= 0 => position < bound) /\ ~(bound < 0)
  <2>1. stays <=> position < bound
    BY <1>9, UpwardsHere
  <2>2. bound >= 0 => position < bound
    BY <1>0, <1>1, <1>2, <1>9, <2>1 DEF BelowBound, Inside
  <2>3. ~(bound < 0)
    <3> SUFFICES ASSUME bound < 0 PROVE FALSE
      OBVIOUS
    <3>1. iv = 0
      BY <1>0, <1>9 DEF FirstAtZero, Inside
    <3>2. position = 0
      BY <1>1, <3>1, ZeroFacts DEF position
    <3>3. loop.test = "latch" => FALSE
      BY <1>0, <1>2, <2>1, <3>2
    <3>4. loop.test = "header" => Passed(0)
      BY <1>0, <1>9 DEF FirstTestPassed, Gone, Tested
    <3> QED
      BY <1>1, <1>2, <2>1, <3>1, <3>2, <3>3, <3>4
  <2> QED
    BY <2>2, <2>3
<1>10. BelowBound'
  <2> SUFFICES ASSUME Upwards, loop.stayOnTrue, ~loop.opInside, bound >= 0
               PROVE  position' <= bound
    BY <1>0, <1>6, <1>7 DEF BelowBound
  <2>1. position < bound
    BY <1>9
  <2>2. position' = position + 1
    BY <1>0, <1>3, <2>1 DEF position, inOrderOf
  <2> QED
    BY <1>2, <2>1, <2>2
<1>11. FirstAtZero'
  BY <1>0, <1>6, <1>7, <1>9 DEF FirstAtZero
<1>12. TestFailed'
  BY <1>0 DEF TestFailed
<1> QED
  BY <1>5, <1>8, <1>10, <1>11, <1>12

(* Every step preserves it.                                                 *)
LEMMA LoopInvNext == LoopInv /\ [Next]_vars => LoopInv'
<1> SUFFICES ASSUME LoopInv, [Next]_vars PROVE LoopInv'
  OBVIOUS
<1>1. CASE runOnLoop  BY <1>1, PassKeeps
<1>2. CASE Enter  BY <1>2, EnterKeeps
<1>3. CASE GoAround  BY <1>3, GoAroundKeeps
<1>4. CASE Header  BY <1>4, HeaderKeeps
<1>5. CASE Inner  BY <1>5, InnerKeeps
<1>6. CASE Latch  BY <1>6, LatchLeaves, LatchGoesOn
<1>7. CASE Again  BY <1>7, AgainKeeps
<1>8. CASE UNCHANGED vars
  BY <1>8 DEF vars, LoopInv, TypeInv, Derived, FirstTestPassed, Gone, Tested, BelowBound,
              FirstAtZero, Inside, TestFailed, Passed, Test, Compare, inOrderOf, position,
              bound, Upwards, innerConditions, turned, exitConditions, values, isInteger
<1> QED
  BY <1>1, <1>2, <1>3, <1>4, <1>5, <1>6, <1>7, <1>8 DEF Next

-----------------------------------------------------------------------------
(* The results.                                                             *)

(* For every loop the pass looks at: a run that has passed the test and     *)
(* comes to an inner loop satisfies what insertForAll has recorded for its  *)
(* blocks, at whatever iteration, except in the cases of LostInside, and in *)
(* those it never does.                                                     *)
THEOREM InnerConditionsCorrect == Spec => []InnerConditionsHold
<1>1. LoopInv => InnerConditionsHold
  <2> SUFFICES ASSUME LoopInv, at = "inner", Tested
               PROVE  (\A p \in inner : Holds(op, p, 0)) <=> ~LostInside
    BY DEF InnerConditionsHold
  <2>1. LostInside <=> \E p \in inner : LostFor(p)
    BY DEF LostInside, LostFor
  <2>2. inner = innerConditions /\ (~loop.opInside => Passed(0))
    BY DEF LoopInv, Derived, FirstTestPassed, Gone
  <2>3. CASE loop.opInside
    BY <2>1, <2>2, <2>3 DEF innerConditions
  <2>4. CASE ~loop.opInside
    <3>1. loop \in Shapes /\ op \in Int /\ isInteger(op)
      BY StateFacts DEF LoopInv, TypeInv
    <3>2. Holds(op, turned, 0) <=> ~LostFor(turned)
      BY <2>2, <2>4, <3>1, TurnedTest, WithoutSign
    <3>3. inner = {turned}
      BY <2>2, <2>4 DEF innerConditions
    <3> QED
      BY <2>1, <3>2, <3>3
  <2> QED
    BY <2>3, <2>4
<1> QED
  BY <1>1, LoopInvInit, LoopInvNext, PTL DEF Spec

(* And a run that comes to the exit block satisfies what is recorded for it *)
(* after any number of iterations and at any width, except in the cases of  *)
(* LostAtExit, and in those it never does.                                  *)
THEOREM ExitConditionsCorrect == Spec => []ExitConditionsHold
<1>1. LoopInv => ExitConditionsHold
  <2> SUFFICES ASSUME LoopInv, at = "exit"
               PROVE  (\A p \in exit : Holds(iv, p, op)) <=> ~LostAtExit
    BY DEF ExitConditionsHold
  <2>1. exit = exitConditions
    BY DEF LoopInv, Derived
  <2>2. CASE exit = {}
    BY <2>2 DEF LostAtExit
  <2>3. CASE exit # {}
    <3>1. exit = {"EQ"} /\ Upwards /\ ~loop.exitShared
      BY <2>1, <2>3 DEF exitConditions, Upwards
    <3>2. /\ loop \in Shapes /\ loop.ivFirst \in BOOLEAN /\ loop.stayOnTrue \in BOOLEAN
          /\ loop.pred \in Preds /\ loop.ints \in {"mathematical", "signed", "unsigned"}
      BY ShapeFacts DEF LoopInv, TypeInv
    <3>3. /\ op \in Int /\ isInteger(op) /\ iv \in Int /\ isInteger(iv)
          /\ position \in Int /\ bound \in Int
      BY StateFacts DEF LoopInv, TypeInv
    <3>4. position = bound <=> iv = op
      BY <3>2, <3>3, OrderFacts DEF position, bound
    <3>5. (\A p \in exit : Holds(iv, p, op)) <=> position = bound
      BY <3>1, <3>4 DEF Holds
    <3>6. Test(iv) <=> position < bound
      BY <3>1, <3>2, <3>3 DEF Upwards, Test, Compare, Holds, position, bound
    <3>7. ~(Test(iv) <=> loop.stayOnTrue)
      BY <3>1 DEF LoopInv, TestFailed, Passed
    <3>8. LostAtExit <=> \/ ~loop.stayOnTrue
                         \/ bound < IF loop.opInside THEN position ELSE 0
      BY <2>3 DEF LostAtExit, position, bound
    <3>9. CASE ~loop.stayOnTrue
      BY <3>3, <3>5, <3>6, <3>7, <3>8, <3>9
    <3>10. CASE loop.stayOnTrue /\ loop.opInside
      BY <3>3, <3>5, <3>6, <3>7, <3>8, <3>10
    <3>11. CASE loop.stayOnTrue /\ ~loop.opInside
      <4>1. bound >= 0 => position <= bound
        BY <3>1, <3>11 DEF LoopInv, BelowBound, Inside
      <4>2. bound < 0 => position = 0
        BY <3>1, <3>2, <3>11, ZeroFacts DEF LoopInv, FirstAtZero, Inside, position
      <4> QED
        BY <3>3, <3>5, <3>6, <3>7, <3>8, <3>11, <4>1, <4>2
    <3> QED
      BY <3>2, <3>9, <3>10, <3>11
  <2> QED
    BY <2>2, <2>3
<1> QED
  BY <1>1, LoopInvInit, LoopInvNext, PTL DEF Spec
=============================================================================
