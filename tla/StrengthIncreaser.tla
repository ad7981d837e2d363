-------------------------- MODULE StrengthIncreaser --------------------------
(***************************************************************************)
(* StrengthIncreaser: shifts by a constant become products and divisions.  *)
(* The pass of the option increase-strength, run before the blocks *)
(* are sorted.                                                             *)
(***************************************************************************)
EXTENDS Arithmetic

getShiftPower(arg) == 2^arg

isShift(J) == J.op \in {"shl", "ashr", "lshr"}
arithmeticOf == [shl |-> "mul", ashr |-> "sdiv", lshr |-> "udiv"]

(* The power has the type of the shift: the highest one is the smallest number. *)
increased(J) ==
  IF isShift(J) /\ J.y.kind = "const"
  THEN [J EXCEPT !.op = arithmeticOf[J.op], !.y.bits = getShiftPower(@) % 2^J.y.width]
  ELSE J

runOnBasicBlock(instructions) == [k \in DOMAIN instructions |-> increased(instructions[k])]
=============================================================================
