----------------------------- MODULE InstChecker -----------------------------
(***************************************************************************)
(* InstChecker: the instructions main() refuses.  A condition is a tree of *)
(* instructions of one bit; what is left out here are the types that no    *)
(* program of integers has.                                                *)
(***************************************************************************)
EXTENDS Arithmetic

(* Instructions of one bit that the converter takes for any value; for every *)
(* other one visitInstruction refuses the type.                              *)
acceptedOfOneBit == {"phi", "load", "trunc", "call", "add", "sub", "mul", "sdiv", "udiv",
                     "srem", "urem", "fcmp"}

suitable(c) ==
  \A d \in parts(c) :
    /\ d.type = "inst" => d.op \in acceptedOfOneBit
    /\ d.type = "icmp" => d.width # 1
    /\ d.type # "xor of two"

suitableInst(J) ==
  CASE J.op = "sext" -> J.from # 1
    [] J.op = "assume" -> suitable(J.c) /\ (J.c.type = "zext" => J.c.from = 1)
    [] OTHER -> suitable(J.c)

getUnsuitableInsts(instructions) == {k \in DOMAIN instructions : ~suitableInst(instructions[k])}
=============================================================================
