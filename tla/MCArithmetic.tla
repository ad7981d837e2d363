---------------------------- MODULE MCArithmetic ----------------------------
(***************************************************************************)
(* Programs of one block on numbers of three bits: large enough that every *)
(* case of a division occurs, values from below -1 to above 1, and that    *)
(* sums leave the box on both sides.  Free variables range over the values *)
(* of the box and one beyond each of its ends.                             *)
(***************************************************************************)
EXTENDS RulePipeline

W == 3
x == Var("x")
y == Var("y")
z == Var("z")

Options(bounded, unsigned, division, bits) ==
  [bounded |-> bounded, unsigned |-> unsigned, division |-> division, bitwise |-> bits, format |-> "kittel", increase |-> FALSE, integers |-> {}]
Mathematical == {Options(FALSE, FALSE, d, FALSE) : d \in {"None", "Approximated", "Exact"}}
Boxed == {Options(TRUE, u, "Approximated", TRUE) : u \in BOOLEAN}
Free(o) == [o EXCEPT !.division = "None", !.bitwise = FALSE]

Icmp(sign, op, a, b) == [type |-> "icmp", pred |-> <<sign, op>>, x |-> a, y |-> b, width |-> W]
Bit(b) == [type |-> "const", bit |-> b]
Unknown == [type |-> "inst", op |-> "load"]
Shift == [type |-> "inst", op |-> "lshr"]
Remainder == [type |-> "inst", op |-> "urem"]
Argument(w) == [type |-> "arg", width |-> w]
Undefined == [type |-> "undef"]
Widen(from, c) == [type |-> "zext", arg |-> c, from |-> from]
XorOfTwo(a, b) == [type |-> "xor of two", left |-> a, right |-> b]
IsSet(v) == [type |-> "value", x |-> v]
Both(a, b) == [type |-> "and", left |-> a, right |-> b]
Either(a, b) == [type |-> "or", left |-> a, right |-> b]
Flip(a, b) == [type |-> "xor", arg |-> a, bit |-> b]
Select(t, a, b) == [type |-> "select", test |-> t, left |-> a, right |-> b]

Instruction(op, a, b, w, from, c, r) ==
  [op |-> op, x |-> a, y |-> b, z |-> r, n |-> "n", width |-> w, from |-> from, c |-> c]
On(op, a, b) == Instruction(op, a, b, W, W, Bit(0), "z")

(* The values that a free variable may have: the box and one beyond each end. *)
Around(o) == IF ~o.bounded THEN -5 .. 8 ELSE IF o.unsigned THEN -1 .. 2^W ELSE -5 .. 4

ProgramOf(o, code, cond, unused, inputs, from) ==
  [names |-> <<"x", "y", "z">>, args |-> {"x", "y"},
   width |-> [v \in {"x", "y", "z", "n"} |-> IF v = "x" THEN from ELSE IF code = <<>> THEN W ELSE code[1].width],
   code |-> code, cond |-> cond, unused |-> unused, local |-> {}, values |-> Around(o), inputs |-> inputs, o |-> o]

All == -4 .. 7
Natural == 0 .. 4
Ends == {-4, -3, -1, 0, 1, 3, 5, 7}     \* both ends of the boxes, and each case of a division
Small == -4 .. 4
Block1(o, code, cond, inputs) == ProgramOf(o, code, cond, {}, inputs, W)

Signs == {"add", "sub", "sdiv", "srem"}
(* The comparison that is one atom in the box.                               *)
isBelow(o) == Icmp(IF o.unsigned THEN "u" ELSE "s", "<", z, y)

OnMathematical ==
  {Block1(o, <<On(op, x, y)>>, isBelow(o), Small) : o \in Mathematical, op \in Signs \cup {"mul"}}
  \cup {Block1(o, <<On(op, x, y)>>, isBelow(o), Natural) : o \in Mathematical, op \in {"udiv", "urem"}}

OnBoxed ==
  {Block1(o, <<On(op, x, y)>>, isBelow(o), All) :
     o \in Boxed, op \in {"add", "sub", "udiv", "urem", "and", "or", "xor", "shl"}}
  \cup {Block1(o, <<On("sdiv", x, y)>>, isBelow(o), Ends) : o \in Boxed}
  \cup {Block1(o, <<On("srem", x, y)>>, Bit(1), Ends) : o \in Boxed}
  \cup {Block1(Free(o), <<On(op, x, y)>>, isBelow(o), All) : o \in Boxed, op \in {"sdiv", "urem", "or"}}
  \cup {Block1(o, <<On("xor", x, Const(7, W))>>, isBelow(o), All) : o \in Boxed}
  \cup {Block1(o, <<On("add", x, Const(b, W))>>, isBelow(o), All) : o \in Boxed, b \in {1, 5}}
  \cup {Block1(o, <<On("add", x, y), Instruction("sub", z, x, W, W, Bit(0), "y")>>, isBelow(o), All) : o \in Boxed}

Widened ==
  {ProgramOf(o, <<Instruction(op, x, x, 3, 2, Bit(0), "z")>>, Icmp("s", "<", y, y), {}, All, 2) :
     o \in Boxed, op \in {"sext", "zext"}}
  \cup {ProgramOf(o, <<Instruction("trunc", x, x, 2, 3, Bit(0), "z")>>, Icmp("e", "#", x, x), {}, All, 3) : o \in Boxed}
  \cup {Block1(o, <<Instruction("zextbool", x, x, W, 1, Icmp("e", "#", x, y), "z")>>, isBelow(o), All) : o \in Boxed}

Conditions ==
  {Icmp(s, op, x, y) : s \in {"s", "u"}, op \in {"<", "<=", ">", ">="}}
  \cup {Icmp("e", "=", x, y), Icmp("e", "#", x, Const(6, W)), Unknown, Bit(1), IsSet(x)}
  \cup {Both(Icmp("s", "<", x, y), Either(IsSet(y), Icmp("u", ">", x, Const(6, W)))),
        Flip(Both(Icmp("u", "<=", x, y), Unknown), 1),
        Flip(Either(IsSet(x), Icmp("e", "=", y, x)), 0),
        Select(IsSet(x), Bit(1), IsSet(y)),
        Select(Icmp("u", "<", x, y), IsSet(y), Bit(0)),
        Select(Flip(IsSet(x), 1), Bit(1), Bit(0)),
        Select(Icmp("e", "#", x, y), Icmp("e", "#", x, Const(7, W)), Flip(IsSet(y), 1))}

Compared ==
  {Block1(o, <<>>, c, All) : o \in Boxed, c \in Conditions}
  \cup {Block1(Options(FALSE, FALSE, "None", FALSE), <<>>, c, Natural) : c \in Conditions}

Unneeded ==
  {ProgramOf(o, <<On(IF o.unsigned THEN "add" ELSE "sdiv", x, y)>>,
             Icmp(IF o.unsigned THEN "u" ELSE "s", "<", x, y), {"z"}, All, W) : o \in Boxed}

(* A product is only in the condition; its norm symbol is kept.              *)
Multiplied ==
  {ProgramOf(o, <<On("mul", x, y)>>, isBelow(o), {"z"}, All, W) : o \in Boxed}

(* Values that are assigned and read again, and a norm symbol, for T2 and   *)
(* for tuples.                                                              *)
Signed == {o \in Boxed : ~o.unsigned}
As(format, p) == [p EXCEPT !.o.format = format]
Reassigned ==
  {Block1(Options(FALSE, FALSE, "None", FALSE),
          <<Instruction("add", x, y, W, W, Bit(0), "x"), Instruction("sub", x, y, W, W, Bit(0), "y"),
            Instruction("mul", x, Const(2, W), W, W, Bit(0), "z")>>, Icmp("s", "<", x, y), Small)}
  \cup {Block1(o, <<Instruction("sdiv", x, y, W, W, Bit(0), "x")>>, Icmp("s", "<=", x, y), Small) :
           o \in {m \in Mathematical : m.division # "Exact"}}
  \cup {Block1(o, <<On("add", x, y), Instruction("sub", z, x, W, W, Bit(0), "x")>>, isBelow(o), Small) : o \in Signed}
  \cup {Block1(o, <<Instruction("srem", y, x, W, W, Bit(0), "x")>>, isBelow(o), Natural) : o \in Signed}
  \cup {[p EXCEPT !.inputs = Natural] : p \in {q \in Multiplied : ~q.o.unsigned}}

(* Calls of the function itself while x is below y, or is not y yet, with    *)
(* arguments that are not in the order of their names.  Where a result is    *)
(* taken the integers are mathematical: tuples drop its bounds.              *)
Assumption(c) == Instruction("assume", x, x, W, W, c, "z")
CallOf(op) == Instruction(op, z, y, W, W, Bit(0), "z")
Recursing(o, op, c, inputs) ==
  [Block1(o, <<Assumption(c), On("add", x, Const(1, W)), CallOf(op)>>, isBelow(o), inputs) EXCEPT
     !.local = {"z"}, !.names = <<"y", "x", "z">>]
Recursive ==
  {Recursing(Options(FALSE, FALSE, "None", FALSE), op, Icmp("s", "<", x, y), Small) : op \in {"call", "callvoid"}}
Wrapping == {Recursing(o, "callvoid", Icmp("e", "#", x, y), Ends) : o \in Boxed}

Printed ==
  {As(f, p) : f \in {"tuples", "uniform"}, p \in Reassigned \cup Recursive \cup Wrapping}
  \cup {As("t2", p) : p \in Reassigned \cup Recursive}
  \cup Recursive \cup {[p EXCEPT !.inputs = 1 .. 3] : p \in Wrapping}

(* Shifts by a constant, with the option increase-strength.                 *)
ShiftedBy(o, op, d, inputs) ==
  [Block1(o, <<On(op, x, Const(d, W))>>, isBelow(o), inputs) EXCEPT !.o.increase = TRUE, !.args = {"x"}]
Shifted ==
  {ShiftedBy(o, op, d, All) : o \in Boxed, op \in {"shl", "ashr", "lshr"}, d \in 0 .. W - 1}
  \cup {ShiftedBy(o, op, d, -4 .. 3) : o \in Mathematical, op \in {"shl", "ashr"}, d \in 0 .. W - 1}
  \cup {ShiftedBy(o, "lshr", d, 0 .. 3) : o \in Mathematical, d \in 0 .. W - 1}

(* Conditions of assume and of the branch that are refused or end the program. *)
Assumed ==
  {Block1(o, <<Assumption(c)>>, isBelow(o), All) :
     o \in Boxed, c \in {IsSet(y), Widen(1, Icmp("s", "<", x, y)), Widen(1, Argument(1)), Widen(2, IsSet(x)), Argument(W)}}
  \cup {Block1(o, <<Assumption(Widen(1, Icmp("u", "<", x, y))), On("sub", x, y)>>, c, All) :
     o \in Boxed, c \in {Shift, Remainder, Undefined, Argument(1), XorOfTwo(Unknown, Argument(1)),
                          Both(Icmp("s", "<", x, y), Flip(Unknown, 1)),
                          [Icmp("e", "=", Var("p"), Var("q")) EXCEPT !.width = 1]}}

(* Every conjunction is first given to a solver, in programs on two bits: it *)
(* looks at the values that a sum or a difference of two numbers has.       *)
Solvable(o) == IF ~o.bounded THEN Small ELSE IF o.unsigned THEN 0 .. 6 ELSE -4 .. 2
Solved(o, code, cond) ==
  [Block1([o EXCEPT !.integers = Solvable(o)], code, [cond EXCEPT !.width = 2], Small) EXCEPT
     !.width = [v \in DOMAIN @ |-> 2]]
Asked ==
  {Solved(o, <<Instruction("sdiv", x, y, 2, 2, Bit(0), "z")>>, isBelow(o)) : o \in {m \in Mathematical : m.division = "Approximated"}}
  \cup {Solved(o, <<Instruction("add", x, y, 2, 2, Bit(0), "z")>>, isBelow(o)) : o \in Boxed}
  \cup {Solved(o, <<>>, Icmp(s, "<", x, y)) : o \in Boxed, s \in {"s", "u"}}

MCPrograms == Asked \cup Shifted \cup Assumed \cup Printed \cup OnMathematical \cup OnBoxed \cup Widened \cup Compared \cup Unneeded \cup Multiplied
MCAsked == Asked

MCProducts == {Block1(o, <<On("mul", x, y)>>, isBelow(o), All) : o \in Boxed}
MCItself == {Block1(o, <<On("sdiv", x, x)>>, isBelow(o), Small) :
                o \in {Options(FALSE, FALSE, "Exact", FALSE)}}
=============================================================================
