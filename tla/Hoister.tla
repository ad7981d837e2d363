------------------------------- MODULE Hoister -------------------------------
(***************************************************************************)
(* Hoister: moves what does not change in a loop in front of it.  The pass *)
(* is run on every loop, inner loops first.  It walks the dominator tree   *)
(* from the header of the loop; frames are the active calls of             *)
(* HoistRegion, with the iterator of its loop over the instructions and    *)
(* the children it has not been to.  calls are the active calls of         *)
(* doesNotAccessMemory, with their place in the function.                  *)
(*                                                                         *)
(* Afterwards the function before and the function after run side by side, *)
(* branch for branch.                                                      *)
(***************************************************************************)
EXTENDS LoopProgram

CONSTANTS
  Programs,                      \* the functions: [graph, code]
  MaxDepth                       \* bound on the C++ stack of doesNotAccessMemory

(* What LLVM's verifier, which runs first, says of the functions: a value is  *)
(* an argument or defined before it is used, a phi uses it behind the blocks *)
(* it comes from.                                                           *)
Instructions(program, b) == ToSet(program[b])
DefinedBefore(g, program, n, b, k) ==
  \/ n \in Arguments
  \/ \E d \in Blocks(g) : \E j \in DOMAIN program[d] :
       /\ program[d][j].id = n
       /\ IF d = b THEN j < k ELSE Dominates(g, d, b)
UsesDefined(g, program) ==
  \A b \in Blocks(g) : \A k \in DOMAIN program[b] :
    LET I == program[b][k]
    IN  IF I.op = "phi"
        THEN \A p \in Preds(g, b) :
               DefinedBefore(g, program, I.args[IF p = I.latch THEN 2 ELSE 1],
                             p, Len(program[p]) + 1)
        ELSE \A n \in ToSet(I.args) : DefinedBefore(g, program, n, b, k)

ASSUME ProgramsAssumption ==
  \A p \in Programs :
    /\ p.graph \in Graphs
    /\ p.code \in [Blocks(p.graph) -> Seq(UNION {ToSet(p.code[b]) : b \in Blocks(p.graph)})]
    /\ UsesDefined(p.graph, p.code)

VARIABLES
  prog,                          \* input: the function
  code,                          \* its instructions, block by block
  pc,                            \* "loops", "region", "run", "end" or "overflow"
  L, CurAST, LoopToAliasMap,     \* the loop, its accesses, those of the loops before
  frames, calls,
  known,                         \* what doesNotAccessMemory returned, if it was asked
  points, before, after          \* the run: where pointers point, both functions' states

passVars == <<code, pc, L, CurAST, LoopToAliasMap, frames, calls, known>>
runVars == <<points, before, after>>
vars == <<prog, passVars, runVars>>

graph == prog.graph
NoLoop == -1
NotAsked == "not asked"
Names == Arguments \cup UNION {{I.id : I \in ToSet(prog.code[b])} : b \in Blocks(graph)}
AtEntry(arg) ==
  [at |-> 0, from |-> NoBlock, ok |-> TRUE, mem |-> [l \in Location |-> 0],
   env |-> [n \in Names |-> IF n \in Arguments THEN arg[n] ELSE 0]]

Init ==
  /\ prog \in Programs
  /\ code = prog.code
  /\ pc = "loops"
  /\ L = NoLoop
  /\ CurAST = {}
  /\ LoopToAliasMap = [l \in {} |-> {}]
  /\ frames = <<>>
  /\ calls = <<>>
  /\ known = NotAsked
  /\ points = "nowhere"
  /\ before = AtEntry([n \in Arguments |-> 0])
  /\ after = before

-----------------------------------------------------------------------------
(* The questions about an instruction.                                      *)
definedIn(l, n) == \E b \in Body(graph, l) : \E I \in ToSet(code[b]) : I.id = n
isLoopInvariantInst(l, I) == \A n \in ToSet(I.args) : ~definedIn(l, n)

inSubLoop(l, b) == \E k \in subloops(graph, l) : contains(graph, k, b)

pointsToConstantMemory(ptr) == ptr \subseteq ConstantLocation

canHoistLoad(I, ast) ==
  /\ ~I.volatile
  /\ \/ pointsToConstantMemory(I.ptr)
     \/ ~isMod(AliasSet(ast, I.ptr))

canHoistCall(I, ast, pure) ==
  \/ Behavior(I.callee) = "readnone" \/ pure
  \/ Behavior(I.callee) = "readonly" /\ ~isMod(ast)

(* pure: what doesNotAccessMemory returned.  The arithmetic that is hoisted  *)
(* is what gives a new variable; xor with -1, sums and products are not.     *)
canHoistInst(I, ast, pure) ==
  CASE I.op = "load" -> canHoistLoad(I, ast)
    [] I.op = "call" -> canHoistCall(I, ast, pure)
    [] OTHER -> I.op \in {"div", "and"}

-----------------------------------------------------------------------------
(* runOnLoop.                                                               *)
(* Mutant of AliasInfo: the accesses of the loops inside are left out.       *)
AliasInfoOuter(l) ==
  UNION {UNION {Accesses(I) : I \in ToSet(code[b])} :
           b \in {c \in Body(graph, l) : ~inSubLoop(l, c)}}

AliasInfo(l) ==
  (UNION {LoopToAliasMap[k] : k \in subloops(graph, l)})
  \cup (UNION {UNION {Accesses(I) : I \in ToSet(code[b])} :
                  b \in {c \in Body(graph, l) : ~inSubLoop(l, c)}})

Region(b) == [BB |-> b, II |-> 1, children |-> getChildren(graph, b)]

runOnLoop(l) ==
  /\ pc = "loops"
  /\ l \in Loops(graph) \ DOMAIN LoopToAliasMap
  /\ subloops(graph, l) \subseteq DOMAIN LoopToAliasMap
  /\ L' = l
  /\ CurAST' = AliasInfo(l)
  /\ frames' = IF getLoopPreheader(graph, l) # NoBlock THEN <<Region(l)>> ELSE <<>>
  /\ pc' = "region"
  /\ UNCHANGED <<prog, code, LoopToAliasMap, calls, known, runVars>>

Top == Last(frames)
Inst == code[Top.BB][Top.II]
AtInstruction ==
  /\ pc = "region" /\ frames # <<>> /\ calls = <<>>
  /\ contains(graph, L, Top.BB) /\ ~inSubLoop(L, Top.BB)
  /\ Top.II <= Len(code[Top.BB])

Asks(I) == I.op = "call" /\ Behavior(I.callee) # "readnone"

AskCallee ==
  /\ AtInstruction
  /\ isLoopInvariantInst(L, Inst) /\ Asks(Inst) /\ known = NotAsked
  /\ calls' = <<[f |-> Inst.callee, k |-> 1]>>
  /\ UNCHANGED <<prog, code, pc, L, CurAST, LoopToAliasMap, frames, known, runVars>>

(* The iterator is moved on before the instruction is taken out of its block. *)
Hoist(I) ==
  LET p == getLoopPreheader(graph, L)
  IN  [code EXCEPT ![p] = Append(@, I), ![Top.BB] = RemoveAt(@, Top.II)]

(* Mutant of HoistInstruction: operands that change in the loop are not looked at. *)
HoistAnyInstruction ==
  /\ AtInstruction
  /\ canHoistInst(Inst, CurAST, known = "pure")
  /\ code' = Hoist(Inst)
  /\ known' = NotAsked
  /\ UNCHANGED <<prog, pc, L, CurAST, LoopToAliasMap, frames, calls, runVars>>

(* Mutant of HoistInstruction: the iterator is moved on once more after the   *)
(* instruction has left the block.                                           *)
HoistAndSkip ==
  /\ AtInstruction
  /\ isLoopInvariantInst(L, Inst)
  /\ Asks(Inst) => known # NotAsked
  /\ canHoistInst(Inst, CurAST, known = "pure")
  /\ code' = Hoist(Inst)
  /\ frames' = [frames EXCEPT ![Len(frames)].II = @ + 1]
  /\ known' = NotAsked
  /\ UNCHANGED <<prog, pc, L, CurAST, LoopToAliasMap, calls, runVars>>

HoistInstruction ==
  /\ AtInstruction
  /\ isLoopInvariantInst(L, Inst)
  /\ Asks(Inst) => known # NotAsked
  /\ canHoistInst(Inst, CurAST, known = "pure")
  /\ code' = Hoist(Inst)
  /\ known' = NotAsked
  /\ UNCHANGED <<prog, pc, L, CurAST, LoopToAliasMap, frames, calls, runVars>>

KeepInstruction ==
  /\ AtInstruction
  /\ \/ ~isLoopInvariantInst(L, Inst)
     \/ /\ Asks(Inst) => known # NotAsked
        /\ ~canHoistInst(Inst, CurAST, known = "pure")
  /\ frames' = [frames EXCEPT ![Len(frames)].II = @ + 1]
  /\ known' = NotAsked
  /\ UNCHANGED <<prog, code, pc, L, CurAST, LoopToAliasMap, calls, runVars>>

(* The children are only visited from a block that is in no subloop.         *)
VisitChild ==
  /\ pc = "region" /\ frames # <<>>
  /\ contains(graph, L, Top.BB) /\ ~inSubLoop(L, Top.BB)
  /\ Top.II > Len(code[Top.BB])
  /\ \E b \in Top.children :
       frames' = Append([frames EXCEPT ![Len(frames)].children = @ \ {b}], Region(b))
  /\ UNCHANGED <<prog, code, pc, L, CurAST, LoopToAliasMap, calls, known, runVars>>

LeaveRegion ==
  /\ pc = "region" /\ frames # <<>>
  /\ \/ ~contains(graph, L, Top.BB)
     \/ inSubLoop(L, Top.BB)
     \/ Top.II > Len(code[Top.BB]) /\ Top.children = {}
  /\ frames' = Front(frames)
  /\ UNCHANGED <<prog, code, pc, L, CurAST, LoopToAliasMap, calls, known, runVars>>

EndLoop ==
  /\ pc = "region" /\ frames = <<>>
  /\ LoopToAliasMap' = (L :> CurAST) @@ LoopToAliasMap
  /\ pc' = "loops"
  /\ UNCHANGED <<prog, code, L, CurAST, frames, calls, known, runVars>>

-----------------------------------------------------------------------------
(* doesNotAccessMemory: instruction by instruction, with the calls it follows. *)
Asked == Last(calls)
Item == Callees[Asked.f].body[Asked.k]
AtItem(ops) ==
  /\ ~isDeclaration(Asked.f)
  /\ Asked.k <= Len(Callees[Asked.f].body) /\ Item.op \in ops

FoundAccess ==
  /\ calls # <<>>
  /\ \/ isDeclaration(Asked.f)
     \/ AtItem({"load", "store", "indirect"})
  /\ calls' = <<>>
  /\ known' = "impure"              \* every caller returns false as well
  /\ UNCHANGED <<prog, code, pc, L, CurAST, LoopToAliasMap, frames, runVars>>

(* Mutant of FollowCall: the caller does not move on to its next instruction. *)
FollowCallAgain ==
  /\ calls # <<>> /\ AtItem({"call"})
  /\ IF Len(calls) < MaxDepth
     THEN /\ calls' = Append(calls, [f |-> Item.callee, k |-> 1])
          /\ pc' = pc
     ELSE pc' = "overflow" /\ calls' = <<>>
  /\ UNCHANGED <<prog, code, L, CurAST, LoopToAliasMap, frames, known, runVars>>

FollowCall ==
  /\ calls # <<>> /\ AtItem({"call"})
  /\ IF Len(calls) < MaxDepth
     THEN /\ calls' = Append([calls EXCEPT ![Len(calls)].k = @ + 1],
                             [f |-> Item.callee, k |-> 1])
          /\ pc' = pc
     ELSE pc' = "overflow" /\ calls' = <<>>
  /\ UNCHANGED <<prog, code, L, CurAST, LoopToAliasMap, frames, known, runVars>>

FoundNothing ==
  /\ calls # <<>> /\ ~isDeclaration(Asked.f) /\ Asked.k > Len(Callees[Asked.f].body)
  /\ calls' = Front(calls)
  /\ known' = IF Len(calls) = 1 THEN "pure" ELSE known
  /\ UNCHANGED <<prog, code, pc, L, CurAST, LoopToAliasMap, frames, runVars>>

-----------------------------------------------------------------------------
(* Both functions run, if the pass has changed the function.                *)
StartRun ==
  /\ pc = "loops" /\ Loops(graph) \subseteq DOMAIN LoopToAliasMap
  /\ \/ /\ code # prog.code
        /\ pc' = "run"
        /\ \E arg \in [Arguments -> Value], p \in Location \ ConstantLocation :
             /\ points' = p
             /\ before' = AtEntry(arg)
             /\ after' = AtEntry(arg)
     \/ /\ code = prog.code
        /\ pc' = "end"
        /\ UNCHANGED runVars
  /\ UNCHANGED <<prog, code, L, CurAST, LoopToAliasMap, frames, calls, known>>

Chosen(instructions) ==
  {I \in ToSet(instructions) : \/ I.op = "load" /\ I.volatile
                               \/ I.op = "call" /\ Unknown(I.callee)}

(* A function that has failed stands still, and the other one goes on.       *)
RunStep ==
  /\ pc = "run" /\ before.ok /\ before.at # NoBlock
  /\ \E c \in [{I.id : I \in Chosen(prog.code[before.at]) \cup Chosen(code[before.at])}
                 -> Value] :
       LET b == before.at
           next == IF graph[b] = <<>> THEN {NoBlock} ELSE ToSet(graph[b])
       IN  \E to \in next :
             /\ before' = [RunBlock(prog.code[b], before, points, c)
                             EXCEPT !.at = to, !.from = b]
             /\ after' = IF after.ok
                         THEN [RunBlock(code[b], after, points, c) EXCEPT !.at = to, !.from = b]
                         ELSE after
  /\ UNCHANGED <<prog, passVars, points>>

PassNext ==
  \/ \E l \in Loops(graph) : runOnLoop(l)
  \/ AskCallee \/ HoistInstruction \/ KeepInstruction \/ VisitChild \/ LeaveRegion \/ EndLoop
  \/ FoundAccess \/ FollowCall \/ FoundNothing
  \/ StartRun

Next == PassNext \/ RunStep

Spec == Init /\ [][Next]_vars /\ WF_vars(PassNext)
-----------------------------------------------------------------------------
(* Properties.                                                              *)

(* A value is defined before it is used on every path, also in the middle of *)
(* the pass: instructions leave the loop in the order of the dominator tree, *)
(* and the terminator of the preheader is behind all of them.                *)
DefinitionsDominateUses == pc = "region" => UsesDefined(graph, code)

(* HoistRegion: one walk is enough, and it goes nowhere else.  When the pass  *)
(* has left a loop, nothing invariant that could be hoisted is left in the   *)
(* blocks it has been to, which are those the header dominates without a     *)
(* subloop in between, and the blocks behind a subloop have everything they  *)
(* had.  What doesNotAccessMemory says is compared with what the callee can  *)
(* reach.                                                                   *)
Pure(f) == ~Unknown(f) /\ ~Does(f, "load") /\ ~Does(f, "store") /\ ~Does(f, "indirect")
             /\ \A h \in MayEnter(f) : ~isDeclaration(h)
HoistedAway(l, b) ==
  \A I \in Instructions(code, b) :
    ~(isLoopInvariantInst(l, I)
      /\ canHoistInst(I, LoopToAliasMap[l], I.op = "call" /\ Pure(I.callee)))
BehindSubloop(l, b) ==
  \E d \in Body(graph, l) : inSubLoop(l, d) /\ Dominates(graph, d, b)
OneWalkIsEnough ==
  pc = "loops" =>
    \A l \in DOMAIN LoopToAliasMap : getLoopPreheader(graph, l) # NoBlock =>
      \A b \in {c \in Body(graph, l) : ~inSubLoop(l, c)} :
        IF BehindSubloop(l, b) THEN IsPrefix(prog.code[b], code[b]) ELSE HoistedAway(l, b)

(* Every block run of the function before is one of the function after, with *)
(* the same values, memory and outcome, whatever the loop does to memory     *)
(* through other pointers, subloops and calls, and however often it runs:    *)
(* the only loss is a division that was moved and fails.                     *)
SameEffect ==
  /\ after.mem = before.mem
  /\ before.from # NoBlock =>
       \A I \in Instructions(prog.code, before.from) : after.env[I.id] = before.env[I.id]
MovedDivision ==
  \E I \in Instructions(code, after.from) \ Instructions(prog.code, after.from) :
    I.op = "div"
ValuesKept == before.ok => IF after.ok THEN SameEffect ELSE MovedDivision

(* What is hoisted must be safe to hoist (Hoister.cpp:144): when the function *)
(* before has run to its end, without a failure in any block it came to, the *)
(* function after has not failed either.                                     *)
RunsKept == before.ok /\ before.at = NoBlock => after.ok

(* The pass comes to its end, or doesNotAccessMemory uses up the stack: this  *)
(* happens for recursive functions only, and a recursive function without    *)
(* accesses to memory is never answered, as calls are not remembered.        *)
PassReturns ==
  /\ <>(pc \in {"run", "end", "overflow"})
  /\ [](pc = "overflow" => Recursive(Inst.callee))
  /\ [](known # NotAsked => ~(Recursive(Inst.callee) /\ Pure(Inst.callee)))
=============================================================================
