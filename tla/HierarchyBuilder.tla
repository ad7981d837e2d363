--------------------------- MODULE HierarchyBuilder ---------------------------
(***************************************************************************)
(* HierarchyBuilder: the call hierarchy of the module under conversion and *)
(* its strongly connected components.  computeHierarchy() visits the call  *)
(* instructions and closes the call matrix m (m_calls); getSccs() runs     *)
(* Tarjan's algorithm on the closed matrix.  The recursion of tarjan() is  *)
(* an explicit stack of frames: one frame per active call, with the        *)
(* counter vv of its loop.                                                 *)
(*                                                                         *)
(* Functions are their indices 0 .. N-1 (getIdx, getFunction).             *)
(***************************************************************************)
EXTENDS MakeTransitive, Integers, SequencesExt

CONSTANTS
  Types,                         \* the types of the functions
  SiteSets                       \* the sets of call instructions considered

Function == Index

(* A call instruction: a direct call of a defined function, a call of a     *)
(* declared function, or a call through a pointer of a function type.       *)
Site ==
  [caller : Function, kind : {"direct"}, callee : Function]
    \cup [caller : Function, kind : {"declared"}]
    \cup [caller : Function, kind : {"indirect"}, type : Types]

ASSUME SitesAssumption == SiteSets \subseteq SUBSET Site

NotIndexed == -1                 \* no entry in indexMap or lowlinkMap

VARIABLES
  pc,                            \* "visit", "close", "sccs" or "done"
  typeOf,                        \* input: the type of every function
  sites,                         \* input: the call instructions
  pending,                       \* the call instructions not yet visited
  indexMap, lowlinkMap, index,   \* Tarjan's numbering
  S,                             \* Tarjan's stack, its front first
  frames,                        \* the active calls of tarjan, innermost last
  root,                          \* the counter of getSccs' loop
  SCCs                           \* the components found so far, in order

inputVars == <<typeOf, sites>>
sccVars == <<indexMap, lowlinkMap, index, S, frames, root, SCCs>>
hbVars == <<m, y, x, pc, typeOf, sites, pending, indexMap, lowlinkMap, index,
            S, frames, root, SCCs>>

-----------------------------------------------------------------------------
(* Mutant of Called: calls through pointers are not followed.                *)
CalledDirectly(s) ==
  IF s.kind = "direct" THEN {s.callee} ELSE {}

(* The functions a call instruction may reach (visitCallInst).              *)
Called(s) ==
  CASE s.kind = "direct"   -> {s.callee}
    [] s.kind = "declared" -> {}
    [] s.kind = "indirect" -> {f \in Function : typeOf[f] = s.type}

DirectCalls ==
  {c \in Function \X Function :
     \E s \in sites : s.caller = c[1] /\ c[2] \in Called(s)}

Init ==
  /\ typeOf \in [Function -> Types]
  /\ sites \in SiteSets
  /\ pending = sites
  /\ m = {}
  /\ MakeTransitiveInit
  /\ pc = "visit"
  /\ indexMap = [f \in Function |-> NotIndexed]
  /\ lowlinkMap = [f \in Function |-> NotIndexed]
  /\ index = 0
  /\ S = <<>>
  /\ frames = <<>>
  /\ root = 0
  /\ SCCs = <<>>

-----------------------------------------------------------------------------
(* computeHierarchy(): the instruction visitor, then makeTransitive().      *)

VisitCallInst(s) ==
  /\ pc = "visit"
  /\ s \in pending
  /\ \A t \in pending : s.caller <= t.caller     \* function by function
  /\ pending' = pending \ {s}
  /\ m' = m \cup {<<s.caller, f>> : f \in Called(s)}
  /\ UNCHANGED <<y, x, pc, inputVars, sccVars>>

StartClosure ==
  /\ pc = "visit"
  /\ pending = {}
  /\ pc' = "close"
  /\ UNCHANGED <<m, y, x, pending, inputVars, sccVars>>

Close ==
  /\ pc = "close"
  /\ MakeTransitiveNext
  /\ UNCHANGED <<pc, pending, inputVars, sccVars>>

HierarchyComputed ==
  /\ pc = "close"
  /\ MakeTransitiveDone
  /\ pc' = "sccs"
  /\ UNCHANGED <<m, y, x, pending, inputVars, sccVars>>

isCyclic == \E f \in Function : <<f, f>> \in m

getTransitivelyCalledFunctions(f) == {g \in Function : <<f, g>> \in m}

-----------------------------------------------------------------------------
(* getSccs() and tarjan().                                                  *)

Indexed(v) == indexMap[v] # NotIndexed
OnStack(v) == Contains(S, v)

Top == Last(frames)

Advance(fs) == [fs EXCEPT ![Len(fs)].vv = @ + 1]

(* The entry of tarjan(v): number v and push it.                            *)
Number(v) ==
  /\ indexMap' = [indexMap EXCEPT ![v] = index]
  /\ lowlinkMap' = [lowlinkMap EXCEPT ![v] = index]
  /\ index' = index + 1
  /\ S' = Cons(v, S)
  /\ frames' = Append(frames, [v |-> v, vv |-> 0])
  /\ UNCHANGED SCCs

NextRoot ==
  /\ frames = <<>>
  /\ root < N
  /\ root' = root + 1
  /\ \/ ~Indexed(root) /\ Number(root)
     \/ Indexed(root) /\ UNCHANGED <<indexMap, lowlinkMap, index, S, frames, SCCs>>

(* Mutant of InLoop: the loop runs one function too far.                     *)
InLoopInclusive == frames # <<>> /\ Top.vv <= N

InLoop == frames # <<>> /\ Top.vv < N

(* v calls vv and vv has no number yet: the recursive call.                 *)
Descend ==
  /\ InLoop
  /\ <<Top.v, Top.vv>> \in m
  /\ ~Indexed(Top.vv)
  /\ Number(Top.vv)
  /\ UNCHANGED root

(* Mutant of Revisit: the test that vv is still on the stack is missing.     *)
RevisitUnchecked ==
  /\ InLoop
  /\ <<Top.v, Top.vv>> \in m
  /\ Indexed(Top.vv)
  /\ lowlinkMap' = [lowlinkMap EXCEPT ![Top.v] = Min({@, lowlinkMap[Top.vv]})]
  /\ frames' = Advance(frames)
  /\ UNCHANGED <<indexMap, index, S, root, SCCs>>

(* v calls vv, which is numbered: lower v's link if vv is on the stack.     *)
Revisit ==
  /\ InLoop
  /\ <<Top.v, Top.vv>> \in m
  /\ Indexed(Top.vv)
  /\ lowlinkMap' =
       IF OnStack(Top.vv)
       THEN [lowlinkMap EXCEPT ![Top.v] = Min({@, lowlinkMap[Top.vv]})]
       ELSE lowlinkMap
  /\ frames' = Advance(frames)
  /\ UNCHANGED <<indexMap, index, S, root, SCCs>>

NotCalled ==
  /\ InLoop
  /\ <<Top.v, Top.vv>> \notin m
  /\ frames' = Advance(frames)
  /\ UNCHANGED <<indexMap, lowlinkMap, index, S, root, SCCs>>

(* The part of the stack above v, v included, as the list push_front builds. *)
PositionOf(v) == SelectInSeq(S, LAMBDA w : w = v)
Component(v) == Reverse(SubSeq(S, 1, PositionOf(v)))

(* Mutant of PopComponent: the root itself stays on the stack.               *)
PopAboveRoot(v) ==
  \/ /\ lowlinkMap[v] = indexMap[v]
     /\ SCCs' = Append(SCCs, Component(v))
     /\ S' = SubSeq(S, PositionOf(v), Len(S))
  \/ /\ lowlinkMap[v] # indexMap[v]
     /\ UNCHANGED <<SCCs, S>>

(* The end of tarjan(v): pop the component of v if v is its root.             *)
PopComponent(v) ==
  \/ /\ lowlinkMap[v] = indexMap[v]
     /\ SCCs' = Append(SCCs, Component(v))
     /\ S' = SubSeq(S, PositionOf(v) + 1, Len(S))
  \/ /\ lowlinkMap[v] # indexMap[v]
     /\ UNCHANGED <<SCCs, S>>

(* Return to getSccs, or to the caller in tarjan, which lowers its own link.  *)
ReturnToRoot ==
  /\ Len(frames) = 1
  /\ frames' = <<>>
  /\ UNCHANGED lowlinkMap

ReturnToCaller ==
  /\ Len(frames) > 1
  /\ frames' = Advance(Front(frames))
  /\ lowlinkMap' = [lowlinkMap EXCEPT ![Last(Front(frames)).v] =
                       Min({@, lowlinkMap[Top.v]})]

Return ==
  /\ frames # <<>>
  /\ Top.vv = N
  /\ PopComponent(Top.v)
  /\ ReturnToRoot \/ ReturnToCaller
  /\ UNCHANGED <<indexMap, index, root>>

Tarjan ==
  /\ pc = "sccs"
  /\ NextRoot \/ Descend \/ Revisit \/ NotCalled \/ Return
  /\ UNCHANGED <<m, y, x, pc, pending, inputVars>>

SccsFound ==
  /\ pc = "sccs"
  /\ frames = <<>>
  /\ root = N
  /\ pc' = "done"
  /\ UNCHANGED <<m, y, x, pending, inputVars, sccVars>>

Next ==
  \/ \E s \in pending : VisitCallInst(s)
  \/ StartClosure
  \/ Close
  \/ HierarchyComputed
  \/ Tarjan
  \/ SccsFound

Spec == Init /\ [][Next]_hbVars

-----------------------------------------------------------------------------
(* Properties.                                                              *)

(* Type invariant.                                                          *)
TypeOK ==
  /\ MTTypeOK
  /\ pc \in {"visit", "close", "sccs", "done"}
  /\ typeOf \in [Function -> Types]
  /\ sites \in SiteSets
  /\ pending \subseteq sites
  /\ indexMap \in [Function -> Nat \cup {NotIndexed}]
  /\ lowlinkMap \in [Function -> Nat \cup {NotIndexed}]
  /\ index \in Nat
  /\ root \in 0 .. N
  /\ S \in Seq(Function)
  /\ frames \in Seq([v : Function, vv : 0 .. N])
  /\ SCCs \in Seq(Seq(Function))

(* A caller on the recursion stack is inside its loop: tarjan only calls       *)
(* itself for some vv, and the return moves that loop on.                    *)
CallersInLoop ==
  \A i \in DOMAIN frames : i < Len(frames) => frames[i].vv < N

(* What the matrix holds in each phase: only calls of the module while the   *)
(* visitor runs, all of them when it ends, and nothing outside the           *)
(* transitive closure at any time after that.                                *)
CallsSound ==
  /\ pc = "visit" => m \subseteq DirectCalls
  /\ pc # "visit" => Between(DirectCalls)

(* The strengthening of HierarchyExact that every step preserves: the visited *)
(* instructions are in the matrix, the closure loops keep their invariant,    *)
(* and the loops are over before getSccs reads the matrix.                   *)
HierarchyInv ==
  /\ MTTypeOK
  /\ pending \subseteq sites
  /\ sites \in SiteSets
  /\ pc = "visit" => /\ y = 0 /\ x = 0
                     /\ \A s \in sites \ pending :
                          \A f \in Called(s) : <<s.caller, f>> \in m
  /\ CallsSound
  /\ pc # "visit" => ClosureInv
  /\ pc \notin {"visit", "close"} => MakeTransitiveDone

(* When makeTransitive returns, m is the transitive closure of the direct    *)
(* calls: no function that is reached through another is missed.             *)
HierarchyExact ==
  pc \notin {"visit", "close"} => m = TransitiveClosure(DirectCalls)

(* getSccs implements CallOrder: every component that comes out is a full     *)
(* class of mutually recursive functions, none comes out twice, callees come  *)
(* out before their callers.                                                 *)
Order == INSTANCE CallOrder
           WITH calls <- DirectCalls, emitted <- {ToSet(SCCs[i]) : i \in DOMAIN SCCs}

ImplementsCallOrder == Order!Spec

(* When getSccs returns, every function is in exactly one component, and      *)
(* isCyclic(), the guard of -eager-inline, agrees with the components about  *)
(* whether the module is recursive: some component has two functions, or a   *)
(* function calls itself.                                                    *)
ComponentsPartition ==
  pc = "done" =>
     /\ \A f \in Function :
          \E i \in DOMAIN SCCs :
             /\ f \in ToSet(SCCs[i])
             /\ \A k \in DOMAIN SCCs : f \in ToSet(SCCs[k]) => k = i
     /\ isCyclic <=> \/ \E i \in DOMAIN SCCs : Len(SCCs[i]) > 1
                    \/ \E f \in Function : <<f, f>> \in DirectCalls

(* Tarjan's stack: numbers decrease from the front to the back, and every    *)
(* function below another reaches it, so popping down to a root never takes  *)
(* a function of another component.                                          *)
StackDiscipline ==
  \A i, k \in DOMAIN S :
     i < k => /\ indexMap[S[i]] > indexMap[S[k]]
              /\ lowlinkMap[S[k]] <= indexMap[S[k]]
              /\ lowlinkMap[S[i]] <= indexMap[S[i]]
              /\ <<S[k], S[i]>> \in m
=============================================================================
