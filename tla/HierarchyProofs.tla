--------------------------- MODULE HierarchyProofs ---------------------------
(***************************************************************************)
(* Proofs about the call hierarchy, for every number of functions and      *)
(* every set of call instructions: the closure loops compute exactly the   *)
(* transitive closure, and Tarjan's algorithm, run on the closed matrix,   *)
(* hands out the classes of mutual recursion, whole, once, callees first.  *)
(***************************************************************************)
EXTENDS HierarchyBuilder, SequenceTheorems, WellFoundedInduction, TLAPS

-----------------------------------------------------------------------------
(* Lemmas about reachability.                                               *)

(* The steps of R are in its closure.                                       *)
LEMMA ReachesStep ==
  ASSUME NEW R \in Relation, NEW a \in Index, NEW b \in Index, <<a, b>> \in R
  PROVE  Reaches(R, a, b)
BY DEF Reaches

(* Reachability composes.                                                   *)
LEMMA ReachesTransitive ==
  ASSUME NEW R \in Relation, NEW a \in Index, NEW b \in Index, NEW c \in Index,
         Reaches(R, a, b), Reaches(R, b, c)
  PROVE  Reaches(R, a, c)
<1> SUFFICES ASSUME NEW U \in SUBSET Index,
                    \A d \in Index : <<a, d>> \in R => d \in U,
                    \A d, e \in Index : d \in U /\ <<d, e>> \in R => e \in U
             PROVE  c \in U
  BY DEF Reaches
<1>1. b \in U
  BY DEF Reaches
<1>2. \A d \in Index : <<b, d>> \in R => d \in U
  BY <1>1
<1> QED
  BY <1>2 DEF Reaches

(* The closure is a transitive relation above R ...                          *)
LEMMA ClosureTransitive ==
  ASSUME NEW R \in Relation
  PROVE  /\ TransitiveClosure(R) \in Relation
         /\ R \subseteq TransitiveClosure(R)
         /\ IsTransitive(TransitiveClosure(R))
<1>1. TransitiveClosure(R) \in Relation
  BY DEF TransitiveClosure, Relation
<1>2. R \subseteq TransitiveClosure(R)
  <2> SUFFICES ASSUME NEW a \in Index, NEW b \in Index, <<a, b>> \in R
               PROVE  <<a, b>> \in TransitiveClosure(R)
    BY DEF Relation
  <2> QED
    BY ReachesStep DEF TransitiveClosure
<1>3. IsTransitive(TransitiveClosure(R))
  BY ReachesTransitive DEF IsTransitive, TransitiveClosure
<1> QED
  BY <1>1, <1>2, <1>3

(* ... and the least one.                                                   *)
LEMMA ClosureLeast ==
  ASSUME NEW R \in Relation, NEW T \in Relation, R \subseteq T, IsTransitive(T)
  PROVE  TransitiveClosure(R) \subseteq T
<1> SUFFICES ASSUME NEW a \in Index, NEW b \in Index, Reaches(R, a, b)
             PROVE  <<a, b>> \in T
  BY DEF TransitiveClosure
<1> DEFINE U == {c \in Index : <<a, c>> \in T}
<1>1. \A c \in Index : <<a, c>> \in R => c \in U
  OBVIOUS
<1>2. \A c, d \in Index : c \in U /\ <<c, d>> \in R => d \in U
  BY DEF IsTransitive
<1>3. U \in SUBSET Index
  OBVIOUS
<1>4. b \in U
  <2> HIDE DEF U
  <2> QED
    BY <1>1, <1>2, <1>3 DEF Reaches
<1> QED
  BY <1>4

-----------------------------------------------------------------------------
(* Lemmas about the closure loops.                                          *)

(* The loop counters stay in range.                                         *)
LEMMA LoopTypes ==
  ASSUME MTTypeOK, MakeTransitiveNext
  PROVE  MTTypeOK'
<1> USE NAssumption DEF MTTypeOK
<1>1. CASE Row
  <2>1. m' \in Relation
    <3>1. x \in Index
      BY <1>1 DEF Row, Index
    <3>2. NewEntries \subseteq Index \X Index
      BY <3>1 DEF NewEntries
    <3> QED
      BY <1>1, <3>2 DEF Row, Relation
  <2> QED
    BY <2>1, <1>1 DEF Row
<1>2. CASE NextPivot
  BY <1>2 DEF NextPivot
<1> QED
  BY <1>1, <1>2 DEF MakeTransitiveNext

(* No iteration loses an entry or adds one that is not in the closure.       *)
LEMMA LoopBetween ==
  ASSUME NEW R \in Relation, MTTypeOK, Between(R), MakeTransitiveNext
  PROVE  Between(R)'
<1>1. CASE Row
  <2>1. y \in Index /\ x \in Index
    BY <1>1, NAssumption DEF Row, MTTypeOK, Index
  <2>2. CASE <<x, y>> \in m
    <3>1. ASSUME NEW j \in Index, <<y, j>> \in m
          PROVE  <<x, j>> \in TransitiveClosure(R)
      BY <2>1, <2>2, <3>1, ClosureTransitive DEF Between, IsTransitive
    <3>2. m' \subseteq TransitiveClosure(R)
      BY <1>1, <2>2, <3>1 DEF Row, NewEntries, Between
    <3> QED
      BY <1>1, <2>2, <3>2 DEF Row, Between
  <2>3. CASE <<x, y>> \notin m
    BY <1>1, <2>3 DEF Row, Between
  <2> QED
    BY <2>2, <2>3
<1>2. CASE NextPivot
  BY <1>2 DEF NextPivot, Between
<1> QED
  BY <1>1, <1>2 DEF MakeTransitiveNext

(* One row: the pair <<x, b>> may be new, and then <<x, y>> and <<y, b>> were *)
(* there before.                                                            *)
LEMMA RowEntries ==
  ASSUME MTTypeOK, Row
  PROVE  /\ m \subseteq m'
         /\ \A a, b \in Index :
              <<a, b>> \in m'
                => <<a, b>> \in m \/ (a = x /\ <<x, y>> \in m /\ <<y, b>> \in m)
         /\ \A b \in Index :
              <<x, y>> \in m /\ <<y, b>> \in m => <<x, b>> \in m'
         /\ \A b \in Index : <<y, b>> \in m' => <<y, b>> \in m
         /\ \A a \in Index : <<a, y>> \in m' => <<a, y>> \in m
BY DEF Row, NewEntries

(* The invariant of the loops: a row keeps it although it changes rows and    *)
(* columns of pivots that are already closed.                               *)
LEMMA RowClosureInv ==
  ASSUME MTTypeOK, ClosureInv, Row
  PROVE  ClosureInv'
<1>1. y \in Index /\ x \in Index /\ y' = y /\ x' = x + 1 /\ y < N
  BY NAssumption DEF Row, MTTypeOK, Index
<1>2. PivotsClosed'
  <2> SUFFICES ASSUME NEW a \in Index, NEW b \in Index, NEW z \in Index,
                      z < y, <<a, z>> \in m', <<z, b>> \in m'
               PROVE  <<a, b>> \in m' \/ (<<a, y>> \in m' /\ <<y, b>> \in m')
    BY <1>1 DEF PivotsClosed
  <2>1. \A c, d \in Index :
           <<c, z>> \in m /\ <<z, d>> \in m
             => <<c, d>> \in m \/ (<<c, y>> \in m /\ <<y, d>> \in m)
    BY <1>1 DEF ClosureInv, PivotsClosed
  <2>2. <<z, b>> \in m \/ (z = x /\ <<z, y>> \in m /\ <<y, b>> \in m)
    BY RowEntries
  <2>3. CASE <<a, z>> \in m
    BY <1>1, <2>1, <2>2, <2>3, RowEntries
  <2>4. CASE a = x /\ <<a, y>> \in m /\ <<y, z>> \in m
    BY <1>1, <2>1, <2>2, <2>4, RowEntries
  <2> QED
    BY <2>3, <2>4, RowEntries
<1>3. RowsClosed'
  <2> SUFFICES ASSUME NEW a \in Index, NEW b \in Index,
                      a < x + 1, <<a, y>> \in m', <<y, b>> \in m'
               PROVE  <<a, b>> \in m'
    BY <1>1 DEF RowsClosed
  <2>1. <<a, y>> \in m /\ <<y, b>> \in m
    BY RowEntries
  <2>2. CASE a = x
    BY <2>1, <2>2, RowEntries
  <2>3. CASE a < x
    BY <1>1, <2>1, <2>3, RowEntries DEF ClosureInv, RowsClosed
  <2> QED
    BY <1>1, <2>2, <2>3, NAssumption DEF Index
<1> QED
  BY <1>2, <1>3 DEF ClosureInv

(* When the last row of pivot y is done, y is closed like those before it.   *)
LEMMA PivotClosureInv ==
  ASSUME MTTypeOK, ClosureInv, NextPivot
  PROVE  ClosureInv'
<1>1. y \in Index /\ y' = y + 1 /\ x' = 0 /\ m' = m /\ x = N
  BY NAssumption DEF NextPivot, MTTypeOK, Index
<1>2. \A a, b \in Index : <<a, y>> \in m /\ <<y, b>> \in m => <<a, b>> \in m
  BY <1>1, NAssumption DEF ClosureInv, RowsClosed, Index, NextPivot
<1>3. PivotsClosed'
  <2> SUFFICES ASSUME NEW a \in Index, NEW b \in Index, NEW z \in Index,
                      z < y + 1, <<a, z>> \in m, <<z, b>> \in m
               PROVE  <<a, b>> \in m
    BY <1>1 DEF PivotsClosed
  <2>1. CASE z = y
    BY <1>2, <2>1
  <2>2. CASE z < y
    BY <1>2, <2>2, <1>1 DEF ClosureInv, PivotsClosed
  <2> QED
    BY <2>1, <2>2, <1>1, NAssumption DEF Index
<1>4. RowsClosed'
  BY <1>1, NAssumption DEF RowsClosed, Index
<1> QED
  BY <1>3, <1>4 DEF ClosureInv

(* When the loops end, the matrix is transitive.                            *)
LEMMA LoopsDone ==
  ASSUME MTTypeOK, ClosureInv, MakeTransitiveDone
  PROVE  IsTransitive(m)
<1> SUFFICES ASSUME NEW a \in Index, NEW b \in Index, NEW c \in Index,
                    <<a, b>> \in m, <<b, c>> \in m
             PROVE  <<a, c>> \in m
  BY DEF IsTransitive
<1>1. b < y /\ ~(y < N)
  BY NAssumption DEF MakeTransitiveDone, Index
<1> QED
  BY <1>1 DEF ClosureInv, PivotsClosed

-----------------------------------------------------------------------------
(* The call hierarchy.                                                      *)

(* The calls of the module are pairs of functions.                          *)
LEMMA DirectCallsType == DirectCalls \in Relation
BY DEF DirectCalls, Relation, Function

(* A call instruction in the module has a caller and callees in the module.  *)
LEMMA CalledType ==
  ASSUME sites \in SiteSets, NEW s \in sites
  PROVE  /\ s.caller \in Index
         /\ Called(s) \subseteq Index
<1>1. s \in Site
  BY SitesAssumption
<1>2. s.caller \in Index
  BY <1>1 DEF Site, Function
<1>3. Called(s) \subseteq Index
  BY <1>1 DEF Site, Function, Called
<1> QED
  BY <1>2, <1>3

(* The invariant holds before the first call instruction is visited.        *)
LEMMA HierarchyInit == Init => HierarchyInv
<1> SUFFICES ASSUME Init PROVE HierarchyInv
  OBVIOUS
<1> USE DEF Init, MakeTransitiveInit
<1>1. MTTypeOK
  BY NAssumption DEF MTTypeOK, Relation
<1>2. CallsSound
  BY DEF CallsSound
<1> QED
  BY <1>1, <1>2 DEF HierarchyInv

(* Steps that leave the matrix and the module alone.                         *)
LEMMA MatrixUnchanged ==
  ASSUME UNCHANGED <<m, y, x, sites, typeOf>>
  PROVE  /\ DirectCalls' = DirectCalls
         /\ MTTypeOK' = MTTypeOK
         /\ ClosureInv' = ClosureInv
         /\ Between(DirectCalls)' = Between(DirectCalls)
<1>1. DirectCalls' = DirectCalls
  BY DEF DirectCalls, Called
<1> QED
  BY <1>1 DEF MTTypeOK, ClosureInv, PivotsClosed, RowsClosed, Between

(* Every step of the hierarchy builder preserves its invariant.              *)
LEMMA HierarchyNext == HierarchyInv /\ [Next]_hbVars => HierarchyInv'
<1> SUFFICES ASSUME HierarchyInv, [Next]_hbVars
             PROVE  HierarchyInv'
  OBVIOUS
<1>1. ASSUME NEW s \in pending, VisitCallInst(s)
      PROVE  HierarchyInv'
  <2>1. pc = "visit" /\ pc' = pc /\ y' = y /\ x' = x /\ sites' = sites /\ typeOf' = typeOf
    BY <1>1 DEF VisitCallInst, inputVars
  <2>2. s \in sites /\ s.caller \in Index /\ Called(s) \subseteq Index
    BY CalledType DEF HierarchyInv
  <2>3. m' = m \cup {<<s.caller, f>> : f \in Called(s)} /\ pending' = pending \ {s}
    BY <1>1 DEF VisitCallInst
  <2>4. {<<s.caller, f>> : f \in Called(s)} \subseteq DirectCalls
    BY <2>2 DEF DirectCalls, Function
  <2>5. \A t \in Site : Called(t)' = Called(t)
    BY <2>1 DEF Called
  <2>6. DirectCalls' = DirectCalls
    BY <2>1, <2>5, SitesAssumption DEF DirectCalls, HierarchyInv
  <2>7. MTTypeOK'
    BY <2>1, <2>2, <2>3 DEF MTTypeOK, HierarchyInv, Relation
  <2>8. CallsSound'
    BY <2>1, <2>3, <2>4, <2>6 DEF CallsSound, HierarchyInv
  <2>9. \A t \in sites \ pending' : \A f \in Called(t) : <<t.caller, f>> \in m'
    BY Zenon, <2>1, <2>3 DEF HierarchyInv
  <2> QED
    BY <2>1, <2>3, <2>5, <2>7, <2>8, <2>9, SitesAssumption DEF HierarchyInv
<1>2. CASE StartClosure
  <2>1. pc = "visit" /\ pc' = "close" /\ pending = {}
    BY <1>2 DEF StartClosure
  <2>2. UNCHANGED <<m, y, x, pending, sites, typeOf>>
    BY <1>2 DEF StartClosure, inputVars
  <2>3. DirectCalls \subseteq m
    BY <2>1 DEF DirectCalls, HierarchyInv
  <2>4. DirectCalls' = DirectCalls
    BY <2>2 DEF DirectCalls, Called
  <2>5. Between(DirectCalls)
    BY <2>1, <2>3, DirectCallsType, ClosureTransitive DEF Between, HierarchyInv, CallsSound
  <2>6. ClosureInv
    BY <2>1, NAssumption DEF ClosureInv, PivotsClosed, RowsClosed, HierarchyInv, Index
  <2> QED
    BY <2>1, <2>2, <2>4, <2>5, <2>6
    DEF HierarchyInv, CallsSound, Between, ClosureInv, PivotsClosed, RowsClosed, MTTypeOK
<1>3. CASE Close
  <2>1. pc = "close" /\ pc' = "close" /\ MakeTransitiveNext
    BY <1>3 DEF Close
  <2>2. UNCHANGED <<pending, sites, typeOf>>
    BY <1>3 DEF Close, inputVars
  <2>3. MTTypeOK'
    BY <2>1, LoopTypes DEF HierarchyInv
  <2>4. ClosureInv'
    BY <2>1, RowClosureInv, PivotClosureInv DEF HierarchyInv, MakeTransitiveNext
  <2>5. DirectCalls' = DirectCalls
    BY <2>2 DEF DirectCalls, Called
  <2>6. Between(DirectCalls)'
    <3>1. PICK R \in Relation : R = DirectCalls
      BY DirectCallsType
    <3>2. MTTypeOK /\ Between(R)
      BY <2>1, <3>1 DEF HierarchyInv, CallsSound
    <3>3. Between(R)'
      BY <2>1, <3>2, LoopBetween
    <3> QED
      BY <3>1, <3>3, <2>5 DEF Between
  <2> QED
    BY <2>1, <2>2, <2>3, <2>4, <2>6 DEF HierarchyInv, CallsSound
<1>4. CASE HierarchyComputed
  <2>1. pc = "close" /\ pc' = "sccs" /\ MakeTransitiveDone
    BY <1>4 DEF HierarchyComputed
  <2>2. UNCHANGED <<m, y, x, pending, sites, typeOf>>
    BY <1>4 DEF HierarchyComputed, inputVars
  <2>3. MakeTransitiveDone'
    BY <2>1, <2>2 DEF MakeTransitiveDone
  <2> QED
    BY <2>1, <2>2, <2>3, MatrixUnchanged DEF HierarchyInv, CallsSound
<1>5. CASE Tarjan \/ SccsFound \/ UNCHANGED hbVars
  <2>1. UNCHANGED <<m, y, x, pending, sites, typeOf>>
    BY <1>5 DEF Tarjan, SccsFound, hbVars, inputVars
  <2>2. (pc = "sccs" /\ pc' \in {"sccs", "done"}) \/ pc' = pc
    BY <1>5 DEF Tarjan, SccsFound, hbVars
  <2>3. MakeTransitiveDone' = MakeTransitiveDone
    BY <2>1 DEF MakeTransitiveDone
  <2>4. \A s \in Site : Called(s)' = Called(s)
    BY <2>1 DEF Called
  <2>5. sites \subseteq Site
    BY SitesAssumption DEF HierarchyInv
  <2> QED
    BY <2>1, <2>2, <2>3, <2>4, <2>5, MatrixUnchanged DEF HierarchyInv, CallsSound
<1> QED
  BY <1>1, <1>2, <1>3, <1>4, <1>5 DEF Next

-----------------------------------------------------------------------------
(* For every number of functions, every module and every assignment of types *)
(* to functions: the hierarchy that getSccs, isCyclic and                    *)
(* getTransitivelyCalledFunctions read is the transitive closure of the      *)
(* direct calls.                                                            *)
LEMMA HierarchyExactLemma == HierarchyInv => HierarchyExact
<1> SUFFICES ASSUME HierarchyInv, pc \notin {"visit", "close"}
             PROVE  m = TransitiveClosure(DirectCalls)
  BY DEF HierarchyExact
<1>1. IsTransitive(m)
  BY LoopsDone DEF HierarchyInv
<1>2. Between(DirectCalls)
  BY DEF HierarchyInv, CallsSound
<1>3. m \in Relation
  BY DEF HierarchyInv, MTTypeOK
<1>4. TransitiveClosure(DirectCalls) \subseteq m
  BY <1>1, <1>2, <1>3, DirectCallsType, ClosureLeast DEF Between
<1> QED
  BY <1>2, <1>4 DEF Between

THEOREM HierarchyCorrect == Spec => [](CallsSound /\ HierarchyExact)
<1>1. HierarchyInv => CallsSound
  BY DEF HierarchyInv
<1> QED
  BY HierarchyInit, HierarchyNext, HierarchyExactLemma, <1>1, PTL DEF Spec

-----------------------------------------------------------------------------
(* Type correctness.                                                        *)

Frame == [v : Function, vv : 0 .. N]
Numbers == Nat \cup {NotIndexed}

(* The variables of Tarjan's algorithm.                                     *)
TarjanTypeOK ==
  /\ indexMap \in [Function -> Numbers]
  /\ lowlinkMap \in [Function -> Numbers]
  /\ index \in Nat
  /\ root \in 0 .. N
  /\ S \in Seq(Function)
  /\ frames \in Seq(Frame)
  /\ SCCs \in Seq(Seq(Function))
  /\ CallersInLoop

(* The innermost frame is a frame.                                          *)
LEMMA TopType ==
  ASSUME TarjanTypeOK, frames # <<>>
  PROVE  Top \in Frame
BY LenProperties, ElementOfSeq DEF TarjanTypeOK, Top, Last

(* Moving the loop of the innermost frame on keeps its counter within N and *)
(* leaves the callers alone.                                                *)
LEMMA AdvanceType ==
  ASSUME NEW fs \in Seq(Frame), fs # <<>>, Last(fs).vv < N
  PROVE  /\ Advance(fs) \in Seq(Frame)
         /\ Len(Advance(fs)) = Len(fs)
         /\ \A i \in 1 .. Len(fs) : i < Len(fs) => Advance(fs)[i] = fs[i]
<1>1. Len(fs) \in 1 .. Len(fs) /\ fs[Len(fs)] \in Frame
  BY LenProperties, ElementOfSeq
<1>2. PICK e \in Frame : e = [fs[Len(fs)] EXCEPT !.vv = @ + 1]
  <2>1. [fs[Len(fs)] EXCEPT !.vv = @ + 1] \in Frame
    BY <1>1, NAssumption DEF Frame, Last
  <2> QED
    BY <2>1
<1>3. Advance(fs) = [fs EXCEPT ![Len(fs)] = e]
  BY <1>1, <1>2 DEF Advance
<1> QED
  BY <1>1, <1>2, <1>3, ExceptSeq

(* The smaller of two numbers is a number.                                  *)
LEMMA MinType ==
  ASSUME NEW a \in Numbers, NEW b \in Numbers
  PROVE  Min({a, b}) \in Numbers
<1>1. \E z \in {a, b} : \A w \in {a, b} : z =< w
  BY DEF Numbers, NotIndexed
<1>2. Min({a, b}) \in {a, b}
  BY <1>1 DEF Min
<1> QED
  BY <1>2

(* Entering tarjan keeps the types: from getSccs, or from a frame whose loop *)
(* is at the function it calls.                                             *)
LEMMA NumberType ==
  ASSUME TarjanTypeOK, NEW v \in Function, Number(v), root' \in 0 .. N,
         frames = <<>> \/ InLoop
  PROVE  TarjanTypeOK'
<1> DEFINE frame == [v |-> v, vv |-> 0]
<1>1. frame \in Frame
  BY NAssumption DEF Frame
<1>2. frames \in Seq(Frame) /\ Len(frames) \in Nat /\ frames' = Append(frames, frame)
  BY LenProperties DEF Number, TarjanTypeOK
<1> HIDE DEF frame
<1>3. frames' \in Seq(Frame) /\ Len(frames') = Len(frames) + 1
      /\ DOMAIN frames' = 1 .. Len(frames')
  BY <1>1, <1>2, AppendProperties, LenProperties
<1>4. CallersInLoop'
  <2> SUFFICES ASSUME NEW i \in 1 .. Len(frames)
               PROVE  frames'[i].vv < N
    BY <1>2, <1>3 DEF CallersInLoop
  <2>1. frames'[i] = frames[i]
    BY <1>1, <1>2, AppendProperties
  <2>2. DOMAIN frames = 1 .. Len(frames)
    BY <1>2, LenProperties
  <2>3. CASE i < Len(frames)
    BY <2>1, <2>2, <2>3 DEF CallersInLoop, TarjanTypeOK
  <2>4. CASE i = Len(frames)
    <3>1. InLoop
      BY <1>2, <2>4, EmptySeq
    <3> QED
      BY <2>1, <2>4, <3>1 DEF InLoop, Top, Last
  <2> QED
    BY <1>2, <2>3, <2>4
<1>5. S' \in Seq(Function)
  BY ConcatProperties DEF Number, TarjanTypeOK, Cons
<1> QED
  BY <1>3, <1>4, <1>5 DEF Number, TarjanTypeOK, Numbers

(* A set of naturals with an element has a least one.                       *)
LEMMA LeastElement ==
  ASSUME NEW I \in SUBSET Nat, I # {}
  PROVE  \E z \in I : \A w \in I : z =< w
<1> DEFINE R == {e \in Nat \X Nat : e[1] < e[2]}
<1>1. IsWellFoundedOn(R, Nat)
  BY NatLessThanWellFounded DEF OpToRel
<1>2. PICK z \in I : \A w \in I : <<w, z>> \notin R
  <2> HIDE DEF R
  <2> QED
    BY <1>1, WFMin
<1>3. ASSUME NEW w \in I
      PROVE  z =< w
  <2>1. w \in Nat /\ z \in Nat
    OBVIOUS
  <2>2. ~(w < z)
    BY <1>2, <2>1
  <2> QED
    BY <2>1, <2>2
<1> QED
  BY <1>3

(* The position of a function in the stack, 0 when it is not there.         *)
LEMMA PositionType ==
  ASSUME TarjanTypeOK, NEW v \in Function
  PROVE  PositionOf(v) \in 0 .. Len(S)
<1>1. Len(S) \in Nat
  BY LenProperties DEF TarjanTypeOK
<1> DEFINE J == {i \in 1 .. Len(S) : S[i] = v}
<1>2. J \in SUBSET Nat /\ J \subseteq 1 .. Len(S)
  BY <1>1
<1>3. PositionOf(v) = IF J # {} THEN Min(J) ELSE 0
  BY DEF PositionOf, SelectInSeq
<1> HIDE DEF J
<1>4. J # {} => \E z \in J : \A w \in J : z =< w
  BY <1>2, LeastElement
<1>5. CASE J = {}
  BY <1>1, <1>3, <1>5
<1>6. CASE J # {}
  <2>1. PositionOf(v) \in J
    BY <1>3, <1>4, <1>6 DEF Min
  <2>2. PositionOf(v) \in 1 .. Len(S)
    BY <1>2, <2>1
  <2> QED
    BY <1>1, <2>2
<1> QED
  BY <1>5, <1>6

(* Popping a component leaves functions on the stack, and pops functions.   *)
LEMMA PopComponentType ==
  ASSUME TarjanTypeOK, NEW v \in Function, PopComponent(v)
  PROVE  S' \in Seq(Function) /\ SCCs' \in Seq(Seq(Function))
<1>1. PositionOf(v) \in 0 .. Len(S) /\ Len(S) \in Nat
  BY PositionType, LenProperties DEF TarjanTypeOK
<1>2. \A i \in 1 .. Len(S) : S[i] \in Function
  BY ElementOfSeq DEF TarjanTypeOK
<1>3. SubSeq(S, PositionOf(v) + 1, Len(S)) \in Seq(Function)
  BY <1>1, <1>2, SubSeqProperties
<1>4. SubSeq(S, 1, PositionOf(v)) \in Seq(Function)
  BY <1>1, <1>2, SubSeqProperties
<1>5. Component(v) \in Seq(Function)
  <2> DEFINE P == SubSeq(S, 1, PositionOf(v))
  <2>1. P \in Seq(Function)
    BY <1>4
  <2>2. Component(v) = [i \in 1 .. Len(P) |-> P[(Len(P) - i) + 1]]
    BY DEF Component, Reverse
  <2> HIDE DEF P
  <2>3. Len(P) \in Nat /\ \A i \in 1 .. Len(P) : P[i] \in Function
    BY <2>1, LenProperties, ElementOfSeq
  <2>4. \A i \in 1 .. Len(P) : P[(Len(P) - i) + 1] \in Function
    BY <2>3
  <2> QED
    BY <2>2, <2>3, <2>4, IsASeq
<1>6. Append(SCCs, Component(v)) \in Seq(Seq(Function))
  BY <1>5, AppendProperties DEF TarjanTypeOK
<1>7. S \in Seq(Function) /\ SCCs \in Seq(Seq(Function))
  BY DEF TarjanTypeOK
<1> QED
  BY <1>3, <1>6, <1>7 DEF PopComponent

(* Moving the innermost loop on, with nothing else changed but the links,   *)
(* keeps the types.                                                         *)
LEMMA LoopStepType ==
  ASSUME TarjanTypeOK, InLoop, frames' = Advance(frames),
         lowlinkMap' \in [Function -> Numbers],
         UNCHANGED <<indexMap, index, S, root, SCCs>>
  PROVE  TarjanTypeOK'
<1>1. frames \in Seq(Frame) /\ frames # <<>> /\ Last(frames).vv < N
  BY DEF InLoop, Top, TarjanTypeOK
<1>2. /\ frames' \in Seq(Frame)
      /\ Len(frames') = Len(frames)
      /\ \A i \in 1 .. Len(frames) : i < Len(frames) => frames'[i] = frames[i]
  BY <1>1, AdvanceType
<1>3. DOMAIN frames = 1 .. Len(frames) /\ DOMAIN frames' = 1 .. Len(frames)
  BY <1>1, <1>2, LenProperties
<1>4. CallersInLoop'
  BY <1>2, <1>3 DEF CallersInLoop, TarjanTypeOK
<1> QED
  BY <1>2, <1>4 DEF TarjanTypeOK

(* Returning from tarjan, to getSccs or to the caller, keeps the types.     *)
LEMMA ReturnType ==
  ASSUME TarjanTypeOK, Return
  PROVE  TarjanTypeOK'
<1>1. Top \in Frame /\ Top.v \in Function /\ lowlinkMap \in [Function -> Numbers]
  BY TopType DEF Return, Frame, TarjanTypeOK
<1>2. S' \in Seq(Function) /\ SCCs' \in Seq(Seq(Function))
  BY <1>1, PopComponentType DEF Return
<1>3. CASE ReturnToRoot
  <2>1. frames' = <<>> /\ lowlinkMap' = lowlinkMap
    BY <1>3 DEF ReturnToRoot
  <2>2. frames' \in Seq(Frame) /\ CallersInLoop'
    BY <2>1, EmptySeq DEF CallersInLoop
  <2> QED
    BY <1>1, <1>2, <2>1, <2>2 DEF Return, TarjanTypeOK
<1>4. CASE ReturnToCaller
  <2> DEFINE fs == Front(frames)
  <2>1. frames \in Seq(Frame) /\ Len(frames) \in Nat /\ Len(frames) > 1
        /\ DOMAIN frames = 1 .. Len(frames)
    BY <1>4, LenProperties DEF ReturnToCaller, TarjanTypeOK
  <2>2. \A i \in 1 .. Len(frames) - 1 : frames[i] \in Frame
    BY <2>1, ElementOfSeq
  <2>3. /\ fs \in Seq(Frame)
        /\ Len(fs) = Len(frames) - 1
        /\ \A i \in 1 .. Len(frames) - 1 : fs[i] = frames[i]
    BY <2>1, <2>2, SubSeqProperties DEF Front
  <2>4. frames' = Advance(fs)
    BY <1>4 DEF ReturnToCaller
  <2> HIDE DEF fs
  <2>5. \A i \in 1 .. Len(fs) : fs[i].vv < N
    <3> SUFFICES ASSUME NEW i \in 1 .. Len(fs)
                 PROVE  fs[i].vv < N
      OBVIOUS
    <3>1. i \in DOMAIN frames /\ i < Len(frames) /\ fs[i] = frames[i]
      BY <2>1, <2>3
    <3> QED
      BY <3>1 DEF CallersInLoop, TarjanTypeOK
  <2>6. fs # <<>> /\ Last(fs).vv < N /\ Last(fs) \in Frame
    BY <2>1, <2>3, <2>5, ElementOfSeq, EmptySeq DEF Last
  <2>7. /\ frames' \in Seq(Frame)
        /\ Len(frames') = Len(fs)
        /\ \A i \in 1 .. Len(fs) : i < Len(fs) => frames'[i] = fs[i]
    BY <2>3, <2>4, <2>6, AdvanceType
  <2>8. CallersInLoop'
    BY <2>5, <2>7, LenProperties DEF CallersInLoop
  <2>9. lowlinkMap' \in [Function -> Numbers]
    <3>1. lowlinkMap' = [lowlinkMap EXCEPT ![Last(fs).v] =
                            Min({lowlinkMap[Last(fs).v], lowlinkMap[Top.v]})]
      BY <1>1, <1>4, <2>6 DEF ReturnToCaller, fs, Frame
    <3>2. Min({lowlinkMap[Last(fs).v], lowlinkMap[Top.v]}) \in Numbers
      BY <1>1, <2>6, MinType DEF Frame
    <3> QED
      BY <1>1, <3>1, <3>2
  <2> QED
    BY <1>2, <2>7, <2>8, <2>9 DEF Return, TarjanTypeOK
<1> QED
  BY <1>3, <1>4 DEF Return

(* The type invariant holds initially.                                      *)
LEMMA TypeInit == Init => TypeOK /\ CallersInLoop
<1> SUFFICES ASSUME Init
             PROVE  TypeOK /\ CallersInLoop
  OBVIOUS
<1>1. MTTypeOK
  BY NAssumption DEF Init, MTTypeOK, MakeTransitiveInit, Relation
<1>2. frames \in Seq([v : Function, vv : 0 .. N]) /\ S \in Seq(Function)
      /\ SCCs \in Seq(Seq(Function))
  BY EmptySeq DEF Init
<1> QED
  BY <1>1, <1>2, NAssumption DEF Init, TypeOK, CallersInLoop

(* A step of tarjan keeps the types.                                        *)
LEMMA TarjanType ==
  ASSUME TarjanTypeOK, Tarjan
  PROVE  TarjanTypeOK'
<1>1. CASE NextRoot
  <2>1. root \in Function /\ root' \in 0 .. N /\ frames = <<>>
    BY <1>1, NAssumption DEF NextRoot, TarjanTypeOK, Function, Index
  <2>2. CASE Number(root)
    BY <2>1, <2>2, NumberType
  <2>3. CASE UNCHANGED <<indexMap, lowlinkMap, index, S, frames, SCCs>>
    BY <2>1, <2>3 DEF TarjanTypeOK, CallersInLoop
  <2> QED
    BY <1>1, <2>2, <2>3 DEF NextRoot
<1>2. CASE Descend
  <2>1. Top \in Frame
    BY <1>2, TopType DEF Descend, InLoop
  <2>2. Top.vv \in Function /\ root' \in 0 .. N /\ InLoop /\ Number(Top.vv)
    BY <1>2, <2>1, NAssumption DEF Descend, InLoop, Frame, Function, Index, TarjanTypeOK
  <2> QED
    BY <2>2, NumberType
<1>3. CASE Revisit
  <2>1. Top \in Frame /\ lowlinkMap \in [Function -> Numbers]
    BY <1>3, TopType DEF Revisit, InLoop, TarjanTypeOK
  <2>2. Top.v \in Function /\ Top.vv \in Function
    BY <1>3, <2>1, NAssumption DEF Revisit, InLoop, Frame, Function, Index
  <2>3. Min({lowlinkMap[Top.v], lowlinkMap[Top.vv]}) \in Numbers
    BY <2>1, <2>2, MinType
  <2>4. lowlinkMap' \in [Function -> Numbers]
    BY <1>3, <2>1, <2>2, <2>3 DEF Revisit
  <2> QED
    BY <1>3, <2>4, LoopStepType DEF Revisit
<1>4. CASE NotCalled
  BY <1>4, LoopStepType DEF NotCalled, TarjanTypeOK
<1>5. CASE Return
  BY <1>5, ReturnType
<1> QED
  BY <1>1, <1>2, <1>3, <1>4, <1>5 DEF Tarjan

(* Every step keeps the types, given the invariant of the closure phase.    *)
LEMMA TypeNext ==
  HierarchyInv /\ HierarchyInv' /\ TypeOK /\ CallersInLoop /\ [Next]_hbVars
    => TypeOK' /\ CallersInLoop'
<1> SUFFICES ASSUME HierarchyInv, HierarchyInv', TypeOK, CallersInLoop, [Next]_hbVars
             PROVE  TypeOK' /\ CallersInLoop'
  OBVIOUS
<1>1. MTTypeOK' /\ pending' \subseteq sites' /\ sites' \in SiteSets
  BY DEF HierarchyInv
<1>2. TarjanTypeOK
  BY DEF TypeOK, TarjanTypeOK, Numbers, Frame
<1>3. TarjanTypeOK'
  <2>1. CASE Tarjan
    BY <1>2, <2>1, TarjanType
  <2>2. CASE UNCHANGED sccVars
    BY <1>2, <2>2 DEF TarjanTypeOK, CallersInLoop, sccVars
  <2> QED
    BY <2>1, <2>2 DEF Next, VisitCallInst, StartClosure, Close, HierarchyComputed,
       SccsFound, hbVars, sccVars
<1>4. pc' \in {"visit", "close", "sccs", "done"} /\ typeOf' = typeOf
  BY DEF TypeOK, Next, VisitCallInst, StartClosure, Close, HierarchyComputed,
     Tarjan, SccsFound, hbVars, inputVars
<1> QED
  BY <1>1, <1>3, <1>4 DEF TypeOK, TarjanTypeOK, Numbers, Frame

(* Type correctness of the hierarchy builder, Tarjan's stack and links       *)
(* included, for every number of functions.                                 *)
THEOREM TypeCorrect == Spec => []TypeOK
BY HierarchyInit, HierarchyNext, TypeInit, TypeNext, PTL DEF Spec

-----------------------------------------------------------------------------
(* The inductive invariant.  Since the stack is sorted by the numbers, what  *)
(* it says of places in the stack is said of numbers.                       *)

Same(a, b) == a = b \/ <<a, b>> \in m
Emitted(f) == \E i \in 1 .. Len(SCCs) : f \in ToSet(SCCs[i])

(* Numbers are given once and in order, and the stack is sorted by them.     *)
NumbersInv ==
  /\ \A f \in Function : Indexed(f) => indexMap[f] \in Nat /\ indexMap[f] < index
  /\ \A f, g \in Function : Indexed(f) /\ indexMap[f] = indexMap[g] => f = g
  /\ \A i, k \in 1 .. Len(S) : i < k => indexMap[S[i]] > indexMap[S[k]]
  /\ \A f \in Function : f < root => Indexed(f)

(* A function reaches those above it on the stack, and its link is the       *)
(* number of one on the stack that it reaches.                              *)
LinksInv ==
  /\ \A f, g \in Function : OnStack(f) /\ OnStack(g) /\ indexMap[f] < indexMap[g] => <<f, g>> \in m
  /\ \A f \in Function : OnStack(f) =>
       /\ lowlinkMap[f] \in Nat /\ lowlinkMap[f] <= indexMap[f]
       /\ \E u \in Function : OnStack(u) /\ indexMap[u] = lowlinkMap[f] /\ Same(f, u)

(* The active calls are on the stack, each at the function it called; their  *)
(* loops have numbered what they have been to, and noted its number.         *)
FramesInv ==
  /\ \A i \in 1 .. Len(frames) : OnStack(frames[i].v)
  /\ \A i, k \in 1 .. Len(frames) : i < k => indexMap[frames[i].v] < indexMap[frames[k].v]
  /\ \A i \in 1 .. Len(frames) - 1 : frames[i].vv = frames[i + 1].v
  /\ \A i \in 1 .. Len(frames) : \A f \in Function :
       f < frames[i].vv /\ <<frames[i].v, f>> \in m =>
         Indexed(f) /\ (OnStack(f) => lowlinkMap[frames[i].v] <= indexMap[f])

(* Every function on the stack reaches an active call below it.              *)
ReturnsInv ==
  \A f \in Function : OnStack(f) =>
    \E i \in 1 .. Len(frames) : indexMap[frames[i].v] <= indexMap[f] /\ Same(f, frames[i].v)

(* What has a number is on the stack or has come out, and what has come out  *)
(* are classes, each behind those it calls.                                 *)
EmittedInv ==
  /\ \A f \in Function : Indexed(f) <=> OnStack(f) \/ Emitted(f)
  /\ \A f \in Function : ~(OnStack(f) /\ Emitted(f))
  /\ \A i, k \in 1 .. Len(SCCs) : \A f \in Function :
       f \in ToSet(SCCs[i]) /\ f \in ToSet(SCCs[k]) => i = k
  /\ \A i \in 1 .. Len(SCCs) : \A f, g \in Function :
       f \in ToSet(SCCs[i]) /\ <<f, g>> \in m => \E k \in 1 .. i : g \in ToSet(SCCs[k])
  /\ \A i \in 1 .. Len(SCCs) : \E f \in Function :
       \A g \in Function : g \in ToSet(SCCs[i]) <=> g = f \/ (<<f, g>> \in m /\ <<g, f>> \in m)
  /\ \A i \in 1 .. Len(SCCs) : \A j, k \in 1 .. Len(SCCs[i]) : SCCs[i][j] = SCCs[i][k] => j = k

SearchInv == NumbersInv /\ LinksInv /\ FramesInv /\ ReturnsInv /\ EmittedInv

(* Before getSccs is called nothing has a number.                           *)
NotStarted ==
  /\ S = <<>> /\ frames = <<>> /\ SCCs = <<>> /\ index = 0 /\ root = 0
  /\ \A f \in Function : ~Indexed(f)

TarjanInv ==
  /\ pc \in {"visit", "close"} => NotStarted
  /\ SearchInv
  /\ pc = "done" => frames = <<>> /\ root = N

-----------------------------------------------------------------------------
(* What the steps do to the stack and to the frames.                        *)

Transitive ==
  \A a, b, c \in Function : <<a, b>> \in m /\ <<b, c>> \in m => <<a, c>> \in m

(* Types, in the form the other lemmas use them.                            *)
LEMMA SearchTypes ==
  ASSUME TarjanTypeOK
  PROVE  /\ Function \subseteq Nat /\ N \in Nat
         /\ index \in Nat /\ root \in Nat
         /\ Len(S) \in Nat /\ Len(frames) \in Nat /\ Len(SCCs) \in Nat
         /\ \A i \in 1 .. Len(S) : S[i] \in Function
         /\ \A i \in 1 .. Len(frames) : frames[i].v \in Function /\ frames[i].vv \in 0 .. N
         /\ \A i \in 1 .. Len(SCCs) : SCCs[i] \in Seq(Function)
         /\ \A f \in Function : lowlinkMap[f] \in Numbers /\ indexMap[f] \in Numbers
<1> USE DEF TarjanTypeOK
<1>1. Function \subseteq Nat /\ N \in Nat
  BY NAssumption DEF Function, Index
<1>2. Len(S) \in Nat /\ Len(frames) \in Nat /\ Len(SCCs) \in Nat
  BY LenProperties
<1>3. \A i \in 1 .. Len(S) : S[i] \in Function
  BY ElementOfSeq
<1>4. \A i \in 1 .. Len(frames) : frames[i] \in Frame
  BY ElementOfSeq
<1>5. \A i \in 1 .. Len(SCCs) : SCCs[i] \in Seq(Function)
  BY ElementOfSeq
<1>6. \A i \in 1 .. Len(frames) : frames[i].v \in Function /\ frames[i].vv \in 0 .. N
  BY <1>4 DEF Frame
<1>7. index \in Nat /\ root \in Nat
  BY <1>1
<1>8. \A f \in Function : lowlinkMap[f] \in Numbers /\ indexMap[f] \in Numbers
  OBVIOUS
<1> HIDE DEF TarjanTypeOK
<1> QED
  BY <1>1, <1>2, <1>3, <1>5, <1>6, <1>7, <1>8

(* The innermost frame is the last one.                                     *)
LEMMA TopFrame ==
  ASSUME TarjanTypeOK, frames # <<>>
  PROVE  Len(frames) \in 1 .. Len(frames) /\ Top = frames[Len(frames)]
<1>1. frames \in Seq(Frame)
  BY DEF TarjanTypeOK
<1> QED
  BY <1>1, EmptySeq DEF Top, Last

(* Entering tarjan puts v in front of the stack, and a frame at the end.     *)
LEMMA NumberEffect ==
  ASSUME TarjanTypeOK, NEW v \in Function, Number(v)
  PROVE  /\ \A f \in Function : OnStack(f)' <=> f = v \/ OnStack(f)
         /\ Len(S') = Len(S) + 1 /\ S'[1] = v
         /\ \A i \in 1 .. Len(S) : S'[i + 1] = S[i]
         /\ Len(frames') = Len(frames) + 1
         /\ \A i \in 1 .. Len(frames) : frames'[i] = frames[i]
         /\ frames'[Len(frames) + 1].v = v /\ frames'[Len(frames) + 1].vv = 0
<1> DEFINE frame == [v |-> v, vv |-> 0]
<1>1. frame \in Frame /\ frame.v = v /\ frame.vv = 0
  BY NAssumption DEF Frame
<1>2. frames \in Seq(Frame) /\ S \in Seq(Function) /\ Len(S) \in Nat
  BY SearchTypes DEF TarjanTypeOK
<1>3. frames' = Append(frames, frame) /\ S' = <<v>> \o S
  BY DEF Number, Cons
<1> HIDE DEF frame
<1>4. /\ Len(frames') = Len(frames) + 1
      /\ \A i \in 1 .. Len(frames) : frames'[i] = frames[i]
      /\ frames'[Len(frames) + 1] = frame
  BY <1>1, <1>2, <1>3, AppendProperties
<1>5. <<v>> \in Seq(Function) /\ Len(<<v>>) = 1 /\ <<v>>[1] = v
  OBVIOUS
<1>6. /\ Len(S') = 1 + Len(S)
      /\ \A i \in 1 .. 1 + Len(S) : S'[i] = IF i <= 1 THEN <<v>>[i] ELSE S[i - 1]
  BY <1>2, <1>3, <1>5, ConcatProperties
<1>7. S'[1] = v
  BY <1>2, <1>5, <1>6
<1>8. \A i \in 1 .. Len(S) : S'[i + 1] = S[i]
  <2> SUFFICES ASSUME NEW i \in 1 .. Len(S)
               PROVE  S'[i + 1] = S[i]
    OBVIOUS
  <2>1. i + 1 \in 1 .. 1 + Len(S) /\ ~(i + 1 <= 1) /\ (i + 1) - 1 = i
    BY <1>2
  <2> QED
    BY <1>6, <2>1
<1>9. ASSUME NEW f \in Function
      PROVE  OnStack(f)' <=> f = v \/ OnStack(f)
  <2>1. ASSUME NEW i \in 1 .. Len(S'), S'[i] = f, f # v
        PROVE  OnStack(f)
    <3>1. i - 1 \in 1 .. Len(S) /\ (i - 1) + 1 = i
      BY <1>2, <1>6, <1>7, <2>1
    <3>2. S[i - 1] = f
      BY <1>8, <2>1, <3>1
    <3> QED
      BY <3>1, <3>2 DEF OnStack, Contains
  <2>2. ASSUME NEW i \in 1 .. Len(S), S[i] = f
        PROVE  OnStack(f)'
    <3>1. i + 1 \in 1 .. Len(S') /\ S'[i + 1] = f
      BY <1>2, <1>6, <1>8, <2>2
    <3> QED
      BY <3>1 DEF OnStack, Contains
  <2>3. OnStack(v)'
    <3>1. 1 \in 1 .. Len(S')
      BY <1>2, <1>6
    <3> QED
      BY <1>7, <3>1 DEF OnStack, Contains
  <2> QED
    BY <2>1, <2>2, <2>3 DEF OnStack, Contains
<1>10. Len(S') = Len(S) + 1
  BY <1>2, <1>6
<1>11. frames'[Len(frames) + 1].v = v /\ frames'[Len(frames) + 1].vv = 0
  BY <1>1, <1>4
<1> QED
  BY <1>4, <1>7, <1>8, <1>9, <1>10, <1>11

(* Moving the loop of the innermost frame on changes its counter alone.      *)
LEMMA AdvanceEffect ==
  ASSUME NEW fs \in Seq(Frame), fs # <<>>, Last(fs).vv < N
  PROVE  /\ Len(Advance(fs)) = Len(fs)
         /\ \A i \in 1 .. Len(fs) : Advance(fs)[i].v = fs[i].v
         /\ \A i \in 1 .. Len(fs) :
              Advance(fs)[i].vv = IF i = Len(fs) THEN fs[i].vv + 1 ELSE fs[i].vv
<1>1. Len(fs) \in 1 .. Len(fs) /\ fs[Len(fs)] \in Frame
  BY EmptySeq, ElementOfSeq
<1> DEFINE e == [fs[Len(fs)] EXCEPT !.vv = @ + 1]
<1>2. e \in Frame /\ e.v = fs[Len(fs)].v /\ e.vv = fs[Len(fs)].vv + 1
  BY <1>1, NAssumption DEF Frame, Last
<1>3. Advance(fs) = [fs EXCEPT ![Len(fs)] = e]
  BY <1>1 DEF Advance
<1> HIDE DEF e
<1>4. /\ Len(Advance(fs)) = Len(fs)
      /\ \A i \in 1 .. Len(fs) : Advance(fs)[i] = IF i = Len(fs) THEN e ELSE fs[i]
  BY <1>1, <1>2, <1>3, ExceptSeq
<1> QED
  BY <1>2, <1>4

(* Going on to the next function vv in the innermost call.                  *)
LEMMA LoopEffect ==
  ASSUME TarjanTypeOK, InLoop, frames' = Advance(frames)
  PROVE  /\ Len(frames) \in 1 .. Len(frames) /\ Len(frames') = Len(frames)
         /\ \A i \in 1 .. Len(frames) : frames'[i].v = frames[i].v
         /\ \A i \in 1 .. Len(frames) :
              frames'[i].vv = IF i = Len(frames) THEN frames[i].vv + 1 ELSE frames[i].vv
<1>1. frames \in Seq(Frame) /\ frames # <<>> /\ Last(frames).vv < N
  BY DEF TarjanTypeOK, InLoop, Top
<1> QED
  BY <1>1, AdvanceEffect, TopFrame

(* Returning drops the innermost frame, and the caller's loop goes on.       *)
LEMMA ReturnEffect ==
  ASSUME TarjanTypeOK, Return
  PROVE  /\ Len(frames) \in 1 .. Len(frames) /\ Len(frames') = Len(frames) - 1
         /\ \A i \in 1 .. Len(frames) - 1 : frames'[i].v = frames[i].v
         /\ \A i \in 1 .. Len(frames) - 1 :
              frames'[i].vv = IF i = Len(frames) - 1 THEN frames[i].vv + 1 ELSE frames[i].vv
         /\ ReturnToCaller => Last(Front(frames)).v = frames[Len(frames) - 1].v
<1>1. Len(frames) \in 1 .. Len(frames) /\ Len(frames) \in Nat /\ Top = frames[Len(frames)]
  BY TopFrame, SearchTypes DEF Return
<1>2. CASE ReturnToRoot
  BY <1>1, <1>2, EmptySeq DEF ReturnToRoot, ReturnToCaller
<1>3. CASE ReturnToCaller
  <2> DEFINE fs == Front(frames)
  <2>1. /\ frames \in Seq(Frame) /\ Len(frames) > 1
        /\ \A i \in 1 .. Len(frames) - 1 : frames[i] \in Frame
    BY <1>1, <1>3, ElementOfSeq DEF ReturnToCaller, TarjanTypeOK
  <2>2. /\ fs \in Seq(Frame) /\ Len(fs) = Len(frames) - 1
        /\ \A i \in 1 .. Len(frames) - 1 : fs[i] = frames[i]
    BY <1>1, <2>1, SubSeqProperties DEF Front
  <2>3. frames' = Advance(fs)
    BY <1>3 DEF ReturnToCaller
  <2> HIDE DEF fs
  <2>4. Last(fs) = frames[Len(frames) - 1] /\ fs # <<>>
    BY <1>1, <2>1, <2>2, EmptySeq DEF Last
  <2>5. Last(fs).vv < N
    <3>1. Len(frames) - 1 \in DOMAIN frames /\ Len(frames) - 1 < Len(frames)
      BY <1>1, <2>1, LenProperties
    <3> QED
      BY <2>4, <3>1 DEF CallersInLoop, TarjanTypeOK
  <2>6. /\ Len(frames') = Len(fs)
        /\ \A i \in 1 .. Len(fs) : frames'[i].v = fs[i].v
        /\ \A i \in 1 .. Len(fs) :
              frames'[i].vv = IF i = Len(fs) THEN fs[i].vv + 1 ELSE fs[i].vv
    BY <2>2, <2>3, <2>4, <2>5, AdvanceEffect
  <2> QED
    BY <1>1, <2>1, <2>2, <2>4, <2>6 DEF fs
<1> QED
  BY <1>2, <1>3 DEF Return

(* A function on the stack is at its position, and the first to be there.    *)
LEMMA PositionOnStack ==
  ASSUME TarjanTypeOK, NEW v \in Function, OnStack(v)
  PROVE  PositionOf(v) \in 1 .. Len(S) /\ S[PositionOf(v)] = v
<1> DEFINE J == {i \in 1 .. Len(S) : S[i] = v}
<1>1. J \in SUBSET Nat /\ J # {}
  BY DEF OnStack, Contains
<1>2. PositionOf(v) = IF J # {} THEN Min(J) ELSE 0
  BY DEF PositionOf, SelectInSeq
<1> HIDE DEF J
<1>3. \E z \in J : \A w \in J : z =< w
  BY <1>1, LeastElement
<1>4. PositionOf(v) \in J
  BY <1>1, <1>2, <1>3 DEF Min
<1> QED
  BY <1>4 DEF J

(* The stack is sorted: to be in front of v is to have a greater number.     *)
LEMMA FrontOfStack ==
  ASSUME TarjanTypeOK, NumbersInv, NEW v \in Function, OnStack(v), Indexed(v),
         \A i \in 1 .. Len(S) : Indexed(S[i])
  PROVE  \A i \in 1 .. Len(S) : i <= PositionOf(v) <=> indexMap[S[i]] >= indexMap[v]
<1>1. PositionOf(v) \in 1 .. Len(S) /\ S[PositionOf(v)] = v
  BY PositionOnStack
<1>2. \A i \in 1 .. Len(S) : S[i] \in Function /\ indexMap[S[i]] \in Nat
  BY SearchTypes DEF NumbersInv
<1>3. indexMap[v] \in Nat /\ Len(S) \in Nat
  BY SearchTypes DEF NumbersInv
<1> SUFFICES ASSUME NEW i \in 1 .. Len(S)
             PROVE  i <= PositionOf(v) <=> indexMap[S[i]] >= indexMap[v]
  OBVIOUS
<1>4. CASE i < PositionOf(v)
  <2>1. indexMap[S[i]] > indexMap[v]
    BY <1>1, <1>4 DEF NumbersInv
  <2> QED
    BY <1>1, <1>2, <1>3, <1>4, <2>1
<1>5. CASE i = PositionOf(v)
  BY <1>1, <1>3, <1>5
<1>6. CASE i > PositionOf(v)
  <2>1. indexMap[v] > indexMap[S[i]]
    BY <1>1, <1>6 DEF NumbersInv
  <2> QED
    BY <1>1, <1>2, <1>3, <1>6, <2>1
<1> QED
  BY <1>1, <1>4, <1>5, <1>6

(* The two parts of a stack s cut behind p, the front one turned round.       *)
LEMMA CutStack ==
  ASSUME NEW s \in Seq(Function), NEW p \in 1 .. Len(s)
  PROVE  /\ Len(SubSeq(s, p + 1, Len(s))) = Len(s) - p
         /\ \A i \in 1 .. Len(s) - p : SubSeq(s, p + 1, Len(s))[i] = s[p + i]
         /\ Reverse(SubSeq(s, 1, p)) \in Seq(Function)
         /\ Len(Reverse(SubSeq(s, 1, p))) = p
         /\ DOMAIN Reverse(SubSeq(s, 1, p)) = 1 .. p
         /\ \A i \in 1 .. p : Reverse(SubSeq(s, 1, p))[i] = s[(p - i) + 1]
<1> DEFINE n == Len(s)
           back == SubSeq(s, p + 1, n)
           front == SubSeq(s, 1, p)
<1>1. n \in Nat /\ p \in 1 .. n /\ \A i \in 1 .. n : s[i] \in Function
  BY LenProperties, ElementOfSeq
<1>2. /\ Len(back) = IF p + 1 <= n THEN (n - (p + 1)) + 1 ELSE 0
      /\ \A i \in 1 .. (n - (p + 1)) + 1 : back[i] = s[((p + 1) + i) - 1]
  <2>1. p + 1 \in Int /\ n \in Int /\ \A i \in p + 1 .. n : s[i] \in Function
    BY <1>1
  <2> HIDE DEF n
  <2> QED
    BY <2>1, SubSeqProperties
<1>3. /\ front \in Seq(Function)
      /\ Len(front) = IF 1 <= p THEN (p - 1) + 1 ELSE 0
      /\ \A i \in 1 .. (p - 1) + 1 : front[i] = s[(1 + i) - 1]
  <2>1. p \in Int /\ 1 \in Int /\ \A i \in 1 .. p : s[i] \in Function
    BY <1>1
  <2> QED
    BY <2>1, SubSeqProperties
<1>4. Reverse(front) = [i \in 1 .. Len(front) |-> front[(Len(front) - i) + 1]]
  BY DEF Reverse
<1> HIDE DEF n, back, front
<1>5. Len(back) = n - p /\ \A i \in 1 .. n - p : back[i] = s[p + i]
  <2>1. (n - (p + 1)) + 1 = n - p /\ \A i \in 1 .. n - p : ((p + 1) + i) - 1 = p + i
    BY <1>1
  <2>2. Len(back) = n - p
    BY <1>1, <1>2, <2>1
  <2> QED
    BY <1>2, <2>1, <2>2
<1>6. Len(front) = p /\ \A i \in 1 .. p : front[i] = s[i]
  BY <1>1, <1>3
<1>7. \A i \in 1 .. p : (p - i) + 1 \in 1 .. p
  BY <1>1
<1>8. Reverse(front) = [i \in 1 .. p |-> s[(p - i) + 1]]
  BY <1>4, <1>6, <1>7
<1>9. \A i \in 1 .. p : s[(p - i) + 1] \in Function
  BY <1>1, <1>7
<1>10. Reverse(front) \in Seq(Function)
  BY <1>1, <1>8, <1>9, IsASeq
<1>11. Len(Reverse(front)) = p
  BY <1>1, <1>8, <1>10, LenProperties
<1> QED
  BY <1>5, <1>8, <1>10, <1>11 DEF n, back, front

(* The component that is popped holds what has v's number or a greater one,   *)
(* each function once; the others stay, in their order.                     *)
LEMMA PopEffect ==
  ASSUME TarjanTypeOK, NumbersInv, NEW v \in Function, OnStack(v),
         \A f \in Function : OnStack(f) => Indexed(f),
         Len(S') = Len(S) - PositionOf(v),
         \A i \in 1 .. Len(S) - PositionOf(v) : S'[i] = S[PositionOf(v) + i]
  PROVE  /\ \A f \in Function : OnStack(f)' <=> OnStack(f) /\ indexMap[f] < indexMap[v]
         /\ \A i, k \in 1 .. Len(S') : i < k => indexMap[S'[i]] > indexMap[S'[k]]
         /\ \A f \in Function :
              f \in ToSet(Component(v)) <=> OnStack(f) /\ indexMap[f] >= indexMap[v]
         /\ \A i, k \in 1 .. Len(Component(v)) :
              Component(v)[i] = Component(v)[k] => i = k
<1>a. PICK p \in Nat : p = PositionOf(v)
  BY PositionOnStack, SearchTypes
<1>1. p \in Nat /\ Len(S) \in Nat /\ p \in 1 .. Len(S) /\ S[p] = v
  BY <1>a, PositionOnStack, SearchTypes
<1>2. \A i \in 1 .. Len(S) : S[i] \in Function /\ OnStack(S[i])
  BY SearchTypes DEF OnStack, Contains
<1>3. \A i \in 1 .. Len(S) : i <= p <=> indexMap[S[i]] >= indexMap[v]
  BY <1>a, <1>2, FrontOfStack
<1>4. \A i \in 1 .. Len(S) : indexMap[S[i]] \in Nat
  BY <1>2 DEF NumbersInv
<1>5. indexMap[v] \in Nat
  BY <1>1, <1>4
<1>6. \A i \in 1 .. Len(S) : \A k \in 1 .. Len(S) :
        i < k => indexMap[S[i]] > indexMap[S[k]]
  BY DEF NumbersInv
<1>7. /\ Len(S') = Len(S) - p
      /\ \A i \in 1 .. Len(S) - p : S'[i] = S[p + i]
  BY <1>a
<1>8. /\ Len(Component(v)) = p
      /\ \A i \in 1 .. p : Component(v)[i] = S[(p - i) + 1]
      /\ DOMAIN Component(v) = 1 .. p
  BY <1>a, <1>1, CutStack DEF Component, TarjanTypeOK
<1>9. ASSUME NEW f \in Function
      PROVE  OnStack(f)' <=> OnStack(f) /\ indexMap[f] < indexMap[v]
  <2>1. ASSUME NEW i \in 1 .. Len(S) - p, S'[i] = f
        PROVE  OnStack(f) /\ indexMap[f] < indexMap[v]
    <3>1. p + i \in 1 .. Len(S) /\ ~(p + i <= p) /\ S[p + i] = f
      BY <1>1, <1>7, <2>1
    <3> QED
      BY <1>2, <1>3, <1>4, <1>5, <3>1
  <2>2. ASSUME NEW i \in 1 .. Len(S), S[i] = f, indexMap[f] < indexMap[v]
        PROVE  OnStack(f)'
    <3>1. ~(i <= p)
      BY <1>3, <1>4, <1>5, <2>2
    <3>2. i - p \in 1 .. Len(S) - p /\ p + (i - p) = i
      BY <1>1, <3>1
    <3>3. S'[i - p] = f /\ i - p \in 1 .. Len(S')
      BY <1>7, <2>2, <3>2
    <3> QED
      BY <3>3 DEF OnStack, Contains
  <2> QED
    BY <1>7, <2>1, <2>2 DEF OnStack, Contains
<1>10. ASSUME NEW i \in 1 .. Len(S) - p, NEW k \in 1 .. Len(S) - p, i < k
       PROVE  indexMap[S'[i]] > indexMap[S'[k]]
  <2>1. /\ p + i \in 1 .. Len(S) /\ p + k \in 1 .. Len(S) /\ p + i < p + k
        /\ S'[i] = S[p + i] /\ S'[k] = S[p + k]
    BY <1>1, <1>7, <1>10
  <2> QED
    BY <1>6, <2>1
<1>11. ASSUME NEW f \in Function
       PROVE  f \in ToSet(Component(v)) <=> OnStack(f) /\ indexMap[f] >= indexMap[v]
  <2>1. ASSUME NEW i \in 1 .. p, Component(v)[i] = f
        PROVE  OnStack(f) /\ indexMap[f] >= indexMap[v]
    <3>1. (p - i) + 1 \in 1 .. Len(S) /\ (p - i) + 1 <= p /\ S[(p - i) + 1] = f
      BY <1>1, <1>8, <2>1
    <3> QED
      BY <1>2, <1>3, <3>1
  <2>2. ASSUME NEW i \in 1 .. Len(S), S[i] = f, indexMap[f] >= indexMap[v]
        PROVE  f \in ToSet(Component(v))
    <3>1. i <= p
      BY <1>3, <2>2
    <3>2. (p - i) + 1 \in 1 .. p /\ (p - ((p - i) + 1)) + 1 = i
      BY <1>1, <3>1
    <3>3. Component(v)[(p - i) + 1] = f
      BY <1>8, <2>2, <3>2
    <3> QED
      BY <1>8, <3>2, <3>3 DEF ToSet
  <2> QED
    BY <1>8, <2>1, <2>2 DEF OnStack, Contains, ToSet
<1>12. ASSUME NEW i \in 1 .. p, NEW k \in 1 .. p, Component(v)[i] = Component(v)[k]
       PROVE  i = k
  <2> DEFINE a == (p - i) + 1
             b == (p - k) + 1
  <2>1. a \in 1 .. Len(S) /\ b \in 1 .. Len(S) /\ S[a] = S[b]
    BY <1>1, <1>8, <1>12
  <2>2. ~(a < b) /\ ~(b < a)
    BY <1>4, <1>6, <2>1
  <2>3. a = b
    <3> HIDE DEF a, b
    <3> QED
      BY <2>1, <2>2
  <2> QED
    BY <1>1, <2>3
<1>13. \A i, k \in 1 .. Len(S') : i < k => indexMap[S'[i]] > indexMap[S'[k]]
  BY <1>7, <1>10
<1>14. \A i, k \in 1 .. Len(Component(v)) : Component(v)[i] = Component(v)[k] => i = k
  BY <1>8, <1>12
<1> QED
  BY <1>9, <1>11, <1>13, <1>14

-----------------------------------------------------------------------------
(* Every step of the search keeps its invariant.                            *)

(* Same is reflexive and, since the matrix is closed, transitive.            *)
LEMMA SameTransitive ==
  ASSUME Transitive, NEW a \in Function, NEW b \in Function, NEW c \in Function,
         Same(a, b), Same(b, c)
  PROVE  Same(a, c) /\ (<<b, c>> \in m => <<a, c>> \in m)
BY DEF Transitive, Same

(* A function at or below an active call on the stack reaches it.            *)
LEMMA BelowReaches ==
  ASSUME NumbersInv, LinksInv, EmittedInv, NEW f \in Function, NEW g \in Function,
         OnStack(f), OnStack(g), indexMap[f] <= indexMap[g]
  PROVE  Same(f, g)
<1>1. indexMap[f] \in Nat /\ indexMap[g] \in Nat /\ Indexed(f) /\ Indexed(g)
  BY DEF NumbersInv, EmittedInv
<1>2. CASE indexMap[f] = indexMap[g]
  BY <1>1, <1>2 DEF NumbersInv, Same
<1>3. CASE indexMap[f] < indexMap[g]
  BY <1>3 DEF LinksInv, Same
<1> QED
  BY <1>1, <1>2, <1>3

(* What is on the stack has a number, and a link that is not above it.       *)
LEMMA StackNumbers ==
  ASSUME NumbersInv, LinksInv, EmittedInv, NEW f \in Function, OnStack(f)
  PROVE  /\ Indexed(f) /\ indexMap[f] \in Nat /\ indexMap[f] < index
         /\ lowlinkMap[f] \in Nat /\ lowlinkMap[f] <= indexMap[f]
BY DEF NumbersInv, LinksInv, EmittedInv

(* The functions of the active calls are on the stack, numbered in order.    *)
LEMMA FrameNumbers ==
  ASSUME TarjanTypeOK, SearchInv
  PROVE  /\ \A i \in 1 .. Len(frames) :
              /\ frames[i].v \in Function /\ OnStack(frames[i].v) /\ Indexed(frames[i].v)
              /\ indexMap[frames[i].v] \in Nat
         /\ \A i, k \in 1 .. Len(frames) : frames[i].v = frames[k].v => i = k
<1>1. /\ Len(frames) \in Nat
      /\ \A i \in 1 .. Len(frames) : frames[i].v \in Function /\ OnStack(frames[i].v)
  BY SearchTypes DEF SearchInv, FramesInv
<1>2. \A i \in 1 .. Len(frames) : indexMap[frames[i].v] \in Nat /\ Indexed(frames[i].v)
  BY <1>1, StackNumbers DEF SearchInv
<1>3. ASSUME NEW i \in 1 .. Len(frames), NEW k \in 1 .. Len(frames),
             frames[i].v = frames[k].v
      PROVE  i = k
  <2>1. ~(i < k) /\ ~(k < i)
    BY <1>2, <1>3 DEF SearchInv, FramesInv
  <2> QED
    BY <1>1, <2>1
<1> QED
  BY <1>1, <1>2, <1>3

(* Everything on the stack reaches the innermost active call.               *)
LEMMA StackReachesTop ==
  ASSUME TarjanTypeOK, SearchInv, Transitive, NEW f \in Function, OnStack(f)
  PROVE  frames # <<>> /\ Same(f, Top.v)
<1>1. PICK i \in 1 .. Len(frames) : Same(f, frames[i].v)
  BY DEF SearchInv, ReturnsInv
<1>2. frames # <<>>
  <2>1. SUFFICES ASSUME frames = <<>> PROVE FALSE
    OBVIOUS
  <2> QED
    BY <1>1, <2>1, EmptySeq
<1>3. Len(frames) \in 1 .. Len(frames) /\ Top = frames[Len(frames)]
  BY <1>2, TopFrame
<1>4. /\ frames[i].v \in Function /\ OnStack(frames[i].v) /\ indexMap[frames[i].v] \in Nat
      /\ Top.v \in Function /\ OnStack(Top.v)
  BY <1>3, FrameNumbers
<1>5. Same(frames[i].v, Top.v)
  <2>1. CASE i = Len(frames)
    BY <1>3, <2>1 DEF Same
  <2>2. CASE i < Len(frames)
    <3>1. indexMap[frames[i].v] < indexMap[Top.v]
      BY <1>3, <2>2 DEF SearchInv, FramesInv
    <3> QED
      BY <1>4, <3>1 DEF SearchInv, LinksInv, Same
  <2> QED
    BY <1>3, <2>1, <2>2
<1> QED
  BY <1>1, <1>2, <1>4, <1>5, SameTransitive

(* Entering tarjan for a function that has no number.                        *)
LEMMA NumberKeeps ==
  ASSUME TarjanTypeOK, SearchInv, Transitive, m' = m,
         NEW v \in Function, ~Indexed(v), Number(v),
         \/ frames = <<>> /\ v = root /\ root' = root + 1
         \/ frames # <<>> /\ v = Top.vv /\ <<Top.v, v>> \in m /\ root' = root
  PROVE  SearchInv'
<1> DEFINE n == Len(frames)
<1>1. /\ \A f \in Function : OnStack(f)' <=> f = v \/ OnStack(f)
      /\ Len(S') = Len(S) + 1 /\ S'[1] = v
      /\ \A i \in 1 .. Len(S) : S'[i + 1] = S[i]
  BY NumberEffect
<1>2. /\ Len(frames') = n + 1
      /\ \A i \in 1 .. n : frames'[i] = frames[i]
      /\ frames'[n + 1].v = v /\ frames'[n + 1].vv = 0
  BY NumberEffect
<1>3. index \in Nat /\ Len(S) \in Nat /\ n \in Nat /\ Function \subseteq Nat /\ root \in Nat
  BY SearchTypes
<1>4. /\ index' = index + 1 /\ SCCs' = SCCs
      /\ \A f \in Function : indexMap'[f] = IF f = v THEN index ELSE indexMap[f]
      /\ \A f \in Function : lowlinkMap'[f] = IF f = v THEN index ELSE lowlinkMap[f]
  BY DEF Number, TarjanTypeOK
<1>5. \A f \in Function : Indexed(f)' <=> f = v \/ Indexed(f)
  BY <1>3, <1>4 DEF Indexed, NotIndexed
<1>6. \A f \in Function : Indexed(f) => indexMap[f] \in Nat /\ indexMap[f] < index
  BY DEF SearchInv, NumbersInv
<1>7. \A f \in Function : OnStack(f) => Indexed(f) /\ f # v
  BY StackNumbers DEF SearchInv
<1>8. \A f \in Function : OnStack(f) => <<f, v>> \in m
  <2> SUFFICES ASSUME NEW f \in Function, OnStack(f)
               PROVE  <<f, v>> \in m
    OBVIOUS
  <2>1. frames # <<>> /\ Same(f, Top.v)
    BY StackReachesTop
  <2>2. <<Top.v, v>> \in m /\ Top.v \in Function
    BY <2>1, TopFrame, SearchTypes
  <2> QED
    BY <2>1, <2>2 DEF Same, Transitive
<1>9. \A i \in 1 .. n : frames[i].v \in Function /\ OnStack(frames[i].v) /\ frames[i].v # v
  BY <1>7, FrameNumbers
<1> HIDE DEF n
<1>10. NumbersInv'
  <2>1. ASSUME NEW f \in Function, Indexed(f)'
        PROVE  indexMap'[f] \in Nat /\ indexMap'[f] < index'
    BY <1>3, <1>4, <1>5, <1>6, <2>1
  <2>2. ASSUME NEW f \in Function, NEW g \in Function, Indexed(f)', indexMap'[f] = indexMap'[g]
        PROVE  f = g
    <3>1. indexMap[f] = indexMap[g] /\ Indexed(f) => f = g
      BY DEF SearchInv, NumbersInv
    <3>2. Indexed(g)'
      BY <2>2 DEF Indexed
    <3> QED
      BY <1>3, <1>4, <1>5, <1>6, <2>2, <3>1, <3>2
  <2>3. ASSUME NEW i \in 1 .. Len(S) + 1, NEW k \in 1 .. Len(S) + 1, i < k
        PROVE  indexMap'[S'[i]] > indexMap'[S'[k]]
    <3>1. k - 1 \in 1 .. Len(S) /\ (k - 1) + 1 = k
      BY <1>3, <2>3
    <3>2. S'[k] = S[k - 1] /\ S[k - 1] \in Function /\ OnStack(S[k - 1])
      BY <1>1, <3>1, SearchTypes DEF OnStack, Contains
    <3>3. indexMap'[S'[k]] = indexMap[S[k - 1]]
      BY <1>4, <1>7, <3>2
    <3>4. CASE i = 1
      <4>1. indexMap'[S'[i]] = index
        BY <1>1, <1>4, <3>4
      <4> QED
        BY <1>3, <1>6, <1>7, <3>2, <3>3, <4>1
    <3>5. CASE i # 1
      <4>1. i - 1 \in 1 .. Len(S) /\ (i - 1) + 1 = i /\ i - 1 < k - 1
        BY <1>3, <2>3, <3>5
      <4>2. S'[i] = S[i - 1] /\ S[i - 1] \in Function /\ OnStack(S[i - 1])
        BY <1>1, <4>1, SearchTypes DEF OnStack, Contains
      <4>3. indexMap'[S'[i]] = indexMap[S[i - 1]]
        BY <1>4, <1>7, <4>2
      <4>4. indexMap[S[i - 1]] > indexMap[S[k - 1]]
        BY <3>1, <4>1 DEF SearchInv, NumbersInv
      <4> QED
        BY <3>3, <4>3, <4>4
    <3> QED
      BY <3>4, <3>5
  <2>4. ASSUME NEW f \in Function, f < root'
        PROVE  Indexed(f)'
    <3>1. f < root => Indexed(f)
      BY DEF SearchInv, NumbersInv
    <3>2. f < root \/ f = v
      BY <1>3, <2>4
    <3> QED
      BY <1>5, <3>1, <3>2
  <2>5. \A i, k \in 1 .. Len(S') : i < k => indexMap'[S'[i]] > indexMap'[S'[k]]
    BY <1>1, <2>3
  <2> QED
    BY <2>1, <2>2, <2>4, <2>5 DEF NumbersInv
<1>11. LinksInv'
  <2>1. ASSUME NEW f \in Function, NEW g \in Function, OnStack(f)', OnStack(g)',
               indexMap'[f] < indexMap'[g]
        PROVE  <<f, g>> \in m
    <3>1. f # v
      BY <1>1, <1>3, <1>4, <1>6, <1>7, <2>1
    <3>2. OnStack(f)
      BY <1>1, <2>1, <3>1
    <3>3. CASE g = v
      BY <1>8, <3>2, <3>3
    <3>4. CASE g # v
      BY <1>1, <1>4, <2>1, <3>1, <3>4 DEF SearchInv, LinksInv
    <3> QED
      BY <3>3, <3>4
  <2>2. ASSUME NEW f \in Function, OnStack(f)'
        PROVE  /\ lowlinkMap'[f] \in Nat /\ lowlinkMap'[f] <= indexMap'[f]
               /\ \E u \in Function : OnStack(u)' /\ indexMap'[u] = lowlinkMap'[f] /\ Same(f, u)
    <3>1. CASE f = v
      <4>1. lowlinkMap'[f] = index /\ indexMap'[f] = index /\ Same(f, f)
        BY <1>4, <3>1 DEF Same
      <4> QED
        BY <1>3, <2>2, <4>1
    <3>2. CASE f # v
      <4>1. OnStack(f) /\ lowlinkMap'[f] = lowlinkMap[f] /\ indexMap'[f] = indexMap[f]
        BY <1>1, <1>4, <2>2, <3>2
      <4>2. PICK u \in Function : OnStack(u) /\ indexMap[u] = lowlinkMap[f] /\ Same(f, u)
        BY <4>1 DEF SearchInv, LinksInv
      <4>3. OnStack(u)' /\ indexMap'[u] = indexMap[u]
        BY <1>1, <1>4, <1>7, <4>2
      <4>4. lowlinkMap[f] \in Nat /\ lowlinkMap[f] <= indexMap[f]
        BY <4>1 DEF SearchInv, LinksInv
      <4> QED
        BY <4>1, <4>2, <4>3, <4>4
    <3> QED
      BY <3>1, <3>2
  <2> QED
    BY <2>1, <2>2 DEF LinksInv, Same
<1>12. FramesInv'
  <2>1. ASSUME NEW i \in 1 .. n + 1
        PROVE  OnStack(frames[i].v)'
    <3>1. i \in 1 .. n \/ i = n + 1
      BY <1>3
    <3>2. frames'[i].v \in Function /\ (frames'[i].v = v \/ OnStack(frames'[i].v))
      BY <1>2, <1>9, <3>1
    <3> QED
      BY <1>1, <3>2 DEF OnStack
  <2>2. ASSUME NEW i \in 1 .. n + 1, NEW k \in 1 .. n + 1, i < k
        PROVE  indexMap'[frames'[i].v] < indexMap'[frames'[k].v]
    <3>1. i \in 1 .. n /\ frames'[i].v = frames[i].v
      BY <1>2, <1>3, <2>2
    <3>2. indexMap'[frames'[i].v] = indexMap[frames[i].v]
      BY <1>4, <1>9, <3>1
    <3>3. CASE k = n + 1
      <4>1. indexMap'[frames'[k].v] = index
        BY <1>2, <1>4, <3>3
      <4> QED
        BY <1>6, <1>7, <1>9, <3>1, <3>2, <4>1
    <3>4. CASE k # n + 1
      <4>1. k \in 1 .. n
        BY <1>3, <3>4
      <4>2. indexMap'[frames'[k].v] = indexMap[frames[k].v]
        BY <1>2, <1>4, <1>9, <4>1
      <4>3. indexMap[frames[i].v] < indexMap[frames[k].v]
        BY <2>2, <3>1, <4>1 DEF SearchInv, FramesInv, n
      <4> QED
        BY <3>2, <4>2, <4>3
    <3> QED
      BY <3>3, <3>4
  <2>3. ASSUME NEW i \in 1 .. n
        PROVE  frames'[i].vv = frames'[i + 1].v
    <3>1. CASE i = n
      <4>1. frames # <<>> /\ Top = frames[n]
        <5>1. frames # <<>>
          BY <1>3, <3>1, EmptySeq DEF n
        <5> QED
          BY <5>1, TopFrame DEF n
      <4> QED
        BY <1>2, <3>1, <4>1
    <3>2. CASE i # n
      <4>1. i \in 1 .. n - 1 /\ i + 1 \in 1 .. n
        BY <1>3, <3>2
      <4>2. frames[i].vv = frames[i + 1].v
        BY <4>1 DEF SearchInv, FramesInv, n
      <4> QED
        BY <1>2, <4>1, <4>2
    <3> QED
      BY <3>1, <3>2
  <2>4. ASSUME NEW i \in 1 .. n + 1, NEW f \in Function, f < frames'[i].vv,
               <<frames'[i].v, f>> \in m
        PROVE  Indexed(f)' /\ (OnStack(f)' => lowlinkMap'[frames'[i].v] <= indexMap'[f])
    <3>1. i # n + 1
      BY <1>2, <1>3, <2>4
    <3>2. i \in 1 .. n
      BY <1>3, <3>1
    <3>3. Indexed(f) /\ (OnStack(f) => lowlinkMap[frames[i].v] <= indexMap[f])
      BY <1>2, <2>4, <3>2 DEF SearchInv, FramesInv, n
    <3>4. f # v
      BY <3>3
    <3> QED
      BY <1>1, <1>2, <1>4, <1>5, <1>9, <3>2, <3>3, <3>4
  <2>5. Len(frames') = n + 1 /\ Len(frames') - 1 = n
    BY <1>2, <1>3
  <2> QED
    BY <2>1, <2>2, <2>3, <2>4, <2>5 DEF FramesInv
<1>13. ReturnsInv'
  <2> SUFFICES ASSUME NEW f \in Function, OnStack(f)'
               PROVE  \E i \in 1 .. n + 1 :
                        indexMap'[frames'[i].v] <= indexMap'[f] /\ Same(f, frames'[i].v)
    BY <1>2 DEF ReturnsInv, Same
  <2>1. CASE f = v
    <3>1. n + 1 \in 1 .. n + 1 /\ frames'[n + 1].v = f /\ Same(f, f)
      BY <1>2, <1>3, <2>1 DEF Same
    <3>2. indexMap'[f] <= indexMap'[f]
      BY <1>3, <1>4, <2>1
    <3> QED
      BY <3>1, <3>2
  <2>2. CASE f # v
    <3>1. OnStack(f) /\ indexMap'[f] = indexMap[f]
      BY <1>1, <1>4, <2>2
    <3>2. PICK i \in 1 .. n : indexMap[frames[i].v] <= indexMap[f] /\ Same(f, frames[i].v)
      BY <3>1 DEF SearchInv, ReturnsInv, n
    <3>3. i \in 1 .. n + 1 /\ indexMap'[frames'[i].v] = indexMap[frames[i].v]
      BY <1>2, <1>3, <1>4, <1>9
    <3> QED
      BY <1>2, <3>1, <3>2, <3>3
  <2> QED
    BY <2>1, <2>2
<1>14. EmittedInv'
  <2>1. \A f \in Function : Emitted(f)' <=> Emitted(f)
    BY <1>4 DEF Emitted
  <2>2. \A f \in Function : Indexed(f) <=> OnStack(f) \/ Emitted(f)
    BY DEF SearchInv, EmittedInv
  <2>3. \A f \in Function : ~(OnStack(f) /\ Emitted(f))
    BY DEF SearchInv, EmittedInv
  <2>4. \A f \in Function : Indexed(f)' <=> OnStack(f)' \/ Emitted(f)'
    BY <1>1, <1>5, <2>1, <2>2
  <2>5. \A f \in Function : ~(OnStack(f)' /\ Emitted(f)')
    BY <1>1, <2>1, <2>2, <2>3
  <2> QED
    BY <1>4, <2>4, <2>5 DEF SearchInv, EmittedInv
<1> QED
  BY <1>10, <1>11, <1>12, <1>13, <1>14 DEF SearchInv

(* The smaller of two numbers.                                              *)
LEMMA MinOf ==
  ASSUME NEW a \in Nat, NEW b \in Nat
  PROVE  Min({a, b}) = IF a <= b THEN a ELSE b
<1>1. \E z \in {a, b} : \A w \in {a, b} : z =< w
  OBVIOUS
<1>2. Min({a, b}) \in {a, b} /\ \A w \in {a, b} : Min({a, b}) =< w
  BY <1>1 DEF Min
<1> QED
  BY <1>2

(* A link that is lowered to that of a function on the stack that is reached *)
(* is still the number of a function on the stack that is reached.          *)
LEMMA LowerLink ==
  ASSUME NumbersInv, LinksInv, EmittedInv, Transitive,
         NEW t \in Function, NEW w \in Function, OnStack(t), OnStack(w), <<t, w>> \in m
  PROVE  LET l == Min({lowlinkMap[t], lowlinkMap[w]})
         IN  /\ l \in Nat /\ l <= lowlinkMap[t] /\ l <= indexMap[t] /\ l <= indexMap[w]
             /\ \E u \in Function : OnStack(u) /\ indexMap[u] = l /\ Same(t, u)
<1> DEFINE a == lowlinkMap[t]
           b == lowlinkMap[w]
<1>1. a \in Nat /\ b \in Nat /\ a <= indexMap[t] /\ b <= indexMap[w]
      /\ indexMap[t] \in Nat /\ indexMap[w] \in Nat
  BY StackNumbers
<1>2. PICK u \in Function : OnStack(u) /\ indexMap[u] = a /\ Same(t, u)
  BY DEF LinksInv
<1>3. PICK z \in Function : OnStack(z) /\ indexMap[z] = b /\ Same(w, z)
  BY DEF LinksInv
<1>4. Same(t, z)
  BY <1>3, SameTransitive DEF Same
<1>5. Min({a, b}) = IF a <= b THEN a ELSE b
  BY <1>1, MinOf
<1> HIDE DEF a, b
<1>6. Min({a, b}) \in Nat /\ Min({a, b}) <= a /\ Min({a, b}) <= b
  BY <1>1, <1>5
<1>7. \E q \in Function : OnStack(q) /\ indexMap[q] = Min({a, b}) /\ Same(t, q)
  BY <1>2, <1>3, <1>4, <1>5
<1>8. Min({a, b}) <= indexMap[t] /\ Min({a, b}) <= indexMap[w]
  BY <1>1, <1>6
<1> QED
  BY <1>6, <1>7, <1>8 DEF a, b

(* Going on in the innermost loop, with the link of its function lowered to  *)
(* the number of a function it reaches, or left alone.                      *)
LEMMA LoopKeeps ==
  ASSUME TarjanTypeOK, SearchInv, m' = m, InLoop, frames' = Advance(frames),
         UNCHANGED <<indexMap, index, S, root, SCCs>>,
         \A f \in Function : f # Top.v => lowlinkMap'[f] = lowlinkMap[f],
         lowlinkMap'[Top.v] \in Nat, lowlinkMap'[Top.v] <= lowlinkMap[Top.v],
         \E u \in Function : OnStack(u) /\ indexMap[u] = lowlinkMap'[Top.v] /\ Same(Top.v, u),
         <<Top.v, Top.vv>> \in m =>
           Indexed(Top.vv) /\ (OnStack(Top.vv) => lowlinkMap'[Top.v] <= indexMap[Top.vv])
  PROVE  SearchInv'
<1> DEFINE n == Len(frames)
<1>1. /\ n \in 1 .. n /\ Len(frames') = n
      /\ \A i \in 1 .. n : frames'[i].v = frames[i].v
      /\ \A i \in 1 .. n : frames'[i].vv = IF i = n THEN frames[i].vv + 1 ELSE frames[i].vv
  BY LoopEffect
<1>2. Top = frames[n] /\ n \in Nat /\ Function \subseteq Nat
      /\ \A i \in 1 .. n : frames[i].vv \in Nat
  BY TopFrame, SearchTypes DEF InLoop
<1>3. /\ \A i \in 1 .. n : frames[i].v \in Function /\ OnStack(frames[i].v)
      /\ \A i \in 1 .. n : i # n => frames[i].v # Top.v
  BY <1>1, <1>2, FrameNumbers
<1>4. \A f \in Function : OnStack(f)' = OnStack(f) /\ Indexed(f)' = Indexed(f)
                          /\ Emitted(f)' = Emitted(f)
  BY DEF OnStack, Indexed, Emitted
<1>5. \A f \in Function : OnStack(f) =>
        indexMap[f] \in Nat /\ lowlinkMap[f] \in Nat /\ lowlinkMap[f] <= indexMap[f]
  BY StackNumbers DEF SearchInv
<1> HIDE DEF n
<1>6. NumbersInv'
  BY <1>4 DEF SearchInv, NumbersInv
<1>7. LinksInv'
  <2>1. ASSUME NEW f \in Function, OnStack(f)
        PROVE  /\ lowlinkMap'[f] \in Nat /\ lowlinkMap'[f] <= indexMap[f]
               /\ \E u \in Function : OnStack(u) /\ indexMap[u] = lowlinkMap'[f] /\ Same(f, u)
    <3>1. CASE f = Top.v
      BY <1>5, <2>1, <3>1
    <3>2. CASE f # Top.v
      BY <2>1, <3>2 DEF SearchInv, LinksInv
    <3> QED
      BY <3>1, <3>2
  <2> QED
    BY <1>4, <2>1 DEF SearchInv, LinksInv, Same
<1>8. FramesInv'
  <2>1. \A i \in 1 .. n : OnStack(frames'[i].v)
    BY <1>1, <1>3
  <2>2. \A i, k \in 1 .. n : i < k => indexMap[frames'[i].v] < indexMap[frames'[k].v]
    BY <1>1 DEF SearchInv, FramesInv, n
  <2>3. ASSUME NEW i \in 1 .. n - 1
        PROVE  frames'[i].vv = frames'[i + 1].v
    <3>1. i \in 1 .. n /\ i # n /\ i + 1 \in 1 .. n
      BY <1>2
    <3>2. frames[i].vv = frames[i + 1].v
      BY DEF SearchInv, FramesInv, n
    <3> QED
      BY <1>1, <3>1, <3>2
  <2>4. ASSUME NEW i \in 1 .. n, NEW f \in Function,
               f < frames'[i].vv, <<frames'[i].v, f>> \in m
        PROVE  Indexed(f) /\ (OnStack(f) => lowlinkMap'[frames'[i].v] <= indexMap[f])
    <3>1. f < frames[i].vv =>
            Indexed(f) /\ (OnStack(f) => lowlinkMap[frames[i].v] <= indexMap[f])
      BY <1>1, <2>4 DEF SearchInv, FramesInv, n
    <3>2. CASE i # n
      BY <1>1, <1>3, <2>4, <3>1, <3>2
    <3>3. CASE i = n
      <4>1. f < Top.vv \/ f = Top.vv
        BY <1>1, <1>2, <2>4, <3>3
      <4>2. frames'[i].v = Top.v /\ OnStack(Top.v) /\ Top.v \in Function
        BY <1>1, <1>2, <1>3, <3>3
      <4>3. CASE f = Top.vv
        BY <2>4, <4>2, <4>3
      <4>4. CASE f < Top.vv
        <5>1. Indexed(f) /\ (OnStack(f) => lowlinkMap[Top.v] <= indexMap[f])
          BY <1>2, <3>1, <3>3, <4>4
        <5> QED
          BY <1>5, <4>2, <5>1
      <4> QED
        BY <4>1, <4>3, <4>4
    <3> QED
      BY <3>2, <3>3
  <2> QED
    BY <1>1, <1>4, <2>1, <2>2, <2>3, <2>4 DEF FramesInv, OnStack
<1>9. ReturnsInv'
  <2> SUFFICES ASSUME NEW f \in Function, OnStack(f)
               PROVE  \E i \in 1 .. n :
                        indexMap'[frames'[i].v] <= indexMap'[f] /\ Same(f, frames'[i].v)
    BY <1>1, <1>4 DEF ReturnsInv, Same
  <2>1. PICK i \in 1 .. n : indexMap[frames[i].v] <= indexMap[f] /\ Same(f, frames[i].v)
    BY DEF SearchInv, ReturnsInv, n
  <2>2. frames'[i].v = frames[i].v /\ indexMap' = indexMap
    BY <1>1
  <2> QED
    BY <2>1, <2>2
<1>10. EmittedInv'
  BY <1>4 DEF SearchInv, EmittedInv
<1> QED
  BY <1>6, <1>7, <1>8, <1>9, <1>10 DEF SearchInv

(* A function that is called and has a number.                              *)
LEMMA RevisitKeeps ==
  ASSUME TarjanTypeOK, SearchInv, Transitive, m' = m, Revisit
  PROVE  SearchInv'
<1>1. frames # <<>> /\ Top.vv < N /\ <<Top.v, Top.vv>> \in m /\ Indexed(Top.vv)
  BY DEF Revisit, InLoop
<1>2. /\ Top.v \in Function /\ OnStack(Top.v) /\ Top.vv \in Function
      /\ lowlinkMap \in [Function -> Numbers]
  <2>1. Len(frames) \in 1 .. Len(frames) /\ Top = frames[Len(frames)]
    BY <1>1, TopFrame
  <2>2. Top.vv \in 0 .. N
    BY <2>1, SearchTypes
  <2>3. Top.vv \in Function
    BY <1>1, <2>2, NAssumption DEF Function, Index
  <2>4. Top.v \in Function /\ OnStack(Top.v)
    BY <2>1, FrameNumbers
  <2> QED
    BY <2>3, <2>4 DEF TarjanTypeOK
<1>3. CASE OnStack(Top.vv)
  <2> DEFINE l == Min({lowlinkMap[Top.v], lowlinkMap[Top.vv]})
  <2>1. /\ l \in Nat /\ l <= lowlinkMap[Top.v] /\ l <= indexMap[Top.vv]
        /\ \E u \in Function : OnStack(u) /\ indexMap[u] = l /\ Same(Top.v, u)
    BY <1>1, <1>2, <1>3, LowerLink DEF SearchInv
  <2>2. lowlinkMap' = [lowlinkMap EXCEPT ![Top.v] = l]
    BY <1>3 DEF Revisit
  <2> HIDE DEF l
  <2>3. lowlinkMap'[Top.v] = l /\ \A f \in Function : f # Top.v => lowlinkMap'[f] = lowlinkMap[f]
    BY <1>2, <2>2
  <2> QED
    BY <1>1, <2>1, <2>3, LoopKeeps DEF Revisit
<1>4. CASE ~OnStack(Top.vv)
  <2>1. lowlinkMap' = lowlinkMap
    BY <1>4 DEF Revisit
  <2>2. /\ lowlinkMap[Top.v] \in Nat
        /\ \E u \in Function : OnStack(u) /\ indexMap[u] = lowlinkMap[Top.v] /\ Same(Top.v, u)
    BY <1>2 DEF SearchInv, LinksInv
  <2> QED
    BY <1>1, <1>4, <2>1, <2>2, LoopKeeps DEF Revisit
<1> QED
  BY <1>3, <1>4

(* A function that is not called.                                           *)
LEMMA NotCalledKeeps ==
  ASSUME TarjanTypeOK, SearchInv, m' = m, NotCalled
  PROVE  SearchInv'
<1>1. InLoop /\ frames # <<>> /\ <<Top.v, Top.vv>> \notin m /\ lowlinkMap' = lowlinkMap
  BY DEF NotCalled, InLoop
<1>2. Top.v \in Function /\ OnStack(Top.v)
  BY <1>1, TopFrame, FrameNumbers
<1>3. /\ lowlinkMap[Top.v] \in Nat
      /\ \E u \in Function : OnStack(u) /\ indexMap[u] = lowlinkMap[Top.v] /\ Same(Top.v, u)
  BY <1>2 DEF SearchInv, LinksInv
<1> QED
  BY <1>1, <1>3, LoopKeeps DEF NotCalled

(* What the innermost call knows when its loop is over: it has been to every  *)
(* function it calls.                                                       *)
LEMMA LoopOver ==
  ASSUME TarjanTypeOK, SearchInv, Return
  PROVE  /\ Top.v \in Function /\ OnStack(Top.v) /\ Top.v = frames[Len(frames)].v
         /\ \A f \in Function : <<Top.v, f>> \in m =>
              Indexed(f) /\ (OnStack(f) => lowlinkMap[Top.v] <= indexMap[f])
<1>1. Len(frames) \in 1 .. Len(frames) /\ Top = frames[Len(frames)] /\ Top.vv = N
  BY TopFrame DEF Return
<1>2. \A f \in Function : f < N
  BY NAssumption DEF Function, Index
<1> QED
  BY <1>1, <1>2, FrameNumbers DEF SearchInv, FramesInv

(* The function that returns reaches one with a smaller number: it stays on   *)
(* the stack, and its caller takes its link over.                           *)
LEMMA ReturnBelowRoot ==
  ASSUME TarjanTypeOK, SearchInv, Transitive, m' = m, Return,
         lowlinkMap[Top.v] # indexMap[Top.v]
  PROVE  SearchInv'
<1> DEFINE n == Len(frames)
           t == Top.v
           c == frames[n - 1].v
<1>1. /\ n \in 1 .. n /\ Len(frames') = n - 1
      /\ \A i \in 1 .. n - 1 : frames'[i].v = frames[i].v
      /\ \A i \in 1 .. n - 1 :
           frames'[i].vv = IF i = n - 1 THEN frames[i].vv + 1 ELSE frames[i].vv
      /\ ReturnToCaller => Last(Front(frames)).v = c
  BY ReturnEffect
<1>2. /\ t \in Function /\ OnStack(t) /\ t = frames[n].v
      /\ \A f \in Function : <<t, f>> \in m =>
           Indexed(f) /\ (OnStack(f) => lowlinkMap[t] <= indexMap[f])
  BY LoopOver
<1>3. n \in Nat /\ Function \subseteq Nat /\ \A i \in 1 .. n : frames[i].vv \in Nat
  BY SearchTypes
<1>4. /\ \A i \in 1 .. n : frames[i].v \in Function /\ OnStack(frames[i].v)
                           /\ indexMap[frames[i].v] \in Nat
      /\ \A i, k \in 1 .. n : frames[i].v = frames[k].v => i = k
  BY FrameNumbers
<1>5. \A f \in Function : OnStack(f) =>
        indexMap[f] \in Nat /\ lowlinkMap[f] \in Nat /\ lowlinkMap[f] <= indexMap[f]
  BY StackNumbers DEF SearchInv
<1>6. SCCs' = SCCs /\ S' = S /\ indexMap' = indexMap /\ index' = index /\ root' = root
  BY DEF Return, PopComponent
<1> HIDE DEF n, t, c
<1>7. PICK u \in Function : OnStack(u) /\ indexMap[u] = lowlinkMap[t] /\ Same(t, u)
  BY <1>2 DEF SearchInv, LinksInv
<1>8. indexMap[u] < indexMap[t] /\ indexMap[t] \in Nat /\ lowlinkMap[t] \in Nat
      /\ lowlinkMap[t] <= indexMap[t]
  BY <1>2, <1>5, <1>7 DEF t
<1>9. PICK k \in 1 .. n : indexMap[frames[k].v] <= indexMap[u] /\ Same(u, frames[k].v)
  BY <1>7 DEF SearchInv, ReturnsInv, n
<1>10. k # n /\ indexMap[frames[k].v] < indexMap[t]
  BY <1>2, <1>4, <1>5, <1>7, <1>8, <1>9
<1>11. n > 1 /\ n - 1 \in 1 .. n /\ n - 1 # n
  BY <1>3, <1>10
<1>12. ReturnToCaller
  BY <1>3, <1>11 DEF Return, ReturnToRoot, n
<1>13. c \in Function /\ OnStack(c) /\ c # t /\ indexMap[c] < indexMap[t] /\ <<c, t>> \in m
  <2>1. c \in Function /\ OnStack(c) /\ c # t
    BY <1>1, <1>2, <1>4, <1>11 DEF c
  <2>2. indexMap[c] < indexMap[t]
    BY <1>1, <1>2, <1>3, <1>11 DEF SearchInv, FramesInv, c, n
  <2> QED
    BY <1>2, <2>1, <2>2 DEF SearchInv, LinksInv
<1> DEFINE l == Min({lowlinkMap[c], lowlinkMap[t]})
<1>14. /\ l \in Nat /\ l <= lowlinkMap[c] /\ l <= indexMap[c] /\ l <= indexMap[t]
       /\ \E z \in Function : OnStack(z) /\ indexMap[z] = l /\ Same(c, z)
  BY <1>2, <1>13, LowerLink DEF SearchInv
<1>15. lowlinkMap' = [lowlinkMap EXCEPT ![c] = l]
  BY <1>1, <1>12 DEF ReturnToCaller, t
<1> HIDE DEF l
<1>16. lowlinkMap'[c] = l /\ \A f \in Function : f # c => lowlinkMap'[f] = lowlinkMap[f]
  BY <1>13, <1>15 DEF TarjanTypeOK
<1>17. \A f \in Function : OnStack(f)' = OnStack(f) /\ Indexed(f)' = Indexed(f)
                           /\ Emitted(f)' = Emitted(f)
  BY <1>6 DEF OnStack, Indexed, Emitted
<1>18. NumbersInv'
  BY <1>6, <1>17 DEF SearchInv, NumbersInv
<1>19. LinksInv'
  <2>1. ASSUME NEW f \in Function, OnStack(f)
        PROVE  /\ lowlinkMap'[f] \in Nat /\ lowlinkMap'[f] <= indexMap[f]
               /\ \E z \in Function : OnStack(z) /\ indexMap[z] = lowlinkMap'[f] /\ Same(f, z)
    <3>1. CASE f = c
      BY <1>14, <1>16, <3>1
    <3>2. CASE f # c
      BY <1>16, <2>1, <3>2 DEF SearchInv, LinksInv
    <3> QED
      BY <3>1, <3>2
  <2> QED
    BY <1>6, <1>17, <2>1 DEF SearchInv, LinksInv, Same
<1>20. FramesInv'
  <2>1. \A i \in 1 .. n - 1 : OnStack(frames'[i].v)
    BY <1>1, <1>3, <1>4
  <2>2. ASSUME NEW i \in 1 .. n - 1, NEW j \in 1 .. n - 1, i < j
        PROVE  indexMap[frames'[i].v] < indexMap[frames'[j].v]
    <3>1. i \in 1 .. n /\ j \in 1 .. n
      BY <1>3
    <3> QED
      BY <1>1, <2>2, <3>1 DEF SearchInv, FramesInv, n
  <2>3. ASSUME NEW i \in 1 .. (n - 1) - 1
        PROVE  frames'[i].vv = frames'[i + 1].v
    <3>1. i \in 1 .. n - 1 /\ i # n - 1 /\ i + 1 \in 1 .. n - 1
      BY <1>3
    <3>2. frames[i].vv = frames[i + 1].v
      BY <3>1 DEF SearchInv, FramesInv, n
    <3> QED
      BY <1>1, <3>1, <3>2
  <2>4. ASSUME NEW i \in 1 .. n - 1, NEW f \in Function,
               f < frames'[i].vv, <<frames'[i].v, f>> \in m
        PROVE  Indexed(f) /\ (OnStack(f) => lowlinkMap'[frames'[i].v] <= indexMap[f])
    <3>1. i \in 1 .. n /\ frames'[i].v = frames[i].v
      BY <1>1, <1>3
    <3>2. f < frames[i].vv =>
            Indexed(f) /\ (OnStack(f) => lowlinkMap[frames[i].v] <= indexMap[f])
      BY <2>4, <3>1 DEF SearchInv, FramesInv, n
    <3>3. CASE i # n - 1
      <4>1. frames[i].v # c /\ frames[i].v \in Function
        BY <1>4, <1>11, <3>1, <3>3 DEF c
      <4> QED
        BY <1>1, <1>16, <2>4, <3>1, <3>2, <3>3, <4>1
    <3>4. CASE i = n - 1
      <4>1. frames[i].vv = t
        BY <1>2, <1>3, <3>4 DEF SearchInv, FramesInv, n
      <4>2. f < t \/ f = t
        <5>1. frames'[i].vv = t + 1
          BY <1>1, <1>3, <3>4, <4>1
        <5>2. f \in Nat /\ t \in Nat
          BY <1>2 DEF Function, Index
        <5> QED
          BY <2>4, <5>1, <5>2
      <4>3. frames'[i].v = c /\ lowlinkMap'[c] = l
        BY <1>16, <3>1, <3>4 DEF c
      <4>4. CASE f = t
        BY <1>2, <1>14, <4>3, <4>4, StackNumbers DEF SearchInv
      <4>5. CASE f < t
        <5>1. Indexed(f) /\ (OnStack(f) => lowlinkMap[c] <= indexMap[f])
          BY <3>1, <3>2, <3>4, <4>1, <4>5 DEF c
        <5> QED
          BY <1>5, <1>13, <1>14, <4>3, <5>1
      <4> QED
        BY <4>2, <4>4, <4>5
    <3> QED
      BY <3>3, <3>4
  <2> QED
    BY <1>1, <1>6, <1>17, <2>1, <2>2, <2>3, <2>4 DEF FramesInv, OnStack
<1>21. ReturnsInv'
  <2>1. ASSUME NEW f \in Function, OnStack(f)
        PROVE  \E i \in 1 .. n - 1 :
                 indexMap[frames'[i].v] <= indexMap[f] /\ Same(f, frames'[i].v)
    <3>1. PICK i \in 1 .. n : indexMap[frames[i].v] <= indexMap[f] /\ Same(f, frames[i].v)
      BY <2>1 DEF SearchInv, ReturnsInv, n
    <3>2. CASE i # n
      <4>1. i \in 1 .. n - 1
        BY <1>3, <3>2
      <4> QED
        BY <1>1, <3>1, <4>1
    <3>3. CASE i = n
      <4>1. k \in 1 .. n - 1
        BY <1>3, <1>10
      <4>2. Same(f, u) /\ frames[k].v \in Function
        BY <1>2, <1>4, <1>7, <3>1, <3>3, SameTransitive
      <4>3. Same(f, frames[k].v)
        BY <1>9, <4>2, SameTransitive
      <4>4. indexMap[frames[k].v] <= indexMap[f]
        BY <1>2, <1>4, <1>5, <1>8, <1>10, <2>1, <3>1, <3>3
      <4> QED
        BY <1>1, <4>1, <4>3, <4>4
    <3> QED
      BY <3>2, <3>3
  <2> QED
    BY <1>1, <1>6, <1>17, <2>1 DEF ReturnsInv, Same
<1>22. EmittedInv'
  BY <1>6, <1>17 DEF SearchInv, EmittedInv
<1> QED
  BY <1>18, <1>19, <1>20, <1>21, <1>22 DEF SearchInv

(* The function that returns is the root of its class: what is popped is the  *)
(* whole class, and all it calls has come out before.                       *)
LEMMA ReturnAtRoot ==
  ASSUME TarjanTypeOK, SearchInv, Transitive, m' = m, Return,
         lowlinkMap[Top.v] = indexMap[Top.v]
  PROVE  SearchInv'
<1> DEFINE n == Len(frames)
           t == Top.v
           c == frames[n - 1].v
           P == Component(t)
           e == Len(SCCs)
<1>1. /\ n \in 1 .. n /\ Len(frames') = n - 1
      /\ \A i \in 1 .. n - 1 : frames'[i].v = frames[i].v
      /\ \A i \in 1 .. n - 1 :
           frames'[i].vv = IF i = n - 1 THEN frames[i].vv + 1 ELSE frames[i].vv
      /\ ReturnToCaller => Last(Front(frames)).v = c
  BY ReturnEffect
<1>2. /\ t \in Function /\ OnStack(t) /\ t = frames[n].v
      /\ \A f \in Function : <<t, f>> \in m =>
           Indexed(f) /\ (OnStack(f) => indexMap[t] <= indexMap[f])
  BY LoopOver
<1>3. n \in Nat /\ e \in Nat /\ Function \subseteq Nat /\ \A i \in 1 .. n : frames[i].vv \in Nat
  BY SearchTypes
<1>4. \A i \in 1 .. n : frames[i].v \in Function /\ OnStack(frames[i].v)
                        /\ indexMap[frames[i].v] \in Nat
  BY FrameNumbers
<1>5. \A f \in Function : OnStack(f) =>
        /\ Indexed(f) /\ indexMap[f] \in Nat /\ lowlinkMap[f] \in Nat
        /\ lowlinkMap[f] <= indexMap[f]
  BY StackNumbers DEF SearchInv
<1>6. indexMap' = indexMap /\ index' = index /\ root' = root /\ frames # <<>>
  BY DEF Return
<1>7. /\ SCCs' = Append(SCCs, P)
      /\ S' = SubSeq(S, PositionOf(t) + 1, Len(S))
  BY DEF Return, PopComponent
<1>8. /\ Len(S') = Len(S) - PositionOf(t)
      /\ \A i \in 1 .. Len(S) - PositionOf(t) : S'[i] = S[PositionOf(t) + i]
  BY <1>2, <1>7, PositionOnStack, CutStack DEF TarjanTypeOK
<1>9. /\ \A f \in Function : OnStack(f)' <=> OnStack(f) /\ indexMap[f] < indexMap[t]
      /\ \A i, k \in 1 .. Len(S') : i < k => indexMap[S'[i]] > indexMap[S'[k]]
      /\ \A f \in Function : f \in ToSet(P) <=> OnStack(f) /\ indexMap[f] >= indexMap[t]
      /\ \A i, k \in 1 .. Len(P) : P[i] = P[k] => i = k
  BY <1>2, <1>5, <1>8, PopEffect DEF SearchInv
<1>10. /\ Len(SCCs') = e + 1 /\ SCCs'[e + 1] = P
       /\ \A i \in 1 .. e : SCCs'[i] = SCCs[i]
  <2>1. SCCs \in Seq(Seq(Function))
    BY DEF TarjanTypeOK
  <2>2. P \in Seq(Function)
    BY <1>2, PositionOnStack, CutStack DEF TarjanTypeOK, Component
  <2> QED
    BY <1>7, <2>1, <2>2, AppendProperties
<1> HIDE DEF n, t, c, P, e
<1>11. \A f \in Function : Indexed(f)' = Indexed(f)
  BY <1>6 DEF Indexed
<1>12. indexMap[t] \in Nat
  BY <1>2, <1>5
<1>13. lowlinkMap' = lowlinkMap
  <2>1. CASE ReturnToRoot
    BY <2>1 DEF ReturnToRoot
  <2>2. CASE ReturnToCaller
    <3>1. n > 1 /\ n - 1 \in 1 .. n /\ n - 1 < n
      BY <1>3, <2>2 DEF ReturnToCaller, n
    <3>2. c \in Function /\ OnStack(c)
      BY <1>4, <3>1 DEF c
    <3>3. indexMap[c] < indexMap[t]
      BY <1>1, <1>2, <3>1 DEF SearchInv, FramesInv, n, c
    <3>4. lowlinkMap[c] \in Nat /\ lowlinkMap[c] <= lowlinkMap[t] /\ lowlinkMap[t] \in Nat
      BY <1>2, <1>5, <1>12, <3>2, <3>3 DEF t
    <3>5. Min({lowlinkMap[c], lowlinkMap[t]}) = lowlinkMap[c]
      BY <3>4, MinOf
    <3>6. lowlinkMap' = [lowlinkMap EXCEPT ![c] = Min({lowlinkMap[c], lowlinkMap[t]})]
      BY <1>1, <2>2 DEF ReturnToCaller, t
    <3> QED
      BY <3>2, <3>5, <3>6 DEF TarjanTypeOK
  <2> QED
    BY <2>1, <2>2 DEF Return
<1>14. \A i \in 1 .. n - 1 :
         /\ frames[i].v \in Function /\ OnStack(frames[i].v)
         /\ indexMap[frames[i].v] < indexMap[t]
  <2> SUFFICES ASSUME NEW i \in 1 .. n - 1
               PROVE  /\ frames[i].v \in Function /\ OnStack(frames[i].v)
                      /\ indexMap[frames[i].v] < indexMap[t]
    OBVIOUS
  <2>1. i \in 1 .. n /\ i < n
    BY <1>3
  <2> QED
    BY <1>1, <1>2, <1>4, <2>1 DEF SearchInv, FramesInv, n
<1>15. NumbersInv'
  BY <1>6, <1>9, <1>11 DEF SearchInv, NumbersInv
<1>16. LinksInv'
  <2>1. ASSUME NEW f \in Function, OnStack(f), indexMap[f] < indexMap[t]
        PROVE  /\ lowlinkMap[f] \in Nat /\ lowlinkMap[f] <= indexMap[f]
               /\ \E u \in Function : OnStack(u) /\ indexMap[u] < indexMap[t]
                                      /\ indexMap[u] = lowlinkMap[f] /\ Same(f, u)
    <3>1. PICK u \in Function : OnStack(u) /\ indexMap[u] = lowlinkMap[f] /\ Same(f, u)
      BY <2>1 DEF SearchInv, LinksInv
    <3>2. indexMap[u] < indexMap[t]
      BY <1>5, <1>12, <2>1, <3>1
    <3> QED
      BY <1>5, <2>1, <3>1, <3>2
  <2> QED
    BY <1>6, <1>9, <1>13, <2>1 DEF SearchInv, LinksInv, Same
<1>17. FramesInv'
  <2>1. \A i \in 1 .. n - 1 : frames'[i].v \in Function /\ OnStack(frames'[i].v)
                               /\ indexMap[frames'[i].v] < indexMap[t]
    BY <1>1, <1>14
  <2>2. ASSUME NEW i \in 1 .. n - 1, NEW j \in 1 .. n - 1, i < j
        PROVE  indexMap[frames'[i].v] < indexMap[frames'[j].v]
    <3>1. i \in 1 .. n /\ j \in 1 .. n
      BY <1>3
    <3> QED
      BY <1>1, <2>2, <3>1 DEF SearchInv, FramesInv, n
  <2>3. ASSUME NEW i \in 1 .. (n - 1) - 1
        PROVE  frames'[i].vv = frames'[i + 1].v
    <3>1. i \in 1 .. n - 1 /\ i # n - 1 /\ i + 1 \in 1 .. n - 1
      BY <1>3
    <3>2. frames[i].vv = frames[i + 1].v
      BY <3>1 DEF SearchInv, FramesInv, n
    <3> QED
      BY <1>1, <3>1, <3>2
  <2>4. ASSUME NEW i \in 1 .. n - 1, NEW f \in Function,
               f < frames'[i].vv, <<frames'[i].v, f>> \in m
        PROVE  /\ Indexed(f)
               /\ OnStack(f) /\ indexMap[f] < indexMap[t]
                    => lowlinkMap[frames'[i].v] <= indexMap[f]
    <3>1. i \in 1 .. n /\ frames'[i].v = frames[i].v
      BY <1>1, <1>3
    <3>2. f < frames[i].vv =>
            Indexed(f) /\ (OnStack(f) => lowlinkMap[frames[i].v] <= indexMap[f])
      BY <2>4, <3>1 DEF SearchInv, FramesInv, n
    <3>3. CASE i # n - 1
      BY <1>1, <2>4, <3>1, <3>2, <3>3
    <3>4. CASE i = n - 1
      <4>1. frames[i].vv = t
        BY <1>2, <1>3, <3>4 DEF SearchInv, FramesInv, n
      <4>2. f < t \/ f = t
        BY <1>1, <1>2, <1>3, <2>4, <3>4, <4>1
      <4>3. CASE f = t
        BY <1>2, <1>5, <1>12, <4>3
      <4>4. CASE f < t
        BY <3>1, <3>2, <4>1, <4>4
      <4> QED
        BY <4>2, <4>3, <4>4
    <3> QED
      BY <3>3, <3>4
  <2>5. \A i \in 1 .. n - 1 : Contains(S', frames'[i].v)
    BY <1>9, <2>1 DEF OnStack
  <2> QED
    BY <1>1, <1>6, <1>9, <1>11, <1>13, <2>2, <2>3, <2>4, <2>5 DEF FramesInv, OnStack
<1>18. ReturnsInv'
  <2>1. ASSUME NEW f \in Function, OnStack(f), indexMap[f] < indexMap[t]
        PROVE  \E i \in 1 .. n - 1 :
                 indexMap[frames'[i].v] <= indexMap[f] /\ Same(f, frames'[i].v)
    <3>1. PICK i \in 1 .. n : indexMap[frames[i].v] <= indexMap[f] /\ Same(f, frames[i].v)
      BY <2>1 DEF SearchInv, ReturnsInv, n
    <3>2. i # n
      BY <1>2, <1>4, <1>5, <2>1, <3>1
    <3>3. i \in 1 .. n - 1
      BY <1>3, <3>2
    <3> QED
      BY <1>1, <3>1, <3>3
  <2> QED
    BY <1>1, <1>6, <1>9, <2>1 DEF ReturnsInv, Same
<1>19. \A f \in Function : Indexed(f) <=> OnStack(f) \/ Emitted(f)
  BY DEF SearchInv, EmittedInv
<1>20. \A f \in Function : ~(OnStack(f) /\ Emitted(f))
  BY DEF SearchInv, EmittedInv
<1>21. \A i \in 1 .. e : \A f, g \in Function :
         f \in ToSet(SCCs[i]) /\ <<f, g>> \in m => \E k \in 1 .. i : g \in ToSet(SCCs[k])
  BY DEF SearchInv, EmittedInv, e
<1>22. \A g \in Function : g \in ToSet(P) <=> g = t \/ (<<t, g>> \in m /\ <<g, t>> \in m)
  <2> SUFFICES ASSUME NEW g \in Function
               PROVE  g \in ToSet(P) <=> g = t \/ (<<t, g>> \in m /\ <<g, t>> \in m)
    OBVIOUS
  <2>1. ASSUME OnStack(g), indexMap[g] >= indexMap[t]
        PROVE  Same(t, g) /\ Same(g, t)
    <3>1. Same(t, g)
      <4>1. indexMap[t] <= indexMap[g]
        BY <1>5, <1>12, <2>1
      <4> QED
        BY <1>2, <2>1, <4>1, BelowReaches DEF SearchInv
    <3>2. Same(g, t)
      BY <2>1, StackReachesTop DEF t
    <3> QED
      BY <3>1, <3>2
  <2>2. ASSUME <<t, g>> \in m, <<g, t>> \in m
        PROVE  OnStack(g) /\ indexMap[g] >= indexMap[t]
    <3>1. Indexed(g) /\ (OnStack(g) => indexMap[t] <= indexMap[g])
      BY <1>2, <2>2
    <3>2. ~Emitted(g)
      <4> SUFFICES ASSUME Emitted(g) PROVE FALSE
        OBVIOUS
      <4>1. PICK i \in 1 .. e : g \in ToSet(SCCs[i])
        BY DEF Emitted, e
      <4>2. PICK k \in 1 .. i : t \in ToSet(SCCs[k])
        BY <1>2, <1>21, <2>2, <4>1
      <4>3. Emitted(t)
        <5>1. k \in 1 .. e
          BY <1>3
        <5> QED
          BY <4>2, <5>1 DEF Emitted, e
      <4> QED
        BY <1>2, <1>20, <4>3
    <3> QED
      BY <1>5, <1>12, <1>19, <3>1, <3>2
  <2> QED
    BY <1>2, <1>9, <1>12, <2>1, <2>2 DEF Same
<1>23. \A f, g \in Function :
         f \in ToSet(P) /\ <<f, g>> \in m => g \in ToSet(P) \/ Emitted(g)
  <2> SUFFICES ASSUME NEW f \in Function, NEW g \in Function, f \in ToSet(P), <<f, g>> \in m
               PROVE  g \in ToSet(P) \/ Emitted(g)
    OBVIOUS
  <2>1. <<t, g>> \in m
    <3>1. Same(t, f) /\ Same(f, g)
      BY <1>22 DEF Same
    <3> QED
      BY <1>2, <3>1, SameTransitive
  <2>2. Indexed(g) /\ (OnStack(g) => indexMap[t] <= indexMap[g])
    BY <1>2, <2>1
  <2>3. OnStack(g) => g \in ToSet(P)
    BY <1>5, <1>9, <1>12, <2>2
  <2> QED
    BY <1>19, <2>2, <2>3
<1>24. EmittedInv'
  <2>1. ASSUME NEW f \in Function
        PROVE  Emitted(f)' <=> Emitted(f) \/ f \in ToSet(P)
    <3>1. Emitted(f) <=> \E i \in 1 .. e : f \in ToSet(SCCs[i])
      BY DEF Emitted, e
    <3>2. Emitted(f)' <=> \E i \in 1 .. e + 1 : f \in ToSet(SCCs'[i])
      BY <1>10 DEF Emitted
    <3>3. \A i \in 1 .. e : i \in 1 .. e + 1
      BY <1>3
    <3>4. \A i \in 1 .. e + 1 : i \in 1 .. e \/ i = e + 1
      BY <1>3
    <3>5. e + 1 \in 1 .. e + 1
      BY <1>3
    <3> QED
      BY <1>10, <3>1, <3>2, <3>3, <3>4, <3>5
  <2>2. \A i \in 1 .. e + 1 : i \in 1 .. e \/ i = e + 1
    BY <1>3
  <2>3. \A f \in Function : Indexed(f)' <=> OnStack(f)' \/ Emitted(f)'
    BY <1>5, <1>9, <1>11, <1>12, <1>19, <2>1
  <2>4. \A f \in Function : ~(OnStack(f)' /\ Emitted(f)')
    BY <1>5, <1>9, <1>12, <1>20, <2>1
  <2>5. ASSUME NEW i \in 1 .. e + 1, NEW k \in 1 .. e + 1, NEW f \in Function,
               f \in ToSet(SCCs'[i]), f \in ToSet(SCCs'[k])
        PROVE  i = k
    <3>1. \A j \in 1 .. e : f \in ToSet(SCCs'[j]) => Emitted(f)
      BY <1>10 DEF Emitted, e
    <3>2. f \in ToSet(P) => ~Emitted(f)
      BY <1>9, <1>20
    <3>3. i \in 1 .. e /\ k \in 1 .. e => i = k
      BY <1>10, <2>5 DEF SearchInv, EmittedInv, e
    <3> QED
      BY <1>10, <2>2, <2>5, <3>1, <3>2, <3>3
  <2>6. ASSUME NEW i \in 1 .. e + 1, NEW f \in Function, NEW g \in Function,
               f \in ToSet(SCCs'[i]), <<f, g>> \in m
        PROVE  \E k \in 1 .. i : g \in ToSet(SCCs'[k])
    <3>1. CASE i \in 1 .. e
      <4>1. PICK k \in 1 .. i : g \in ToSet(SCCs[k])
        BY <1>10, <1>21, <2>6, <3>1
      <4>2. k \in 1 .. e
        BY <1>3, <3>1
      <4> QED
        BY <1>10, <4>1, <4>2
    <3>2. CASE i = e + 1
      <4>1. g \in ToSet(P) \/ Emitted(g)
        BY <1>10, <1>23, <2>6, <3>2
      <4>2. CASE g \in ToSet(P)
        BY <1>3, <1>10, <3>2, <4>2
      <4>3. CASE Emitted(g)
        <5>1. PICK k \in 1 .. e : g \in ToSet(SCCs[k])
          BY <4>3 DEF Emitted, e
        <5>2. k \in 1 .. i
          BY <1>3, <3>2
        <5> QED
          BY <1>10, <5>1, <5>2
      <4> QED
        BY <4>1, <4>2, <4>3
    <3> QED
      BY <2>2, <3>1, <3>2
  <2>7. ASSUME NEW i \in 1 .. e + 1
        PROVE  \E f \in Function : \A g \in Function :
                 g \in ToSet(SCCs'[i]) <=> g = f \/ (<<f, g>> \in m /\ <<g, f>> \in m)
    <3>1. CASE i \in 1 .. e
      BY <1>10, <3>1 DEF SearchInv, EmittedInv, e
    <3>2. CASE i = e + 1
      BY <1>2, <1>10, <1>22, <3>2
    <3> QED
      BY <2>2, <3>1, <3>2
  <2>8. ASSUME NEW i \in 1 .. e + 1
        PROVE  \A j, k \in 1 .. Len(SCCs'[i]) : SCCs'[i][j] = SCCs'[i][k] => j = k
    <3>1. CASE i \in 1 .. e
      BY <1>10, <3>1 DEF SearchInv, EmittedInv, e
    <3>2. CASE i = e + 1
      BY <1>9, <1>10, <3>2
    <3> QED
      BY <2>2, <3>1, <3>2
  <2> QED
    BY <1>10, <2>3, <2>4, <2>5, <2>6, <2>7, <2>8 DEF EmittedInv
<1> QED
  BY <1>15, <1>16, <1>17, <1>18, <1>24 DEF SearchInv

-----------------------------------------------------------------------------
(* The invariant, and what follows from it.                                 *)

(* Before the search nothing has a number, and there is nothing to keep.     *)
LEMMA NotStartedSearch == NotStarted => SearchInv
<1> SUFFICES ASSUME NotStarted PROVE SearchInv
  OBVIOUS
<1>1. Len(S) = 0 /\ Len(frames) = 0 /\ Len(SCCs) = 0
  BY EmptySeq DEF NotStarted
<1>2. \A f \in Function : ~OnStack(f) /\ ~Emitted(f) /\ ~Indexed(f)
  BY <1>1 DEF OnStack, Contains, Emitted, NotStarted
<1>3. \A f \in Function : ~(f < root)
  BY NAssumption DEF NotStarted, Function, Index
<1>4. NumbersInv
  BY <1>1, <1>2, <1>3 DEF NumbersInv
<1>5. LinksInv /\ ReturnsInv
  BY <1>2 DEF LinksInv, ReturnsInv
<1>6. FramesInv
  BY <1>1 DEF FramesInv
<1>7. EmittedInv
  BY <1>1, <1>2 DEF EmittedInv
<1> QED
  BY <1>4, <1>5, <1>6, <1>7 DEF SearchInv

LEMMA NotStartedSearchNext == NotStarted' => SearchInv'
BY NotStartedSearch, PTL

(* Steps that leave the search and the matrix alone.                         *)
LEMMA SearchUnchanged ==
  ASSUME SearchInv, UNCHANGED <<m, sccVars>>
  PROVE  SearchInv'
<1>1. m' = m /\ UNCHANGED <<indexMap, lowlinkMap, index, S, frames, root, SCCs>>
  BY DEF sccVars
<1>2. NumbersInv'
  BY <1>1 DEF SearchInv, NumbersInv, Indexed
<1>3. LinksInv'
  BY <1>1 DEF SearchInv, LinksInv, OnStack, Same
<1>4. FramesInv'
  BY <1>1 DEF SearchInv, FramesInv, OnStack, Indexed
<1>5. ReturnsInv'
  BY <1>1 DEF SearchInv, ReturnsInv, OnStack, Same
<1>6. EmittedInv'
  BY <1>1 DEF SearchInv, EmittedInv, OnStack, Indexed, Emitted
<1> QED
  BY <1>2, <1>3, <1>4, <1>5, <1>6 DEF SearchInv

(* The matrix that getSccs reads is closed.                                 *)
LEMMA MatrixTransitive ==
  ASSUME HierarchyInv, pc \notin {"visit", "close"}
  PROVE  Transitive
<1>1. IsTransitive(m)
  BY LoopsDone DEF HierarchyInv
<1> QED
  BY <1>1 DEF Transitive, IsTransitive, Function

LEMMA TarjanInit == Init => TarjanInv
<1> SUFFICES ASSUME Init PROVE TarjanInv
  OBVIOUS
<1>1. NotStarted
  BY DEF Init, NotStarted, Indexed
<1>2. pc = "visit"
  BY DEF Init
<1> QED
  BY <1>1, <1>2, NotStartedSearch DEF TarjanInv

(* A step of the search.                                                    *)
LEMMA SearchStep ==
  ASSUME TarjanTypeOK, SearchInv, Transitive, Tarjan
  PROVE  SearchInv'
<1>1. m' = m
  BY DEF Tarjan
<1>2. CASE NextRoot
  <2>1. root \in Function /\ frames = <<>> /\ root' = root + 1
    BY <1>2, NAssumption DEF NextRoot, TarjanTypeOK, Function, Index
  <2>2. CASE ~Indexed(root) /\ Number(root)
    BY <1>1, <2>1, <2>2, NumberKeeps
  <2>3. CASE Indexed(root) /\ UNCHANGED <<indexMap, lowlinkMap, index, S, frames, SCCs>>
    <3>1. \A f \in Function : f < root' => f < root \/ f = root
      BY <2>1, SearchTypes
    <3>2. NumbersInv'
      BY <2>3, <3>1 DEF SearchInv, NumbersInv, Indexed
    <3> QED
      BY <1>1, <2>3, <3>2
      DEF SearchInv, LinksInv, FramesInv, ReturnsInv, EmittedInv, Indexed, OnStack, Emitted, Same
  <2> QED
    BY <1>2, <2>2, <2>3 DEF NextRoot
<1>3. CASE Descend
  <2>1. Len(frames) \in 1 .. Len(frames) /\ Top = frames[Len(frames)] /\ frames # <<>>
    BY <1>3, TopFrame DEF Descend, InLoop
  <2>2. Top.vv \in 0 .. N /\ Top.vv < N
    BY <1>3, <2>1, SearchTypes DEF Descend, InLoop
  <2>3. Top.vv \in Function
    BY <2>2, NAssumption DEF Function, Index
  <2> QED
    BY <1>1, <1>3, <2>1, <2>3, NumberKeeps DEF Descend
<1>4. CASE Revisit
  BY <1>1, <1>4, RevisitKeeps
<1>5. CASE NotCalled
  BY <1>1, <1>5, NotCalledKeeps
<1>6. CASE Return
  BY <1>1, <1>6, ReturnBelowRoot, ReturnAtRoot
<1> QED
  BY <1>2, <1>3, <1>4, <1>5, <1>6 DEF Tarjan

(* Every step keeps the invariant.                                          *)
LEMMA TarjanNext ==
  HierarchyInv /\ TypeOK /\ CallersInLoop /\ TarjanInv /\ [Next]_hbVars => TarjanInv'
<1> SUFFICES ASSUME HierarchyInv, TypeOK, CallersInLoop, TarjanInv, [Next]_hbVars
             PROVE  TarjanInv'
  OBVIOUS
<1>1. TarjanTypeOK
  BY DEF TypeOK, TarjanTypeOK, Numbers, Frame
<1>2. CASE Tarjan
  <2>1. pc = "sccs" /\ pc' = "sccs"
    BY <1>2 DEF Tarjan
  <2> QED
    BY <1>1, <1>2, <2>1, MatrixTransitive, SearchStep DEF TarjanInv
<1>3. CASE SccsFound \/ HierarchyComputed
  <2>1. /\ UNCHANGED sccVars /\ m' = m /\ pc' \notin {"visit", "close"}
        /\ pc' = "done" => frames = <<>> /\ root = N
    BY <1>3 DEF SccsFound, HierarchyComputed, sccVars
  <2>2. SearchInv'
    BY <2>1, SearchUnchanged DEF TarjanInv
  <2> QED
    BY <2>1, <2>2 DEF TarjanInv, sccVars
<1>4. CASE (\E s \in pending : VisitCallInst(s)) \/ StartClosure \/ Close
  <2>1. pc \in {"visit", "close"} /\ pc' \in {"visit", "close"} /\ UNCHANGED sccVars
    BY <1>4 DEF VisitCallInst, StartClosure, Close
  <2>2. NotStarted'
    BY <2>1 DEF TarjanInv, NotStarted, sccVars, Indexed
  <2>3. SearchInv'
    BY <2>2, NotStartedSearchNext
  <2> QED
    BY <2>1, <2>2, <2>3 DEF TarjanInv
<1>5. CASE UNCHANGED hbVars
  <2>1. UNCHANGED <<m, sccVars>> /\ pc' = pc
    BY <1>5 DEF hbVars, sccVars
  <2>2. SearchInv'
    BY <2>1, SearchUnchanged DEF TarjanInv
  <2> QED
    BY <2>1, <2>2 DEF TarjanInv, NotStarted, sccVars, Indexed
<1> QED
  BY <1>2, <1>3, <1>4, <1>5 DEF Next

(* What every reachable state satisfies: the closure loops and the search    *)
(* keep their invariants, and the types are right.                          *)
BuilderInv == HierarchyInv /\ TypeOK /\ CallersInLoop /\ TarjanInv

LEMMA BuilderInit == Init => BuilderInv
BY HierarchyInit, TypeInit, TarjanInit DEF BuilderInv

LEMMA BuilderNext == BuilderInv /\ [Next]_hbVars => BuilderInv'
BY HierarchyNext, TypeNext, TarjanNext DEF BuilderInv

(* For every number of functions and every set of call instructions,         *)
(* Tarjan's search on the closed call matrix keeps its invariant: numbers,   *)
(* links, active calls and components agree with the calls at every step.    *)
THEOREM BuilderCorrect == Spec => []BuilderInv
BY BuilderInit, BuilderNext, PTL DEF Spec

LEMMA StackDisciplineLemma == BuilderInv => StackDiscipline
<1> SUFFICES ASSUME BuilderInv, NEW i \in DOMAIN S, NEW k \in DOMAIN S, i < k
             PROVE  /\ indexMap[S[i]] > indexMap[S[k]]
                    /\ lowlinkMap[S[k]] <= indexMap[S[k]]
                    /\ lowlinkMap[S[i]] <= indexMap[S[i]]
                    /\ <<S[k], S[i]>> \in m
  BY DEF StackDiscipline
<1>1. TarjanTypeOK /\ NumbersInv /\ LinksInv /\ EmittedInv
  BY DEF BuilderInv, TypeOK, TarjanTypeOK, Numbers, Frame, TarjanInv, SearchInv
<1>2. i \in 1 .. Len(S) /\ k \in 1 .. Len(S)
  BY <1>1, LenProperties DEF TarjanTypeOK
<1>3. S[i] \in Function /\ S[k] \in Function /\ OnStack(S[i]) /\ OnStack(S[k])
  BY <1>1, <1>2, SearchTypes DEF OnStack, Contains
<1>4. indexMap[S[i]] > indexMap[S[k]]
  BY <1>1, <1>2 DEF NumbersInv
<1>5. lowlinkMap[S[k]] <= indexMap[S[k]] /\ lowlinkMap[S[i]] <= indexMap[S[i]]
  BY <1>1, <1>3 DEF LinksInv
<1>6. indexMap[S[k]] < indexMap[S[i]]
  BY <1>1, <1>3, <1>4, StackNumbers
<1> QED
  BY <1>1, <1>3, <1>4, <1>5, <1>6 DEF LinksInv

(* For every number of functions: the stack is sorted by the numbers, and    *)
(* what is below reaches what is above, so that popping down to a root never *)
(* takes a function of another component.                                   *)
THEOREM StackCorrect == Spec => []StackDiscipline
BY BuilderCorrect, StackDisciplineLemma, PTL

-----------------------------------------------------------------------------
(* The components when getSccs returns.                                     *)

(* A function that reaches itself calls itself, or there is another one that *)
(* it reaches and that reaches it.                                          *)
LEMMA CycleHasAnother ==
  ASSUME NEW R \in Relation, NEW f \in Index, Reaches(R, f, f), <<f, f>> \notin R
  PROVE  \E g \in Index : g # f /\ Reaches(R, f, g) /\ Reaches(R, g, f)
<1> SUFFICES ASSUME \A g \in Index : g # f => ~(Reaches(R, f, g) /\ Reaches(R, g, f))
             PROVE  FALSE
  OBVIOUS
<1> DEFINE U == {c \in Index : c # f /\ Reaches(R, f, c)}
<1>1. \A c \in Index : <<f, c>> \in R => c \in U
  BY ReachesStep
<1>2. ASSUME NEW c \in Index, NEW d \in Index, c \in U, <<c, d>> \in R
      PROVE  d \in U
  <2>1. Reaches(R, c, d)
    BY <1>2, ReachesStep
  <2>2. Reaches(R, f, d)
    BY <1>2, <2>1, ReachesTransitive
  <2>3. d # f
    BY <1>2, <2>1
  <2> QED
    BY <2>2, <2>3
<1>3. U \in SUBSET Index /\ f \notin U
  OBVIOUS
<1> HIDE DEF U
<1>4. f \in U
  BY <1>1, <1>2, <1>3 DEF Reaches
<1> QED
  BY <1>3, <1>4

LEMMA ComponentsPartitionLemma == BuilderInv => ComponentsPartition
<1> SUFFICES ASSUME BuilderInv, pc = "done"
             PROVE  /\ \A f \in Function :
                         \E i \in DOMAIN SCCs :
                            /\ f \in ToSet(SCCs[i])
                            /\ \A k \in DOMAIN SCCs : f \in ToSet(SCCs[k]) => k = i
                    /\ isCyclic <=> \/ \E i \in DOMAIN SCCs : Len(SCCs[i]) > 1
                                    \/ \E f \in Function : <<f, f>> \in DirectCalls
  BY DEF ComponentsPartition
<1>1. TarjanTypeOK /\ SearchInv /\ frames = <<>> /\ root = N
  BY DEF BuilderInv, TypeOK, TarjanTypeOK, Numbers, Frame, TarjanInv
<1>2. DOMAIN SCCs = 1 .. Len(SCCs) /\ \A i \in 1 .. Len(SCCs) : SCCs[i] \in Seq(Function)
  BY <1>1, LenProperties, SearchTypes DEF TarjanTypeOK
<1>3. Transitive /\ m = TransitiveClosure(DirectCalls) /\ DirectCalls \in Relation
  BY MatrixTransitive, HierarchyExactLemma, DirectCallsType DEF BuilderInv, HierarchyExact
<1>4. ASSUME NEW f \in Function
      PROVE  Emitted(f)
  <2>1. f < N
    BY NAssumption DEF Function, Index
  <2>2. Indexed(f)
    BY <1>1, <2>1 DEF SearchInv, NumbersInv
  <2>3. ~OnStack(f)
    BY <1>1, EmptySeq DEF SearchInv, ReturnsInv
  <2> QED
    BY <1>1, <2>2, <2>3 DEF SearchInv, EmittedInv
<1>5. ASSUME NEW f \in Function
      PROVE  \E i \in 1 .. Len(SCCs) :
               /\ f \in ToSet(SCCs[i])
               /\ \A k \in 1 .. Len(SCCs) : f \in ToSet(SCCs[k]) => k = i
  BY <1>1, <1>4 DEF Emitted, SearchInv, EmittedInv
<1>6. ASSUME NEW f \in Function, <<f, f>> \in m, <<f, f>> \notin DirectCalls
      PROVE  \E i \in 1 .. Len(SCCs) : Len(SCCs[i]) > 1
  <2>1. PICK g \in Function : g # f /\ <<f, g>> \in m /\ <<g, f>> \in m
    BY <1>3, <1>6, CycleHasAnother DEF TransitiveClosure, Function
  <2>2. PICK i \in 1 .. Len(SCCs) : f \in ToSet(SCCs[i])
    BY <1>4 DEF Emitted
  <2>3. g \in ToSet(SCCs[i])
    <3>1. PICK r \in Function :
            \A z \in Function : z \in ToSet(SCCs[i]) <=> z = r \/ (<<r, z>> \in m /\ <<z, r>> \in m)
      BY <1>1 DEF SearchInv, EmittedInv
    <3>2. Same(r, f) /\ Same(f, r)
      BY <2>2, <3>1 DEF Same
    <3>3. <<r, g>> \in m
      BY <1>3, <2>1, <3>2 DEF Same, Transitive
    <3>4. <<g, r>> \in m
      BY <1>3, <2>1, <3>2 DEF Same, Transitive
    <3> QED
      BY <3>1, <3>3, <3>4
  <2>4. DOMAIN SCCs[i] = 1 .. Len(SCCs[i]) /\ Len(SCCs[i]) \in Nat
    BY <1>2, LenProperties
  <2>5. PICK a \in 1 .. Len(SCCs[i]), b \in 1 .. Len(SCCs[i]) : SCCs[i][a] = f /\ SCCs[i][b] = g
    BY <2>2, <2>3, <2>4 DEF ToSet
  <2>6. a # b
    BY <2>1, <2>5
  <2> QED
    BY <2>4, <2>5, <2>6
<1>7. ASSUME NEW i \in 1 .. Len(SCCs), Len(SCCs[i]) > 1
      PROVE  \E f \in Function : <<f, f>> \in m
  <2>1. DOMAIN SCCs[i] = 1 .. Len(SCCs[i]) /\ Len(SCCs[i]) \in Nat
        /\ \A k \in 1 .. Len(SCCs[i]) : SCCs[i][k] \in Function
    BY <1>2, LenProperties, ElementOfSeq
  <2>2. 1 \in 1 .. Len(SCCs[i]) /\ 2 \in 1 .. Len(SCCs[i])
    BY <1>7, <2>1
  <2>3. SCCs[i][1] # SCCs[i][2]
    BY <1>1, <2>2 DEF SearchInv, EmittedInv
  <2>4. PICK r \in Function :
          \A z \in Function : z \in ToSet(SCCs[i]) <=> z = r \/ (<<r, z>> \in m /\ <<z, r>> \in m)
    BY <1>1 DEF SearchInv, EmittedInv
  <2>5. PICK z \in Function : z \in ToSet(SCCs[i]) /\ z # r
    BY <2>1, <2>2, <2>3 DEF ToSet
  <2>6. <<r, r>> \in m
    BY <1>3, <2>4, <2>5 DEF Transitive
  <2> QED
    BY <2>6
<1>8. ASSUME NEW f \in Function, <<f, f>> \in DirectCalls
      PROVE  <<f, f>> \in m
  BY <1>3, <1>8, ClosureTransitive
<1> QED
  BY <1>2, <1>5, <1>6, <1>7, <1>8 DEF isCyclic

(* For every number of functions: when getSccs returns, every function is in *)
(* exactly one component, and isCyclic, which decides whether -eager-inline   *)
(* is refused, is true exactly when some function is recursive.             *)
THEOREM PartitionCorrect == Spec => []ComponentsPartition
BY BuilderCorrect, ComponentsPartitionLemma, PTL

-----------------------------------------------------------------------------
(* getSccs implements CallOrder.                                            *)

(* A component of the search is the class of each of its functions.          *)
LEMMA ComponentIsClass ==
  ASSUME Transitive, m = TransitiveClosure(DirectCalls),
         NEW C \in SUBSET Function, NEW r \in Function,
         \A g \in Function : g \in C <=> g = r \/ (<<r, g>> \in m /\ <<g, r>> \in m),
         NEW f \in C
  PROVE  C = ClassOf(DirectCalls, f)
<1>1. Same(r, f) /\ Same(f, r)
  BY DEF Same
<1>2. ASSUME NEW g \in Function
      PROVE  g \in C <=> g = f \/ (<<f, g>> \in m /\ <<g, f>> \in m)
  BY <1>1 DEF Same, Transitive
<1>3. \A g \in Function :
        g \in ClassOf(DirectCalls, f) <=> g = f \/ (<<f, g>> \in m /\ <<g, f>> \in m)
  BY DEF ClassOf, Mutual, TransitiveClosure, Function
<1>4. ClassOf(DirectCalls, f) \subseteq Function
  BY DEF ClassOf, Function
<1> QED
  BY <1>2, <1>3, <1>4

(* The components that have come out, as CallOrder sees them.                *)
Out == {ToSet(SCCs[i]) : i \in DOMAIN SCCs}

(* A component that comes out is a step of CallOrder.                        *)
LEMMA PopIsEmit ==
  ASSUME BuilderInv, BuilderInv', Tarjan, Return, lowlinkMap[Top.v] = indexMap[Top.v]
  PROVE  Order!Next
<1> DEFINE e == Len(SCCs)
           C == ToSet(SCCs'[e + 1])
<1>1. TarjanTypeOK /\ SearchInv /\ SearchInv' /\ pc = "sccs"
  BY DEF BuilderInv, TypeOK, TarjanTypeOK, Numbers, Frame, TarjanInv, Tarjan
<1>2. m' = m /\ DirectCalls' = DirectCalls
  BY DEF Tarjan, inputVars, DirectCalls, Called
<1>3. Transitive /\ m = TransitiveClosure(DirectCalls)
  BY <1>1, MatrixTransitive, HierarchyExactLemma DEF BuilderInv, HierarchyExact
<1>4. SCCs' = Append(SCCs, Component(Top.v)) /\ Component(Top.v) \in Seq(Function)
  <2>1. Top.v \in Function /\ OnStack(Top.v)
    BY <1>1, LoopOver
  <2>2. Component(Top.v) \in Seq(Function)
    BY <1>1, <2>1, PositionOnStack, CutStack DEF TarjanTypeOK, Component
  <2> QED
    BY <2>2 DEF Return, PopComponent
<1>5. /\ e \in Nat /\ Len(SCCs') = e + 1 /\ SCCs' \in Seq(Seq(Function))
      /\ \A i \in 1 .. e : SCCs'[i] = SCCs[i]
      /\ DOMAIN SCCs = 1 .. e /\ DOMAIN SCCs' = 1 .. e + 1
  <2>1. SCCs \in Seq(Seq(Function))
    BY <1>1 DEF TarjanTypeOK
  <2> QED
    BY <1>4, <2>1, AppendProperties, LenProperties
<1>6. \A i \in 1 .. e + 1 : SCCs'[i] \in Seq(Function) /\ ToSet(SCCs'[i]) \subseteq Function
  <2> SUFFICES ASSUME NEW i \in 1 .. e + 1
               PROVE  SCCs'[i] \in Seq(Function) /\ ToSet(SCCs'[i]) \subseteq Function
    OBVIOUS
  <2>1. SCCs'[i] \in Seq(Function)
    BY <1>5, ElementOfSeq
  <2> QED
    BY <2>1, LenProperties, ElementOfSeq DEF ToSet
<1>7. \A i \in 1 .. e + 1 : \E r \in Function : \A g \in Function :
        g \in ToSet(SCCs'[i]) <=> g = r \/ (<<r, g>> \in m /\ <<g, r>> \in m)
  BY <1>1, <1>2, <1>5 DEF SearchInv, EmittedInv
<1>8. \A i \in 1 .. e + 1 : \A f \in ToSet(SCCs'[i]) :
        ToSet(SCCs'[i]) = ClassOf(DirectCalls, f)
  <2> SUFFICES ASSUME NEW i \in 1 .. e + 1, NEW f \in ToSet(SCCs'[i])
               PROVE  ToSet(SCCs'[i]) = ClassOf(DirectCalls, f)
    OBVIOUS
  <2>1. PICK r \in Function : \A g \in Function :
          g \in ToSet(SCCs'[i]) <=> g = r \/ (<<r, g>> \in m /\ <<g, r>> \in m)
    BY <1>7
  <2>2. ToSet(SCCs'[i]) \in SUBSET Function
    BY <1>6
  <2> QED
    BY <1>3, <2>1, <2>2, ComponentIsClass
<1> HIDE DEF e, C
<1>9. e + 1 \in 1 .. e + 1 /\ \A i \in 1 .. e : i \in 1 .. e + 1 /\ i # e + 1
  BY <1>5
<1>10. PICK r \in Function : r \in C
  BY <1>7, <1>9 DEF C
<1>11. C = ClassOf(DirectCalls, r) /\ C \subseteq Function
  BY <1>6, <1>8, <1>9, <1>10 DEF C
<1>12. Out' = Out \cup {C}
  <2>1. Out' = {ToSet(SCCs'[i]) : i \in 1 .. e + 1} /\ Out = {ToSet(SCCs[i]) : i \in 1 .. e}
    BY <1>5 DEF Out
  <2>2. \A i \in 1 .. e + 1 : i \in 1 .. e \/ i = e + 1
    BY <1>5
  <2>3. ASSUME NEW i \in 1 .. e
        PROVE  ToSet(SCCs[i]) = ToSet(SCCs'[i])
    BY <1>5
  <2>4. Out' \subseteq Out \cup {C}
    BY <2>1, <2>2, <2>3 DEF C
  <2>5. Out \cup {C} \subseteq Out'
    BY <1>9, <2>1, <2>3 DEF C
  <2> QED
    BY <2>4, <2>5
<1>13. C \notin Out
  <2> SUFFICES ASSUME C \in Out PROVE FALSE
    OBVIOUS
  <2>1. PICK i \in 1 .. e : ToSet(SCCs'[i]) = C
    BY <1>5 DEF Out
  <2>2. i = e + 1
    BY <1>1, <1>5, <1>9, <1>10, <2>1 DEF SearchInv, EmittedInv, C
  <2> QED
    BY <1>9, <2>2
<1>14. ASSUME NEW g \in Index, Reaches(DirectCalls, r, g)
       PROVE  ClassOf(DirectCalls, g) \in Out'
  <2>1. <<r, g>> \in m /\ g \in Function
    BY <1>3, <1>14 DEF TransitiveClosure, Function
  <2>2. PICK k \in 1 .. e + 1 : g \in ToSet(SCCs'[k])
    BY <1>1, <1>2, <1>5, <1>9, <1>10, <2>1 DEF SearchInv, EmittedInv, C
  <2> QED
    BY <1>5, <1>8, <2>2 DEF Out
<1>15. Order!Emit(C)
  <2>1. \A a, b : Order!Reaches(DirectCalls, a, b) <=> Reaches(DirectCalls, a, b)
    BY DEF Order!Reaches, Reaches, Order!Index, Index
  <2>2. \A a : Order!ClassOf(DirectCalls, a) = ClassOf(DirectCalls, a)
    BY <2>1 DEF Order!ClassOf, ClassOf, Order!Mutual, Mutual, Order!Index, Index
  <2>3. Order!Index = Index
    BY DEF Order!Index, Index
  <2> QED
    BY <1>2, <1>10, <1>11, <1>12, <1>13, <1>14, <2>1, <2>2, <2>3 DEF Order!Emit, Out
<1>16. C \in SUBSET Order!Index
  BY <1>11 DEF Order!Index, Function, Index
<1> QED
  BY <1>15, <1>16 DEF Order!Next

(* Every other step leaves what CallOrder sees alone.                        *)
LEMMA StepIsEmitOrStutter ==
  ASSUME BuilderInv, BuilderInv', [Next]_hbVars
  PROVE  Order!Next \/ UNCHANGED <<DirectCalls, Out>>
<1>1. CASE Tarjan
  <2>1. DirectCalls' = DirectCalls
    BY <1>1 DEF Tarjan, inputVars, DirectCalls, Called
  <2>2. CASE Return
    <3>1. CASE lowlinkMap[Top.v] = indexMap[Top.v]
      BY <1>1, <2>2, <3>1, PopIsEmit
    <3>2. CASE lowlinkMap[Top.v] # indexMap[Top.v]
      BY <2>1, <2>2, <3>2 DEF Return, PopComponent, Out
    <3> QED
      BY <3>1, <3>2
  <2>3. CASE NextRoot \/ Descend \/ Revisit \/ NotCalled
    BY <2>1, <2>3 DEF NextRoot, Number, Descend, Revisit, NotCalled, Out
  <2> QED
    BY <1>1, <2>2, <2>3 DEF Tarjan
<1>2. CASE SccsFound \/ HierarchyComputed \/ (\E s \in pending : VisitCallInst(s))
           \/ StartClosure \/ Close \/ UNCHANGED hbVars
  <2>1. UNCHANGED <<typeOf, sites, SCCs>>
    BY <1>2 DEF SccsFound, HierarchyComputed, VisitCallInst, StartClosure, Close, hbVars,
       inputVars, sccVars
  <2> QED
    BY <2>1 DEF DirectCalls, Called, Out
<1> QED
  BY <1>1, <1>2 DEF Next

LEMMA InitIsInit == Init => Order!Init
<1> SUFFICES ASSUME Init PROVE Order!Init
  OBVIOUS
<1>1. DOMAIN SCCs = {}
  BY EmptySeq DEF Init
<1>2. DirectCalls \in Relation
  BY DirectCallsType
<1> QED
  BY <1>1, <1>2 DEF Order!Init, Order!Relation, Order!Index, Relation, Index

(* For every number of functions and every set of call instructions, getSccs *)
(* implements CallOrder: whole classes of mutually recursive functions, each *)
(* once, callees before callers.                                            *)
THEOREM CallOrderImplemented == Spec => ImplementsCallOrder
<1>1. BuilderInv /\ BuilderInv' /\ [Next]_hbVars => [Order!Next]_<<DirectCalls, Out>>
  BY StepIsEmitOrStutter
<1> QED
  BY <1>1, InitIsInit, BuilderCorrect, PTL DEF Spec, ImplementsCallOrder, Order!Spec, Out
=============================================================================
