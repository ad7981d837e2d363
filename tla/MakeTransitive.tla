--------------------------- MODULE MakeTransitive ---------------------------
(***************************************************************************)
(* The in-place transitive closure that llvm2KITTeL computes on a Boolean  *)
(* matrix.  The same three nested loops occur four times in the code:      *)
(* HierarchyBuilder::makeTransitive on the call matrix, and                *)
(* Slicer::makePreceedsTransitive, makeCallsTransitive and                 *)
(* makeDependsTransitive on the matrices of the slicer.                    *)
(*                                                                         *)
(* The matrix m[i + n * j] is modelled by the set m of the pairs <<i, j>>  *)
(* whose entry is true.  One action is one iteration of the middle loop    *)
(* (the row x for the pivot y): the innermost loop only reads row y and    *)
(* writes row x, and for x = y it writes entries that are already true.    *)
(***************************************************************************)
EXTENDS Reachability

VARIABLES
  m,                             \* the matrix, as the set of its true entries
  y,                             \* pivot: the counter of the outer loop
  x                              \* row: the counter of the middle loop

mtVars == <<m, y, x>>

-----------------------------------------------------------------------------
(* Mutants of NewEntries: the matrix indexed the other way round, and the     *)
(* innermost loop one iteration short.                                       *)
NewEntriesTransposed == {e \in {x} \X Index : <<e[2], y>> \in m}
NewEntriesShort == {e \in {x} \X Index : e[2] < N - 1 /\ <<y, e[2]>> \in m}

(* The row of x for the pivot y: what the innermost loop adds to row x.      *)
NewEntries == {e \in {x} \X Index : <<y, e[2]>> \in m}

Row ==
  /\ y < N
  /\ x < N
  /\ m' = IF <<x, y>> \in m THEN m \cup NewEntries ELSE m
  /\ x' = x + 1
  /\ y' = y

NextPivot ==
  /\ y < N
  /\ x = N
  /\ y' = y + 1
  /\ x' = 0
  /\ m' = m

MakeTransitiveInit == y = 0 /\ x = 0

MakeTransitiveNext == Row \/ NextPivot

MakeTransitiveDone == y = N

-----------------------------------------------------------------------------
MTTypeOK ==
  /\ m \in Relation
  /\ y \in 0 .. N
  /\ x \in 0 .. N

(* The matrix stays between the relation R it started from and R's closure: *)
(* the loops neither lose a call nor invent one.                            *)
Between(R) == R \subseteq m /\ m \subseteq TransitiveClosure(R)

(* Every pivot before y is closed, up to what pivot y still has to add.     *)
PivotsClosed ==
  \A a, b, z \in Index :
     z < y /\ <<a, z>> \in m /\ <<z, b>> \in m
       => \/ <<a, b>> \in m
          \/ y < N /\ <<a, y>> \in m /\ <<y, b>> \in m

(* The rows before x are done for the pivot y.                              *)
RowsClosed ==
  y < N => \A a, b \in Index :
              a < x /\ <<a, y>> \in m /\ <<y, b>> \in m => <<a, b>> \in m

ClosureInv == PivotsClosed /\ RowsClosed
=============================================================================
