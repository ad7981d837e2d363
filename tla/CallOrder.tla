----------------------------- MODULE CallOrder -----------------------------
(***************************************************************************)
(* What the rest of the converter relies on when it asks for the strongly  *)
(* connected components of the call graph: each component is a full class  *)
(* of mutually recursive functions, comes out once, and comes out after    *)
(* the components it calls.  HierarchyBuilder implements this.             *)
(***************************************************************************)
EXTENDS Reachability

VARIABLES
  calls,                         \* who calls whom
  emitted                        \* the components that have come out

Init ==
  /\ calls \in Relation
  /\ emitted = {}

Emit(C) ==
  /\ C \notin emitted
  /\ emitted' = emitted \cup {C}
  /\ calls' = calls
  /\ \E f \in C :
       /\ C = ClassOf(calls, f)
       /\ \A g \in Index :
            Reaches(calls, f, g) => ClassOf(calls, g) \in emitted'

Next == \E C \in SUBSET Index : Emit(C)

Spec == Init /\ [][Next]_<<calls, emitted>>
=============================================================================
