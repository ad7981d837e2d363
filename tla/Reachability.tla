---------------------------- MODULE Reachability ----------------------------
(***************************************************************************)
(* Relations over 0 .. N-1 and what it means to reach one index from       *)
(* another, independently of any algorithm.  These are the definitions the *)
(* closure loops, the call hierarchy and the slicer are compared with.     *)
(***************************************************************************)
EXTENDS Naturals

CONSTANT N                       \* m_numFunctions, m_numVars

ASSUME NAssumption == N \in Nat

Index == 0 .. N-1

Relation == SUBSET (Index \X Index)

IsTransitive(R) ==
  \A a, b, c \in Index : <<a, b>> \in R /\ <<b, c>> \in R => <<a, c>> \in R

(* a reaches b by one or more steps of R: b is in every set that contains   *)
(* the successors of a and is closed under R.                               *)
Reaches(R, a, b) ==
  \A U \in SUBSET Index :
     /\ \A c \in Index : <<a, c>> \in R => c \in U
     /\ \A c, d \in Index : c \in U /\ <<c, d>> \in R => d \in U
     => b \in U

TransitiveClosure(R) == {p \in Index \X Index : Reaches(R, p[1], p[2])}

(* a and b reach each other, or are the same.                               *)
Mutual(R, a, b) == a = b \/ (Reaches(R, a, b) /\ Reaches(R, b, a))

(* The strongly connected component of a.                                   *)
ClassOf(R, a) == {b \in Index : Mutual(R, a, b)}
=============================================================================
