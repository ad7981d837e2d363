--------------------------- MODULE SimulationProofs ---------------------------
(***************************************************************************)
(* Proofs that the rules of the Converter do what the function does, for   *)
(* every function and every setting of the options.  The alternatives of   *)
(* one instruction are compared with its effects, then the symbols of the  *)
(* places of a block and the jumps between blocks; SimulationInv collects  *)
(* this while phase2 emits the rules, block by block.                      *)
(***************************************************************************)
EXTENDS ConverterProofs

-----------------------------------------------------------------------------
(* What a rule leads to, without the choice of values for its nondefs.       *)

Term(p) == p[1] \in {"var", "const", "one-", "nondef"}
Terms(args) == \A k \in DOMAIN args : Term(args[k])

AtomsHold(cond, e) == \A c \in cond : PolyValue(c[1], e, <<>>) > 0 <=> c[2]

FitsArgs(args, e, a) ==
  /\ DOMAIN a = DOMAIN args /\ a = [k \in DOMAIN args |-> a[k]]
  /\ \A k \in DOMAIN args : IF args[k][1] = "nondef" THEN a[k] \in Value ELSE a[k] = PolyValue(args[k], e, <<>>)
  /\ \A j, k \in DOMAIN args :
       args[j][1] = "nondef" /\ args[k][1] = "nondef" /\ args[j][2] = args[k][2] => a[j] = a[k]

LEMMA TermValue ==
  ASSUME NEW p, Term(p), NEW e, NEW w
  PROVE  PolyValue(p, e, w) = IF p[1] = "nondef" THEN w[p[2]] ELSE PolyValue(p, e, <<>>)
BY DEF PolyValue, Term

LEMMA NondefsAre ==
  ASSUME NEW r, IsSequence(r.args)
  PROVE  /\ \A k \in DOMAIN r.args : r.args[k][1] = "nondef" => r.args[k][2] \in Nondefs(r)
         /\ \A n \in Nondefs(r) : \E k \in DOMAIN r.args : r.args[k][1] = "nondef" /\ r.args[k][2] = n
<1>1. ToSet(r.args) = {r.args[k] : k \in DOMAIN r.args}
  BY SequenceFacts DEF ToSet
<1> QED
  BY <1>1 DEF Nondefs

LEMMA TargetsAre ==
  ASSUME NEW r, IsSequence(r.args), Terms(r.args), NEW e, NEW a
  PROVE  a \in Targets(r, e) <=> AtomsHold(r.cond, e) /\ FitsArgs(r.args, e, a)
<1> DEFINE D == DOMAIN r.args
           A == r.args
           Picks == [Nondefs(r) -> Value]
           row(w) == [k \in D |-> PolyValue(A[k], e, w)]
<1>1. ASSUME AtomsHold(r.cond, e)
      PROVE  Targets(r, e) = {row(w) : w \in Picks}
  BY <1>1 DEF Targets, AtomsHold
<1>2. ASSUME ~AtomsHold(r.cond, e)
      PROVE  Targets(r, e) = {}
  BY <1>2 DEF Targets, AtomsHold
<1>3. ASSUME NEW w \in Picks
      PROVE  FitsArgs(A, e, row(w))
  <2>1. DOMAIN row(w) = D /\ row(w) = [k \in D |-> row(w)[k]]
    OBVIOUS
  <2>2. ASSUME NEW k \in D
        PROVE  row(w)[k] = IF A[k][1] = "nondef" THEN w[A[k][2]] ELSE PolyValue(A[k], e, <<>>)
    <3>1. Term(A[k])
      BY DEF Terms
    <3> QED
      BY <3>1, TermValue
  <2>3. \A k \in D : A[k][1] = "nondef" => w[A[k][2]] \in Value
    BY NondefsAre
  <2> HIDE DEF row
  <2> QED
    BY <2>1, <2>2, <2>3 DEF FitsArgs
<1>4. ASSUME FitsArgs(A, e, a)
      PROVE  \E w \in Picks : a = row(w)
  <2> DEFINE place(n) == CHOOSE k \in D : A[k][1] = "nondef" /\ A[k][2] = n
             w == [n \in Nondefs(r) |-> a[place(n)]]
  <2>1. ASSUME NEW n \in Nondefs(r)
        PROVE  place(n) \in D /\ A[place(n)][1] = "nondef" /\ A[place(n)][2] = n
    BY NondefsAre
  <2> HIDE DEF place
  <2>2. w \in Picks
    BY <1>4, <2>1 DEF FitsArgs
  <2>3. ASSUME NEW k \in D
        PROVE  a[k] = PolyValue(A[k], e, w)
    <3>1. Term(A[k])
      BY DEF Terms
    <3>2. CASE A[k][1] = "nondef"
      <4>1. A[k][2] \in Nondefs(r)
        BY <3>2, NondefsAre
      <4>2. w[A[k][2]] = a[k]
        BY <4>1, <3>2, <2>1, <1>4 DEF FitsArgs
      <4> QED
        BY <3>1, <3>2, <4>2, TermValue
    <3>3. CASE A[k][1] # "nondef"
      <4>1. a[k] = PolyValue(A[k], e, <<>>)
        BY <3>3, <1>4 DEF FitsArgs
      <4>2. PolyValue(A[k], e, w) = PolyValue(A[k], e, <<>>)
        BY <3>1, <3>3, TermValue
      <4> QED
        BY <4>1, <4>2
    <3> QED
      BY <3>2, <3>3
  <2> HIDE DEF w
  <2>4. a = row(w)
    BY <1>4, <2>3 DEF FitsArgs
  <2> QED
    BY <2>2, <2>4
<1> QED
  BY <1>1, <1>2, <1>3, <1>4

-----------------------------------------------------------------------------
(* Rows: the arguments of a term whose variables have the values of e.       *)

VarsIn == \A k \in DOMAIN m_vars : m_vars[k] \in Vars
Row(e) == [k \in DOMAIN m_vars |-> e[m_vars[k]]]

LEMMA LhsRow ==
  ASSUME NEW e, NEW a
  PROVE  FitsArgs(m_lhs, e, a) <=> a = Row(e)
<1>1. DOMAIN m_lhs = DOMAIN m_vars /\ \A k \in DOMAIN m_vars : m_lhs[k][1] = "var" /\ m_lhs[k][1] # "nondef" /\ m_lhs[k][2] = m_vars[k]
  BY DEF m_lhs
<1>2. \A k \in DOMAIN m_vars : PolyValue(m_lhs[k], e, <<>>) = e[m_vars[k]]
  BY <1>1 DEF PolyValue
<1> QED
  BY <1>1, <1>2 DEF FitsArgs, Row

LEMMA NewArgsRow ==
  ASSUME VarsIn, NEW e \in Envs, NEW c \in Envs, NEW v, NEW p, Term(p),
         \A u \in Vars : u # v => c[u] = e[u],
         v \in Vars => p[1] = "nondef" \/ c[v] = PolyValue(p, e, <<>>)
  PROVE  FitsArgs(getNewArgs(v, p), e, Row(c))
<1> DEFINE A == getNewArgs(v, p)
<1>1. DOMAIN A = DOMAIN m_vars /\ \A k \in DOMAIN m_vars : A[k] = IF m_vars[k] = v THEN p ELSE <<"var", m_vars[k]>>
  BY DEF getNewArgs, m_lhs
<1>2. \A k \in DOMAIN m_vars : Row(c)[k] = c[m_vars[k]] /\ c[m_vars[k]] \in Value
  BY DEF Row, VarsIn, Envs
<1>3. \A k \in DOMAIN m_vars : PolyValue(<<"var", m_vars[k]>>, e, <<>>) = e[m_vars[k]]
  BY DEF PolyValue
<1>4. DOMAIN Row(c) = DOMAIN m_vars /\ Row(c) = [k \in DOMAIN m_vars |-> Row(c)[k]]
  BY DEF Row
<1> HIDE DEF A
<1>5. ASSUME NEW k \in DOMAIN m_vars
      PROVE  IF A[k][1] = "nondef" THEN Row(c)[k] \in Value ELSE Row(c)[k] = PolyValue(A[k], e, <<>>)
  <2>1. CASE m_vars[k] = v
    BY <2>1, <1>1, <1>2 DEF VarsIn
  <2>2. CASE m_vars[k] # v
    BY <2>2, <1>1, <1>2, <1>3 DEF VarsIn
  <2> QED
    BY <2>1, <2>2
<1>6. ASSUME NEW j \in DOMAIN m_vars, NEW k \in DOMAIN m_vars, A[j][1] = "nondef", A[k][1] = "nondef"
      PROVE  Row(c)[j] = Row(c)[k]
  BY <1>1, <1>2, <1>6
<1> QED
  BY <1>1, <1>4, <1>5, <1>6 DEF FitsArgs, A
(* An assignment, read off an instance of getNewArgs.                        *)
LEMMA NewArgsAre ==
  ASSUME NEW e, NEW v, NEW p, NEW a, FitsArgs(getNewArgs(v, p), e, a)
  PROVE  /\ a = [k \in DOMAIN m_vars |-> a[k]]
         /\ \A k \in DOMAIN m_vars :
              IF m_vars[k] # v THEN a[k] = e[m_vars[k]]
              ELSE IF p[1] = "nondef" THEN a[k] \in Value ELSE a[k] = PolyValue(p, e, <<>>)
         /\ p[1] = "nondef" => \A j, k \in DOMAIN m_vars : m_vars[j] = v /\ m_vars[k] = v => a[j] = a[k]
<1> DEFINE A == getNewArgs(v, p)
<1>1. DOMAIN A = DOMAIN m_vars /\ \A k \in DOMAIN m_vars : A[k] = IF m_vars[k] = v THEN p ELSE <<"var", m_vars[k]>>
  BY DEF getNewArgs, m_lhs
<1>2. \A k \in DOMAIN m_vars : PolyValue(<<"var", m_vars[k]>>, e, <<>>) = e[m_vars[k]]
  BY DEF PolyValue
<1>3. FitsArgs(A, e, a)
  OBVIOUS
<1> HIDE DEF A
<1>4. a = [k \in DOMAIN m_vars |-> a[k]]
  BY <1>1, <1>3 DEF FitsArgs
<1>5. ASSUME NEW k \in DOMAIN m_vars
      PROVE  IF m_vars[k] # v THEN a[k] = e[m_vars[k]]
             ELSE IF p[1] = "nondef" THEN a[k] \in Value ELSE a[k] = PolyValue(p, e, <<>>)
  <2>1. CASE m_vars[k] = v
    BY <1>1, <1>3, <2>1 DEF FitsArgs
  <2>2. CASE m_vars[k] # v
    <3>1. A[k] = <<"var", m_vars[k]>> /\ A[k][1] # "nondef"
      BY <1>1, <2>2
    <3>2. a[k] = PolyValue(<<"var", m_vars[k]>>, e, <<>>)
      BY <1>1, <1>3, <3>1 DEF FitsArgs
    <3> QED
      BY <1>2, <2>2, <3>2
  <2> QED
    BY <2>1, <2>2
<1>6. p[1] = "nondef" => \A j, k \in DOMAIN m_vars : m_vars[j] = v /\ m_vars[k] = v => a[j] = a[k]
  BY <1>1, <1>3 DEF FitsArgs
<1> QED
  BY <1>4, <1>5, <1>6

LEMMA AssignedRow ==
  ASSUME VarsIn, NEW e \in Envs, NEW v, NEW x, NEW a, a = [k \in DOMAIN m_vars |-> a[k]],
         \A k \in DOMAIN m_vars : a[k] = IF m_vars[k] = v THEN x ELSE e[m_vars[k]]
  PROVE  a = Row([e EXCEPT ![v] = x])
<1>1. \A k \in DOMAIN m_vars : a[k] = [e EXCEPT ![v] = x][m_vars[k]]
  BY DEF Envs, VarsIn
<1> QED
  BY <1>1 DEF Row

LEMMA ValueRead ==
  ASSUME VarsIn, NEW e \in Envs, NEW v, NEW p, p[1] # "nondef", NEW a, FitsArgs(getNewArgs(v, p), e, a)
  PROVE  a = Row([e EXCEPT ![v] = PolyValue(p, e, <<>>)])
<1>1. /\ a = [k \in DOMAIN m_vars |-> a[k]]
      /\ \A k \in DOMAIN m_vars : a[k] = IF m_vars[k] = v THEN PolyValue(p, e, <<>>) ELSE e[m_vars[k]]
  BY NewArgsAre
<1>2. PICK x : x = PolyValue(p, e, <<>>)
  OBVIOUS
<1>3. a = Row([e EXCEPT ![v] = x])
  BY <1>1, <1>2, AssignedRow
<1> QED
  BY <1>2, <1>3

LEMMA NondefRead ==
  ASSUME VarsIn, NEW e \in Envs, NEW v, NEW p, p[1] = "nondef", NEW a, FitsArgs(getNewArgs(v, p), e, a)
  PROVE  \E x \in Value : a = Row([e EXCEPT ![v] = x])
<1>1. /\ a = [k \in DOMAIN m_vars |-> a[k]]
      /\ \A k \in DOMAIN m_vars : IF m_vars[k] # v THEN a[k] = e[m_vars[k]] ELSE a[k] \in Value
      /\ \A j, k \in DOMAIN m_vars : m_vars[j] = v /\ m_vars[k] = v => a[j] = a[k]
  BY NewArgsAre
<1>2. \E x \in Value : \A k \in DOMAIN m_vars : m_vars[k] = v => a[k] = x
  <2>1. CASE \E j \in DOMAIN m_vars : m_vars[j] = v
    BY <1>1, <2>1
  <2>2. CASE ~ \E j \in DOMAIN m_vars : m_vars[j] = v
    BY <2>2, ValuesAre
  <2> QED
    BY <2>1, <2>2
<1>3. PICK x \in Value : \A k \in DOMAIN m_vars : m_vars[k] = v => a[k] = x
  BY <1>2
<1>4. \A k \in DOMAIN m_vars : a[k] = IF m_vars[k] = v THEN x ELSE e[m_vars[k]]
  BY <1>1, <1>3
<1>5. a = Row([e EXCEPT ![v] = x])
  BY <1>1, <1>4, AssignedRow
<1> QED
  BY <1>5

(* Zapping on top of arguments whose nondefs have lower numbers.             *)
LEMMA ZappedNumbers ==
  ASSUME VarsOnce, NEW zap \in SUBSET Globals, NEW n \in Nat, NEW args,
         \A k \in DOMAIN m_vars : args[k][1] = "nondef" => args[k][2] \in Nat /\ args[k][2] < n
  PROVE  LET A == getZappedArgs(zap, n, args)
         IN  /\ DOMAIN A = DOMAIN m_vars
             /\ \A k \in DOMAIN m_vars : IF m_vars[k] \in zap THEN A[k][1] = "nondef" ELSE A[k] = args[k]
             /\ \A j, k \in DOMAIN m_vars :
                  A[j][1] = "nondef" /\ A[k][1] = "nondef" /\ A[j][2] = A[k][2] =>
                    j = k \/ (m_vars[j] \notin zap /\ m_vars[k] \notin zap /\ args[j][2] = args[k][2])
<1> DEFINE A == getZappedArgs(zap, n, args)
           zapped(k) == m_vars[k] \in zap
           before(k) == Cardinality({j \in 1 .. k - 1 : m_vars[j] \in zap})
<1>1. DOMAIN A = DOMAIN m_vars /\ \A k \in DOMAIN m_vars : A[k] = IF zapped(k) THEN <<"nondef", n + before(k)>> ELSE args[k]
  BY DEF getZappedArgs
<1>2. DOMAIN m_vars = 1 .. Len(m_vars) /\ Len(m_vars) \in Nat
  BY SequenceFacts DEF VarsOnce
<1>3. ASSUME NEW j \in DOMAIN m_vars, NEW k \in DOMAIN m_vars, zapped(j), zapped(k), j < k
      PROVE  before(j) \in Nat /\ before(k) \in Nat /\ before(j) < before(k)
  <2> DEFINE T == {l \in 1 .. k - 1 : zapped(l)}
  <2>1. j \in T /\ k - 1 \in Nat /\ T \in SUBSET (1 .. k - 1)
    BY <1>2, <1>3
  <2>2. {l \in 1 .. j - 1 : l \in T} = {l \in 1 .. j - 1 : zapped(l)}
    BY <1>2, <1>3
  <2> HIDE DEF zapped
  <2>3. Cardinality(T) \in Nat /\ Cardinality({l \in 1 .. j - 1 : l \in T}) \in Nat
        /\ Cardinality({l \in 1 .. j - 1 : l \in T}) < Cardinality(T)
    <3> HIDE DEF T
    <3> QED
      BY <2>1, CountBefore
  <2> QED
    BY <2>2, <2>3 DEF zapped
<1>4. ASSUME NEW k \in DOMAIN m_vars
      PROVE  before(k) \in Nat
  <2>1. IsFiniteSet(1 .. k - 1)
    BY <1>2, FS_Interval
  <2>2. IsFiniteSet({j \in 1 .. k - 1 : m_vars[j] \in zap})
    BY <2>1, FS_Subset
  <2> QED
    BY <2>2, FS_CardinalityType
<1> HIDE DEF A, before
<1>5. ASSUME NEW j \in DOMAIN m_vars, NEW k \in DOMAIN m_vars,
             A[j][1] = "nondef", A[k][1] = "nondef", A[j][2] = A[k][2]
      PROVE  j = k \/ (~zapped(j) /\ ~zapped(k) /\ args[j][2] = args[k][2])
  <2>1. CASE zapped(j) /\ zapped(k)
    <3>1. n + before(j) = n + before(k)
      BY <1>1, <1>5, <2>1
    <3>2. before(j) = before(k)
      BY <3>1, <1>4
    <3>3. ~(j < k) /\ ~(k < j)
      BY <1>3, <2>1, <3>2
    <3>4. j \in Int /\ k \in Int
      BY <1>2
    <3>5. j = k
      BY <3>3, <3>4
    <3> QED
      BY <3>5
  <2>2. CASE zapped(j) /\ ~zapped(k)
    <3>1. A[j][2] = n + before(j) /\ A[k] = args[k]
      BY <1>1, <2>2
    <3>2. args[k][2] \in Nat /\ args[k][2] < n
      BY <1>5, <3>1
    <3>3. n + before(j) = args[k][2] /\ before(j) \in Nat
      BY <1>4, <1>5, <3>1
    <3> QED
      BY <3>2, <3>3
  <2>3. CASE ~zapped(j) /\ zapped(k)
    <3>1. A[k][2] = n + before(k) /\ A[j] = args[j]
      BY <1>1, <2>3
    <3>2. args[j][2] \in Nat /\ args[j][2] < n
      BY <1>5, <3>1
    <3>3. n + before(k) = args[j][2] /\ before(k) \in Nat
      BY <1>4, <1>5, <3>1
    <3> QED
      BY <3>2, <3>3
  <2>4. CASE ~zapped(j) /\ ~zapped(k)
    BY <1>1, <1>5, <2>4
  <2> QED
    BY <2>1, <2>2, <2>3, <2>4
<1> QED
  BY <1>1, <1>5 DEF A

LEMMA ZappedRow ==
  ASSUME VarsOnce, VarsIn, NEW zap \in SUBSET Globals, NEW n \in Nat, NEW args,
         \A k \in DOMAIN m_vars : args[k][1] = "nondef" => args[k][2] \in Nat /\ args[k][2] < n,
         NEW e, NEW d, FitsArgs(args, e, Row(d)), NEW c \in Envs, \A u \in Vars : u \notin zap => c[u] = d[u]
  PROVE  FitsArgs(getZappedArgs(zap, n, args), e, Row(c))
<1> DEFINE A == getZappedArgs(zap, n, args)
<1>1. /\ DOMAIN A = DOMAIN m_vars
      /\ \A k \in DOMAIN m_vars : IF m_vars[k] \in zap THEN A[k][1] = "nondef" ELSE A[k] = args[k]
      /\ \A j, k \in DOMAIN m_vars :
           A[j][1] = "nondef" /\ A[k][1] = "nondef" /\ A[j][2] = A[k][2] =>
             j = k \/ (m_vars[j] \notin zap /\ m_vars[k] \notin zap /\ args[j][2] = args[k][2])
  BY ZappedNumbers
<1> HIDE DEF A
<1>2. \A k \in DOMAIN m_vars : Row(c)[k] = c[m_vars[k]] /\ Row(d)[k] = d[m_vars[k]] /\ c[m_vars[k]] \in Value
  BY DEF Row, VarsIn, Envs
<1>3. DOMAIN Row(c) = DOMAIN m_vars /\ Row(c) = [k \in DOMAIN m_vars |-> Row(c)[k]] /\ DOMAIN Row(d) = DOMAIN m_vars
  BY DEF Row
<1>4. \A k \in DOMAIN m_vars : m_vars[k] \notin zap => Row(c)[k] = Row(d)[k]
  BY <1>2 DEF VarsIn
<1>5. DOMAIN args = DOMAIN m_vars
  BY <1>3 DEF FitsArgs
<1>6. ASSUME NEW k \in DOMAIN m_vars
      PROVE  IF A[k][1] = "nondef" THEN Row(c)[k] \in Value ELSE Row(c)[k] = PolyValue(A[k], e, <<>>)
  <2>1. CASE m_vars[k] \in zap
    BY <1>1, <1>2, <2>1
  <2>2. CASE m_vars[k] \notin zap
    <3>1. IF args[k][1] = "nondef" THEN Row(d)[k] \in Value ELSE Row(d)[k] = PolyValue(args[k], e, <<>>)
      BY <1>5 DEF FitsArgs
    <3> QED
      BY <1>1, <1>4, <2>2, <3>1
  <2> QED
    BY <2>1, <2>2
<1>7. ASSUME NEW j \in DOMAIN m_vars, NEW k \in DOMAIN m_vars, A[j][1] = "nondef", A[k][1] = "nondef", A[j][2] = A[k][2]
      PROVE  Row(c)[j] = Row(c)[k]
  <2>1. CASE j = k
    BY <2>1
  <2>2. CASE m_vars[j] \notin zap /\ m_vars[k] \notin zap /\ args[j][2] = args[k][2]
    <3>1. A[j] = args[j] /\ A[k] = args[k]
      BY <1>1, <2>2
    <3>2. Row(d)[j] = Row(d)[k]
      BY <1>5, <1>7, <2>2, <3>1 DEF FitsArgs
    <3> QED
      BY <1>4, <2>2, <3>2
  <2> QED
    BY <1>1, <1>7, <2>1, <2>2
<1> QED
  BY <1>1, <1>3, <1>6, <1>7 DEF FitsArgs, A

(* A row in which the variables of V may have changed.                       *)
LEMMA HavocRow ==
  ASSUME VarsIn, NEW e \in Envs, NEW V, NEW a, a = [k \in DOMAIN m_vars |-> a[k]],
         \A k \in DOMAIN m_vars : IF m_vars[k] \in V THEN a[k] \in Value ELSE a[k] = e[m_vars[k]],
         \A j, k \in DOMAIN m_vars : m_vars[j] \in V /\ m_vars[j] = m_vars[k] => a[j] = a[k]
  PROVE  \E c \in Havoc(e, V) : a = Row(c)
<1> DEFINE place(u) == CHOOSE k \in DOMAIN m_vars : m_vars[k] = u
           w == [u \in V |-> IF \E k \in DOMAIN m_vars : m_vars[k] = u THEN a[place(u)] ELSE 0]
           c == [v \in DOMAIN e |-> IF v \in V THEN w[v] ELSE e[v]]
<1>1. ASSUME NEW k \in DOMAIN m_vars, m_vars[k] \in V
      PROVE  a[place(m_vars[k])] = a[k] /\ a[k] \in Value
  <2>1. place(m_vars[k]) \in DOMAIN m_vars /\ m_vars[place(m_vars[k])] = m_vars[k]
    BY DEF place
  <2> HIDE DEF place
  <2> QED
    BY <1>1, <2>1
<1> HIDE DEF place
<1>2. w \in [V -> Value]
  <2>1. ASSUME NEW u \in V
        PROVE  w[u] \in Value
    <3>1. CASE \E k \in DOMAIN m_vars : m_vars[k] = u
      BY <1>1, <3>1
    <3>2. CASE ~ \E k \in DOMAIN m_vars : m_vars[k] = u
      BY <3>2, ValuesAre
    <3> QED
      BY <3>1, <3>2
  <2> QED
    BY <2>1
<1>3. c \in Havoc(e, V)
  <2> HIDE DEF w
  <2> QED
    BY <1>2 DEF Havoc
<1>4. ASSUME NEW k \in DOMAIN m_vars
      PROVE  a[k] = c[m_vars[k]]
  <2>1. DOMAIN e = Vars /\ m_vars[k] \in Vars
    BY DEF Envs, VarsIn
  <2>2. CASE m_vars[k] \in V
    BY <1>1, <2>1, <2>2
  <2>3. CASE m_vars[k] \notin V
    BY <2>1, <2>3
  <2> QED
    BY <2>2, <2>3
<1> HIDE DEF c
<1>5. a = Row(c)
  BY <1>4 DEF Row
<1> QED
  BY <1>3, <1>5

LEMMA ZappedLhsRead ==
  ASSUME VarsOnce, VarsIn, NEW zap \in SUBSET Globals, NEW n \in Nat, NEW e \in Envs,
         NEW a, FitsArgs(getZappedArgs(zap, n, m_lhs), e, a)
  PROVE  \E c \in Havoc(e, zap) : a = Row(c)
<1> DEFINE A == getZappedArgs(zap, n, m_lhs)
<1>1. \A k \in DOMAIN m_vars : m_lhs[k] = <<"var", m_vars[k]>> /\ m_lhs[k][1] = "var"
                               /\ PolyValue(m_lhs[k], e, <<>>) = e[m_vars[k]]
  BY DEF m_lhs, PolyValue
<1>2. DOMAIN A = DOMAIN m_vars
      /\ \A k \in DOMAIN m_vars : IF m_vars[k] \in zap THEN A[k][1] = "nondef" ELSE A[k] = m_lhs[k]
  BY <1>1, ZappedNumbers
<1>3. FitsArgs(A, e, a)
  OBVIOUS
<1> HIDE DEF A
<1>4. a = [k \in DOMAIN m_vars |-> a[k]]
  BY <1>2, <1>3 DEF FitsArgs
<1>5. \A k \in DOMAIN m_vars : IF m_vars[k] \in zap THEN a[k] \in Value ELSE a[k] = e[m_vars[k]]
  BY <1>1, <1>2, <1>3 DEF FitsArgs
<1>6. \A j, k \in DOMAIN m_vars : m_vars[j] \in zap /\ m_vars[j] = m_vars[k] => a[j] = a[k]
  BY DEF VarsOnce
<1> QED
  BY <1>4, <1>5, <1>6, HavocRow

LEMMA ZappedResultRead ==
  ASSUME VarsOnce, VarsIn, NEW zap \in SUBSET Globals, NEW n \in Nat, NEW m \in Nat, m < n, NEW e \in Envs,
         NEW v, v \notin Globals,
         NEW a, FitsArgs(getZappedArgs(zap, n, getNewArgs(v, <<"nondef", m>>)), e, a)
  PROVE  \E c \in Havoc(e, {v} \cup zap) : a = Row(c)
<1> DEFINE B == getNewArgs(v, <<"nondef", m>>)
           A == getZappedArgs(zap, n, B)
<1>1. \A k \in DOMAIN m_vars : /\ B[k] = IF m_vars[k] = v THEN <<"nondef", m>> ELSE <<"var", m_vars[k]>>
                               /\ PolyValue(<<"var", m_vars[k]>>, e, <<>>) = e[m_vars[k]]
  BY DEF getNewArgs, m_lhs, PolyValue
<1> HIDE DEF B
<1>0. \A k \in DOMAIN m_vars : IF m_vars[k] = v THEN B[k][1] = "nondef" /\ B[k][2] = m ELSE B[k][1] = "var"
  <2>1. ASSUME NEW k \in DOMAIN m_vars
        PROVE  IF m_vars[k] = v THEN B[k][1] = "nondef" /\ B[k][2] = m ELSE B[k][1] = "var"
    <3>1. CASE m_vars[k] = v
      <4>1. B[k] = <<"nondef", m>>
        BY <1>1, <3>1
      <4> QED
        BY <3>1, <4>1
    <3>2. CASE m_vars[k] # v
      <4>1. B[k] = <<"var", m_vars[k]>>
        BY <1>1, <3>2
      <4> QED
        BY <3>2, <4>1
    <3> QED
      BY <3>1, <3>2
  <2> QED
    BY <2>1
<1>2. \A k \in DOMAIN m_vars : B[k][1] = "nondef" => B[k][2] \in Nat /\ B[k][2] < n
  BY <1>0
<1>3. DOMAIN A = DOMAIN m_vars
      /\ \A k \in DOMAIN m_vars : IF m_vars[k] \in zap THEN A[k][1] = "nondef" ELSE A[k] = B[k]
  BY <1>2, ZappedNumbers
<1>4. FitsArgs(A, e, a)
  BY DEF B
<1> HIDE DEF A
<1>5. a = [k \in DOMAIN m_vars |-> a[k]]
  BY <1>3, <1>4 DEF FitsArgs
<1>6. ASSUME NEW k \in DOMAIN m_vars
      PROVE  IF m_vars[k] \in {v} \cup zap THEN a[k] \in Value ELSE a[k] = e[m_vars[k]]
  <2>1. CASE m_vars[k] \in zap
    BY <1>3, <1>4, <2>1 DEF FitsArgs
  <2>2. CASE m_vars[k] \notin zap /\ m_vars[k] = v
    <3>1. A[k] = <<"nondef", m>>
      BY <1>1, <1>3, <2>2
    <3> QED
      BY <1>3, <1>4, <2>2, <3>1 DEF FitsArgs
  <2>3. CASE m_vars[k] \notin zap /\ m_vars[k] # v
    <3>1. A[k] = <<"var", m_vars[k]>> /\ A[k][1] # "nondef"
      BY <1>0, <1>1, <1>3, <2>3
    <3>2. a[k] = PolyValue(<<"var", m_vars[k]>>, e, <<>>)
      BY <1>3, <1>4, <3>1 DEF FitsArgs
    <3> QED
      BY <1>1, <2>3, <3>2
  <2> QED
    BY <2>1, <2>2, <2>3
<1>7. ASSUME NEW j \in DOMAIN m_vars, NEW k \in DOMAIN m_vars, m_vars[j] \in {v} \cup zap, m_vars[j] = m_vars[k]
      PROVE  a[j] = a[k]
  <2>1. CASE m_vars[j] \in zap
    BY <1>7, <2>1 DEF VarsOnce
  <2>2. CASE m_vars[j] \notin zap
    <3>1. A[j][1] = "nondef" /\ A[k][1] = "nondef" /\ A[j][2] = A[k][2]
      BY <1>0, <1>3, <1>7, <2>2
    <3> QED
      BY <1>3, <1>4, <3>1 DEF FitsArgs
  <2> QED
    BY <2>1, <2>2
<1> QED
  BY <1>5, <1>6, <1>7, HavocRow

-----------------------------------------------------------------------------
(* Conditions.                                                              *)

LEMMA NoAtoms == ASSUME NEW e PROVE AtomsHold({}, e)
BY DEF AtomsHold

LEMMA ConditionHolds ==
  ASSUME NEW c, NEW e, NEW t, Holds(c, e, t), NEW positive \in BOOLEAN, t[c] <=> positive
  PROVE  AtomsHold(getCondition(c, positive), e)
BY DEF AtomsHold, getCondition, Holds

LEMMA ConditionRead ==
  ASSUME exactlyTranslated, NEW c \in Comparisons, NEW e, NEW t, Holds(c, e, t), NEW positive \in BOOLEAN,
         AtomsHold(getCondition(c, positive), e)
  PROVE  t[c] <=> positive
<1>1. InstrAt(c).op = "icmp" /\ InstrAt(c).x[1] # "undef"
  BY DEF Comparisons, exactlyTranslated
<1>2. getCondition(c, positive) = {<<InstrAt(c).x, positive>>}
  BY <1>1 DEF getCondition
<1>3. PolyValue(InstrAt(c).x, e, <<>>) > 0 <=> positive
  BY <1>2 DEF AtomsHold
<1> QED
  BY <1>1, <1>3 DEF Holds

(* Every condition known at a block holds wherever the run is in the block.  *)
LEMMA KnownHold ==
  ASSUME fn \in Functions, NEW p, NEW e, NEW t, InBlock(p), RunOK(p, e, t)
  PROVE  AtomsHold(buildConjunction(p[1]), e)
<1>1. Point(p) /\ t \in Bools /\ ComparisonsHold(p, e, t) /\ AssumesPassed(p, t) /\ EdgesTaken(p, t)
  BY InBlockIsPoint DEF RunOK
<1>2. ASSUME NEW f \in knownConditions(p[1])
      PROVE  f[2] \in BOOLEAN /\ f[1] \in Comparisons /\ Precedes(fn, f[1], p) /\ (t[f[1]] <=> f[2])
  <2>1. p[1] # entry
    BY <1>2 DEF knownConditions
  <2> DEFINE E == {d \in Blocks \X {1, 2} :
                     /\ Len(fn.succ[d[1]]) = 2 /\ d[1] # p[1]
                     /\ options.onlyLoopConditions => d[1] \in fn.lcbs
                     /\ p[1] \notin Reached(fn, entry, {<<d[1], fn.succ[d[1]][d[2]]>>})}
             P == {q \in Places :
                     /\ InstrAt(q).op = "assume" /\ q[1] # p[1]
                     /\ ~options.onlyLoopConditions
                     /\ p[1] \notin Reached(fn, entry, {q[1]} \X Blocks)}
  <2>2. f \in {<<fn.cond[d[1]], d[2] = 1>> : d \in E} \cup {<<InstrAt(q).c, TRUE>> : q \in P}
    BY <1>2, <2>1 DEF knownConditions
  <2>3. CASE f \in {<<fn.cond[d[1]], d[2] = 1>> : d \in E}
    <3>1. PICK d \in E : f = <<fn.cond[d[1]], d[2] = 1>>
      BY <2>3
    <3>2. /\ d[1] \in Blocks /\ d[2] \in {1, 2} /\ Len(fn.succ[d[1]]) = 2 /\ d[1] # p[1]
          /\ p[1] \notin Reached(fn, entry, {<<d[1], fn.succ[d[1]][d[2]]>>})
      OBVIOUS
    <3>3. fn.cond[d[1]] \in Comparisons /\ Precedes(fn, fn.cond[d[1]], p)
      BY <1>1, <2>1, <3>2, EdgeCondition
    <3>4. t[fn.cond[d[1]]] <=> d[2] = 1
      BY <1>1, <2>1, <3>2 DEF EdgesTaken
    <3>5. f[1] = fn.cond[d[1]] /\ f[2] = (d[2] = 1)
      BY <3>1
    <3> QED
      BY <3>3, <3>4, <3>5
  <2>4. CASE f \in {<<InstrAt(q).c, TRUE>> : q \in P}
    <3>1. PICK q \in P : f = <<InstrAt(q).c, TRUE>>
      BY <2>4
    <3>2. q \in Places /\ InstrAt(q).op = "assume" /\ q[1] # p[1] /\ p[1] \notin Without(q[1])
      BY <2>1 DEF Without
    <3>3. Precedes(fn, q, p)
      BY <3>2, PrecedesIs
    <3>4. InstrAt(q).c \in Comparisons /\ Precedes(fn, InstrAt(q).c, q)
      BY <3>2, UsesAre
    <3>5. Precedes(fn, InstrAt(q).c, p)
      BY <1>1, <3>2, <3>3, <3>4, PlacesAre, PrecedesOn DEF Comparisons
    <3>6. t[InstrAt(q).c]
      BY <1>1, <3>2, <3>3 DEF AssumesPassed
    <3> QED
      BY <3>1, <3>4, <3>5, <3>6
  <2> QED
    BY <2>2, <2>3, <2>4
<1>3. ASSUME NEW f \in knownConditions(p[1])
      PROVE  AtomsHold(getCondition(f[1], f[2]), e)
  <2>1. Holds(f[1], e, t)
    BY <1>1, <1>2 DEF ComparisonsHold
  <2> QED
    BY <1>2, <2>1, ConditionHolds
<1>4. ASSUME NEW a \in buildConjunction(p[1])
      PROVE  PolyValue(a[1], e, <<>>) > 0 <=> a[2]
  <2>1. PICK f \in knownConditions(p[1]) : a \in getCondition(f[1], f[2])
    BY DEF buildConjunction
  <2> QED
    BY <1>3, <2>1 DEF AtomsHold
<1> QED
  BY <1>4 DEF AtomsHold

-----------------------------------------------------------------------------
(* The alternatives of one instruction.                                      *)

LEMMA OperandTerm ==
  ASSUME fn \in Functions, NEW x \in Operand, NEW q, UsesDefined(fn, x, q), NEW n, NEW e \in Envs
  PROVE  LET p == getPolynomial(x, n)
         IN  /\ Term(p)
             /\ p[1] = "nondef" => Val(x, e) = Value
             /\ p[1] # "nondef" => Val(x, e) = {PolyValue(p, e, <<>>)}
             /\ Val(x, e) \subseteq Value
<1>1. x[1] \in {"var", "const", "undef"} /\ Val(x, e) \subseteq Value
  BY OperandFacts
<1> QED
  BY <1>1 DEF getPolynomial, Term, Val, PolyValue

LEMMA OperandAlternative ==
  ASSUME fn \in Functions, VarsIn, NEW x \in Operand, NEW q, UsesDefined(fn, x, q), NEW n, NEW e \in Envs, NEW v \in Vars
  PROVE  LET args == getNewArgs(v, getPolynomial(x, n))
         IN  /\ \A c \in Assign(e, v, Val(x, e)) : FitsArgs(args, e, Row(c))
             /\ \A a : FitsArgs(args, e, a) => \E c \in Assign(e, v, Val(x, e)) : a = Row(c)
<1> DEFINE p == getPolynomial(x, n)
           S == Val(x, e)
<1>1. /\ Term(p)
      /\ p[1] = "nondef" => S = Value
      /\ p[1] # "nondef" => S = {PolyValue(p, e, <<>>)}
      /\ S \subseteq Value
  BY OperandTerm
<1> HIDE DEF p, S
<1>2. ASSUME NEW c \in Assign(e, v, S)
      PROVE  FitsArgs(getNewArgs(v, p), e, Row(c))
  <2>1. c \in Envs /\ \A u \in Vars : u # v => c[u] = e[u]
    BY <1>1, AssignType
  <2>2. p[1] = "nondef" \/ c[v] = PolyValue(p, e, <<>>)
    BY <1>1 DEF Assign, Envs
  <2> QED
    BY <1>1, <2>1, <2>2, NewArgsRow
<1>3. ASSUME NEW a, FitsArgs(getNewArgs(v, p), e, a)
      PROVE  \E c \in Assign(e, v, S) : a = Row(c)
  <2>1. PICK y \in S : a = Row([e EXCEPT ![v] = y])
    <3>1. CASE p[1] = "nondef"
      BY <1>1, <1>3, <3>1, NondefRead
    <3>2. CASE p[1] # "nondef"
      BY <1>1, <1>3, <3>2, ValueRead
    <3> QED
      BY <3>1, <3>2
  <2>2. y \in S
    OBVIOUS
  <2>3. [e EXCEPT ![v] = y] \in Assign(e, v, S)
    BY <2>2 DEF Assign
  <2> QED
    BY <2>1, <2>3
<1> QED
  BY <1>2, <1>3 DEF p, S

LEMMA NondefAlternative ==
  ASSUME VarsIn, NEW n, NEW e \in Envs, NEW v \in Vars
  PROVE  LET args == getNewArgs(v, <<"nondef", n>>)
         IN  /\ \A c \in Envs : (\A u \in Vars : u # v => c[u] = e[u]) => FitsArgs(args, e, Row(c))
             /\ \A a : FitsArgs(args, e, a) =>
                  (\E c \in Assign(e, v, Value) : a = Row(c)) /\ (\E c \in Havoc(e, {v}) : a = Row(c))
<1> DEFINE p == <<"nondef", n>>
<1>1. Term(p) /\ p[1] = "nondef"
  BY DEF Term
<1> HIDE DEF p
<1>2. ASSUME NEW c \in Envs, \A u \in Vars : u # v => c[u] = e[u]
      PROVE  FitsArgs(getNewArgs(v, p), e, Row(c))
  BY <1>1, <1>2, NewArgsRow
<1>3. ASSUME NEW a, FitsArgs(getNewArgs(v, p), e, a)
      PROVE  (\E c \in Assign(e, v, Value) : a = Row(c)) /\ (\E c \in Havoc(e, {v}) : a = Row(c))
  <2>1. PICK y \in Value : a = Row([e EXCEPT ![v] = y])
    BY <1>1, <1>3, NondefRead
  <2>2. [e EXCEPT ![v] = y] \in Assign(e, v, Value)
    BY DEF Assign
  <2>3. [e EXCEPT ![v] = y] \in Havoc(e, {v})
    <3>1. [u \in {v} |-> y] \in [{v} -> Value]
      OBVIOUS
    <3>2. [e EXCEPT ![v] = y] = [u \in DOMAIN e |-> IF u \in {v} THEN [u2 \in {v} |-> y][u] ELSE e[u]]
      BY DEF Envs
    <3> QED
      BY <3>1, <3>2 DEF Havoc
  <2> QED
    BY <2>1, <2>2, <2>3
<1> QED
  BY <1>2, <1>3 DEF p

(* The comparison instruction p uses still holds.                            *)
Conforms(p, e, t) == InstrAt(p).op \in {"select", "zext", "assume"} => Holds(InstrAt(p).c, e, t)

AltsCover(p, A) ==
  \A e \in Envs, t \in Bools : Conforms(p, e, t) =>
    \A c \in Effects(InstrAt(p), Result(p), e, t) :
      \E x \in A : AtomsHold(x[2], e) /\ FitsArgs(x[1], e, Row(c))

AltsFaithful(p, A) ==
  exactlyTranslated =>
    \A e \in Envs, t \in Bools : Conforms(p, e, t) =>
      \A x \in A : \A a : AtomsHold(x[2], e) /\ FitsArgs(x[1], e, a) =>
        \E c \in Effects(InstrAt(p), Result(p), e, t) : a = Row(c)

LEMMA HereFacts ==
  ASSUME fn \in Functions, here \in Places
  PROVE  InstrAt(here) = I /\ (hasResult(I) => Result(here) \in Vars) /\ Result(here) \notin Globals
<1>1. InstrAt(here) = I
  BY DEF InstrAt, here, I
<1> QED
  BY <1>1, VarsApart

LEMMA ArithmeticAlts ==
  ASSUME fn \in Functions, VarsIn, here \in Places, I.op = "arith"
  PROVE  LET A == {<<setResult(<<"one-", I.x[2]>>), {}>>} IN AltsCover(here, A) /\ AltsFaithful(here, A)
<1> DEFINE v == Result(here)
           p == <<"one-", I.x[2]>>
           args == setResult(p)
<1>1. InstrAt(here) = I /\ v \in Vars /\ args = getNewArgs(v, p)
  BY HereFacts DEF hasResult, setResult
<1>2. I.x \in Operand /\ UsesDefined(fn, I.x, here) /\ I.x[1] = "var"
  BY <1>1, UsesAre, InstructionTypes
<1>3. Term(p) /\ p[1] # "nondef"
  BY DEF Term
<1>4. ASSUME NEW e \in Envs, NEW t
      PROVE  /\ PolyValue(p, e, <<>>) \in Value
             /\ Effects(I, v, e, t) = Assign(e, v, {PolyValue(p, e, <<>>)})
  <2>1. Val(I.x, e) = {e[I.x[2]]} /\ e[I.x[2]] \in Value
    BY <1>2, OperandFacts DEF Val
  <2>2. PolyValue(p, e, <<>>) = 1 - e[I.x[2]]
    BY DEF PolyValue
  <2>3. {1 - a : a \in Val(I.x, e)} = {PolyValue(p, e, <<>>)}
    BY <2>1, <2>2
  <2>4. Effects(I, v, e, t) = Assign(e, v, {1 - a : a \in Val(I.x, e)})
    BY DEF Effects
  <2> QED
    BY <2>1, <2>2, <2>3, <2>4, ValuesAre
<1> HIDE DEF v, p
<1>5. ASSUME NEW e \in Envs, NEW t, NEW c \in Effects(I, v, e, t)
      PROVE  FitsArgs(args, e, Row(c))
  <2>1. c \in Envs /\ (\A u \in Vars : u # v => c[u] = e[u]) /\ c[v] = PolyValue(p, e, <<>>)
    <3>1. c \in Assign(e, v, {PolyValue(p, e, <<>>)}) /\ {PolyValue(p, e, <<>>)} \subseteq Value
      BY <1>4, <1>5
    <3>2. c[v] = PolyValue(p, e, <<>>)
      BY <3>1, <1>1 DEF Assign, Envs
    <3> QED
      BY <3>1, <3>2, AssignType
  <2> QED
    BY <1>1, <1>3, <2>1, NewArgsRow
<1>6. ASSUME NEW e \in Envs, NEW t, NEW a, FitsArgs(args, e, a)
      PROVE  \E c \in Effects(I, v, e, t) : a = Row(c)
  <2>1. v \in Vars /\ PolyValue(p, e, <<>>) \in Value /\ FitsArgs(getNewArgs(v, p), e, a)
    BY <1>1, <1>4, <1>6
  <2>2. a = Row([e EXCEPT ![v] = PolyValue(p, e, <<>>)])
    BY <1>3, <2>1, ValueRead
  <2>3. [e EXCEPT ![v] = PolyValue(p, e, <<>>)] \in Assign(e, v, {PolyValue(p, e, <<>>)})
    BY DEF Assign
  <2> QED
    BY <1>4, <2>2, <2>3
<1> DEFINE A == {<<args, {}>>}
<1>7. AltsCover(here, A)
  <2> SUFFICES ASSUME NEW e \in Envs, NEW t \in Bools, NEW c \in Effects(I, v, e, t)
               PROVE  \E x \in A : AtomsHold(x[2], e) /\ FitsArgs(x[1], e, Row(c))
    BY <1>1 DEF AltsCover, v
  <2> QED
    BY <1>5, NoAtoms
<1>8. AltsFaithful(here, A)
  <2> SUFFICES ASSUME NEW e \in Envs, NEW t \in Bools, NEW a, FitsArgs(args, e, a)
               PROVE  \E c \in Effects(I, v, e, t) : a = Row(c)
    BY <1>1 DEF AltsFaithful, v
  <2> QED
    BY <1>6
<1> QED
  BY <1>7, <1>8 DEF p

LEMMA InstructionAlts ==
  ASSUME fn \in Functions, VarsIn, here \in Places, I.op \in {"nondef", "other"}
  PROVE  LET A == {<<setResult(newNondef), {}>>} IN AltsCover(here, A) /\ AltsFaithful(here, A)
<1> DEFINE v == Result(here)
           args == setResult(newNondef)
<1>1. InstrAt(here) = I /\ v \in Vars /\ args = getNewArgs(v, <<"nondef", m_nondef>>)
  BY HereFacts DEF hasResult, setResult, newNondef
<1>2. \A e, t : Effects(I, v, e, t) = Havoc(e, {v})
  BY DEF Effects
<1> HIDE DEF v, args
<1>5. ASSUME NEW e \in Envs, NEW t, NEW c \in Effects(I, v, e, t)
      PROVE  FitsArgs(args, e, Row(c))
  <2>1. c \in Envs /\ \A u \in Vars : u # v => c[u] = e[u]
    BY <1>2, <1>5, HavocType
  <2> QED
    BY <1>1, <2>1, NondefAlternative
<1>6. ASSUME NEW e \in Envs, NEW t, NEW a, FitsArgs(args, e, a)
      PROVE  \E c \in Effects(I, v, e, t) : a = Row(c)
  BY <1>1, <1>2, <1>6, NondefAlternative
<1> DEFINE A == {<<args, {}>>}
<1>7. AltsCover(here, A)
  <2> SUFFICES ASSUME NEW e \in Envs, NEW t \in Bools, NEW c \in Effects(I, v, e, t)
               PROVE  \E x \in A : AtomsHold(x[2], e) /\ FitsArgs(x[1], e, Row(c))
    BY <1>1 DEF AltsCover, v
  <2> QED
    BY <1>5, NoAtoms
<1>8. AltsFaithful(here, A)
  <2> SUFFICES ASSUME NEW e \in Envs, NEW t \in Bools, NEW a, FitsArgs(args, e, a)
               PROVE  \E c \in Effects(I, v, e, t) : a = Row(c)
    BY <1>1 DEF AltsFaithful, v
  <2> QED
    BY <1>6
<1> QED
  BY <1>7, <1>8 DEF args

(* What of a condition an option leaves.                                     *)
LEMMA KeptConditionHolds ==
  ASSUME NEW c, NEW e, NEW t, Holds(c, e, t), NEW positive \in BOOLEAN, t[c] <=> positive,
         NEW cond, cond \in {{}, getCondition(c, positive)}
  PROVE  AtomsHold(cond, e)
BY NoAtoms, ConditionHolds

LEMMA AssumeAlts ==
  ASSUME fn \in Functions, VarsIn, here \in Places, I.op = "assume",
         NEW cond, cond = IF options.onlyLoopConditions THEN {} ELSE getCondition(I.c, TRUE)
  PROVE  LET A == {<<m_lhs, cond>>} IN AltsCover(here, A) /\ AltsFaithful(here, A)
<1> DEFINE v == Result(here)
           A == {<<m_lhs, cond>>}
<1>1. InstrAt(here) = I /\ I.c \in Comparisons
  BY HereFacts, UsesAre
<1>2. \A e, t : Effects(I, v, e, t) = IF t[I.c] THEN {e} ELSE {}
  BY DEF Effects
<1>3. AltsCover(here, A)
  <2> SUFFICES ASSUME NEW e \in Envs, NEW t \in Bools, Conforms(here, e, t), NEW c \in Effects(I, v, e, t)
               PROVE  \E x \in A : AtomsHold(x[2], e) /\ FitsArgs(x[1], e, Row(c))
    BY <1>1 DEF AltsCover
  <2>1. t[I.c] /\ c = e /\ t[I.c] \in BOOLEAN
    BY <1>1, <1>2 DEF Bools
  <2>2. Holds(I.c, e, t)
    BY <1>1 DEF Conforms
  <2>3. AtomsHold(cond, e)
    BY <2>1, <2>2, KeptConditionHolds
  <2>4. FitsArgs(m_lhs, e, Row(c))
    BY <2>1, LhsRow
  <2> QED
    BY <2>3, <2>4
<1>4. AltsFaithful(here, A)
  <2> SUFFICES ASSUME exactlyTranslated, NEW e \in Envs, NEW t \in Bools, Conforms(here, e, t), NEW x \in A,
                      NEW a, AtomsHold(x[2], e), FitsArgs(x[1], e, a)
               PROVE  \E c \in Effects(I, v, e, t) : a = Row(c)
    <3>1. InstrAt(here) = I
      BY <1>1
    <3> HIDE DEF A
    <3> QED
      BY <3>1 DEF AltsFaithful
  <2>1. Holds(I.c, e, t) /\ cond = getCondition(I.c, TRUE) /\ x = <<m_lhs, cond>>
    BY <1>1 DEF Conforms, exactlyTranslated
  <2>2. t[I.c]
    BY <1>1, <2>1, ConditionRead
  <2>3. a = Row(e)
    BY LhsRow
  <2> QED
    BY <1>2, <2>2, <2>3
<1> QED
  BY <1>3, <1>4

LEMMA SelectAlts ==
  ASSUME fn \in Functions, VarsIn, here \in Places, I.op = "select", NEW n, NEW m, NEW yes, NEW no,
         yes = IF options.onlyLoopConditions THEN {} ELSE getCondition(I.c, TRUE),
         no = IF options.onlyLoopConditions THEN {} ELSE getCondition(I.c, FALSE)
  PROVE  LET A == {<<setResult(getPolynomial(I.x, n)), yes>>, <<setResult(getPolynomial(I.y, m)), no>>}
         IN  AltsCover(here, A) /\ AltsFaithful(here, A)
<1> DEFINE v == Result(here)
           first == setResult(getPolynomial(I.x, n))
           second == setResult(getPolynomial(I.y, m))
           A == {<<first, yes>>, <<second, no>>}
<1>1. InstrAt(here) = I /\ I.c \in Comparisons /\ v \in Vars
      /\ I.x \in Operand /\ UsesDefined(fn, I.x, here) /\ I.y \in Operand /\ UsesDefined(fn, I.y, here)
  BY HereFacts, UsesAre DEF hasResult
<1>2. \A e, t : Effects(I, v, e, t) = Assign(e, v, Val(IF t[I.c] THEN I.x ELSE I.y, e))
  BY DEF Effects
<1>3. ASSUME NEW e \in Envs
      PROVE  /\ \A c \in Assign(e, v, Val(I.x, e)) : FitsArgs(first, e, Row(c))
             /\ \A a : FitsArgs(first, e, a) => \E c \in Assign(e, v, Val(I.x, e)) : a = Row(c)
             /\ \A c \in Assign(e, v, Val(I.y, e)) : FitsArgs(second, e, Row(c))
             /\ \A a : FitsArgs(second, e, a) => \E c \in Assign(e, v, Val(I.y, e)) : a = Row(c)
  BY <1>1, OperandAlternative DEF setResult
<1> HIDE DEF first, second
<1>4. AltsCover(here, A)
  <2> SUFFICES ASSUME NEW e \in Envs, NEW t \in Bools, Conforms(here, e, t), NEW c \in Effects(I, v, e, t)
               PROVE  \E x \in A : AtomsHold(x[2], e) /\ FitsArgs(x[1], e, Row(c))
    BY <1>1 DEF AltsCover
  <2>1. t[I.c] \in BOOLEAN
    BY <1>1 DEF Bools
  <2>2. Holds(I.c, e, t)
    BY <1>1 DEF Conforms
  <2>3. CASE t[I.c]
    <3>1. AtomsHold(yes, e)
      BY <2>2, <2>3, KeptConditionHolds
    <3>2. FitsArgs(first, e, Row(c))
      BY <1>2, <1>3, <2>3
    <3> QED
      BY <3>1, <3>2
  <2>4. CASE ~t[I.c]
    <3>1. AtomsHold(no, e)
      BY <2>2, <2>4, KeptConditionHolds
    <3>2. FitsArgs(second, e, Row(c))
      BY <1>2, <1>3, <2>4
    <3> QED
      BY <3>1, <3>2
  <2> QED
    BY <2>1, <2>3, <2>4
<1>5. AltsFaithful(here, A)
  <2> SUFFICES ASSUME exactlyTranslated, NEW e \in Envs, NEW t \in Bools, Conforms(here, e, t), NEW x \in A,
                      NEW a, AtomsHold(x[2], e), FitsArgs(x[1], e, a)
               PROVE  \E c \in Effects(I, v, e, t) : a = Row(c)
    <3>1. InstrAt(here) = I
      BY <1>1
    <3> HIDE DEF A
    <3> QED
      BY <3>1 DEF AltsFaithful
  <2>1. Holds(I.c, e, t) /\ yes = getCondition(I.c, TRUE) /\ no = getCondition(I.c, FALSE)
    BY <1>1 DEF Conforms, exactlyTranslated
  <2>2. CASE x = <<first, yes>>
    <3>1. t[I.c]
      BY <1>1, <2>1, <2>2, ConditionRead
    <3>2. FitsArgs(first, e, a)
      BY <2>2
    <3> QED
      BY <1>2, <1>3, <3>1, <3>2
  <2>3. CASE x = <<second, no>>
    <3>1. ~t[I.c]
      BY <1>1, <2>1, <2>3, ConditionRead
    <3>2. FitsArgs(second, e, a)
      BY <2>3
    <3> QED
      BY <1>2, <1>3, <3>1, <3>2
  <2> QED
    BY <2>2, <2>3
<1> QED
  BY <1>4, <1>5 DEF first, second

LEMMA ZExtAlts ==
  ASSUME fn \in Functions, VarsIn, here \in Places, I.op = "zext"
  PROVE  LET A == {<<setResult(<<"const", 0>>), getCondition(I.c, FALSE)>>, <<setResult(<<"const", 1>>), getCondition(I.c, TRUE)>>}
         IN  AltsCover(here, A) /\ AltsFaithful(here, A)
<1> DEFINE v == Result(here)
           zero == <<"const", 0>>
           one == <<"const", 1>>
           no == getCondition(I.c, FALSE)
           yes == getCondition(I.c, TRUE)
           A == {<<setResult(zero), no>>, <<setResult(one), yes>>}
<1>1. InstrAt(here) = I /\ I.c \in Comparisons /\ v \in Vars
  BY HereFacts, UsesAre DEF hasResult
<1>2. \A e, t : Effects(I, v, e, t) = Assign(e, v, {IF t[I.c] THEN 1 ELSE 0})
  BY DEF Effects
<1>3. zero \in Operand /\ one \in Operand /\ UsesDefined(fn, zero, here) /\ UsesDefined(fn, one, here)
  BY ValuesAre DEF Operand, UsesDefined
<1>4. /\ getPolynomial(zero, 0) = zero /\ getPolynomial(one, 0) = one
      /\ \A e : Val(zero, e) = {0} /\ Val(one, e) = {1}
  BY DEF getPolynomial, Val
<1>5. ASSUME NEW e \in Envs
      PROVE  /\ \A c \in Assign(e, v, {0}) : FitsArgs(setResult(zero), e, Row(c))
             /\ \A a : FitsArgs(setResult(zero), e, a) => \E c \in Assign(e, v, {0}) : a = Row(c)
             /\ \A c \in Assign(e, v, {1}) : FitsArgs(setResult(one), e, Row(c))
             /\ \A a : FitsArgs(setResult(one), e, a) => \E c \in Assign(e, v, {1}) : a = Row(c)
  <2>1. /\ \A c \in Assign(e, v, Val(zero, e)) : FitsArgs(getNewArgs(v, getPolynomial(zero, 0)), e, Row(c))
        /\ \A a : FitsArgs(getNewArgs(v, getPolynomial(zero, 0)), e, a) => \E c \in Assign(e, v, Val(zero, e)) : a = Row(c)
    BY <1>1, <1>3, OperandAlternative
  <2>2. /\ \A c \in Assign(e, v, Val(one, e)) : FitsArgs(getNewArgs(v, getPolynomial(one, 0)), e, Row(c))
        /\ \A a : FitsArgs(getNewArgs(v, getPolynomial(one, 0)), e, a) => \E c \in Assign(e, v, Val(one, e)) : a = Row(c)
    BY <1>1, <1>3, OperandAlternative
  <2> QED
    BY <1>4, <2>1, <2>2 DEF setResult
<1> HIDE DEF zero, one, yes, no
<1>6. AltsCover(here, A)
  <2> SUFFICES ASSUME NEW e \in Envs, NEW t \in Bools, Conforms(here, e, t), NEW c \in Effects(I, v, e, t)
               PROVE  \E x \in A : AtomsHold(x[2], e) /\ FitsArgs(x[1], e, Row(c))
    BY <1>1 DEF AltsCover
  <2>1. t[I.c] \in BOOLEAN
    BY <1>1 DEF Bools
  <2>2. Holds(I.c, e, t)
    BY <1>1 DEF Conforms
  <2>3. CASE t[I.c]
    <3>1. AtomsHold(yes, e)
      BY <2>2, <2>3, ConditionHolds DEF yes
    <3>2. FitsArgs(setResult(one), e, Row(c))
      BY <1>2, <1>5, <2>3
    <3> QED
      BY <3>1, <3>2
  <2>4. CASE ~t[I.c]
    <3>1. AtomsHold(no, e)
      BY <2>2, <2>4, ConditionHolds DEF no
    <3>2. FitsArgs(setResult(zero), e, Row(c))
      BY <1>2, <1>5, <2>4
    <3> QED
      BY <3>1, <3>2
  <2> QED
    BY <2>1, <2>3, <2>4
<1>7. AltsFaithful(here, A)
  <2> SUFFICES ASSUME exactlyTranslated, NEW e \in Envs, NEW t \in Bools, Conforms(here, e, t), NEW x \in A,
                      NEW a, AtomsHold(x[2], e), FitsArgs(x[1], e, a)
               PROVE  \E c \in Effects(I, v, e, t) : a = Row(c)
    BY <1>1 DEF AltsFaithful
  <2>1. Holds(I.c, e, t)
    BY <1>1 DEF Conforms
  <2>2. CASE x = <<setResult(one), yes>>
    <3>1. t[I.c]
      BY <1>1, <2>1, <2>2, ConditionRead DEF yes
    <3>2. FitsArgs(setResult(one), e, a)
      BY <2>2
    <3> QED
      BY <1>2, <1>5, <3>1, <3>2
  <2>3. CASE x = <<setResult(zero), no>>
    <3>1. ~t[I.c]
      BY <1>1, <2>1, <2>3, ConditionRead DEF no
    <3>2. FitsArgs(setResult(zero), e, a)
      BY <2>3
    <3> QED
      BY <1>2, <1>5, <3>1, <3>2
  <2> QED
    BY <2>2, <2>3
<1> QED
  BY <1>6, <1>7 DEF zero, one, yes, no

LEMMA OneAlternative ==
  ASSUME InstrAt(here) = I, NEW args
  PROVE  /\ (\A e \in Envs : \A t : \A c \in Effects(I, Result(here), e, t) : FitsArgs(args, e, Row(c)))
              => AltsCover(here, {<<args, {}>>})
         /\ (exactlyTranslated => \A e \in Envs : \A t, a :
               FitsArgs(args, e, a) => \E c \in Effects(I, Result(here), e, t) : a = Row(c))
              => AltsFaithful(here, {<<args, {}>>})
<1>1. ASSUME \A e \in Envs : \A t : \A c \in Effects(I, Result(here), e, t) : FitsArgs(args, e, Row(c))
      PROVE  AltsCover(here, {<<args, {}>>})
  BY <1>1, NoAtoms DEF AltsCover
<1>2. ASSUME exactlyTranslated => \A e \in Envs : \A t, a :
               FitsArgs(args, e, a) => \E c \in Effects(I, Result(here), e, t) : a = Row(c)
      PROVE  AltsFaithful(here, {<<args, {}>>})
  BY <1>2 DEF AltsFaithful
<1> QED
  BY <1>1, <1>2

LEMMA UniqueIs ==
  ASSUME NEW mays, NEW musts, musts # {}, IsFiniteSet(musts)
  PROVE  /\ the(musts) \in musts
         /\ unique(mays, musts) => musts = {the(musts)} /\ mays = {}
<1>1. the(musts) \in musts
  BY DEF the
<1>2. ASSUME unique(mays, musts)
      PROVE  musts = {the(musts)} /\ mays = {}
  <2>1. Cardinality(musts) = 1 /\ mays = {}
    BY <1>2 DEF unique
  <2>2. \E x : musts = {x}
    BY <2>1, FS_Singleton
  <2> QED
    BY <1>1, <2>1, <2>2
<1> QED
  BY <1>1, <1>2

LEMMA AliasIs ==
  ASSUME fn \in Functions, here \in Places, I.op \in {"load", "store"}
  PROVE  /\ DOMAIN I.alias = Globals /\ \A g \in Globals : I.alias[g] \in {"No", "May", "Partial", "Must"}
         /\ loadMust(I.alias) = {g \in Globals : I.alias[g] = "Must"} /\ IsFiniteSet(loadMust(I.alias))
         /\ storeMust(I.alias) = {g \in Globals : I.alias[g] \in {"Must", "Partial"}} /\ IsFiniteSet(storeMust(I.alias))
         /\ maySet(I.alias) = {g \in Globals : I.alias[g] = "May"}
<1>1. I.alias \in Alias
  BY InstructionFacts
<1>2. DOMAIN I.alias = Globals /\ \A g \in Globals : I.alias[g] \in {"No", "May", "Partial", "Must"}
  BY <1>1 DEF Alias
<1>3. IsFiniteSet(Globals)
  BY FunctionsAssumption
<1>4. /\ loadMust(I.alias) = {g \in Globals : I.alias[g] = "Must"}
      /\ storeMust(I.alias) = {g \in Globals : I.alias[g] \in {"Must", "Partial"}}
      /\ maySet(I.alias) = {g \in Globals : I.alias[g] = "May"}
  BY <1>2 DEF loadMust, storeMust, maySet
<1>5. IsFiniteSet(loadMust(I.alias)) /\ IsFiniteSet(storeMust(I.alias))
  BY <1>3, <1>4, FS_Subset
<1> QED
  BY <1>2, <1>4, <1>5

loadArgs ==
  LET musts == loadMust(I.alias)
  IN  IF unique(maySet(I.alias), musts) THEN setResult(<<"var", the(musts)>>) ELSE setResult(newNondef)

LEMMA LoadAlts ==
  ASSUME fn \in Functions, VarsIn, here \in Places, I.op = "load"
  PROVE  AltsCover(here, {<<loadArgs, {}>>}) /\ AltsFaithful(here, {<<loadArgs, {}>>})
<1> DEFINE v == Result(here)
           musts == loadMust(I.alias)
           g == the(musts)
<1>1. InstrAt(here) = I /\ v \in Vars /\ v \notin Globals
  BY HereFacts DEF hasResult
<1>2. musts = {h \in Globals : I.alias[h] = "Must"} /\ IsFiniteSet(musts)
  BY AliasIs
<1>3. \A e, t : Effects(I, v, e, t) = Assign(e, v, Loads(I, e))
  BY DEF Effects
<1>4. ASSUME NEW e \in Envs
      PROVE  Loads(I, e) = IF musts # {} THEN {e[h] : h \in musts} ELSE Value
  BY <1>2 DEF Loads
<1>5. \A e \in Envs : Loads(I, e) \subseteq Value
  BY LoadsType
<1> HIDE DEF v
<1>6. CASE unique(maySet(I.alias), musts)
  <2> DEFINE p == <<"var", g>>
  <2>1. loadArgs = getNewArgs(v, p)
    BY <1>6 DEF loadArgs, setResult, v
  <2>2. musts # {}
    <3>1. Cardinality(musts) = 1
      BY <1>6 DEF unique
    <3> QED
      BY <3>1, FS_EmptySet
  <2>3. musts = {g} /\ g \in Globals /\ g \in Vars
    BY <1>2, <1>6, <2>2, UniqueIs, VarsApart
  <2>4. \A e \in Envs : Loads(I, e) = {e[g]} /\ e[g] \in Value
    BY <1>4, <2>2, <2>3 DEF Envs
  <2>5. Term(p) /\ p[1] # "nondef" /\ \A e : PolyValue(p, e, <<>>) = e[g]
    BY DEF Term, PolyValue
  <2> HIDE DEF p, g, musts
  <2>6. ASSUME NEW e \in Envs, NEW t, NEW c \in Effects(I, v, e, t)
        PROVE  FitsArgs(loadArgs, e, Row(c))
    <3>1. c \in Assign(e, v, {e[g]}) /\ {e[g]} \subseteq Value
      BY <1>3, <2>4, <2>6
    <3>2. c \in Envs /\ \A u \in Vars : u # v => c[u] = e[u]
      BY <3>1, AssignType
    <3>3. c[v] = PolyValue(p, e, <<>>)
      BY <1>1, <2>5, <3>1 DEF Assign, Envs
    <3> QED
      BY <2>1, <2>5, <3>2, <3>3, NewArgsRow
  <2>7. ASSUME NEW e \in Envs, NEW t, NEW a, FitsArgs(loadArgs, e, a)
        PROVE  \E c \in Effects(I, v, e, t) : a = Row(c)
    <3>1. a = Row([e EXCEPT ![v] = PolyValue(p, e, <<>>)])
      BY <2>1, <2>5, <2>7, ValueRead
    <3>2. [e EXCEPT ![v] = PolyValue(p, e, <<>>)] \in Assign(e, v, {e[g]})
      BY <2>5 DEF Assign
    <3> QED
      BY <1>3, <2>4, <3>1, <3>2
  <2>8. /\ \A e \in Envs : \A t : \A c \in Effects(I, v, e, t) : FitsArgs(loadArgs, e, Row(c))
        /\ \A e \in Envs : \A t, a : FitsArgs(loadArgs, e, a) => \E c \in Effects(I, v, e, t) : a = Row(c)
    BY <2>6, <2>7
  <2> QED
    BY Zenon, <1>1, <2>8, OneAlternative DEF v
<1>7. CASE ~unique(maySet(I.alias), musts)
  <2>1. loadArgs = getNewArgs(v, <<"nondef", m_nondef>>)
    BY <1>7 DEF loadArgs, setResult, newNondef, v
  <2>2. exactlyTranslated => \A e \in Envs : Loads(I, e) = Value
    <3>1. exactlyTranslated => musts = {}
      BY <1>1, <1>7 DEF exactlyTranslated
    <3> QED
      BY <1>4, <3>1
  <2> HIDE DEF g, musts
  <2>3. ASSUME NEW e \in Envs, NEW t, NEW c \in Effects(I, v, e, t)
        PROVE  FitsArgs(loadArgs, e, Row(c))
    <3>1. c \in Assign(e, v, Loads(I, e)) /\ Loads(I, e) \subseteq Value
      BY <1>3, <1>5, <2>3
    <3>2. c \in Envs /\ \A u \in Vars : u # v => c[u] = e[u]
      BY <3>1, AssignType
    <3> QED
      BY <1>1, <2>1, <3>2, NondefAlternative
  <2>4. ASSUME exactlyTranslated, NEW e \in Envs, NEW t, NEW a, FitsArgs(loadArgs, e, a)
        PROVE  \E c \in Effects(I, v, e, t) : a = Row(c)
    <3>1. \E c \in Assign(e, v, Value) : a = Row(c)
      <4>1. FitsArgs(getNewArgs(v, <<"nondef", m_nondef>>), e, a) /\ v \in Vars
        BY <1>1, <2>1, <2>4
      <4>2. PICK p : p = <<"nondef", m_nondef>>
        OBVIOUS
      <4>3. PICK y \in Value : a = Row([e EXCEPT ![v] = y])
        BY <4>1, <4>2, NondefRead
      <4>4. [e EXCEPT ![v] = y] \in Assign(e, v, Value)
        BY DEF Assign
      <4> QED
        BY <4>3, <4>4
    <3> QED
      BY <1>3, <2>2, <2>4, <3>1
  <2>5. \A e \in Envs : \A t : \A c \in Effects(I, v, e, t) : FitsArgs(loadArgs, e, Row(c))
    BY <2>3
  <2>6. exactlyTranslated => \A e \in Envs : \A t, a :
          FitsArgs(loadArgs, e, a) => \E c \in Effects(I, v, e, t) : a = Row(c)
    BY <2>4
  <2> QED
    BY Zenon, <1>1, <2>5, <2>6, OneAlternative DEF v
<1> QED
  BY <1>6, <1>7

(* No store changes only a part of a global.                                 *)
WholeStores ==
  \A f \in Functions : \A p \in PlacesOf(f) :
    At(f, p).op = "store" => \A g \in Globals : At(f, p).alias[g] # "Partial"

storeArgs ==
  LET musts == storeMust(I.alias)
  IN  IF musts # {} THEN getNewArgs(the(musts), getPolynomial(I.x, m_nondef))
      ELSE getZappedArgs(maySet(I.alias), m_nondef, m_lhs)

LEMMA StoreAlts ==
  ASSUME fn \in Functions, VarsOnce, VarsIn, m_nondef \in Nat, here \in Places, I.op = "store",
         storeMust(I.alias) # {} => unique(maySet(I.alias), storeMust(I.alias))
  PROVE  /\ WholeStores => AltsCover(here, {<<storeArgs, {}>>})
         /\ AltsFaithful(here, {<<storeArgs, {}>>})
<1> DEFINE v == Result(here)
           musts == storeMust(I.alias)
           mays == maySet(I.alias)
           g == the(musts)
<1>1. InstrAt(here) = I /\ I.x \in Operand /\ UsesDefined(fn, I.x, here)
  BY HereFacts, UsesAre
<1>2. /\ musts = {h \in Globals : I.alias[h] \in {"Must", "Partial"}} /\ IsFiniteSet(musts)
      /\ mays = {h \in Globals : I.alias[h] = "May"} /\ mays \in SUBSET Globals
  BY AliasIs
<1>3. \A e, t : Effects(I, v, e, t) = Stores(I, e)
  BY DEF Effects
<1>4. ASSUME WholeStores
      PROVE  \A h \in Globals : I.alias[h] # "Partial"
  <2>1. here \in PlacesOf(fn) /\ At(fn, here) = I
    BY <1>1, PlacesAre
  <2> QED
    BY <1>4, <2>1 DEF WholeStores
<1>5. \A e \in Envs : Val(I.x, e) \subseteq Value
  BY <1>1, OperandFacts
<1> HIDE DEF v
<1>6. CASE musts # {}
  <2>1. storeArgs = getNewArgs(g, getPolynomial(I.x, m_nondef))
    BY <1>6 DEF storeArgs
  <2>2. musts = {g} /\ g \in Globals /\ g \in Vars /\ mays = {}
    BY <1>2, <1>6, UniqueIs, VarsApart
  <2> HIDE DEF g, musts, mays
  <2>3. ASSUME NEW e \in Envs
        PROVE  /\ \A c \in Assign(e, g, Val(I.x, e)) : FitsArgs(storeArgs, e, Row(c))
               /\ \A a : FitsArgs(storeArgs, e, a) => \E c \in Assign(e, g, Val(I.x, e)) : a = Row(c)
    BY <1>1, <2>1, <2>2, OperandAlternative
  <2>4. ASSUME WholeStores, NEW e \in Envs
        PROVE  Stores(I, e) = Assign(e, g, Val(I.x, e))
    <3>1. {h \in Globals : I.alias[h] = "Must"} = {g}
      BY <1>2, <1>4, <2>2, <2>4
    <3> QED
      BY <3>1 DEF Stores
  <2>5. ASSUME NEW e \in Envs
        PROVE  Assign(e, g, Val(I.x, e)) \subseteq Stores(I, e)
    <3>1. CASE I.alias[g] = "Must"
      <4>1. {h \in Globals : I.alias[h] = "Must"} = {g}
        BY <1>2, <2>2, <3>1
      <4> QED
        BY <4>1 DEF Stores
    <3>2. CASE I.alias[g] = "Partial"
      <4>1. {h \in Globals : I.alias[h] = "Must"} = {} /\ g \in {h \in Globals : I.alias[h] = "Partial"}
        BY <1>2, <2>2, <3>2
      <4>2. Havoc(e, {g}) \subseteq Stores(I, e)
        BY <4>1 DEF Stores
      <4>3. ASSUME NEW x \in Val(I.x, e)
            PROVE  [e EXCEPT ![g] = x] \in Havoc(e, {g})
        <5>1. [u \in {g} |-> x] \in [{g} -> Value]
          BY <1>5
        <5>2. [e EXCEPT ![g] = x] = [u \in DOMAIN e |-> IF u \in {g} THEN [h \in {g} |-> x][u] ELSE e[u]]
          BY DEF Envs
        <5> QED
          BY <5>1, <5>2 DEF Havoc
      <4> QED
        BY <4>2, <4>3 DEF Assign
    <3> QED
      BY <1>2, <2>2, <3>1, <3>2
  <2>6. WholeStores => AltsCover(here, {<<storeArgs, {}>>})
    <3>1. WholeStores => \A e \in Envs : \A t : \A c \in Effects(I, v, e, t) : FitsArgs(storeArgs, e, Row(c))
      BY <1>3, <2>3, <2>4
    <3> QED
      BY Zenon, <1>1, <3>1, OneAlternative DEF v
  <2>7. AltsFaithful(here, {<<storeArgs, {}>>})
    <3>1. ASSUME NEW e \in Envs, NEW t, NEW a, FitsArgs(storeArgs, e, a)
          PROVE  \E c \in Effects(I, v, e, t) : a = Row(c)
      <4>1. PICK c \in Assign(e, g, Val(I.x, e)) : a = Row(c)
        BY <2>3, <3>1
      <4> QED
        BY <1>3, <2>5, <4>1
    <3>2. \A e \in Envs : \A t, a : FitsArgs(storeArgs, e, a) => \E c \in Effects(I, v, e, t) : a = Row(c)
      BY <3>1
    <3> QED
      BY Zenon, <1>1, <3>2, OneAlternative DEF v
  <2> QED
    BY <2>6, <2>7
<1>7. CASE musts = {}
  <2>1. storeArgs = getZappedArgs(mays, m_nondef, m_lhs)
    BY <1>7 DEF storeArgs
  <2>2. ~exactlyTranslated
    <3>1. Cardinality(musts) # 1
      BY <1>7, FS_EmptySet
    <3> QED
      BY <1>1, <3>1 DEF exactlyTranslated, unique
  <2>3. {h \in Globals : I.alias[h] = "Must"} = {} /\ {h \in Globals : I.alias[h] = "Partial"} = {}
    BY <1>2, <1>7
  <2> HIDE DEF g, musts, mays
  <2>4. ASSUME NEW e \in Envs, NEW c \in Stores(I, e)
        PROVE  c \in Envs /\ \A u \in Vars : u \notin mays => c[u] = e[u]
    <3>1. \/ c = e
          \/ \E h \in mays : c \in Assign(e, h, Val(I.x, e))
      BY <1>2, <2>3, <2>4 DEF Stores
    <3> QED
      BY <1>5, <3>1, AssignType
  <2>5. \A e : FitsArgs(m_lhs, e, Row(e))
    BY LhsRow
  <2>6. \A k \in DOMAIN m_vars : m_lhs[k][1] # "nondef"
    BY DEF m_lhs
  <2>7. ASSUME NEW e \in Envs, NEW t, NEW c \in Effects(I, v, e, t)
        PROVE  FitsArgs(storeArgs, e, Row(c))
    <3>1. c \in Envs /\ \A u \in Vars : u \notin mays => c[u] = e[u]
      BY <1>3, <2>4, <2>7
    <3> QED
      BY <1>2, <2>1, <2>5, <2>6, <3>1, ZappedRow
  <2> QED
    BY <1>1, <2>2, <2>7, OneAlternative DEF v, AltsFaithful
<1> QED
  BY <1>6, <1>7

callPassed == IF I.x[1] = "undef" THEN Len(calleesOfInterest) ELSE 0
callResult == IF I.op = "call" THEN 1 ELSE 0
resultArgs == IF I.op = "call" THEN setResult(<<"nondef", m_nondef + callPassed>>) ELSE m_lhs
returnArgs == getZappedArgs(toZap, m_nondef + callPassed + callResult, resultArgs)

LEMMA ZapIs ==
  ASSUME fn \in Functions, here \in Places, I.op \in {"call", "callvoid"}
  PROVE  /\ toZap \in SUBSET Globals
         /\ \A f \in ToSet(I.callees) : fn.mayZap[f] \subseteq toZap
         /\ Len(I.callees) = 1 => \E f \in ToSet(I.callees) : ToSet(I.callees) = {f} /\ toZap = fn.mayZap[f]
<1>1. toZap \in SUBSET Globals
  BY CalleesFacts
<1>2. \A f \in ToSet(I.callees) : f \in fn.declared => fn.mayZap[f] = {}
  BY FunctionsAssumption
<1>3. \A f \in ToSet(I.callees) : fn.mayZap[f] \subseteq toZap
  BY <1>2 DEF toZap
<1>4. ASSUME Len(I.callees) = 1
      PROVE  \E f \in ToSet(I.callees) : ToSet(I.callees) = {f} /\ toZap = fn.mayZap[f]
  <2>1. I.callees \in Seq(DOMAIN fn.mayZap)
    BY InstructionFacts
  <2>2. DOMAIN I.callees = {1}
    BY <1>4, <2>1, SequenceOf
  <2>3. ToSet(I.callees) = {I.callees[1]}
    BY <2>2 DEF ToSet
  <2>4. toZap = fn.mayZap[I.callees[1]]
    BY <1>2, <2>3 DEF toZap
  <2> QED
    BY <2>3, <2>4
<1> QED
  BY <1>1, <1>3, <1>4

LEMMA CallNumbers ==
  ASSUME fn \in Functions, here \in Places, I.op \in {"call", "callvoid"}
  PROVE  /\ callPassed \in Nat /\ callResult \in Nat
         /\ Len(calleesOfInterest) \in Nat /\ DOMAIN calleesOfInterest = 1 .. Len(calleesOfInterest)
<1>1. Len(calleesOfInterest) \in Nat /\ DOMAIN calleesOfInterest = 1 .. Len(calleesOfInterest)
  BY CalleesFacts, SequenceFacts
<1> QED
  BY <1>1 DEF callPassed, callResult

LEMMA ReturnAlts ==
  ASSUME fn \in Functions, VarsOnce, VarsIn, m_nondef \in Nat, here \in Places, I.op \in {"call", "callvoid"}
  PROVE  AltsCover(here, {<<returnArgs, {}>>}) /\ AltsFaithful(here, {<<returnArgs, {}>>})
<1> DEFINE v == Result(here)
           m == m_nondef + callPassed
           n == m_nondef + callPassed + callResult
<1>1. InstrAt(here) = I /\ v \notin Globals /\ (I.op = "call" => v \in Vars)
  BY HereFacts DEF hasResult
<1>2. toZap \in SUBSET Globals /\ \A f \in ToSet(I.callees) : fn.mayZap[f] \subseteq toZap
  BY ZapIs
<1>3. m \in Nat /\ n \in Nat /\ (I.op = "call" => m < n)
  BY CallNumbers DEF callResult
<1>4. returnArgs = getZappedArgs(toZap, n, resultArgs)
  BY DEF returnArgs
<1>5. exactlyTranslated => \E f \in ToSet(I.callees) : ToSet(I.callees) = {f} /\ toZap = fn.mayZap[f]
  <2>1. exactlyTranslated => Len(I.callees) = 1
    BY <1>1 DEF exactlyTranslated
  <2> QED
    BY <2>1, ZapIs
<1>6. CASE I.op = "call"
  <2>1. resultArgs = getNewArgs(v, <<"nondef", m>>)
    BY <1>6 DEF resultArgs, setResult
  <2>2. \A e, t : Effects(I, v, e, t) = UNION {Havoc(e, {v} \cup fn.mayZap[f]) : f \in ToSet(I.callees)}
    BY <1>6 DEF Effects
  <2>3. \A k \in DOMAIN m_vars : resultArgs[k][1] = "nondef" => resultArgs[k][2] \in Nat /\ resultArgs[k][2] < n
    <3> HIDE DEF m, n, v
    <3>1. \A k \in DOMAIN m_vars : resultArgs[k] = IF m_vars[k] = v THEN <<"nondef", m>> ELSE <<"var", m_vars[k]>>
      BY <2>1 DEF getNewArgs, m_lhs
    <3>2. ASSUME NEW k \in DOMAIN m_vars, resultArgs[k][1] = "nondef"
          PROVE  resultArgs[k][2] \in Nat /\ resultArgs[k][2] < n
      <4>1. CASE m_vars[k] = v
        <5>1. resultArgs[k] = <<"nondef", m>>
          BY <3>1, <4>1
        <5> QED
          BY <1>3, <1>6, <5>1
      <4>2. CASE m_vars[k] # v
        <5>1. resultArgs[k] = <<"var", m_vars[k]>>
          BY <3>1, <4>2
        <5> QED
          BY <3>2, <5>1
      <4> QED
        BY <4>1, <4>2
    <3> QED
      BY <3>2
  <2> HIDE DEF v, m, n
  <2>4. ASSUME NEW e \in Envs, NEW t, NEW c \in Effects(I, v, e, t)
        PROVE  FitsArgs(returnArgs, e, Row(c))
    <3>1. PICK f \in ToSet(I.callees) : c \in Havoc(e, {v} \cup fn.mayZap[f])
      BY <2>2, <2>4
    <3>2. c \in Envs /\ \A u \in Vars : u \notin {v} \cup fn.mayZap[f] => c[u] = e[u]
      BY <3>1, HavocType
    <3> DEFINE d == [e EXCEPT ![v] = c[v]]
    <3>3. d \in Envs /\ (\A u \in Vars : u # v => d[u] = e[u]) /\ d[v] = c[v]
      BY <1>1, <1>6, <3>2 DEF Envs
    <3> HIDE DEF d
    <3>4. FitsArgs(resultArgs, e, Row(d))
      BY <1>1, <1>6, <2>1, <3>3, NondefAlternative
    <3>5. \A u \in Vars : u \notin toZap => c[u] = d[u]
      BY <1>2, <3>2, <3>3
    <3> QED
      BY <1>2, <1>3, <1>4, <2>3, <3>2, <3>4, <3>5, ZappedRow
  <2>5. ASSUME exactlyTranslated, NEW e \in Envs, NEW t, NEW a, FitsArgs(returnArgs, e, a)
        PROVE  \E c \in Effects(I, v, e, t) : a = Row(c)
    <3>1. PICK f \in ToSet(I.callees) : ToSet(I.callees) = {f} /\ toZap = fn.mayZap[f]
      BY <1>5, <2>5
    <3>2. FitsArgs(getZappedArgs(toZap, n, getNewArgs(v, <<"nondef", m>>)), e, a)
      BY <1>4, <2>1, <2>5
    <3>3. PICK c \in Havoc(e, {v} \cup toZap) : a = Row(c)
      BY <1>1, <1>2, <1>3, <1>6, <3>2, ZappedResultRead
    <3> QED
      BY <2>2, <3>1, <3>3
  <2>6. \A e \in Envs : \A t : \A c \in Effects(I, v, e, t) : FitsArgs(returnArgs, e, Row(c))
    BY <2>4
  <2>7. exactlyTranslated => \A e \in Envs : \A t, a :
          FitsArgs(returnArgs, e, a) => \E c \in Effects(I, v, e, t) : a = Row(c)
    BY <2>5
  <2> QED
    BY Zenon, <1>1, <2>6, <2>7, OneAlternative DEF v
<1>7. CASE I.op = "callvoid"
  <2>1. resultArgs = m_lhs
    BY <1>7 DEF resultArgs
  <2>2. \A e, t : Effects(I, v, e, t) = UNION {Havoc(e, fn.mayZap[f]) : f \in ToSet(I.callees)}
    BY <1>7 DEF Effects
  <2>3. \A k \in DOMAIN m_vars : resultArgs[k][1] # "nondef"
    BY <2>1 DEF m_lhs
  <2> HIDE DEF v, m, n
  <2>4. ASSUME NEW e \in Envs, NEW t, NEW c \in Effects(I, v, e, t)
        PROVE  FitsArgs(returnArgs, e, Row(c))
    <3>1. PICK f \in ToSet(I.callees) : c \in Havoc(e, fn.mayZap[f])
      BY <2>2, <2>4
    <3>2. c \in Envs /\ \A u \in Vars : u \notin fn.mayZap[f] => c[u] = e[u]
      BY <3>1, HavocType
    <3>4. FitsArgs(resultArgs, e, Row(e))
      BY <2>1, LhsRow
    <3>5. \A u \in Vars : u \notin toZap => c[u] = e[u]
      BY <1>2, <3>2
    <3> QED
      BY <1>2, <1>3, <1>4, <2>3, <3>2, <3>4, <3>5, ZappedRow
  <2>5. ASSUME exactlyTranslated, NEW e \in Envs, NEW t, NEW a, FitsArgs(returnArgs, e, a)
        PROVE  \E c \in Effects(I, v, e, t) : a = Row(c)
    <3>1. PICK f \in ToSet(I.callees) : ToSet(I.callees) = {f} /\ toZap = fn.mayZap[f]
      BY <1>5, <2>5
    <3>2. FitsArgs(getZappedArgs(toZap, n, m_lhs), e, a)
      BY <1>4, <2>1, <2>5
    <3>3. PICK c \in Havoc(e, toZap) : a = Row(c)
      BY <1>2, <1>3, <3>2, ZappedLhsRead
    <3> QED
      BY <2>2, <3>1, <3>3
  <2>6. \A e \in Envs : \A t : \A c \in Effects(I, v, e, t) : FitsArgs(returnArgs, e, Row(c))
    BY <2>4
  <2>7. exactlyTranslated => \A e \in Envs : \A t, a :
          FitsArgs(returnArgs, e, a) => \E c \in Effects(I, v, e, t) : a = Row(c)
    BY <2>5
  <2> QED
    BY Zenon, <1>1, <2>6, <2>7, OneAlternative DEF v
<1> QED
  BY <1>6, <1>7

LEMMA FlattenContains ==
  ASSUME NEW S, NEW s, DOMAIN s = 1 .. Len(s), Len(s) \in Nat, s = [k \in 1 .. Len(s) |-> s[k]],
         \A k \in DOMAIN s : s[k] \in Seq(S), NEW k \in DOMAIN s
  PROVE  ToSet(s[k]) \subseteq ToSet(FlattenSeq(s))
<1> DEFINE f == CHOOSE g : FirstParts(s, Len(s), g)
           ok(m) == f[m] \in Seq(S) /\ \A j \in 1 .. m : ToSet(s[j]) \subseteq ToSet(f[m])
           N == {m \in Nat : m \in 1 .. Len(s) /\ ~ok(m)}
<1>0. Len(s) # 0
  OBVIOUS
<1>1. FirstParts(s, Len(s), f)
  BY PrefixesExist
<1>2. FlattenSeq(s) = f[Len(s)]
  BY <1>0 DEF FlattenSeq, FirstParts
<1> HIDE DEF f
<1>3. SUFFICES ASSUME ~ok(Len(s))
               PROVE  FALSE
  BY <1>2
<1> HIDE DEF ok
<1>4. PICK m \in N : \A w \in N : m =< w
  <2>1. Len(s) \in N
    BY <1>0, <1>3
  <2>2. N \in SUBSET Nat /\ N # {}
    BY <2>1
  <2> HIDE DEF N
  <2> QED
    BY <2>2, LeastElement
<1>5. f[m] = IF m = 1 THEN s[m] ELSE f[m - 1] \o s[m]
  BY <1>1, <1>4 DEF FirstParts
<1>6. CASE m = 1
  <2>1. f[m] = s[m] /\ m \in 1 .. Len(s) /\ ~ok(m)
    BY <1>4, <1>5, <1>6
  <2>2. f[m] \in Seq(S) /\ \A j \in 1 .. m : j = m
    BY <1>6, <2>1
  <2> QED
    BY <2>1, <2>2 DEF ok
<1>7. CASE m # 1
  <2>1. m - 1 \in Nat /\ m - 1 \in 1 .. Len(s) /\ m - 1 \notin N
    BY <1>4, <1>7
  <2>2. ok(m - 1) /\ s[m] \in Seq(S) /\ m \in 1 .. Len(s) /\ ~ok(m)
    BY <1>4, <2>1
  <2> HIDE DEF N
  <2> USE DEF ok
  <2>3. f[m] = f[m - 1] \o s[m]
    BY <1>5, <1>7
  <2>4. f[m] \in Seq(S)
    BY <2>2, <2>3
  <2>5. IsSequence(f[m - 1]) /\ IsSequence(s[m])
    BY <2>2, SequenceOf
  <2>6. ToSet(f[m]) = ToSet(f[m - 1]) \cup ToSet(s[m])
    BY <2>3, <2>5, ConcatSequence
  <2>7. \A j \in 1 .. m : ToSet(s[j]) \subseteq ToSet(f[m])
    <3>1. ASSUME NEW j \in 1 .. m
          PROVE  ToSet(s[j]) \subseteq ToSet(f[m])
      <4>1. j = m \/ j \in 1 .. m - 1
        BY <2>2, <3>1
      <4> QED
        BY <2>2, <2>6, <4>1
    <3> QED
      BY <3>1
  <2> QED
    BY <2>2, <2>4, <2>7
<1> QED
  BY <1>6, <1>7

LEMMA OfInterest ==
  ASSUME fn \in Functions, here \in Places, I.op \in {"call", "callvoid"}, NEW f
  PROVE  f \in ToSet(calleesOfInterest) <=> f \in ToSet(I.callees) /\ (f \in fn.scc \/ options.complexityTuples)
<1> DEFINE S == {g \in ToSet(I.callees) : g \in fn.scc \/ options.complexityTuples}
           some == [k \in DOMAIN I.callees |-> ofInterest(I.callees[k])]
<1>1. I.callees \in Seq(DOMAIN fn.mayZap)
  BY InstructionFacts
<1>2. /\ Len(I.callees) \in Nat /\ DOMAIN I.callees = 1 .. Len(I.callees)
      /\ ToSet(I.callees) = {I.callees[k] : k \in DOMAIN I.callees}
  BY <1>1, SequenceOf DEF ToSet
<1>3. \A k \in DOMAIN some : some[k] \in Seq(S)
  <2>1. ASSUME NEW k \in DOMAIN I.callees
        PROVE  ofInterest(I.callees[k]) \in Seq(S)
    <3>1. I.callees[k] \in ToSet(I.callees)
      BY <1>2
    <3>2. CASE I.callees[k] \in S
      <4> HIDE DEF S
      <4> QED
        BY <3>2 DEF ofInterest
    <3>3. CASE I.callees[k] \notin S
      BY <3>1, <3>3 DEF ofInterest
    <3> QED
      BY <3>2, <3>3
  <2> HIDE DEF S
  <2> QED
    BY <2>1
<1>4. /\ DOMAIN some = 1 .. Len(some) /\ Len(some) \in Nat /\ Len(some) = Len(I.callees)
      /\ some = [k \in 1 .. Len(some) |-> some[k]]
  BY <1>2
<1>5. \A k \in DOMAIN I.callees : some[k] = ofInterest(I.callees[k])
  OBVIOUS
<1> HIDE DEF some
<1>6. calleesOfInterest = FlattenSeq(some)
  BY DEF calleesOfInterest, some
<1>7. ToSet(calleesOfInterest) \subseteq S
  <2> HIDE DEF S
  <2>1. FlattenSeq(some) \in Seq(S)
    BY <1>3, <1>4, FlattenType
  <2> QED
    BY <1>6, <2>1, SequenceOf
<1>8. ASSUME f \in S
      PROVE  f \in ToSet(calleesOfInterest)
  <2>1. PICK k \in DOMAIN I.callees : f = I.callees[k] /\ (f \in fn.scc \/ options.complexityTuples)
    BY <1>2, <1>8
  <2>2. some[k] = <<f>> /\ k \in DOMAIN some
    BY <1>2, <1>4, <1>5, <2>1 DEF ofInterest
  <2>3. f \in ToSet(some[k])
    BY <2>2, SingletonSequence
  <2> HIDE DEF S
  <2>4. ToSet(some[k]) \subseteq ToSet(FlattenSeq(some))
    BY <1>3, <1>4, <2>2, FlattenContains
  <2> QED
    BY <1>6, <2>3, <2>4
<1> QED
  BY <1>7, <1>8

LEMMA VariablesAre ==
  /\ IsSequence(variables) /\ 1 \in DOMAIN variables /\ variables[1] = Arg
  /\ \A k \in DOMAIN variables : k # 1 => variables[k] \in Globals
<1> DEFINE n == Cardinality(Globals)
           g == SetToSeq(Globals)
<1>1. n \in Nat /\ ExistsBijection(1 .. n, Globals)
  BY FunctionsAssumption, FS_CardinalityType
<1>2. PICK f \in [1 .. n -> Globals] : IsInjective(f)
  BY <1>1 DEF ExistsBijection, Bijection, Injection, IsInjective
<1>3. g \in [1 .. n -> Globals] /\ IsInjective(g)
  BY <1>2 DEF SetToSeq
<1> HIDE DEF n, g
<1>4. g \in Seq(Globals) /\ Len(g) = n
  BY <1>1, <1>3
<1>6. variables = <<Arg>> \o g
  BY DEF variables, g
<1>7. DOMAIN variables = 1 .. n + 1 /\ variables[1] = Arg
  BY <1>1, <1>4, <1>6
<1>8. \A k \in DOMAIN variables : k # 1 => variables[k] = g[k - 1] /\ k - 1 \in 1 .. n
  BY <1>1, <1>4, <1>6, <1>7
<1> QED
  BY <1>1, <1>3, <1>7, <1>8, VariablesFacts

(* The arguments a callee starts with.                                       *)
EntryRow(c) == [k \in DOMAIN variables |-> c[variables[k]]]

LEMMA PassedAre ==
  ASSUME fn \in Functions, here \in Places, I.op \in {"call", "callvoid"}, NEW e \in Envs, NEW n
  PROVE  /\ IsSequence(callArgs(n)) /\ Terms(callArgs(n))
         /\ \A c \in Passed(I, e) : FitsArgs(callArgs(n), e, EntryRow(c))
         /\ \A a : FitsArgs(callArgs(n), e, a) => \E c \in Passed(I, e) : a = EntryRow(c)
<1> DEFINE A == callArgs(n)
           D == DOMAIN variables
           p == getPolynomial(I.x, n)
           S == Val(I.x, e)
           entering(x) == [v \in {Arg} \cup Globals |-> IF v = Arg THEN x ELSE e[v]]
<1>1. InstrAt(here) = I /\ I.x \in Operand /\ UsesDefined(fn, I.x, here)
  BY HereFacts, UsesAre
<1>2. /\ Term(p) /\ S \subseteq Value
      /\ p[1] = "nondef" => S = Value
      /\ p[1] # "nondef" => S = {PolyValue(p, e, <<>>)}
  BY <1>1, OperandTerm
<1>3. DOMAIN A = D /\ \A k \in D : A[k] = IF k = 1 THEN p ELSE <<"var", variables[k]>>
  BY DEF callArgs
<1>4. /\ D = 1 .. Len(variables) /\ Len(variables) \in Nat /\ 1 \in D /\ variables[1] = Arg
      /\ \A k \in D : k # 1 => variables[k] \in Globals /\ variables[k] # Arg
  BY VariablesAre, SequenceFacts, VarsApart
<1>5. Passed(I, e) = {entering(x) : x \in S}
  BY DEF Passed
<1>6. IsSequence(A)
  <2>1. A = [k \in 1 .. Len(variables) |-> A[k]]
    BY <1>4 DEF callArgs
  <2> QED
    BY <1>3, <1>4, <2>1, FunctionSequence
<1>7. Terms(A)
  BY <1>2, <1>3 DEF Terms, Term
<1>8. ASSUME NEW x \in S
      PROVE  \A k \in D : EntryRow(entering(x))[k] = IF k = 1 THEN x ELSE e[variables[k]]
  BY <1>4 DEF EntryRow
<1>9. \A k \in D : PolyValue(<<"var", variables[k]>>, e, <<>>) = e[variables[k]]
  BY DEF PolyValue
<1> HIDE DEF A, p, S, D
<1>10. ASSUME NEW x \in S
       PROVE  FitsArgs(A, e, EntryRow(entering(x)))
  <2> DEFINE a == EntryRow(entering(x))
  <2>1. DOMAIN a = D /\ a = [k \in D |-> a[k]]
    BY DEF EntryRow, D
  <2>2. \A k \in D : a[k] = IF k = 1 THEN x ELSE e[variables[k]]
    BY <1>8
  <2> HIDE DEF a
  <2>3. \A k \in D : IF A[k][1] = "nondef" THEN a[k] \in Value ELSE a[k] = PolyValue(A[k], e, <<>>)
    <3>1. ASSUME NEW k \in D
          PROVE  IF A[k][1] = "nondef" THEN a[k] \in Value ELSE a[k] = PolyValue(A[k], e, <<>>)
      <4>1. CASE k = 1
        BY <1>2, <1>3, <2>2, <4>1
      <4>2. CASE k # 1
        BY <1>3, <1>9, <2>2, <4>2
      <4> QED
        BY <4>1, <4>2
    <3> QED
      BY <3>1
  <2>4. \A k \in D : A[k][1] = "nondef" => k = 1
    <3> SUFFICES ASSUME NEW k \in D, k # 1
                 PROVE  A[k][1] # "nondef"
      OBVIOUS
    <3>1. A[k] = <<"var", variables[k]>>
      BY <1>3
    <3> QED
      BY <3>1
  <2> QED
    BY <1>3, <2>1, <2>3, <2>4 DEF FitsArgs, a
<1>11. ASSUME NEW a, FitsArgs(A, e, a)
       PROVE  \E x \in S : a = EntryRow(entering(x))
  <2>1. DOMAIN a = D /\ a = [k \in D |-> a[k]]
    BY <1>3, <1>11 DEF FitsArgs
  <2>2. a[1] \in S
    BY <1>2, <1>3, <1>4, <1>11 DEF FitsArgs
  <2>3. \A k \in D : k # 1 => a[k] = e[variables[k]]
    <3>1. ASSUME NEW k \in D, k # 1
          PROVE  a[k] = e[variables[k]]
      <4>1. A[k] = <<"var", variables[k]>> /\ A[k][1] # "nondef"
        BY <1>3, <3>1
      <4>2. a[k] = PolyValue(<<"var", variables[k]>>, e, <<>>)
        BY <1>3, <1>11, <4>1 DEF FitsArgs
      <4> QED
        BY <1>9, <4>2
    <3> QED
      BY <3>1
  <2> DEFINE b == EntryRow(entering(a[1]))
  <2>4. \A k \in D : b[k] = IF k = 1 THEN a[1] ELSE e[variables[k]]
    BY <1>8, <2>2
  <2>5. b = [k \in D |-> b[k]]
    BY DEF EntryRow, D
  <2> HIDE DEF b
  <2>6. \A k \in D : a[k] = b[k]
    BY <2>3, <2>4
  <2>7. a = b
    BY <2>1, <2>5, <2>6
  <2> QED
    BY Zenon, <2>2, <2>7 DEF b
<1> HIDE DEF entering
<1>12. \A c \in Passed(I, e) : FitsArgs(A, e, EntryRow(c))
  BY <1>5, <1>10
<1>13. \A a : FitsArgs(A, e, a) => \E c \in Passed(I, e) : a = EntryRow(c)
  BY <1>5, <1>11
<1> QED
  BY <1>6, <1>7, <1>12, <1>13 DEF A

-----------------------------------------------------------------------------
(* What the rules of one number do is what the instruction with the number    *)
(* does.                                                                    *)

ArgsOK(args) == IsSequence(args) /\ Terms(args)

LEMMA SameDomain ==
  ASSUME IsSequence(m_vars), NEW args, DOMAIN args = DOMAIN m_vars, args = [k \in DOMAIN m_vars |-> args[k]]
  PROVE  IsSequence(args)
<1>1. DOMAIN m_vars = 1 .. Len(m_vars) /\ Len(m_vars) \in Nat
  BY SequenceFacts
<1>2. PICK n \in Nat : DOMAIN m_vars = 1 .. n
  BY <1>1
<1>3. DOMAIN args = 1 .. n /\ args = [k \in 1 .. n |-> args[k]]
  BY <1>2
<1> QED
  BY <1>3, FunctionSequence

LEMMA LhsOK ==
  ASSUME IsSequence(m_vars)
  PROVE  ArgsOK(m_lhs)
<1>1. DOMAIN m_lhs = DOMAIN m_vars /\ m_lhs = [k \in DOMAIN m_vars |-> m_lhs[k]]
  BY DEF m_lhs
<1>2. Terms(m_lhs)
  BY DEF m_lhs, Terms, Term
<1> QED
  BY <1>1, <1>2, SameDomain DEF ArgsOK

LEMMA NewArgsOK ==
  ASSUME IsSequence(m_vars), NEW v, NEW p, Term(p)
  PROVE  ArgsOK(getNewArgs(v, p))
<1> DEFINE A == getNewArgs(v, p)
<1>1. DOMAIN A = DOMAIN m_vars /\ A = [k \in DOMAIN m_vars |-> A[k]]
  BY DEF getNewArgs
<1>2. Terms(A)
  BY DEF getNewArgs, m_lhs, Terms, Term
<1> HIDE DEF A
<1>3. IsSequence(A)
  BY <1>1, SameDomain
<1> QED
  BY <1>2, <1>3 DEF ArgsOK, A

LEMMA ZappedOK ==
  ASSUME IsSequence(m_vars), NEW zap, NEW n, NEW args, DOMAIN args = DOMAIN m_vars, Terms(args)
  PROVE  ArgsOK(getZappedArgs(zap, n, args))
<1> DEFINE A == getZappedArgs(zap, n, args)
           nondef(k) == <<"nondef", n + Cardinality({j \in 1 .. k - 1 : m_vars[j] \in zap})>>
<1>1. DOMAIN A = DOMAIN m_vars /\ A = [k \in DOMAIN m_vars |-> A[k]]
      /\ \A k \in DOMAIN m_vars : A[k] = IF m_vars[k] \in zap THEN nondef(k) ELSE args[k]
  BY DEF getZappedArgs
<1>2. \A k : Term(nondef(k))
  BY DEF Term
<1> HIDE DEF A, nondef
<1>3. Terms(A)
  BY <1>1, <1>2 DEF Terms
<1>4. IsSequence(A)
  BY <1>1, SameDomain
<1> QED
  BY <1>3, <1>4 DEF ArgsOK, A

LEMMA PolynomialTerm ==
  ASSUME NEW x \in Operand, NEW n
  PROVE  Term(getPolynomial(x, n))
BY DEF Operand, getPolynomial, Term

(* The symbol of the place behind one with number n.                         *)
GoesTo(q, n) == IF q[1] = -3 THEN startSymbol(q[2]) ELSE eval(n + 1)

Covers(p, n, R) ==
  \A e \in Envs, t \in Bools : Conforms(p, e, t) =>
    \A s \in Steps(p, e, t) : followed(s[1]) =>
      \E r \in R : /\ r.left = eval(n) /\ r.right = GoesTo(s[1], n)
                   /\ Arguments(s[1], s[2]) \in Targets(r, e)

Faithful(p, n, R) ==
  exactlyTranslated =>
    \A e \in Envs, t \in Bools : Conforms(p, e, t) =>
      \A r \in R : r.left = eval(n) =>
        \A a \in Targets(r, e) :
          \E s \in Steps(p, e, t) : r.right = GoesTo(s[1], n) /\ Arguments(s[1], s[2]) = a

LEMMA StepsAt ==
  ASSUME fn \in Functions, NEW p \in Places, InstrAt(p).op \notin {"icmp", "fcmp"}, NEW e, NEW t
  PROVE  Steps(p, e, t) = {<<<<p[1], p[2] + 1>>, c, t>> : c \in Effects(InstrAt(p), Result(p), e, t)}
                            \cup Calls(InstrAt(p), e, t)
<1>1. InBlock(p) /\ p[1] \in Nat /\ p[2] \in Nat /\ p[2] \notin {0, Len(fn.code[p[1]]) + 1, Len(fn.code[p[1]]) + 2}
  BY PlacesAre, PlaceFacts
<1>2. p # Start /\ p[1] >= 0
  BY <1>1, InBlockIsPoint
<1>3. Outcomes(p, e, t) = {t}
  BY DEF Outcomes
<1>4. Steps(p, e, t) = {<<<<p[1], p[2] + 1>>, c, u>> : c \in Effects(InstrAt(p), Result(p), e, t), u \in Outcomes(p, e, t)}
                         \cup Calls(InstrAt(p), e, t)
  BY <1>1, <1>2 DEF Steps
<1>5. {<<<<p[1], p[2] + 1>>, c, u>> : c \in Effects(InstrAt(p), Result(p), e, t), u \in {t}}
        = {<<<<p[1], p[2] + 1>>, c, t>> : c \in Effects(InstrAt(p), Result(p), e, t)}
  OBVIOUS
<1> QED
  BY <1>3, <1>4, <1>5

LEMMA ArgumentsAre ==
  ASSUME NEW q, NEW e
  PROVE  Arguments(q, e) = IF q[1] = -3 THEN EntryRow(e) ELSE Row(e)
BY DEF Arguments, EntryRow, Row

LEMMA CallsAre ==
  ASSUME NEW e, NEW t, NEW s
  PROVE  s \in Calls(I, e, t) <=>
           /\ I.op \in {"call", "callvoid"}
           /\ \E f \in ToSet(I.callees), c \in Passed(I, e) : s = <<Entered(f), c, t>>
BY DEF Calls

(* The rules that lead into the callees.                                     *)
CallRule(n, r) ==
  /\ I.op \in {"call", "callvoid"}
  /\ \E k \in DOMAIN calleesOfInterest, m \in Nat :
       r = Rule(eval(n), startSymbol(calleesOfInterest[k]), callArgs(m), {})

Alternative(n, x) == Rule(eval(n), eval(n + 1), x[1], x[2])

LEMMA AlternativesCover ==
  ASSUME fn \in Functions, here \in Places, I.op \notin {"icmp", "fcmp"}, NEW n, NEW A, NEW R,
         \A x \in A : ArgsOK(x[1]) /\ Alternative(n, x) \in R, AltsCover(here, A),
         I.op \in {"call", "callvoid"} =>
           \A k \in DOMAIN calleesOfInterest : \E m \in Nat :
             Rule(eval(n), startSymbol(calleesOfInterest[k]), callArgs(m), {}) \in R
  PROVE  Covers(here, n, R)
<1>1. InstrAt(here) = I /\ here[1] = bb /\ here[1] # -3
  BY HereFacts, PlaceFacts DEF here
<1>2. ASSUME NEW e \in Envs, NEW t \in Bools, Conforms(here, e, t), NEW c \in Effects(I, Result(here), e, t),
             NEW s, s = <<<<here[1], here[2] + 1>>, c, t>>
      PROVE  \E r \in R : /\ r.left = eval(n) /\ r.right = GoesTo(s[1], n)
                          /\ Arguments(s[1], s[2]) \in Targets(r, e)
  <2>1. PICK x \in A : AtomsHold(x[2], e) /\ FitsArgs(x[1], e, Row(c))
    BY <1>1, <1>2 DEF AltsCover
  <2> DEFINE r == Alternative(n, x)
  <2>2. r \in R /\ r.left = eval(n) /\ r.right = eval(n + 1) /\ r.args = x[1] /\ r.cond = x[2]
        /\ IsSequence(r.args) /\ Terms(r.args)
    BY DEF Alternative, Rule, ArgsOK
  <2> HIDE DEF r
  <2>3. Row(c) \in Targets(r, e)
    BY <2>1, <2>2, TargetsAre
  <2>4. s[1][1] # -3 /\ s[2] = c
    BY <1>1, <1>2
  <2>5. GoesTo(s[1], n) = eval(n + 1) /\ Arguments(s[1], s[2]) = Row(c)
    BY <2>4, ArgumentsAre DEF GoesTo
  <2> QED
    BY <2>2, <2>3, <2>5
<1>3. ASSUME NEW e \in Envs, NEW t \in Bools, NEW s \in Calls(I, e, t), followed(s[1])
      PROVE  \E r \in R : /\ r.left = eval(n) /\ r.right = GoesTo(s[1], n)
                          /\ Arguments(s[1], s[2]) \in Targets(r, e)
  <2>1. PICK f \in ToSet(I.callees), c \in Passed(I, e) : s = <<Entered(f), c, t>>
    BY <1>3, CallsAre
  <2>2. I.op \in {"call", "callvoid"}
    BY <1>3, CallsAre
  <2>3. s[1][1] = -3 /\ s[1][2] = f /\ s[2] = c
    BY <2>1 DEF Entered
  <2>4. f \in ToSet(calleesOfInterest)
    BY <1>3, <2>2, <2>3, OfInterest DEF followed
  <2>5. PICK k \in DOMAIN calleesOfInterest : f = calleesOfInterest[k]
    BY <2>2, <2>4, CalleesFacts, SequenceFacts DEF ToSet
  <2>6. PICK m \in Nat : Rule(eval(n), startSymbol(f), callArgs(m), {}) \in R
    BY <2>2, <2>5
  <2> DEFINE r == Rule(eval(n), startSymbol(f), callArgs(m), {})
  <2>7. IsSequence(callArgs(m)) /\ Terms(callArgs(m)) /\ FitsArgs(callArgs(m), e, EntryRow(c))
    BY <2>2, PassedAre
  <2>8. r \in R /\ r.left = eval(n) /\ r.right = startSymbol(f) /\ r.args = callArgs(m) /\ r.cond = {}
    BY <2>6 DEF Rule
  <2> HIDE DEF r
  <2>9. EntryRow(c) \in Targets(r, e)
    BY <2>7, <2>8, TargetsAre, NoAtoms
  <2>10. GoesTo(s[1], n) = startSymbol(f) /\ Arguments(s[1], s[2]) = EntryRow(c)
    BY <2>3, ArgumentsAre DEF GoesTo
  <2> QED
    BY <2>8, <2>9, <2>10
<1> SUFFICES ASSUME NEW e \in Envs, NEW t \in Bools, Conforms(here, e, t), NEW s \in Steps(here, e, t), followed(s[1])
             PROVE  \E r \in R : /\ r.left = eval(n) /\ r.right = GoesTo(s[1], n)
                                 /\ Arguments(s[1], s[2]) \in Targets(r, e)
  BY DEF Covers
<1>4. \/ \E c \in Effects(I, Result(here), e, t) : s = <<<<here[1], here[2] + 1>>, c, t>>
      \/ s \in Calls(I, e, t)
  BY <1>1, StepsAt
<1> QED
  BY <1>2, <1>3, <1>4

LEMMA AlternativesFaithful ==
  ASSUME fn \in Functions, here \in Places, I.op \notin {"icmp", "fcmp"}, NEW n, NEW A, NEW R,
         \A x \in A : ArgsOK(x[1]), AltsFaithful(here, A),
         \A r \in R : r.left = eval(n) => CallRule(n, r) \/ \E x \in A : r = Alternative(n, x)
  PROVE  Faithful(here, n, R)
<1>1. InstrAt(here) = I /\ here[1] = bb /\ here[1] # -3
  BY HereFacts, PlaceFacts DEF here
<1> SUFFICES ASSUME exactlyTranslated, NEW e \in Envs, NEW t \in Bools, Conforms(here, e, t),
                    NEW r \in R, r.left = eval(n), NEW a \in Targets(r, e)
             PROVE  \E s \in Steps(here, e, t) : r.right = GoesTo(s[1], n) /\ Arguments(s[1], s[2]) = a
  BY DEF Faithful
<1>2. Steps(here, e, t) = {<<<<here[1], here[2] + 1>>, c, t>> : c \in Effects(I, Result(here), e, t)} \cup Calls(I, e, t)
  BY <1>1, StepsAt
<1>3. CASE \E x \in A : r = Alternative(n, x)
  <2>1. PICK x \in A : r = Alternative(n, x)
    BY <1>3
  <2>2. r.right = eval(n + 1) /\ r.args = x[1] /\ r.cond = x[2] /\ IsSequence(r.args) /\ Terms(r.args)
    BY <2>1 DEF Alternative, Rule, ArgsOK
  <2>3. AtomsHold(x[2], e) /\ FitsArgs(x[1], e, a)
    BY <2>2, TargetsAre
  <2>4. PICK c \in Effects(I, Result(here), e, t) : a = Row(c)
    BY <1>1, <2>3 DEF AltsFaithful
  <2>5. PICK s : s = <<<<here[1], here[2] + 1>>, c, t>>
    OBVIOUS
  <2>6. s \in Steps(here, e, t) /\ s[1][1] # -3 /\ s[2] = c
    BY <1>1, <1>2, <2>5
  <2>7. GoesTo(s[1], n) = eval(n + 1) /\ Arguments(s[1], s[2]) = Row(c)
    BY <2>6, ArgumentsAre DEF GoesTo
  <2> QED
    BY <2>2, <2>4, <2>6, <2>7
<1>4. CASE CallRule(n, r)
  <2>1. PICK k \in DOMAIN calleesOfInterest, m \in Nat :
          r = Rule(eval(n), startSymbol(calleesOfInterest[k]), callArgs(m), {})
    BY <1>4 DEF CallRule
  <2>2. I.op \in {"call", "callvoid"}
    BY <1>4 DEF CallRule
  <2>3. PICK f : f = calleesOfInterest[k]
    OBVIOUS
  <2>4. f \in ToSet(I.callees)
    <3>1. f \in ToSet(calleesOfInterest)
      BY <2>2, <2>3, CalleesFacts, SequenceFacts DEF ToSet
    <3> QED
      BY <2>2, <3>1, OfInterest
  <2>5. r.right = startSymbol(f) /\ r.args = callArgs(m) /\ IsSequence(r.args) /\ Terms(r.args)
    BY <2>1, <2>2, <2>3, PassedAre DEF Rule
  <2>6. FitsArgs(callArgs(m), e, a)
    BY <2>5, TargetsAre
  <2>7. PICK c \in Passed(I, e) : a = EntryRow(c)
    BY <2>2, <2>6, PassedAre
  <2>8. PICK s : s = <<Entered(f), c, t>>
    OBVIOUS
  <2>9. s \in Calls(I, e, t)
    BY <2>2, <2>4, <2>8, CallsAre
  <2>10. s[1][1] = -3 /\ s[1][2] = f /\ s[2] = c
    BY <2>8 DEF Entered
  <2>11. GoesTo(s[1], n) = startSymbol(f) /\ Arguments(s[1], s[2]) = EntryRow(c)
    BY <2>10, ArgumentsAre DEF GoesTo
  <2> QED
    BY <1>2, <2>5, <2>7, <2>9, <2>11
<1> QED
  BY <1>3, <1>4

-----------------------------------------------------------------------------
(* What the function and its variables determine does not change.            *)

LEMMA SameNames ==
  ASSUME UNCHANGED <<fn, options, m_vars>>
  PROVE  /\ Blocks' = Blocks /\ Places' = Places /\ Comparisons' = Comparisons /\ Vars' = Vars
         /\ Envs' = Envs /\ Bools' = Bools /\ m_lhs' = m_lhs /\ VarsIn' = VarsIn
         /\ \A p : InstrAt(p)' = InstrAt(p) /\ InBlock(p)' = InBlock(p)
<1>1. \A p : InstrAt(p)' = InstrAt(p)
  BY DEF InstrAt
<1>2. Blocks' = Blocks
  BY DEF Blocks
<1>3. Places' = Places
  BY <1>2 DEF Places
<1>4. Comparisons' = Comparisons
  BY <1>1, <1>3 DEF Comparisons
<1>5. Results' = Results
  BY <1>1, <1>3 DEF Results
<1>6. Phis' = Phis
  BY <1>2 DEF Phis
<1>7. Vars' = Vars
  BY <1>5, <1>6 DEF Vars
<1>8. Envs' = Envs /\ Bools' = Bools
  BY <1>4, <1>7 DEF Envs, Bools
<1>9. m_lhs' = m_lhs
  BY DEF m_lhs
<1>10. VarsIn' = VarsIn
  BY <1>7 DEF VarsIn
<1>11. \A p : InBlock(p)' = InBlock(p)
  BY <1>2 DEF InBlock
<1> QED
  BY <1>1, <1>2, <1>3, <1>4, <1>7, <1>8, <1>9, <1>10, <1>11

LEMMA SameSteps ==
  ASSUME UNCHANGED <<fn, options, m_vars>>, NEW p, NEW e, NEW t
  PROVE  Steps(p, e, t)' = Steps(p, e, t)
<1>1. Blocks' = Blocks /\ Places' = Places /\ InstrAt(p)' = InstrAt(p)
  BY SameNames
<1>2. Effects(InstrAt(p), Result(p), e, t)' = Effects(InstrAt(p), Result(p), e, t)
  BY <1>1 DEF Effects
<1>3. Outcomes(p, e, t)' = Outcomes(p, e, t)
  BY <1>1 DEF Outcomes
<1>4. Calls(InstrAt(p), e, t)' = Calls(InstrAt(p), e, t)
  BY <1>1 DEF Calls
<1>5. \A b, s : PhiValues(b, s, e)' = PhiValues(b, s, e)
  BY DEF PhiValues, PhiVar
<1>6. \A b, s : Jump(b, s, e, t)' = Jump(b, s, e, t)
  BY <1>5 DEF Jump
<1>7. Branches(p[1], e, t)' = Branches(p[1], e, t)
  BY <1>6 DEF Branches
<1> QED
  BY <1>1, <1>2, <1>3, <1>4, <1>7 DEF Steps

LEMMA SameRuns ==
  ASSUME UNCHANGED <<fn, options, m_vars>>, NEW p, NEW e, NEW t
  PROVE  /\ RunOK(p, e, t)' = RunOK(p, e, t) /\ Conforms(p, e, t)' = Conforms(p, e, t)
         /\ Arguments(p, e)' = Arguments(p, e) /\ followed(p)' = followed(p)
         /\ exactlyTranslated' = exactlyTranslated
<1>1. /\ Blocks' = Blocks /\ Places' = Places /\ Comparisons' = Comparisons
      /\ Envs' = Envs /\ Bools' = Bools
      /\ \A q : InstrAt(q)' = InstrAt(q) /\ InBlock(q)' = InBlock(q)
  BY SameNames
<1>2. \A c : Holds(c, e, t)' = Holds(c, e, t)
  BY <1>1 DEF Holds
<1>3. ComparisonsHold(p, e, t)' = ComparisonsHold(p, e, t)
  BY <1>1, <1>2 DEF ComparisonsHold
<1>4. AssumesPassed(p, t)' = AssumesPassed(p, t)
  BY <1>1 DEF AssumesPassed
<1>5. EdgesTaken(p, t)' = EdgesTaken(p, t)
  BY <1>1 DEF EdgesTaken
<1>6. RunOK(p, e, t)' = RunOK(p, e, t)
  BY <1>1, <1>3, <1>4, <1>5 DEF RunOK
<1>7. Conforms(p, e, t)' = Conforms(p, e, t)
  BY <1>1, <1>2 DEF Conforms
<1>8. Arguments(p, e)' = Arguments(p, e)
  BY DEF Arguments
<1>9. followed(p)' = followed(p)
  BY DEF followed
<1>10. exactlyTranslated' = exactlyTranslated
  BY <1>1 DEF exactlyTranslated
<1> QED
  BY <1>6, <1>7, <1>8, <1>9, <1>10

-----------------------------------------------------------------------------
(* The symbols of the places.                                               *)

LEMMA EndsOf ==
  ASSUME NEW n \in Nat, NEW S \in SUBSET (1 .. n), S # {}
  PROVE  /\ Min(S) \in S /\ \A w \in S : Min(S) =< w
         /\ Max(S) \in S /\ \A w \in S : w =< Max(S)
<1> DEFINE K == {n - k : k \in S}
<1>1. Min(S) \in S /\ \A w \in S : Min(S) =< w
  <2>1. PICK z \in S : \A w \in S : z =< w
    BY LeastElement
  <2> QED
    BY <2>1 DEF Min
<1>2. Max(S) \in S /\ \A w \in S : w =< Max(S)
  <2>1. K \in SUBSET Nat /\ K # {}
    OBVIOUS
  <2>2. PICK z \in K : \A w \in K : z =< w
    <3> HIDE DEF K
    <3> QED
      BY <2>1, LeastElement
  <2>3. PICK k \in S : z = n - k
    BY <2>2
  <2>4. ASSUME NEW l \in S
        PROVE  k >= l
    <3>1. z =< n - l
      BY <2>2
    <3>2. k \in Nat /\ l \in Nat
      BY <2>3, <2>4
    <3> QED
      BY <2>3, <3>1, <3>2
  <2>5. \E x \in S : \A y \in S : x >= y
    BY <2>4
  <2>6. Max(S) \in S /\ \A y \in S : Max(S) >= y
    BY <2>5 DEF Max
  <2>7. S \subseteq Int
    OBVIOUS
  <2>8. PICK m : m = Max(S)
    OBVIOUS
  <2>9. m \in S /\ m \in Int /\ \A y \in S : m >= y /\ y \in Int
    BY <2>6, <2>7, <2>8
  <2>10. m \in S /\ \A w \in S : w =< m
    BY <2>9
  <2> QED
    BY <2>8, <2>10
<1> QED
  BY <1>1, <1>2

LEMMA NumberedAre ==
  ASSUME fn \in Functions, NEW b \in Blocks
  PROVE  /\ numbered(b) \in SUBSET (1 .. Len(fn.code[b])) /\ Len(fn.code[b]) \in Nat
         /\ \A k : k \in numbered(b) <=> k \in 1 .. Len(fn.code[b]) /\ <<b, k>> \in DOMAIN m_idMap
BY CodeLength DEF numbered

(* Two numbers with none in between follow each other.                       *)
Consecutive ==
  \A p, q \in DOMAIN m_idMap :
    /\ p[1] = q[1] /\ p[2] < q[2]
    /\ \A r \in DOMAIN m_idMap : ~(r[1] = p[1] /\ p[2] < r[2] /\ r[2] < q[2])
    => m_idMap[q] = m_idMap[p] + 1

LEMMA SymbolAtEdges ==
  ASSUME fn \in Functions
  PROVE  /\ SymbolAt(Start) = startSymbol(m_function) /\ SymbolAt(Stop) = stopSymbol
         /\ \A q : q[1] = -3 => SymbolAt(q) = startSymbol(q[2])
         /\ \A b \in Blocks :
              /\ SymbolAt(<<b, 0>>) = inSymbol(b)
              /\ SymbolAt(<<b, Len(fn.code[b]) + 2>>) = outSymbol(b)
<1>0. Start # Stop /\ Start[1] = -1 /\ Stop[1] = -2 /\ ~(-1 >= 0) /\ ~(-2 >= 0) /\ -1 # -3 /\ -2 # -3
  BY DEF Start, Stop
<1>1. SymbolAt(Start) = startSymbol(m_function)
  BY <1>0 DEF SymbolAt
<1>2. SymbolAt(Stop) = stopSymbol
  BY <1>0 DEF SymbolAt
<1>3. ASSUME NEW q, q[1] = -3
      PROVE  SymbolAt(q) = startSymbol(q[2])
  <2>1. q # Start /\ q # Stop
    BY <1>3 DEF Start, Stop
  <2>2. ~(q[1] >= 0)
    BY <1>3
  <2> QED
    BY <1>3, <2>1, <2>2 DEF SymbolAt
<1>4. ASSUME NEW b \in Blocks
      PROVE  /\ SymbolAt(<<b, 0>>) = inSymbol(b)
             /\ SymbolAt(<<b, Len(fn.code[b]) + 2>>) = outSymbol(b)
  <2>1. b \in Nat /\ Len(fn.code[b]) \in Nat
    BY GraphFacts, CodeLength
  <2> DEFINE last == Len(fn.code[b]) + 2
  <2>2. last \in Nat /\ last # 0 /\ 0 < last
    BY <2>1
  <2>3. \A k : <<b, k>> # Start /\ <<b, k>> # Stop /\ <<b, k>>[1] = b /\ b >= 0 /\ b # -3
    BY <2>1 DEF Start, Stop
  <2>4. SymbolAt(<<b, 0>>) = inSymbol(b)
    BY <2>2, <2>3 DEF SymbolAt
  <2>5. SymbolAt(<<b, last>>) = outSymbol(b)
    BY <2>2, <2>3 DEF SymbolAt
  <2> QED
    BY <2>4, <2>5
<1> QED
  BY <1>1, <1>2, <1>3, <1>4

LEMMA SymbolInside ==
  ASSUME fn \in Functions, NEW b \in Blocks, NEW k \in 1 .. Len(fn.code[b]) + 1
  PROVE  LET ahead == {j \in numbered(b) : j >= k}
         IN  /\ numbered(b) = {} => SymbolAt(<<b, k>>) = inSymbol(b)
             /\ numbered(b) # {} /\ ahead # {} => SymbolAt(<<b, k>>) = eval(m_idMap[<<b, Min(ahead)>>])
             /\ numbered(b) # {} /\ ahead = {} => SymbolAt(<<b, k>>) = eval(lastID(b) + 1)
<1>1. b \in Nat /\ Len(fn.code[b]) \in Nat
  BY GraphFacts, CodeLength
<1>2. k # 0 /\ k # Len(fn.code[b]) + 2 /\ k < Len(fn.code[b]) + 2
  BY <1>1
<1>3. <<b, k>> # Start /\ <<b, k>> # Stop /\ b >= 0 /\ b # -3
  BY <1>1 DEF Start, Stop
<1> QED
  BY <1>2, <1>3 DEF SymbolAt

LEMMA SymbolOfNumber ==
  ASSUME fn \in Functions, DOMAIN m_idMap \subseteq Places, NEW p \in DOMAIN m_idMap
  PROVE  SymbolAt(p) = eval(m_idMap[p])
<1>1. PICK b \in Blocks, k \in Nat : p = <<b, k>> /\ k \in 1 .. Len(fn.code[b]) /\ Len(fn.code[b]) \in Nat
  BY PlaceFacts, PlacesAre
<1>2. k \in 1 .. Len(fn.code[b]) + 1 /\ k \in Nat
  BY <1>1
<1> DEFINE ahead == {j \in numbered(b) : j >= k}
<1>3. k \in ahead /\ ahead \in SUBSET (1 .. Len(fn.code[b]))
  BY <1>1, <1>2, NumberedAre
<1>4. Min(ahead) \in ahead /\ Min(ahead) =< k
  <2>1. ahead # {} /\ ahead \in SUBSET (1 .. Len(fn.code[b])) /\ k \in ahead
    BY <1>3
  <2> HIDE DEF ahead
  <2> QED
    BY <1>1, <2>1, EndsOf
<1>5. Min(ahead) = k
  <2>1. \A j \in ahead : j >= k /\ j \in Int
    BY <1>3
  <2> HIDE DEF ahead
  <2> QED
    BY <1>2, <1>4, <2>1
<1>6. SymbolAt(<<b, k>>) = eval(m_idMap[<<b, Min(ahead)>>])
  BY <1>2, <1>3, SymbolInside
<1> QED
  BY <1>1, <1>5, <1>6

LEMMA SymbolAfterNumber ==
  ASSUME fn \in Functions, DOMAIN m_idMap \subseteq Places, Consecutive, NEW p \in DOMAIN m_idMap
  PROVE  SymbolAt(<<p[1], p[2] + 1>>) = eval(m_idMap[p] + 1)
<1>1. PICK b \in Blocks, k \in Nat : p = <<b, k>> /\ k \in 1 .. Len(fn.code[b]) /\ Len(fn.code[b]) \in Nat
  BY PlaceFacts, PlacesAre
<1>2. k + 1 \in 1 .. Len(fn.code[b]) + 1 /\ k \in Nat /\ k \in numbered(b) /\ numbered(b) \in SUBSET (1 .. Len(fn.code[b]))
  BY <1>1, NumberedAre
<1> DEFINE ahead == {j \in numbered(b) : j >= k + 1}
<1>3. ahead \in SUBSET (1 .. Len(fn.code[b])) /\ \A j \in ahead : j \in Nat /\ k < j /\ <<b, j>> \in DOMAIN m_idMap
  BY <1>1, <1>2, NumberedAre
<1>4. CASE ahead # {}
  <2>1. SymbolAt(<<b, k + 1>>) = eval(m_idMap[<<b, Min(ahead)>>])
    BY <1>2, <1>4, SymbolInside
  <2> DEFINE m == Min(ahead)
  <2>2. m \in ahead /\ \A w \in ahead : m =< w
    <3> HIDE DEF ahead
    <3> QED
      BY <1>1, <1>3, <1>4, EndsOf
  <2> HIDE DEF m
  <2>3. ASSUME NEW r \in DOMAIN m_idMap, r[1] = b, k < r[2], r[2] < m
        PROVE  FALSE
    <3>1. r \in Places /\ r = <<b, r[2]>> /\ r[2] \in Nat
      BY <2>3, PlaceFacts
    <3>2. r[2] \in numbered(b)
      BY <2>3, <3>1, PlacesAre, NumberedAre
    <3>3. r[2] \in ahead /\ m \in Nat
      BY <1>2, <1>3, <2>2, <2>3, <3>1, <3>2
    <3> HIDE DEF ahead
    <3> QED
      BY <2>2, <2>3, <3>1, <3>3
  <2>4. <<b, m>> \in DOMAIN m_idMap /\ k < m
    BY <1>3, <2>2
  <2>5. m_idMap[<<b, m>>] = m_idMap[<<b, k>>] + 1
    BY <1>1, <2>3, <2>4 DEF Consecutive
  <2> QED
    BY <1>1, <2>1, <2>5 DEF m
<1>5. CASE ahead = {}
  <2>1. SymbolAt(<<b, k + 1>>) = eval(lastID(b) + 1)
    BY <1>2, <1>5, SymbolInside
  <2> DEFINE m == Max(numbered(b))
  <2>2. m \in numbered(b) /\ k =< m
    BY <1>1, <1>2, EndsOf
  <2> HIDE DEF m
  <2>3. m \in Nat
    BY <1>2, <2>2
  <2>4. ~(m >= k + 1)
    BY <1>5, <2>2
  <2>5. m = k
    BY <1>2, <2>2, <2>3, <2>4
  <2> QED
    BY <1>1, <2>1, <2>5 DEF lastID, m
<1> QED
  BY <1>4, <1>5

LEMMA SymbolKept ==
  ASSUME fn \in Functions, NEW p \in Places, p \notin DOMAIN m_idMap
  PROVE  SymbolAt(<<p[1], p[2] + 1>>) = SymbolAt(p)
<1>1. PICK b \in Blocks, k \in Nat : p = <<b, k>> /\ k \in 1 .. Len(fn.code[b]) /\ Len(fn.code[b]) \in Nat
  BY PlaceFacts, PlacesAre
<1>2. k \in 1 .. Len(fn.code[b]) + 1 /\ k + 1 \in 1 .. Len(fn.code[b]) + 1 /\ k \in Nat
      /\ k \notin numbered(b) /\ numbered(b) \in SUBSET (1 .. Len(fn.code[b]))
  BY <1>1, NumberedAre
<1> DEFINE ahead(j) == {l \in numbered(b) : l >= j}
<1>3. ahead(k) = ahead(k + 1)
  <2>1. \A l \in numbered(b) : l \in Nat /\ l # k
    BY <1>2
  <2>2. \A l \in numbered(b) : l >= k <=> l >= k + 1
    BY <1>2, <2>1
  <2> QED
    BY <2>2
<1>4. SymbolAt(<<b, k>>) = SymbolAt(<<b, k + 1>>)
  BY <1>2, <1>3, SymbolInside
<1> QED
  BY <1>1, <1>4

LEMMA SymbolFirst ==
  ASSUME fn \in Functions, NEW b \in Blocks
  PROVE  /\ numbered(b) = {} => SymbolAt(<<b, 1>>) = inSymbol(b)
         /\ numbered(b) # {} => SymbolAt(<<b, 1>>) = eval(firstID(b))
<1>1. 1 \in 1 .. Len(fn.code[b]) + 1 /\ numbered(b) \in SUBSET (1 .. Len(fn.code[b]))
  BY NumberedAre
<1>2. {j \in numbered(b) : j >= 1} = numbered(b)
  BY <1>1
<1> QED
  BY <1>1, <1>2, SymbolInside DEF firstID

LEMMA SymbolLast ==
  ASSUME fn \in Functions, NEW b \in Blocks
  PROVE  /\ numbered(b) = {} => SymbolAt(<<b, Len(fn.code[b]) + 1>>) = inSymbol(b)
         /\ numbered(b) # {} => SymbolAt(<<b, Len(fn.code[b]) + 1>>) = eval(lastID(b) + 1)
<1> DEFINE k == Len(fn.code[b]) + 1
<1>1. k \in 1 .. Len(fn.code[b]) + 1 /\ numbered(b) \in SUBSET (1 .. Len(fn.code[b])) /\ Len(fn.code[b]) \in Nat
  BY NumberedAre
<1>2. {j \in numbered(b) : j >= k} = {}
  BY <1>1
<1> HIDE DEF k
<1>3. /\ numbered(b) = {} => SymbolAt(<<b, k>>) = inSymbol(b)
      /\ numbered(b) # {} => SymbolAt(<<b, k>>) = eval(lastID(b) + 1)
  BY <1>1, <1>2, SymbolInside
<1> QED
  BY <1>3 DEF k

-----------------------------------------------------------------------------
(* A place is simulated when every step from it is one of the rules R, exact  *)
(* when the rules of R that apply there do nothing else.                     *)

SimulatedFrom(p, R) ==
  \A e, t : RunOK(p, e, t) =>
    \A s \in Steps(p, e, t) : followed(s[1]) =>
      \/ SymbolAt(p) = SymbolAt(s[1]) /\ s[2] = e
      \/ \E r \in R : /\ r.left = SymbolAt(p) /\ r.right = SymbolAt(s[1])
                      /\ Arguments(s[1], s[2]) \in Targets(r, e)

ExactFrom(p, R) ==
  exactlyTranslated /\ hasRules(p) =>
    \A e, t : RunOK(p, e, t) =>
      \A r \in R : r.left = SymbolAt(p) =>
        \A a \in Targets(r, e) :
          \E s \in Steps(p, e, t) : SymbolAt(s[1]) = r.right /\ Arguments(s[1], s[2]) = a

LEMMA NumberedStep ==
  ASSUME fn \in Functions, DOMAIN m_idMap \subseteq Places, Consecutive, NEW p \in DOMAIN m_idMap,
         InstrAt(p).op \notin {"icmp", "fcmp"}, NEW e, NEW t, RunOK(p, e, t)
  PROVE  /\ e \in Envs /\ t \in Bools /\ Conforms(p, e, t)
         /\ \A s \in Steps(p, e, t) : SymbolAt(s[1]) = GoesTo(s[1], m_idMap[p])
<1>1. p \in Places /\ InBlock(p) /\ p[1] # -3
  BY PlacesAre, InBlockIsPoint
<1>2. e \in Envs /\ t \in Bools /\ ComparisonsHold(p, e, t)
  BY <1>1 DEF RunOK
<1>3. Conforms(p, e, t)
  BY <1>1, <1>2, UsesAre DEF Conforms, ComparisonsHold
<1>4. ASSUME NEW s \in Steps(p, e, t)
      PROVE  SymbolAt(s[1]) = GoesTo(s[1], m_idMap[p])
  <2>1. s[1] = <<p[1], p[2] + 1>> \/ \E f : s[1] = Entered(f)
    BY <1>1, StepsAt DEF Calls
  <2>2. CASE s[1] = <<p[1], p[2] + 1>>
    <3>1. SymbolAt(s[1]) = eval(m_idMap[p] + 1)
      BY <2>2, SymbolAfterNumber
    <3>2. s[1][1] # -3
      BY <1>1, <2>2
    <3> QED
      BY <3>1, <3>2 DEF GoesTo
  <2>3. CASE \E f : s[1] = Entered(f)
    <3>1. s[1][1] = -3
      BY <2>3 DEF Entered
    <3> QED
      BY <3>1, SymbolAtEdges DEF GoesTo
  <2> QED
    BY <2>1, <2>2, <2>3
<1> QED
  BY <1>2, <1>3, <1>4

LEMMA NumberedSimulated ==
  ASSUME fn \in Functions, DOMAIN m_idMap \subseteq Places, Consecutive, NEW p \in DOMAIN m_idMap,
         InstrAt(p).op \notin {"icmp", "fcmp"}, NEW R
  PROVE  /\ Covers(p, m_idMap[p], R) => SimulatedFrom(p, R)
         /\ Faithful(p, m_idMap[p], R) => ExactFrom(p, R)
<1>1. SymbolAt(p) = eval(m_idMap[p])
  BY SymbolOfNumber
<1>2. ASSUME Covers(p, m_idMap[p], R)
      PROVE  SimulatedFrom(p, R)
  <2> SUFFICES ASSUME NEW e, NEW t, RunOK(p, e, t), NEW s \in Steps(p, e, t), followed(s[1])
               PROVE  \E r \in R : /\ r.left = SymbolAt(p) /\ r.right = SymbolAt(s[1])
                                   /\ Arguments(s[1], s[2]) \in Targets(r, e)
    BY DEF SimulatedFrom
  <2>1. e \in Envs /\ t \in Bools /\ Conforms(p, e, t) /\ SymbolAt(s[1]) = GoesTo(s[1], m_idMap[p])
    BY NumberedStep
  <2>2. PICK r \in R : /\ r.left = eval(m_idMap[p]) /\ r.right = GoesTo(s[1], m_idMap[p])
                       /\ Arguments(s[1], s[2]) \in Targets(r, e)
    BY <1>2, <2>1 DEF Covers
  <2> QED
    BY <1>1, <2>1, <2>2
<1>3. ASSUME Faithful(p, m_idMap[p], R)
      PROVE  ExactFrom(p, R)
  <2> SUFFICES ASSUME exactlyTranslated, NEW e, NEW t, RunOK(p, e, t), NEW r \in R, r.left = SymbolAt(p),
                      NEW a \in Targets(r, e)
               PROVE  \E s \in Steps(p, e, t) : SymbolAt(s[1]) = r.right /\ Arguments(s[1], s[2]) = a
    BY DEF ExactFrom
  <2>1. e \in Envs /\ t \in Bools /\ Conforms(p, e, t)
        /\ \A s \in Steps(p, e, t) : SymbolAt(s[1]) = GoesTo(s[1], m_idMap[p])
    BY NumberedStep
  <2>2. PICK s \in Steps(p, e, t) : r.right = GoesTo(s[1], m_idMap[p]) /\ Arguments(s[1], s[2]) = a
    BY <1>1, <1>3, <2>1 DEF Faithful
  <2> QED
    BY <2>1, <2>2
<1> QED
  BY <1>2, <1>3

LEMMA ComparisonSimulated ==
  ASSUME fn \in Functions, NEW p \in Places, p \notin DOMAIN m_idMap,
         InstrAt(p).op \in {"icmp", "fcmp"}, NEW R
  PROVE  SimulatedFrom(p, R) /\ ExactFrom(p, R)
<1>1. InBlock(p) /\ p[1] \in Blocks /\ p = <<p[1], p[2]>> /\ p[2] \in 1 .. Len(fn.code[p[1]])
      /\ Len(fn.code[p[1]]) \in Nat /\ p # Start
  BY PlacesAre, InBlockIsPoint, PlaceFacts
<1>2. ASSUME NEW e, NEW t, NEW s \in Steps(p, e, t)
      PROVE  s[1] = <<p[1], p[2] + 1>> /\ s[2] = e
  <2>1. Effects(InstrAt(p), Result(p), e, t) = {e} /\ Calls(InstrAt(p), e, t) = {}
    BY DEF Effects, Calls
  <2>2. p[2] \notin {0, Len(fn.code[p[1]]) + 1, Len(fn.code[p[1]]) + 2}
    BY <1>1
  <2> QED
    BY <1>1, <1>2, <2>1, <2>2, StepCases
<1>3. SymbolAt(<<p[1], p[2] + 1>>) = SymbolAt(p)
  BY SymbolKept
<1>4. ~hasRules(p)
  <2>1. p[2] \notin numbered(p[1])
    BY <1>1, NumberedAre
  <2>2. p[2] # 0 /\ ~(p[2] > Len(fn.code[p[1]]))
    BY <1>1
  <2> QED
    BY <1>1, <2>1, <2>2 DEF hasRules
<1> QED
  BY <1>2, <1>3, <1>4 DEF SimulatedFrom, ExactFrom

(* The rule of a block whose arguments stay: within a block from place p to   *)
(* the next.                                                                *)
LEMMA PlainRule ==
  ASSUME fn \in Functions, IsSequence(m_vars), NEW p, NEW q, q[1] # -3, SymbolAt(p) # SymbolAt(q), NEW cond,
         \A e, t : RunOK(p, e, t) => AtomsHold(cond, e) /\ Steps(p, e, t) = {<<q, e, t>>},
         NEW R
  PROVE  LET r == Rule(SymbolAt(p), SymbolAt(q), m_lhs, cond)
         IN  /\ r \in R => SimulatedFrom(p, R)
             /\ (\A o \in R : o.left = SymbolAt(p) => o = r) => ExactFrom(p, R)
<1> DEFINE r == Rule(SymbolAt(p), SymbolAt(q), m_lhs, cond)
<1>1. r.left = SymbolAt(p) /\ r.right = SymbolAt(q) /\ r.args = m_lhs /\ r.cond = cond
  BY DEF Rule
<1>2. IsSequence(r.args) /\ Terms(r.args)
  BY <1>1, LhsOK DEF ArgsOK
<1> HIDE DEF r
<1>3. ASSUME NEW e, NEW a
      PROVE  a \in Targets(r, e) <=> AtomsHold(cond, e) /\ a = Row(e)
  BY <1>1, <1>2, TargetsAre, LhsRow
<1>4. \A e : Arguments(q, e) = Row(e)
  BY ArgumentsAre
<1>5. ASSUME r \in R
      PROVE  SimulatedFrom(p, R)
  <2> SUFFICES ASSUME NEW e, NEW t, RunOK(p, e, t), NEW s \in Steps(p, e, t)
               PROVE  \E o \in R : /\ o.left = SymbolAt(p) /\ o.right = SymbolAt(s[1])
                                   /\ Arguments(s[1], s[2]) \in Targets(o, e)
    BY DEF SimulatedFrom
  <2>1. AtomsHold(cond, e) /\ s = <<q, e, t>>
    OBVIOUS
  <2>2. s[1] = q /\ s[2] = e
    BY <2>1
  <2>3. Arguments(s[1], s[2]) \in Targets(r, e)
    BY <1>3, <1>4, <2>1, <2>2
  <2> QED
    BY <1>1, <1>5, <2>2, <2>3
<1>6. ASSUME \A o \in R : o.left = SymbolAt(p) => o = r
      PROVE  ExactFrom(p, R)
  <2> SUFFICES ASSUME NEW e, NEW t, RunOK(p, e, t), NEW o \in R, o.left = SymbolAt(p), NEW a \in Targets(o, e)
               PROVE  \E s \in Steps(p, e, t) : SymbolAt(s[1]) = o.right /\ Arguments(s[1], s[2]) = a
    BY DEF ExactFrom
  <2>1. o = r /\ a = Row(e)
    BY <1>3, <1>6
  <2>2. <<q, e, t>> \in Steps(p, e, t)
    OBVIOUS
  <2> QED
    BY <1>1, <1>4, <2>1, <2>2
<1> QED
  BY <1>5, <1>6 DEF r

LEMMA InnerSteps ==
  ASSUME fn \in Functions, NEW p, InBlock(p), p[2] \in {0, Len(fn.code[p[1]]) + 1}, NEW e, NEW t
  PROVE  Steps(p, e, t) = {<<<<p[1], p[2] + 1>>, e, t>>}
<1>1. p[1] \in Nat /\ p # Start /\ p[1] >= 0 /\ Len(fn.code[p[1]]) \in Nat /\ p[2] # Len(fn.code[p[1]]) + 2
  BY InBlockIsPoint, CodeLength DEF InBlock
<1>2. p \notin Places
  BY <1>1, PlacesAre
<1> QED
  BY <1>1, <1>2 DEF Steps

(* The instructions of block b that are numbered are all but the comparisons. *)
Numbers(b) ==
  \A q \in Places : q[1] = b => (q \in DOMAIN m_idMap <=> InstrAt(q).op \notin {"icmp", "fcmp"})

LEMMA BlockStart ==
  ASSUME fn \in Functions, IsSequence(m_vars), NEW b \in Blocks, NEW R
  PROVE  /\ firstRule(b) \in R => SimulatedFrom(<<b, 0>>, R)
         /\ (\A o \in R : o.left = inSymbol(b) => o = firstRule(b)) => ExactFrom(<<b, 0>>, R)
<1> DEFINE p == <<b, 0>>
           q == <<b, 1>>
<1>1. b \in Nat /\ Len(fn.code[b]) \in Nat /\ InBlock(p) /\ p[1] = b /\ p[2] = 0 /\ q[1] # -3
  BY GraphFacts, CodeLength DEF InBlock
<1>2. SymbolAt(p) = inSymbol(b)
  BY SymbolAtEdges
<1>3. \A e, t : Steps(p, e, t) = {<<q, e, t>>}
  BY <1>1, InnerSteps
<1> HIDE DEF p, q
<1>4. CASE numbered(b) = {}
  <2>1. SymbolAt(q) = inSymbol(b)
    BY <1>4, SymbolFirst DEF q
  <2>2. ~hasRules(p)
    <3>1. p # Start
      BY <1>1, InBlockIsPoint
    <3> QED
      BY <1>1, <1>4, <3>1 DEF hasRules
  <2>3. SimulatedFrom(p, R)
    BY <1>2, <1>3, <2>1 DEF SimulatedFrom
  <2> QED
    BY <2>2, <2>3 DEF ExactFrom, p
<1>5. CASE numbered(b) # {}
  <2>1. SymbolAt(q) = eval(firstID(b))
    BY <1>5, SymbolFirst DEF q
  <2>2. SymbolAt(p) # SymbolAt(q)
    BY <1>2, <2>1 DEF inSymbol, eval
  <2>3. firstRule(b) = Rule(SymbolAt(p), SymbolAt(q), m_lhs, buildConjunction(b))
    BY <1>2, <1>5, <2>1 DEF firstRule
  <2>4. \A e, t : RunOK(p, e, t) => AtomsHold(buildConjunction(b), e)
    BY <1>1, KnownHold
  <2> DEFINE cond == buildConjunction(b)
  <2>5. \A e, t : RunOK(p, e, t) => AtomsHold(cond, e) /\ Steps(p, e, t) = {<<q, e, t>>}
    BY <1>3, <2>4
  <2> HIDE DEF cond
  <2>6. LET r == Rule(SymbolAt(p), SymbolAt(q), m_lhs, cond)
        IN  /\ r \in R => SimulatedFrom(p, R)
            /\ (\A o \in R : o.left = SymbolAt(p) => o = r) => ExactFrom(p, R)
    BY <1>1, <2>2, <2>5, PlainRule
  <2> QED
    BY <1>2, <2>3, <2>6 DEF cond, p
<1> QED
  BY <1>4, <1>5

LEMMA BlockEnd ==
  ASSUME fn \in Functions, IsSequence(m_vars), NEW b \in Blocks, NEW R
  PROVE  LET p == <<b, Len(fn.code[b]) + 1>>
         IN  /\ firstRule(b) \in R /\ ToSet(lastRules(b)) \subseteq R => SimulatedFrom(p, R)
             /\ /\ \A o \in R : o.left = inSymbol(b) => o = firstRule(b)
                /\ \A o \in R : numbered(b) # {} /\ o.left = eval(lastID(b) + 1) => o \in ToSet(lastRules(b))
                => ExactFrom(p, R)
<1> DEFINE l == Len(fn.code[b])
           p == <<b, l + 1>>
           q == <<b, l + 2>>
<1>1. b \in Nat /\ l \in Nat /\ InBlock(p) /\ p[1] = b /\ p[2] = l + 1 /\ q[1] # -3 /\ (l + 1) + 1 = l + 2
  BY GraphFacts, CodeLength DEF InBlock
<1>2. SymbolAt(q) = outSymbol(b)
  BY SymbolAtEdges
<1>3. \A e, t : Steps(p, e, t) = {<<q, e, t>>}
  BY <1>1, InnerSteps
<1>4. /\ numbered(b) = {} => SymbolAt(p) = inSymbol(b)
      /\ numbered(b) # {} => SymbolAt(p) = eval(lastID(b) + 1)
  BY SymbolLast
<1>5. SymbolAt(p) # SymbolAt(q)
  BY <1>2, <1>4 DEF inSymbol, eval, outSymbol
<1> HIDE DEF p, q, l
<1>6. CASE numbered(b) = {}
  <2> DEFINE cond == buildConjunction(b)
  <2>1. firstRule(b) = Rule(SymbolAt(p), SymbolAt(q), m_lhs, cond)
    BY <1>2, <1>4, <1>6 DEF firstRule
  <2>2. \A e, t : RunOK(p, e, t) => AtomsHold(cond, e)
    BY <1>1, KnownHold
  <2> HIDE DEF cond
  <2>3. \A e, t : RunOK(p, e, t) => AtomsHold(cond, e) /\ Steps(p, e, t) = {<<q, e, t>>}
    BY <1>3, <2>2
  <2>4. LET r == Rule(SymbolAt(p), SymbolAt(q), m_lhs, cond)
        IN  /\ r \in R => SimulatedFrom(p, R)
            /\ (\A o \in R : o.left = SymbolAt(p) => o = r) => ExactFrom(p, R)
    BY <1>1, <1>5, <2>3, PlainRule
  <2> QED
    BY <1>4, <1>6, <2>1, <2>4 DEF p, l
<1>7. CASE numbered(b) # {}
  <2> DEFINE r == Rule(SymbolAt(p), SymbolAt(q), m_lhs, {})
  <2>1. lastRules(b) = <<r>>
    BY <1>2, <1>4, <1>7 DEF lastRules
  <2>2. ToSet(lastRules(b)) = {r}
    <3> HIDE DEF r
    <3> QED
      BY <2>1, SingletonSequence
  <2>3. \A e, t : RunOK(p, e, t) => AtomsHold({}, e) /\ Steps(p, e, t) = {<<q, e, t>>}
    BY <1>3, NoAtoms
  <2>4. /\ r \in R => SimulatedFrom(p, R)
        /\ (\A o \in R : o.left = SymbolAt(p) => o = r) => ExactFrom(p, R)
    BY <1>1, <1>5, <2>3, PlainRule
  <2> HIDE DEF r
  <2> QED
    BY <1>4, <1>7, <2>2, <2>4 DEF p, l
<1> QED
  BY <1>6, <1>7

LEMMA BlockInside ==
  ASSUME fn \in Functions, IsSequence(m_vars), DOMAIN m_idMap \subseteq Places, Consecutive, NEW b \in Blocks, Numbers(b),
         NEW R, NEW p, InBlock(p), p[1] = b, p[2] # Len(fn.code[b]) + 2
  PROVE  /\ /\ firstRule(b) \in R /\ ToSet(lastRules(b)) \subseteq R
            /\ \A q \in DOMAIN m_idMap : q[1] = b => Covers(q, m_idMap[q], R)
            => SimulatedFrom(p, R)
         /\ /\ \A o \in R : o.left = inSymbol(b) => o = firstRule(b)
            /\ \A o \in R : numbered(b) # {} /\ o.left = eval(lastID(b) + 1) => o \in ToSet(lastRules(b))
            /\ \A q \in DOMAIN m_idMap : q[1] = b => Faithful(q, m_idMap[q], R)
            => ExactFrom(p, R)
<1>1. p = <<b, p[2]>> /\ p[2] \in 0 .. Len(fn.code[b]) + 2 /\ Len(fn.code[b]) \in Nat
  BY CodeLength DEF InBlock
<1>2. CASE p \in DOMAIN m_idMap
  <2>1. p \in Places /\ InstrAt(p).op \notin {"icmp", "fcmp"}
    BY <1>2 DEF Numbers
  <2> QED
    BY <1>2, <2>1, NumberedSimulated
<1>3. CASE p \in Places /\ p \notin DOMAIN m_idMap
  BY <1>3, ComparisonSimulated DEF Numbers
<1>4. CASE p \notin Places
  <2>1. p[2] = 0 \/ p[2] = Len(fn.code[b]) + 1
    BY <1>1, <1>4, InBlockIsPlace
  <2> QED
    BY <1>1, <2>1, BlockStart, BlockEnd
<1> QED
  BY <1>2, <1>3, <1>4

-----------------------------------------------------------------------------
(* The jumps.                                                               *)

(* A phi is given what comes from the block, every nondef its own number.    *)
LEMMA PhiArgsAre ==
  ASSUME fn \in Functions, NEW b \in Blocks, NEW s \in ToSet(fn.succ[b]), NEW n \in Nat
  PROVE  LET A == getArgsWithPhis(b, s, n)
             values == phiValues(b, s, n)
             js == DOMAIN fn.phis[s]
         IN  /\ DOMAIN A = DOMAIN m_vars /\ A = [k \in DOMAIN m_vars |-> A[k]]
             /\ \A k \in DOMAIN m_vars : ~(\E j \in js : m_vars[k] = PhiVar(s, j)) => A[k] = m_lhs[k]
             /\ \A k \in DOMAIN m_vars : \A j \in js : m_vars[k] = PhiVar(s, j) => A[k] = values[j]
             /\ \A j \in js : \E m \in Nat : values[j] = getPolynomial(fn.phis[s][j][b], m)
             /\ \A j, l \in js : values[j][1] = "nondef" /\ values[l][1] = "nondef" /\ values[j][2] = values[l][2] => j = l
<1> DEFINE L == Len(fn.phis[s])
           x(j) == fn.phis[s][j][b]
           undef(j) == x(j)[1] = "undef"
           U(j) == {h \in 1 .. j - 1 : undef(h)}
           values == phiValues(b, s, n)
           A == getArgsWithPhis(b, s, n)
<1>1. L \in Nat /\ DOMAIN fn.phis[s] = 1 .. L /\ \A j \in 1 .. L : x(j) \in Operand
  BY SuccessorIs, CodeFacts, SequenceFacts
<1>2. DOMAIN values = 1 .. L
  BY <1>1 DEF phiValues, phiIncoming
<1>3. ASSUME NEW j \in 1 .. L
      PROVE  values[j] = getPolynomial(x(j), n + Cardinality(U(j)))
  <2> DEFINE coming == phiIncoming(b, s)
  <2>1. DOMAIN coming = 1 .. L /\ \A h \in 1 .. L : coming[h] = x(h)
    BY <1>1 DEF phiIncoming
  <2>2. {h \in 1 .. j - 1 : coming[h][1] = "undef"} = U(j)
    BY <1>1, <2>1
  <2> HIDE DEF coming, U
  <2> QED
    BY <2>1, <2>2 DEF phiValues, coming
<1>4. ASSUME NEW j \in 1 .. L
      PROVE  IsFiniteSet(U(j)) /\ Cardinality(U(j)) \in Nat /\ n + Cardinality(U(j)) \in Nat
  <2>1. IsFiniteSet(1 .. j - 1) /\ U(j) \subseteq 1 .. j - 1
    <3>1. 1 \in Int /\ j - 1 \in Int
      BY <1>1
    <3> QED
      BY <3>1, FS_Interval
  <2>2. IsFiniteSet(U(j)) /\ Cardinality(U(j)) \in Nat
    BY <2>1, FS_Subset, FS_CardinalityType
  <2> HIDE DEF U
  <2> QED
    BY <2>2
<1>5. ASSUME NEW j \in 1 .. L, NEW l \in 1 .. L, j < l, undef(j)
      PROVE  Cardinality(U(j)) < Cardinality(U(l))
  <2>1. l - 1 \in Nat /\ U(l) \in SUBSET (1 .. l - 1) /\ j \in U(l)
    BY <1>1, <1>5
  <2>2. {h \in 1 .. j - 1 : h \in U(l)} = U(j)
    BY <1>1, <1>5
  <2> HIDE DEF U
  <2> QED
    BY <2>1, <2>2, CountBefore
<1>6. ASSUME NEW j \in 1 .. L, values[j][1] = "nondef"
      PROVE  undef(j) /\ values[j][2] = n + Cardinality(U(j))
  <2>1. PICK m \in Nat : m = n + Cardinality(U(j))
    BY <1>4
  <2>2. values[j] = getPolynomial(x(j), m) /\ x(j) \in Operand
    BY <2>1, <1>1, <1>3
  <2> HIDE DEF x, values
  <2>3. PICK y \in Operand : y = x(j)
    BY <2>2
  <2>4. y[1] = "undef" /\ values[j][2] = m
    BY <2>2, <2>3, <1>6, PolynomialFresh
  <2> QED
    BY <2>1, <2>3, <2>4
<1> HIDE DEF U, undef
<1>7. ASSUME NEW j \in 1 .. L, NEW l \in 1 .. L, values[j][1] = "nondef", values[l][1] = "nondef",
             values[j][2] = values[l][2]
      PROVE  j = l
  <2>1. Cardinality(U(j)) = Cardinality(U(l))
    BY <1>4, <1>6, <1>7
  <2>2. ~(Cardinality(U(j)) < Cardinality(U(l))) /\ ~(Cardinality(U(l)) < Cardinality(U(j)))
    BY <2>1, <1>4
  <2>3. ~(j < l) /\ ~(l < j)
    BY <2>2, <1>5, <1>6, <1>7
  <2> QED
    BY <1>1, <2>3
<1>8. ASSUME NEW k \in DOMAIN m_vars
      PROVE  /\ (\A j \in 1 .. L : m_vars[k] # PhiVar(s, j)) => A[k] = m_lhs[k]
             /\ \A j \in 1 .. L : m_vars[k] = PhiVar(s, j) => A[k] = values[j]
  <2> DEFINE js == {j \in DOMAIN values : m_vars[k] = PhiVar(s, j)}
  <2>1. A[k] = IF js = {} THEN m_lhs[k] ELSE values[Min(js)]
    BY DEF getArgsWithPhis, withPhis
  <2>2. ASSUME \A j \in 1 .. L : m_vars[k] # PhiVar(s, j)
        PROVE  A[k] = m_lhs[k]
    <3>1. js = {}
      BY <1>2, <2>2
    <3> QED
      BY <2>1, <3>1
  <2>3. ASSUME NEW j \in 1 .. L, m_vars[k] = PhiVar(s, j)
        PROVE  A[k] = values[j]
    <3>1. js = {j}
      BY <1>2, <2>3 DEF PhiVar
    <3>2. Min({j}) = j
      BY <1>1 DEF Min
    <3> HIDE DEF js
    <3> QED
      BY <2>1, <3>1, <3>2
  <2> QED
    BY <2>2, <2>3
<1>9. DOMAIN A = DOMAIN m_vars /\ A = [k \in DOMAIN m_vars |-> A[k]]
  BY DEF getArgsWithPhis, withPhis
<1>10. \A j \in 1 .. L : \E m \in Nat : values[j] = getPolynomial(x(j), m)
  BY <1>3, <1>4
<1> HIDE DEF values, A
<1> QED
  BY <1>1, <1>7, <1>8, <1>9, <1>10 DEF values, A

LEMMA JumpArgs ==
  ASSUME fn \in Functions, VarsIn, IsSequence(m_vars), NEW b \in Blocks, NEW s \in ToSet(fn.succ[b]), NEW n \in Nat
  PROVE  LET A == getArgsWithPhis(b, s, n)
         IN  /\ ArgsOK(A)
             /\ \A e \in Envs : \A c \in PhiValues(b, s, e) : FitsArgs(A, e, Row(c))
             /\ \A e \in Envs : \A a : FitsArgs(A, e, a) => \E c \in PhiValues(b, s, e) : a = Row(c)
<1> DEFINE A == getArgsWithPhis(b, s, n)
           values == phiValues(b, s, n)
           js == DOMAIN fn.phis[s]
           x(j) == fn.phis[s][j][b]
           phi(v) == \E j \in js : v = PhiVar(s, j)
<1>1. /\ DOMAIN A = DOMAIN m_vars /\ A = [k \in DOMAIN m_vars |-> A[k]]
      /\ \A k \in DOMAIN m_vars : ~phi(m_vars[k]) => A[k] = m_lhs[k]
      /\ \A k \in DOMAIN m_vars : \A j \in js : m_vars[k] = PhiVar(s, j) => A[k] = values[j]
      /\ \A j \in js : \E m \in Nat : values[j] = getPolynomial(x(j), m)
      /\ \A j, l \in js : values[j][1] = "nondef" /\ values[l][1] = "nondef" /\ values[j][2] = values[l][2] => j = l
  BY PhiArgsAre
<1>2. \A j \in js : x(j) \in Operand /\ UsesDefined(fn, x(j), <<b, Len(fn.code[b]) + 1>>)
  BY EdgeOperands
<1>3. ASSUME NEW e \in Envs, NEW j \in js
      PROVE  /\ Term(values[j])
             /\ values[j][1] = "nondef" => Val(x(j), e) = Value
             /\ values[j][1] # "nondef" => Val(x(j), e) = {PolyValue(values[j], e, <<>>)}
             /\ Val(x(j), e) \subseteq Value
  <2>1. PICK m \in Nat : values[j] = getPolynomial(x(j), m)
    BY <1>1
  <2>2. x(j) \in Operand /\ UsesDefined(fn, x(j), <<b, Len(fn.code[b]) + 1>>)
    BY <1>2
  <2> HIDE DEF x, values
  <2>3. PICK y : y = x(j)
    OBVIOUS
  <2>4. y \in Operand /\ UsesDefined(fn, y, <<b, Len(fn.code[b]) + 1>>)
    BY <2>2, <2>3
  <2>5. PICK p : p = getPolynomial(y, m)
    OBVIOUS
  <2>6. /\ Term(p)
        /\ p[1] = "nondef" => Val(y, e) = Value
        /\ p[1] # "nondef" => Val(y, e) = {PolyValue(p, e, <<>>)}
        /\ Val(y, e) \subseteq Value
    BY <2>4, <2>5, OperandTerm
  <2> QED
    BY <2>1, <2>3, <2>5, <2>6
<1>4. \A j \in js : Term(values[j])
  <2>1. ASSUME NEW j \in js, NEW m \in Nat, values[j] = getPolynomial(x(j), m)
        PROVE  Term(values[j])
    <3>1. x(j) \in Operand
      BY <1>2
    <3> HIDE DEF x, values
    <3> QED
      BY <2>1, <3>1, PolynomialTerm
  <2> QED
    BY <2>1, <1>1
<1> HIDE DEF A, values, js, x
<1>5. \A k \in DOMAIN m_vars : m_lhs[k] = <<"var", m_vars[k]>>
  BY DEF m_lhs
<1>6. ArgsOK(A)
  <2>1. ASSUME NEW k \in DOMAIN m_vars
        PROVE  Term(A[k])
    <3>1. CASE phi(m_vars[k])
      BY <3>1, <1>1, <1>4
    <3>2. CASE ~phi(m_vars[k])
      BY <3>2, <1>1, <1>5 DEF Term
    <3> QED
      BY <3>1, <3>2
  <2> QED
    BY <2>1, <1>1, SameDomain DEF ArgsOK, Terms
<1>7. ASSUME NEW e \in Envs, NEW c \in PhiValues(b, s, e)
      PROVE  FitsArgs(A, e, Row(c))
  <2> DEFINE a == Row(c)
  <2>1. /\ c \in Envs
        /\ \A v \in Vars : (\A j \in js : v # PhiVar(s, j)) => c[v] = e[v]
        /\ \A j \in js : PhiVar(s, j) \in Vars /\ c[PhiVar(s, j)] \in Val(x(j), e)
    BY PhiValuesAre DEF js, x
  <2>2. DOMAIN a = DOMAIN A /\ a = [k \in DOMAIN A |-> a[k]] /\ \A k \in DOMAIN A : a[k] = c[m_vars[k]]
    BY <1>1 DEF Row
  <2> HIDE DEF a
  <2>3. ASSUME NEW k \in DOMAIN A
        PROVE  IF A[k][1] = "nondef" THEN a[k] \in Value ELSE a[k] = PolyValue(A[k], e, <<>>)
    <3>1. m_vars[k] \in Vars /\ k \in DOMAIN m_vars
      BY <1>1 DEF VarsIn
    <3>2. CASE phi(m_vars[k])
      <4>1. PICK j \in js : m_vars[k] = PhiVar(s, j)
        BY <3>2
      <4>2. A[k] = values[j] /\ a[k] \in Val(x(j), e)
        BY <4>1, <3>1, <1>1, <2>1, <2>2
      <4> QED
        BY <4>2, <1>3
    <3>3. CASE ~phi(m_vars[k])
      <4>1. A[k] = <<"var", m_vars[k]>> /\ a[k] = e[m_vars[k]]
        BY <3>1, <3>3, <1>1, <1>5, <2>1, <2>2
      <4> QED
        BY <4>1 DEF PolyValue
    <3> QED
      BY <3>2, <3>3
  <2>4. ASSUME NEW j \in DOMAIN A, NEW k \in DOMAIN A, A[j][1] = "nondef", A[k][1] = "nondef", A[j][2] = A[k][2]
        PROVE  a[j] = a[k]
    <3>1. phi(m_vars[j]) /\ phi(m_vars[k])
      BY <2>4, <1>1, <1>5
    <3>2. PICK l \in js : m_vars[j] = PhiVar(s, l)
      BY <3>1
    <3>3. PICK m \in js : m_vars[k] = PhiVar(s, m)
      BY <3>1
    <3>4. A[j] = values[l] /\ A[k] = values[m]
      BY <3>2, <3>3, <1>1
    <3>5. l = m
      BY <3>4, <2>4, <1>1
    <3> QED
      BY <3>2, <3>3, <3>5, <2>2
  <2> QED
    BY <2>2, <2>3, <2>4 DEF FitsArgs, a
<1>8. ASSUME NEW e \in Envs, NEW a, FitsArgs(A, e, a)
      PROVE  \E c \in PhiValues(b, s, e) : a = Row(c)
  <2> DEFINE has(j) == \E k \in DOMAIN m_vars : m_vars[k] = PhiVar(s, j)
             w == [j \in js |-> IF has(j) THEN a[CHOOSE k \in DOMAIN m_vars : m_vars[k] = PhiVar(s, j)]
                                ELSE CHOOSE y : y \in Val(x(j), e)]
             c == [v \in DOMAIN e |-> IF phi(v) THEN w[CHOOSE j \in js : v = PhiVar(s, j)] ELSE e[v]]
  <2>1. /\ a = [k \in DOMAIN m_vars |-> a[k]]
        /\ \A k \in DOMAIN m_vars : IF A[k][1] = "nondef" THEN a[k] \in Value ELSE a[k] = PolyValue(A[k], e, <<>>)
        /\ \A j, k \in DOMAIN m_vars :
             A[j][1] = "nondef" /\ A[k][1] = "nondef" /\ A[j][2] = A[k][2] => a[j] = a[k]
    BY <1>1, <1>8 DEF FitsArgs
  <2>2. ASSUME NEW k \in DOMAIN m_vars, NEW j \in js, m_vars[k] = PhiVar(s, j)
        PROVE  a[k] \in Val(x(j), e) /\ \A l \in DOMAIN m_vars : m_vars[l] = PhiVar(s, j) => a[l] = a[k]
    <3>1. \A l \in DOMAIN m_vars : m_vars[l] = PhiVar(s, j) => A[l] = values[j]
      BY <1>1
    <3> QED
      BY <3>1, <2>1, <2>2, <1>3
  <2>3. ASSUME NEW j \in js, has(j)
        PROVE  w[j] \in Val(x(j), e) /\ \A l \in DOMAIN m_vars : m_vars[l] = PhiVar(s, j) => a[l] = w[j]
    <3>1. PICK k \in DOMAIN m_vars : /\ m_vars[k] = PhiVar(s, j)
                                     /\ k = CHOOSE h \in DOMAIN m_vars : m_vars[h] = PhiVar(s, j)
      BY <2>3
    <3>2. w[j] = a[k]
      BY <3>1, <2>3
    <3> HIDE DEF w
    <3> QED
      BY <3>1, <3>2, <2>2
  <2>4. ASSUME NEW j \in js, ~has(j)
        PROVE  w[j] \in Val(x(j), e)
    <3>1. Val(x(j), e) # {}
      BY <1>3, ValuesAre
    <3>2. w[j] = CHOOSE y : y \in Val(x(j), e)
      BY <2>4
    <3> QED
      BY <3>1, <3>2
  <2>5. w \in {u \in [js -> Value] : \A j \in js : u[j] \in Val(x(j), e)}
    <3>1. w = [j \in js |-> w[j]]
      OBVIOUS
    <3> HIDE DEF w
    <3> QED
      BY <3>1, <2>3, <2>4, <1>3
  <2>6. ASSUME NEW k \in DOMAIN m_vars
        PROVE  a[k] = c[m_vars[k]]
    <3>1. m_vars[k] \in DOMAIN e
      BY DEF VarsIn, Envs
    <3>2. CASE phi(m_vars[k])
      <4>1. PICK j \in js : /\ m_vars[k] = PhiVar(s, j)
                            /\ j = CHOOSE l \in js : m_vars[k] = PhiVar(s, l)
        BY <3>2
      <4>2. c[m_vars[k]] = w[j]
        BY <4>1, <3>1
      <4>3. has(j)
        BY <4>1
      <4> HIDE DEF w, c
      <4> QED
        BY <4>1, <4>2, <4>3, <2>3
    <3>3. CASE ~phi(m_vars[k])
      <4>1. A[k] = <<"var", m_vars[k]>>
        BY <3>3, <1>1, <1>5
      <4>2. a[k] = e[m_vars[k]]
        BY <4>1, <2>1 DEF PolyValue
      <4> QED
        BY <3>1, <3>3, <4>2
    <3> QED
      BY <3>2, <3>3
  <2>7. c \in PhiValues(b, s, e)
    <3> HIDE DEF w
    <3> QED
      BY <2>5 DEF PhiValues, js, x
  <2> HIDE DEF c
  <2> QED
    BY <2>1, <2>6, <2>7 DEF Row
<1> QED
  BY <1>6, <1>7, <1>8 DEF A

LEMMA JumpRule ==
  ASSUME fn \in Functions, VarsIn, IsSequence(m_vars), bb \in Blocks, m_nondef \in Nat, NEW k \in DOMAIN fn.succ[bb], NEW cond
  PROVE  LET r == jump(k, cond)
             s == fn.succ[bb][k]
         IN  /\ r.left = outSymbol(bb) /\ r.right = inSymbol(s)
             /\ \A e \in Envs : \A a :
                  a \in Targets(r, e) <=> AtomsHold(cond, e) /\ \E c \in PhiValues(bb, s, e) : a = Row(c)
<1> DEFINE s == fn.succ[bb][k]
           n == m_nondef + jumpNondefs(k - 1)
           r == jump(k, cond)
<1>1. k \in {1, 2} /\ \A l \in DOMAIN fn.succ[bb] : fn.succ[bb][l] \in ToSet(fn.succ[bb])
  <2>1. fn.succ[bb] \in Seq(Blocks \ {0}) /\ Len(fn.succ[bb]) \in 0 .. 2
    BY GraphFacts
  <2> QED
    BY <2>1 DEF ToSet
<1>2. n \in Nat
  <2>1. jumpNondefs(k - 1) \in Nat
    <3>1. CASE k = 1
      BY <3>1 DEF jumpNondefs
    <3>2. CASE k = 2
      <4>1. 1 \in DOMAIN fn.succ[bb]
        BY <3>2, GraphFacts
      <4>2. fn.succ[bb][1] \in Blocks
        BY <4>1, <1>1, SuccessorIs
      <4>3. undefIncoming(bb, fn.succ[bb][1]) \in Nat
        BY <4>1, <4>2, <1>1, PhiArgsFresh
      <4> QED
        BY <3>2, <4>3 DEF jumpNondefs
    <3> QED
      BY <1>1, <3>1, <3>2
  <2> QED
    BY <2>1
<1>3. r = Rule(outSymbol(bb), inSymbol(s), getArgsWithPhis(bb, s, n), cond)
  BY DEF jump
<1>4. PICK A : A = getArgsWithPhis(bb, s, n)
  OBVIOUS
<1>5. s \in ToSet(fn.succ[bb])
  BY <1>1
<1> HIDE DEF n, s, r
<1>6. /\ ArgsOK(A)
      /\ \A e \in Envs : \A c \in PhiValues(bb, s, e) : FitsArgs(A, e, Row(c))
      /\ \A e \in Envs : \A a : FitsArgs(A, e, a) => \E c \in PhiValues(bb, s, e) : a = Row(c)
  BY <1>2, <1>4, <1>5, JumpArgs
<1>7. r.left = outSymbol(bb) /\ r.right = inSymbol(s) /\ r.args = A /\ r.cond = cond
  BY <1>3, <1>4 DEF Rule
<1>8. ASSUME NEW e \in Envs, NEW a
      PROVE  a \in Targets(r, e) <=> AtomsHold(cond, e) /\ \E c \in PhiValues(bb, s, e) : a = Row(c)
  <2>1. a \in Targets(r, e) <=> AtomsHold(cond, e) /\ FitsArgs(A, e, a)
    BY <1>6, <1>7, TargetsAre DEF ArgsOK
  <2> QED
    BY <2>1, <1>6
<1> QED
  BY <1>7, <1>8 DEF r, s

Ends(b) == fn.succ[b] = <<>> /\ b \notin fn.unreachable
returnRule(b) == Rule(outSymbol(b), stopSymbol, m_lhs, {})
Terminator(b) == <<b, Len(fn.code[b]) + 2>>

LEMMA TerminatorAt ==
  ASSUME fn \in Functions, NEW b \in Blocks
  PROVE  LET p == Terminator(b)
         IN  /\ InBlock(p) /\ p[1] = b /\ SymbolAt(p) = outSymbol(b)
             /\ \A e, t : Steps(p, e, t) = Branches(b, e, t)
<1> DEFINE p == Terminator(b)
<1>1. Len(fn.code[b]) \in Nat /\ b \in Nat
  BY CodeLength, GraphFacts
<1>2. InBlock(p) /\ p[1] = b
  BY <1>1 DEF InBlock, Terminator
<1>3. SymbolAt(p) = outSymbol(b)
  BY SymbolAtEdges DEF Terminator
<1>4. ASSUME NEW e, NEW t
      PROVE  Steps(p, e, t) = Branches(b, e, t)
  <2>1. /\ p # Start /\ p[1] = b /\ b >= 0 /\ ~(b < 0)
        /\ p[2] = Len(fn.code[b]) + 2 /\ p[2] \notin {0, Len(fn.code[b]) + 1}
    BY <1>1 DEF Terminator, Start
  <2>2. p \notin Places
    BY <1>1, <2>1, <1>2, PlacesAre
  <2> HIDE DEF p
  <2>3. /\ p[1] >= 0 /\ ~(p[1] < 0) /\ p[2] = Len(fn.code[p[1]]) + 2
        /\ p[2] \notin {0, Len(fn.code[p[1]]) + 1}
    BY <2>1
  <2>4. Steps(p, e, t) = Branches(p[1], e, t)
    BY <2>1, <2>2, <2>3 DEF Steps
  <2> QED
    BY <2>1, <2>4
<1> QED
  BY <1>2, <1>3, <1>4

(* A block without successors goes to stop.                                  *)
LEMMA StopSimulated ==
  ASSUME fn \in Functions, IsSequence(m_vars), NEW b \in Blocks, fn.succ[b] = <<>>, NEW R
  PROVE  /\ returnRule(b) \in R => SimulatedFrom(Terminator(b), R)
         /\ (\A o \in R : o.left = outSymbol(b) => o = returnRule(b)) => ExactFrom(Terminator(b), R)
<1>1. PICK p : p = Terminator(b)
  OBVIOUS
<1>2. SymbolAt(p) = outSymbol(b) /\ \A e, t : Steps(p, e, t) = Branches(b, e, t)
  BY <1>1, TerminatorAt
<1>3. \A e, t : Branches(b, e, t) = {<<Stop, e, t>>}
  BY DEF Branches
<1>4. SymbolAt(Stop) = stopSymbol /\ Stop[1] # -3 /\ outSymbol(b) # stopSymbol
  BY SymbolAtEdges DEF Stop, outSymbol, stopSymbol
<1>5. \A e, t : RunOK(p, e, t) => AtomsHold({}, e) /\ Steps(p, e, t) = {<<Stop, e, t>>}
  BY <1>2, <1>3, NoAtoms
<1>6. LET r == Rule(SymbolAt(p), SymbolAt(Stop), m_lhs, {})
      IN  /\ r \in R => SimulatedFrom(p, R)
          /\ (\A o \in R : o.left = SymbolAt(p) => o = r) => ExactFrom(p, R)
  BY <1>2, <1>4, <1>5, PlainRule
<1> QED
  BY <1>1, <1>2, <1>4, <1>6 DEF returnRule

(* The condition of the k-th side of the branch.                             *)
sideCondition(k) ==
  IF Len(fn.succ[bb]) = 2 /\ useCondition
  THEN IF k = 1 THEN getCondition(fn.cond[bb], TRUE) ELSE getCondition(fn.cond[bb], FALSE)
  ELSE {}

LEMMA TerminatorRulesAre ==
  ASSUME fn \in Functions, bb \in Blocks
  PROVE  /\ bb \in fn.unreachable => fn.succ[bb] = <<>> /\ ToSet(terminatorRules) = {returnRule(bb)}
         /\ Ends(bb) => ToSet(terminatorRules) = {}
         /\ fn.succ[bb] # <<>> =>
              /\ bb \notin fn.unreachable
              /\ Len(fn.succ[bb]) \in {1, 2} /\ DOMAIN fn.succ[bb] = 1 .. Len(fn.succ[bb])
              /\ ToSet(terminatorRules) = {jump(k, sideCondition(k)) : k \in DOMAIN fn.succ[bb]}
<1>1. fn.succ[bb] \in Seq(Blocks \ {0}) /\ Len(fn.succ[bb]) \in 0 .. 2
  BY GraphFacts
<1>2. bb \in fn.unreachable => fn.succ[bb] = <<>>
  BY FunctionsAssumption
<1>3. fn.succ[bb] = <<>> <=> Len(fn.succ[bb]) = 0
  BY <1>1
<1>4. ASSUME bb \in fn.unreachable
      PROVE  ToSet(terminatorRules) = {returnRule(bb)}
  <2>1. terminatorRules = <<returnRule(bb)>>
    BY <1>2, <1>3, <1>4 DEF terminatorRules, returnRule
  <2> QED
    BY <2>1, SingletonSequence
<1>5. ASSUME Ends(bb)
      PROVE  ToSet(terminatorRules) = {}
  <2>1. terminatorRules = <<>>
    BY <1>3, <1>5 DEF terminatorRules, Ends
  <2> QED
    BY <2>1, EmptySequence
<1>6. ASSUME fn.succ[bb] # <<>>
      PROVE  /\ Len(fn.succ[bb]) \in {1, 2} /\ DOMAIN fn.succ[bb] = 1 .. Len(fn.succ[bb])
             /\ ToSet(terminatorRules) = {jump(k, sideCondition(k)) : k \in DOMAIN fn.succ[bb]}
  <2>1. Len(fn.succ[bb]) \in {1, 2} /\ DOMAIN fn.succ[bb] = 1 .. Len(fn.succ[bb]) /\ bb \notin fn.unreachable
    BY <1>1, <1>2, <1>3, <1>6
  <2>2. CASE Len(fn.succ[bb]) = 1
    <3>1. terminatorRules = <<jump(1, {})>> /\ sideCondition(1) = {}
      BY <2>1, <2>2 DEF terminatorRules, sideCondition
    <3>2. DOMAIN fn.succ[bb] = {1}
      BY <2>1, <2>2
    <3>3. PICK j : j = jump(1, {})
      OBVIOUS
    <3>4. ToSet(terminatorRules) = {j}
      BY <3>1, <3>3, SingletonSequence
    <3> QED
      BY <2>1, <3>1, <3>2, <3>3, <3>4
  <2>3. CASE Len(fn.succ[bb]) = 2
    <3>0. Len(fn.succ[bb]) # 0 /\ Len(fn.succ[bb]) # 1 /\ 2 # 1
      BY <2>3
    <3>1. terminatorRules = <<jump(1, sideCondition(1)), jump(2, sideCondition(2))>>
      BY <2>1, <2>3, <3>0, Zenon DEF terminatorRules, sideCondition
    <3>2. DOMAIN fn.succ[bb] = {1, 2}
      BY <2>1, <2>3
    <3>3. ToSet(terminatorRules) = {jump(1, sideCondition(1)), jump(2, sideCondition(2))}
      BY <3>1, PairSequence
    <3> QED
      BY <2>1, <3>2, <3>3
  <2> QED
    BY <2>1, <2>2, <2>3
<1> QED
  BY <1>2, <1>4, <1>5, <1>6

Taken(k, t) == Len(fn.succ[bb]) = 2 => (t[fn.cond[bb]] <=> k = 1)

LEMMA SidesTaken ==
  ASSUME fn \in Functions, bb \in Blocks, fn.succ[bb] # <<>>, NEW e, NEW t, RunOK(Terminator(bb), e, t)
  PROVE  /\ e \in Envs
         /\ \A k \in DOMAIN fn.succ[bb] :
              /\ Taken(k, t) => AtomsHold(sideCondition(k), e)
              /\ exactlyTranslated /\ AtomsHold(sideCondition(k), e) => Taken(k, t)
         /\ \A s : s \in Branches(bb, e, t) <=>
              \E k \in DOMAIN fn.succ[bb] : \E c \in PhiValues(bb, fn.succ[bb][k], e) :
                Taken(k, t) /\ s = <<<<fn.succ[bb][k], 0>>, c, t>>
<1> DEFINE p == Terminator(bb)
           c0 == fn.cond[bb]
<1>1. InBlock(p) /\ p[1] = bb /\ p[1] # -3
  BY TerminatorAt, InBlockIsPoint
<1>2. e \in Envs /\ t \in Bools /\ ComparisonsHold(p, e, t)
  BY <1>1 DEF RunOK
<1>3. bb \notin fn.unreachable /\ Len(fn.succ[bb]) \in {1, 2} /\ DOMAIN fn.succ[bb] = 1 .. Len(fn.succ[bb])
  BY TerminatorRulesAre
<1>4. ASSUME Len(fn.succ[bb]) = 2
      PROVE  c0 \in Comparisons /\ Holds(c0, e, t) /\ t[c0] \in BOOLEAN
  <2>1. c0 \in Comparisons /\ Precedes(fn, c0, <<bb, Len(fn.code[bb]) + 1>>)
    BY <1>4, BranchCondition
  <2>2. c0 \in Places /\ Point(c0) /\ c0 = <<c0[1], c0[2]>> /\ Len(fn.code[bb]) \in Nat /\ c0[2] \in Nat
    BY <2>1, PlacesAre, CodeLength DEF Comparisons, InBlock, Point
  <2>3. Precedes(fn, c0, p)
    BY <2>1, <2>2 DEF Precedes, Terminator
  <2> QED
    BY <1>2, <2>1, <2>3 DEF ComparisonsHold, Bools
<1>5. ASSUME NEW k \in DOMAIN fn.succ[bb]
      PROVE  /\ Taken(k, t) => AtomsHold(sideCondition(k), e)
             /\ exactlyTranslated /\ AtomsHold(sideCondition(k), e) => Taken(k, t)
  <2>1. CASE Len(fn.succ[bb]) # 2
    BY <2>1, NoAtoms DEF sideCondition, Taken
  <2>2. CASE Len(fn.succ[bb]) = 2
    <3>1. c0 \in Comparisons /\ Holds(c0, e, t) /\ t[c0] \in BOOLEAN
      BY <1>4, <2>2
    <3>2. CASE k = 1
      <4>1. sideCondition(k) = IF useCondition THEN getCondition(c0, TRUE) ELSE {}
        BY <2>2, <3>2, Zenon DEF sideCondition
      <4>2. Taken(k, t) <=> (t[c0] <=> TRUE)
        BY <2>2, <3>2 DEF Taken
      <4>3. exactlyTranslated => useCondition
        BY DEF exactlyTranslated, useCondition
      <4> HIDE DEF c0
      <4>4. (t[c0] <=> TRUE) => AtomsHold(getCondition(c0, TRUE), e)
        BY <3>1, ConditionHolds
      <4>5. exactlyTranslated /\ AtomsHold(getCondition(c0, TRUE), e) => (t[c0] <=> TRUE)
        BY <3>1, ConditionRead
      <4> QED
        BY <4>1, <4>2, <4>3, <4>4, <4>5, NoAtoms
    <3>3. CASE k # 1
      <4>1. sideCondition(k) = IF useCondition THEN getCondition(c0, FALSE) ELSE {}
        BY <2>2, <3>3, Zenon DEF sideCondition
      <4>2. Taken(k, t) <=> (t[c0] <=> FALSE)
        BY <2>2, <3>3 DEF Taken
      <4>3. exactlyTranslated => useCondition
        BY DEF exactlyTranslated, useCondition
      <4> HIDE DEF c0
      <4>4. (t[c0] <=> FALSE) => AtomsHold(getCondition(c0, FALSE), e)
        BY <3>1, ConditionHolds
      <4>5. exactlyTranslated /\ AtomsHold(getCondition(c0, FALSE), e) => (t[c0] <=> FALSE)
        BY <3>1, ConditionRead
      <4> QED
        BY <4>1, <4>2, <4>3, <4>4, <4>5, NoAtoms
    <3> QED
      BY <3>2, <3>3
  <2> QED
    BY <2>1, <2>2
<1>6. ASSUME NEW s
      PROVE  s \in Branches(bb, e, t) <=>
               \E k \in DOMAIN fn.succ[bb] : \E c \in PhiValues(bb, fn.succ[bb][k], e) :
                 Taken(k, t) /\ s = <<<<fn.succ[bb][k], 0>>, c, t>>
  <2>1. CASE Len(fn.succ[bb]) = 1
    <3>1. Branches(bb, e, t) = Jump(bb, fn.succ[bb][1], e, t)
      BY <1>3, <2>1 DEF Branches
    <3>2. DOMAIN fn.succ[bb] = {1} /\ Taken(1, t)
      BY <1>3, <2>1 DEF Taken
    <3> QED
      BY <3>1, <3>2 DEF Jump
  <2>2. CASE Len(fn.succ[bb]) = 2
    <3>1. Branches(bb, e, t) = Jump(bb, fn.succ[bb][IF t[c0] THEN 1 ELSE 2], e, t)
      BY <1>3, <2>2 DEF Branches
    <3>2. DOMAIN fn.succ[bb] = {1, 2} /\ (Taken(1, t) <=> t[c0] = TRUE) /\ (Taken(2, t) <=> t[c0] = FALSE)
      BY <1>3, <1>4, <2>2 DEF Taken
    <3>3. CASE t[c0] = TRUE
      <4>1. Branches(bb, e, t) = Jump(bb, fn.succ[bb][1], e, t)
        BY <3>1, <3>3
      <4>2. Taken(1, t) /\ ~Taken(2, t)
        BY <3>2, <3>3
      <4> QED
        BY <3>2, <4>1, <4>2 DEF Jump
    <3>4. CASE t[c0] = FALSE
      <4>1. Branches(bb, e, t) = Jump(bb, fn.succ[bb][2], e, t)
        BY <3>1, <3>4
      <4>2. Taken(2, t) /\ ~Taken(1, t)
        BY <3>2, <3>4
      <4> QED
        BY <3>2, <4>1, <4>2 DEF Jump
    <3> QED
      BY <1>4, <2>2, <3>3, <3>4
  <2> QED
    BY <1>3, <2>1, <2>2
<1> QED
  BY <1>2, <1>5, <1>6

LEMMA TerminatorSimulated ==
  ASSUME fn \in Functions, VarsIn, IsSequence(m_vars), bb \in Blocks, m_nondef \in Nat, ~Ends(bb), NEW R
  PROVE  /\ ToSet(terminatorRules) \subseteq R => SimulatedFrom(Terminator(bb), R)
         /\ (\A o \in R : o.left = outSymbol(bb) => o \in ToSet(terminatorRules)) => ExactFrom(Terminator(bb), R)
<1> DEFINE T == ToSet(terminatorRules)
           rule(k) == jump(k, sideCondition(k))
           S == fn.succ[bb]
<1>1. CASE bb \in fn.unreachable
  <2>1. S = <<>> /\ T = {returnRule(bb)}
    BY <1>1, TerminatorRulesAre
  <2> HIDE DEF T
  <2> QED
    BY <2>1, StopSimulated DEF T
<1>2. CASE bb \notin fn.unreachable
  <2>1. S # <<>>
    BY <1>2 DEF Ends
  <2>2. T = {rule(k) : k \in DOMAIN S}
    BY <2>1, TerminatorRulesAre
  <2>3. PICK p : p = Terminator(bb)
    OBVIOUS
  <2>4. SymbolAt(p) = outSymbol(bb) /\ \A e, t : Steps(p, e, t) = Branches(bb, e, t)
    BY <2>3, TerminatorAt
  <2>5. ASSUME NEW k \in DOMAIN S
        PROVE  /\ rule(k).left = outSymbol(bb) /\ rule(k).right = inSymbol(S[k])
               /\ \A e \in Envs : \A a :
                    a \in Targets(rule(k), e) <=>
                      AtomsHold(sideCondition(k), e) /\ \E c \in PhiValues(bb, S[k], e) : a = Row(c)
    <3>1. PICK cond : cond = sideCondition(k)
      OBVIOUS
    <3> QED
      BY <3>1, JumpRule
  <2>6. ASSUME NEW k \in DOMAIN S, NEW c
        PROVE  /\ SymbolAt(<<S[k], 0>>) = inSymbol(S[k]) /\ followed(<<S[k], 0>>)
               /\ Arguments(<<S[k], 0>>, c) = Row(c)
    <3>1. S[k] \in ToSet(S) /\ S[k] \in Blocks
      <4>1. S \in Seq(Blocks \ {0})
        BY GraphFacts
      <4> QED
        BY <4>1 DEF ToSet
    <3>2. S[k] \in Nat /\ <<S[k], 0>>[1] # -3
      BY <3>1, GraphFacts
    <3> QED
      BY <3>1, <3>2, SymbolAtEdges, ArgumentsAre DEF followed
  <2>7. ASSUME NEW e, NEW t, RunOK(p, e, t)
        PROVE  /\ e \in Envs
               /\ \A k \in DOMAIN S :
                    /\ Taken(k, t) => AtomsHold(sideCondition(k), e)
                    /\ exactlyTranslated /\ AtomsHold(sideCondition(k), e) => Taken(k, t)
               /\ \A s : s \in Steps(p, e, t) <=>
                    \E k \in DOMAIN S : \E c \in PhiValues(bb, S[k], e) : Taken(k, t) /\ s = <<<<S[k], 0>>, c, t>>
    <3>1. RunOK(Terminator(bb), e, t)
      BY <2>3, <2>7
    <3> QED
      BY <2>1, <2>4, <3>1, SidesTaken
  <2> HIDE DEF T, rule, S
  <2>8. ASSUME T \subseteq R
        PROVE  SimulatedFrom(p, R)
    <3> SUFFICES ASSUME NEW e, NEW t, RunOK(p, e, t), NEW s \in Steps(p, e, t)
                 PROVE  \E r \in R : /\ r.left = SymbolAt(p) /\ r.right = SymbolAt(s[1])
                                     /\ Arguments(s[1], s[2]) \in Targets(r, e)
      BY DEF SimulatedFrom
    <3>1. PICK k \in DOMAIN S : \E c \in PhiValues(bb, S[k], e) : Taken(k, t) /\ s = <<<<S[k], 0>>, c, t>>
      BY <2>7
    <3>2. PICK c \in PhiValues(bb, S[k], e) : Taken(k, t) /\ s = <<<<S[k], 0>>, c, t>>
      BY <3>1
    <3>3. s[1] = <<S[k], 0>> /\ s[2] = c
      BY <3>2
    <3>4. SymbolAt(s[1]) = inSymbol(S[k]) /\ Arguments(s[1], s[2]) = Row(c)
      BY <3>3, <2>6
    <3>5. Row(c) \in Targets(rule(k), e)
      BY <3>2, <2>5, <2>7
    <3>6. rule(k) \in R
      BY <2>2, <2>8
    <3> QED
      BY <2>4, <2>5, <3>4, <3>5, <3>6
  <2>9. ASSUME \A o \in R : o.left = outSymbol(bb) => o \in T
        PROVE  ExactFrom(p, R)
    <3> SUFFICES ASSUME exactlyTranslated, NEW e, NEW t, RunOK(p, e, t), NEW r \in R, r.left = SymbolAt(p),
                        NEW a \in Targets(r, e)
                 PROVE  \E s \in Steps(p, e, t) : SymbolAt(s[1]) = r.right /\ Arguments(s[1], s[2]) = a
      BY DEF ExactFrom
    <3>1. PICK k \in DOMAIN S : r = rule(k)
      BY <2>2, <2>4, <2>9
    <3>2. AtomsHold(sideCondition(k), e) /\ \E c \in PhiValues(bb, S[k], e) : a = Row(c)
      BY <3>1, <2>5, <2>7
    <3>3. PICK c \in PhiValues(bb, S[k], e) : a = Row(c)
      BY <3>2
    <3>4. <<<<S[k], 0>>, c, t>> \in Steps(p, e, t)
      BY <2>7, <3>2, <3>3
    <3> QED
      BY <2>5, <2>6, <3>1, <3>3, <3>4
  <2> QED
    BY <2>3, <2>8, <2>9 DEF T
<1> QED
  BY <1>1, <1>2

-----------------------------------------------------------------------------
(* What is simulated stays so while rules of other symbols are added.        *)

LEMMA MoreRules ==
  ASSUME NEW p, NEW n, NEW R, NEW Q
  PROVE  /\ R \subseteq Q /\ Covers(p, n, R) => Covers(p, n, Q)
         /\ (\A r \in Q : r.left = eval(n) => r \in R) /\ Faithful(p, n, R) => Faithful(p, n, Q)
         /\ R \subseteq Q /\ SimulatedFrom(p, R) => SimulatedFrom(p, Q)
         /\ (\A r \in Q : r.left = SymbolAt(p) => r \in R) /\ ExactFrom(p, R) => ExactFrom(p, Q)
<1>1. R \subseteq Q /\ Covers(p, n, R) => Covers(p, n, Q)
  BY Zenon DEF Covers
<1>2. (\A r \in Q : r.left = eval(n) => r \in R) /\ Faithful(p, n, R) => Faithful(p, n, Q)
  BY Zenon DEF Faithful
<1>3. R \subseteq Q /\ SimulatedFrom(p, R) => SimulatedFrom(p, Q)
  BY Zenon DEF SimulatedFrom
<1>4. (\A r \in Q : r.left = SymbolAt(p) => r \in R) /\ ExactFrom(p, R) => ExactFrom(p, Q)
  BY Zenon DEF ExactFrom
<1> QED
  BY <1>1, <1>2, <1>3, <1>4

LEMMA CoversKept ==
  ASSUME UNCHANGED <<fn, options, m_vars>>, NEW p, NEW n, NEW R
  PROVE  /\ Covers(p, n, R) => Covers(p, n, R)'
         /\ Faithful(p, n, R) => Faithful(p, n, R)'
<1>1. Envs' = Envs /\ Bools' = Bools
  BY SameNames
<1>2. \A q, e, t : Steps(q, e, t)' = Steps(q, e, t)
  BY SameSteps
<1>3. /\ \A q, e, t : Conforms(q, e, t)' = Conforms(q, e, t)
      /\ \A q, e : Arguments(q, e)' = Arguments(q, e)
      /\ \A q : followed(q)' = followed(q)
      /\ exactlyTranslated' = exactlyTranslated
  BY SameRuns
<1>4. Covers(p, n, R) => Covers(p, n, R)'
  BY <1>1, <1>2, <1>3 DEF Covers
<1>5. Faithful(p, n, R) => Faithful(p, n, R)'
  BY <1>1, <1>2, <1>3 DEF Faithful
<1> QED
  BY <1>4, <1>5

SameNumbers(b) ==
  \A k : /\ <<b, k>> \in DOMAIN m_idMap' <=> <<b, k>> \in DOMAIN m_idMap
         /\ <<b, k>> \in DOMAIN m_idMap => m_idMap'[<<b, k>>] = m_idMap[<<b, k>>]

LEMMA StepPlaces ==
  ASSUME fn \in Functions, NEW p, InBlock(p), NEW e, NEW t, NEW s \in Steps(p, e, t)
  PROVE  \/ s[1] = Stop \/ s[1][1] = -3
         \/ p[2] # Len(fn.code[p[1]]) + 2 /\ s[1] = <<p[1], p[2] + 1>>
         \/ \E b \in Blocks : s[1] = <<b, 0>>
<1>1. p # Start /\ p[2] \in 0 .. Len(fn.code[p[1]]) + 2 /\ p[1] \in Blocks /\ Len(fn.code[p[1]]) \in Nat
  BY InBlockIsPoint, CodeLength DEF InBlock
<1>2. CASE p \in Places /\ s[1] = <<p[1], p[2] + 1>>
  BY <1>2, PlacesAre
<1>3. CASE s \in Calls(InstrAt(p), e, t)
  BY <1>3 DEF Calls, Entered
<1>4. CASE p[2] \in {0, Len(fn.code[p[1]]) + 1} /\ s = <<<<p[1], p[2] + 1>>, e, t>>
  BY <1>1, <1>4
<1>5. CASE s \in Branches(p[1], e, t)
  <2>1. CASE s = <<Stop, e, t>>
    BY <2>1
  <2>2. CASE \E k \in DOMAIN fn.succ[p[1]] : fn.succ[p[1]][k] \in Blocks /\ s \in Jump(p[1], fn.succ[p[1]][k], e, t)
    BY <2>2 DEF Jump
  <2> QED
    BY <1>1, <1>5, <2>1, <2>2, BranchCases
<1> QED
  BY <1>1, <1>2, <1>3, <1>4, <1>5, StepCases

LEMMA SymbolsKept ==
  ASSUME fn \in Functions, fn' = fn, NEW b \in Blocks, SameNumbers(b), NEW k \in 0 .. Len(fn.code[b]) + 2
  PROVE  /\ SymbolAt(<<b, k>>)' = SymbolAt(<<b, k>>)
         /\ hasRules(<<b, k>>)' = hasRules(<<b, k>>)
<1>1. numbered(b)' = numbered(b)
  BY DEF numbered, SameNumbers
<1>2. numbered(b) \in SUBSET (1 .. Len(fn.code[b])) /\ Len(fn.code[b]) \in Nat /\ b \in Nat
  BY NumberedAre, GraphFacts
<1>3. \A j \in numbered(b) : m_idMap'[<<b, j>>] = m_idMap[<<b, j>>]
  BY DEF numbered, SameNumbers
<1>4. PICK N : N = numbered(b)
  OBVIOUS
<1>5. PICK ahead : ahead = {j \in N : j >= k}
  OBVIOUS
<1>6. ahead # {} => Min(ahead) \in N
  BY <1>2, <1>4, <1>5, EndsOf
<1>7. N # {} => Max(N) \in N
  BY <1>2, <1>4, EndsOf
<1>8. N # {} => lastID(b)' = lastID(b)
  BY <1>1, <1>3, <1>4, <1>7 DEF lastID
<1>9. ahead # {} => eval(m_idMap'[<<b, Min(ahead)>>]) = eval(m_idMap[<<b, Min(ahead)>>])
  BY <1>3, <1>4, <1>6
<1>10. SymbolAt(<<b, k>>)' = SymbolAt(<<b, k>>)
  <2> DEFINE p == <<b, k>>
  <2>1. p[1] = b /\ p[2] = k /\ b >= 0 /\ ~(b < 0) /\ b # -3 /\ p # Start /\ p # Stop
    BY <1>2 DEF Start, Stop
  <2>2. CASE k = Len(fn.code[b]) + 2
    BY <2>1, <2>2 DEF SymbolAt
  <2>3. CASE k # Len(fn.code[b]) + 2 /\ k < Len(fn.code[b]) + 2 /\ (k = 0 \/ N = {})
    BY <2>1, <2>3, <1>1, <1>4 DEF SymbolAt
  <2>4. CASE k # Len(fn.code[b]) + 2 /\ ~(k < Len(fn.code[b]) + 2 /\ (k = 0 \/ N = {}))
    <3>1. SymbolAt(p) = IF ahead # {} THEN eval(m_idMap[<<b, Min(ahead)>>]) ELSE eval(lastID(b) + 1)
      BY <2>1, <2>4, <1>4, <1>5 DEF SymbolAt
    <3>2. SymbolAt(p)' = IF ahead # {} THEN eval(m_idMap'[<<b, Min(ahead)>>]) ELSE eval(lastID(b)' + 1)
      BY <2>1, <2>4, <1>1, <1>4, <1>5 DEF SymbolAt
    <3>3. N # {}
      BY <1>2, <2>4
    <3> QED
      BY <3>1, <3>2, <3>3, <1>8, <1>9
  <2> QED
    BY <2>2, <2>3, <2>4
<1>11. hasRules(<<b, k>>)' = hasRules(<<b, k>>)
  BY <1>1 DEF hasRules
<1> QED
  BY <1>10, <1>11

LEMMA EdgesKept ==
  ASSUME fn \in Functions, fn' = fn
  PROVE  /\ SymbolAt(Stop)' = SymbolAt(Stop)
         /\ \A q : q[1] = -3 => SymbolAt(q)' = SymbolAt(q)
         /\ \A b \in Blocks : SymbolAt(<<b, 0>>)' = SymbolAt(<<b, 0>>)
<1>1. SymbolAt(Stop)' = SymbolAt(Stop)
  BY DEF SymbolAt, Start, Stop
<1>2. ASSUME NEW q, q[1] = -3
      PROVE  SymbolAt(q)' = SymbolAt(q)
  <2>1. q # Start /\ q # Stop
    BY <1>2 DEF Start, Stop
  <2>2. SymbolAt(q) = startSymbol(q[2])
    BY <1>2, <2>1 DEF SymbolAt
  <2>3. SymbolAt(q)' = startSymbol(q[2])
    BY <1>2, <2>1 DEF SymbolAt
  <2> QED
    BY <2>2, <2>3
<1>3. ASSUME NEW b \in Blocks
      PROVE  SymbolAt(<<b, 0>>)' = SymbolAt(<<b, 0>>)
  <2> DEFINE p == <<b, 0>>
  <2>1. /\ b \in Nat /\ Len(fn.code[b]) \in Nat
        /\ p[1] = b /\ p[2] = 0 /\ b >= 0 /\ b # -3 /\ p # Start /\ p # Stop
        /\ 0 # Len(fn.code[b]) + 2 /\ 0 < Len(fn.code[b]) + 2
    BY GraphFacts, CodeLength DEF Start, Stop
  <2> HIDE DEF p
  <2>2. SymbolAt(p) = inSymbol(b)
    BY <2>1 DEF SymbolAt
  <2>3. SymbolAt(p)' = inSymbol(b)
    BY <2>1 DEF SymbolAt
  <2> QED
    BY <2>2, <2>3 DEF p
<1> QED
  BY <1>1, <1>2, <1>3

LEMMA FromKept ==
  ASSUME fn \in Functions, UNCHANGED <<fn, options, m_vars>>, NEW p, InBlock(p), SameNumbers(p[1]), NEW R
  PROVE  /\ SimulatedFrom(p, R) => SimulatedFrom(p, R)'
         /\ ExactFrom(p, R) => ExactFrom(p, R)'
<1>1. \A e, t : Steps(p, e, t)' = Steps(p, e, t)
  BY SameSteps
<1>2. /\ \A e, t : RunOK(p, e, t)' = RunOK(p, e, t)
      /\ \A q, e : Arguments(q, e)' = Arguments(q, e)
      /\ \A q : followed(q)' = followed(q)
      /\ exactlyTranslated' = exactlyTranslated
  BY SameRuns
<1>3. p[1] \in Blocks /\ p[2] \in 0 .. Len(fn.code[p[1]]) + 2 /\ p = <<p[1], p[2]>>
  BY DEF InBlock
<1>4. SymbolAt(p)' = SymbolAt(p) /\ hasRules(p)' = hasRules(p)
  BY <1>3, SymbolsKept
<1>5. ASSUME NEW e, NEW t, NEW s \in Steps(p, e, t)
      PROVE  SymbolAt(s[1])' = SymbolAt(s[1])
  <2>1. CASE s[1] = Stop \/ s[1][1] = -3 \/ \E b \in Blocks : s[1] = <<b, 0>>
    BY <2>1, EdgesKept
  <2>2. CASE p[2] # Len(fn.code[p[1]]) + 2 /\ s[1] = <<p[1], p[2] + 1>>
    <3>1. p[2] + 1 \in 0 .. Len(fn.code[p[1]]) + 2
      BY <1>3, <2>2, CodeLength
    <3> QED
      BY <1>3, <2>2, <3>1, SymbolsKept
  <2> QED
    BY <2>1, <2>2, StepPlaces
<1>6. SimulatedFrom(p, R) => SimulatedFrom(p, R)'
  BY <1>1, <1>2, <1>4, <1>5 DEF SimulatedFrom
<1>7. ExactFrom(p, R) => ExactFrom(p, R)'
  BY <1>1, <1>2, <1>4, <1>5 DEF ExactFrom
<1> QED
  BY <1>6, <1>7

-----------------------------------------------------------------------------
(* The invariant: the blocks before bb are translated, of block bb the        *)
(* instructions before i.                                                   *)

startRule == Rule(startSymbol(m_function), inSymbol(entry), m_lhs, {})

Numbering ==
  /\ i > 0
  /\ Consecutive
  /\ \A p, q \in DOMAIN m_idMap : p[1] = q[1] /\ p[2] < q[2] => m_idMap[p] < m_idMap[q]
  /\ pc = "instructions" =>
       \A p \in DOMAIN m_idMap :
         p[1] = bb /\ (\A q \in DOMAIN m_idMap : q[1] = bb => q[2] <= p[2]) => m_counter = m_idMap[p] + 1
  /\ \A p \in DOMAIN m_idMap : InstrAt(p).op \notin {"icmp", "fcmp"}
  /\ \A p \in Places :
       /\ InstrAt(p).op \notin {"icmp", "fcmp"}
       /\ p[1] < bb \/ (p[1] = bb /\ pc = "instructions" /\ p[2] < i)
       => p \in DOMAIN m_idMap

(* The rules of block bb so far.                                            *)
Collected ==
  pc = "instructions" =>
    /\ \A r \in ToSet(m_blockRules) : \E p \in DOMAIN m_idMap : p[1] = bb /\ r.left = eval(m_idMap[p])
    /\ \A p \in DOMAIN m_idMap : p[1] = bb =>
         /\ WholeStores => Covers(p, m_idMap[p], ToSet(m_blockRules))
         /\ Faithful(p, m_idMap[p], ToSet(m_blockRules))

(* The symbols on the left of the rules so far.                              *)
LeftOf(r) ==
  \/ r = startRule
  \/ \E b \in Blocks : b < bb /\ (r.left = inSymbol(b) \/ (r.left = outSymbol(b) /\ (Ends(b) => r = returnRule(b))))
  \/ \E p \in DOMAIN m_idMap : p[1] < bb /\ r.left \in {eval(m_idMap[p]), eval(m_idMap[p] + 1)}

Finished ==
  /\ \A r \in ToSet(m_rules) : LeftOf(r)
  /\ bb > 0 \/ pc = "instructions" => startRule \in ToSet(m_rules)
  /\ \A p : InBlock(p) /\ p[1] < bb /\ ~(p = Terminator(p[1]) /\ Ends(p[1])) =>
       /\ WholeStores => SimulatedFrom(p, ToSet(m_rules))
       /\ ExactFrom(p, ToSet(m_rules))

Returned ==
  /\ ToSet(m_returns) = {b \in Blocks : Ends(b) /\ (b < bb \/ (b = bb /\ pc = "instructions"))}
  /\ pc \in {"ready", "run"} =>
       \A b \in Blocks : b < bb /\ (Ends(b) => returnRule(b) \in ToSet(m_rules))

Translated == Numbering /\ Collected /\ Finished /\ Returned

(* Where the function is, and what is not done yet.                          *)
Running ==
  /\ VarsIn
  /\ pc # "run" => at = Start /\ bools \in Bools
  /\ pc = "run" => RunOK(at, env, bools)
  /\ pc = "phase1" => bb = 0 /\ DOMAIN m_idMap = {} /\ m_rules = <<>> /\ m_returns = <<>>
  /\ m_trivial => pc \in {"phase2", "ready", "run"} /\ isTrivial

SimulationInv == Running /\ (~m_trivial /\ pc # "exit" => Translated)

LEMMA RunningKept ==
  ASSUME Running, UNCHANGED <<fn, options, m_vars, at, env, bools, m_trivial>>, pc # "run", pc' \notin {"phase1", "run"},
         m_trivial => pc' \in {"phase2", "ready"}
  PROVE  Running'
<1>1. VarsIn' = VarsIn /\ Bools' = Bools
  BY SameNames
<1>2. isTrivial' = isTrivial
  BY SameNames DEF isTrivial, Reached
<1> QED
  BY <1>1, <1>2 DEF Running

LEMMA LeftOfKept ==
  ASSUME fn \in Functions, UNCHANGED <<fn, m_vars>>, bb \in Nat, bb' \in Nat, bb <= bb',
         DOMAIN m_idMap \subseteq Places, DOMAIN m_idMap \subseteq DOMAIN m_idMap',
         \A p \in DOMAIN m_idMap : m_idMap'[p] = m_idMap[p], NEW r, LeftOf(r)
  PROVE  LeftOf(r)'
<1>1. m_lhs' = m_lhs /\ Blocks' = Blocks /\ Blocks \subseteq Nat
  BY GraphFacts DEF m_lhs, Blocks
<1>2. startRule' = startRule
  BY <1>1 DEF startRule, Rule, entry
<1>3. \A b : (Ends(b)' <=> Ends(b)) /\ returnRule(b)' = returnRule(b)
  BY <1>1 DEF Ends, returnRule, Rule
<1>4. CASE r = startRule
  BY <1>2, <1>4 DEF LeftOf
<1>5. CASE \E b \in Blocks : b < bb /\ (r.left = inSymbol(b) \/ (r.left = outSymbol(b) /\ (Ends(b) => r = returnRule(b))))
  <2>1. PICK b \in Blocks : b < bb /\ (r.left = inSymbol(b) \/ (r.left = outSymbol(b) /\ (Ends(b) => r = returnRule(b))))
    BY <1>5
  <2>2. b \in Blocks' /\ b < bb'
    BY <1>1, <2>1
  <2> QED
    BY <1>3, <2>1, <2>2 DEF LeftOf
<1>6. CASE \E p \in DOMAIN m_idMap : p[1] < bb /\ r.left \in {eval(m_idMap[p]), eval(m_idMap[p] + 1)}
  <2>1. PICK p \in DOMAIN m_idMap : p[1] < bb /\ r.left \in {eval(m_idMap[p]), eval(m_idMap[p] + 1)}
    BY <1>6
  <2>2. p \in DOMAIN m_idMap' /\ p[1] < bb' /\ m_idMap'[p] = m_idMap[p]
    <3>1. p[1] \in Nat
      BY PlaceFacts
    <3> QED
      BY <2>1, <3>1
  <2> QED
    BY <2>1, <2>2 DEF LeftOf
<1> QED
  BY <1>4, <1>5, <1>6 DEF LeftOf

(* The blocks before bb are translated once and for all.                     *)
LEMMA TranslatedKept ==
  ASSUME fn \in Functions, UNCHANGED <<fn, options, m_vars>>, NEW p, InBlock(p), SameNumbers(p[1]),
         NEW R, NEW Q, R \subseteq Q, \A r \in Q : r.left = SymbolAt(p) => r \in R,
         WholeStores => SimulatedFrom(p, R), ExactFrom(p, R)
  PROVE  (WholeStores => SimulatedFrom(p, Q)') /\ ExactFrom(p, Q)'
<1>1. (WholeStores => SimulatedFrom(p, Q)) /\ ExactFrom(p, Q)
  BY MoreRules
<1> QED
  BY <1>1, FromKept

LEMMA WholeKept == WholeStores' <=> WholeStores
BY DEF WholeStores, PlacesOf, At

LEMMA FinishedKept ==
  ASSUME fn \in Functions, Finished, UNCHANGED <<fn, options, m_vars, m_rules, bb>>, bb \in Nat,
         \A b \in Blocks : b < bb => SameNumbers(b),
         DOMAIN m_idMap \subseteq Places, DOMAIN m_idMap \subseteq DOMAIN m_idMap',
         \A p \in DOMAIN m_idMap : m_idMap'[p] = m_idMap[p],
         pc' = "instructions" => bb > 0 \/ pc = "instructions"
  PROVE  Finished'
<1>1. m_lhs' = m_lhs /\ \A p : InBlock(p)' = InBlock(p)
  BY SameNames
<1>2. startRule' = startRule
  BY <1>1 DEF startRule, Rule, entry
<1>3. \A b : (Ends(b)' <=> Ends(b)) /\ Terminator(b)' = Terminator(b)
  BY DEF Ends, Terminator
<1>4. PICK Q : Q = ToSet(m_rules)
  OBVIOUS
<1>5. Q = ToSet(m_rules)'
  BY <1>4
<1>6. \A r \in Q : LeftOf(r)'
  BY <1>4, LeftOfKept DEF Finished
<1>7. ASSUME NEW p, InBlock(p), p[1] < bb, ~(p = Terminator(p[1]) /\ Ends(p[1]))
      PROVE  (WholeStores => SimulatedFrom(p, Q)') /\ ExactFrom(p, Q)'
  <2>1. (WholeStores => SimulatedFrom(p, Q)) /\ ExactFrom(p, Q)
    BY <1>4, <1>7 DEF Finished
  <2>2. p[1] \in Blocks
    BY <1>7 DEF InBlock
  <2> QED
    BY <1>7, <2>1, <2>2, TranslatedKept
<1>8. bb' > 0 \/ pc' = "instructions" => startRule' \in Q
  BY <1>2, <1>4 DEF Finished
<1> QED
  BY <1>1, <1>3, <1>5, <1>6, <1>7, <1>8, WholeKept DEF Finished

-----------------------------------------------------------------------------
(* An instruction is numbered and its rules are collected.                   *)

LEMMA HereState ==
  ASSUME ConverterInv, SimulationInv, atInstruction
  PROVE  /\ fn \in Functions /\ bb \in Blocks /\ bb \in Nat /\ i \in Nat /\ here \in Places
         /\ pc = "instructions" /\ ~m_trivial /\ VarsIn /\ VarsOnce /\ IsSequence(m_vars) /\ m_counter \in Nat
         /\ m_nondef \in Nat /\ Translated /\ here \notin DOMAIN m_idMap /\ NumbersApart
         /\ here[1] = bb /\ here[2] = i
<1>1. /\ fn \in Functions /\ bb \in Nat /\ i \in Nat /\ bb \in Blocks /\ pc = "instructions" /\ here \in Places
      /\ m_counter \in Nat /\ m_nondef \in Nat /\ NumbersApart /\ VarsOnce
  BY DEF ConverterInv, Typed, atInstruction
<1>2. ~m_trivial /\ VarsIn /\ Translated
  BY <1>1 DEF SimulationInv, Running
<1>3. here[1] = bb /\ here[2] = i
  BY DEF here
<1>4. here \notin DOMAIN m_idMap
  BY <1>1, <1>3 DEF NumbersApart
<1> QED
  BY <1>1, <1>2, <1>3, <1>4 DEF VarsOnce

LEMMA NumberingKept ==
  ASSUME ConverterInv, SimulationInv, atInstruction, I.op \notin {"icmp", "fcmp"},
         DOMAIN m_idMap' = DOMAIN m_idMap \cup {here}, m_idMap'[here] = m_counter,
         \A p \in DOMAIN m_idMap : m_idMap'[p] = m_idMap[p],
         m_counter' = m_counter + 1, i' = i + 1, UNCHANGED <<fn, pc, bb>>
  PROVE  Numbering'
<1>1. /\ fn \in Functions /\ bb \in Nat /\ i \in Nat /\ m_counter \in Nat /\ pc = "instructions"
      /\ Translated /\ here \notin DOMAIN m_idMap /\ NumbersApart /\ here \in Places /\ here[1] = bb /\ here[2] = i
  BY HereState
<1>2. /\ i > 0 /\ Consecutive
      /\ \A p, q \in DOMAIN m_idMap : p[1] = q[1] /\ p[2] < q[2] => m_idMap[p] < m_idMap[q]
      /\ \A p \in DOMAIN m_idMap :
           p[1] = bb /\ (\A q \in DOMAIN m_idMap : q[1] = bb => q[2] <= p[2]) => m_counter = m_idMap[p] + 1
      /\ \A p \in DOMAIN m_idMap : InstrAt(p).op \notin {"icmp", "fcmp"}
      /\ \A p \in Places :
           /\ InstrAt(p).op \notin {"icmp", "fcmp"}
           /\ p[1] < bb \/ (p[1] = bb /\ p[2] < i)
           => p \in DOMAIN m_idMap
  BY <1>1 DEF Translated, Numbering
<1>3. PICK D : D = DOMAIN m_idMap
  OBVIOUS
<1>4. PICK h : h = here
  OBVIOUS
<1>5. /\ DOMAIN m_idMap' = D \cup {h} /\ h \notin D
      /\ m_idMap'[h] = m_counter /\ \A p \in D : m_idMap'[p] = m_idMap[p]
  BY <1>1, <1>3, <1>4
<1>6. ASSUME NEW p \in D
      PROVE  p \in Places /\ m_idMap[p] \in Nat /\ m_idMap[p] < m_counter /\ p[2] \in Nat /\ (p[1] = bb => p[2] < i)
  BY <1>1, <1>3, PlaceFacts DEF NumbersApart
<1>7. Consecutive'
  <2> SUFFICES ASSUME NEW p \in D \cup {h}, NEW q \in D \cup {h}, p[1] = q[1], p[2] < q[2],
                      \A r \in D \cup {h} : ~(r[1] = p[1] /\ p[2] < r[2] /\ r[2] < q[2])
               PROVE  m_idMap'[q] = m_idMap'[p] + 1
    BY <1>5 DEF Consecutive
  <2>1. p # h
    BY <1>1, <1>4, <1>6
  <2>2. CASE q = h
    <3>1. p \in D /\ p[1] = bb /\ p[2] \in Nat
      BY <1>1, <1>4, <1>6, <2>1, <2>2
    <3>2. ASSUME NEW r \in D, r[1] = bb
          PROVE  r[2] <= p[2]
      <4>1. r[2] < i /\ r[2] \in Nat
        BY <1>6, <3>2
      <4> QED
        BY <1>1, <1>4, <2>2, <3>1, <3>2, <4>1
    <3>3. m_counter = m_idMap[p] + 1
      BY <1>2, <1>3, <3>1, <3>2
    <3> QED
      BY <1>5, <2>2, <3>1, <3>3
  <2>3. CASE q # h
    BY <1>2, <1>3, <1>5, <2>1, <2>3 DEF Consecutive
  <2> QED
    BY <2>2, <2>3
<1>8. \A p, q \in D \cup {h} : p[1] = q[1] /\ p[2] < q[2] => m_idMap'[p] < m_idMap'[q]
  BY <1>1, <1>2, <1>3, <1>4, <1>5, <1>6
<1>9. ASSUME NEW p \in D \cup {h}, p[1] = bb, \A q \in D \cup {h} : q[1] = bb => q[2] <= p[2]
      PROVE  m_counter' = m_idMap'[p] + 1
  <2>1. p = h
    BY <1>1, <1>4, <1>6, <1>9
  <2> QED
    BY <1>5, <2>1
<1>10. InstrAt(h).op \notin {"icmp", "fcmp"}
  BY <1>1, <1>4, HereFacts
<1>11. ASSUME NEW p \in Places, InstrAt(p).op \notin {"icmp", "fcmp"}, p[1] < bb \/ (p[1] = bb /\ p[2] < i + 1)
       PROVE  p \in D \cup {h}
  <2>1. p = <<p[1], p[2]>> /\ p[2] \in Nat
    BY <1>1, PlaceFacts
  <2>2. CASE p[1] = bb /\ p[2] = i
    BY <1>4, <2>1, <2>2 DEF here
  <2>3. CASE ~(p[1] = bb /\ p[2] = i)
    BY <1>1, <1>2, <1>3, <1>11, <2>1, <2>3
  <2> QED
    BY <2>2, <2>3
<1>12. Places' = Places /\ \A p : InstrAt(p)' = InstrAt(p)
  BY DEF Places, Blocks, InstrAt
<1>13. i' > 0
  BY <1>1, <1>2
<1> QED
  BY <1>2, <1>3, <1>5, <1>7, <1>8, <1>9, <1>10, <1>11, <1>12, <1>13 DEF Numbering

LEMMA EmitCollects ==
  ASSUME ConverterInv, SimulationInv, atInstruction, I.op \notin {"icmp", "fcmp"},
         UNCHANGED <<fn, options, m_vars, pc, bb>>,
         DOMAIN m_idMap' = DOMAIN m_idMap \cup {here}, m_idMap'[here] = m_counter,
         \A p \in DOMAIN m_idMap : m_idMap'[p] = m_idMap[p],
         NEW C, NEW A, ToSet(m_blockRules)' = ToSet(m_blockRules) \cup C \cup {Alternative(m_counter, x) : x \in A},
         \A x \in A : ArgsOK(x[1]), WholeStores => AltsCover(here, A), AltsFaithful(here, A),
         \A r \in C : CallRule(m_counter, r),
         I.op \in {"call", "callvoid"} =>
           \A k \in DOMAIN calleesOfInterest : \E m \in Nat :
             Rule(eval(m_counter), startSymbol(calleesOfInterest[k]), callArgs(m), {}) \in C
  PROVE  Collected'
<1>1. /\ fn \in Functions /\ m_counter \in Nat /\ pc = "instructions"
      /\ Translated /\ here \notin DOMAIN m_idMap /\ NumbersApart /\ here \in Places /\ here[1] = bb
  BY HereState
<1>2. PICK R : R = ToSet(m_blockRules)
  OBVIOUS
<1>3. PICK Q : Q = R \cup C \cup {Alternative(m_counter, x) : x \in A}
  OBVIOUS
<1>4. PICK D : D = DOMAIN m_idMap
  OBVIOUS
<1>5. PICK h : h = here
  OBVIOUS
<1>6. /\ \A r \in R : \E p \in D : p[1] = bb /\ r.left = eval(m_idMap[p])
      /\ \A p \in D : p[1] = bb => (WholeStores => Covers(p, m_idMap[p], R)) /\ Faithful(p, m_idMap[p], R)
  BY <1>1, <1>2, <1>4 DEF Translated, Collected
<1>7. \A p \in D : m_idMap[p] \in Nat /\ m_idMap[p] < m_counter
  BY <1>1, <1>4 DEF NumbersApart
<1>8. \A r \in Q : r \notin R => r.left = eval(m_counter)
  BY <1>3 DEF CallRule, Alternative, Rule
<1>9. ASSUME NEW p \in D, p[1] = bb
      PROVE  (WholeStores => Covers(p, m_idMap[p], Q)) /\ Faithful(p, m_idMap[p], Q)
  <2>1. PICK n : n = m_idMap[p]
    OBVIOUS
  <2>2. R \subseteq Q
    BY <1>3
  <2>3. \A r \in Q : r.left = eval(n) => r \in R
    <3>1. eval(n) # eval(m_counter)
      BY <1>7, <2>1 DEF eval
    <3> QED
      BY <3>1, <1>8
  <2>4. (WholeStores => Covers(p, n, R)) /\ Faithful(p, n, R)
    BY <1>6, <1>9, <2>1
  <2>5. (WholeStores => Covers(p, n, Q)) /\ Faithful(p, n, Q)
    BY <2>2, <2>3, <2>4, MoreRules
  <2> QED
    BY <2>1, <2>5
<1>10. (WholeStores => Covers(h, m_counter, Q)) /\ Faithful(h, m_counter, Q)
  <2>1. \A x \in A : Alternative(m_counter, x) \in Q
    BY <1>3
  <2>2. I.op \in {"call", "callvoid"} =>
          \A k \in DOMAIN calleesOfInterest : \E m \in Nat :
            Rule(eval(m_counter), startSymbol(calleesOfInterest[k]), callArgs(m), {}) \in Q
    BY <1>3
  <2>3. \A r \in Q : r.left = eval(m_counter) => CallRule(m_counter, r) \/ \E x \in A : r = Alternative(m_counter, x)
    <3>1. ASSUME NEW r \in R
          PROVE  r.left # eval(m_counter)
      <4>1. PICK p \in D : r.left = eval(m_idMap[p])
        BY <1>6
      <4> QED
        BY <1>7, <4>1 DEF eval
    <3> QED
      BY <1>3, <3>1
  <2>4. PICK n : n = m_counter
    OBVIOUS
  <2>5. WholeStores => Covers(here, n, Q)
    BY <1>1, <2>1, <2>2, <2>4, AlternativesCover
  <2>6. Faithful(here, n, Q)
    BY <1>1, <2>3, <2>4, AlternativesFaithful
  <2> QED
    BY <1>5, <2>4, <2>5, <2>6
<1>11. ToSet(m_blockRules)' = Q
  BY <1>2, <1>3
<1>12. PICK id : id = m_idMap'
  OBVIOUS
<1>13. DOMAIN id = D \cup {h} /\ id[h] = m_counter /\ \A p \in D : id[p] = m_idMap[p]
  BY <1>4, <1>5, <1>12
<1>14. ASSUME NEW p \in D \cup {h}, p[1] = bb
       PROVE  (WholeStores => Covers(p, id[p], Q)') /\ Faithful(p, id[p], Q)'
  <2>1. PICK n : n = id[p]
    OBVIOUS
  <2>2. (WholeStores => Covers(p, n, Q)) /\ Faithful(p, n, Q)
    BY <1>9, <1>10, <1>13, <1>14, <2>1
  <2>3. (WholeStores => Covers(p, n, Q)') /\ Faithful(p, n, Q)'
    BY <2>2, CoversKept
  <2> QED
    BY <2>1, <2>3
<1>15. ASSUME NEW r \in Q
       PROVE  \E p \in D \cup {h} : p[1] = bb /\ r.left = eval(id[p])
  <2>1. CASE r \in R
    BY <1>6, <1>13, <2>1
  <2>2. CASE r \notin R
    BY <1>1, <1>5, <1>8, <1>13, <2>2
  <2> QED
    BY <2>1, <2>2
<1> QED
  BY <1>11, <1>12, <1>13, <1>14, <1>15, WholeKept DEF Collected

LEMMA EmitSimulates ==
  ASSUME ConverterInv, SimulationInv, atInstruction, I.op \notin {"icmp", "fcmp"},
         NEW callRules, IsSequence(callRules), NEW alternatives, IsSequence(alternatives), NEW nondefs, NEW controls,
         Emit(callRules, alternatives, nondefs, controls),
         \A x \in ToSet(alternatives) : ArgsOK(x[1]),
         WholeStores => AltsCover(here, ToSet(alternatives)), AltsFaithful(here, ToSet(alternatives)),
         \A r \in ToSet(callRules) : CallRule(m_counter, r),
         I.op \in {"call", "callvoid"} =>
           \A k \in DOMAIN calleesOfInterest : \E m \in Nat :
             Rule(eval(m_counter), startSymbol(calleesOfInterest[k]), callArgs(m), {}) \in ToSet(callRules)
  PROVE  SimulationInv'
<1>1. /\ m_idMap' = [p \in DOMAIN m_idMap \cup {here} |-> IF p = here THEN m_counter ELSE m_idMap[p]]
      /\ m_blockRules' = m_blockRules \o callRules
           \o [k \in DOMAIN alternatives |->
                 Rule(eval(m_counter), eval(m_counter + 1), alternatives[k][1], alternatives[k][2])]
      /\ m_counter' = m_counter + 1 /\ i' = i + 1
      /\ UNCHANGED <<fn, options, at, env, bools, pc, bb, m_trivial, m_vars, m_rules, m_returns>>
  BY DEF Emit, inputVars, programVars
<1>2. /\ fn \in Functions /\ bb \in Nat /\ pc = "instructions" /\ ~m_trivial /\ Translated
      /\ here \notin DOMAIN m_idMap /\ NumbersApart /\ here \in Places /\ here[1] = bb /\ m_counter \in Nat
  BY HereState
<1>3. /\ DOMAIN m_idMap' = DOMAIN m_idMap \cup {here} /\ m_idMap'[here] = m_counter
      /\ \A p \in DOMAIN m_idMap : m_idMap'[p] = m_idMap[p]
  BY <1>1, <1>2
<1> DEFINE A == ToSet(alternatives)
           C == ToSet(callRules)
           last == [k \in DOMAIN alternatives |-> Alternative(m_counter, alternatives[k])]
<1>4. ToSet(m_blockRules)' = ToSet(m_blockRules) \cup C \cup {Alternative(m_counter, x) : x \in A}
  <2>1. m_blockRules' = (m_blockRules \o callRules) \o last
    BY <1>1 DEF Alternative
  <2>2. IsSequence(m_blockRules)
    BY DEF ConverterInv, Typed
  <2>3. Len(alternatives) \in Nat /\ DOMAIN alternatives = 1 .. Len(alternatives)
    BY SequenceFacts
  <2>4. IsSequence(last) /\ ToSet(last) = {Alternative(m_counter, x) : x \in A}
    <3>1. DOMAIN last = 1 .. Len(alternatives) /\ last = [k \in 1 .. Len(alternatives) |-> last[k]]
      BY <2>3
    <3>2. IsSequence(last)
      <4> HIDE DEF last
      <4> QED
        BY <2>3, <3>1, FunctionSequence
    <3>3. ToSet(last) = {Alternative(m_counter, x) : x \in A}
      BY DEF ToSet
    <3> QED
      BY <3>2, <3>3
  <2> HIDE DEF last
  <2>5. IsSequence(m_blockRules \o callRules) /\ ToSet(m_blockRules \o callRules) = ToSet(m_blockRules) \cup C
    BY <2>2, ConcatSequence
  <2>6. PICK s : s = m_blockRules \o callRules
    OBVIOUS
  <2>7. ToSet(s \o last) = ToSet(s) \cup ToSet(last)
    BY <2>4, <2>5, <2>6, ConcatSequence
  <2> QED
    BY <2>1, <2>4, <2>5, <2>6, <2>7
<1> HIDE DEF A, C, last
<1>5. UNCHANGED <<fn, options, m_vars>> /\ UNCHANGED <<fn, pc, bb>> /\ UNCHANGED <<fn, options, m_vars, pc, bb>>
  BY <1>1
<1>6. Numbering'
  BY <1>1, <1>3, <1>5, NumberingKept
<1>7. Collected'
  BY <1>3, <1>4, <1>5, EmitCollects DEF A, C
<1>8. Finished'
  <2>1. \A b \in Blocks : b < bb => SameNumbers(b)
    <3>1. ASSUME NEW b \in Blocks, b < bb
          PROVE  SameNumbers(b)
      <4>1. \A k : <<b, k>> # here
        BY <1>2, <3>1 DEF here
      <4> QED
        BY <1>3, <4>1 DEF SameNumbers
    <3> QED
      BY <3>1
  <2>2. UNCHANGED <<fn, options, m_vars, m_rules, bb>> /\ pc' = pc
    BY <1>1
  <2>3. DOMAIN m_idMap \subseteq Places /\ DOMAIN m_idMap \subseteq DOMAIN m_idMap'
    BY <1>2, <1>3 DEF NumbersApart
  <2>4. Finished
    BY <1>2 DEF Translated
  <2> QED
    BY <1>2, <1>3, <2>1, <2>2, <2>3, <2>4, FinishedKept
<1>9. Returned'
  <2>1. Returned
    BY <1>2 DEF Translated
  <2> QED
    BY <1>1, <1>2, <2>1 DEF Returned, Ends, Blocks
<1>10. Running'
  <2>1. Running
    BY DEF SimulationInv
  <2>2. UNCHANGED <<fn, options, m_vars, at, env, bools, m_trivial>> /\ pc # "run" /\ pc' \notin {"phase1", "run"}
    BY <1>1, <1>2
  <2> QED
    BY <1>2, <2>1, <2>2, RunningKept
<1> QED
  BY <1>6, <1>7, <1>8, <1>9, <1>10 DEF SimulationInv, Translated

LEMMA EmitOneSimulates ==
  ASSUME ConverterInv, SimulationInv, atInstruction, I.op \notin {"icmp", "fcmp", "call", "callvoid"},
         NEW nondefs, NEW controls, NEW args, NEW cond, Emit(<<>>, << <<args, cond>> >>, nondefs, controls),
         ArgsOK(args), WholeStores => AltsCover(here, {<<args, cond>>}), AltsFaithful(here, {<<args, cond>>})
  PROVE  SimulationInv'
<1>1. PICK alternatives : alternatives = << <<args, cond>> >>
  OBVIOUS
<1>2. PICK none : none = <<>>
  OBVIOUS
<1>3. IsSequence(alternatives) /\ ToSet(alternatives) = {<<args, cond>>}
  BY <1>1, SingletonSequence
<1>4. IsSequence(none) /\ ToSet(none) = {}
  BY <1>2, EmptySequence
<1>5. Emit(none, alternatives, nondefs, controls)
  BY <1>1, <1>2
<1>6. \A x \in ToSet(alternatives) : ArgsOK(x[1])
  BY <1>3
<1> QED
  BY <1>3, <1>4, <1>5, <1>6, EmitSimulates

LEMMA EmitTwoSimulates ==
  ASSUME ConverterInv, SimulationInv, atInstruction, I.op \notin {"icmp", "fcmp", "call", "callvoid"},
         NEW nondefs, NEW controls, NEW args, NEW cond, NEW more, NEW other,
         Emit(<<>>, << <<args, cond>>, <<more, other>> >>, nondefs, controls),
         ArgsOK(args), ArgsOK(more),
         AltsCover(here, {<<args, cond>>, <<more, other>>}), AltsFaithful(here, {<<args, cond>>, <<more, other>>})
  PROVE  SimulationInv'
<1>1. PICK alternatives : alternatives = << <<args, cond>>, <<more, other>> >>
  OBVIOUS
<1>2. PICK none : none = <<>>
  OBVIOUS
<1>3. IsSequence(alternatives) /\ ToSet(alternatives) = {<<args, cond>>, <<more, other>>}
  BY <1>1, PairSequence
<1>4. IsSequence(none) /\ ToSet(none) = {}
  BY <1>2, EmptySequence
<1>5. Emit(none, alternatives, nondefs, controls)
  BY <1>1, <1>2
<1>6. \A x \in ToSet(alternatives) : ArgsOK(x[1])
  BY <1>3
<1> QED
  BY <1>3, <1>4, <1>5, <1>6, EmitSimulates

LEMMA PlainSimulates ==
  ASSUME ConverterInv, SimulationInv, visitArithmetic \/ visitInstruction \/ visitAssume
  PROVE  SimulationInv'
<1>1. atInstruction
  BY DEF visitArithmetic, visitInstruction, visitAssume
<1>2. fn \in Functions /\ VarsIn /\ IsSequence(m_vars) /\ here \in Places
  BY <1>1, HereState
<1>3. CASE visitArithmetic
  <2>1. PICK args : args = setResult(<<"one-", I.x[2]>>)
    OBVIOUS
  <2>2. I.op = "arith" /\ Emit(<<>>, << <<args, {}>> >>, 0, {})
    BY <1>3, <2>1 DEF visitArithmetic
  <2>3. ArgsOK(args)
    BY <1>2, <2>1, NewArgsOK DEF setResult, Term
  <2>4. AltsCover(here, {<<args, {}>>}) /\ AltsFaithful(here, {<<args, {}>>})
    BY <1>2, <2>1, <2>2, ArithmeticAlts
  <2> QED
    BY <1>1, <2>2, <2>3, <2>4, EmitOneSimulates
<1>4. CASE visitInstruction
  <2>1. PICK args : args = setResult(newNondef)
    OBVIOUS
  <2>2. I.op \in {"nondef", "other"} /\ Emit(<<>>, << <<args, {}>> >>, 1, {})
    BY <1>4, <2>1 DEF visitInstruction
  <2>3. ArgsOK(args)
    BY <1>2, <2>1, NewArgsOK DEF setResult, newNondef, Term
  <2>4. AltsCover(here, {<<args, {}>>}) /\ AltsFaithful(here, {<<args, {}>>})
    BY <1>2, <2>1, <2>2, InstructionAlts
  <2> QED
    BY <1>1, <2>2, <2>3, <2>4, EmitOneSimulates
<1>5. CASE visitAssume
  <2>1. PICK cond : cond = IF options.onlyLoopConditions THEN {} ELSE getCondition(I.c, TRUE)
    OBVIOUS
  <2>2. PICK controls : controls = IF options.assumeIsControl THEN {eval(m_counter)} ELSE {}
    OBVIOUS
  <2>3. I.op = "assume" /\ Emit(<<>>, << <<m_lhs, cond>> >>, 0, controls)
    BY <1>5, <2>1, <2>2 DEF visitAssume
  <2>4. ArgsOK(m_lhs)
    BY <1>2, LhsOK
  <2>5. AltsCover(here, {<<m_lhs, cond>>}) /\ AltsFaithful(here, {<<m_lhs, cond>>})
    BY <1>2, <2>1, <2>3, AssumeAlts
  <2>6. PICK args : args = m_lhs
    OBVIOUS
  <2> QED
    BY <1>1, <2>3, <2>4, <2>5, <2>6, EmitOneSimulates
<1> QED
  BY <1>3, <1>4, <1>5

LEMMA SelectSimulates ==
  ASSUME ConverterInv, SimulationInv, visitSelectInst
  PROVE  SimulationInv'
<1> DEFINE undef == IF I.x[1] = "undef" THEN 1 ELSE 0
<1>1. PICK yes : yes = IF options.onlyLoopConditions THEN {} ELSE getCondition(I.c, TRUE)
  OBVIOUS
<1>2. PICK no : no = IF options.onlyLoopConditions THEN {} ELSE getCondition(I.c, FALSE)
  OBVIOUS
<1>3. PICK m : m = m_nondef + undef
  OBVIOUS
<1>4. PICK p : p = getPolynomial(I.x, m_nondef)
  OBVIOUS
<1>5. PICK q : q = getPolynomial(I.y, m)
  OBVIOUS
<1>6. PICK args : args = setResult(p)
  OBVIOUS
<1>7. PICK more : more = setResult(q)
  OBVIOUS
<1>8. /\ atInstruction /\ I.op = "select"
      /\ \E nondefs, controls : Emit(<<>>, << <<args, yes>>, <<more, no>> >>, nondefs, controls)
  <2>1. Emit(<<>>, << <<args, yes>>, <<more, no>> >>, undef + (IF I.y[1] = "undef" THEN 1 ELSE 0),
             IF options.selectIsControl THEN {eval(m_counter)} ELSE {})
    BY <1>1, <1>2, <1>3, <1>4, <1>5, <1>6, <1>7 DEF visitSelectInst
  <2> QED
    BY <2>1 DEF visitSelectInst
<1>9. fn \in Functions /\ VarsIn /\ IsSequence(m_vars) /\ here \in Places
  BY <1>8, HereState
<1>10. I.x \in Operand /\ I.y \in Operand
  BY <1>8, <1>9, InstructionFacts
<1>11. ArgsOK(args) /\ ArgsOK(more)
  <2>1. Term(p) /\ Term(q)
    BY <1>4, <1>5, <1>10, PolynomialTerm
  <2> QED
    BY <1>6, <1>7, <1>9, <2>1, NewArgsOK DEF setResult
<1>12. PICK n : n = m_nondef
  OBVIOUS
<1>13. AltsCover(here, {<<args, yes>>, <<more, no>>}) /\ AltsFaithful(here, {<<args, yes>>, <<more, no>>})
  <2>1. LET A == {<<setResult(getPolynomial(I.x, n)), yes>>, <<setResult(getPolynomial(I.y, m)), no>>}
        IN  AltsCover(here, A) /\ AltsFaithful(here, A)
    BY <1>1, <1>2, <1>8, <1>9, SelectAlts
  <2> QED
    BY <2>1, <1>4, <1>5, <1>6, <1>7, <1>12
<1>14. PICK nondefs, controls : Emit(<<>>, << <<args, yes>>, <<more, no>> >>, nondefs, controls)
  BY <1>8
<1> QED
  BY <1>8, <1>11, <1>13, <1>14, EmitTwoSimulates

LEMMA ZExtSimulates ==
  ASSUME ConverterInv, SimulationInv, visitZExtInst
  PROVE  SimulationInv'
<1>1. PICK no : no = getCondition(I.c, FALSE)
  OBVIOUS
<1>2. PICK yes : yes = getCondition(I.c, TRUE)
  OBVIOUS
<1>3. PICK args : args = setResult(<<"const", 0>>)
  OBVIOUS
<1>4. PICK more : more = setResult(<<"const", 1>>)
  OBVIOUS
<1>5. atInstruction /\ I.op = "zext" /\ Emit(<<>>, << <<args, no>>, <<more, yes>> >>, 0, {})
  BY <1>1, <1>2, <1>3, <1>4 DEF visitZExtInst
<1>6. fn \in Functions /\ VarsIn /\ IsSequence(m_vars) /\ here \in Places
  BY <1>5, HereState
<1>7. ArgsOK(args) /\ ArgsOK(more)
  BY <1>3, <1>4, <1>6, NewArgsOK DEF setResult, Term
<1>8. AltsCover(here, {<<args, no>>, <<more, yes>>}) /\ AltsFaithful(here, {<<args, no>>, <<more, yes>>})
  BY <1>1, <1>2, <1>3, <1>4, <1>5, <1>6, ZExtAlts
<1> QED
  BY <1>5, <1>7, <1>8, EmitTwoSimulates

LEMMA LoadSimulates ==
  ASSUME ConverterInv, SimulationInv, visitLoadInst
  PROVE  SimulationInv'
<1>1. PICK args : args = loadArgs
  OBVIOUS
<1>2. atInstruction /\ I.op = "load" /\ \E nondefs : Emit(<<>>, << <<args, {}>> >>, nondefs, {})
  BY <1>1 DEF visitLoadInst, loadArgs
<1>3. fn \in Functions /\ VarsIn /\ IsSequence(m_vars) /\ here \in Places
  BY <1>2, HereState
<1>4. ArgsOK(args)
  <2>1. ArgsOK(setResult(<<"var", the(loadMust(I.alias))>>)) /\ ArgsOK(setResult(newNondef))
    BY <1>3, NewArgsOK DEF setResult, newNondef, Term
  <2> QED
    BY <1>1, <2>1 DEF loadArgs
<1>5. AltsCover(here, {<<args, {}>>}) /\ AltsFaithful(here, {<<args, {}>>})
  BY <1>1, <1>2, <1>3, LoadAlts
<1>6. PICK nondefs : Emit(<<>>, << <<args, {}>> >>, nondefs, {})
  BY <1>2
<1> QED
  BY <1>2, <1>4, <1>5, <1>6, EmitOneSimulates

LEMMA StoreSimulates ==
  ASSUME ConverterInv, SimulationInv, visitStoreInst
  PROVE  SimulationInv'
<1> DEFINE mays == maySet(I.alias)
           musts == storeMust(I.alias)
<1>1. atInstruction /\ I.op = "store"
  BY DEF visitStoreInst
<1>2. /\ fn \in Functions /\ VarsIn /\ VarsOnce /\ IsSequence(m_vars) /\ here \in Places /\ m_nondef \in Nat
      /\ pc = "instructions" /\ ~m_trivial
  BY <1>1, HereState
<1>3. CASE musts # {} /\ ~unique(mays, musts)
  <2>1. pc' = "exit" /\ UNCHANGED <<fn, options, m_vars, at, env, bools, m_trivial>>
    BY <1>3 DEF visitStoreInst, inputVars, programVars
  <2>2. Running'
    BY <1>2, <2>1, RunningKept DEF SimulationInv
  <2> QED
    BY <2>1, <2>2 DEF SimulationInv
<1>4. CASE ~(musts # {} /\ ~unique(mays, musts))
  <2>1. PICK args : args = storeArgs
    OBVIOUS
  <2>2. \E nondefs : Emit(<<>>, << <<args, {}>> >>, nondefs, {})
    BY <1>4, <2>1 DEF visitStoreInst, storeArgs
  <2>3. (WholeStores => AltsCover(here, {<<args, {}>>})) /\ AltsFaithful(here, {<<args, {}>>})
    BY <1>1, <1>2, <1>4, <2>1, StoreAlts
  <2>4. ArgsOK(args)
    <3>1. Term(getPolynomial(I.x, m_nondef))
      BY <1>1, <1>2, InstructionFacts, PolynomialTerm
    <3>2. ArgsOK(getNewArgs(the(musts), getPolynomial(I.x, m_nondef)))
      BY <1>2, <3>1, NewArgsOK
    <3>3. ArgsOK(getZappedArgs(mays, m_nondef, m_lhs))
      <4>1. DOMAIN m_lhs = DOMAIN m_vars /\ Terms(m_lhs)
        BY <1>2, LhsOK DEF ArgsOK, m_lhs
      <4> QED
        BY <1>2, <4>1, ZappedOK
    <3> QED
      BY <2>1, <3>2, <3>3 DEF storeArgs
  <2>5. PICK nondefs : Emit(<<>>, << <<args, {}>> >>, nondefs, {})
    BY <2>2
  <2> QED
    BY <1>1, <2>3, <2>4, <2>5, EmitOneSimulates
<1> QED
  BY <1>3, <1>4

LEMMA CallSimulates ==
  ASSUME ConverterInv, SimulationInv, visitCallInst
  PROVE  SimulationInv'
<1> DEFINE callRule(k) == Rule(eval(m_counter), startSymbol(calleesOfInterest[k]), callArgs(m_nondef + k - 1), {})
           rules == [k \in DOMAIN calleesOfInterest |-> callRule(k)]
<1>1. PICK args : args = returnArgs
  OBVIOUS
<1>2. PICK callRules : callRules = rules
  OBVIOUS
<1>3. PICK alternatives : alternatives = << <<args, {}>> >>
  OBVIOUS
<1>4. /\ atInstruction /\ I.op \in {"call", "callvoid"}
      /\ Emit(callRules, alternatives, callPassed + callResult + zapNondefs, callControls)
  BY <1>1, <1>2, <1>3 DEF visitCallInst, callPassed, callResult, returnArgs, resultArgs
<1>5. fn \in Functions /\ VarsIn /\ VarsOnce /\ IsSequence(m_vars) /\ here \in Places /\ m_nondef \in Nat
  BY <1>4, HereState
<1>6. /\ callPassed \in Nat /\ callResult \in Nat
      /\ Len(calleesOfInterest) \in Nat /\ DOMAIN calleesOfInterest = 1 .. Len(calleesOfInterest)
  BY <1>4, <1>5, CallNumbers
<1>7. IsSequence(callRules)
  <2>1. rules = [k \in 1 .. Len(calleesOfInterest) |-> rules[k]] /\ DOMAIN rules = 1 .. Len(calleesOfInterest)
    BY <1>6
  <2> HIDE DEF rules
  <2> QED
    BY <1>2, <1>6, <2>1, FunctionSequence
<1>8. ToSet(callRules) = {callRule(k) : k \in DOMAIN calleesOfInterest}
  BY <1>2 DEF ToSet
<1>9. \A k \in DOMAIN calleesOfInterest : m_nondef + k - 1 \in Nat
  BY <1>5, <1>6
<1>10. \A r \in ToSet(callRules) : CallRule(m_counter, r)
  BY <1>4, <1>8, <1>9 DEF CallRule
<1>11. \A k \in DOMAIN calleesOfInterest : \E m \in Nat :
         Rule(eval(m_counter), startSymbol(calleesOfInterest[k]), callArgs(m), {}) \in ToSet(callRules)
  BY <1>8, <1>9
<1>12. IsSequence(alternatives) /\ ToSet(alternatives) = {<<args, {}>>}
  BY <1>3, SingletonSequence
<1>13. AltsCover(here, {<<args, {}>>}) /\ AltsFaithful(here, {<<args, {}>>})
  BY <1>1, <1>4, <1>5, ReturnAlts
<1>14. ArgsOK(args)
  <2>1. DOMAIN resultArgs = DOMAIN m_vars /\ ArgsOK(resultArgs)
    <3>1. ArgsOK(setResult(<<"nondef", m_nondef + callPassed>>))
      BY <1>5, NewArgsOK DEF setResult, Term
    <3>2. ArgsOK(m_lhs)
      BY <1>5, LhsOK
    <3> QED
      BY <3>1, <3>2 DEF resultArgs, setResult, getNewArgs, m_lhs
  <2> QED
    BY <1>1, <1>5, <2>1, ZappedOK DEF returnArgs, ArgsOK
<1>15. \A x \in ToSet(alternatives) : ArgsOK(x[1])
  BY <1>12, <1>14
<1>16. PICK nondefs : nondefs = callPassed + callResult + zapNondefs
  OBVIOUS
<1>17. PICK controls : controls = callControls
  OBVIOUS
<1> QED
  BY <1>4, <1>7, <1>10, <1>11, <1>12, <1>13, <1>15, <1>16, <1>17, EmitSimulates

LEMMA CmpSimulates ==
  ASSUME ConverterInv, SimulationInv, visitCmpInst
  PROVE  SimulationInv'
<1>1. /\ atInstruction /\ I.op \in {"icmp", "fcmp"} /\ i' = i + 1
      /\ UNCHANGED <<fn, options, at, env, bools, pc, bb, m_trivial, m_vars, m_counter, m_idMap, m_blockRules,
                     m_rules, m_returns>>
  BY DEF visitCmpInst, inputVars, programVars, counters, rulesVars
<1>2. /\ fn \in Functions /\ bb \in Nat /\ i \in Nat /\ pc = "instructions" /\ ~m_trivial /\ Translated
      /\ NumbersApart /\ here \in Places /\ here[1] = bb /\ here[2] = i /\ InstrAt(here) = I
  BY <1>1, HereState, HereFacts
<1>3. Numbering'
  <2>1. Places' = Places /\ \A p : InstrAt(p)' = InstrAt(p)
    BY <1>1 DEF Places, Blocks, InstrAt
  <2>2. ASSUME NEW p \in Places, InstrAt(p).op \notin {"icmp", "fcmp"}, p[1] = bb, p[2] < i + 1
        PROVE  p[2] < i
    <3>1. p = <<p[1], p[2]>> /\ p[2] \in Nat
      BY <1>2, PlaceFacts
    <3>2. p[2] # i
      BY <1>1, <1>2, <2>2, <3>1 DEF here
    <3> QED
      BY <1>2, <2>2, <3>1, <3>2
  <2>3. Consecutive'
    BY <1>1, <1>2 DEF Translated, Numbering, Consecutive
  <2> QED
    BY <1>1, <1>2, <2>1, <2>2, <2>3 DEF Translated, Numbering
<1>4. Collected'
  <2>1. PICK R : R = ToSet(m_blockRules)
    OBVIOUS
  <2>2. R = ToSet(m_blockRules)'
    BY <1>1, <2>1
  <2>3. /\ \A r \in R : \E p \in DOMAIN m_idMap : p[1] = bb /\ r.left = eval(m_idMap[p])
        /\ \A p \in DOMAIN m_idMap : p[1] = bb => (WholeStores => Covers(p, m_idMap[p], R)) /\ Faithful(p, m_idMap[p], R)
    BY <1>2, <2>1 DEF Translated, Collected
  <2>4. ASSUME NEW p \in DOMAIN m_idMap, p[1] = bb
        PROVE  (WholeStores => Covers(p, m_idMap[p], R)') /\ Faithful(p, m_idMap[p], R)'
    <3>1. PICK n : n = m_idMap[p]
      OBVIOUS
    <3>2. n = m_idMap'[p]
      BY <1>1, <3>1
    <3>3. UNCHANGED <<fn, options, m_vars>>
      BY <1>1
    <3>4. (WholeStores => Covers(p, n, R)') /\ Faithful(p, n, R)'
      BY <2>3, <2>4, <3>1, <3>3, CoversKept
    <3> QED
      BY <3>1, <3>2, <3>4
  <2> QED
    BY <1>1, <2>2, <2>3, <2>4, WholeKept DEF Collected
<1>5. Finished'
  <2>1. \A b \in Blocks : b < bb => SameNumbers(b)
    BY <1>1 DEF SameNumbers
  <2>2. UNCHANGED <<fn, options, m_vars, m_rules, bb>> /\ pc' = pc
    BY <1>1
  <2>3. /\ DOMAIN m_idMap \subseteq Places /\ DOMAIN m_idMap \subseteq DOMAIN m_idMap'
        /\ \A p \in DOMAIN m_idMap : m_idMap'[p] = m_idMap[p]
    BY <1>1, <1>2 DEF NumbersApart
  <2> QED
    BY <1>2, <2>1, <2>2, <2>3, FinishedKept DEF Translated
<1>6. Returned'
  BY <1>1, <1>2 DEF Translated, Returned, Ends, Blocks
<1>7. Running'
  BY <1>1, <1>2, RunningKept DEF SimulationInv
<1> QED
  BY <1>3, <1>4, <1>5, <1>6, <1>7 DEF SimulationInv, Translated

-----------------------------------------------------------------------------
(* The other steps.                                                         *)

LEMMA InitSimulates == Init => SimulationInv
<1> SUFFICES ASSUME Init
             PROVE  SimulationInv
  OBVIOUS
<1>1. /\ fn \in Functions /\ pc = "phase1" /\ bb = 0 /\ i > 0 /\ m_trivial = FALSE /\ at = Start
      /\ bools = [p \in Comparisons |-> FALSE] /\ DOMAIN m_vars = {} /\ DOMAIN m_idMap = {}
      /\ m_rules = <<>> /\ m_returns = <<>> /\ ToSet(m_rules) = {} /\ ToSet(m_returns) = {}
  BY EmptySequence DEF Init
<1>2. Blocks \subseteq Nat /\ \A p \in Places : p[1] \in Nat
  BY <1>1, GraphFacts, PlaceFacts
<1>3. Running
  BY <1>1 DEF Running, VarsIn, Bools
<1>4. Numbering
  BY <1>1, <1>2 DEF Numbering, Consecutive
<1>5. Collected
  BY <1>1 DEF Collected
<1>6. Finished
  BY <1>1, <1>2 DEF Finished, InBlock
<1>7. Returned
  <2>1. \A b \in Blocks : ~(b < bb \/ (b = bb /\ pc = "instructions"))
    BY <1>1, <1>2
  <2> QED
    BY <1>1, <2>1 DEF Returned
<1> QED
  BY <1>3, <1>4, <1>5, <1>6, <1>7 DEF SimulationInv, Translated

LEMMA Phase1Simulates ==
  ASSUME ConverterInv, SimulationInv, phase1
  PROVE  SimulationInv'
<1>1. /\ pc = "phase1" /\ pc' = "phase2" /\ m_trivial' = isTrivial
      /\ m_vars' = IF isTrivial THEN variables ELSE allVariables
      /\ UNCHANGED <<fn, options, at, env, bools, bb, i, m_counter, m_idMap, m_blockRules, m_rules, m_returns>>
  BY DEF phase1, inputVars, programVars, counters, rulesVars
<1>2. fn \in Functions /\ Blocks \subseteq Nat /\ \A p \in Places : p[1] \in Nat
  BY GraphFacts, PlaceFacts DEF ConverterInv, Typed
<1>3. /\ bb = 0 /\ DOMAIN m_idMap = {} /\ m_rules = <<>> /\ m_returns = <<>> /\ at = Start /\ bools \in Bools
      /\ ToSet(m_rules) = {} /\ ToSet(m_returns) = {}
  <2>1. bb = 0 /\ DOMAIN m_idMap = {} /\ m_rules = <<>> /\ m_returns = <<>> /\ at = Start /\ bools \in Bools
    BY <1>1 DEF SimulationInv, Running
  <2> QED
    BY <2>1, EmptySequence
<1>4. /\ Blocks' = Blocks /\ Places' = Places /\ Bools' = Bools /\ Vars' = Vars /\ isTrivial' = isTrivial
      /\ \A p : InBlock(p)' = InBlock(p)
  BY <1>1 DEF Blocks, Places, Bools, Comparisons, InstrAt, Vars, Results, Phis, hasResult, isTrivial, Reached, InBlock
<1>5. VarsIn'
  <2>1. \A k \in DOMAIN variables : variables[k] \in Vars
    BY VariablesFacts DEF Vars
  <2> QED
    BY <1>1, <1>2, <1>4, <2>1, AllVariablesFacts DEF VarsIn
<1>6. Running'
  BY <1>1, <1>3, <1>4, <1>5 DEF Running
<1>7. Numbering'
  <2>1. i > 0
    BY <1>1 DEF SimulationInv, Running, Translated, Numbering
  <2> QED
    BY <1>1, <1>2, <1>3, <1>4, <2>1 DEF Numbering, Consecutive
<1>8. Collected'
  BY <1>1 DEF Collected
<1>9. Finished'
  BY <1>1, <1>2, <1>3, <1>4 DEF Finished, InBlock
<1>10. Returned'
  <2>1. \A b \in Blocks' : ~(b < bb' \/ (b = bb' /\ pc' = "instructions"))
    BY <1>1, <1>2, <1>3, <1>4
  <2> QED
    BY <1>1, <1>3, <2>1 DEF Returned
<1> QED
  BY <1>6, <1>7, <1>8, <1>9, <1>10 DEF SimulationInv, Translated

LEMMA TrivialSimulates ==
  ASSUME ConverterInv, SimulationInv, phase2Trivial
  PROVE  SimulationInv'
<1>1. /\ pc = "phase2" /\ pc' = "ready" /\ m_trivial /\ m_trivial'
      /\ UNCHANGED <<fn, options, m_vars, at, env, bools, m_trivial>>
  BY DEF phase2Trivial, inputVars, programVars
<1>2. Running'
  BY <1>1, RunningKept DEF SimulationInv
<1> QED
  BY <1>1, <1>2 DEF SimulationInv

LEMMA RunSimulates ==
  ASSUME ConverterInv, SimulationInv, StartRun \/ Run \/ UNCHANGED vars
  PROVE  SimulationInv'
<1>1. /\ UNCHANGED <<fn, options, m_trivial, m_vars>>
      /\ UNCHANGED <<bb, i, m_counter, m_idMap, m_blockRules, m_rules, m_returns>>
  BY DEF StartRun, Run, vars, inputVars, counters, rulesVars
<1>2. fn \in Functions
  BY DEF ConverterInv, Typed
<1>3. /\ Blocks' = Blocks /\ Places' = Places /\ Bools' = Bools /\ VarsIn' = VarsIn /\ m_lhs' = m_lhs
      /\ \A p : InstrAt(p)' = InstrAt(p) /\ InBlock(p)' = InBlock(p)
  BY <1>1, SameNames
<1>4. isTrivial' = isTrivial
  BY <1>1, <1>3 DEF isTrivial, Reached
<1>5. \A p, e, t : RunOK(p, e, t)' = RunOK(p, e, t)
  BY <1>1, SameRuns
<1>6. pc' = pc \/ (pc = "ready" /\ pc' = "run")
  BY DEF StartRun, Run, vars
<1>7. Running'
  <2>1. Running
    BY DEF SimulationInv
  <2>2. CASE StartRun
    <3>1. pc = "ready" /\ pc' = "run" /\ env' \in StartStates /\ at' = at /\ bools' = bools
      BY <2>2 DEF StartRun
    <3>2. at = Start /\ bools \in Bools /\ env' \in Envs
      BY <2>1, <3>1, StartStatesType DEF Running
    <3>3. ~InBlock(Start) /\ Start[1] # -3
      BY <1>2, GraphFacts DEF InBlock, Start
    <3>4. RunOK(Start, env', bools)
      BY <3>2, <3>3 DEF RunOK
    <3>5. RunOK(at, env, bools)'
      BY <1>5, <3>1, <3>2, <3>4
    <3> QED
      BY <1>1, <1>3, <1>4, <2>1, <3>1, <3>5 DEF Running
  <2>3. CASE Run
    <3>1. PICK s \in Steps(at, env, bools) : at' = s[1] /\ env' = s[2] /\ bools' = s[3]
      BY <2>3 DEF Run
    <3>2. pc = "run" /\ pc' = "run"
      BY <2>3 DEF Run
    <3>3. RunOK(s[1], s[2], s[3])
      BY <1>2, <2>1, <3>2, StepOK DEF Running
    <3>4. RunOK(at, env, bools)'
      BY <1>5, <3>1, <3>3
    <3> QED
      BY <1>1, <1>3, <1>4, <2>1, <3>2, <3>4 DEF Running
  <2>4. CASE UNCHANGED vars
    <3>1. UNCHANGED <<pc, at, env, bools>>
      BY <2>4 DEF vars, programVars
    <3>2. RunOK(at, env, bools)' = RunOK(at, env, bools)
      BY <1>5, <3>1
    <3> QED
      BY <1>1, <1>3, <1>4, <2>1, <3>1, <3>2 DEF Running
  <2> QED
    BY <2>2, <2>3, <2>4
<1>8. ASSUME ~m_trivial', pc' # "exit"
      PROVE  Translated'
  <2>1. Translated
    BY <1>1, <1>6, <1>8 DEF SimulationInv
  <2>2. pc' = "instructions" <=> pc = "instructions"
    BY <1>6
  <2>3. Numbering'
    BY <1>1, <1>3, <2>1, <2>2 DEF Translated, Numbering, Consecutive
  <2>4. Collected'
    <3> SUFFICES ASSUME pc = "instructions"
                 PROVE  Collected'
      BY <2>2 DEF Collected
    <3>1. \A p : \A n, R : (Covers(p, n, R) => Covers(p, n, R)') /\ (Faithful(p, n, R) => Faithful(p, n, R)')
      BY <1>1, CoversKept
    <3> QED
      BY <1>1, <2>1, <3>1, WholeKept DEF Translated, Collected
  <2>5. Finished'
    <3>1. \A b \in Blocks : SameNumbers(b)
      BY <1>1 DEF SameNumbers
    <3>2. DOMAIN m_idMap \subseteq Places /\ bb \in Nat
      BY DEF ConverterInv, Typed, NumbersApart
    <3> QED
      BY <1>1, <1>2, <2>1, <2>2, <3>1, <3>2, FinishedKept DEF Translated
  <2>6. Returned'
    BY <1>1, <1>3, <1>6, <2>1, <2>2 DEF Translated, Returned, Ends, returnRule, Rule
  <2> QED
    BY <2>3, <2>4, <2>5, <2>6 DEF Translated
<1> QED
  BY <1>7, <1>8 DEF SimulationInv

LEMMA EnterSimulates ==
  ASSUME ConverterInv, SimulationInv, EnterBB
  PROVE  SimulationInv'
<1>1. /\ pc = "phase2" /\ ~m_trivial /\ bb \in Blocks /\ pc' = "instructions" /\ i' = 1 /\ m_blockRules' = <<>>
      /\ m_returns' = IF Ends(bb) THEN Append(m_returns, bb) ELSE m_returns
      /\ m_rules' = IF bb = entry THEN Append(m_rules, startRule) ELSE m_rules
      /\ UNCHANGED <<fn, options, at, env, bools, bb, m_trivial, m_vars, m_counter, m_idMap>>
  BY DEF EnterBB, inputVars, programVars, counters, Ends, startRule, entry
<1>2. /\ fn \in Functions /\ bb \in Nat /\ NumbersApart /\ Translated /\ Blocks \subseteq Nat
      /\ IsSequence(m_rules) /\ IsSequence(m_returns)
  BY <1>1, GraphFacts DEF ConverterInv, Typed, SimulationInv
<1>3. /\ Blocks' = Blocks /\ Places' = Places /\ m_lhs' = m_lhs
      /\ \A p : InstrAt(p)' = InstrAt(p) /\ InBlock(p)' = InBlock(p)
  BY <1>1, SameNames
<1>4. \A p \in DOMAIN m_idMap : p[1] # bb
  BY <1>1, <1>2 DEF NumbersApart
<1>5. \A p \in Places : p[1] \in Nat /\ p[2] \in Nat /\ ~(p[2] < 1)
  <2> SUFFICES ASSUME NEW p \in Places
               PROVE  p[1] \in Nat /\ p[2] \in Nat /\ ~(p[2] < 1)
    OBVIOUS
  <2>1. p[1] \in Blocks /\ p[1] \in Nat /\ p[2] \in DOMAIN fn.code[p[1]] /\ p[2] \in Nat
    BY <1>2, PlaceFacts
  <2>2. DOMAIN fn.code[p[1]] = 1 .. Len(fn.code[p[1]]) /\ Len(fn.code[p[1]]) \in Nat
    BY <1>2, <2>1, CodeLength
  <2> QED
    BY <2>1, <2>2
<1>6. Running'
  <2>1. UNCHANGED <<fn, options, m_vars, at, env, bools, m_trivial>> /\ pc # "run" /\ pc' \notin {"phase1", "run"}
    BY <1>1
  <2> QED
    BY <1>1, <2>1, RunningKept DEF SimulationInv
<1>7. Numbering'
  <2>1. Numbering
    BY <1>2 DEF Translated
  <2> QED
    BY <1>1, <1>2, <1>3, <1>4, <1>5, <2>1 DEF Numbering, Consecutive
<1>8. Collected'
  BY <1>1, <1>4, EmptySequence DEF Collected
<1>9. DOMAIN m_idMap \subseteq Places /\ UNCHANGED <<fn, options, m_vars>> /\ Finished
  BY <1>1, <1>2 DEF Translated, NumbersApart
<1>10. Finished'
  <2>1. CASE bb # entry
    <3>1. UNCHANGED <<fn, options, m_vars, m_rules, bb>> /\ bb > 0
      BY <1>1, <1>2, <2>1 DEF entry
    <3>2. \A b \in Blocks : SameNumbers(b)
      BY <1>1 DEF SameNumbers
    <3> QED
      BY <1>1, <1>2, <1>9, <3>1, <3>2, FinishedKept
  <2>2. CASE bb = entry
    <3>1. bb = 0 /\ bb' = 0
      BY <1>1, <2>2 DEF entry
    <3>2. ToSet(m_rules)' = ToSet(m_rules) \cup {startRule}
      BY <1>1, <1>2, <2>2, AppendSequence
    <3>3. startRule' = startRule
      BY <1>3 DEF startRule, Rule, entry
    <3>4. \A r \in ToSet(m_rules)' : LeftOf(r)'
      <4>1. \A r \in ToSet(m_rules) : LeftOf(r)'
        BY <1>1, <1>2, <1>9, LeftOfKept DEF Finished
      <4>2. LeftOf(startRule)'
        BY <3>3 DEF LeftOf
      <4> QED
        BY <3>2, <3>3, <4>1, <4>2
    <3>5. \A p : ~(InBlock(p)' /\ p[1] < bb')
      BY <1>2, <1>3, <3>1 DEF InBlock
    <3> QED
      BY <3>2, <3>3, <3>4, <3>5 DEF Finished
  <2> QED
    BY <2>1, <2>2
<1>11. Returned'
  <2>1. ToSet(m_returns) = {b \in Blocks : Ends(b) /\ b < bb}
    BY <1>1, <1>2 DEF Translated, Returned
  <2>2. ToSet(m_returns)' = IF Ends(bb) THEN ToSet(m_returns) \cup {bb} ELSE ToSet(m_returns)
    BY <1>1, <1>2, AppendSequence
  <2>3. \A b : Ends(b)' <=> Ends(b)
    BY <1>1 DEF Ends
  <2>4. ToSet(m_returns)' = {b \in Blocks : Ends(b) /\ (b < bb \/ b = bb)}
    BY <1>1, <1>2, <2>1, <2>2
  <2> QED
    BY <1>1, <1>3, <2>3, <2>4 DEF Returned
<1> QED
  BY <1>6, <1>7, <1>8, <1>10, <1>11 DEF SimulationInv, Translated

(* The symbols of different places differ, but for those of one block.       *)
LEMMA SymbolCases ==
  ASSUME fn \in Functions, NEW p, InBlock(p)
  PROVE  \/ p = Terminator(p[1]) /\ SymbolAt(p) = outSymbol(p[1])
         \/ p # Terminator(p[1]) /\ SymbolAt(p) = inSymbol(p[1])
         \/ /\ p # Terminator(p[1])
            /\ \E q \in DOMAIN m_idMap : q[1] = p[1] /\ SymbolAt(p) \in {eval(m_idMap[q]), eval(m_idMap[q] + 1)}
<1>1. PICK b \in Blocks, k \in 0 .. Len(fn.code[p[1]]) + 2 : p[1] = b /\ p[2] = k /\ p = <<b, k>>
  BY DEF InBlock
<1>2. Len(fn.code[b]) \in Nat
  BY CodeLength
<1>3. CASE k = Len(fn.code[b]) + 2
  BY <1>1, <1>3, TerminatorAt DEF Terminator
<1>4. CASE k # Len(fn.code[b]) + 2
  <2>1. p # Terminator(b)
    BY <1>1, <1>4 DEF Terminator
  <2>2. CASE k = 0
    BY <1>1, <2>1, <2>2, SymbolAtEdges
  <2>3. CASE k # 0
    <3>1. k \in 1 .. Len(fn.code[b]) + 1
      BY <1>1, <1>2, <1>4, <2>3
    <3> DEFINE ahead == {j \in numbered(b) : j >= k}
    <3>2. CASE numbered(b) = {}
      BY <1>1, <2>1, <3>1, <3>2, SymbolInside
    <3>3. CASE numbered(b) # {} /\ ahead = {}
      <4>1. SymbolAt(p) = eval(lastID(b) + 1)
        BY <1>1, <3>1, <3>3, SymbolInside
      <4>2. PICK q \in DOMAIN m_idMap : q[1] = b /\ lastID(b) = m_idMap[q]
        BY <3>3, NumberedEnds DEF Ids
      <4> QED
        BY <1>1, <2>1, <4>1, <4>2
    <3>4. CASE numbered(b) # {} /\ ahead # {}
      <4>1. SymbolAt(p) = eval(m_idMap[<<b, Min(ahead)>>])
        BY <1>1, <3>1, <3>4, SymbolInside
      <4>2. ahead \in SUBSET (1 .. Len(fn.code[b])) /\ ahead \subseteq numbered(b)
        BY NumberedAre
      <4> HIDE DEF ahead
      <4>3. Min(ahead) \in numbered(b)
        BY <1>2, <3>4, <4>2, EndsOf
      <4>4. PICK m : m = Min(ahead)
        OBVIOUS
      <4>5. <<b, m>> \in DOMAIN m_idMap /\ <<b, m>>[1] = b
        BY <4>3, <4>4 DEF numbered
      <4> QED
        BY <1>1, <2>1, <4>1, <4>4, <4>5
    <3> QED
      BY <3>2, <3>3, <3>4
  <2> QED
    BY <2>2, <2>3
<1> QED
  BY <1>3, <1>4

LEMMA OnlyTerminator ==
  ASSUME fn \in Functions, NEW p, InBlock(p), NEW b, SymbolAt(p) = outSymbol(b)
  PROVE  p = Terminator(b)
<1>1. \A c : inSymbol(c) # outSymbol(b) /\ eval(c) # outSymbol(b) /\ (outSymbol(c) = outSymbol(b) => c = b)
  BY DEF inSymbol, outSymbol, eval
<1> QED
  BY <1>1, SymbolCases

LEMMA ReturnsSimulates ==
  ASSUME ConverterInv, SimulationInv, AddReturns
  PROVE  SimulationInv'
<1> DEFINE returns == [k \in DOMAIN m_returns |-> returnRule(m_returns[k])]
           N == {returnRule(b) : b \in ToSet(m_returns)}
<1>1. /\ pc = "phase2" /\ ~m_trivial /\ bb \notin Blocks /\ pc' = "ready" /\ m_rules' = m_rules \o returns
      /\ UNCHANGED <<fn, options, at, env, bools, bb, i, m_trivial, m_vars, m_counter, m_idMap, m_blockRules, m_returns>>
  BY DEF AddReturns, inputVars, programVars, counters, returnRule
<1>2. /\ fn \in Functions /\ bb \in Nat /\ NumbersApart /\ Translated /\ Blocks \subseteq Nat
      /\ IsSequence(m_rules) /\ IsSequence(m_returns)
  BY <1>1, GraphFacts DEF ConverterInv, Typed, SimulationInv
<1>3. /\ Blocks' = Blocks /\ Places' = Places /\ m_lhs' = m_lhs
      /\ \A p : InstrAt(p)' = InstrAt(p) /\ InBlock(p)' = InBlock(p)
  BY <1>1, SameNames
<1>4. \A b \in Blocks : b < bb
  BY <1>1, <1>2, GraphFacts
<1>5. ToSet(m_returns) = {b \in Blocks : Ends(b)}
  BY <1>1, <1>2, <1>4 DEF Translated, Returned
<1>6. IsSequence(returns) /\ ToSet(returns) = N
  <2>1. Len(m_returns) \in Nat /\ DOMAIN m_returns = 1 .. Len(m_returns)
    BY <1>2, SequenceFacts
  <2>2. IsSequence(returns)
    BY <2>1, FunctionSequence
  <2> QED
    BY <2>2 DEF ToSet
<1> HIDE DEF returns
<1>7. ToSet(m_rules)' = ToSet(m_rules) \cup N
  BY <1>1, <1>2, <1>6, ConcatSequence
<1>8. \A r \in N : \E b \in Blocks : Ends(b) /\ r = returnRule(b) /\ r.left = outSymbol(b)
  BY <1>5 DEF returnRule, Rule
<1>9. \A b \in Blocks : Ends(b) => returnRule(b) \in N
  BY <1>5
<1> HIDE DEF N
<1>10. /\ \A b : (Ends(b)' <=> Ends(b)) /\ returnRule(b)' = returnRule(b) /\ Terminator(b)' = Terminator(b)
       /\ startRule' = startRule
  BY <1>1, <1>3 DEF Ends, returnRule, Rule, startRule, entry, Terminator
<1>11. Running'
  <2>1. UNCHANGED <<fn, options, m_vars, at, env, bools, m_trivial>> /\ pc # "run" /\ pc' \notin {"phase1", "run"}
    BY <1>1
  <2> QED
    BY <1>1, <2>1, RunningKept DEF SimulationInv
<1>12. Numbering'
  <2>1. Numbering
    BY <1>2 DEF Translated
  <2> QED
    BY <1>1, <1>3, <2>1 DEF Numbering, Consecutive
<1>13. Collected'
  BY <1>1 DEF Collected
<1>14. Finished'
  <2>1. Finished /\ DOMAIN m_idMap \subseteq Places
    BY <1>2 DEF Translated, NumbersApart
  <2>2. PICK R : R = ToSet(m_rules)
    OBVIOUS
  <2>3. PICK Q : Q = R \cup N
    OBVIOUS
  <2>4. Q = ToSet(m_rules)'
    BY <1>7, <2>2, <2>3
  <2>5. \A r \in R : LeftOf(r)'
    BY <1>1, <1>2, <2>1, <2>2, LeftOfKept DEF Finished
  <2>6. ASSUME NEW r \in N
        PROVE  LeftOf(r)'
    <3>1. PICK b \in Blocks : Ends(b) /\ r = returnRule(b) /\ r.left = outSymbol(b)
      BY <1>8
    <3>2. b \in Blocks' /\ b < bb' /\ r = returnRule(b)'
      BY <1>1, <1>3, <1>4, <1>10, <3>1
    <3> QED
      BY <3>1, <3>2 DEF LeftOf
  <2>7. ASSUME NEW p, InBlock(p), p[1] < bb, ~(p = Terminator(p[1]) /\ Ends(p[1]))
        PROVE  (WholeStores => SimulatedFrom(p, Q)') /\ ExactFrom(p, Q)'
    <3>1. (WholeStores => SimulatedFrom(p, R)) /\ ExactFrom(p, R)
      BY <2>1, <2>2, <2>7 DEF Finished
    <3>2. SameNumbers(p[1])
      BY <1>1 DEF SameNumbers
    <3>3. ASSUME NEW r \in Q, r.left = SymbolAt(p)
          PROVE  r \in R
      <4> SUFFICES ASSUME r \in N
                   PROVE  FALSE
        BY <2>3
      <4>1. PICK b \in Blocks : Ends(b) /\ r.left = outSymbol(b)
        BY <1>8
      <4>2. p = Terminator(b)
        BY <1>2, <2>7, <3>3, <4>1, OnlyTerminator
      <4>3. p[1] = b
        BY <4>2 DEF Terminator
      <4> QED
        BY <2>7, <4>1, <4>2, <4>3
    <3>4. R \subseteq Q
      BY <2>3
    <3>5. UNCHANGED <<fn, options, m_vars>>
      BY <1>1
    <3> QED
      BY <1>2, <2>7, <3>1, <3>2, <3>3, <3>4, <3>5, TranslatedKept
  <2>8. startRule' \in Q
    <3>1. bb > 0
      BY <1>2, <1>4, GraphFacts
    <3> QED
      BY <1>10, <2>1, <2>2, <2>3, <3>1 DEF Finished
  <2>9. \A r \in Q : LeftOf(r)'
    BY <2>3, <2>5, <2>6
  <2> QED
    BY <1>1, <1>3, <1>10, <2>4, <2>7, <2>8, <2>9, WholeKept DEF Finished
<1>15. Returned'
  <2>1. \A b \in Blocks : Ends(b) => returnRule(b)' \in ToSet(m_rules)'
    BY <1>7, <1>9, <1>10
  <2> QED
    BY <1>1, <1>3, <1>4, <1>5, <1>10, <2>1 DEF Returned
<1> QED
  BY <1>11, <1>12, <1>13, <1>14, <1>15 DEF SimulationInv, Translated

(* The symbols of block b.                                                  *)
OfBlock(b, s) ==
  \/ s = inSymbol(b) \/ s = outSymbol(b)
  \/ \E p \in DOMAIN m_idMap : p[1] = b /\ s \in {eval(m_idMap[p]), eval(m_idMap[p] + 1)}

LEMMA OfOneBlock ==
  ASSUME ConverterInv, NEW b, NEW c, NEW s, OfBlock(b, s), OfBlock(c, s)
  PROVE  b = c /\ s # startSymbol(m_function)
<1>1. \A x, y, n : /\ inSymbol(x) # outSymbol(y) /\ inSymbol(x) # eval(n) /\ outSymbol(x) # eval(n)
                   /\ (inSymbol(x) = inSymbol(y) => x = y) /\ (outSymbol(x) = outSymbol(y) => x = y)
                   /\ (eval(x) = eval(y) => x = y)
                   /\ startSymbol(x) # inSymbol(y) /\ startSymbol(x) # outSymbol(y) /\ startSymbol(x) # eval(y)
  BY DEF inSymbol, outSymbol, eval, startSymbol
<1>2. s # startSymbol(m_function)
  BY <1>1 DEF OfBlock
<1>3. CASE s = inSymbol(b) \/ s = outSymbol(b)
  BY <1>1, <1>2, <1>3 DEF OfBlock
<1>4. CASE ~(s = inSymbol(b) \/ s = outSymbol(b))
  <2>1. PICK p \in DOMAIN m_idMap : p[1] = b /\ s \in {eval(m_idMap[p]), eval(m_idMap[p] + 1)}
    BY <1>4 DEF OfBlock
  <2>2. PICK q \in DOMAIN m_idMap : q[1] = c /\ s \in {eval(m_idMap[q]), eval(m_idMap[q] + 1)}
    BY <1>1, <2>1 DEF OfBlock
  <2>3. m_idMap[p] \in Nat /\ m_idMap[q] \in Nat
    BY DEF ConverterInv, NumbersApart
  <2>4. PICK n \in Nat : n \in {m_idMap[p], m_idMap[p] + 1} /\ s = eval(n)
    BY <2>1, <2>3
  <2>5. n \in {m_idMap[q], m_idMap[q] + 1}
    BY <1>1, <2>2, <2>4
  <2> QED
    BY <1>2, <2>1, <2>2, <2>4, <2>5, EvalsApart
<1> QED
  BY <1>3, <1>4

LEMMA LeftOfBlock ==
  ASSUME fn \in Functions, bb \in Nat, DOMAIN m_idMap \subseteq Places, NEW r, LeftOf(r)
  PROVE  r.left = startSymbol(m_function) \/ \E b \in Blocks : b < bb /\ OfBlock(b, r.left)
<1>1. startRule.left = startSymbol(m_function)
  BY DEF startRule, Rule
<1>2. \A p \in DOMAIN m_idMap : p[1] \in Blocks
  BY PlaceFacts
<1> QED
  BY <1>1, <1>2 DEF LeftOf, OfBlock

(* The last number of a block is the greatest.                               *)
LEMMA LastNumber ==
  ASSUME fn \in Functions, DOMAIN m_idMap \subseteq Places, \A p \in DOMAIN m_idMap : m_idMap[p] \in Nat,
         \A p, q \in DOMAIN m_idMap : p[1] = q[1] /\ p[2] < q[2] => m_idMap[p] < m_idMap[q],
         NEW b \in Blocks, numbered(b) # {}
  PROVE  /\ \E q \in DOMAIN m_idMap : q[1] = b /\ lastID(b) = m_idMap[q]
         /\ lastID(b) \in Nat /\ \A p \in DOMAIN m_idMap : p[1] = b => m_idMap[p] # lastID(b) + 1
<1>1. PICK m : m = Max(numbered(b))
  OBVIOUS
<1>2. m \in numbered(b) /\ \A w \in numbered(b) : w =< m
  BY <1>1, NumberedAre, EndsOf
<1>3. <<b, m>> \in DOMAIN m_idMap /\ lastID(b) = m_idMap[<<b, m>>]
  BY <1>1, <1>2 DEF numbered, lastID
<1>4. PICK q : q = <<b, m>>
  OBVIOUS
<1>5. q \in DOMAIN m_idMap /\ q[1] = b /\ q[2] = m /\ lastID(b) = m_idMap[q]
  BY <1>3, <1>4
<1>6. ASSUME NEW p \in DOMAIN m_idMap, p[1] = b
      PROVE  m_idMap[p] # lastID(b) + 1
  <2>1. p = <<b, p[2]>> /\ p[2] \in DOMAIN fn.code[b] /\ p[2] \in Nat
    BY <1>6, PlaceFacts
  <2>2. p[2] \in numbered(b)
    BY <2>1 DEF numbered
  <2>3. p[2] =< m /\ m \in Nat
    BY <1>2, <2>2, <1>5, PlaceFacts
  <2>4. CASE p[2] = m
    <3>1. p = q
      BY <1>4, <2>1, <2>4
    <3> QED
      BY <1>5, <3>1
  <2>5. CASE p[2] < m
    BY <1>5, <1>6, <2>5
  <2> QED
    BY <2>1, <2>3, <2>4, <2>5
<1> QED
  BY <1>5, <1>6

(* What block bb adds.                                                      *)
blockAdds == {firstRule(bb)} \cup ToSet(m_blockRules) \cup ToSet(lastRules(bb)) \cup ToSet(terminatorRules)

LEMMA LeaveRules ==
  ASSUME ConverterInv, SimulationInv, LeaveBB
  PROVE  /\ fn \in Functions /\ bb \in Nat /\ bb \in Blocks /\ i \in Nat /\ m_nondef \in Nat /\ pc = "instructions"
         /\ ~m_trivial /\ VarsIn /\ IsSequence(m_vars) /\ Translated /\ NumbersApart /\ here \notin Places
         /\ pc' = "phase2" /\ bb' = bb + 1 /\ ToSet(m_rules)' = ToSet(m_rules) \cup blockAdds
         /\ UNCHANGED <<fn, options, at, env, bools, i, m_trivial, m_vars, m_idMap, m_returns>>
<1>1. /\ pc = "instructions" /\ pc' = "phase2" /\ bb' = bb + 1 /\ here \notin Places
      /\ m_rules' = m_rules \o <<firstRule(bb)>> \o m_blockRules \o lastRules(bb) \o terminatorRules
      /\ UNCHANGED <<fn, options, at, env, bools, i, m_trivial, m_vars, m_idMap, m_returns>>
  BY DEF LeaveBB, inputVars, programVars, firstRule, lastRules
<1>2. /\ fn \in Functions /\ bb \in Nat /\ bb \in Blocks /\ i \in Nat /\ m_nondef \in Nat
      /\ IsSequence(m_rules) /\ IsSequence(m_blockRules) /\ IsSequence(m_vars) /\ NumbersApart
  BY <1>1 DEF ConverterInv, Typed, VarsOnce
<1>3. ~m_trivial /\ VarsIn /\ Translated
  BY <1>1 DEF SimulationInv, Running
<1>4. PICK first : first = <<firstRule(bb)>>
  OBVIOUS
<1>5. PICK last : last = lastRules(bb)
  OBVIOUS
<1>6. PICK terminator : terminator = terminatorRules
  OBVIOUS
<1>7. IsSequence(first) /\ ToSet(first) = {firstRule(bb)}
  BY <1>4, SingletonSequence
<1>8. IsSequence(last)
  BY <1>5, EmptySequence, SingletonSequence DEF lastRules
<1>9. IsSequence(terminator)
  BY <1>2, <1>6, TerminatorFacts
<1>10. PICK s : s = m_rules \o first
  OBVIOUS
<1>11. IsSequence(s) /\ ToSet(s) = ToSet(m_rules) \cup ToSet(first)
  BY <1>2, <1>7, <1>10, ConcatSequence
<1>12. PICK t : t = s \o m_blockRules
  OBVIOUS
<1>13. IsSequence(t) /\ ToSet(t) = ToSet(s) \cup ToSet(m_blockRules)
  BY <1>2, <1>11, <1>12, ConcatSequence
<1>14. PICK u : u = t \o last
  OBVIOUS
<1>15. IsSequence(u) /\ ToSet(u) = ToSet(t) \cup ToSet(last)
  BY <1>8, <1>13, <1>14, ConcatSequence
<1>16. ToSet(u \o terminator) = ToSet(u) \cup ToSet(terminator)
  BY <1>9, <1>15, ConcatSequence
<1>17. m_rules' = u \o terminator
  BY <1>1, <1>4, <1>5, <1>6, <1>10, <1>12, <1>14
<1>18. ToSet(m_rules)' = ToSet(m_rules) \cup blockAdds
  BY <1>5, <1>6, <1>7, <1>11, <1>13, <1>15, <1>16, <1>17 DEF blockAdds
<1> QED
  BY <1>1, <1>2, <1>3, <1>18

LEMMA AddsLeft ==
  ASSUME ConverterInv, Translated, fn \in Functions, pc = "instructions", bb \in Blocks, m_nondef \in Nat, NEW r \in blockAdds
  PROVE  /\ OfBlock(bb, r.left)
         /\ r.left = inSymbol(bb) => r = firstRule(bb)
         /\ r.left = outSymbol(bb) => r \in ToSet(terminatorRules)
         /\ \A p \in DOMAIN m_idMap : p[1] = bb /\ r.left = eval(m_idMap[p]) => r \in ToSet(m_blockRules)
         /\ numbered(bb) # {} /\ r.left = eval(lastID(bb) + 1) => r \in ToSet(lastRules(bb))
<1>1. \A x, y, n : /\ inSymbol(x) # outSymbol(y) /\ inSymbol(x) # eval(n) /\ outSymbol(x) # eval(n)
                   /\ (eval(x) = eval(y) => x = y)
  BY DEF inSymbol, outSymbol, eval
<1>2. /\ DOMAIN m_idMap \subseteq Places /\ \A p \in DOMAIN m_idMap : m_idMap[p] \in Nat
      /\ \A p, q \in DOMAIN m_idMap : p[1] = q[1] /\ p[2] < q[2] => m_idMap[p] < m_idMap[q]
  BY DEF ConverterInv, NumbersApart, Translated, Numbering
<1>3. numbered(bb) # {} =>
        /\ \E q \in DOMAIN m_idMap : q[1] = bb /\ lastID(bb) = m_idMap[q]
        /\ \A p \in DOMAIN m_idMap : p[1] = bb => m_idMap[p] # lastID(bb) + 1
  BY <1>2, LastNumber
<1>4. CASE r = firstRule(bb)
  <2>1. r.left = inSymbol(bb)
    BY <1>4 DEF firstRule, Rule
  <2> QED
    BY <1>1, <1>4, <2>1 DEF OfBlock
<1>5. CASE r \in ToSet(m_blockRules)
  <2>1. PICK p \in DOMAIN m_idMap : p[1] = bb /\ r.left = eval(m_idMap[p])
    BY <1>5 DEF Translated, Collected
  <2>2. OfBlock(bb, r.left)
    BY <2>1 DEF OfBlock
  <2> QED
    BY <1>1, <1>3, <1>5, <2>1, <2>2
<1>6. CASE r \in ToSet(lastRules(bb))
  <2>1. numbered(bb) # {} /\ r.left = eval(lastID(bb) + 1)
    <3>1. numbered(bb) # {}
      BY <1>6, EmptySequence DEF lastRules
    <3>2. ToSet(lastRules(bb)) = {Rule(eval(lastID(bb) + 1), outSymbol(bb), m_lhs, {})}
      BY <3>1, SingletonSequence DEF lastRules
    <3> QED
      BY <1>6, <3>1, <3>2 DEF Rule
  <2>2. OfBlock(bb, r.left)
    BY <1>3, <2>1 DEF OfBlock
  <2> QED
    BY <1>1, <1>3, <1>6, <2>1, <2>2
<1>7. CASE r \in ToSet(terminatorRules)
  <2>1. r.left = outSymbol(bb)
    BY <1>7, TerminatorFacts
  <2> QED
    BY <1>1, <1>7, <2>1 DEF OfBlock
<1> QED
  BY <1>4, <1>5, <1>6, <1>7 DEF blockAdds

(* Block bb is translated when it is left.                                  *)
LEMMA BlockTranslated ==
  ASSUME ConverterInv, SimulationInv, LeaveBB, NEW p, InBlock(p), p[1] = bb, ~(p = Terminator(bb) /\ Ends(bb)),
         NEW Q, Q = ToSet(m_rules) \cup blockAdds
  PROVE  (WholeStores => SimulatedFrom(p, Q)) /\ ExactFrom(p, Q)
<1>1. /\ fn \in Functions /\ bb \in Nat /\ bb \in Blocks /\ i \in Nat /\ m_nondef \in Nat /\ pc = "instructions"
      /\ VarsIn /\ IsSequence(m_vars) /\ Translated /\ NumbersApart /\ here \notin Places
  BY LeaveRules
<1>2. DOMAIN m_idMap \subseteq Places /\ Consecutive
  BY <1>1 DEF NumbersApart, Translated, Numbering
<1>3. /\ firstRule(bb) \in Q /\ ToSet(m_blockRules) \subseteq Q
      /\ ToSet(lastRules(bb)) \subseteq Q /\ ToSet(terminatorRules) \subseteq Q
  BY DEF blockAdds
<1>4. ASSUME NEW r \in Q, NEW s, OfBlock(bb, s), r.left = s
      PROVE  r \in blockAdds
  <2> SUFFICES ASSUME r \in ToSet(m_rules)
               PROVE  FALSE
    OBVIOUS
  <2>1. LeftOf(r)
    BY <1>1 DEF Translated, Finished
  <2>2. r.left = startSymbol(m_function) \/ \E b \in Blocks : b < bb /\ OfBlock(b, r.left)
    BY <1>1, <1>2, <2>1, LeftOfBlock
  <2>3. r.left # startSymbol(m_function)
    BY <1>4, OfOneBlock
  <2>4. PICK b \in Blocks : b < bb /\ OfBlock(b, r.left)
    BY <2>2, <2>3
  <2>5. b = bb
    BY <1>4, <2>4, OfOneBlock
  <2> QED
    BY <1>1, <2>4, <2>5
<1>5. OfBlock(bb, inSymbol(bb)) /\ OfBlock(bb, outSymbol(bb))
  BY DEF OfBlock
<1>6. \A q \in DOMAIN m_idMap : q[1] = bb => OfBlock(bb, eval(m_idMap[q])) /\ OfBlock(bb, eval(m_idMap[q] + 1))
  BY DEF OfBlock
<1>7. CASE p = Terminator(bb)
  <2>1. ~Ends(bb)
    BY <1>7
  <2>2. \A o \in Q : o.left = outSymbol(bb) => o \in ToSet(terminatorRules)
    BY <1>1, <1>4, <1>5, AddsLeft
  <2> QED
    BY <1>1, <1>3, <1>7, <2>1, <2>2, TerminatorSimulated
<1>8. CASE p # Terminator(bb)
  <2>1. p[2] # Len(fn.code[bb]) + 2
    BY <1>8 DEF InBlock, Terminator
  <2>2. Numbers(bb)
    <3> SUFFICES ASSUME NEW q \in Places, q[1] = bb
                 PROVE  q \in DOMAIN m_idMap <=> InstrAt(q).op \notin {"icmp", "fcmp"}
      BY DEF Numbers
    <3>1. q[2] \in DOMAIN fn.code[bb] /\ q[2] \in Nat
      BY <1>1, PlaceFacts
    <3>2. i \notin DOMAIN fn.code[bb]
      BY <1>1 DEF here, Places
    <3>3. i > 0 /\ DOMAIN fn.code[bb] = 1 .. Len(fn.code[bb]) /\ Len(fn.code[bb]) \in Nat
      BY <1>1, CodeLength DEF Translated, Numbering
    <3>4. q[2] < i
      BY <1>1, <3>1, <3>2, <3>3
    <3> QED
      BY <1>1, <3>4 DEF Translated, Numbering
  <2>3. \A o \in Q : o.left = inSymbol(bb) => o = firstRule(bb)
    BY <1>1, <1>4, <1>5, AddsLeft
  <2>4. ASSUME NEW o \in Q, numbered(bb) # {}, o.left = eval(lastID(bb) + 1)
        PROVE  o \in ToSet(lastRules(bb))
    <3>1. PICK q \in DOMAIN m_idMap : q[1] = bb /\ lastID(bb) = m_idMap[q]
      BY <1>1, <2>4, NumberedEnds DEF Ids
    <3>2. OfBlock(bb, eval(lastID(bb) + 1))
      BY <1>6, <3>1
    <3>3. o \in blockAdds
      BY <1>4, <2>4, <3>2
    <3> QED
      BY <1>1, <2>4, <3>3, AddsLeft
  <2>5. ASSUME NEW q \in DOMAIN m_idMap, q[1] = bb
        PROVE  (WholeStores => Covers(q, m_idMap[q], Q)) /\ Faithful(q, m_idMap[q], Q)
    <3>1. PICK R : R = ToSet(m_blockRules)
      OBVIOUS
    <3>2. PICK n : n = m_idMap[q]
      OBVIOUS
    <3>3. (WholeStores => Covers(q, n, R)) /\ Faithful(q, n, R)
      BY <1>1, <2>5, <3>1, <3>2 DEF Translated, Collected
    <3>4. \A r \in Q : r.left = eval(n) => r \in R
      <4> SUFFICES ASSUME NEW r \in Q, r.left = eval(n)
                   PROVE  r \in R
        OBVIOUS
      <4>1. r \in blockAdds
        BY <1>4, <1>6, <2>5, <3>2
      <4> QED
        BY <1>1, <2>5, <3>1, <3>2, <4>1, AddsLeft
    <3> QED
      BY <1>3, <3>1, <3>2, <3>3, <3>4, MoreRules
  <2>6. PICK b \in Blocks : b = bb
    BY <1>1
  <2>7. /\ WholeStores => SimulatedFrom(p, Q)
        /\ ExactFrom(p, Q)
    BY <1>1, <1>2, <1>3, <2>1, <2>2, <2>3, <2>4, <2>5, <2>6, BlockInside
  <2> QED
    BY <2>7
<1> QED
  BY <1>7, <1>8

LEMMA LeaveSimulates ==
  ASSUME ConverterInv, SimulationInv, LeaveBB
  PROVE  SimulationInv'
<1>1. /\ fn \in Functions /\ bb \in Nat /\ bb \in Blocks /\ i \in Nat /\ m_nondef \in Nat /\ pc = "instructions"
      /\ ~m_trivial /\ Translated /\ NumbersApart /\ here \notin Places
      /\ pc' = "phase2" /\ bb' = bb + 1 /\ ToSet(m_rules)' = ToSet(m_rules) \cup blockAdds
      /\ UNCHANGED <<fn, options, at, env, bools, i, m_trivial, m_vars, m_idMap, m_returns>>
  BY LeaveRules
<1>2. /\ Blocks' = Blocks /\ Places' = Places /\ m_lhs' = m_lhs /\ Blocks \subseteq Nat
      /\ \A p : InstrAt(p)' = InstrAt(p) /\ InBlock(p)' = InBlock(p)
  BY <1>1, SameNames, GraphFacts
<1>3. /\ \A b : (Ends(b)' <=> Ends(b)) /\ returnRule(b)' = returnRule(b) /\ Terminator(b)' = Terminator(b)
      /\ startRule' = startRule
  BY <1>1, <1>2 DEF Ends, returnRule, Rule, startRule, entry, Terminator
<1>4. Running'
  <2>1. UNCHANGED <<fn, options, m_vars, at, env, bools, m_trivial>> /\ pc # "run" /\ pc' \notin {"phase1", "run"}
    BY <1>1
  <2> QED
    BY <1>1, <2>1, RunningKept DEF SimulationInv
<1>5. Numbering'
  <2>1. Numbering
    BY <1>1 DEF Translated
  <2>2. ASSUME NEW p \in Places, InstrAt(p).op \notin {"icmp", "fcmp"}, p[1] < bb + 1
        PROVE  p \in DOMAIN m_idMap
    <3>1. p[1] \in Nat /\ p[2] \in DOMAIN fn.code[p[1]] /\ p[2] \in Nat
      BY <1>1, PlaceFacts
    <3>2. CASE p[1] < bb
      BY <2>1, <2>2, <3>2 DEF Numbering
    <3>3. CASE p[1] = bb
      <4>1. i \notin DOMAIN fn.code[bb]
        BY <1>1 DEF here, Places
      <4>2. i > 0 /\ DOMAIN fn.code[bb] = 1 .. Len(fn.code[bb]) /\ Len(fn.code[bb]) \in Nat
        BY <1>1, <2>1, CodeLength DEF Numbering
      <4>3. p[2] < i
        BY <1>1, <3>1, <3>3, <4>1, <4>2
      <4> QED
        BY <1>1, <2>1, <2>2, <3>3, <4>3 DEF Numbering
    <3> QED
      BY <1>1, <2>2, <3>1, <3>2, <3>3
  <2> QED
    BY <1>1, <1>2, <2>1, <2>2 DEF Numbering, Consecutive
<1>6. Collected'
  BY <1>1 DEF Collected
<1>7. PICK R : R = ToSet(m_rules)
  OBVIOUS
<1>8. PICK Q : Q = R \cup blockAdds
  OBVIOUS
<1>9. Finished /\ DOMAIN m_idMap \subseteq Places
  BY <1>1 DEF Translated, NumbersApart
<1>10. ASSUME NEW r \in R
       PROVE  LeftOf(r)'
  <2>1. LeftOf(r)
    BY <1>7, <1>9 DEF Finished
  <2>2. UNCHANGED <<fn, m_vars>> /\ bb' \in Nat /\ bb <= bb' /\ m_idMap' = m_idMap
    BY <1>1
  <2> QED
    BY <1>1, <1>9, <2>1, <2>2, LeftOfKept
<1>11. ASSUME NEW r \in blockAdds
       PROVE  LeftOf(r)'
  <2>1. OfBlock(bb, r.left) /\ (r.left = outSymbol(bb) => r \in ToSet(terminatorRules))
    BY <1>1, AddsLeft
  <2>2. bb \in Blocks' /\ bb < bb'
    BY <1>1, <1>2
  <2>3. PICK b : b = bb
    OBVIOUS
  <2>4. CASE r.left = inSymbol(bb)
    BY <2>2, <2>3, <2>4 DEF LeftOf
  <2>5. CASE r.left = outSymbol(bb)
    <3>1. ~Ends(bb)
      BY <1>1, <2>1, <2>5, TerminatorRulesAre
    <3>2. ~Ends(b)'
      BY <1>3, <2>3, <3>1
    <3> QED
      BY <2>2, <2>3, <2>5, <3>2 DEF LeftOf
  <2>6. CASE r.left # inSymbol(bb) /\ r.left # outSymbol(bb)
    <3>1. PICK p \in DOMAIN m_idMap : p[1] = bb /\ r.left \in {eval(m_idMap[p]), eval(m_idMap[p] + 1)}
      BY <2>1, <2>6 DEF OfBlock
    <3>2. p \in DOMAIN m_idMap' /\ p[1] < bb' /\ m_idMap'[p] = m_idMap[p]
      BY <1>1, <2>2, <3>1
    <3> QED
      BY <3>1, <3>2 DEF LeftOf
  <2> QED
    BY <2>4, <2>5, <2>6
<1>12. ASSUME NEW p, InBlock(p), p[1] < bb + 1, ~(p = Terminator(p[1]) /\ Ends(p[1]))
       PROVE  (WholeStores => SimulatedFrom(p, Q)') /\ ExactFrom(p, Q)'
  <2>1. SameNumbers(p[1]) /\ UNCHANGED <<fn, options, m_vars>>
    BY <1>1 DEF SameNumbers
  <2>2. p[1] \in Blocks /\ p[1] \in Nat
    BY <1>2, <1>12 DEF InBlock
  <2>3. CASE p[1] < bb
    <3>1. (WholeStores => SimulatedFrom(p, R)) /\ ExactFrom(p, R)
      BY <1>7, <1>9, <1>12, <2>3 DEF Finished
    <3>2. R \subseteq Q
      BY <1>8
    <3>3. ASSUME NEW r \in Q, r.left = SymbolAt(p)
          PROVE  r \in R
      <4> SUFFICES ASSUME r \in blockAdds
                   PROVE  FALSE
        BY <1>8
      <4>1. OfBlock(bb, r.left)
        BY <1>1, AddsLeft
      <4>2. PICK b : b = p[1]
        OBVIOUS
      <4>3. OfBlock(b, r.left)
        BY <1>1, <1>12, <3>3, <4>2, SymbolCases DEF OfBlock
      <4>4. b = bb
        BY <4>1, <4>3, OfOneBlock
      <4> QED
        BY <1>1, <2>3, <4>2, <4>4
    <3> QED
      BY <1>1, <1>12, <2>1, <3>1, <3>2, <3>3, TranslatedKept
  <2>4. CASE p[1] = bb
    <3>1. (WholeStores => SimulatedFrom(p, Q)) /\ ExactFrom(p, Q)
      BY <1>7, <1>8, <1>12, <2>4, BlockTranslated
    <3>2. Q \subseteq Q /\ \A r \in Q : r.left = SymbolAt(p) => r \in Q
      OBVIOUS
    <3> QED
      BY <1>1, <1>12, <2>1, <3>1, <3>2, TranslatedKept
  <2> QED
    BY <1>1, <1>12, <2>2, <2>3, <2>4
<1>13. Finished'
  <2>1. Q = ToSet(m_rules)'
    BY <1>1, <1>7, <1>8
  <2>2. \A r \in Q : LeftOf(r)'
    BY <1>8, <1>10, <1>11
  <2>3. startRule' \in Q
    BY <1>1, <1>3, <1>7, <1>8, <1>9 DEF Finished
  <2> QED
    BY <1>1, <1>2, <1>3, <1>12, <2>1, <2>2, <2>3, WholeKept DEF Finished
<1>14. Returned'
  <2>1. ToSet(m_returns) = {b \in Blocks : Ends(b) /\ (b < bb \/ b = bb)}
    BY <1>1 DEF Translated, Returned
  <2>2. \A b \in Blocks : b < bb \/ b = bb <=> b < bb + 1
    BY <1>1, <1>2
  <2>3. ToSet(m_returns)' = ToSet(m_returns)
    BY <1>1
  <2> QED
    BY <1>1, <1>2, <1>3, <2>1, <2>2, <2>3 DEF Returned
<1> QED
  BY <1>4, <1>5, <1>6, <1>13, <1>14 DEF SimulationInv, Translated

LEMMA NextSimulates == ConverterInv /\ SimulationInv /\ [Next]_vars => SimulationInv'
<1> SUFFICES ASSUME ConverterInv, SimulationInv, [Next]_vars
             PROVE  SimulationInv'
  OBVIOUS
<1>1. CASE phase1
  BY <1>1, Phase1Simulates
<1>2. CASE phase2Trivial
  BY <1>2, TrivialSimulates
<1>3. CASE EnterBB
  BY <1>3, EnterSimulates
<1>4. CASE LeaveBB
  BY <1>4, LeaveSimulates
<1>5. CASE AddReturns
  BY <1>5, ReturnsSimulates
<1>6. CASE visitCmpInst
  BY <1>6, CmpSimulates
<1>7. CASE visitArithmetic \/ visitInstruction \/ visitAssume
  BY <1>7, PlainSimulates
<1>8. CASE visitSelectInst
  BY <1>8, SelectSimulates
<1>9. CASE visitZExtInst
  BY <1>9, ZExtSimulates
<1>10. CASE visitLoadInst
  BY <1>10, LoadSimulates
<1>11. CASE visitStoreInst
  BY <1>11, StoreSimulates
<1>12. CASE visitCallInst
  BY <1>12, CallSimulates
<1>13. CASE StartRun \/ Run \/ UNCHANGED vars
  BY <1>13, RunSimulates
<1> QED
  BY <1>1, <1>2, <1>3, <1>4, <1>5, <1>6, <1>7, <1>8, <1>9, <1>10, <1>11, <1>12, <1>13 DEF Next

LEMMA SimulationAlways == Spec => [](ConverterInv /\ SimulationInv)
BY InitInv, InitSimulates, NextInv, NextSimulates, PTL DEF Spec

-----------------------------------------------------------------------------
(* A run of the function.                                                   *)

LEMMA RunFromStart ==
  ASSUME ConverterInv, SimulationInv, pc = "run", ~m_trivial, NEW Q, Q = ToSet(m_rules)
  PROVE  SimulatedFrom(Start, Q) /\ ExactFrom(Start, Q)
<1>1. /\ fn \in Functions /\ IsSequence(m_vars) /\ bb \in Nat /\ DOMAIN m_idMap \subseteq Places
      /\ Finished /\ Returned
  BY DEF ConverterInv, Typed, VarsOnce, NumbersApart, SimulationInv, Translated
<1>2. entry \in Blocks /\ bb > 0
  BY <1>1, GraphFacts DEF Returned, entry
<1>3. PICK q : q = <<entry, 0>>
  OBVIOUS
<1>4. SymbolAt(Start) = startSymbol(m_function) /\ SymbolAt(q) = inSymbol(entry)
  BY <1>1, <1>2, <1>3, SymbolAtEdges
<1>5. PICK cond : cond = {}
  OBVIOUS
<1>6. startRule = Rule(SymbolAt(Start), SymbolAt(q), m_lhs, cond)
  BY <1>4, <1>5 DEF startRule
<1>7. \A e, t : Steps(Start, e, t) = {<<q, e, t>>}
  <2>1. Start[1] < 0 /\ ~(Start[1] >= 0)
    BY DEF Start
  <2>2. Start \notin Places
    BY <1>1, <2>1, PlaceFacts
  <2> QED
    BY <1>3, <2>1, <2>2 DEF Steps
<1>8. \A e : AtomsHold(cond, e)
  BY <1>5, NoAtoms
<1>9. q[1] # -3 /\ SymbolAt(Start) # SymbolAt(q)
  BY <1>3, <1>4 DEF entry, startSymbol, inSymbol
<1>10. startRule \in Q
  BY <1>1, <1>2 DEF Finished
<1>11. \A o \in Q : o.left = SymbolAt(Start) => o = startRule
  <2> SUFFICES ASSUME NEW o \in Q, o.left = startSymbol(m_function)
               PROVE  o = startRule
    BY <1>4
  <2>1. LeftOf(o)
    BY <1>1 DEF Finished
  <2>2. \A x : /\ startSymbol(m_function) # inSymbol(x) /\ startSymbol(m_function) # outSymbol(x)
               /\ startSymbol(m_function) # eval(x)
    BY DEF startSymbol, inSymbol, outSymbol, eval
  <2> QED
    BY <2>1, <2>2 DEF LeftOf
<1>12. PICK p : p = Start
  OBVIOUS
<1> QED
  BY <1>1, <1>6, <1>7, <1>8, <1>9, <1>10, <1>11, <1>12, PlainRule

LEMMA RunAtReturn ==
  ASSUME ConverterInv, SimulationInv, pc = "run", ~m_trivial, NEW Q, Q = ToSet(m_rules), NEW b \in Blocks, Ends(b)
  PROVE  SimulatedFrom(Terminator(b), Q) /\ ExactFrom(Terminator(b), Q)
<1>1. /\ fn \in Functions /\ IsSequence(m_vars) /\ Finished /\ Returned
  BY DEF ConverterInv, Typed, VarsOnce, SimulationInv, Translated
<1>2. returnRule(b) \in Q
  BY <1>1 DEF Returned
<1>3. \A o \in Q : o.left = outSymbol(b) => o = returnRule(b)
  <2> SUFFICES ASSUME NEW o \in Q, o.left = outSymbol(b)
               PROVE  o = returnRule(b)
    OBVIOUS
  <2>1. LeftOf(o)
    BY <1>1 DEF Finished
  <2>2. \A x : /\ outSymbol(b) # inSymbol(x) /\ outSymbol(b) # eval(x) /\ (outSymbol(b) = outSymbol(x) => b = x)
    BY DEF inSymbol, outSymbol, eval
  <2>3. startRule.left # outSymbol(b)
    BY DEF startRule, Rule, startSymbol, outSymbol
  <2> QED
    BY <2>1, <2>2, <2>3 DEF LeftOf
<1> QED
  BY <1>1, <1>2, <1>3, StopSimulated DEF Ends

(* Wherever the function is, its next steps are steps of the rules.          *)
LEMMA RunSimulated ==
  ASSUME ConverterInv, SimulationInv, pc = "run", ~m_trivial, NEW Q, Q = ToSet(m_rules)
  PROVE  (WholeStores => SimulatedFrom(at, Q)) /\ ExactFrom(at, Q)
<1>1. /\ fn \in Functions /\ Finished /\ Returned /\ RunOK(at, env, bools)
  BY DEF ConverterInv, Typed, SimulationInv, Translated, Running
<1>2. PICK p : p = at
  OBVIOUS
<1>3. p = Start \/ InBlock(p) \/ p = Stop \/ p[1] = -3
  BY <1>1, <1>2 DEF RunOK
<1>4. CASE p = Start
  BY <1>2, <1>4, RunFromStart
<1>5. CASE InBlock(p)
  <2>1. p[1] \in Blocks /\ p[1] < bb
    BY <1>1, <1>5 DEF InBlock, Returned
  <2>2. CASE p = Terminator(p[1]) /\ Ends(p[1])
    <3>1. PICK b \in Blocks : b = p[1]
      BY <2>1
    <3> QED
      BY <1>2, <2>2, <3>1, RunAtReturn
  <2>3. CASE ~(p = Terminator(p[1]) /\ Ends(p[1]))
    BY <1>1, <1>2, <1>5, <2>1, <2>3 DEF Finished
  <2> QED
    BY <2>2, <2>3
<1>6. CASE p # Start /\ (p = Stop \/ p[1] = -3)
  <2>1. p[1] < 0 /\ ~(p[1] >= 0)
    BY <1>6 DEF Stop
  <2>2. \A e, t : Steps(p, e, t) = {}
    <3>1. p \notin Places
      BY <1>1, <2>1, PlaceFacts
    <3> QED
      BY <1>6, <2>1, <3>1 DEF Steps
  <2>3. ~hasRules(p)
    BY <1>6, <2>1 DEF hasRules
  <2> QED
    BY <1>2, <2>2, <2>3 DEF SimulatedFrom, ExactFrom
<1> QED
  BY <1>3, <1>4, <1>5, <1>6

(* A function that is taken for trivial has no loop and no call back.        *)
LEMMA TrivialRun ==
  ASSUME ConverterInv, SimulationInv, pc = "run", m_trivial, NEW s \in Steps(at, env, bools)
  PROVE  /\ s[1][1] >= 0 => s[1][1] \notin Reached(fn, s[1][1], {})
         /\ s[1][1] = -3 => s[1][2] \notin fn.scc
<1>1. fn \in Functions /\ RunOK(at, env, bools) /\ isTrivial
  BY DEF ConverterInv, Typed, SimulationInv, Running
<1>2. PICK p, e, t : p = at /\ e = env /\ t = bools
  OBVIOUS
<1>3. RunOK(s[1], s[2], s[3])
  BY <1>1, StepOK
<1>4. s[1][1] >= 0 => s[1][1] \in Blocks
  BY <1>3 DEF RunOK, InBlock, Start, Stop
<1>5. ASSUME s[1][1] = -3
      PROVE  s[1][2] \notin fn.scc
  <2>1. p \in {Start, Stop} \/ p[1] = -3 \/ InBlock(p)
    BY <1>1, <1>2 DEF RunOK
  <2>2. \A b \in Blocks : b \in Nat /\ b # -3
    BY <1>1, GraphFacts
  <2>3. CASE p \in Places /\ s \in Calls(InstrAt(p), e, t)
    <3>1. InstrAt(p).op \in {"call", "callvoid"} /\ \E f \in ToSet(InstrAt(p).callees) : s[1] = Entered(f)
      BY <2>3 DEF Calls
    <3>2. PICK f \in ToSet(InstrAt(p).callees) : s[1] = Entered(f)
      BY <3>1
    <3>3. s[1][2] = f
      BY <3>2 DEF Entered
    <3> QED
      BY <1>1, <2>3, <3>1, <3>3 DEF isTrivial
  <2>4. CASE p = Start /\ s = <<<<entry, 0>>, e, t>>
    BY <1>5, <2>4 DEF entry
  <2>5. CASE s[1] = <<p[1], p[2] + 1>> /\ (p \in Places \/ InBlock(p))
    <3>1. p[1] \in Blocks
      BY <1>1, <2>5, PlaceFacts DEF InBlock
    <3> QED
      BY <1>5, <2>2, <2>5, <3>1
  <2>6. CASE InBlock(p) /\ s \in Branches(p[1], e, t)
    <3>1. PICK b \in Blocks : b = p[1]
      BY <2>6 DEF InBlock
    <3>2. CASE s = <<Stop, e, t>>
      BY <1>5, <3>2 DEF Stop
    <3>3. CASE \E k \in DOMAIN fn.succ[b] : fn.succ[b][k] \in Blocks \ {entry} /\ s \in Jump(b, fn.succ[b][k], e, t)
      BY <1>5, <2>2, <3>3 DEF Jump
    <3> QED
      BY <1>1, <2>6, <3>1, <3>2, <3>3, BranchCases
  <2>7. s \in Steps(p, e, t)
    BY <1>2
  <2> QED
    BY <1>1, <2>1, <2>3, <2>4, <2>5, <2>6, <2>7, StepCases
<1> QED
  BY <1>1, <1>4, <1>5 DEF isTrivial

(* Every step of the function is a step of the rules, or stays at one symbol:  *)
(* for every function and every setting of the options, where a pointer is to *)
(* a whole global or to none (WholeStores).                                 *)
THEOREM SimulationCorrect ==
  ASSUME WholeStores
  PROVE  Spec => Simulated
<1> DEFINE A ==
      pc = "run" =>
        IF m_trivial
        THEN /\ at'[1] >= 0 => at'[1] \notin Reached(fn, at'[1], {})
             /\ at'[1] = -3 => at'[2] \notin fn.scc
        ELSE \/ ~followed(at')
             \/ SymbolAt(at) = SymbolAt(at') /\ env' = env
             \/ \E r \in ToSet(m_rules) :
                  /\ r.left = SymbolAt(at)
                  /\ r.right = SymbolAt(at')
                  /\ Arguments(at', env') \in Targets(r, env)
<1>1. ConverterInv /\ SimulationInv /\ [Next]_vars => [A]_vars
  <2> SUFFICES ASSUME ConverterInv, SimulationInv, Next, pc = "run"
               PROVE  A
    OBVIOUS
  <2>1. Run
    BY DEF Next, phase1, phase2Trivial, EnterBB, LeaveBB, AddReturns, visitCmpInst, visitArithmetic, visitInstruction,
           visitAssume, visitSelectInst, visitZExtInst, visitLoadInst, visitStoreInst, visitCallInst, atInstruction, StartRun
  <2>2. PICK s \in Steps(at, env, bools) : at' = s[1] /\ env' = s[2] /\ bools' = s[3]
    BY <2>1 DEF Run
  <2>3. CASE m_trivial
    BY <2>2, <2>3, TrivialRun
  <2>4. CASE ~m_trivial
    <3>1. PICK Q : Q = ToSet(m_rules)
      OBVIOUS
    <3>2. SimulatedFrom(at, Q) /\ RunOK(at, env, bools)
      BY <2>4, <3>1, RunSimulated DEF SimulationInv, Running
    <3>3. followed(s[1]) =>
            \/ SymbolAt(at) = SymbolAt(s[1]) /\ s[2] = env
            \/ \E r \in Q : /\ r.left = SymbolAt(at) /\ r.right = SymbolAt(s[1])
                            /\ Arguments(s[1], s[2]) \in Targets(r, env)
      BY <2>2, <3>2 DEF SimulatedFrom
    <3> QED
      BY <2>2, <2>4, <3>1, <3>3
  <2> QED
    BY <2>3, <2>4
<1> QED
  BY <1>1, SimulationAlways, PTL DEF Spec, Simulated

(* Where nothing is forgotten, a rule that applies where the function is does *)
(* what the function may do next, and nothing else.                          *)
THEOREM ExactCorrect == Spec => []Exact
<1>1. ConverterInv /\ SimulationInv => Exact
  <2> SUFFICES ASSUME ConverterInv, SimulationInv, pc = "run", ~m_trivial, exactlyTranslated, hasRules(at)
               PROVE  \A r \in ToSet(m_rules) :
                        r.left = SymbolAt(at) =>
                          \A a \in Targets(r, env) :
                            \E s \in Steps(at, env, bools) : SymbolAt(s[1]) = r.right /\ Arguments(s[1], s[2]) = a
    BY DEF Exact
  <2>1. PICK Q : Q = ToSet(m_rules)
    OBVIOUS
  <2>2. ExactFrom(at, Q) /\ RunOK(at, env, bools)
    BY <2>1, RunSimulated DEF SimulationInv, Running
  <2> QED
    BY <2>1, <2>2 DEF ExactFrom
<1> QED
  BY <1>1, SimulationAlways, PTL

=============================================================================
