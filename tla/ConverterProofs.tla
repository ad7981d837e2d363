--------------------------- MODULE ConverterProofs ---------------------------
(***************************************************************************)
(* Proofs about the Converter, for every function and every setting of the *)
(* options: the nondefs of different symbols differ, every cycle of rules  *)
(* passes a control point, and, about the function itself, what is known   *)
(* of its variables and comparisons wherever a run of it is (RunOK).       *)
(***************************************************************************)
EXTENDS Converter, FiniteSetTheorems, WellFoundedInduction, TLAPS

-----------------------------------------------------------------------------
(* Sequences.                                                               *)

IsSequence(s) == s \in Seq(ToSet(s))

(* A sequence of elements of a set is a sequence of its own elements.        *)
LEMMA SequenceOf ==
  ASSUME NEW S, NEW s \in Seq(S)
  PROVE  IsSequence(s) /\ ToSet(s) \subseteq S /\ DOMAIN s = 1 .. Len(s) /\ Len(s) \in Nat
<1>1. Len(s) \in Nat /\ DOMAIN s = 1 .. Len(s) /\ \A k \in DOMAIN s : s[k] \in S
  OBVIOUS
<1>2. s = [k \in 1 .. Len(s) |-> s[k]]
  BY <1>1
<1>3. [k \in 1 .. Len(s) |-> s[k]] \in Seq(ToSet(s))
  BY <1>1 DEF ToSet
<1> QED
  BY <1>1, <1>2, <1>3 DEF IsSequence, ToSet

(* A function on 1 .. n is a sequence.                                      *)
LEMMA FunctionSequence ==
  ASSUME NEW n \in Nat, NEW s, DOMAIN s = 1 .. n, s = [k \in 1 .. n |-> s[k]]
  PROVE  IsSequence(s) /\ Len(s) = n
<1>1. [k \in 1 .. n |-> s[k]] \in Seq(ToSet(s))
  BY DEF ToSet
<1> QED
  BY <1>1 DEF IsSequence

LEMMA SequenceFacts ==
  ASSUME NEW s, IsSequence(s)
  PROVE  Len(s) \in Nat /\ DOMAIN s = 1 .. Len(s)
BY DEF IsSequence

LEMMA ConcatSequence ==
  ASSUME NEW s, IsSequence(s), NEW t, IsSequence(t)
  PROVE  IsSequence(s \o t) /\ ToSet(s \o t) = ToSet(s) \cup ToSet(t)
<1> DEFINE S == ToSet(s) \cup ToSet(t)
<1>1. s \in Seq(S) /\ t \in Seq(S)
  <2>1. s \in Seq(ToSet(s)) /\ t \in Seq(ToSet(t))
    BY DEF IsSequence
  <2> HIDE DEF S
  <2> QED
    BY <2>1, SequenceOf DEF S
<1>2. s \o t \in Seq(S)
  BY <1>1
<1>3. IsSequence(s \o t) /\ ToSet(s \o t) \subseteq S
  BY <1>2, SequenceOf
<1>4. \A k \in DOMAIN s : s[k] = (s \o t)[k] /\ k \in DOMAIN (s \o t)
  BY <1>1
<1>5. \A k \in DOMAIN t : t[k] = (s \o t)[Len(s) + k] /\ Len(s) + k \in DOMAIN (s \o t)
  BY <1>1
<1>6. ToSet(s) \subseteq ToSet(s \o t) /\ ToSet(t) \subseteq ToSet(s \o t)
  <2> DEFINE u == s \o t
  <2> HIDE DEF u
  <2> QED
    BY <1>4, <1>5 DEF ToSet, u
<1> QED
  BY <1>3, <1>6

LEMMA SingletonSequence ==
  ASSUME NEW x
  PROVE  IsSequence(<<x>>) /\ ToSet(<<x>>) = {x}
BY DEF IsSequence, ToSet

LEMMA EmptySequence == IsSequence(<<>>) /\ ToSet(<<>>) = {}
BY DEF IsSequence, ToSet

LEMMA AppendSequence ==
  ASSUME NEW s, IsSequence(s), NEW x
  PROVE  IsSequence(Append(s, x)) /\ ToSet(Append(s, x)) = ToSet(s) \cup {x}
<1>1. s \in Seq(ToSet(s) \cup {x}) /\ x \in ToSet(s) \cup {x}
  <2>1. s \in Seq(ToSet(s))
    BY DEF IsSequence
  <2> QED
    BY <2>1
<1>2. Append(s, x) = s \o <<x>>
  BY <1>1
<1> QED
  BY <1>2, ConcatSequence, SingletonSequence

(* An index up to n in a set of indices has fewer of them before it than the  *)
(* set has members.                                                         *)
LEMMA CountBefore ==
  ASSUME NEW n \in Nat, NEW T \in SUBSET (1 .. n), NEW k \in T
  PROVE  /\ Cardinality(T) \in Nat
         /\ Cardinality({j \in 1 .. k - 1 : j \in T}) \in Nat
         /\ Cardinality({j \in 1 .. k - 1 : j \in T}) < Cardinality(T)
<1> DEFINE U == {j \in 1 .. k - 1 : j \in T}
<1>1. IsFiniteSet(T) /\ Cardinality(T) \in Nat
  <2>1. IsFiniteSet(1 .. n)
    BY FS_Interval
  <2> QED
    BY <2>1, FS_Subset, FS_CardinalityType
<1>2. U \in SUBSET T /\ k \notin U
  OBVIOUS
<1>3. IsFiniteSet(U) /\ Cardinality(U) \in Nat /\ Cardinality(U) <= Cardinality(T)
  BY <1>1, <1>2, FS_Subset, FS_CardinalityType
<1>4. Cardinality(U) # Cardinality(T)
  BY <1>1, <1>2, FS_Subset
<1> QED
  BY <1>1, <1>3, <1>4

(* A set of naturals with an element has a least one.                       *)
LEMMA LeastElement ==
  ASSUME NEW N \in SUBSET Nat, N # {}
  PROVE  \E z \in N : \A w \in N : z =< w
<1> DEFINE R == {e \in Nat \X Nat : e[1] < e[2]}
<1>1. IsWellFoundedOn(R, Nat)
  BY NatLessThanWellFounded DEF OpToRel
<1>2. PICK z \in N : \A w \in N : <<w, z>> \notin R
  <2> HIDE DEF R
  <2> QED
    BY <1>1, WFMin
<1>3. \A w \in N : ~(w < z)
  BY <1>2
<1> QED
  BY <1>3

(* The prefixes of a flattened sequence of sequences exist.                 *)
FirstParts(s, n, f) == f = [k \in 1 .. n |-> IF k = 1 THEN s[k] ELSE f[k - 1] \o s[k]]

LEMMA PrefixesExist ==
  ASSUME NEW s, NEW n \in Nat
  PROVE  \E f : FirstParts(s, n, f)
<1> DEFINE N == {m \in Nat : ~\E f : FirstParts(s, m, f)}
<1>1. SUFFICES ASSUME N # {}
               PROVE  FALSE
  OBVIOUS
<1>2. PICK m \in N : \A w \in N : m =< w
  BY <1>1, LeastElement
<1>3. CASE m = 0
  <2>1. FirstParts(s, 0, [k \in 1 .. 0 |-> s[k]])
    BY DEF FirstParts
  <2> QED
    BY <1>2, <1>3, <2>1
<1>4. CASE m # 0
  <2>1. m - 1 \in Nat /\ m - 1 \notin N
    BY <1>2, <1>4
  <2>2. PICK f : FirstParts(s, m - 1, f)
    BY <2>1
  <2> DEFINE g == [k \in 1 .. m |-> IF k = m THEN IF m = 1 THEN s[m] ELSE f[m - 1] \o s[m] ELSE f[k]]
  <2>3. \A k \in 1 .. m - 1 : f[k] = IF k = 1 THEN s[k] ELSE f[k - 1] \o s[k]
    BY <2>2 DEF FirstParts
  <2>4. \A k \in 1 .. m : g[k] = IF k = 1 THEN s[k] ELSE g[k - 1] \o s[k]
    <3> SUFFICES ASSUME NEW k \in 1 .. m
                 PROVE  g[k] = IF k = 1 THEN s[k] ELSE g[k - 1] \o s[k]
      OBVIOUS
    <3>1. CASE k = m
      BY <3>1
    <3>2. CASE k # m
      <4>1. k \in 1 .. m - 1 /\ (k # 1 => k - 1 \in 1 .. m - 1 /\ k - 1 # m)
        BY <3>2
      <4> QED
        BY <4>1, <3>2, <2>3
    <3> QED
      BY <3>1, <3>2
  <2>5. FirstParts(s, m, g)
    <3> HIDE DEF g
    <3>1. g = [k \in 1 .. m |-> g[k]]
      BY DEF g
    <3> QED
      BY <2>4, <3>1 DEF FirstParts
  <2> QED
    BY <1>2, <2>5
<1> QED
  BY <1>3, <1>4

(* Sequences of elements of a set, flattened, are one.                      *)
LEMMA FlattenType ==
  ASSUME NEW S, NEW s, DOMAIN s = 1 .. Len(s), Len(s) \in Nat, s = [k \in 1 .. Len(s) |-> s[k]],
         \A k \in DOMAIN s : s[k] \in Seq(S)
  PROVE  FlattenSeq(s) \in Seq(S)
<1>1. CASE Len(s) = 0
  BY <1>1 DEF FlattenSeq
<1>2. CASE Len(s) # 0
  <2> DEFINE f == CHOOSE g : FirstParts(s, Len(s), g)
             N == {m \in Nat : m \in 1 .. Len(s) /\ f[m] \notin Seq(S)}
  <2>1. FirstParts(s, Len(s), f)
    BY PrefixesExist
  <2>2. FlattenSeq(s) = f[Len(s)]
    BY <1>2 DEF FlattenSeq, FirstParts
  <2> HIDE DEF f
  <2>3. SUFFICES ASSUME N # {}
                 PROVE  FALSE
    BY <1>2, <2>2
  <2>4. PICK m \in N : \A w \in N : m =< w
    BY <2>3, LeastElement
  <2>5. f[m] = IF m = 1 THEN s[m] ELSE f[m - 1] \o s[m]
    BY <2>1, <2>4 DEF FirstParts
  <2>6. CASE m = 1
    BY <2>4, <2>5, <2>6
  <2>7. CASE m # 1
    <3>1. m - 1 \in Nat /\ m - 1 \in 1 .. Len(s) /\ m - 1 \notin N
      BY <2>4, <2>7
    <3>2. f[m - 1] \in Seq(S) /\ s[m] \in Seq(S)
      BY <2>4, <3>1
    <3> HIDE DEF N
    <3>3. f[m] \in Seq(S)
      BY <2>5, <2>7, <3>2
    <3> QED
      BY <2>4, <3>3 DEF N
  <2> QED
    BY <2>6, <2>7
<1> QED
  BY <1>1, <1>2

-----------------------------------------------------------------------------
(* The inductive invariant.                                                 *)

(* A global has one position in the arguments.                              *)
VarsOnce ==
  /\ IsSequence(m_vars)
  /\ \A j, k \in DOMAIN m_vars : m_vars[j] \in Globals /\ m_vars[j] = m_vars[k] => j = k
  /\ m_trivial => m_vars = variables

Typed ==
  /\ fn \in Functions
  /\ pc \in {"phase1", "phase2", "instructions", "ready", "run", "exit"}
  /\ bb \in Nat /\ i \in Nat
  /\ pc = "instructions" => bb \in Blocks
  /\ m_counter \in Nat /\ m_nondef \in Nat
  /\ IsSequence(m_rules) /\ IsSequence(m_blockRules)
  /\ IsSequence(m_returns) /\ ToSet(m_returns) \subseteq Blocks
  /\ {startSymbol(m_function), stopSymbol} \subseteq m_controlPoints
  /\ m_controlPoints \subseteq Symbol /\ m_complexityLHSs \subseteq Symbol

(* The numbers of a block come in one piece before those of later blocks,    *)
(* with one in between that is the last symbol of the block.                *)
NumbersApart ==
  /\ DOMAIN m_idMap \subseteq Places
  /\ \A p \in DOMAIN m_idMap :
       /\ m_idMap[p] \in Nat /\ m_idMap[p] < m_counter
       /\ p[1] <= bb
       /\ p[1] = bb => pc \in {"instructions", "exit"} /\ p[2] < i
       /\ p[1] < bb => m_idMap[p] + 1 < m_counter
  /\ \A p, q \in DOMAIN m_idMap : p[1] < q[1] => m_idMap[p] + 1 < m_idMap[q]

(* The numbered symbols of block b.                                         *)
Ids(b) == {m_idMap[p] : p \in {q \in DOMAIN m_idMap : q[1] = b}}
Evals(b) == {eval(n) : n \in Ids(b)} \cup {eval(n + 1) : n \in Ids(b)}

(* The ways a rule leads through the blocks: within one from in by the        *)
(* numbers to out, or into one that has no other predecessor.               *)
Placed(r) ==
  \/ {r.left, r.right} \cap m_controlPoints # {}
  \/ \E b \in Blocks : r.left = inSymbol(b) /\ r.right \in Evals(b) \cup {outSymbol(b)}
  \/ \E p \in DOMAIN m_idMap : r.left = eval(m_idMap[p]) /\ r.right = eval(m_idMap[p] + 1)
  \/ \E b \in Blocks : r.left \in Evals(b) /\ r.right = outSymbol(b)
  \/ \E b, s \in Blocks : preds(s) = {b} /\ r.left = outSymbol(b) /\ r.right = inSymbol(s)

Rules == ToSet(m_rules) \cup ToSet(m_blockRules)

RuleTyped(r) ==
  /\ {r.left, r.right} \subseteq Symbol
  /\ Len(r.args) = IF r.right[1] = "start" THEN Len(variables) ELSE Len(m_vars)

(* The nondefs of rules R are below n, and shared only at one symbol.        *)
Fresh(R, n) ==
  /\ \A r \in R : Nondefs(r) \subseteq 0 .. n - 1
  /\ \A r, q \in R : Nondefs(r) \cap Nondefs(q) # {} => r.left = q.left

ConverterInv ==
  /\ VarsOnce
  /\ Typed
  /\ NumbersApart
  /\ pc = "phase1" => Rules = {}
  /\ \A r \in Rules : RuleTyped(r) /\ Placed(r)
  /\ Fresh(Rules, m_nondef)

-----------------------------------------------------------------------------
(* The graph, the instructions and the variables of the function.           *)

LEMMA GraphFacts ==
  ASSUME fn \in Functions
  PROVE  /\ IsFiniteSet(Blocks) /\ Cardinality(Blocks) \in Nat /\ 0 \in Blocks
         /\ Blocks = 0 .. Cardinality(Blocks) - 1 /\ Blocks \subseteq Nat
         /\ \A b \in Blocks : fn.succ[b] \in Seq(Blocks \ {0}) /\ Len(fn.succ[b]) \in 0 .. 2
         /\ \A R \in SUBSET Blocks :
              entry \in R /\ (\A b \in R : ToSet(fn.succ[b]) \subseteq R) => R = Blocks
<1>1. GraphOK(fn)
  BY FunctionsAssumption
<1>2. IsFiniteSet(Blocks) /\ 0 \in Blocks /\ Blocks = 0 .. Cardinality(Blocks) - 1
  BY <1>1 DEF GraphOK, Blocks
<1>3. Cardinality(Blocks) \in Nat
  BY <1>2, FS_CardinalityType
<1>4. \A b \in Blocks : fn.succ[b] \in Seq(Blocks \ {0}) /\ Len(fn.succ[b]) <= 2
  BY <1>1 DEF GraphOK, Blocks
<1>5. \A R \in SUBSET Blocks :
        entry \in R /\ (\A b \in R : ToSet(fn.succ[b]) \subseteq R) => R = Blocks
  BY <1>1 DEF GraphOK, Blocks, entry
<1>6. ASSUME NEW b \in Blocks
      PROVE  Len(fn.succ[b]) \in 0 .. 2
  <2> DEFINE l == Len(fn.succ[b])
  <2>1. l <= 2 /\ fn.succ[b] \in Seq(Blocks \ {0})
    BY <1>4
  <2>2. l \in Nat
    BY <2>1
  <2> HIDE DEF l
  <2>3. l \in 0 .. 2
    BY <2>1, <2>2
  <2> QED
    BY <2>3 DEF l
<1> QED
  BY <1>2, <1>3, <1>4, <1>5, <1>6

LEMMA CodeFacts ==
  ASSUME fn \in Functions, NEW b \in Blocks
  PROVE  /\ fn.code[b] \in Seq(InstructionsOf(fn))
         /\ IsSequence(fn.phis[b])
         /\ \A u \in Blocks : b \in ToSet(fn.succ[u]) =>
              \A j \in DOMAIN fn.phis[b] : fn.phis[b][j][u] \in Operand
<1>1. b \in DOMAIN fn.succ /\ DefinitionsOK(fn)
  BY FunctionsAssumption DEF Blocks
<1>2. fn.code[b] \in Seq(InstructionsOf(fn)) /\ fn.phis[b] \in Seq(ToSet(fn.phis[b]))
  BY <1>1, FunctionsAssumption
<1>3. \A u \in Blocks : b \in ToSet(fn.succ[u]) =>
        \A j \in DOMAIN fn.phis[b] : fn.phis[b][j][u] \in Operand
  BY <1>1 DEF DefinitionsOK, Blocks
<1> QED
  BY <1>2, <1>3 DEF IsSequence

(* The variables a call passes: the argument and every global once.         *)
LEMMA VariablesFacts ==
  /\ IsSequence(variables)
  /\ \A k \in DOMAIN variables : variables[k] \in {Arg} \cup Globals
  /\ \A j, k \in DOMAIN variables : variables[j] \in Globals /\ variables[j] = variables[k] => j = k
<1> DEFINE n == Cardinality(Globals)
           g == SetToSeq(Globals)
<1>1. n \in Nat /\ ExistsBijection(1 .. n, Globals)
  BY FunctionsAssumption, FS_CardinalityType
<1>2. PICK f \in [1 .. n -> Globals] : IsInjective(f)
  BY <1>1 DEF ExistsBijection, Bijection, Injection, IsInjective
<1>3. g \in [1 .. n -> Globals] /\ IsInjective(g)
  BY <1>2 DEF SetToSeq
<1> HIDE DEF n, g
<1>4. g \in Seq(Globals) /\ Len(g) = n
  BY <1>1, <1>3
<1>5. <<Arg>> \o g \in Seq(Globals \cup {Arg})
  <2>1. <<Arg>> \in Seq(Globals \cup {Arg}) /\ g \in Seq(Globals \cup {Arg})
    BY <1>4
  <2> QED
    BY <2>1
<1>6. variables = <<Arg>> \o g
  BY DEF variables, g
<1>7. DOMAIN variables = 1 .. n + 1 /\ variables[1] = Arg
  BY <1>1, <1>4, <1>6
<1>8. \A k \in DOMAIN variables : k # 1 => variables[k] = g[k - 1] /\ k - 1 \in 1 .. n
  BY <1>1, <1>4, <1>6, <1>7
<1>9. Arg \notin Globals
  BY FunctionsAssumption DEF Arg
<1>11. \A k \in DOMAIN variables : variables[k] \in {Arg} \cup Globals
  BY <1>3, <1>7, <1>8
<1>10. ASSUME NEW j \in DOMAIN variables, NEW k \in DOMAIN variables,
              variables[j] \in Globals, variables[j] = variables[k]
       PROVE  j = k
  <2>1. j # 1 /\ k # 1
    BY <1>7, <1>9, <1>10
  <2>2. g[j - 1] = g[k - 1] /\ j - 1 \in DOMAIN g /\ k - 1 \in DOMAIN g
    BY <1>3, <1>8, <1>10, <2>1
  <2>3. j - 1 = k - 1
    BY <1>3, <2>2 DEF IsInjective
  <2> QED
    BY <1>7, <2>3
<1> QED
  BY <1>5, <1>6, <1>10, <1>11, SequenceOf

(* The variables of a block are results and phis.                           *)
LEMMA BlockVarsType ==
  ASSUME fn \in Functions, NEW b \in Blocks
  PROVE  blockVars(b) \in Seq(Vars \ Globals)
<1> DEFINE phis == [j \in DOMAIN fn.phis[b] |-> PhiVar(b, j)]
           results == [k \in DOMAIN fn.code[b] |-> resultVar(<<b, k>>)]
<1>1. b \in Nat /\ IsSequence(fn.phis[b]) /\ fn.code[b] \in Seq(InstructionsOf(fn))
  BY GraphFacts, CodeFacts
<1>2. \A g \in Globals : g[1] = "global"
  BY FunctionsAssumption
<1>3. phis \in Seq(Vars \ Globals)
  <2>1. Len(fn.phis[b]) \in Nat /\ DOMAIN fn.phis[b] = 1 .. Len(fn.phis[b])
    BY <1>1, SequenceFacts
  <2>2. ASSUME NEW j \in 1 .. Len(fn.phis[b])
        PROVE  PhiVar(b, j) \in Vars /\ PhiVar(b, j) \notin Globals
    <3>1. PhiVar(b, j) \in Phis
      BY <2>1 DEF Phis
    <3>2. PhiVar(b, j)[1] = "phi"
      BY DEF PhiVar
    <3> QED
      BY <1>2, <3>1, <3>2 DEF Vars
  <2> QED
    BY <2>1, <2>2
<1>4. FlattenSeq(results) \in Seq(Vars \ Globals)
  <2>1. Len(fn.code[b]) \in Nat /\ DOMAIN fn.code[b] = 1 .. Len(fn.code[b])
    BY <1>1
  <2>2. ASSUME NEW k \in DOMAIN fn.code[b]
        PROVE  resultVar(<<b, k>>) \in Seq(Vars \ Globals)
    <3>1. CASE hasResult(InstrAt(<<b, k>>))
      <4>1. <<b, k>> \in Places
        BY DEF Places
      <4>2. Result(<<b, k>>) \in Vars
        BY <3>1, <4>1 DEF Vars, Results
      <4>3. Result(<<b, k>>) \notin Globals
        BY <1>2 DEF Result
      <4> QED
        BY <3>1, <4>2, <4>3 DEF resultVar
    <3>2. CASE ~hasResult(InstrAt(<<b, k>>))
      BY <3>2 DEF resultVar
    <3> QED
      BY <3>1, <3>2
  <2>3. DOMAIN results = 1 .. Len(fn.code[b]) /\ Len(results) = Len(fn.code[b])
    BY <2>1
  <2>4. \A k \in DOMAIN results : results[k] \in Seq(Vars \ Globals)
    BY <2>2
  <2>5. results = [k \in 1 .. Len(results) |-> results[k]]
    BY <2>1, <2>3
  <2> HIDE DEF results
  <2> QED
    BY <2>1, <2>3, <2>4, <2>5, FlattenType
<1> HIDE DEF phis, results
<1>5. phis \o FlattenSeq(results) \in Seq(Vars \ Globals)
  BY <1>3, <1>4
<1> QED
  BY <1>5 DEF blockVars, phis, results

(* phase1 gives a global one position in m_vars.                            *)
LEMMA AllVariablesFacts ==
  ASSUME fn \in Functions
  PROVE  /\ IsSequence(allVariables)
         /\ \A k \in DOMAIN allVariables : allVariables[k] \in Vars
         /\ \A j, k \in DOMAIN allVariables :
              allVariables[j] \in Globals /\ allVariables[j] = allVariables[k] => j = k
<1> DEFINE n == Cardinality(Blocks)
           blocks == [k \in 1 .. n |-> blockVars(k - 1)]
           locals == FlattenSeq(blocks)
<1>1. locals \in Seq(Vars \ Globals)
  <2>1. n \in Nat /\ Blocks = 0 .. n - 1
    BY GraphFacts
  <2>2. DOMAIN blocks = 1 .. n /\ Len(blocks) = n /\ blocks = [k \in 1 .. n |-> blocks[k]]
    BY <2>1
  <2>3. \A k \in DOMAIN blocks : blocks[k] \in Seq(Vars \ Globals)
    <3> SUFFICES ASSUME NEW k \in 1 .. n
                 PROVE  blockVars(k - 1) \in Seq(Vars \ Globals)
      BY <2>2
    <3>1. k - 1 \in Blocks
      BY <2>1
    <3> QED
      BY <3>1, BlockVarsType
  <2> HIDE DEF blocks, n
  <2> QED
    BY <2>1, <2>2, <2>3, FlattenType
<1>2. allVariables = variables \o locals
  BY DEF allVariables
<1> HIDE DEF locals
<1>3. IsSequence(variables) /\ IsSequence(locals)
  BY <1>1, VariablesFacts, SequenceOf
<1>4. ASSUME NEW k \in DOMAIN locals
      PROVE  locals[k] \in Vars /\ locals[k] \notin Globals
  BY <1>1
<1> DEFINE m == Len(variables)
<1>5. /\ m \in Nat /\ DOMAIN variables = 1 .. m
      /\ Len(locals) \in Nat /\ DOMAIN locals = 1 .. Len(locals)
  BY <1>3, SequenceFacts
<1>6. /\ DOMAIN allVariables = 1 .. m + Len(locals)
      /\ \A k \in 1 .. m : allVariables[k] = variables[k]
      /\ \A k \in DOMAIN allVariables : k > m => allVariables[k] = locals[k - m] /\ k - m \in DOMAIN locals
  <2>1. variables \in Seq(ToSet(variables)) /\ locals \in Seq(ToSet(locals))
    BY <1>3 DEF IsSequence
  <2> QED
    BY <1>2, <1>5, <2>1
<1>7. ASSUME NEW j \in DOMAIN allVariables, NEW k \in DOMAIN allVariables,
             allVariables[j] \in Globals, allVariables[j] = allVariables[k]
      PROVE  j = k
  <2>1. j \in 1 .. m /\ k \in 1 .. m
    BY <1>4, <1>5, <1>6, <1>7
  <2> QED
    BY <1>5, <1>6, <1>7, <2>1, VariablesFacts
<1>8. ASSUME NEW k \in DOMAIN allVariables
      PROVE  allVariables[k] \in Vars
  <2>1. CASE k <= m
    <3>1. k \in DOMAIN variables /\ allVariables[k] = variables[k]
      BY <1>5, <1>6, <2>1
    <3> QED
      BY <3>1, VariablesFacts DEF Vars
  <2>2. CASE k > m
    BY <1>4, <1>6, <2>2
  <2> QED
    BY <1>5, <1>6, <2>1, <2>2
<1> QED
  BY <1>2, <1>3, <1>7, <1>8, ConcatSequence

-----------------------------------------------------------------------------
(* The nondefs of arguments.                                                *)

(* Their numbers are from n on, below m.                                    *)
FreshArgs(args, n, m) == \A k \in DOMAIN args : args[k][1] = "nondef" => args[k][2] \in n .. m - 1

LEMMA RuleNondefs ==
  ASSUME NEW n, NEW m, NEW r, FreshArgs(r.args, n, m)
  PROVE  Nondefs(r) \subseteq n .. m - 1
BY DEF FreshArgs, Nondefs, ToSet

LEMMA LhsFresh ==
  ASSUME NEW n, NEW m
  PROVE  FreshArgs(m_lhs, n, m)
BY DEF FreshArgs, m_lhs

LEMMA NewArgsFresh ==
  ASSUME NEW v, NEW p, NEW n, NEW m, p[1] = "nondef" => p[2] \in n .. m - 1
  PROVE  FreshArgs(getNewArgs(v, p), n, m)
<1> SUFFICES ASSUME NEW k \in DOMAIN m_vars
             PROVE  LET a == getNewArgs(v, p)[k] IN a[1] = "nondef" => a[2] \in n .. m - 1
  BY DEF FreshArgs, getNewArgs
<1>1. getNewArgs(v, p)[k] \in {p, <<"var", m_vars[k]>>}
  BY DEF getNewArgs, m_lhs
<1> QED
  BY <1>1

LEMMA PolynomialFresh ==
  ASSUME NEW x \in Operand, NEW n \in Nat
  PROVE  LET p == getPolynomial(x, n)
         IN  p[1] = "nondef" => x[1] = "undef" /\ p[2] = n
<1>1. x[1] # "nondef"
  BY DEF Operand
<1> QED
  BY <1>1 DEF getPolynomial

(* A nondef for every variable to zap: as many as there are.                *)
LEMMA ZappedFresh ==
  ASSUME VarsOnce, NEW zap \in SUBSET Globals, NEW n \in Nat, NEW l \in Nat, l <= n,
         NEW args, DOMAIN args = DOMAIN m_vars, FreshArgs(args, l, n)
  PROVE  FreshArgs(getZappedArgs(zap, n, args), l, n + Cardinality(zap)) /\ Cardinality(zap) \in Nat
<1> DEFINE before(k) == {j \in 1 .. k - 1 : m_vars[j] \in zap}
<1>1. IsFiniteSet(zap) /\ Cardinality(zap) \in Nat
  BY FunctionsAssumption, FS_Subset, FS_CardinalityType
<1>2. Len(m_vars) \in Nat /\ DOMAIN m_vars = 1 .. Len(m_vars)
  BY SequenceFacts DEF VarsOnce
<1>3. ASSUME NEW k \in DOMAIN m_vars, m_vars[k] \in zap
      PROVE  Cardinality(before(k)) \in Nat /\ Cardinality(before(k)) < Cardinality(zap)
  <2> DEFINE B == before(k) \cup {k}
             f == [j \in B |-> m_vars[j]]
  <2>1. B \subseteq 1 .. Len(m_vars) /\ k \notin before(k) /\ before(k) \subseteq B
    BY <1>2
  <2>2. f \in Injection(B, zap)
    <3>1. \A j \in B : m_vars[j] \in zap /\ j \in DOMAIN m_vars
      BY <1>2, <1>3, <2>1
    <3>2. \A j, h \in B : m_vars[j] = m_vars[h] => j = h
      BY <3>1 DEF VarsOnce
    <3> QED
      BY <3>1, <3>2 DEF Injection, IsInjective
  <2>3. IsFiniteSet(B) /\ Cardinality(B) <= Cardinality(zap)
    BY <1>1, <2>2, FS_Injection
  <2>4. IsFiniteSet(before(k)) /\ Cardinality(before(k)) \in Nat
    BY <2>1, <2>3, FS_Subset, FS_CardinalityType
  <2>5. Cardinality(B) = Cardinality(before(k)) + 1
    BY <2>1, <2>4, FS_AddElement
  <2> QED
    BY <1>1, <2>3, <2>4, <2>5
<1>4. ASSUME NEW k \in DOMAIN m_vars
      PROVE  LET a == getZappedArgs(zap, n, args)[k]
             IN  a[1] = "nondef" => a[2] \in l .. n + Cardinality(zap) - 1
  <2>1. CASE m_vars[k] \in zap
    <3>1. getZappedArgs(zap, n, args)[k] = <<"nondef", n + Cardinality(before(k))>>
      BY <2>1 DEF getZappedArgs
    <3>2. n + Cardinality(before(k)) \in l .. n + Cardinality(zap) - 1
      BY <1>1, <1>3, <2>1
    <3> QED
      BY <3>1, <3>2
  <2>2. CASE m_vars[k] \notin zap
    <3>1. getZappedArgs(zap, n, args)[k] = args[k]
      BY <2>2 DEF getZappedArgs
    <3>2. args[k][1] = "nondef" => args[k][2] \in l .. n - 1
      BY DEF FreshArgs
    <3> QED
      BY <1>1, <3>1, <3>2
  <2> QED
    BY <2>1, <2>2
<1>5. DOMAIN getZappedArgs(zap, n, args) = DOMAIN m_vars
  BY DEF getZappedArgs
<1> QED
  BY <1>1, <1>4, <1>5 DEF FreshArgs

(* What a jump passes for the phis of a block: a nondef for every undef.     *)
LEMMA PhiArgsFresh ==
  ASSUME fn \in Functions, NEW from \in Blocks, NEW to \in Blocks, to \in ToSet(fn.succ[from]), NEW n \in Nat
  PROVE  /\ FreshArgs(getArgsWithPhis(from, to, n), n, n + undefIncoming(from, to))
         /\ undefIncoming(from, to) \in Nat
         /\ DOMAIN getArgsWithPhis(from, to, n) = DOMAIN m_vars
<1> DEFINE l == Len(fn.phis[to])
           x(j) == fn.phis[to][j][from]
           U == {j \in 1 .. l : x(j)[1] = "undef"}
           values == phiValues(from, to, n)
<1>1. l \in Nat /\ DOMAIN fn.phis[to] = 1 .. l /\ \A j \in 1 .. l : x(j) \in Operand
  BY CodeFacts, SequenceFacts
<1>2. undefIncoming(from, to) = Cardinality(U)
  BY <1>1 DEF undefIncoming, phiIncoming
<1>3. IsFiniteSet(U) /\ Cardinality(U) \in Nat
  <2>1. IsFiniteSet(1 .. l)
    BY <1>1, FS_Interval
  <2> QED
    BY <2>1, FS_Subset, FS_CardinalityType
<1>4. DOMAIN values = 1 .. l
  BY <1>1 DEF phiValues, phiIncoming
<1>5. ASSUME NEW j \in 1 .. l, values[j][1] = "nondef"
      PROVE  values[j][2] \in n .. n + Cardinality(U) - 1
  <2> DEFINE V == {h \in 1 .. j - 1 : h \in U}
             W == {h \in 1 .. j - 1 : x(h)[1] = "undef"}
  <2>1. V = W
    BY <1>1
  <2>2. values[j] = getPolynomial(x(j), n + Cardinality(W))
    <3> DEFINE coming == phiIncoming(from, to)
    <3>1. DOMAIN coming = 1 .. l /\ \A h \in 1 .. l : coming[h] = x(h)
      BY <1>1 DEF phiIncoming
    <3>2. {h \in 1 .. j - 1 : coming[h][1] = "undef"} = W
      BY <1>1, <3>1
    <3> HIDE DEF coming, W
    <3> QED
      BY <3>1, <3>2 DEF phiValues, coming
  <2>3. IsFiniteSet(V) /\ Cardinality(V) \in Nat
    BY <1>3, FS_Subset, FS_CardinalityType
  <2>4. n + Cardinality(W) \in Nat
    <3> HIDE DEF V, W
    <3> QED
      BY <2>1, <2>3
  <2>5. x(j)[1] = "undef" /\ values[j][2] = n + Cardinality(W)
    BY <1>1, <1>5, <2>2, <2>4, PolynomialFresh
  <2>6. Cardinality(V) < Cardinality(U)
    BY <1>1, <2>5, CountBefore
  <2> HIDE DEF V, W, U
  <2> QED
    BY <1>3, <2>1, <2>3, <2>5, <2>6
<1> HIDE DEF values, U
<1>6. ASSUME NEW k \in DOMAIN m_vars
      PROVE  LET a == withPhis(to, values)[k]
             IN  a[1] = "nondef" => a[2] \in n .. n + Cardinality(U) - 1
  <2> DEFINE js == {j \in DOMAIN values : m_vars[k] = PhiVar(to, j)}
  <2>1. CASE js = {}
    <3>1. withPhis(to, values)[k] = <<"var", m_vars[k]>>
      BY <2>1 DEF withPhis, m_lhs
    <3> QED
      BY <3>1
  <2>2. CASE js # {}
    <3>1. PICK j \in js : TRUE
      BY <2>2
    <3>2. js = {j}
      BY <3>1 DEF PhiVar
    <3>3. j \in Nat
      BY <1>1, <1>4
    <3>4. Min(js) = j
      BY <3>2, <3>3 DEF Min
    <3>5. withPhis(to, values)[k] = values[j]
      BY <2>2, <3>4 DEF withPhis
    <3> QED
      BY <1>4, <1>5, <3>5
  <2> QED
    BY <2>1, <2>2
<1>7. DOMAIN withPhis(to, values) = DOMAIN m_vars
  BY DEF withPhis
<1> QED
  BY <1>2, <1>3, <1>6, <1>7 DEF FreshArgs, getArgsWithPhis, values

-----------------------------------------------------------------------------
(* Rules are added.                                                         *)

LEMMA FreshUnion ==
  ASSUME NEW R, NEW n \in Nat, Fresh(R, n), NEW m \in Nat, n <= m,
         NEW N, \A r \in N : Nondefs(r) \subseteq n .. m - 1,
         \A r, q \in N : Nondefs(r) \cap Nondefs(q) # {} => r.left = q.left
  PROVE  Fresh(R \cup N, m)
<1>1. \A r \in R : Nondefs(r) \subseteq 0 .. n - 1
  BY DEF Fresh
<1>2. \A r \in R : Nondefs(r) \subseteq 0 .. m - 1
  BY <1>1
<1>3. \A r \in N : Nondefs(r) \subseteq 0 .. m - 1
  OBVIOUS
<1>4. \A r \in R : \A q \in N : Nondefs(r) \cap Nondefs(q) = {}
  BY <1>1
<1> QED
  BY <1>2, <1>3, <1>4 DEF Fresh

LEMMA PlaceFacts ==
  ASSUME fn \in Functions, NEW p \in Places
  PROVE  p[1] \in Blocks /\ p[1] \in Nat /\ p[2] \in DOMAIN fn.code[p[1]] /\ p[2] \in Nat /\ p = <<p[1], p[2]>>
<1>1. PICK b \in Blocks : p \in {<<b, k>> : k \in DOMAIN fn.code[b]}
  BY DEF Places
<1>2. fn.code[b] \in Seq(InstructionsOf(fn)) /\ b \in Nat
  BY CodeFacts, GraphFacts
<1>3. DOMAIN fn.code[b] \subseteq Nat
  BY <1>2
<1> QED
  BY <1>1, <1>2, <1>3

(* Rules keep their places when numbers and control points are added.        *)
LEMMA PlacedKept ==
  ASSUME NEW r, Placed(r), fn' = fn, m_controlPoints \subseteq m_controlPoints',
         DOMAIN m_idMap \subseteq DOMAIN m_idMap',
         \A p \in DOMAIN m_idMap : m_idMap'[p] = m_idMap[p]
  PROVE  Placed(r)'
<1>1. \A b : Ids(b) \subseteq Ids(b)'
  BY DEF Ids
<1>2. \A b : Evals(b) \subseteq Evals(b)'
  BY <1>1 DEF Evals
<1>3. Blocks' = Blocks /\ \A s : preds(s)' = preds(s)
  BY DEF Blocks, preds
<1>4. CASE {r.left, r.right} \cap m_controlPoints # {}
  BY <1>4 DEF Placed
<1>5. CASE \E b \in Blocks : r.left = inSymbol(b) /\ r.right \in Evals(b) \cup {outSymbol(b)}
  <2>1. PICK b \in Blocks : r.left = inSymbol(b) /\ r.right \in Evals(b) \cup {outSymbol(b)}
    BY <1>5
  <2> QED
    BY <1>2, <1>3, <2>1 DEF Placed
<1>6. CASE \E p \in DOMAIN m_idMap : r.left = eval(m_idMap[p]) /\ r.right = eval(m_idMap[p] + 1)
  <2>1. PICK p \in DOMAIN m_idMap : r.left = eval(m_idMap[p]) /\ r.right = eval(m_idMap[p] + 1)
    BY <1>6
  <2>2. p \in DOMAIN m_idMap' /\ m_idMap'[p] = m_idMap[p]
    BY <2>1
  <2> QED
    BY <2>1, <2>2 DEF Placed
<1>7. CASE \E b \in Blocks : r.left \in Evals(b) /\ r.right = outSymbol(b)
  BY <1>2, <1>3, <1>7 DEF Placed
<1>8. CASE \E b, s \in Blocks : preds(s) = {b} /\ r.left = outSymbol(b) /\ r.right = inSymbol(s)
  BY <1>3, <1>8 DEF Placed
<1> QED
  BY <1>4, <1>5, <1>6, <1>7, <1>8 DEF Placed

(* A number for the instruction.                                            *)
LEMMA NumberAdded ==
  ASSUME fn \in Functions, bb \in Nat, i \in Nat, m_counter \in Nat, NumbersApart,
         pc = "instructions", here \in Places,
         m_idMap' = [p \in DOMAIN m_idMap \cup {here} |-> IF p = here THEN m_counter ELSE m_idMap[p]],
         m_counter' = m_counter + 1, i' = i + 1,
         UNCHANGED <<fn, pc, bb>>
  PROVE  /\ NumbersApart'
         /\ DOMAIN m_idMap \subseteq DOMAIN m_idMap' /\ here \in DOMAIN m_idMap'
         /\ \A p \in DOMAIN m_idMap : m_idMap'[p] = m_idMap[p]
         /\ m_idMap'[here] = m_counter
<1>1. here = <<bb, i>> /\ here[1] = bb /\ here[2] = i
  BY DEF here
<1>2. here \notin DOMAIN m_idMap
  BY <1>1 DEF NumbersApart
<1>3. DOMAIN m_idMap' = DOMAIN m_idMap \cup {here}
  OBVIOUS
<1>4. /\ \A p \in DOMAIN m_idMap : m_idMap'[p] = m_idMap[p]
      /\ m_idMap'[here] = m_counter
  BY <1>2
<1>5. Places' = Places
  BY DEF Places, Blocks
<1>6. DOMAIN m_idMap' \subseteq Places'
  BY <1>3, <1>5 DEF NumbersApart
<1> HIDE DEF here
<1>7. ASSUME NEW p \in DOMAIN m_idMap'
      PROVE  /\ m_idMap'[p] \in Nat /\ m_idMap'[p] < m_counter + 1
             /\ p[1] \in Nat /\ p[1] <= bb
             /\ p[1] = bb => p[2] < i + 1
             /\ p[1] < bb => m_idMap'[p] + 1 < m_counter
  <2>1. CASE p = here
    BY <1>1, <1>4, <2>1
  <2>2. CASE p # here
    <3>1. p \in DOMAIN m_idMap /\ m_idMap'[p] = m_idMap[p]
      BY <1>3, <1>4, <2>2
    <3>2. p[1] \in Nat /\ p[2] \in Nat
      BY <3>1, PlaceFacts DEF NumbersApart
    <3>3. /\ m_idMap[p] \in Nat /\ m_idMap[p] < m_counter
          /\ p[1] <= bb
          /\ p[1] = bb => p[2] < i
          /\ p[1] < bb => m_idMap[p] + 1 < m_counter
      BY <3>1 DEF NumbersApart
    <3> QED
      BY <3>1, <3>2, <3>3
  <2> QED
    BY <2>1, <2>2
<1>8. ASSUME NEW p \in DOMAIN m_idMap', NEW q \in DOMAIN m_idMap', p[1] < q[1]
      PROVE  m_idMap'[p] + 1 < m_idMap'[q]
  <2>1. p[1] < bb /\ p # here
    <3>1. p[1] \in Nat /\ q[1] \in Nat /\ q[1] <= bb
      BY <1>7
    <3>2. p[1] < bb
      BY <1>8, <3>1
    <3> QED
      BY <1>1, <3>1, <3>2
  <2>2. CASE q = here
    BY <1>4, <1>7, <2>1, <2>2
  <2>3. CASE q # here
    <3>1. p \in DOMAIN m_idMap /\ q \in DOMAIN m_idMap
      BY <1>3, <2>1, <2>3
    <3>2. m_idMap[p] + 1 < m_idMap[q]
      BY <1>8, <3>1 DEF NumbersApart
    <3> QED
      BY <1>4, <3>1, <3>2
  <2> QED
    BY <2>2, <2>3
<1>9. NumbersApart'
  <2>1. ASSUME NEW p \in DOMAIN m_idMap'
        PROVE  /\ m_idMap'[p] \in Nat /\ m_idMap'[p] < m_counter'
               /\ p[1] <= bb'
               /\ p[1] = bb' => pc' \in {"instructions", "exit"} /\ p[2] < i'
               /\ p[1] < bb' => m_idMap'[p] + 1 < m_counter'
    <3>1. bb' = bb /\ pc' = "instructions" /\ i' = i + 1 /\ m_counter' = m_counter + 1
      OBVIOUS
    <3> QED
      BY <1>7, <3>1
  <2> QED
    BY <1>6, <1>8, <2>1 DEF NumbersApart
<1> QED
  BY <1>3, <1>4, <1>9

LEMMA LengthOf ==
  ASSUME VarsOnce, NEW args, DOMAIN args = DOMAIN m_vars
  PROVE  Len(args) = Len(m_vars)
BY SequenceFacts DEF VarsOnce

(* The rules of an instruction keep the invariant when their nondefs are      *)
(* within those counted and the rules of calls lead to control points.       *)
LEMMA EmitKeeps ==
  ASSUME ConverterInv, atInstruction,
         NEW callRules, IsSequence(callRules), NEW alternatives, IsSequence(alternatives),
         NEW nondefs \in Nat, NEW controls \in SUBSET Symbol,
         Emit(callRules, alternatives, nondefs, controls),
         m_complexityLHSs' \subseteq Symbol,
         \A r \in ToSet(callRules) :
           /\ r.left = eval(m_counter) /\ r.right \in controls
           /\ r.right[1] = "start" /\ Len(r.args) = Len(variables)
           /\ Nondefs(r) \subseteq m_nondef .. m_nondef + nondefs - 1,
         \A a \in ToSet(alternatives) :
           /\ DOMAIN a[1] = DOMAIN m_vars
           /\ FreshArgs(a[1], m_nondef, m_nondef + nondefs)
  PROVE  ConverterInv'
<1> DEFINE rule(k) == Rule(eval(m_counter), eval(m_counter + 1), alternatives[k][1], alternatives[k][2])
           rules == [k \in DOMAIN alternatives |-> rule(k)]
           New == ToSet(callRules) \cup ToSet(rules)
<1>1. /\ VarsOnce /\ Typed /\ NumbersApart /\ pc = "instructions" /\ here \in Places
      /\ \A r \in Rules : RuleTyped(r) /\ Placed(r)
      /\ Fresh(Rules, m_nondef)
  BY DEF ConverterInv, atInstruction
<1>2. /\ m_idMap' = [p \in DOMAIN m_idMap \cup {here} |-> IF p = here THEN m_counter ELSE m_idMap[p]]
      /\ m_blockRules' = m_blockRules \o callRules \o rules
      /\ m_counter' = m_counter + 1 /\ m_nondef' = m_nondef + nondefs
      /\ m_controlPoints' = m_controlPoints \cup controls
      /\ i' = i + 1
      /\ UNCHANGED <<fn, options, pc, bb, m_trivial, m_vars, m_rules, m_returns>>
  BY DEF Emit, inputVars
<1>3. fn \in Functions /\ bb \in Nat /\ i \in Nat /\ m_counter \in Nat /\ m_nondef \in Nat
  BY <1>1 DEF Typed
<1>4. /\ NumbersApart'
      /\ DOMAIN m_idMap \subseteq DOMAIN m_idMap' /\ here \in DOMAIN m_idMap'
      /\ \A p \in DOMAIN m_idMap : m_idMap'[p] = m_idMap[p]
      /\ m_idMap'[here] = m_counter
  BY <1>1, <1>2, <1>3, NumberAdded
<1>5. IsSequence(rules) /\ ToSet(rules) = {rule(k) : k \in DOMAIN alternatives}
  <2>1. Len(alternatives) \in Nat /\ DOMAIN alternatives = 1 .. Len(alternatives)
    BY SequenceFacts
  <2>2. IsSequence(rules)
    BY <2>1, FunctionSequence
  <2> QED
    BY <2>2 DEF ToSet
<1>6. IsSequence(m_blockRules') /\ ToSet(m_blockRules') = ToSet(m_blockRules) \cup New
  <2> HIDE DEF rules
  <2>1. IsSequence(m_blockRules)
    BY <1>1 DEF Typed
  <2>2. /\ IsSequence(m_blockRules \o callRules)
        /\ ToSet(m_blockRules \o callRules) = ToSet(m_blockRules) \cup ToSet(callRules)
    BY <2>1, ConcatSequence
  <2> QED
    BY <1>2, <1>5, <2>2, ConcatSequence
<1>7. Rules' = Rules \cup New
  BY <1>2, <1>6 DEF Rules
<1>8. Typed'
  <2>1. Blocks' = Blocks
    BY <1>2 DEF Blocks
  <2>2. m_controlPoints' \subseteq Symbol /\ {startSymbol(m_function), stopSymbol} \subseteq m_controlPoints'
    BY <1>1, <1>2 DEF Typed
  <2>3. i' \in Nat /\ m_counter' \in Nat /\ m_nondef' \in Nat
    BY <1>2, <1>3
  <2> QED
    BY <1>1, <1>2, <1>6, <2>1, <2>2, <2>3 DEF Typed
<1>9. VarsOnce'
  BY <1>1, <1>2 DEF VarsOnce
<1>10. eval(m_counter) \in Symbol /\ eval(m_counter + 1) \in Symbol
  BY <1>3 DEF eval, Symbol
<1>11. ASSUME NEW r \in Rules
       PROVE  RuleTyped(r)' /\ Placed(r)'
  <2>1. RuleTyped(r)'
    BY <1>1, <1>2 DEF RuleTyped
  <2>2. Placed(r)'
    BY <1>1, <1>2, <1>4, PlacedKept
  <2> QED
    BY <2>1, <2>2
<1>12. ASSUME NEW r \in ToSet(callRules)
       PROVE  RuleTyped(r)' /\ Placed(r)'
  <2>1. r.right \in m_controlPoints' /\ r.right \in Symbol
    BY <1>2
  <2>2. Placed(r)'
    BY <2>1 DEF Placed
  <2>3. RuleTyped(r)'
    BY <1>10, <2>1 DEF RuleTyped
  <2> QED
    BY <2>2, <2>3
<1>13. ASSUME NEW r \in ToSet(rules)
       PROVE  /\ RuleTyped(r)' /\ Placed(r)'
              /\ r.left = eval(m_counter)
              /\ Nondefs(r) \subseteq m_nondef .. m_nondef + nondefs - 1
  <2>1. PICK k \in DOMAIN alternatives : r = rule(k)
    BY <1>5
  <2>2. r.left = eval(m_counter) /\ r.right = eval(m_counter + 1) /\ r.args = alternatives[k][1]
    BY <2>1 DEF Rule
  <2>3. alternatives[k] \in ToSet(alternatives)
    BY DEF ToSet
  <2>4. Nondefs(r) \subseteq m_nondef .. m_nondef + nondefs - 1
    <3> DEFINE m == m_nondef + nondefs
    <3>1. FreshArgs(r.args, m_nondef, m)
      BY <2>2, <2>3
    <3> HIDE DEF rules, New, m
    <3>2. Nondefs(r) \subseteq m_nondef .. m - 1
      BY <3>1, RuleNondefs
    <3>3. m - 1 = m_nondef + nondefs - 1
      BY <1>3 DEF m
    <3> QED
      BY <3>2, <3>3
  <2>5. Len(r.args) = Len(m_vars)
    BY <1>1, <2>2, <2>3, LengthOf
  <2>6. RuleTyped(r)'
    BY <1>2, <1>10, <2>2, <2>5 DEF RuleTyped, eval
  <2>7. Placed(r)'
    BY <1>4, <2>2 DEF Placed
  <2> QED
    BY <2>2, <2>4, <2>6, <2>7
<1>14. Fresh(Rules', m_nondef')
  <2> HIDE DEF rules
  <2>1. \A r \in New : Nondefs(r) \subseteq m_nondef .. m_nondef + nondefs - 1 /\ r.left = eval(m_counter)
    BY <1>13
  <2>2. m_nondef + nondefs \in Nat /\ m_nondef <= m_nondef + nondefs
    BY <1>3
  <2>3. \A r, q \in New : Nondefs(r) \cap Nondefs(q) # {} => r.left = q.left
    BY <2>1
  <2> DEFINE m == m_nondef + nondefs
  <2>4. \A r \in New : Nondefs(r) \subseteq m_nondef .. m - 1
    <3>1. m - 1 = m_nondef + nondefs - 1
      BY <1>3
    <3> HIDE DEF New, m
    <3> QED
      BY <2>1, <3>1
  <2>5. m \in Nat /\ m_nondef <= m
    BY <2>2
  <2> HIDE DEF New, m
  <2>6. Fresh(Rules \cup New, m)
    BY <1>1, <1>3, <2>3, <2>4, <2>5, FreshUnion
  <2> QED
    BY <1>2, <1>7, <2>6 DEF m
<1>15. Fresh(Rules, m_nondef)'
  BY <1>14 DEF Fresh, Nondefs
<1>16. \A r \in Rules' : RuleTyped(r)' /\ Placed(r)'
  <2> HIDE DEF rules
  <2> QED
    BY <1>7, <1>11, <1>12, <1>13
<1> QED
  BY <1>1, <1>2, <1>4, <1>8, <1>9, <1>15, <1>16 DEF ConverterInv

-----------------------------------------------------------------------------
(* Every instruction keeps the invariant.                                   *)

LEMMA InstructionTypes ==
  ASSUME fn \in Functions, NEW p \in Places
  PROVE  LET J == InstrAt(p)
         IN  /\ J \in InstructionsOf(fn)
             /\ J.op = "arith" => J.x \in {"var"} \X Register
             /\ J.op = "icmp" => J.x \in Operand
             /\ J.op \in {"assume", "zext"} => J.c \in Nat \X Nat
             /\ J.op = "select" => J.c \in Nat \X Nat /\ J.x \in Operand /\ J.y \in Operand
             /\ J.op \in {"load", "store"} => J.x \in Operand /\ J.alias \in Alias
             /\ J.op \in {"call", "callvoid"} => J.x \in Operand /\ J.callees \in Seq(DOMAIN fn.mayZap)
             /\ J.op \in {"arith", "nondef", "other", "fcmp", "icmp", "assume", "zext", "select",
                          "load", "store", "call", "callvoid"}
<1> DEFINE J == InstrAt(p)
<1>1. PICK b \in Blocks : \E k \in DOMAIN fn.code[b] : p = <<b, k>>
  BY DEF Places
<1>2. PICK k \in DOMAIN fn.code[b] : p = <<b, k>>
  BY <1>1
<1>3. J \in InstructionsOf(fn)
  <2>1. fn.code[b] \in Seq(InstructionsOf(fn)) /\ J = fn.code[b][k]
    BY <1>2, CodeFacts DEF InstrAt
  <2> QED
    BY <1>2, <2>1
<1> HIDE DEF J
<1>4. CASE J \in [op : {"arith"}, x : {"var"} \X Register]
  BY <1>3, <1>4 DEF J
<1>5. CASE J \in [op : {"nondef", "other", "fcmp"}]
  BY <1>3, <1>5 DEF J
<1>6. CASE J \in [op : {"icmp"}, x : Operand]
  BY <1>3, <1>6 DEF J
<1>7. CASE J \in [op : {"assume", "zext"}, c : Nat \X Nat]
  BY <1>3, <1>7 DEF J
<1>8. CASE J \in [op : {"select"}, c : Nat \X Nat, x : Operand, y : Operand]
  BY <1>3, <1>8 DEF J
<1>9. CASE J \in [op : {"load", "store"}, x : Operand, alias : Alias]
  BY <1>3, <1>9 DEF J
<1>10. CASE J \in [op : {"call", "callvoid"}, x : Operand, callees : Seq(DOMAIN fn.mayZap)]
  BY <1>3, <1>10 DEF J
<1> QED
  BY <1>3, <1>4, <1>5, <1>6, <1>7, <1>8, <1>9, <1>10 DEF InstructionsOf

LEMMA InstructionFacts ==
  ASSUME fn \in Functions, here \in Places
  PROVE  /\ I \in InstructionsOf(fn)
         /\ I.op = "select" => I.x \in Operand /\ I.y \in Operand
         /\ I.op \in {"load", "store"} => I.x \in Operand /\ I.alias \in Alias
         /\ I.op \in {"call", "callvoid"} => I.x \in Operand /\ I.callees \in Seq(DOMAIN fn.mayZap)
<1>1. InstrAt(here) = I
  BY DEF InstrAt, here, I
<1> QED
  BY <1>1, InstructionTypes

LEMMA PairSequence ==
  ASSUME NEW x, NEW y
  PROVE  IsSequence(<<x, y>>) /\ ToSet(<<x, y>>) = {x, y}
<1>1. ToSet(<<x, y>>) = {x, y}
  BY DEF ToSet
<1> QED
  BY <1>1 DEF IsSequence

(* An instruction with one alternative, or with two.                        *)
LEMMA EmitOneKeeps ==
  ASSUME ConverterInv, atInstruction, NEW nondefs \in Nat, NEW controls \in SUBSET Symbol,
         NEW args, DOMAIN args = DOMAIN m_vars, FreshArgs(args, m_nondef, m_nondef + nondefs), NEW cond,
         Emit(<<>>, << <<args, cond>> >>, nondefs, controls), UNCHANGED m_complexityLHSs
  PROVE  ConverterInv'
<1>1. m_complexityLHSs' \subseteq Symbol
  BY DEF ConverterInv, Typed
<1>2. IsSequence(<<>>) /\ \A r : r \notin ToSet(<<>>)
  BY EmptySequence
<1> DEFINE alternatives == << <<args, cond>> >>
<1>3. IsSequence(alternatives) /\ ToSet(alternatives) = {<<args, cond>>}
  BY SingletonSequence
<1>4. \A a \in ToSet(alternatives) :
        DOMAIN a[1] = DOMAIN m_vars /\ FreshArgs(a[1], m_nondef, m_nondef + nondefs)
  BY <1>3
<1>5. Emit(<<>>, alternatives, nondefs, controls)
  OBVIOUS
<1> HIDE DEF alternatives
<1> QED
  BY <1>1, <1>2, <1>3, <1>4, <1>5, EmitKeeps

LEMMA EmitTwoKeeps ==
  ASSUME ConverterInv, atInstruction, NEW nondefs \in Nat, NEW controls \in SUBSET Symbol,
         NEW args, DOMAIN args = DOMAIN m_vars, FreshArgs(args, m_nondef, m_nondef + nondefs), NEW cond,
         NEW more, DOMAIN more = DOMAIN m_vars, FreshArgs(more, m_nondef, m_nondef + nondefs), NEW other,
         Emit(<<>>, << <<args, cond>>, <<more, other>> >>, nondefs, controls), UNCHANGED m_complexityLHSs
  PROVE  ConverterInv'
<1>1. m_complexityLHSs' \subseteq Symbol
  BY DEF ConverterInv, Typed
<1>2. IsSequence(<<>>) /\ \A r : r \notin ToSet(<<>>)
  BY EmptySequence
<1> DEFINE alternatives == << <<args, cond>>, <<more, other>> >>
<1>3. IsSequence(alternatives) /\ ToSet(alternatives) = {<<args, cond>>, <<more, other>>}
  BY PairSequence
<1>4. \A a \in ToSet(alternatives) :
        DOMAIN a[1] = DOMAIN m_vars /\ FreshArgs(a[1], m_nondef, m_nondef + nondefs)
  BY <1>3
<1>5. Emit(<<>>, alternatives, nondefs, controls)
  OBVIOUS
<1> HIDE DEF alternatives
<1> QED
  BY <1>1, <1>2, <1>3, <1>4, <1>5, EmitKeeps

LEMMA CmpKeeps ==
  ASSUME ConverterInv, visitCmpInst
  PROVE  ConverterInv'
<1>1. /\ i' = i + 1 /\ pc = "instructions"
      /\ UNCHANGED <<fn, pc, bb, m_trivial, m_vars, m_counter, m_nondef, m_idMap, m_blockRules, m_rules,
                     m_returns, m_controlPoints, m_complexityLHSs>>
  BY DEF visitCmpInst, atInstruction, inputVars, counters, rulesVars
<1>2. Typed'
  BY <1>1 DEF ConverterInv, Typed, Blocks
<1>3. VarsOnce'
  BY <1>1 DEF ConverterInv, VarsOnce
<1>4. NumbersApart'
  <2>1. Places' = Places
    BY <1>1 DEF Places, Blocks
  <2>2. \A p \in DOMAIN m_idMap : p[2] \in Nat /\ (p[1] = bb => p[2] < i + 1)
    BY PlaceFacts DEF ConverterInv, Typed, NumbersApart
  <2> QED
    BY <1>1, <2>1, <2>2 DEF ConverterInv, NumbersApart
<1>5. Rules' = Rules
  BY <1>1 DEF Rules
<1>6. \A r \in Rules : RuleTyped(r)' /\ Placed(r)'
  <2>1. \A r \in Rules : RuleTyped(r) /\ Placed(r)
    BY DEF ConverterInv
  <2>2. \A r \in Rules : Placed(r)'
    BY <1>1, <2>1, PlacedKept
  <2> QED
    BY <1>1, <2>1, <2>2 DEF RuleTyped
<1>7. Fresh(Rules, m_nondef)'
  BY <1>1, <1>5 DEF ConverterInv, Fresh, Nondefs
<1> QED
  BY <1>1, <1>2, <1>3, <1>4, <1>5, <1>6, <1>7 DEF ConverterInv

LEMMA PlainKeeps ==
  ASSUME ConverterInv, visitArithmetic \/ visitInstruction \/ visitAssume
  PROVE  ConverterInv'
<1>1. m_nondef \in Nat /\ m_counter \in Nat
  BY DEF ConverterInv, Typed
<1>2. CASE visitArithmetic
  <2> DEFINE args == setResult(<<"one-", I.x[2]>>)
  <2>1. atInstruction /\ Emit(<<>>, << <<args, {}>> >>, 0, {}) /\ UNCHANGED m_complexityLHSs
    BY <1>2 DEF visitArithmetic
  <2>2. FreshArgs(args, m_nondef, m_nondef + 0) /\ DOMAIN args = DOMAIN m_vars
    BY NewArgsFresh DEF setResult, getNewArgs
  <2> HIDE DEF args
  <2> QED
    BY <2>1, <2>2, EmitOneKeeps
<1>3. CASE visitInstruction
  <2> DEFINE args == setResult(newNondef)
  <2>1. atInstruction /\ Emit(<<>>, << <<args, {}>> >>, 1, {}) /\ UNCHANGED m_complexityLHSs
    BY <1>3 DEF visitInstruction
  <2>2. DOMAIN args = DOMAIN m_vars
    BY DEF setResult, getNewArgs
  <2>3. newNondef[2] \in m_nondef .. (m_nondef + 1) - 1
    BY <1>1 DEF newNondef
  <2>4. FreshArgs(args, m_nondef, m_nondef + 1)
    BY <2>3, NewArgsFresh DEF setResult
  <2> HIDE DEF args
  <2> QED
    BY <2>1, <2>2, <2>4, EmitOneKeeps
<1>4. CASE visitAssume
  <2> DEFINE cond == IF options.onlyLoopConditions THEN {} ELSE getCondition(I.c, TRUE)
             controls == IF options.assumeIsControl THEN {eval(m_counter)} ELSE {}
  <2>1. atInstruction /\ Emit(<<>>, << <<m_lhs, cond>> >>, 0, controls) /\ UNCHANGED m_complexityLHSs
    BY <1>4 DEF visitAssume
  <2>2. FreshArgs(m_lhs, m_nondef, m_nondef + 0) /\ DOMAIN m_lhs = DOMAIN m_vars
    BY LhsFresh DEF m_lhs
  <2>3. controls \in SUBSET Symbol
    BY <1>1 DEF eval, Symbol
  <2> HIDE DEF cond, controls
  <2> QED
    BY <2>1, <2>2, <2>3, EmitOneKeeps
<1> QED
  BY <1>2, <1>3, <1>4

LEMMA SelectKeeps ==
  ASSUME ConverterInv, visitSelectInst
  PROVE  ConverterInv'
<1> DEFINE c(positive) == IF options.onlyLoopConditions THEN {} ELSE getCondition(I.c, positive)
           undef == IF I.x[1] = "undef" THEN 1 ELSE 0
           total == undef + (IF I.y[1] = "undef" THEN 1 ELSE 0)
           first == setResult(getPolynomial(I.x, m_nondef))
           second == setResult(getPolynomial(I.y, m_nondef + undef))
           controls == IF options.selectIsControl THEN {eval(m_counter)} ELSE {}
<1>1. /\ atInstruction /\ I.op = "select" /\ UNCHANGED m_complexityLHSs
      /\ Emit(<<>>, << <<first, c(TRUE)>>, <<second, c(FALSE)>> >>, total, controls)
  BY DEF visitSelectInst
<1>2. fn \in Functions /\ m_nondef \in Nat /\ m_counter \in Nat /\ here \in Places
  BY <1>1 DEF ConverterInv, Typed, atInstruction
<1>3. I.x \in Operand /\ I.y \in Operand
  BY <1>1, <1>2, InstructionFacts
<1>4. m_nondef + undef \in Nat /\ total \in Nat
  BY <1>2
<1>5. FreshArgs(first, m_nondef, m_nondef + total)
  <2> DEFINE p == getPolynomial(I.x, m_nondef)
  <2>1. p[1] = "nondef" => I.x[1] = "undef" /\ p[2] = m_nondef
    BY <1>2, <1>3, PolynomialFresh
  <2> HIDE DEF p
  <2>2. p[1] = "nondef" => p[2] \in m_nondef .. (m_nondef + total) - 1
    BY <1>2, <2>1
  <2> HIDE DEF total
  <2> QED
    BY <2>2, NewArgsFresh DEF setResult, p
<1>6. FreshArgs(second, m_nondef, m_nondef + total)
  <2> DEFINE p == getPolynomial(I.y, m_nondef + undef)
  <2>1. p[1] = "nondef" => I.y[1] = "undef" /\ p[2] = m_nondef + undef
    BY <1>3, <1>4, PolynomialFresh
  <2> HIDE DEF p
  <2>2. p[1] = "nondef" => p[2] \in m_nondef .. (m_nondef + total) - 1
    BY <1>2, <2>1
  <2> HIDE DEF total
  <2> QED
    BY <2>2, NewArgsFresh DEF setResult, p
<1>7. DOMAIN first = DOMAIN m_vars /\ DOMAIN second = DOMAIN m_vars
  BY DEF setResult, getNewArgs
<1>8. controls \in SUBSET Symbol
  BY <1>2 DEF eval, Symbol
<1> HIDE DEF c, total, first, second, controls
<1> QED
  BY <1>1, <1>4, <1>5, <1>6, <1>7, <1>8, EmitTwoKeeps

LEMMA ZExtKeeps ==
  ASSUME ConverterInv, visitZExtInst
  PROVE  ConverterInv'
<1> DEFINE first == setResult(<<"const", 0>>)
           second == setResult(<<"const", 1>>)
<1>1. /\ atInstruction /\ UNCHANGED m_complexityLHSs
      /\ Emit(<<>>, << <<first, getCondition(I.c, FALSE)>>, <<second, getCondition(I.c, TRUE)>> >>, 0, {})
  BY DEF visitZExtInst
<1>2. FreshArgs(first, m_nondef, m_nondef + 0) /\ FreshArgs(second, m_nondef, m_nondef + 0)
  BY NewArgsFresh DEF setResult
<1>3. DOMAIN first = DOMAIN m_vars /\ DOMAIN second = DOMAIN m_vars
  BY DEF setResult, getNewArgs
<1> HIDE DEF first, second
<1> QED
  BY <1>1, <1>2, <1>3, EmitTwoKeeps

LEMMA LoadKeeps ==
  ASSUME ConverterInv, visitLoadInst
  PROVE  ConverterInv'
<1> DEFINE musts == loadMust(I.alias)
           known == setResult(<<"var", the(musts)>>)
           any == setResult(newNondef)
<1>1. atInstruction /\ UNCHANGED m_complexityLHSs
  BY DEF visitLoadInst
<1>2. \/ Emit(<<>>, << <<known, {}>> >>, 0, {})
      \/ Emit(<<>>, << <<any, {}>> >>, 1, {})
  BY DEF visitLoadInst
<1>3. m_nondef \in Nat
  BY DEF ConverterInv, Typed
<1>4. FreshArgs(known, m_nondef, m_nondef + 0)
  BY NewArgsFresh DEF setResult
<1>5. FreshArgs(any, m_nondef, m_nondef + 1)
  <2>1. newNondef[2] \in m_nondef .. (m_nondef + 1) - 1
    BY <1>3 DEF newNondef
  <2> QED
    BY <2>1, NewArgsFresh DEF setResult
<1>6. DOMAIN known = DOMAIN m_vars /\ DOMAIN any = DOMAIN m_vars
  BY DEF setResult, getNewArgs
<1> HIDE DEF known, any
<1> QED
  BY <1>1, <1>2, <1>4, <1>5, <1>6, EmitOneKeeps

LEMMA StoreKeeps ==
  ASSUME ConverterInv, visitStoreInst
  PROVE  ConverterInv'
<1> DEFINE mays == maySet(I.alias)
           musts == storeMust(I.alias)
           undef == IF I.x[1] = "undef" THEN 1 ELSE 0
           stored == getNewArgs(the(musts), getPolynomial(I.x, m_nondef))
           zapped == getZappedArgs(mays, m_nondef, m_lhs)
<1>1. atInstruction /\ I.op = "store"
  BY DEF visitStoreInst
<1>2. fn \in Functions /\ m_nondef \in Nat /\ here \in Places /\ VarsOnce
  BY <1>1 DEF ConverterInv, Typed, atInstruction
<1>3. I.x \in Operand /\ I.alias \in Alias
  BY <1>1, <1>2, InstructionFacts
<1>4. CASE musts # {} /\ ~unique(mays, musts)
  <2>1. /\ pc' = "exit" /\ pc = "instructions"
        /\ UNCHANGED <<fn, bb, i, m_trivial, m_vars, m_counter, m_nondef, m_idMap, m_blockRules, m_rules,
                       m_returns, m_controlPoints, m_complexityLHSs>>
    BY <1>1, <1>4 DEF visitStoreInst, atInstruction, inputVars, counters, rulesVars
  <2>2. Typed'
    BY <2>1 DEF ConverterInv, Typed, Blocks
  <2>3. VarsOnce'
    BY <2>1 DEF ConverterInv, VarsOnce
  <2>4. NumbersApart'
    <3>1. Places' = Places
      BY <2>1 DEF Places, Blocks
    <3> QED
      BY <2>1, <3>1 DEF ConverterInv, NumbersApart
  <2>5. Rules' = Rules
    BY <2>1 DEF Rules
  <2>6. \A r \in Rules : RuleTyped(r)' /\ Placed(r)'
    <3>1. \A r \in Rules : RuleTyped(r) /\ Placed(r)
      BY DEF ConverterInv
    <3>2. \A r \in Rules : Placed(r)'
      BY <2>1, <3>1, PlacedKept
    <3> QED
      BY <2>1, <3>1, <3>2 DEF RuleTyped
  <2>7. Fresh(Rules, m_nondef)'
    BY <2>1, <2>5 DEF ConverterInv, Fresh, Nondefs
  <2> QED
    BY <2>1, <2>2, <2>3, <2>4, <2>5, <2>6, <2>7 DEF ConverterInv
<1>5. CASE ~(musts # {} /\ ~unique(mays, musts)) /\ musts # {}
  <2>1. Emit(<<>>, << <<stored, {}>> >>, undef, {}) /\ UNCHANGED m_complexityLHSs
    BY <1>5 DEF visitStoreInst
  <2> DEFINE p == getPolynomial(I.x, m_nondef)
  <2>2. p[1] = "nondef" => I.x[1] = "undef" /\ p[2] = m_nondef
    BY <1>2, <1>3, PolynomialFresh
  <2>3. p[1] = "nondef" => p[2] \in m_nondef .. (m_nondef + undef) - 1
    <3> HIDE DEF p
    <3> QED
      BY <1>2, <2>2
  <2>4. undef \in Nat
    OBVIOUS
  <2> HIDE DEF undef
  <2>5. FreshArgs(stored, m_nondef, m_nondef + undef) /\ DOMAIN stored = DOMAIN m_vars
    BY <2>3, NewArgsFresh DEF getNewArgs
  <2> HIDE DEF stored
  <2> QED
    BY <1>1, <2>1, <2>4, <2>5, EmitOneKeeps
<1>6. CASE ~(musts # {} /\ ~unique(mays, musts)) /\ musts = {}
  <2>1. Emit(<<>>, << <<zapped, {}>> >>, Cardinality(mays), {}) /\ UNCHANGED m_complexityLHSs
    BY <1>6 DEF visitStoreInst
  <2>2. mays \in SUBSET Globals
    BY <1>3 DEF Alias, maySet
  <2>3. FreshArgs(m_lhs, m_nondef, m_nondef) /\ DOMAIN m_lhs = DOMAIN m_vars
    BY LhsFresh DEF m_lhs
  <2> HIDE DEF mays
  <2>4. FreshArgs(zapped, m_nondef, m_nondef + Cardinality(mays)) /\ Cardinality(mays) \in Nat
    BY <1>2, <2>2, <2>3, ZappedFresh
  <2>5. DOMAIN zapped = DOMAIN m_vars
    BY DEF getZappedArgs
  <2> HIDE DEF zapped
  <2> QED
    BY <1>1, <2>1, <2>4, <2>5, EmitOneKeeps
<1> QED
  BY <1>4, <1>5, <1>6

LEMMA CalleesFacts ==
  ASSUME fn \in Functions, here \in Places, I.op \in {"call", "callvoid"}
  PROVE  /\ IsSequence(calleesOfInterest) /\ ToSet(calleesOfInterest) \subseteq Nat
         /\ toZap \in SUBSET Globals
<1> DEFINE F == DOMAIN fn.mayZap
           some == [k \in DOMAIN I.callees |-> ofInterest(I.callees[k])]
<1>1. I.callees \in Seq(F) /\ F \subseteq Nat /\ \A g \in F : fn.mayZap[g] \subseteq Globals
  BY InstructionFacts, FunctionsAssumption
<1> HIDE DEF F
<1>2. /\ Len(I.callees) \in Nat /\ DOMAIN I.callees = 1 .. Len(I.callees)
      /\ ToSet(I.callees) \subseteq F
  BY <1>1, SequenceOf
<1>3. \A k \in DOMAIN some : some[k] \in Seq(F)
  <2> SUFFICES ASSUME NEW k \in DOMAIN I.callees
               PROVE  ofInterest(I.callees[k]) \in Seq(F)
    OBVIOUS
  <2>1. I.callees[k] \in F
    BY <1>1
  <2> QED
    BY <2>1 DEF ofInterest
<1>4. /\ DOMAIN some = 1 .. Len(some) /\ Len(some) \in Nat
      /\ some = [k \in 1 .. Len(some) |-> some[k]]
  BY <1>2
<1> HIDE DEF some
<1>5. FlattenSeq(some) \in Seq(F)
  BY <1>3, <1>4, FlattenType
<1>6. calleesOfInterest \in Seq(F)
  BY <1>5 DEF calleesOfInterest, some
<1>7. toZap \in SUBSET Globals
  BY <1>1, <1>2 DEF toZap
<1> QED
  BY <1>1, <1>6, <1>7, SequenceOf

LEMMA CallKeeps ==
  ASSUME ConverterInv, visitCallInst
  PROVE  ConverterInv'
<1> DEFINE passed == IF I.x[1] = "undef" THEN Len(calleesOfInterest) ELSE 0
           result == IF I.op = "call" THEN 1 ELSE 0
           args == IF I.op = "call" THEN setResult(<<"nondef", m_nondef + passed>>) ELSE m_lhs
           callRule(k) == Rule(eval(m_counter), startSymbol(calleesOfInterest[k]), callArgs(m_nondef + k - 1), {})
           callRules == [k \in DOMAIN calleesOfInterest |-> callRule(k)]
           zapped == getZappedArgs(toZap, m_nondef + passed + result, args)
           total == passed + result + zapNondefs
<1>1. /\ atInstruction /\ I.op \in {"call", "callvoid"}
      /\ Emit(callRules, << <<zapped, {}>> >>, total, callControls)
      /\ m_complexityLHSs' =
           IF options.complexityTuples THEN m_complexityLHSs \cup {eval(m_counter)} ELSE m_complexityLHSs
  BY DEF visitCallInst
<1>2. /\ fn \in Functions /\ m_nondef \in Nat /\ m_counter \in Nat /\ here \in Places /\ VarsOnce
      /\ m_complexityLHSs \subseteq Symbol
  BY <1>1 DEF ConverterInv, Typed, atInstruction
<1>3. /\ IsSequence(calleesOfInterest) /\ ToSet(calleesOfInterest) \subseteq Nat
      /\ toZap \in SUBSET Globals /\ I.x \in Operand
  BY <1>1, <1>2, CalleesFacts, InstructionFacts
<1>4. /\ Len(calleesOfInterest) \in Nat /\ DOMAIN calleesOfInterest = 1 .. Len(calleesOfInterest)
      /\ passed \in Nat /\ result \in Nat
  BY <1>3, SequenceFacts
<1>5. zapNondefs = Cardinality(toZap) /\ Cardinality(toZap) \in Nat
  BY <1>3, FunctionsAssumption, FS_Subset, FS_CardinalityType DEF zapNondefs
<1>6. total \in Nat /\ callControls \in SUBSET Symbol /\ m_complexityLHSs' \subseteq Symbol
  <2>1. eval(m_counter) \in Symbol /\ eval(m_counter + 1) \in Symbol
    BY <1>2 DEF eval, Symbol
  <2>2. {startSymbol(f) : f \in ToSet(calleesOfInterest)} \subseteq Symbol
    BY <1>3 DEF startSymbol, Symbol
  <2>3. callControls \in SUBSET Symbol
    BY <2>1, <2>2 DEF callControls
  <2>4. total \in Nat
    <3> HIDE DEF passed, result
    <3> QED
      BY <1>4, <1>5
  <2> QED
    BY <1>1, <1>2, <2>1, <2>3, <2>4
<1>7. FreshArgs(zapped, m_nondef, m_nondef + total) /\ DOMAIN zapped = DOMAIN m_vars
  <2> DEFINE l == m_nondef + passed + result
  <2>1. FreshArgs(args, m_nondef, l) /\ DOMAIN args = DOMAIN m_vars
    <3>1. CASE I.op = "call"
      <4>1. m_nondef + passed \in m_nondef .. l - 1
        <5>1. result = 1
          BY <3>1
        <5> HIDE DEF passed, result
        <5> QED
          BY <1>2, <1>4, <5>1
      <4> HIDE DEF passed, l
      <4>2. FreshArgs(setResult(<<"nondef", m_nondef + passed>>), m_nondef, l)
        BY <4>1, NewArgsFresh DEF setResult
      <4> QED
        BY <3>1, <4>2 DEF setResult, getNewArgs
    <3>2. CASE I.op # "call"
      BY <3>2, LhsFresh DEF m_lhs
    <3> QED
      BY <3>1, <3>2
  <2>2. l \in Nat /\ m_nondef <= l
    <3> HIDE DEF passed, result
    <3> QED
      BY <1>2, <1>4
  <2>3. l + Cardinality(toZap) = m_nondef + total
    <3> HIDE DEF passed, result
    <3> QED
      BY <1>2, <1>4, <1>5
  <2>4. zapped = getZappedArgs(toZap, l, args)
    OBVIOUS
  <2> HIDE DEF args, l, total, zapped
  <2>5. FreshArgs(zapped, m_nondef, l + Cardinality(toZap))
    BY <1>2, <1>3, <2>1, <2>2, <2>4, ZappedFresh
  <2> QED
    BY <2>3, <2>4, <2>5 DEF getZappedArgs
<1>8. IsSequence(callRules) /\ ToSet(callRules) = {callRule(k) : k \in DOMAIN calleesOfInterest}
  <2>1. IsSequence(callRules)
    BY <1>4, FunctionSequence
  <2> QED
    BY <2>1 DEF ToSet
<1>9. ASSUME NEW r \in ToSet(callRules)
      PROVE  /\ r.left = eval(m_counter) /\ r.right \in callControls
             /\ r.right[1] = "start" /\ Len(r.args) = Len(variables)
             /\ Nondefs(r) \subseteq m_nondef .. m_nondef + total - 1
  <2>1. PICK k \in DOMAIN calleesOfInterest : r = callRule(k)
    BY <1>8
  <2>2. /\ r.left = eval(m_counter) /\ r.right = startSymbol(calleesOfInterest[k])
        /\ r.args = callArgs(m_nondef + k - 1)
    BY <2>1 DEF Rule
  <2>3. r.right \in callControls /\ r.right[1] = "start"
    BY <2>2 DEF callControls, startSymbol, ToSet
  <2>4. Len(r.args) = Len(variables)
    <3>1. Len(variables) \in Nat /\ DOMAIN variables = 1 .. Len(variables)
      BY VariablesFacts, SequenceFacts
    <3> QED
      BY <2>2, <3>1 DEF callArgs
  <2>5. FreshArgs(r.args, m_nondef, m_nondef + total)
    <3> DEFINE n == m_nondef + k - 1
               p == getPolynomial(I.x, n)
    <3>1. k \in 1 .. Len(calleesOfInterest) /\ n \in Nat
      BY <1>2, <1>4
    <3>2. p[1] = "nondef" => I.x[1] = "undef" /\ p[2] = n
      BY <1>3, <3>1, PolynomialFresh
    <3> HIDE DEF p
    <3>3. p[1] = "nondef" => p[2] \in m_nondef .. (m_nondef + total) - 1
      <4> SUFFICES ASSUME p[1] = "nondef"
                   PROVE  n \in m_nondef .. (m_nondef + total) - 1
        BY <3>2
      <4>1. passed = Len(calleesOfInterest)
        BY <3>2
      <4> HIDE DEF passed, result
      <4> QED
        BY <1>2, <1>4, <1>5, <3>1, <4>1
    <3>4. DOMAIN r.args = DOMAIN variables
      BY <2>2 DEF callArgs
    <3>5. \A j \in DOMAIN variables : r.args[j] \in {p, <<"var", variables[j]>>}
      BY <2>2 DEF callArgs, p
    <3> HIDE DEF total, n, callRules
    <3>6. ASSUME NEW j \in DOMAIN r.args, r.args[j][1] = "nondef"
          PROVE  r.args[j][2] \in m_nondef .. (m_nondef + total) - 1
      <4>1. r.args[j] = p
        BY <3>4, <3>5, <3>6
      <4> QED
        BY <3>3, <3>6, <4>1
    <3> QED
      BY <3>6 DEF FreshArgs
  <2>6. Nondefs(r) \subseteq m_nondef .. m_nondef + total - 1
    <3> DEFINE m == m_nondef + total
    <3> HIDE DEF total, callRules
    <3>1. m - 1 = m_nondef + total - 1
      BY <1>2, <1>6
    <3>2. FreshArgs(r.args, m_nondef, m)
      BY <2>5
    <3> HIDE DEF m
    <3>3. Nondefs(r) \subseteq m_nondef .. m - 1
      BY <3>2, RuleNondefs
    <3> QED
      BY <3>1, <3>3
  <2> QED
    BY <2>2, <2>3, <2>4, <2>6
<1> DEFINE alternatives == << <<zapped, {}>> >>
<1>10. IsSequence(alternatives) /\ ToSet(alternatives) = {<<zapped, {}>>}
  BY SingletonSequence
<1>11. \A a \in ToSet(alternatives) :
         DOMAIN a[1] = DOMAIN m_vars /\ FreshArgs(a[1], m_nondef, m_nondef + total)
  <2> HIDE DEF zapped, total, alternatives
  <2> QED
    BY <1>7, <1>10
<1>12. Emit(callRules, alternatives, total, callControls)
  BY <1>1
<1> HIDE DEF alternatives, callRules, total
<1> QED
  BY <1>1, <1>6, <1>8, <1>9, <1>10, <1>11, <1>12, EmitKeeps

-----------------------------------------------------------------------------
(* Every other step keeps the invariant.                                    *)

LEMMA LhsNondefs ==
  ASSUME NEW r, r.args = m_lhs
  PROVE  Nondefs(r) = {}
<1>1. \A q \in ToSet(m_lhs) : q[1] # "nondef"
  BY DEF m_lhs, ToSet
<1> QED
  BY <1>1 DEF Nondefs

LEMMA RulesKept ==
  ASSUME ConverterInv, UNCHANGED <<fn, m_vars, m_idMap>>, m_controlPoints \subseteq m_controlPoints'
  PROVE  \A r \in Rules : RuleTyped(r)' /\ Placed(r)'
<1>1. \A r \in Rules : RuleTyped(r) /\ Placed(r)
  BY DEF ConverterInv
<1>2. \A r \in Rules : Placed(r)'
  BY <1>1, PlacedKept
<1> QED
  BY <1>1, <1>2 DEF RuleTyped

(* Rules without a nondef are added.                                        *)
LEMMA PlainRulesFresh ==
  ASSUME ConverterInv, m_nondef' = m_nondef, NEW N, \A r \in N : Nondefs(r) = {}, Rules' \subseteq Rules \cup N
  PROVE  Fresh(Rules, m_nondef)'
<1>1. Fresh(Rules, m_nondef)
  BY DEF ConverterInv
<1>2. Fresh(Rules', m_nondef)
  BY <1>1 DEF Fresh
<1> QED
  BY <1>2 DEF Fresh, Nondefs

LEMMA Phase1Keeps ==
  ASSUME ConverterInv, phase1
  PROVE  ConverterInv'
<1>1. /\ pc = "phase1" /\ pc' = "phase2" /\ m_trivial' = isTrivial
      /\ m_vars' = IF isTrivial THEN variables ELSE allVariables
      /\ UNCHANGED <<fn, bb, i, m_counter, m_nondef, m_idMap, m_blockRules, m_rules, m_returns,
                     m_controlPoints, m_complexityLHSs>>
  BY DEF phase1, inputVars, counters, rulesVars
<1>2. Rules' = {}
  BY <1>1 DEF ConverterInv, Rules
<1>3. Typed'
  BY <1>1 DEF ConverterInv, Typed, Blocks
<1>4. VarsOnce'
  <2>1. fn \in Functions
    BY DEF ConverterInv, Typed
  <2> QED
    BY <1>1, <2>1, VariablesFacts, AllVariablesFacts DEF VarsOnce
<1>5. NumbersApart'
  <2>1. Places' = Places
    BY <1>1 DEF Places, Blocks
  <2> QED
    BY <1>1, <2>1 DEF ConverterInv, NumbersApart
<1>6. Fresh(Rules, m_nondef)'
  BY <1>2 DEF Fresh
<1> QED
  BY <1>1, <1>2, <1>3, <1>4, <1>5, <1>6 DEF ConverterInv

LEMMA TrivialKeeps ==
  ASSUME ConverterInv, phase2Trivial
  PROVE  ConverterInv'
<1> DEFINE rule == Rule(startSymbol(m_function), stopSymbol, m_lhs, {})
<1>1. /\ pc = "phase2" /\ pc' = "ready" /\ m_rules' = <<rule>>
      /\ UNCHANGED <<fn, bb, i, m_trivial, m_vars, m_counter, m_nondef, m_idMap, m_blockRules, m_returns,
                     m_controlPoints, m_complexityLHSs>>
  BY DEF phase2Trivial, inputVars, counters
<1>2. IsSequence(<<rule>>) /\ ToSet(<<rule>>) = {rule}
  BY SingletonSequence
<1>3. rule.left = startSymbol(m_function) /\ rule.right = stopSymbol /\ rule.args = m_lhs
  BY DEF Rule
<1> HIDE DEF rule
<1>4. Rules' \subseteq Rules \cup {rule}
  BY <1>1, <1>2 DEF Rules
<1>5. Typed'
  BY <1>1, <1>2 DEF ConverterInv, Typed, Blocks
<1>6. VarsOnce'
  BY <1>1 DEF ConverterInv, VarsOnce
<1>7. NumbersApart'
  <2>1. Places' = Places
    BY <1>1 DEF Places, Blocks
  <2> QED
    BY <1>1, <2>1 DEF ConverterInv, NumbersApart
<1>8. ASSUME NEW r, r = rule
      PROVE  RuleTyped(r)' /\ Placed(r)'
  <2>1. startSymbol(m_function) \in m_controlPoints'
    BY <1>1 DEF ConverterInv, Typed
  <2>2. Placed(r)'
    BY <1>3, <1>8, <2>1 DEF Placed
  <2>3. Len(m_lhs) = Len(m_vars)
    BY LengthOf DEF ConverterInv, m_lhs
  <2>4. {r.left, r.right} \subseteq Symbol /\ r.right[1] # "start"
    BY <1>3, <1>8 DEF startSymbol, stopSymbol, m_function, Symbol
  <2> QED
    BY <1>1, <1>3, <1>8, <2>2, <2>3, <2>4 DEF RuleTyped
<1>9. Fresh(Rules, m_nondef)'
  <2>1. \A r \in {rule} : Nondefs(r) = {}
    BY <1>3, LhsNondefs
  <2> QED
    BY <1>1, <1>4, <2>1, PlainRulesFresh
<1>10. \A r \in Rules : RuleTyped(r)' /\ Placed(r)'
  BY <1>1, RulesKept
<1> QED
  BY <1>1, <1>4, <1>5, <1>6, <1>7, <1>8, <1>9, <1>10 DEF ConverterInv

LEMMA RunKeeps ==
  ASSUME ConverterInv, StartRun \/ Run \/ UNCHANGED vars
  PROVE  ConverterInv'
<1>1. /\ pc' = pc \/ (pc = "ready" /\ pc' = "run")
      /\ UNCHANGED <<fn, bb, i, m_trivial, m_vars, m_counter, m_nondef, m_idMap, m_blockRules, m_rules, m_returns,
                     m_controlPoints, m_complexityLHSs>>
  BY DEF StartRun, Run, vars, inputVars, counters, rulesVars
<1>2. Rules' = Rules
  BY <1>1 DEF Rules
<1>3. Typed'
  BY <1>1 DEF ConverterInv, Typed, Blocks
<1>4. VarsOnce'
  BY <1>1 DEF ConverterInv, VarsOnce
<1>5. NumbersApart'
  <2>1. Places' = Places
    BY <1>1 DEF Places, Blocks
  <2> QED
    BY <1>1, <2>1 DEF ConverterInv, NumbersApart
<1>6. Fresh(Rules, m_nondef)'
  <2> DEFINE N == {}
  <2>1. (\A r \in N : Nondefs(r) = {}) /\ Rules' \subseteq Rules \cup N
    BY <1>2
  <2> HIDE DEF N
  <2> QED
    BY <1>1, <2>1, PlainRulesFresh
<1>7. \A r \in Rules : RuleTyped(r)' /\ Placed(r)'
  BY <1>1, RulesKept
<1> QED
  BY <1>1, <1>2, <1>3, <1>4, <1>5, <1>6, <1>7 DEF ConverterInv

LEMMA ControlType ==
  ASSUME NEW b \in Nat
  PROVE  inSymbol(b) \in Symbol /\ outSymbol(b) \in Symbol /\ control(b) \subseteq Symbol
BY DEF inSymbol, outSymbol, control, Symbol

LEMMA EnterKeeps ==
  ASSUME ConverterInv, EnterBB
  PROVE  ConverterInv'
<1> DEFINE rule == Rule(startSymbol(m_function), inSymbol(bb), m_lhs, {})
           N == IF bb = entry THEN {rule} ELSE {}
<1>1. /\ pc = "phase2" /\ bb \in Blocks /\ pc' = "instructions" /\ i' = 1 /\ m_blockRules' = <<>>
      /\ m_returns' = IF fn.succ[bb] = <<>> /\ bb \notin fn.unreachable THEN Append(m_returns, bb) ELSE m_returns
      /\ \/ bb = entry /\ m_rules' = Append(m_rules, rule) /\ m_controlPoints' = m_controlPoints \cup control(bb)
         \/ bb # entry /\ m_rules' = m_rules /\ m_controlPoints' = m_controlPoints
      /\ UNCHANGED <<fn, bb, m_trivial, m_vars, m_counter, m_nondef, m_idMap, m_complexityLHSs>>
  BY DEF EnterBB, inputVars, counters
<1>2. rule.left = startSymbol(m_function) /\ rule.right = inSymbol(bb) /\ rule.args = m_lhs
  BY DEF Rule
<1> HIDE DEF rule
<1>3. bb \in Nat /\ IsSequence(m_rules) /\ IsSequence(m_returns) /\ ToSet(m_returns) \subseteq Blocks
  BY DEF ConverterInv, Typed
<1>4. IsSequence(m_rules') /\ ToSet(m_rules') = ToSet(m_rules) \cup N
  BY <1>1, <1>3, AppendSequence
<1>5. IsSequence(m_blockRules') /\ ToSet(m_blockRules') = {}
  BY <1>1, EmptySequence
<1>6. Rules' \subseteq Rules \cup N
  BY <1>4, <1>5 DEF Rules
<1>7. Typed'
  <2>1. IsSequence(m_returns') /\ ToSet(m_returns') \subseteq Blocks
    BY <1>1, <1>3, AppendSequence
  <2>2. Blocks' = Blocks
    BY <1>1 DEF Blocks
  <2>3. m_controlPoints \subseteq m_controlPoints' /\ m_controlPoints' \subseteq Symbol
    BY <1>1, <1>3, ControlType DEF ConverterInv, Typed
  <2> QED
    BY <1>1, <1>4, <1>5, <2>1, <2>2, <2>3 DEF ConverterInv, Typed
<1>8. VarsOnce'
  BY <1>1 DEF ConverterInv, VarsOnce
<1>9. NumbersApart'
  <2>1. Places' = Places
    BY <1>1 DEF Places, Blocks
  <2>2. \A p \in DOMAIN m_idMap : p[1] # bb
    BY <1>1 DEF ConverterInv, NumbersApart
  <2> QED
    BY <1>1, <2>1, <2>2 DEF ConverterInv, NumbersApart
<1>10. ASSUME NEW r, r = rule
       PROVE  RuleTyped(r)' /\ Placed(r)'
  <2>1. startSymbol(m_function) \in m_controlPoints'
    BY <1>1 DEF ConverterInv, Typed
  <2>2. Placed(r)'
    BY <1>2, <1>10, <2>1 DEF Placed
  <2>3. Len(m_lhs) = Len(m_vars)
    BY LengthOf DEF ConverterInv, m_lhs
  <2>4. {r.left, r.right} \subseteq Symbol /\ r.right[1] # "start"
    BY <1>2, <1>3, <1>10, ControlType DEF startSymbol, inSymbol, m_function, Symbol
  <2> QED
    BY <1>1, <1>2, <1>10, <2>2, <2>3, <2>4 DEF RuleTyped
<1>11. Fresh(Rules, m_nondef)'
  <2>1. \A r \in N : Nondefs(r) = {}
    BY <1>2, LhsNondefs
  <2> HIDE DEF N
  <2> QED
    BY <1>1, <1>6, <2>1, PlainRulesFresh
<1>12. \A r \in Rules : RuleTyped(r)' /\ Placed(r)'
  BY <1>1, RulesKept
<1> QED
  BY <1>1, <1>6, <1>7, <1>8, <1>9, <1>10, <1>11, <1>12 DEF ConverterInv

LEMMA ReturnsKeeps ==
  ASSUME ConverterInv, AddReturns
  PROVE  ConverterInv'
<1> DEFINE rule(k) == Rule(outSymbol(m_returns[k]), stopSymbol, m_lhs, {})
           rules == [k \in DOMAIN m_returns |-> rule(k)]
           N == ToSet(rules)
<1>1. /\ pc = "phase2" /\ pc' = "ready" /\ m_rules' = m_rules \o rules
      /\ UNCHANGED <<fn, bb, i, m_trivial, m_vars, m_counter, m_nondef, m_idMap, m_blockRules, m_returns,
                     m_controlPoints, m_complexityLHSs>>
  BY DEF AddReturns, inputVars, counters
<1>2. IsSequence(m_rules) /\ IsSequence(m_returns) /\ ToSet(m_returns) \subseteq Blocks /\ Blocks \subseteq Nat
  BY GraphFacts DEF ConverterInv, Typed
<1>3. IsSequence(rules) /\ N = {rule(k) : k \in DOMAIN m_returns}
  <2>1. Len(m_returns) \in Nat /\ DOMAIN m_returns = 1 .. Len(m_returns)
    BY <1>2, SequenceFacts
  <2>2. IsSequence(rules)
    BY <2>1, FunctionSequence
  <2> QED
    BY <2>2 DEF ToSet
<1>4. ASSUME NEW r \in N
      PROVE  \E b \in Nat : r.left = outSymbol(b) /\ r.right = stopSymbol /\ r.args = m_lhs
  <2>1. PICK k \in DOMAIN m_returns : r = rule(k)
    BY <1>3
  <2>2. m_returns[k] \in Nat
    BY <1>2 DEF ToSet
  <2> QED
    BY <2>1, <2>2 DEF Rule
<1> HIDE DEF rules
<1>5. IsSequence(m_rules') /\ ToSet(m_rules') = ToSet(m_rules) \cup N
  BY <1>1, <1>2, <1>3, ConcatSequence
<1> HIDE DEF N
<1>6. Rules' = Rules \cup N
  BY <1>1, <1>5 DEF Rules
<1>7. Typed'
  BY <1>1, <1>5 DEF ConverterInv, Typed, Blocks
<1>8. VarsOnce'
  BY <1>1 DEF ConverterInv, VarsOnce
<1>9. NumbersApart'
  <2>1. Places' = Places
    BY <1>1 DEF Places, Blocks
  <2> QED
    BY <1>1, <2>1 DEF ConverterInv, NumbersApart
<1>10. ASSUME NEW r \in N
       PROVE  RuleTyped(r)' /\ Placed(r)'
  <2>1. PICK b \in Nat : r.left = outSymbol(b) /\ r.right = stopSymbol /\ r.args = m_lhs
    BY <1>4
  <2>2. stopSymbol \in m_controlPoints' /\ stopSymbol \in Symbol
    BY <1>1 DEF ConverterInv, Typed
  <2>3. Placed(r)'
    BY <2>1, <2>2 DEF Placed
  <2>4. Len(m_lhs) = Len(m_vars)
    BY LengthOf DEF ConverterInv, m_lhs
  <2>5. {r.left, r.right} \subseteq Symbol /\ r.right[1] # "start"
    BY <2>1, <2>2, ControlType DEF stopSymbol
  <2> QED
    BY <1>1, <2>1, <2>3, <2>4, <2>5 DEF RuleTyped
<1>11. Fresh(Rules, m_nondef)'
  <2>1. \A r \in N : Nondefs(r) = {}
    BY <1>4, LhsNondefs
  <2> QED
    BY <1>1, <1>6, <2>1, PlainRulesFresh
<1>12. \A r \in Rules : RuleTyped(r)' /\ Placed(r)'
  BY <1>1, RulesKept
<1> QED
  BY <1>1, <1>6, <1>7, <1>8, <1>9, <1>10, <1>11, <1>12 DEF ConverterInv

(* The first and the last number of a block.                                *)
LEMMA NumberedEnds ==
  ASSUME fn \in Functions, NEW b \in Blocks, numbered(b) # {}
  PROVE  firstID(b) \in Ids(b) /\ lastID(b) \in Ids(b)
<1> DEFINE n == Len(fn.code[b])
           K == {n - k : k \in numbered(b)}
<1>1. n \in Nat /\ DOMAIN fn.code[b] = 1 .. n
  BY CodeFacts
<1>2. numbered(b) \subseteq 1 .. n
  BY <1>1 DEF numbered
<1>3. Min(numbered(b)) \in numbered(b)
  <2>1. PICK z \in numbered(b) : \A w \in numbered(b) : z =< w
    BY <1>2, LeastElement
  <2> QED
    BY <2>1 DEF Min
<1>4. Max(numbered(b)) \in numbered(b)
  <2>1. K \in SUBSET Nat /\ K # {}
    BY <1>1, <1>2
  <2>2. PICK z \in K : \A w \in K : z =< w
    BY <2>1, LeastElement
  <2>3. PICK k \in numbered(b) : z = n - k
    BY <2>2
  <2>4. ASSUME NEW l \in numbered(b)
        PROVE  k >= l
    <3>1. z =< n - l
      BY <2>2
    <3>2. k \in Nat /\ l \in Nat
      BY <1>1, <1>2
    <3> HIDE DEF n
    <3> QED
      BY <1>1, <2>3, <3>1, <3>2
  <2> QED
    BY <2>4 DEF Max
<1>5. ASSUME NEW k \in numbered(b)
      PROVE  m_idMap[<<b, k>>] \in Ids(b)
  <2>1. <<b, k>> \in DOMAIN m_idMap /\ <<b, k>>[1] = b
    BY DEF numbered
  <2> QED
    BY <2>1 DEF Ids
<1> QED
  BY <1>3, <1>4, <1>5 DEF firstID, lastID

(* A jump passes nondefs that follow those of the jumps before it.           *)
LEMMA JumpFacts ==
  ASSUME fn \in Functions, bb \in Blocks, m_nondef \in Nat, NEW k \in DOMAIN fn.succ[bb], NEW cond
  PROVE  LET r == jump(k, cond)
         IN  /\ r.left = outSymbol(bb) /\ r.right = inSymbol(fn.succ[bb][k]) /\ DOMAIN r.args = DOMAIN m_vars
             /\ jumpNondefs(Len(fn.succ[bb])) \in Nat
             /\ FreshArgs(r.args, m_nondef, m_nondef + jumpNondefs(Len(fn.succ[bb])))
<1> DEFINE n == Len(fn.succ[bb])
           u(j) == undefIncoming(bb, fn.succ[bb][j])
           from == m_nondef + jumpNondefs(k - 1)
           args == getArgsWithPhis(bb, fn.succ[bb][k], from)
<1>1. fn.succ[bb] \in Seq(Blocks \ {0}) /\ n \in 0 .. 2
  BY GraphFacts
<1>2. DOMAIN fn.succ[bb] = 1 .. n
  BY <1>1
<1>3. \A j \in 1 .. n : fn.succ[bb][j] \in Blocks /\ fn.succ[bb][j] \in ToSet(fn.succ[bb])
  BY <1>1, <1>2 DEF ToSet
<1> HIDE DEF n
<1>4. \A j \in 1 .. n : u(j) \in Nat
  BY <1>3, PhiArgsFresh
<1>5. k \in 1 .. n /\ n \in {1, 2} /\ k \in {1, 2}
  BY <1>1, <1>2
<1>6. u(1) \in Nat /\ (n = 2 => u(2) \in Nat) /\ u(k) \in Nat
  BY <1>4, <1>5
<1>7. jumpNondefs(n) = u(1) + (IF n = 2 THEN u(2) ELSE 0) /\ jumpNondefs(k - 1) = IF k = 1 THEN 0 ELSE u(1)
  BY <1>5, <1>6 DEF jumpNondefs
<1> HIDE DEF u
<1>8. /\ jumpNondefs(n) \in Nat /\ from \in Nat /\ m_nondef <= from
      /\ from + u(k) <= m_nondef + jumpNondefs(n)
  <2>1. CASE n = 1
    <3>1. k = 1
      BY <1>5, <2>1
    <3> QED
      BY <1>6, <1>7, <2>1, <3>1
  <2>2. CASE n = 2
    <3>1. CASE k = 1
      BY <1>6, <1>7, <2>2, <3>1
    <3>2. CASE k = 2
      BY <1>6, <1>7, <2>2, <3>2
    <3> QED
      BY <1>5, <3>1, <3>2
  <2> QED
    BY <1>5, <2>1, <2>2
<1>9. FreshArgs(args, from, from + u(k)) /\ DOMAIN args = DOMAIN m_vars
  <2> HIDE DEF from
  <2> QED
    BY <1>3, <1>5, <1>8, PhiArgsFresh DEF u
<1>10. FreshArgs(args, m_nondef, m_nondef + jumpNondefs(n))
  <2> HIDE DEF args, from
  <2>1. from .. (from + u(k)) - 1 \subseteq m_nondef .. (m_nondef + jumpNondefs(n)) - 1
    BY <1>6, <1>8
  <2> QED
    BY <1>9, <2>1 DEF FreshArgs
<1>11. jump(k, cond) = Rule(outSymbol(bb), inSymbol(fn.succ[bb][k]), args, cond)
  BY DEF jump
<1> HIDE DEF args
<1> QED
  BY <1>8, <1>9, <1>10, <1>11 DEF Rule, n

LEMMA TerminatorFacts ==
  ASSUME fn \in Functions, bb \in Blocks, m_nondef \in Nat
  PROVE  /\ IsSequence(terminatorRules) /\ jumpNondefs(Len(fn.succ[bb])) \in Nat
         /\ \A r \in ToSet(terminatorRules) :
              /\ r.left = outSymbol(bb)
              /\ r.right = stopSymbol \/ \E s \in ToSet(fn.succ[bb]) : r.right = inSymbol(s)
              /\ DOMAIN r.args = DOMAIN m_vars
              /\ FreshArgs(r.args, m_nondef, m_nondef + jumpNondefs(Len(fn.succ[bb])))
<1> DEFINE n == Len(fn.succ[bb])
           c(positive) == IF useCondition THEN getCondition(fn.cond[bb], positive) ELSE {}
           stop == Rule(outSymbol(bb), stopSymbol, m_lhs, {})
           P(r) == /\ r.left = outSymbol(bb)
                   /\ r.right = stopSymbol \/ \E s \in ToSet(fn.succ[bb]) : r.right = inSymbol(s)
                   /\ DOMAIN r.args = DOMAIN m_vars
                   /\ FreshArgs(r.args, m_nondef, m_nondef + jumpNondefs(n))
<1>1. n \in 0 .. 2 /\ fn.succ[bb] \in Seq(Blocks \ {0})
  BY GraphFacts
<1>2. DOMAIN fn.succ[bb] = 1 .. n
  BY <1>1
<1>3. P(stop)
  BY LhsFresh DEF Rule, m_lhs
<1>4. ASSUME NEW k \in 1 .. n, NEW cond
      PROVE  P(jump(k, cond)) /\ jumpNondefs(n) \in Nat
  <2>1. k \in DOMAIN fn.succ[bb] /\ fn.succ[bb][k] \in ToSet(fn.succ[bb])
    BY <1>2 DEF ToSet
  <2> QED
    BY <2>1, JumpFacts
<1>5. jumpNondefs(n) \in Nat
  <2>1. CASE n = 0
    BY <2>1 DEF jumpNondefs
  <2>2. CASE n # 0
    <3>1. 1 \in 1 .. n
      BY <1>1, <2>2
    <3> QED
      BY <3>1, <1>4
  <2> QED
    BY <2>1, <2>2
<1> HIDE DEF P, stop, c
<1>6. bb \in fn.unreachable => n = 0
  BY FunctionsAssumption
<1>7. n = 0 \/ n = 1 \/ n = 2
  BY <1>1
<1> HIDE DEF n
<1>8. CASE n = 0
  <2>1. terminatorRules = <<stop>> \/ terminatorRules = <<>>
    BY <1>8 DEF terminatorRules, stop, n
  <2>2. IsSequence(terminatorRules) /\ \A r \in ToSet(terminatorRules) : r = stop
    BY <2>1, EmptySequence, SingletonSequence
  <2> QED
    BY <1>3, <1>5, <2>2 DEF P, n
<1>9. CASE n = 1
  <2>1. terminatorRules = <<jump(1, {})>> /\ 1 \in 1 .. n
    BY <1>6, <1>9 DEF terminatorRules, n
  <2>2. IsSequence(terminatorRules) /\ \A r \in ToSet(terminatorRules) : r = jump(1, {})
    BY <2>1, SingletonSequence
  <2> QED
    BY <1>4, <1>5, <2>1, <2>2 DEF P, n
<1>10. CASE n = 2
  <2> DEFINE one == jump(1, c(TRUE))
             two == jump(2, c(FALSE))
  <2>1. terminatorRules = <<one, two>>
    <3>1. bb \notin fn.unreachable /\ Len(fn.succ[bb]) = 2
      BY <1>6, <1>10 DEF n
    <3>2. Len(fn.succ[bb]) # 0 /\ Len(fn.succ[bb]) # 1
      BY <3>1
    <3> QED
      BY <3>1, <3>2, Zenon DEF terminatorRules, c
  <2>2. 1 \in 1 .. n /\ 2 \in 1 .. n
    BY <1>10
  <2>3. P(one) /\ P(two)
    BY <1>4, <2>2
  <2> HIDE DEF one, two
  <2>4. IsSequence(terminatorRules) /\ \A r \in ToSet(terminatorRules) : r = one \/ r = two
    BY <2>1, PairSequence
  <2> QED
    BY <1>5, <2>3, <2>4 DEF P, n
<1> QED
  BY <1>7, <1>8, <1>9, <1>10

(* A block whose in symbol is no control point has one predecessor.         *)
LEMMA OnePredecessor ==
  ASSUME fn \in Functions, NEW b \in Blocks, NEW s \in ToSet(fn.succ[b]), control(s) = {}
  PROVE  s \in Blocks /\ preds(s) = {b}
<1>1. IsFiniteSet(Blocks) /\ fn.succ[b] \in Seq(Blocks \ {0})
  BY GraphFacts
<1>2. s \in Blocks
  BY <1>1, SequenceOf
<1>3. IsFiniteSet(preds(s))
  <2>1. preds(s) \subseteq Blocks
    BY DEF preds
  <2> QED
    BY <1>1, <2>1, FS_Subset
<1>4. Cardinality(preds(s)) = 1
  BY DEF control
<1>5. PICK u : preds(s) = {u}
  BY <1>3, <1>4, FS_Singleton
<1>6. b \in preds(s)
  BY DEF preds
<1> QED
  BY <1>2, <1>5, <1>6

(* The rules a block adds when it is left.                                  *)
firstRule(b) ==
  Rule(inSymbol(b), IF numbered(b) = {} THEN outSymbol(b) ELSE eval(firstID(b)), m_lhs, buildConjunction(b))
lastRules(b) ==
  IF numbered(b) = {} THEN <<>> ELSE <<Rule(eval(lastID(b) + 1), outSymbol(b), m_lhs, {})>>

LEMMA LeaveKeeps ==
  ASSUME ConverterInv, LeaveBB
  PROVE  ConverterInv'
<1> DEFINE first == firstRule(bb)
           last == lastRules(bb)
           terminator == terminatorRules
           n == jumpNondefs(Len(fn.succ[bb]))
           plain == {first} \cup ToSet(last)
           N == plain \cup ToSet(terminator)
<1>1. /\ pc = "instructions" /\ pc' = "phase2" /\ bb' = bb + 1
      /\ m_rules' = m_rules \o <<first>> \o m_blockRules \o last \o terminator
      /\ m_counter' = counterAfter /\ m_nondef' = m_nondef + n
      /\ m_controlPoints' = m_controlPoints \cup control(bb) \cup UNION {control(s) : s \in ToSet(fn.succ[bb])}
      /\ UNCHANGED <<fn, i, m_trivial, m_vars, m_idMap, m_blockRules, m_returns, m_complexityLHSs>>
  BY DEF LeaveBB, inputVars, firstRule, lastRules
<1>2. /\ fn \in Functions /\ bb \in Nat /\ bb \in Blocks /\ m_counter \in Nat /\ m_nondef \in Nat
      /\ IsSequence(m_rules) /\ IsSequence(m_blockRules)
  BY <1>1 DEF ConverterInv, Typed
<1>3. /\ IsSequence(terminator) /\ n \in Nat
      /\ \A r \in ToSet(terminator) :
           /\ r.left = outSymbol(bb)
           /\ r.right = stopSymbol \/ \E s \in ToSet(fn.succ[bb]) : r.right = inSymbol(s)
           /\ DOMAIN r.args = DOMAIN m_vars
           /\ FreshArgs(r.args, m_nondef, m_nondef + n)
  BY <1>2, TerminatorFacts
<1>4. numbered(bb) # {} => firstID(bb) \in Ids(bb) /\ lastID(bb) \in Ids(bb)
  BY <1>2, NumberedEnds
<1>5. first.args = m_lhs /\ first.left = inSymbol(bb) /\ first.right \in Evals(bb) \cup {outSymbol(bb)}
  BY <1>4 DEF firstRule, Rule, Evals
<1>6. /\ IsSequence(last)
      /\ \A r \in ToSet(last) : r.args = m_lhs /\ r.left \in Evals(bb) /\ r.right = outSymbol(bb)
  <2>1. CASE numbered(bb) = {}
    BY <2>1, EmptySequence DEF lastRules
  <2>2. CASE numbered(bb) # {}
    <3> DEFINE r == Rule(eval(lastID(bb) + 1), outSymbol(bb), m_lhs, {})
    <3>1. last = <<r>>
      BY <2>2 DEF lastRules
    <3>2. r.args = m_lhs /\ r.left \in Evals(bb) /\ r.right = outSymbol(bb)
      BY <1>4, <2>2 DEF Rule, Evals
    <3> HIDE DEF r
    <3> QED
      BY <3>1, <3>2, SingletonSequence
  <2> QED
    BY <2>1, <2>2
<1> HIDE DEF first, last, terminator, n
<1>7. IsSequence(m_rules') /\ ToSet(m_rules') = ToSet(m_rules) \cup ToSet(m_blockRules) \cup N
  <2>1. IsSequence(<<first>>) /\ ToSet(<<first>>) = {first}
    BY SingletonSequence
  <2>2. IsSequence(m_rules \o <<first>>) /\ ToSet(m_rules \o <<first>>) = ToSet(m_rules) \cup {first}
    BY <1>2, <2>1, ConcatSequence
  <2> DEFINE s == m_rules \o <<first>>
  <2> HIDE DEF s
  <2>3. IsSequence(s \o m_blockRules) /\ ToSet(s \o m_blockRules) = ToSet(m_rules) \cup {first} \cup ToSet(m_blockRules)
    BY <1>2, <2>2, ConcatSequence DEF s
  <2> DEFINE t == s \o m_blockRules
  <2> HIDE DEF t
  <2>4. IsSequence(t \o last) /\ ToSet(t \o last) = ToSet(t) \cup ToSet(last)
    BY <1>6, <2>3, ConcatSequence DEF t
  <2> DEFINE u == t \o last
  <2> HIDE DEF u
  <2>5. IsSequence(u \o terminator) /\ ToSet(u \o terminator) = ToSet(u) \cup ToSet(terminator)
    BY <1>3, <2>4, ConcatSequence DEF u
  <2>6. m_rules' = u \o terminator
    BY <1>1 DEF s, t, u
  <2> QED
    BY <2>3, <2>4, <2>5, <2>6 DEF t, u
<1>8. Rules' = Rules \cup N
  BY <1>1, <1>7 DEF Rules
<1>9. m_controlPoints \subseteq m_controlPoints' /\ m_controlPoints' \subseteq Symbol
  <2>1. ToSet(fn.succ[bb]) \subseteq Nat
    <3>1. fn.succ[bb] \in Seq(Blocks \ {0}) /\ Blocks \subseteq Nat
      BY <1>2, GraphFacts
    <3>2. ToSet(fn.succ[bb]) \subseteq Blocks \ {0}
      BY <3>1, SequenceOf
    <3> QED
      BY <3>1, <3>2
  <2>2. \A s \in ToSet(fn.succ[bb]) : control(s) \subseteq Symbol
    BY <2>1, ControlType
  <2>3. m_controlPoints \subseteq Symbol /\ control(bb) \subseteq Symbol
    BY <1>2, ControlType DEF ConverterInv, Typed
  <2> QED
    BY <1>1, <2>2, <2>3
<1>10. m_counter' \in Nat /\ m_counter <= m_counter' /\ (numbered(bb) # {} => m_counter' = m_counter + 1)
  BY <1>1, <1>2 DEF counterAfter
<1>11. Typed'
  <2>1. Blocks' = Blocks
    BY <1>1 DEF Blocks
  <2> QED
    BY <1>1, <1>2, <1>3, <1>7, <1>9, <1>10, <2>1 DEF ConverterInv, Typed
<1>12. VarsOnce'
  BY <1>1 DEF ConverterInv, VarsOnce
<1>13. NumbersApart'
  <2>1. Places' = Places
    BY <1>1 DEF Places, Blocks
  <2>2. NumbersApart
    BY DEF ConverterInv
  <2>3. ASSUME NEW p \in DOMAIN m_idMap
        PROVE  /\ m_idMap[p] \in Nat /\ m_idMap[p] < m_counter'
               /\ p[1] < bb + 1
               /\ m_idMap[p] + 1 < m_counter'
    <3>1. p[1] \in Nat /\ p[2] \in DOMAIN fn.code[p[1]] /\ p = <<p[1], p[2]>>
      BY <1>2, <2>2, PlaceFacts DEF NumbersApart
    <3>2. m_idMap[p] \in Nat /\ m_idMap[p] < m_counter /\ p[1] <= bb /\ (p[1] < bb => m_idMap[p] + 1 < m_counter)
      BY <2>2 DEF NumbersApart
    <3>3. CASE p[1] = bb
      <4>1. p[2] \in numbered(bb)
        BY <3>1, <3>3 DEF numbered
      <4>2. m_counter' = m_counter + 1
        BY <1>10, <4>1
      <4> QED
        BY <1>2, <3>1, <3>2, <3>3, <4>2
    <3>4. CASE p[1] < bb
      BY <1>2, <1>10, <3>1, <3>2, <3>4
    <3> QED
      BY <1>2, <3>1, <3>2, <3>3, <3>4
  <2>4. \A p \in DOMAIN m_idMap : p[1] \in Nat
    BY <1>2, <2>2, PlaceFacts DEF NumbersApart
  <2>5. \A p \in DOMAIN m_idMap : p[1] <= bb' /\ p[1] # bb'
    BY <1>1, <1>2, <2>3, <2>4
  <2> QED
    BY <1>1, <2>1, <2>2, <2>3, <2>5 DEF NumbersApart
<1>14. \A r \in plain : r.args = m_lhs /\ Nondefs(r) = {}
  BY <1>5, <1>6, LhsNondefs
<1>15. Len(m_lhs) = Len(m_vars)
  BY LengthOf DEF ConverterInv, m_lhs
<1>16. \A b \in Nat : \A r \in Evals(b) : r \in Symbol
  <2>1. \A p \in DOMAIN m_idMap : m_idMap[p] \in Nat
    BY DEF ConverterInv, NumbersApart
  <2> QED
    BY <2>1 DEF Evals, Ids, eval, Symbol
<1>17. ASSUME NEW r \in N
       PROVE  {r.left, r.right} \subseteq Symbol /\ r.right[1] # "start" /\ Len(r.args) = Len(m_vars)
  <2>1. inSymbol(bb) \in Symbol /\ outSymbol(bb) \in Symbol /\ Evals(bb) \subseteq Symbol
    BY <1>2, <1>16, ControlType
  <2>2. /\ inSymbol(bb)[1] # "start" /\ outSymbol(bb)[1] # "start" /\ stopSymbol[1] # "start"
        /\ \A e \in Evals(bb) : e[1] # "start"
    BY DEF inSymbol, outSymbol, stopSymbol, Evals, eval
  <2>3. CASE r \in plain
    BY <1>5, <1>6, <1>14, <1>15, <2>1, <2>2, <2>3
  <2>4. CASE r \in ToSet(terminator)
    <3>1. r.left = outSymbol(bb) /\ (r.right = stopSymbol \/ \E s \in ToSet(fn.succ[bb]) : r.right = inSymbol(s))
      BY <1>3, <2>4
    <3>2. ToSet(fn.succ[bb]) \subseteq Nat
      <4>1. fn.succ[bb] \in Seq(Blocks \ {0}) /\ Blocks \subseteq Nat
        BY <1>2, GraphFacts
      <4>2. ToSet(fn.succ[bb]) \subseteq Blocks \ {0}
        BY <4>1, SequenceOf
      <4> QED
        BY <4>1, <4>2
    <3>3. stopSymbol \in Symbol /\ \A s \in Nat : inSymbol(s) \in Symbol /\ inSymbol(s)[1] # "start"
      BY DEF stopSymbol, inSymbol, m_function, Symbol
    <3>4. Len(r.args) = Len(m_vars)
      <4>1. DOMAIN r.args = DOMAIN m_vars
        BY <1>3, <2>4
      <4> QED
        BY <4>1, LengthOf DEF ConverterInv
    <3> QED
      BY <2>1, <2>2, <3>1, <3>2, <3>3, <3>4
  <2> QED
    BY <2>3, <2>4
<1>18. ASSUME NEW r \in N
       PROVE  RuleTyped(r)'
  <2>1. {r.left, r.right} \subseteq Symbol /\ r.right[1] # "start" /\ Len(r.args) = Len(m_vars)
    BY <1>17
  <2> QED
    BY <1>1, <2>1 DEF RuleTyped
<1>19. ASSUME NEW r \in N
       PROVE  Placed(r)'
  <2> PICK b \in Blocks : b = bb
    BY <1>2
  <2>1. Blocks' = Blocks /\ b \in Blocks' /\ Evals(b)' = Evals(b) /\ \A s : preds(s)' = preds(s)
    <3>1. Blocks' = Blocks /\ \A s : preds(s)' = preds(s)
      BY <1>1 DEF Blocks, preds
    <3>2. Evals(b)' = Evals(b)
      BY <1>1 DEF Evals, Ids
    <3> QED
      BY <3>1, <3>2
  <2>2. CASE r = first
    <3>1. r.left = inSymbol(b) /\ r.right \in Evals(b)' \cup {outSymbol(b)}
      BY <1>5, <2>1, <2>2
    <3> QED
      BY <2>1, <3>1 DEF Placed
  <2>3. CASE r \in ToSet(last)
    <3>1. r.left \in Evals(b)' /\ r.right = outSymbol(b)
      BY <1>6, <2>1, <2>3
    <3> QED
      BY <2>1, <3>1 DEF Placed
  <2>4. CASE r \in ToSet(terminator)
    <3>1. CASE r.right = stopSymbol
      <4>1. stopSymbol \in m_controlPoints'
        BY <1>9 DEF ConverterInv, Typed
      <4> QED
        BY <3>1, <4>1 DEF Placed
    <3>2. CASE r.right # stopSymbol
      <4>1. PICK s \in ToSet(fn.succ[bb]) : r.right = inSymbol(s) /\ r.left = outSymbol(bb)
        BY <1>3, <2>4, <3>2
      <4>2. CASE control(s) # {}
        <5>1. inSymbol(s) \in m_controlPoints'
          BY <1>1, <4>2 DEF control
        <5> QED
          BY <4>1, <5>1 DEF Placed
      <4>3. CASE control(s) = {}
        <5>1. s \in Blocks /\ preds(s) = {bb}
          BY <1>2, <4>3, OnePredecessor
        <5> QED
          BY <2>1, <4>1, <5>1 DEF Placed
      <4> QED
        BY <4>2, <4>3
    <3> QED
      BY <3>1, <3>2
  <2> QED
    BY <2>2, <2>3, <2>4
<1>20. Fresh(Rules, m_nondef)'
  <2>1. Fresh(Rules, m_nondef)
    BY DEF ConverterInv
  <2>2. \A r \in ToSet(terminator) : Nondefs(r) \subseteq m_nondef .. (m_nondef + n) - 1
    BY <1>3, RuleNondefs
  <2>3. \A r \in N : Nondefs(r) \subseteq m_nondef .. (m_nondef + n) - 1
    BY <1>14, <2>2
  <2>4. \A r, q \in N : Nondefs(r) \cap Nondefs(q) # {} => r.left = q.left
    BY <1>3, <1>14
  <2> DEFINE m == m_nondef + n
  <2>5. m \in Nat /\ m_nondef <= m
    BY <1>2, <1>3
  <2>6. \A r \in N : Nondefs(r) \subseteq m_nondef .. m - 1
    BY <2>3
  <2> HIDE DEF m, N
  <2>7. Fresh(Rules \cup N, m)
    BY <1>2, <2>1, <2>4, <2>5, <2>6, FreshUnion
  <2>8. m_nondef' = m
    BY <1>1 DEF m
  <2> QED
    BY <1>8, <2>7, <2>8 DEF Fresh, Nondefs
<1>21. \A r \in Rules : RuleTyped(r)' /\ Placed(r)'
  BY <1>1, <1>9, RulesKept
<1> QED
  BY <1>1, <1>8, <1>11, <1>12, <1>13, <1>18, <1>19, <1>20, <1>21 DEF ConverterInv

-----------------------------------------------------------------------------
(* The invariant and what follows from it.                                  *)

LEMMA InitInv == Init => ConverterInv
<1> SUFFICES ASSUME Init
             PROVE  ConverterInv
  OBVIOUS
<1>1. /\ fn \in Functions /\ pc = "phase1" /\ bb = 0 /\ i = 1 /\ m_trivial = FALSE
      /\ m_vars = <<>> /\ m_counter = 0 /\ m_nondef = 0 /\ m_idMap = [p \in {} |-> 0]
      /\ m_blockRules = <<>> /\ m_rules = <<>> /\ m_returns = <<>>
      /\ m_controlPoints = {startSymbol(m_function), stopSymbol} /\ m_complexityLHSs = {}
  BY DEF Init
<1>2. IsSequence(<<>>) /\ ToSet(<<>>) = {}
  BY EmptySequence
<1>3. Rules = {}
  BY <1>1, <1>2 DEF Rules
<1>4. Typed
  BY <1>1, <1>2 DEF Typed, startSymbol, stopSymbol, m_function, Symbol
<1>5. VarsOnce
  BY <1>1, <1>2 DEF VarsOnce
<1>6. NumbersApart
  BY <1>1 DEF NumbersApart
<1> QED
  BY <1>3, <1>4, <1>5, <1>6 DEF ConverterInv, Fresh

LEMMA NextInv == ConverterInv /\ [Next]_vars => ConverterInv'
<1> SUFFICES ASSUME ConverterInv, [Next]_vars
             PROVE  ConverterInv'
  OBVIOUS
<1>1. CASE phase1
  BY <1>1, Phase1Keeps
<1>2. CASE phase2Trivial
  BY <1>2, TrivialKeeps
<1>3. CASE EnterBB
  BY <1>3, EnterKeeps
<1>4. CASE LeaveBB
  BY <1>4, LeaveKeeps
<1>5. CASE AddReturns
  BY <1>5, ReturnsKeeps
<1>6. CASE visitCmpInst
  BY <1>6, CmpKeeps
<1>7. CASE visitArithmetic \/ visitInstruction \/ visitAssume
  BY <1>7, PlainKeeps
<1>8. CASE visitSelectInst
  BY <1>8, SelectKeeps
<1>9. CASE visitZExtInst
  BY <1>9, ZExtKeeps
<1>10. CASE visitLoadInst
  BY <1>10, LoadKeeps
<1>11. CASE visitStoreInst
  BY <1>11, StoreKeeps
<1>12. CASE visitCallInst
  BY <1>12, CallKeeps
<1>13. CASE StartRun \/ Run \/ UNCHANGED vars
  BY <1>13, RunKeeps
<1> QED
  BY <1>1, <1>2, <1>3, <1>4, <1>5, <1>6, <1>7, <1>8, <1>9, <1>10, <1>11, <1>12, <1>13 DEF Next

LEMMA InvAlways == Spec => []ConverterInv
BY InitInv, NextInv, PTL DEF Spec

(* For every function and every setting of the options the rules are terms    *)
(* over the symbols the Converter makes, with an argument for every variable, *)
(* and every number in m_idMap is one that has been given out.               *)
THEOREM ConverterTypeCorrect == Spec => []ConverterTypeOK
<1>1. ConverterInv => ConverterTypeOK
  <2> SUFFICES ASSUME ConverterInv
               PROVE  ConverterTypeOK
    OBVIOUS
  <2>1. DOMAIN m_idMap \subseteq Places /\ \A p \in DOMAIN m_idMap : m_idMap[p] \in 0 .. m_counter
    BY DEF ConverterInv, NumbersApart, Typed
  <2>2. \A r \in ToSet(m_rules) : RuleTyped(r)
    BY DEF ConverterInv, Rules
  <2> QED
    BY <2>1, <2>2 DEF ConverterInv, Typed, ConverterTypeOK, RuleTyped
<1> QED
  BY <1>1, InvAlways, PTL

(* m_nondef moves on by what each instruction and each jump uses: no two      *)
(* symbols ever get rules with the same nondef.                              *)
THEOREM NondefsCorrect == Spec => []NondefsFresh
<1>1. ConverterInv => NondefsFresh
  BY DEF ConverterInv, Fresh, Rules, NondefsFresh
<1> QED
  BY <1>1, InvAlways, PTL

-----------------------------------------------------------------------------
(* Cycles.                                                                  *)

(* Blocks that each are the only predecessor of another of them: as there are *)
(* finitely many, each has its only predecessor among them, and the others   *)
(* are closed under jumps.                                                  *)
LEMMA NoRing ==
  ASSUME fn \in Functions, NEW O \in SUBSET Blocks, \A b \in O : \E u \in O : preds(u) = {b}
  PROVE  O = {}
<1> DEFINE G == {u \in O : \E b \in O : preds(u) = {b}}
           g == [u \in G |-> CHOOSE b \in O : preds(u) = {b}]
<1>1. IsFiniteSet(O)
  BY GraphFacts, FS_Subset
<1>2. IsFiniteSet(G) /\ Cardinality(G) <= Cardinality(O)
      /\ (Cardinality(G) = Cardinality(O) => G = O)
  <2> G \in SUBSET O
    OBVIOUS
  <2> HIDE DEF G
  <2> QED
    BY <1>1, FS_Subset
<1>3. g \in Surjection(G, O)
  <2>1. \A u \in G : g[u] \in O /\ preds(u) = {g[u]}
    OBVIOUS
  <2>2. ASSUME NEW b \in O
        PROVE  \E u \in G : g[u] = b
    <3>1. PICK u \in O : preds(u) = {b}
      OBVIOUS
    <3>2. u \in G
      BY <3>1
    <3>3. {g[u]} = {b}
      BY <2>1, <3>1, <3>2
    <3> QED
      BY <3>2, <3>3
  <2>3. g \in [G -> O]
    BY <2>1
  <2> HIDE DEF g, G
  <2> QED
    BY <2>2, <2>3 DEF Surjection
<1>4. G = O
  <2>1. Cardinality(O) <= Cardinality(G)
    <3> HIDE DEF g, G
    <3> QED
      BY <1>2, <1>3, FS_Surjection
  <2>2. Cardinality(O) \in Nat /\ Cardinality(G) \in Nat
    <3> HIDE DEF G
    <3> QED
      BY <1>1, <1>2, FS_CardinalityType
  <2> HIDE DEF G
  <2> QED
    BY <1>2, <2>1, <2>2
<1> DEFINE R == Blocks \ O
<1>5. ASSUME NEW b \in R, NEW s \in ToSet(fn.succ[b])
      PROVE  s \in R /\ s # entry
  <2>1. fn.succ[b] \in Seq(Blocks \ {0})
    BY GraphFacts
  <2>2. s \in Blocks /\ s # entry
    BY <2>1, SequenceOf DEF entry
  <2>3. b \in preds(s)
    BY DEF preds
  <2>4. s \notin O
    BY <1>4, <2>3
  <2> QED
    BY <2>2, <2>4
<1>6. entry \in R
  <2>1. preds(entry) = {}
    <3>1. ASSUME NEW u \in Blocks
          PROVE  entry \notin ToSet(fn.succ[u])
      <4>1. fn.succ[u] \in Seq(Blocks \ {0})
        BY GraphFacts
      <4> QED
        BY <4>1, SequenceOf DEF entry
    <3> QED
      BY <3>1 DEF preds
  <2>2. entry \in Blocks
    BY GraphFacts DEF entry
  <2>3. \A u \in O : preds(u) # {}
    <3>1. \A u \in G : preds(u) # {}
      OBVIOUS
    <3> HIDE DEF G
    <3> QED
      BY <1>4, <3>1
  <2> QED
    BY <2>1, <2>2, <2>3
<1>7. R = Blocks
  <2>1. R \in SUBSET Blocks /\ \A b \in R : ToSet(fn.succ[b]) \subseteq R
    BY <1>5
  <2> HIDE DEF R
  <2> QED
    BY <1>6, <2>1, GraphFacts
<1> QED
  BY <1>7

(* Numbered symbols of different blocks differ.                             *)
LEMMA EvalsApart ==
  ASSUME ConverterInv, NEW p \in DOMAIN m_idMap, NEW q \in DOMAIN m_idMap,
         NEW n \in Nat, n \in {m_idMap[p], m_idMap[p] + 1}, n \in {m_idMap[q], m_idMap[q] + 1}
  PROVE  p[1] = q[1]
<1>1. m_idMap[p] \in Nat /\ m_idMap[q] \in Nat /\ p[1] \in Nat /\ q[1] \in Nat
  BY PlaceFacts DEF ConverterInv, Typed, NumbersApart
<1>2. (p[1] < q[1] => m_idMap[p] + 1 < m_idMap[q]) /\ (q[1] < p[1] => m_idMap[q] + 1 < m_idMap[p])
  BY DEF ConverterInv, NumbersApart
<1> QED
  BY <1>1, <1>2

LEMMA EvalNumbers ==
  ASSUME ConverterInv, NEW b, NEW n, eval(n) \in Evals(b)
  PROVE  \E p \in DOMAIN m_idMap : p[1] = b /\ n \in {m_idMap[p], m_idMap[p] + 1} /\ n \in Nat
<1>1. \A p \in DOMAIN m_idMap : m_idMap[p] \in Nat
  BY DEF ConverterInv, NumbersApart
<1>2. PICK m \in Ids(b) : eval(n) = eval(m) \/ eval(n) = eval(m + 1)
  BY DEF Evals
<1>3. n = m \/ n = m + 1
  BY <1>2 DEF eval
<1>4. PICK p \in DOMAIN m_idMap : p[1] = b /\ m = m_idMap[p]
  BY DEF Ids
<1> QED
  BY <1>1, <1>3, <1>4

(* From a numbered symbol every way goes on by the numbers, and so to the end *)
(* of the block.                                                            *)
LEMMA ReachesOut ==
  ASSUME ConverterInv, NEW S,
         \A s \in S : \E r \in Rules : {r.left, r.right} \cap m_controlPoints = {} /\ r.left = s /\ r.right \in S,
         NEW b, S \cap Evals(b) # {}
  PROVE  outSymbol(b) \in S
<1> SUFFICES ASSUME outSymbol(b) \notin S
             PROVE  FALSE
  OBVIOUS
<1> DEFINE K == {k \in Nat : \E n \in Nat : eval(n) \in S \cap Evals(b) /\ k + n = m_counter + 1}
<1>1. m_counter \in Nat /\ \A p \in DOMAIN m_idMap : m_idMap[p] \in Nat /\ m_idMap[p] < m_counter
  BY DEF ConverterInv, Typed, NumbersApart
<1>2. ASSUME NEW n, eval(n) \in Evals(b)
      PROVE  n \in Nat /\ n <= m_counter
  <2>1. PICK p \in DOMAIN m_idMap : n \in {m_idMap[p], m_idMap[p] + 1} /\ n \in Nat
    BY <1>2, EvalNumbers
  <2> QED
    BY <1>1, <2>1
<1>3. PICK n : eval(n) \in S \cap Evals(b)
  BY DEF Evals
<1>4. K # {}
  <2>1. n \in Nat /\ n <= m_counter
    BY <1>2, <1>3
  <2>2. (m_counter + 1) - n \in Nat /\ ((m_counter + 1) - n) + n = m_counter + 1
    BY <1>1, <2>1
  <2> QED
    BY <1>3, <2>1, <2>2
<1>5. PICK k \in K : \A l \in K : k =< l
  <2>1. K \in SUBSET Nat
    OBVIOUS
  <2> HIDE DEF K
  <2> QED
    BY <1>4, <2>1, LeastElement
<1>6. PICK m \in Nat : eval(m) \in S \cap Evals(b) /\ k + m = m_counter + 1
  BY <1>5
<1>7. eval(m + 1) \notin S \cap Evals(b)
  <2> SUFFICES ASSUME eval(m + 1) \in S \cap Evals(b)
               PROVE  FALSE
    OBVIOUS
  <2>1. m + 1 <= m_counter /\ m + 1 \in Nat
    BY <1>2
  <2>2. k - 1 \in Nat /\ (k - 1) + (m + 1) = m_counter + 1
    BY <1>1, <1>5, <1>6, <2>1
  <2>3. k - 1 \in K
    BY <2>1, <2>2
  <2>4. k \in Nat
    BY <1>5
  <2>5. k =< k - 1
    BY <1>5, <2>3
  <2> HIDE DEF K
  <2> QED
    BY <2>4, <2>5
<1>8. PICK r \in Rules : {r.left, r.right} \cap m_controlPoints = {} /\ r.left = eval(m) /\ r.right \in S
  BY <1>6
<1>9. Placed(r)
  BY DEF ConverterInv
<1>10. PICK p \in DOMAIN m_idMap : p[1] = b /\ m \in {m_idMap[p], m_idMap[p] + 1}
  BY <1>6, EvalNumbers
<1>11. CASE \E q \in DOMAIN m_idMap : r.left = eval(m_idMap[q]) /\ r.right = eval(m_idMap[q] + 1)
  <2>1. PICK q \in DOMAIN m_idMap : r.left = eval(m_idMap[q]) /\ r.right = eval(m_idMap[q] + 1)
    BY <1>11
  <2>2. m = m_idMap[q]
    BY <1>8, <2>1 DEF eval
  <2>3. q[1] = b
    BY <1>10, <2>2, EvalsApart
  <2>4. eval(m + 1) \in Evals(b)
    BY <2>2, <2>3 DEF Evals, Ids
  <2> QED
    BY <1>7, <1>8, <2>1, <2>2, <2>4
<1>12. CASE \E c \in Blocks : r.left \in Evals(c) /\ r.right = outSymbol(c)
  <2>1. PICK c \in Blocks : eval(m) \in Evals(c) /\ r.right = outSymbol(c)
    BY <1>8, <1>12
  <2>2. PICK q \in DOMAIN m_idMap : q[1] = c /\ m \in {m_idMap[q], m_idMap[q] + 1}
    BY <2>1, EvalNumbers
  <2>3. c = b
    BY <1>10, <2>2, EvalsApart
  <2> QED
    BY <1>8, <2>1, <2>3
<1>13. /\ \A c : eval(m) # inSymbol(c) /\ eval(m) # outSymbol(c)
  BY DEF eval, inSymbol, outSymbol
<1> QED
  BY <1>8, <1>9, <1>11, <1>12, <1>13 DEF Placed

(* Symbols that lead to each other without a control point would all have     *)
(* rules into each other: from an in symbol to the numbers of its block or to  *)
(* out, by the numbers to out, from out into a block without another         *)
(* predecessor, and so through a ring of such blocks that nothing enters.    *)
LEMMA NoCycle ==
  ASSUME ConverterInv, NEW S,
         \A s \in S : \E r \in Rules : {r.left, r.right} \cap m_controlPoints = {} /\ r.left = s /\ r.right \in S
  PROVE  S = {}
<1> DEFINE O == {b \in Blocks : outSymbol(b) \in S}
<1>1. fn \in Functions
  BY DEF ConverterInv, Typed
<1>2. ASSUME NEW r \in Rules, {r.left, r.right} \cap m_controlPoints = {}
      PROVE  \/ \E b \in Blocks : r.left = inSymbol(b) /\ r.right \in Evals(b) \cup {outSymbol(b)}
             \/ \E p \in DOMAIN m_idMap : r.left = eval(m_idMap[p])
             \/ \E b \in Blocks : r.left \in Evals(b) /\ r.right = outSymbol(b)
             \/ \E b, s \in Blocks : preds(s) = {b} /\ r.left = outSymbol(b) /\ r.right = inSymbol(s)
  BY <1>2 DEF ConverterInv, Placed
<1>3. ASSUME NEW b \in Blocks, inSymbol(b) \in S
      PROVE  b \in O
  <2>1. PICK r \in Rules : {r.left, r.right} \cap m_controlPoints = {} /\ r.left = inSymbol(b) /\ r.right \in S
    BY <1>3
  <2>2. r.right \in Evals(b) \cup {outSymbol(b)}
    <3>1. /\ \A c : inSymbol(b) # outSymbol(c) /\ inSymbol(b) \notin Evals(c)
          /\ \A n : inSymbol(b) # eval(n)
          /\ \A c : inSymbol(b) = inSymbol(c) => b = c
      BY DEF inSymbol, outSymbol, Evals, eval
    <3> QED
      BY <1>2, <2>1, <3>1
  <2>3. outSymbol(b) \in S
    BY <2>1, <2>2, ReachesOut
  <2> QED
    BY <2>3
<1>4. ASSUME NEW b \in O
      PROVE  \E u \in O : preds(u) = {b}
  <2>1. PICK r \in Rules : {r.left, r.right} \cap m_controlPoints = {} /\ r.left = outSymbol(b) /\ r.right \in S
    OBVIOUS
  <2>2. PICK u \in Blocks : preds(u) = {b} /\ r.right = inSymbol(u)
    <3>1. /\ \A c : outSymbol(b) # inSymbol(c) /\ outSymbol(b) \notin Evals(c)
          /\ \A n : outSymbol(b) # eval(n)
          /\ \A c : outSymbol(b) = outSymbol(c) => b = c
      BY DEF inSymbol, outSymbol, Evals, eval
    <3>2. /\ ~ \E c \in Blocks : r.left = inSymbol(c) /\ r.right \in Evals(c) \cup {outSymbol(c)}
          /\ ~ \E p \in DOMAIN m_idMap : r.left = eval(m_idMap[p])
          /\ ~ \E c \in Blocks : r.left \in Evals(c) /\ r.right = outSymbol(c)
      BY <2>1, <3>1
    <3>3. PICK c \in Blocks, u \in Blocks : preds(u) = {c} /\ r.left = outSymbol(c) /\ r.right = inSymbol(u)
      BY <1>2, <2>1, <3>2
    <3>4. c = b
      BY <2>1, <3>1, <3>3
    <3> QED
      BY <3>3, <3>4
  <2>3. u \in O
    BY <1>3, <2>1, <2>2
  <2> QED
    BY <2>2, <2>3
<1>5. O = {}
  <2> O \in SUBSET Blocks
    OBVIOUS
  <2> HIDE DEF O
  <2> QED
    BY <1>1, <1>4, NoRing
<1>6. ASSUME NEW s \in S
      PROVE  O # {}
  <2>1. PICK r \in Rules : {r.left, r.right} \cap m_controlPoints = {} /\ r.left = s /\ r.right \in S
    OBVIOUS
  <2>2. CASE \E b \in Blocks : s = inSymbol(b)
    BY <1>3, <2>2
  <2>3. CASE \E p \in DOMAIN m_idMap : s = eval(m_idMap[p])
    <3>1. PICK p \in DOMAIN m_idMap : s = eval(m_idMap[p])
      BY <2>3
    <3>2. s \in Evals(p[1])
      BY <3>1 DEF Evals, Ids
    <3>3. p[1] \in Blocks
      BY <1>1, PlaceFacts DEF ConverterInv, NumbersApart
    <3>4. outSymbol(p[1]) \in S
      BY <3>2, ReachesOut
    <3> QED
      BY <3>3, <3>4
  <2>4. CASE \E b \in Blocks : r.right = outSymbol(b)
    BY <2>1, <2>4
  <2>5. CASE \E b \in Blocks : s = outSymbol(b)
    BY <2>5
  <2> QED
    BY <1>2, <2>1, <2>2, <2>3, <2>4, <2>5
<1> QED
  BY <1>5, <1>6

(* For every function and every setting of the options each cycle of rules    *)
(* passes one of the symbols the Converter has made control points, so that   *)
(* chaining the rules between control points ends.                           *)
THEOREM CyclesCorrect == Spec => []CyclesCut
<1>1. ConverterInv => CyclesCut
  <2> SUFFICES ASSUME ConverterInv
               PROVE  CyclesCut
    OBVIOUS
  <2> DEFINE junk == {r \in ToSet(m_rules) : {r.left, r.right} \cap m_controlPoints = {}}
             next == [s \in {r.left : r \in junk} |-> {r.right : r \in {q \in junk : q.left = s}}]
             inside == DOMAIN next \cap {r.right : r \in junk}
  <2>1. ASSUME NEW S \in SUBSET inside, \A s \in S : next[s] \cap S # {}
        PROVE  S = {}
    <3>1. ASSUME NEW s \in S
          PROVE  \E r \in Rules : {r.left, r.right} \cap m_controlPoints = {} /\ r.left = s /\ r.right \in S
      <4>1. s \in DOMAIN next
        OBVIOUS
      <4>2. PICK t \in next[s] : t \in S
        BY <2>1
      <4>3. next[s] = {r.right : r \in {q \in junk : q.left = s}}
        BY <4>1
      <4>4. PICK r \in junk : r.left = s /\ r.right = t
        BY <4>2, <4>3
      <4> QED
        BY <4>2, <4>4 DEF Rules
    <3> HIDE DEF junk, next, inside
    <3> QED
      BY <3>1, NoCycle
  <2> QED
    BY <2>1 DEF CyclesCut
<1> QED
  BY <1>1, InvAlways, PTL

-----------------------------------------------------------------------------
(* Dominance: the blocks that are reached without leaving block d.           *)

Without(d) == Reached(fn, entry, {d} \X Blocks) \cup {entry}

LEMMA ReachedStep ==
  ASSUME fn \in Functions, NEW Cut, NEW u \in Blocks, NEW v \in Reached(fn, u, Cut) \cup {u},
         NEW w \in ToSet(fn.succ[v]), <<v, w>> \notin Cut
  PROVE  w \in Reached(fn, u, Cut)
<1>1. v \in Blocks
  BY DEF Reached, Blocks
<1>2. w \in Blocks
  <2>1. fn.succ[v] \in Seq(Blocks \ {0})
    BY <1>1, GraphFacts
  <2> QED
    BY <2>1, SequenceOf
<1> QED
  BY <1>2 DEF Reached, Blocks

LEMMA ReachedLeast ==
  ASSUME NEW Cut, NEW u, NEW R \in SUBSET Blocks,
         \A v \in R \cup {u} : \A w \in ToSet(fn.succ[v]) : <<v, w>> \notin Cut => w \in R
  PROVE  Reached(fn, u, Cut) \subseteq R
BY DEF Reached, Blocks

LEMMA WithoutFacts ==
  ASSUME fn \in Functions, NEW d \in Blocks
  PROVE  /\ Without(d) \subseteq Blocks /\ entry \in Without(d)
         /\ \A v \in Without(d) : v # d => ToSet(fn.succ[v]) \subseteq Without(d)
         /\ \A R \in SUBSET Blocks :
              entry \in R /\ (\A v \in R : v # d => ToSet(fn.succ[v]) \subseteq R) => Without(d) \subseteq R
<1>1. entry \in Blocks
  BY GraphFacts DEF entry
<1>2. Without(d) \subseteq Blocks /\ entry \in Without(d)
  BY <1>1 DEF Without, Reached, Blocks
<1>3. ASSUME NEW v \in Without(d), v # d
      PROVE  ToSet(fn.succ[v]) \subseteq Without(d)
  <2>1. ASSUME NEW w \in ToSet(fn.succ[v])
        PROVE  w \in Reached(fn, entry, {d} \X Blocks)
    <3>1. <<v, w>> \notin {d} \X Blocks
      BY <1>3
    <3> QED
      BY <1>1, <3>1, ReachedStep DEF Without
  <2> QED
    BY <2>1 DEF Without
<1>4. ASSUME NEW R \in SUBSET Blocks, entry \in R, \A v \in R : v # d => ToSet(fn.succ[v]) \subseteq R
      PROVE  Without(d) \subseteq R
  <2>1. ASSUME NEW v \in R \cup {entry}, NEW w \in ToSet(fn.succ[v]), <<v, w>> \notin {d} \X Blocks
        PROVE  w \in R
    <3>1. v \in R
      BY <1>4
    <3>2. w \in Blocks
      <4>1. fn.succ[v] \in Seq(Blocks \ {0})
        BY <3>1, GraphFacts
      <4> QED
        BY <4>1, SequenceOf
    <3>3. v # d
      BY <2>1, <3>2
    <3> QED
      BY <3>1, <3>3, <1>4
  <2>2. Reached(fn, entry, {d} \X Blocks) \subseteq R
    BY <2>1, ReachedLeast
  <2> QED
    BY <2>2, <1>4 DEF Without
<1> QED
  BY <1>2, <1>3, <1>4

(* A block is reached without having left it.                               *)
LEMMA ReachedBeforeLeft ==
  ASSUME fn \in Functions, NEW d \in Blocks
  PROVE  d \in Without(d)
<1>1. SUFFICES ASSUME d \notin Without(d) PROVE FALSE
  OBVIOUS
<1>2. \A v \in Without(d) : ToSet(fn.succ[v]) \subseteq Without(d)
  BY <1>1, WithoutFacts
<1>3. Without(d) = Blocks
  BY <1>2, WithoutFacts, GraphFacts
<1> QED
  BY <1>1, <1>3

(* Of two blocks one is reached without leaving the other.                   *)
LEMMA OneFirst ==
  ASSUME fn \in Functions, NEW d \in Blocks, NEW b \in Blocks, d # b, b \notin Without(d)
  PROVE  d \in Without(b)
<1>1. SUFFICES ASSUME d \notin Without(b) PROVE FALSE
  OBVIOUS
<1> DEFINE U == Without(d) \cap Without(b)
<1>2. U \in SUBSET Blocks /\ entry \in U
  BY WithoutFacts
<1>3. \A v \in U : ToSet(fn.succ[v]) \subseteq U
  BY <1>1, WithoutFacts
<1>4. U = Blocks
  BY <1>2, <1>3, GraphFacts
<1> QED
  BY <1>4

LEMMA FirstOfAll ==
  ASSUME fn \in Functions, NEW c \in Blocks, NEW d \in Blocks, NEW b \in Blocks,
         c # d, d \notin Without(c), b # d, b \notin Without(d)
  PROVE  b # c /\ b \notin Without(c)
<1>1. b # c
  BY OneFirst
<1> DEFINE U == Without(c) \cap Without(d)
<1>2. U \in SUBSET Blocks /\ entry \in U
  BY WithoutFacts
<1>3. \A v \in U : v # c => ToSet(fn.succ[v]) \subseteq U
  BY WithoutFacts
<1>4. Without(c) \subseteq U
  BY <1>2, <1>3, WithoutFacts
<1> QED
  BY <1>1, <1>4

LEMMA PrecedesIs ==
  ASSUME NEW p, NEW q
  PROVE  Precedes(fn, p, q) <=> IF p[1] = q[1] THEN p[2] < q[2] ELSE q[1] \notin Without(p[1])
BY DEF Precedes, Without, Blocks, entry

(* Places: those of instructions and the ends of blocks.                     *)
Point(p) == p[1] \in Blocks /\ p[2] \in Nat

LEMMA NeverBoth ==
  ASSUME fn \in Functions, NEW p, NEW q, Point(p), Point(q), Precedes(fn, p, q)
  PROVE  ~Precedes(fn, q, p)
<1>1. CASE p[1] = q[1]
  BY <1>1, PrecedesIs DEF Point
<1>2. CASE p[1] # q[1]
  BY <1>2, PrecedesIs, OneFirst DEF Point
<1> QED
  BY <1>1, <1>2

LEMMA PrecedesOn ==
  ASSUME fn \in Functions, NEW p, NEW q, NEW r, Point(p), Point(q), Point(r),
         Precedes(fn, p, q), Precedes(fn, q, r)
  PROVE  Precedes(fn, p, r)
<1>1. CASE p[1] = q[1]
  BY <1>1, PrecedesIs DEF Point
<1>2. CASE p[1] # q[1] /\ q[1] = r[1]
  BY <1>2, PrecedesIs DEF Point
<1>3. CASE p[1] # q[1] /\ q[1] # r[1]
  BY <1>3, PrecedesIs, FirstOfAll DEF Point
<1> QED
  BY <1>1, <1>2, <1>3

-----------------------------------------------------------------------------
(* Steps of the program.                                                    *)

Envs == [Vars -> Value]
Bools == [Comparisons -> BOOLEAN]
InBlock(p) == p[1] \in Blocks /\ p[2] \in 0 .. Len(fn.code[p[1]]) + 2 /\ p = <<p[1], p[2]>>

LEMMA PlacesAre ==
  ASSUME fn \in Functions, NEW p
  PROVE  /\ p \in Places <=> p \in PlacesOf(fn)
         /\ p \in Places => At(fn, p) = InstrAt(p) /\ InBlock(p) /\ Point(p)
                            /\ p[2] \in 1 .. Len(fn.code[p[1]]) /\ Len(fn.code[p[1]]) \in Nat
<1>1. Places = PlacesOf(fn)
  BY DEF Places, PlacesOf, Blocks
<1>2. ASSUME p \in Places
      PROVE  At(fn, p) = InstrAt(p) /\ InBlock(p) /\ Point(p)
             /\ p[2] \in 1 .. Len(fn.code[p[1]]) /\ Len(fn.code[p[1]]) \in Nat
  <2>1. p[1] \in Blocks /\ p[2] \in DOMAIN fn.code[p[1]] /\ p = <<p[1], p[2]>>
    BY <1>2, PlaceFacts
  <2>2. DOMAIN fn.code[p[1]] = 1 .. Len(fn.code[p[1]]) /\ Len(fn.code[p[1]]) \in Nat
    BY <2>1, CodeFacts, SequenceOf
  <2> QED
    BY <2>1, <2>2 DEF At, InstrAt, InBlock, Point
<1> QED
  BY <1>1, <1>2

LEMMA CodeLength ==
  ASSUME fn \in Functions, NEW b \in Blocks
  PROVE  Len(fn.code[b]) \in Nat /\ DOMAIN fn.code[b] = 1 .. Len(fn.code[b])
BY CodeFacts, SequenceOf

LEMMA InBlockIsPlace ==
  ASSUME fn \in Functions, NEW p, InBlock(p), p[2] # 0, p[2] <= Len(fn.code[p[1]])
  PROVE  p \in Places
<1>1. p[2] \in DOMAIN fn.code[p[1]]
  BY CodeLength DEF InBlock
<1> QED
  BY <1>1 DEF InBlock, Places

LEMMA StepCases ==
  ASSUME fn \in Functions, NEW p, p \in {Start, Stop} \/ p[1] = -3 \/ InBlock(p),
         NEW e, NEW t, NEW s \in Steps(p, e, t)
  PROVE  \/ p = Start /\ s = <<<<entry, 0>>, e, t>>
         \/ /\ p \in Places /\ s[1] = <<p[1], p[2] + 1>>
            /\ s[2] \in Effects(InstrAt(p), Result(p), e, t) /\ s[3] \in Outcomes(p, e, t)
            /\ s = <<s[1], s[2], s[3]>>
         \/ p \in Places /\ s \in Calls(InstrAt(p), e, t)
         \/ /\ InBlock(p) /\ p[2] \in {0, Len(fn.code[p[1]]) + 1}
            /\ s = <<<<p[1], p[2] + 1>>, e, t>>
         \/ InBlock(p) /\ p[2] = Len(fn.code[p[1]]) + 2 /\ s \in Branches(p[1], e, t)
<1>1. CASE p = Start
  BY <1>1 DEF Steps, Start
<1>2. CASE p = Stop \/ p[1] = -3
  BY <1>2 DEF Steps, Start, Stop
<1>3. CASE InBlock(p)
  <2>1. p[1] >= 0 /\ p[1] \in Nat /\ p[2] \in Nat /\ p[1] # -1
    BY <1>3, GraphFacts, CodeLength DEF InBlock
  <2>2. p # Start
    BY <2>1 DEF Start
  <2>3. CASE p \in Places
    <3>1. s \in {<<<<p[1], p[2] + 1>>, c, u>> : c \in Effects(InstrAt(p), Result(p), e, t), u \in Outcomes(p, e, t)}
                \cup Calls(InstrAt(p), e, t)
      <4> DEFINE A == {<<<<p[1], p[2] + 1>>, c, u>> : c \in Effects(InstrAt(p), Result(p), e, t), u \in Outcomes(p, e, t)}
                      \cup Calls(InstrAt(p), e, t)
      <4>0. p[2] \notin {0, Len(fn.code[p[1]]) + 1, Len(fn.code[p[1]]) + 2}
        BY <2>3, PlacesAre
      <4>1. Steps(p, e, t) = A
        BY <2>1, <2>2, <2>3, <4>0 DEF Steps
      <4> QED
        BY <4>1
    <3> QED
      BY <2>3, <3>1
  <2>4. CASE p \notin Places
    <3>1. p[2] \in {0, Len(fn.code[p[1]]) + 1, Len(fn.code[p[1]]) + 2}
      BY <1>3, <2>4, InBlockIsPlace, CodeLength DEF InBlock
    <3>2. CASE p[2] \in {0, Len(fn.code[p[1]]) + 1}
      <4>0. p[2] # Len(fn.code[p[1]]) + 2
        BY <3>2, CodeLength, <1>3 DEF InBlock
      <4>1. Steps(p, e, t) = {<<<<p[1], p[2] + 1>>, e, t>>}
        BY <2>1, <2>2, <2>4, <3>2, <4>0 DEF Steps
      <4> QED
        BY <4>1, <1>3, <3>2
    <3>3. CASE p[2] = Len(fn.code[p[1]]) + 2
      <4>0. p[2] \notin {0, Len(fn.code[p[1]]) + 1}
        BY <3>3, CodeLength, <1>3 DEF InBlock
      <4>1. Steps(p, e, t) = Branches(p[1], e, t)
        BY <2>1, <2>2, <2>4, <3>3, <4>0 DEF Steps
      <4> QED
        BY <4>1, <1>3, <3>3
    <3> QED
      BY <3>1, <3>2, <3>3
  <2> QED
    BY <2>3, <2>4
<1> QED
  BY <1>1, <1>2, <1>3

LEMMA BranchCases ==
  ASSUME fn \in Functions, NEW b \in Blocks, NEW e, NEW t, NEW s \in Branches(b, e, t)
  PROVE  \/ s = <<Stop, e, t>> /\ fn.succ[b] = <<>>
         \/ \E k \in DOMAIN fn.succ[b] :
              /\ fn.succ[b][k] \in ToSet(fn.succ[b]) /\ fn.succ[b][k] \in Blocks \ {entry}
              /\ s \in Jump(b, fn.succ[b][k], e, t)
              /\ Len(fn.succ[b]) = 2 => k = IF t[fn.cond[b]] THEN 1 ELSE 2
<1>1. fn.succ[b] \in Seq(Blocks \ {0}) /\ Len(fn.succ[b]) \in 0 .. 2
  BY GraphFacts
<1>2. DOMAIN fn.succ[b] = 1 .. Len(fn.succ[b]) /\ \A k \in DOMAIN fn.succ[b] : fn.succ[b][k] \in ToSet(fn.succ[b]) /\ fn.succ[b][k] \in Blocks \ {entry}
  BY <1>1 DEF entry, ToSet
<1>3. b \in fn.unreachable => fn.succ[b] = <<>>
  BY FunctionsAssumption
<1>4. CASE b \in fn.unreachable \/ fn.succ[b] = <<>>
  BY <1>3, <1>4 DEF Branches
<1>5. CASE ~(b \in fn.unreachable \/ fn.succ[b] = <<>>)
  <2>1. Len(fn.succ[b]) \in {1, 2}
    BY <1>1, <1>5
  <2>2. CASE Len(fn.succ[b]) = 1
    <3>1. Branches(b, e, t) = Jump(b, fn.succ[b][1], e, t)
      BY <1>5, <2>2 DEF Branches
    <3> QED
      BY <3>1, <2>2, <1>2
  <2>3. CASE Len(fn.succ[b]) = 2
    <3>1. Branches(b, e, t) = Jump(b, fn.succ[b][IF t[fn.cond[b]] THEN 1 ELSE 2], e, t)
      BY <1>5, <2>3 DEF Branches
    <3> QED
      BY <3>1, <2>3, <1>2
  <2> QED
    BY <2>1, <2>2, <2>3
<1> QED
  BY <1>4, <1>5

-----------------------------------------------------------------------------
(* What a step leaves alone.                                                *)

LEMMA GlobalsAre == \A g \in Globals : g[1] = "global"
BY FunctionsAssumption

LEMMA ValuesAre == 0 \in Value /\ 1 \in Value /\ \A a \in Value : a \in Int /\ 1 - a \in Value
BY ValueAssumption

(* An operand that is defined at a place.                                    *)
LEMMA OperandFacts ==
  ASSUME fn \in Functions, NEW x \in Operand, NEW q, UsesDefined(fn, x, q)
  PROVE  /\ x[1] \in {"var", "const", "undef"}
         /\ x[1] = "var" => x[2] \in Vars /\ x[2] \notin Globals
         /\ x[1] = "const" => x[2] \in Value
         /\ x[1] = "var" => x = <<"var", x[2]>> /\ DefinedAt(fn, x[2], q)
         /\ \A e \in Envs : Val(x, e) \subseteq Value
<1>1. \/ x \in {"var"} \X Register
      \/ x \in {"const"} \X Value
      \/ x = <<"undef", 0>>
  BY DEF Operand
<1>2. CASE x \in {"var"} \X Register
  <2>1. x[1] = "var" /\ x[2] \in Register /\ x = <<"var", x[2]>>
    BY <1>2
  <2>2. DefinedAt(fn, x[2], q)
    BY <2>1 DEF UsesDefined
  <2>3. x[2] \in Vars /\ x[2] \notin Globals
    <3>1. CASE x[2] = Arg
      BY <3>1, GlobalsAre DEF Vars, Arg
    <3>2. CASE x[2] \in {"result"} \X Nat \X Nat
      <4>1. x[2] = <<"result", x[2][2], x[2][3]>> /\ x[2][1] = "result"
        BY <3>2
      <4> DEFINE p == <<x[2][2], x[2][3]>>
      <4>2. p \in PlacesOf(fn) /\ hasResult(At(fn, p))
        BY <4>1, <2>2 DEF DefinedAt
      <4>3. p \in Places /\ hasResult(InstrAt(p))
        BY <4>2, PlacesAre
      <4>4. x[2] = Result(p)
        BY <4>1 DEF Result
      <4>5. x[2] \in Results
        BY <4>3, <4>4 DEF Results
      <4> QED
        BY <4>1, <4>5, GlobalsAre DEF Vars
    <3>3. CASE x[2] \in {"phi"} \X Nat \X Nat
      <4>1. x[2] = PhiVar(x[2][2], x[2][3]) /\ x[2][1] = "phi"
        BY <3>3 DEF PhiVar
      <4>2. x[2][2] \in Blocks /\ x[2][3] \in DOMAIN fn.phis[x[2][2]]
        BY <4>1, <2>2 DEF DefinedAt, Blocks
      <4>3. x[2] \in Phis
        BY <4>1, <4>2 DEF Phis
      <4> QED
        BY <4>1, <4>3, GlobalsAre DEF Vars
    <3> QED
      BY <2>1, <3>1, <3>2, <3>3 DEF Register
  <2>4. ASSUME NEW e \in Envs
        PROVE  Val(x, e) \subseteq Value
    BY <2>1, <2>3 DEF Val, Envs
  <2> QED
    BY <2>1, <2>2, <2>3, <2>4
<1>3. CASE x \in {"const"} \X Value
  <2>1. x[1] = "const" /\ x[2] \in Value
    BY <1>3
  <2> QED
    BY <2>1 DEF Val
<1>4. CASE x = <<"undef", 0>>
  <2>1. x[1] = "undef"
    BY <1>4
  <2> QED
    BY <2>1 DEF Val
<1> QED
  BY <1>1, <1>2, <1>3, <1>4

(* The operands of an instruction.                                           *)
LEMMA UsesAre ==
  ASSUME fn \in Functions, NEW p \in Places
  PROVE  LET J == InstrAt(p)
         IN  /\ J.op \in {"arith", "icmp", "select", "load", "store", "call", "callvoid"} =>
                  J.x \in Operand /\ UsesDefined(fn, J.x, p)
             /\ J.op = "select" => J.y \in Operand /\ UsesDefined(fn, J.y, p)
             /\ J.op \in {"select", "zext", "assume"} =>
                  J.c \in Comparisons /\ Precedes(fn, J.c, p)
<1> DEFINE J == InstrAt(p)
<1>1. p \in PlacesOf(fn) /\ At(fn, p) = J
  BY PlacesAre
<1>2. /\ "x" \in DOMAIN J => UsesDefined(fn, J.x, p)
      /\ "y" \in DOMAIN J => UsesDefined(fn, J.y, p)
      /\ "c" \in DOMAIN J => Compared(fn, J.c, p)
  BY <1>1, FunctionsAssumption DEF DefinitionsOK
<1>3. J \in InstructionsOf(fn)
  BY InstructionTypes
<1>4. /\ J.op \in {"arith", "icmp", "select", "load", "store", "call", "callvoid"} => "x" \in DOMAIN J
      /\ J.op = "select" => "y" \in DOMAIN J
      /\ J.op \in {"select", "zext", "assume"} => "c" \in DOMAIN J
  BY <1>3 DEF InstructionsOf
<1>5. J.op \in {"arith", "icmp", "select", "load", "store", "call", "callvoid"} => J.x \in Operand
  BY InstructionTypes DEF Operand
<1>6. J.op = "select" => J.y \in Operand
  BY InstructionTypes
<1>7. ASSUME NEW c, Compared(fn, c, p)
      PROVE  c \in Comparisons /\ Precedes(fn, c, p)
  <2>1. c \in Places /\ At(fn, c) = InstrAt(c)
    BY <1>7, PlacesAre DEF Compared
  <2> QED
    BY <1>7, <2>1 DEF Compared, Comparisons
<1> QED
  BY <1>2, <1>4, <1>5, <1>6, <1>7

LEMMA VarsApart ==
  /\ Arg \in Vars /\ Globals \subseteq Vars
  /\ Arg \notin Globals
  /\ \A p : Result(p) # Arg /\ Result(p) \notin Globals
  /\ \A b, j : PhiVar(b, j) # Arg /\ PhiVar(b, j) \notin Globals
  /\ \A p \in Places : hasResult(InstrAt(p)) => Result(p) \in Vars
BY GlobalsAre DEF Vars, Arg, Result, PhiVar, Results

LEMMA HavocType ==
  ASSUME NEW e \in Envs, NEW V, NEW c \in Havoc(e, V)
  PROVE  c \in Envs /\ \A v \in Vars : v \notin V => c[v] = e[v]
BY DEF Havoc, Envs

LEMMA AssignType ==
  ASSUME NEW e \in Envs, NEW v, NEW S, S \subseteq Value, NEW c \in Assign(e, v, S)
  PROVE  c \in Envs /\ \A u \in Vars : u # v => c[u] = e[u]
BY DEF Assign, Envs

LEMMA StoresType ==
  ASSUME NEW J, NEW e \in Envs, Val(J.x, e) \subseteq Value, NEW c \in Stores(J, e)
  PROVE  c \in Envs /\ \A u \in Vars : u \notin Globals => c[u] = e[u]
<1> DEFINE Aliased(a) == {g \in Globals : J.alias[g] = a}
           musts == UNION {Assign(e, g, Val(J.x, e)) : g \in Aliased("Must")}
           mays == UNION {Assign(e, g, Val(J.x, e)) : g \in Aliased("May")}
           parts == UNION {Havoc(e, {g}) : g \in Aliased("Partial")}
<1>1. c \in musts \/ c = e \/ c \in mays \/ c \in parts
  <2>1. Stores(J, e) = IF Aliased("Must") # {} THEN musts ELSE {e} \cup mays \cup parts
    BY Zenon DEF Stores
  <2> HIDE DEF Aliased, musts, mays, parts
  <2> QED
    BY <2>1
<1>2. CASE c \in musts \/ c \in mays
  <2>1. PICK g \in Globals : c \in Assign(e, g, Val(J.x, e))
    BY <1>2
  <2> QED
    BY <2>1, AssignType
<1>3. CASE c \in parts
  <2>1. PICK g \in Globals : c \in Havoc(e, {g})
    BY <1>3
  <2> QED
    BY <2>1, HavocType
<1> QED
  BY <1>1, <1>2, <1>3

LEMMA LoadsType ==
  ASSUME NEW J, NEW e \in Envs
  PROVE  Loads(J, e) \subseteq Value
BY VarsApart DEF Loads, Envs

LEMMA ZapType ==
  ASSUME fn \in Functions, NEW p \in Places, InstrAt(p).op \in {"call", "callvoid"}, NEW f \in ToSet(InstrAt(p).callees)
  PROVE  f \in DOMAIN fn.mayZap /\ f \in Nat /\ fn.mayZap[f] \subseteq Globals
<1>1. f \in DOMAIN fn.mayZap
  BY InstructionTypes, SequenceOf
<1> QED
  BY <1>1, FunctionsAssumption

LEMMA EffectsType ==
  ASSUME fn \in Functions, NEW p \in Places, NEW e \in Envs, NEW t,
         NEW c \in Effects(InstrAt(p), Result(p), e, t)
  PROVE  /\ c \in Envs
         /\ \A v \in Vars : v \notin Globals /\ v # Result(p) => c[v] = e[v]
<1> DEFINE J == InstrAt(p)
           Fine(d) == d \in Envs /\ \A v \in Vars : v \notin Globals /\ v # Result(p) => d[v] = e[v]
<1>0. SUFFICES Fine(c)
  OBVIOUS
<1>1. CASE J.op = "arith"
  <2>1. c \in Assign(e, Result(p), {1 - a : a \in Val(J.x, e)})
    BY <1>1 DEF Effects
  <2>2. Val(J.x, e) \subseteq Value
    BY <1>1, UsesAre, OperandFacts
  <2>3. {1 - a : a \in Val(J.x, e)} \subseteq Value
    BY <2>2, ValuesAre
  <2> QED
    BY <2>1, <2>3, AssignType
<1>2. CASE J.op \in {"nondef", "other"}
  <2>1. c \in Havoc(e, {Result(p)})
    BY <1>2 DEF Effects
  <2> QED
    BY <2>1, HavocType
<1>3. CASE J.op = "select"
  <2>1. c \in Assign(e, Result(p), Val(IF t[J.c] THEN J.x ELSE J.y, e))
    BY <1>3 DEF Effects
  <2>2. Val(J.x, e) \subseteq Value /\ Val(J.y, e) \subseteq Value
    BY <1>3, UsesAre, OperandFacts
  <2> QED
    BY <2>1, <2>2, AssignType
<1>4. CASE J.op = "zext"
  <2>1. c \in Assign(e, Result(p), {IF t[J.c] THEN 1 ELSE 0})
    BY <1>4 DEF Effects
  <2>2. {IF t[J.c] THEN 1 ELSE 0} \subseteq Value
    BY ValuesAre
  <2> QED
    BY <2>1, <2>2, AssignType
<1>5. CASE J.op = "load"
  <2>1. c \in Assign(e, Result(p), Loads(J, e))
    BY <1>5 DEF Effects
  <2> QED
    BY <2>1, LoadsType, AssignType
<1>6. CASE J.op = "store"
  <2>1. c \in Stores(J, e)
    BY <1>6 DEF Effects
  <2>2. Val(J.x, e) \subseteq Value
    BY <1>6, UsesAre, OperandFacts
  <2> QED
    BY <2>1, <2>2, StoresType
<1>7. CASE J.op = "call"
  <2>1. c \in UNION {Havoc(e, {Result(p)} \cup fn.mayZap[f]) : f \in ToSet(J.callees)}
    BY <1>7 DEF Effects
  <2>2. PICK f \in ToSet(J.callees) : c \in Havoc(e, {Result(p)} \cup fn.mayZap[f])
    BY <2>1
  <2>3. fn.mayZap[f] \subseteq Globals
    BY <1>7, ZapType
  <2> QED
    BY <2>2, <2>3, HavocType
<1>8. CASE J.op = "callvoid"
  <2>1. c \in UNION {Havoc(e, fn.mayZap[f]) : f \in ToSet(J.callees)}
    BY <1>8 DEF Effects
  <2>2. PICK f \in ToSet(J.callees) : c \in Havoc(e, fn.mayZap[f])
    BY <2>1
  <2>3. fn.mayZap[f] \subseteq Globals
    BY <1>8, ZapType
  <2> QED
    BY <2>2, <2>3, HavocType
<1>9. CASE J.op = "assume"
  <2>1. c \in IF t[J.c] THEN {e} ELSE {}
    BY <1>9 DEF Effects
  <2> QED
    BY <2>1
<1>10. CASE J.op \in {"icmp", "fcmp"}
  <2>1. c \in {e}
    BY <1>10 DEF Effects
  <2> QED
    BY <2>1
<1> HIDE DEF Fine
<1> QED
  BY <1>1, <1>2, <1>3, <1>4, <1>5, <1>6, <1>7, <1>8, <1>9, <1>10, InstructionTypes

LEMMA OutcomesType ==
  ASSUME NEW p, NEW e, NEW t \in Bools, NEW u \in Outcomes(p, e, t)
  PROVE  /\ u \in Bools
         /\ \A c \in Comparisons : c # p => u[c] = t[c]
         /\ InstrAt(p).op \notin {"icmp", "fcmp"} => u = t
         /\ InstrAt(p).op = "icmp" => \E a \in Val(InstrAt(p).x, e) : u = [t EXCEPT ![p] = a > 0]
<1>1. CASE InstrAt(p).op = "icmp"
  <2>1. PICK a \in Val(InstrAt(p).x, e) : u = [t EXCEPT ![p] = a > 0]
    BY <1>1 DEF Outcomes
  <2>2. (a > 0) \in BOOLEAN
    OBVIOUS
  <2>3. u \in Bools /\ \A c \in Comparisons : c # p => u[c] = t[c]
    <3> DEFINE o == a > 0
    <3>1. o \in BOOLEAN
      BY <2>2
    <3>2. u = [t EXCEPT ![p] = o]
      BY <2>1
    <3> HIDE DEF o
    <3> QED
      BY <3>1, <3>2 DEF Bools
  <2> QED
    BY <1>1, <2>1, <2>3
<1>2. CASE InstrAt(p).op = "fcmp"
  <2>1. PICK o \in BOOLEAN : u = [t EXCEPT ![p] = o]
    BY <1>2 DEF Outcomes
  <2> QED
    BY <1>2, <2>1 DEF Bools
<1>3. CASE InstrAt(p).op \notin {"icmp", "fcmp"}
  <2>1. u = t
    BY <1>3 DEF Outcomes
  <2> QED
    BY <1>3, <2>1
<1> QED
  BY <1>1, <1>2, <1>3

LEMMA EdgeOperands ==
  ASSUME fn \in Functions, NEW b \in Blocks, NEW s \in ToSet(fn.succ[b])
  PROVE  \A j \in DOMAIN fn.phis[s] :
           fn.phis[s][j][b] \in Operand /\ UsesDefined(fn, fn.phis[s][j][b], <<b, Len(fn.code[b]) + 1>>)
<1>1. DefinitionsOK(fn)
  BY FunctionsAssumption
<1> QED
  BY <1>1 DEF DefinitionsOK, Blocks

LEMMA PhiValuesAre ==
  ASSUME fn \in Functions, NEW b \in Blocks, NEW s \in ToSet(fn.succ[b]), NEW e \in Envs,
         NEW c \in PhiValues(b, s, e)
  PROVE  /\ c \in Envs
         /\ \A v \in Vars : (\A j \in DOMAIN fn.phis[s] : v # PhiVar(s, j)) => c[v] = e[v]
         /\ \A j \in DOMAIN fn.phis[s] :
              PhiVar(s, j) \in Vars /\ c[PhiVar(s, j)] \in Val(fn.phis[s][j][b], e)
<1> DEFINE js == DOMAIN fn.phis[s]
           incoming(j) == fn.phis[s][j][b]
<1>1. PICK w \in [js -> Value] :
        /\ \A j \in js : w[j] \in Val(incoming(j), e)
        /\ c = [v \in DOMAIN e |->
                  IF \E j \in js : v = PhiVar(s, j) THEN w[CHOOSE j \in js : v = PhiVar(s, j)] ELSE e[v]]
  BY DEF PhiValues
<1>2. \A j, k : PhiVar(s, j) = PhiVar(s, k) => j = k
  BY DEF PhiVar
<1>3. DOMAIN e = Vars
  BY DEF Envs
<1>4. ASSUME NEW j \in js
      PROVE  (CHOOSE k \in js : PhiVar(s, j) = PhiVar(s, k)) = j
  BY <1>2
<1>5. s \in Blocks
  <2>1. fn.succ[b] \in Seq(Blocks \ {0})
    BY GraphFacts
  <2> QED
    BY <2>1, SequenceOf
<1>6. \A j \in js : PhiVar(s, j) \in Vars
  BY <1>5 DEF Vars, Phis
<1>7. ASSUME NEW v \in Vars
      PROVE  /\ c[v] \in Value
             /\ (\A j \in js : v # PhiVar(s, j)) => c[v] = e[v]
  <2>1. CASE \E j \in js : v = PhiVar(s, j)
    <3>1. (CHOOSE k \in js : v = PhiVar(s, k)) \in js
      BY <2>1
    <3> QED
      BY <1>1, <1>3, <2>1, <3>1
  <2>2. CASE ~ \E j \in js : v = PhiVar(s, j)
    BY <1>1, <1>3, <2>2 DEF Envs
  <2> QED
    BY <2>1, <2>2
<1>8. ASSUME NEW j \in js
      PROVE  c[PhiVar(s, j)] \in Val(incoming(j), e)
  <2>1. c[PhiVar(s, j)] = w[CHOOSE k \in js : PhiVar(s, j) = PhiVar(s, k)]
    BY <1>1, <1>3, <1>6
  <2> QED
    BY <2>1, <1>4, <1>1
<1>9. c \in Envs
  <2>1. c = [v \in Vars |-> c[v]]
    BY <1>1, <1>3
  <2> QED
    BY <2>1, <1>7 DEF Envs
<1> QED
  BY <1>6, <1>7, <1>8, <1>9

LEMMA StartStatesType ==
  ASSUME NEW e \in StartStates
  PROVE  e \in Envs
<1>1. [v \in Vars |-> 0] \in Envs
  BY ValuesAre DEF Envs
<1> QED
  BY <1>1, HavocType DEF StartStates

-----------------------------------------------------------------------------
(* What is known about a run at a place.                                     *)

Holds(c, e, t) ==
  InstrAt(c).op = "icmp" /\ InstrAt(c).x[1] # "undef" => (t[c] <=> PolyValue(InstrAt(c).x, e, <<>>) > 0)

(* A comparison that has been made still holds: its operand is the same.     *)
ComparisonsHold(p, e, t) == \A c \in Comparisons : Precedes(fn, c, p) => Holds(c, e, t)

(* An assume on every way has been passed.                                   *)
AssumesPassed(p, t) ==
  \A q \in Places : InstrAt(q).op = "assume" /\ Precedes(fn, q, p) => t[InstrAt(q).c]

(* A side of a branch on every way has been taken.                           *)
EdgesTaken(p, t) ==
  \A d \in Blocks, side \in {1, 2} :
    /\ Len(fn.succ[d]) = 2 /\ d # p[1] /\ p[1] # entry
    /\ p[1] \notin Reached(fn, entry, {<<d, fn.succ[d][side]>>})
    => (t[fn.cond[d]] <=> side = 1)

RunOK(p, e, t) ==
  /\ p \in {Start, Stop} \/ p[1] = -3 \/ InBlock(p)
  /\ t \in Bools
  /\ p[1] # -3 => e \in Envs
  /\ InBlock(p) => ComparisonsHold(p, e, t) /\ AssumesPassed(p, t) /\ EdgesTaken(p, t)

LEMMA InBlockIsPoint ==
  ASSUME fn \in Functions, NEW p, InBlock(p)
  PROVE  Point(p) /\ p[1] \in Nat /\ p # Start /\ p # Stop /\ p[1] # -3
BY CodeLength, GraphFacts DEF InBlock, Point, Start, Stop

LEMMA PrecedesInBlock ==
  ASSUME fn \in Functions, NEW p, InBlock(p), NEW c, Point(c), c = <<c[1], c[2]>>, c # p, Precedes(fn, c, <<p[1], p[2] + 1>>)
  PROVE  Precedes(fn, c, p)
<1>1. p[2] \in Nat /\ c[2] \in Nat /\ p = <<p[1], p[2]>>
  BY InBlockIsPoint DEF Point, InBlock
<1>2. CASE c[1] = p[1]
  <2>1. c[2] < p[2] + 1
    BY <1>2, PrecedesIs
  <2>2. c[2] # p[2]
    BY <1>1, <1>2
  <2> QED
    BY <1>1, <1>2, <2>1, <2>2, PrecedesIs
<1>3. CASE c[1] # p[1]
  BY <1>3, PrecedesIs
<1> QED
  BY <1>2, <1>3

LEMMA SuccessorIs ==
  ASSUME fn \in Functions, NEW b \in Blocks, NEW s \in ToSet(fn.succ[b])
  PROVE  s \in Blocks /\ s # entry
<1>1. fn.succ[b] \in Seq(Blocks \ {0})
  BY GraphFacts
<1> QED
  BY <1>1, SequenceOf DEF entry

LEMMA PrecedesJump ==
  ASSUME fn \in Functions, NEW b \in Blocks, NEW s \in ToSet(fn.succ[b]), NEW c, InBlock(c),
         c[2] < Len(fn.code[c[1]]) + 2, Precedes(fn, c, <<s, 0>>)
  PROVE  Precedes(fn, c, <<b, Len(fn.code[b]) + 2>>) /\ c[1] # s
<1>1. s \in Blocks /\ s # entry
  BY SuccessorIs
<1>2. c[1] # s
  BY PrecedesIs, CodeLength DEF InBlock
<1>3. s \notin Without(c[1])
  BY <1>2, PrecedesIs
<1> DEFINE q == <<b, Len(fn.code[b]) + 2>>
<1>q. q[1] = b /\ q[2] = Len(fn.code[b]) + 2
  OBVIOUS
<1>4. CASE c[1] = b
  <2>1. c[2] < q[2]
    BY <1>4, <1>q
  <2> HIDE DEF q
  <2>2. Precedes(fn, c, q)
    BY <1>4, <1>q, <2>1, PrecedesIs
  <2> QED
    BY <2>2, <1>2 DEF q
<1>5. CASE c[1] # b
  <2>1. b \notin Without(c[1])
    BY <1>3, <1>5, WithoutFacts DEF InBlock
  <2> HIDE DEF q
  <2>2. Precedes(fn, c, q)
    BY <1>5, <1>q, <2>1, PrecedesIs
  <2> QED
    BY <2>2, <1>2 DEF q
<1> QED
  BY <1>2, <1>4, <1>5

LEMMA HoldsKept ==
  ASSUME fn \in Functions, NEW c \in Comparisons, NEW e \in Envs, NEW d, NEW t, NEW u, Holds(c, e, t), u[c] = t[c],
         InstrAt(c).x[1] = "var" => d[InstrAt(c).x[2]] = e[InstrAt(c).x[2]]
  PROVE  Holds(c, d, u)
<1>1. SUFFICES ASSUME InstrAt(c).op = "icmp", InstrAt(c).x[1] # "undef"
               PROVE  u[c] <=> PolyValue(InstrAt(c).x, d, <<>>) > 0
  BY DEF Holds
<1>2. c \in Places
  BY DEF Comparisons
<1>3. InstrAt(c).x[1] \in {"var", "const"}
  BY <1>1, <1>2, UsesAre, OperandFacts
<1>4. PolyValue(InstrAt(c).x, d, <<>>) = PolyValue(InstrAt(c).x, e, <<>>)
  BY <1>3 DEF PolyValue
<1> QED
  BY <1>1, <1>4 DEF Holds

(* The operand of a comparison on every way to p is not what p defines.      *)
LEMMA OperandKept ==
  ASSUME fn \in Functions, NEW p \in Places, NEW c \in Comparisons, Precedes(fn, c, p), InstrAt(c).op = "icmp",
         InstrAt(c).x[1] = "var"
  PROVE  InstrAt(c).x[2] \in Vars /\ InstrAt(c).x[2] \notin Globals /\ InstrAt(c).x[2] # Result(p)
<1> DEFINE v == InstrAt(c).x[2]
<1>1. c \in Places
  BY DEF Comparisons
<1>2. v \in Vars /\ v \notin Globals /\ DefinedAt(fn, v, c)
  BY <1>1, UsesAre, OperandFacts
<1>3. ASSUME v = Result(p)
      PROVE  FALSE
  <2>1. v[1] = "result" /\ <<v[2], v[3]>> = p
    BY <1>3, PlacesAre DEF Result, InBlock
  <2>2. Precedes(fn, p, c)
    BY <1>2, <2>1 DEF DefinedAt
  <2> QED
    BY <2>2, <1>1, PlacesAre, NeverBoth
<1> QED
  BY <1>2, <1>3

LEMMA BranchCondition ==
  ASSUME fn \in Functions, NEW d \in Blocks, Len(fn.succ[d]) = 2
  PROVE  fn.cond[d] \in Comparisons /\ Precedes(fn, fn.cond[d], <<d, Len(fn.code[d]) + 1>>)
<1>1. Compared(fn, fn.cond[d], <<d, Len(fn.code[d]) + 1>>)
  BY FunctionsAssumption DEF DefinitionsOK, Blocks
<1>2. fn.cond[d] \in Places /\ At(fn, fn.cond[d]) = InstrAt(fn.cond[d])
  BY <1>1, PlacesAre DEF Compared
<1> QED
  BY <1>1, <1>2 DEF Compared, Comparisons

LEMMA EdgeCondition ==
  ASSUME fn \in Functions, NEW d \in Blocks, Len(fn.succ[d]) = 2, NEW side \in {1, 2}, NEW q, Point(q),
         d # q[1], q[1] # entry, q[1] \notin Reached(fn, entry, {<<d, fn.succ[d][side]>>})
  PROVE  fn.cond[d] \in Comparisons /\ Precedes(fn, fn.cond[d], q)
<1> DEFINE x == fn.succ[d][side]
           R == Reached(fn, entry, {<<d, x>>})
           exit == <<d, Len(fn.code[d]) + 1>>
<1>1. x \in Blocks
  <2>1. fn.succ[d] \in Seq(Blocks \ {0})
    BY GraphFacts
  <2> QED
    BY <2>1
<1>2. entry \in Blocks /\ R \in SUBSET Blocks
  BY GraphFacts DEF entry, Reached, Blocks
<1>3. ASSUME NEW v \in R \cup {entry}, NEW w \in ToSet(fn.succ[v]), <<v, w>> \notin {d} \X Blocks
      PROVE  w \in R
  <2>1. <<v, w>> \notin {<<d, x>>}
    BY <1>1, <1>3
  <2> QED
    BY <1>2, <2>1, ReachedStep
<1>4. Reached(fn, entry, {d} \X Blocks) \subseteq R
  <2> HIDE DEF R
  <2>1. \A v \in R \cup {entry} : \A w \in ToSet(fn.succ[v]) : <<v, w>> \notin {d} \X Blocks => w \in R
    BY <1>3
  <2> QED
    BY <1>2, <2>1, ReachedLeast
<1>5. q[1] \notin Without(d)
  BY <1>4 DEF Without
<1>6. exit[1] = d /\ exit[2] \in Nat
  BY CodeLength
<1>7. Point(exit)
  BY <1>6 DEF Point
<1> HIDE DEF exit
<1>8. Precedes(fn, exit, q)
  BY <1>5, <1>6, PrecedesIs
<1>9. fn.cond[d] \in Comparisons /\ Precedes(fn, fn.cond[d], exit)
  BY BranchCondition DEF exit
<1>10. Point(fn.cond[d])
  BY <1>9, PlacesAre DEF Comparisons
<1> QED
  BY <1>7, <1>8, <1>9, <1>10, PrecedesOn

LEMMA InstructionStepOK ==
  ASSUME fn \in Functions, NEW p \in Places, NEW e, NEW t, RunOK(p, e, t),
         NEW c \in Effects(InstrAt(p), Result(p), e, t), NEW u \in Outcomes(p, e, t)
  PROVE  RunOK(<<p[1], p[2] + 1>>, c, u)
<1> DEFINE q == <<p[1], p[2] + 1>>
<1>1. InBlock(p) /\ Point(p) /\ p[2] \in 1 .. Len(fn.code[p[1]]) /\ Len(fn.code[p[1]]) \in Nat /\ p[1] # -3
      /\ p[1] \in Nat
  BY PlacesAre, InBlockIsPoint
<1>2. e \in Envs /\ t \in Bools /\ ComparisonsHold(p, e, t) /\ AssumesPassed(p, t) /\ EdgesTaken(p, t)
  BY <1>1 DEF RunOK
<1>3. c \in Envs /\ \A v \in Vars : v \notin Globals /\ v # Result(p) => c[v] = e[v]
  BY <1>2, EffectsType
<1>4. /\ u \in Bools
      /\ \A b \in Comparisons : b # p => u[b] = t[b]
      /\ InstrAt(p).op \notin {"icmp", "fcmp"} => u = t
      /\ InstrAt(p).op = "icmp" => \E a \in Val(InstrAt(p).x, e) : u = [t EXCEPT ![p] = a > 0]
  BY <1>2, OutcomesType
<1>5. q[1] = p[1] /\ InBlock(q) /\ Point(q)
  BY <1>1 DEF InBlock, Point
<1>6. ASSUME NEW b, b \in Places, Precedes(fn, b, q), b # p
      PROVE  Precedes(fn, b, p)
  <2>1. Point(b) /\ b = <<b[1], b[2]>>
    BY <1>6, PlacesAre DEF InBlock
  <2> QED
    BY <1>1, <1>6, <2>1, PrecedesInBlock
<1>7. ComparisonsHold(q, c, u)
  <2>1. SUFFICES ASSUME NEW b \in Comparisons, Precedes(fn, b, q) PROVE Holds(b, c, u)
    BY Zenon DEF ComparisonsHold
  <2>2. b \in Places
    BY DEF Comparisons
  <2>3. CASE b = p
    <3>1. SUFFICES ASSUME InstrAt(p).op = "icmp", InstrAt(p).x[1] # "undef"
                   PROVE  u[p] <=> PolyValue(InstrAt(p).x, c, <<>>) > 0
      BY <2>3 DEF Holds
    <3>2. c = e
      BY <3>1 DEF Effects
    <3>3. PICK a \in Val(InstrAt(p).x, e) : u = [t EXCEPT ![p] = a > 0]
      BY <1>4, <3>1
    <3>4. InstrAt(p).x[1] \in {"var", "const"}
      BY <3>1, UsesAre, OperandFacts
    <3>5. a = PolyValue(InstrAt(p).x, e, <<>>)
      BY <3>3, <3>4 DEF PolyValue, Val
    <3>6. u[p] = (a > 0)
      BY <3>3, <2>3, <1>2 DEF Bools
    <3> QED
      BY <3>2, <3>5, <3>6
  <2>4. CASE b # p
    <3>1. Precedes(fn, b, p)
      BY <1>6, <2>1, <2>2, <2>4
    <3>2. Holds(b, e, t)
      BY <1>2, <3>1 DEF ComparisonsHold
    <3>3. SUFFICES ASSUME InstrAt(b).op = "icmp" PROVE Holds(b, c, u)
      BY DEF Holds
    <3>4. InstrAt(b).x[1] = "var" => c[InstrAt(b).x[2]] = e[InstrAt(b).x[2]]
      BY <1>3, <3>1, <3>3, OperandKept
    <3> QED
      BY <1>2, <1>4, <2>4, <3>2, <3>4, HoldsKept
  <2> QED
    BY <2>3, <2>4
<1>8. AssumesPassed(q, u)
  <2>1. SUFFICES ASSUME NEW a \in Places, InstrAt(a).op = "assume", Precedes(fn, a, q)
                 PROVE  u[InstrAt(a).c]
    BY Zenon DEF AssumesPassed
  <2>2. InstrAt(a).c \in Comparisons /\ Precedes(fn, InstrAt(a).c, a)
    BY <2>1, UsesAre
  <2>3. InstrAt(a).c \in Places
    BY <2>2 DEF Comparisons
  <2>4. CASE a = p
    <3>1. t[InstrAt(a).c]
      BY <2>1, <2>4 DEF Effects
    <3> QED
      BY <1>4, <2>1, <2>4, <3>1
  <2>5. CASE a # p
    <3>1. Precedes(fn, a, p)
      BY <1>6, <2>1, <2>5
    <3>2. t[InstrAt(a).c]
      BY <1>2, <2>1, <3>1 DEF AssumesPassed
    <3>3. InstrAt(a).c # p
      BY <2>2, <3>1, PlacesAre, NeverBoth
    <3> QED
      BY <1>4, <2>2, <3>2, <3>3
  <2> QED
    BY <2>4, <2>5
<1>9. EdgesTaken(q, u)
  <2>1. SUFFICES ASSUME NEW d \in Blocks, NEW side \in {1, 2}, Len(fn.succ[d]) = 2, d # p[1], p[1] # entry,
                        p[1] \notin Reached(fn, entry, {<<d, fn.succ[d][side]>>})
                 PROVE  u[fn.cond[d]] <=> side = 1
    BY Zenon, <1>5 DEF EdgesTaken
  <2>2. t[fn.cond[d]] <=> side = 1
    BY <1>2, <2>1 DEF EdgesTaken
  <2>3. fn.cond[d] \in Comparisons /\ Precedes(fn, fn.cond[d], p)
    BY <1>1, <2>1, EdgeCondition
  <2>4. fn.cond[d] # p
    BY <1>1, <2>3, NeverBoth
  <2> QED
    BY <1>4, <2>2, <2>3, <2>4
<1> HIDE DEF q
<1>10. RunOK(q, c, u)
  BY <1>3, <1>4, <1>5, <1>7, <1>8, <1>9 DEF RunOK
<1> QED
  BY <1>10 DEF q

LEMMA InnerStepOK ==
  ASSUME fn \in Functions, NEW p, NEW e, NEW t, InBlock(p), RunOK(p, e, t), p \notin Places,
         p[2] < Len(fn.code[p[1]]) + 2
  PROVE  RunOK(<<p[1], p[2] + 1>>, e, t)
<1> DEFINE q == <<p[1], p[2] + 1>>
<1>1. Point(p) /\ Len(fn.code[p[1]]) \in Nat /\ p[1] # -3 /\ p[1] \in Nat
  BY InBlockIsPoint, CodeLength DEF InBlock
<1>2. e \in Envs /\ t \in Bools /\ ComparisonsHold(p, e, t) /\ AssumesPassed(p, t) /\ EdgesTaken(p, t)
  BY <1>1 DEF RunOK
<1>5. q[1] = p[1] /\ InBlock(q) /\ Point(q)
  BY <1>1 DEF InBlock, Point
<1>6. ASSUME NEW b, b \in Places, Precedes(fn, b, q)
      PROVE  Precedes(fn, b, p)
  <2>1. Point(b) /\ b = <<b[1], b[2]>> /\ b # p
    BY <1>6, PlacesAre DEF InBlock
  <2> QED
    BY <1>1, <1>6, <2>1, PrecedesInBlock
<1> HIDE DEF q
<1>7. ComparisonsHold(q, e, t)
  BY <1>2, <1>6 DEF ComparisonsHold, Comparisons
<1>8. AssumesPassed(q, t)
  BY <1>2, <1>6 DEF AssumesPassed
<1>9. EdgesTaken(q, t)
  BY <1>2, <1>5 DEF EdgesTaken
<1>10. RunOK(q, e, t)
  BY <1>2, <1>5, <1>7, <1>8, <1>9 DEF RunOK
<1> QED
  BY <1>10 DEF q

LEMMA JumpOK ==
  ASSUME fn \in Functions, NEW b \in Blocks, NEW e, NEW t, RunOK(<<b, Len(fn.code[b]) + 2>>, e, t),
         NEW k \in DOMAIN fn.succ[b], Len(fn.succ[b]) = 2 => k = IF t[fn.cond[b]] THEN 1 ELSE 2,
         NEW c \in PhiValues(b, fn.succ[b][k], e)
  PROVE  RunOK(<<fn.succ[b][k], 0>>, c, t)
<1> DEFINE s == fn.succ[b][k]
           p == <<b, Len(fn.code[b]) + 2>>
           q == <<s, 0>>
<1>1. s \in ToSet(fn.succ[b]) /\ s \in Blocks /\ s # entry
  <2>1. s \in ToSet(fn.succ[b])
    BY DEF ToSet
  <2> QED
    BY <2>1, SuccessorIs
<1>2. Len(fn.code[b]) \in Nat /\ Len(fn.code[s]) \in Nat
  BY <1>1, CodeLength
<1>3. /\ p[1] = b /\ p[2] = Len(fn.code[b]) + 2 /\ InBlock(p) /\ Point(p)
      /\ q[1] = s /\ q[2] = 0 /\ InBlock(q) /\ Point(q)
  BY <1>1, <1>2 DEF InBlock, Point
<1>4. c \in PhiValues(b, s, e) /\ RunOK(p, e, t)
  OBVIOUS
<1> HIDE DEF p, q
<1>5. p[1] # -3
  BY <1>3, InBlockIsPoint
<1>6. e \in Envs /\ t \in Bools /\ ComparisonsHold(p, e, t) /\ AssumesPassed(p, t) /\ EdgesTaken(p, t)
  BY <1>3, <1>4, <1>5 DEF RunOK
<1> HIDE DEF s
<1>7. /\ c \in Envs
      /\ \A v \in Vars : (\A j \in DOMAIN fn.phis[s] : v # PhiVar(s, j)) => c[v] = e[v]
  BY <1>1, <1>4, <1>6, PhiValuesAre
<1>8. ASSUME NEW a, a \in Places, Precedes(fn, a, q)
      PROVE  Precedes(fn, a, p) /\ a[1] # s
  <2>1. InBlock(a) /\ a[2] < Len(fn.code[a[1]]) + 2
    BY <1>8, PlacesAre
  <2> QED
    BY <1>1, <1>8, <2>1, PrecedesJump DEF p, q
<1>9. ComparisonsHold(q, c, t)
  <2>1. SUFFICES ASSUME NEW a \in Comparisons, Precedes(fn, a, q) PROVE Holds(a, c, t)
    BY Zenon DEF ComparisonsHold
  <2>2. a \in Places
    BY DEF Comparisons
  <2>3. Holds(a, e, t)
    BY <1>6, <1>8, <2>1, <2>2 DEF ComparisonsHold
  <2>4. SUFFICES ASSUME InstrAt(a).op = "icmp" PROVE Holds(a, c, t)
    BY DEF Holds
  <2> DEFINE x == InstrAt(a).x
  <2>5. ASSUME x[1] = "var"
        PROVE  c[x[2]] = e[x[2]]
    <3>1. x[2] \in Vars /\ DefinedAt(fn, x[2], a)
      BY <2>2, <2>4, <2>5, UsesAre, OperandFacts
    <3>2. ASSUME NEW j \in DOMAIN fn.phis[s], x[2] = PhiVar(s, j)
          PROVE  FALSE
      <4>1. x[2][1] = "phi" /\ <<x[2][2], 0>> = q
        BY <3>2 DEF PhiVar, q
      <4>2. Precedes(fn, q, a)
        BY <3>1, <4>1 DEF DefinedAt
      <4> QED
        BY <1>3, <2>1, <2>2, <4>2, PlacesAre, NeverBoth
    <3> QED
      BY <1>7, <3>1, <3>2
  <2> QED
    BY <1>6, <2>3, <2>5, HoldsKept
<1>10. AssumesPassed(q, t)
  BY <1>6, <1>8 DEF AssumesPassed
<1>11. EdgesTaken(q, t)
  <2>1. SUFFICES ASSUME NEW d \in Blocks, NEW side \in {1, 2}, Len(fn.succ[d]) = 2, d # s,
                        s \notin Reached(fn, entry, {<<d, fn.succ[d][side]>>})
                 PROVE  t[fn.cond[d]] <=> side = 1
    BY Zenon, <1>3 DEF EdgesTaken
  <2> DEFINE x == fn.succ[d][side]
             R == Reached(fn, entry, {<<d, x>>})
  <2>2. entry \in Blocks
    BY GraphFacts DEF entry
  <2>3. CASE b = d
    <3>1. \A v \in Without(d) : v \in R \/ v = entry
      <4>1. x \in Blocks
        <5>1. x \in ToSet(fn.succ[d])
          BY <2>1 DEF ToSet
        <5> QED
          BY <5>1, SuccessorIs
      <4>2. R \in SUBSET Blocks
        BY DEF Reached, Blocks
      <4>3. ASSUME NEW v \in R \cup {entry}, NEW w \in ToSet(fn.succ[v]), <<v, w>> \notin {d} \X Blocks
            PROVE  w \in R
        <5>1. <<v, w>> \notin {<<d, x>>}
          BY <4>1, <4>3
        <5> QED
          BY <2>2, <5>1, ReachedStep
      <4>4. Reached(fn, entry, {d} \X Blocks) \subseteq R
        <5> HIDE DEF R
        <5>1. \A v \in R \cup {entry} : \A w \in ToSet(fn.succ[v]) : <<v, w>> \notin {d} \X Blocks => w \in R
          BY <4>3
        <5> QED
          BY <4>2, <5>1, ReachedLeast
      <4> QED
        BY <4>4 DEF Without
    <3>2. d \in R \cup {entry}
      BY <3>1, ReachedBeforeLeft
    <3>3. s = x
      <4>1. SUFFICES ASSUME <<d, s>> \notin {<<d, x>>} PROVE FALSE
        OBVIOUS
      <4>2. s \in Reached(fn, entry, {<<d, x>>})
        BY <1>1, <2>2, <2>3, <3>2, <4>1, ReachedStep
      <4> QED
        BY <2>1, <4>2
    <3>4. fn.succ[d][1] # fn.succ[d][2]
      BY <2>1, FunctionsAssumption DEF GraphOK, Blocks
    <3>5. k = side
      <4>1. k \in {1, 2}
        BY <2>1, <2>3
      <4> QED
        BY <2>3, <3>3, <3>4, <4>1 DEF s
    <3> QED
      BY <2>1, <2>3, <3>5
  <2>4. CASE b # d
    <3>1. <<b, s>> \notin {<<d, x>>}
      BY <2>4
    <3>2. b \notin R \cup {entry}
      <4>1. SUFFICES ASSUME b \in R \cup {entry} PROVE FALSE
        OBVIOUS
      <4>2. s \in Reached(fn, entry, {<<d, x>>})
        BY <1>1, <2>2, <3>1, <4>1, ReachedStep
      <4> QED
        BY <2>1, <4>2
    <3> QED
      BY <1>3, <1>6, <2>1, <2>4, <3>2 DEF EdgesTaken
  <2> QED
    BY <2>3, <2>4
<1>12. RunOK(q, c, t)
  BY <1>3, <1>6, <1>7, <1>9, <1>10, <1>11 DEF RunOK
<1> QED
  BY <1>12 DEF q, s

LEMMA StartOK ==
  ASSUME fn \in Functions, NEW e \in Envs, NEW t \in Bools
  PROVE  RunOK(<<entry, 0>>, e, t)
<1> DEFINE q == <<entry, 0>>
<1>1. entry \in Blocks
  BY GraphFacts DEF entry
<1>2. q[1] = entry /\ q[2] = 0 /\ InBlock(q)
  BY <1>1, CodeLength DEF InBlock
<1> HIDE DEF q
<1>3. ASSUME NEW a, a \in Places
      PROVE  ~Precedes(fn, a, q)
  <2>1. Point(a) /\ a[2] \in Nat /\ a[1] \in Blocks
    BY <1>3, PlacesAre DEF Point
  <2>2. entry \in Without(a[1])
    BY <2>1, WithoutFacts
  <2> QED
    BY <1>2, <2>1, <2>2, PrecedesIs
<1>4. ComparisonsHold(q, e, t) /\ AssumesPassed(q, t)
  BY <1>3 DEF ComparisonsHold, AssumesPassed, Comparisons
<1>5. EdgesTaken(q, t)
  BY <1>2 DEF EdgesTaken
<1>6. RunOK(q, e, t)
  BY <1>2, <1>4, <1>5 DEF RunOK
<1> QED
  BY <1>6 DEF q

(* The invariant of the run.                                                *)
LEMMA StepOK ==
  ASSUME fn \in Functions, NEW p, NEW e, NEW t, RunOK(p, e, t), NEW s \in Steps(p, e, t)
  PROVE  RunOK(s[1], s[2], s[3])
<1>1. p \in {Start, Stop} \/ p[1] = -3 \/ InBlock(p)
  BY DEF RunOK
<1>2. CASE p = Start /\ s = <<<<entry, 0>>, e, t>>
  <2>1. e \in Envs /\ t \in Bools
    BY <1>2 DEF RunOK, Start
  <2> QED
    BY <1>2, <2>1, StartOK
<1>3. CASE /\ p \in Places /\ s[1] = <<p[1], p[2] + 1>>
           /\ s[2] \in Effects(InstrAt(p), Result(p), e, t) /\ s[3] \in Outcomes(p, e, t)
  BY <1>3, InstructionStepOK
<1>4. CASE p \in Places /\ s \in Calls(InstrAt(p), e, t)
  <2>1. s[1][1] = -3 /\ s[3] = t
    BY <1>4 DEF Calls, Entered
  <2>2. ~InBlock(s[1])
    BY <2>1, InBlockIsPoint
  <2> QED
    BY <2>1, <2>2 DEF RunOK
<1>5. CASE InBlock(p) /\ p[2] \in {0, Len(fn.code[p[1]]) + 1} /\ s = <<<<p[1], p[2] + 1>>, e, t>>
  <2>1. p \notin Places /\ p[2] < Len(fn.code[p[1]]) + 2
    BY <1>5, PlacesAre, CodeLength DEF InBlock
  <2> QED
    BY <1>5, <2>1, InnerStepOK
<1>6. CASE InBlock(p) /\ p[2] = Len(fn.code[p[1]]) + 2 /\ s \in Branches(p[1], e, t)
  <2>1. p[1] \in Blocks /\ p = <<p[1], Len(fn.code[p[1]]) + 2>>
    BY <1>6 DEF InBlock
  <2>2. CASE s = <<Stop, e, t>>
    <3>1. p[1] # -3
      BY <1>6, InBlockIsPoint
    <3>2. ~InBlock(Stop)
      BY InBlockIsPoint
    <3>3. e \in Envs /\ t \in Bools
      BY <3>1 DEF RunOK
    <3>4. RunOK(Stop, e, t)
      BY <3>2, <3>3 DEF RunOK
    <3> QED
      BY <2>2, <3>4
  <2>3. CASE \E k \in DOMAIN fn.succ[p[1]] :
               /\ s \in Jump(p[1], fn.succ[p[1]][k], e, t)
               /\ Len(fn.succ[p[1]]) = 2 => k = IF t[fn.cond[p[1]]] THEN 1 ELSE 2
    <3>1. PICK k \in DOMAIN fn.succ[p[1]] :
               /\ s \in Jump(p[1], fn.succ[p[1]][k], e, t)
               /\ Len(fn.succ[p[1]]) = 2 => k = IF t[fn.cond[p[1]]] THEN 1 ELSE 2
      BY <2>3
    <3>2. PICK c \in PhiValues(p[1], fn.succ[p[1]][k], e) : s = <<<<fn.succ[p[1]][k], 0>>, c, t>>
      BY <3>1 DEF Jump
    <3>3. RunOK(<<fn.succ[p[1]][k], 0>>, c, t)
      BY <2>1, <3>1, <3>2, JumpOK
    <3> QED
      BY <3>2, <3>3
  <2> QED
    BY <1>6, <2>1, <2>2, <2>3, BranchCases
<1> QED
  BY <1>1, <1>2, <1>3, <1>4, <1>5, <1>6, StepCases

=============================================================================
