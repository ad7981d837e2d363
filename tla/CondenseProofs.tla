--------------------------- MODULE CondenseProofs ---------------------------
(***************************************************************************)
(* Proofs about the condensation of rules, for every set of symbols,       *)
(* states and choices and every list of rules: a condensed rule never does *)
(* what the rules it is made of cannot do in a row.                        *)
(***************************************************************************)
EXTENDS Condense, SequenceTheorems, TLAPS

-----------------------------------------------------------------------------
(* Lemmas about sequences of rules.                                         *)

(* Appending adds one element.                                              *)
LEMMA RangeOfAppend ==
  ASSUME NEW S, NEW s \in Seq(S), NEW r \in S
  PROVE  /\ Append(s, r) \in Seq(S)
         /\ Members(Append(s, r)) = Members(s) \cup {r}
<1> DEFINE t == Append(s, r)
<1>1. t \in Seq(S) /\ Len(s) \in Nat /\ Len(t) = Len(s) + 1
  OBVIOUS
<1>2. DOMAIN t = 1 .. Len(s) + 1 /\ DOMAIN s = 1 .. Len(s)
  BY <1>1
<1>3. \A k \in DOMAIN s : t[k] = s[k]
  BY <1>2
<1>4. t[Len(s) + 1] = r
  OBVIOUS
<1>5. \A k \in DOMAIN t : k \in DOMAIN s \/ k = Len(s) + 1
  BY <1>1, <1>2
<1> QED
  BY <1>1, <1>2, <1>3, <1>4, <1>5 DEF Members

(* The tail and the head are made of elements of the sequence.              *)
LEMMA RangeOfTail ==
  ASSUME NEW S, NEW s \in Seq(S), s # <<>>
  PROVE  /\ Head(s) \in S /\ Head(s) \in Members(s)
         /\ Tail(s) \in Seq(S)
         /\ Members(Tail(s)) \subseteq Members(s)
<1>1. Len(s) \in Nat /\ Len(s) > 0
  OBVIOUS
<1>2. Head(s) = s[1] /\ 1 \in DOMAIN s
  BY <1>1
<1>3. Tail(s) \in Seq(S) /\ DOMAIN Tail(s) = 1 .. Len(s) - 1
  BY <1>1
<1>4. \A k \in DOMAIN Tail(s) : Tail(s)[k] = s[k + 1] /\ k + 1 \in DOMAIN s
  BY <1>1, <1>3
<1> QED
  BY <1>2, <1>3, <1>4 DEF Members

(* A concatenation is made of the elements of its parts.                    *)
LEMMA RangeOfConcat ==
  ASSUME NEW S, NEW s \in Seq(S), NEW t \in Seq(S)
  PROVE  /\ s \o t \in Seq(S)
         /\ Members(s \o t) \subseteq Members(s) \cup Members(t)
<1>1. s \o t \in Seq(S) /\ DOMAIN (s \o t) = 1 .. Len(s) + Len(t)
  OBVIOUS
<1>2. ASSUME NEW k \in DOMAIN (s \o t)
      PROVE  (s \o t)[k] \in Members(s) \cup Members(t)
  <2>1. CASE k <= Len(s)
    BY <1>1, <2>1 DEF Members
  <2>2. CASE k > Len(s)
    <3>1. (s \o t)[k] = t[k - Len(s)] /\ k - Len(s) \in DOMAIN t
      BY <1>1, <2>2
    <3> QED
      BY <3>1 DEF Members
  <2> QED
    BY <1>1, <2>1, <2>2
<1> QED
  BY <1>1, <1>2 DEF Members

-----------------------------------------------------------------------------
(* Composition of rules.                                                    *)

(* Putting one rule into another gives a rule.                              *)
LEMMA InstantiatedType ==
  ASSUME NEW r \in Rule, NEW q \in Rule
  PROVE  instantiated(r, q) \in Rule
<1>1. \A x \in Point : <<r.update[x], x[2]>> \in Point
  BY DEF Rule, Point
<1>2. {x \in r.cond : <<r.update[x], x[2]>> \in q.cond} \in SUBSET Point
  BY DEF Rule
<1>3. [x \in Point |-> q.update[<<r.update[x], x[2]>>]] \in [Point -> State]
  BY <1>1 DEF Rule
<1> QED
  BY <1>2, <1>3 DEF instantiated, Rule

(* A step of the composed rule is a step of the first rule to a point from   *)
(* which the second one steps, with the same values of the nondefs.          *)
LEMMA InstantiatedRelates ==
  ASSUME NEW r \in Rule, NEW q \in Rule, q.left = r.right,
         NEW a \in Config, NEW b \in Config, Relates(instantiated(r, q), a, b)
  PROVE  \E c \in Config : c[1] = r.right /\ Relates(r, a, c) /\ Relates(q, c, b)
<1> DEFINE p == instantiated(r, q)
<1>1. PICK n \in Choice : <<a[2], n>> \in p.cond /\ p.update[<<a[2], n>>] = b[2]
  BY DEF Relates
<1>2. a[2] \in State /\ <<a[2], n>> \in Point
  BY DEF Config, Point
<1> DEFINE t == r.update[<<a[2], n>>]
           c == <<r.right, t>>
<1>3. t \in State /\ c \in Config
  BY <1>2 DEF Rule, Config
<1>4. <<a[2], n>> \in r.cond /\ <<t, n>> \in q.cond
  BY <1>1 DEF instantiated
<1>5. q.update[<<t, n>>] = b[2]
  BY <1>1, <1>2 DEF instantiated
<1>6. Relates(r, a, c)
  BY <1>4 DEF Relates, instantiated
<1>7. Relates(q, c, b)
  BY <1>4, <1>5 DEF Relates, instantiated
<1> QED
  BY <1>3, <1>6, <1>7

-----------------------------------------------------------------------------
(* Runs through symbols that are no control points.                         *)

(* A step is such a run.                                                    *)
LEMMA StepPasses ==
  ASSUME NEW rs, NEW a \in Config, NEW b \in Config, Steps(rs, a, b)
  PROVE  Passes(rs, a, b)
BY DEF Passes, Successors

(* So is a run to a symbol that is no control point and a step from there.   *)
LEMMA PassesExtends ==
  ASSUME NEW rs, NEW a \in Config, NEW b \in Config, NEW c \in Config,
         Passes(rs, a, b), ~isControl(b[1]), Steps(rs, b, c)
  PROVE  Passes(rs, a, c)
<1> DEFINE succ == Successors(rs)
<1>1. c \in succ[b]
  BY DEF Successors
<1> SUFFICES ASSUME NEW U \in SUBSET Config,
                    succ[a] \subseteq U,
                    \A d \in U : isControl(d[1]) \/ succ[d] \subseteq U
             PROVE  c \in U
  BY DEF Passes
<1>2. b \in U
  BY DEF Passes
<1> QED
  BY <1>1, <1>2

-----------------------------------------------------------------------------
(* The invariant.                                                           *)

IInv == TypeOK /\ ChainInv

(* It holds at the start, when there is no rule yet.                         *)
LEMMA InvInit == Init => IInv
BY CondenseAssumption DEF Init, IInv, TypeOK, ChainInv, Members

(* A good rule of the input is a chain of one rule.                          *)
LEMMA GoodIsChained ==
  ASSUME TypeOK, NEW k \in DOMAIN rules, isControl(rules[k].left)
  PROVE  Chained(rules[k])
<1> SUFFICES ASSUME NEW a \in Config, NEW b \in Config, Relates(rules[k], a, b)
             PROVE  Passes(rules, a, b)
  BY DEF Chained
<1>1. Steps(rules, a, b)
  BY DEF Steps
<1> QED
  BY <1>1, StepPasses

(* A chain that ends at no control point stays one with a junk rule added.   *)
LEMMA ExtensionIsChained ==
  ASSUME TypeOK, NEW r \in Rule, Chained(r), ~isControl(r.right),
         NEW k \in DOMAIN rules, isJunkFor(rules[k], r)
  PROVE  Chained(instantiated(r, rules[k]))
<1> DEFINE p == instantiated(r, rules[k])
<1>1. rules[k] \in Rule
  BY DEF TypeOK
<1>2. isControl(p.left)
  BY DEF Chained, instantiated
<1>3. ASSUME NEW a \in Config, NEW b \in Config, Relates(p, a, b)
      PROVE  Passes(rules, a, b)
  <2>1. PICK c \in Config : c[1] = r.right /\ Relates(r, a, c) /\ Relates(rules[k], c, b)
    BY <1>1, <1>3, InstantiatedRelates DEF isJunkFor
  <2>2. Passes(rules, a, c)
    BY <2>1 DEF Chained
  <2>3. Steps(rules, c, b)
    BY <2>1 DEF Steps
  <2> QED
    BY <2>1, <2>2, <2>3, PassesExtends
<1> QED
  BY <1>2, <1>3 DEF Chained

(* Chained mentions no variable but rules, which no step changes.            *)
LEMMA ChainedStable ==
  ASSUME rules' = rules, NEW r, Chained(r)
  PROVE  Chained(r)'
BY DEF Chained

(* Every step preserves the invariant.                                       *)
LEMMA InvNext == IInv /\ [Next]_vars => IInv'
<1> SUFFICES ASSUME IInv, [Next]_vars PROVE IInv'
  OBVIOUS
<1> USE DEF IInv
<1>0. rules' = rules /\ rules \in Seq(Rule) /\ Len(rules) \in Nat
  BY DEF Next, NextRule, Keep, Extend, Insert, vars, TypeOK
<1> DEFINE Rules == Members(todo) \cup Members(newtodo) \cup Members(res)
<1>A. SUFFICES TypeOK' /\ \A r \in Rules' : Chained(r)
  BY <1>0, ChainedStable DEF ChainInv
<1>1. CASE NextRule
  <2>1. rules[i] \in Rule /\ i \in DOMAIN rules
    BY <1>0, <1>1 DEF NextRule, TypeOK
  <2>2. CASE isControl(rules[i].left)
    <3>1. todo' = <<rules[i]>> /\ Members(todo') = {rules[i]}
      BY <1>1, <2>2 DEF NextRule, Members
    <3>2. Chained(rules[i])
      BY <2>1, <2>2, GoodIsChained
    <3>3. TypeOK'
      BY <1>0, <1>1, <2>1, <3>1 DEF NextRule, TypeOK
    <3> QED
      BY <1>1, <3>1, <3>2, <3>3 DEF NextRule, ChainInv
  <2>3. CASE ~isControl(rules[i].left)
    <3>1. todo' = todo
      BY <1>1, <2>3 DEF NextRule
    <3>2. TypeOK'
      BY <1>0, <1>1, <3>1 DEF NextRule, TypeOK
    <3> QED
      BY <1>1, <3>1, <3>2 DEF NextRule, ChainInv
  <2> QED
    BY <2>2, <2>3
<1>2. CASE Keep
  <2>1. /\ Head(todo) \in Rule /\ Head(todo) \in Members(todo)
        /\ Tail(todo) \in Seq(Rule) /\ Members(Tail(todo)) \subseteq Members(todo)
    BY <1>2, RangeOfTail DEF Keep, TypeOK
  <2>2. /\ Append(res, Head(todo)) \in Seq(Rule)
        /\ Members(Append(res, Head(todo))) = Members(res) \cup {Head(todo)}
    BY <2>1, RangeOfAppend DEF TypeOK
  <2>3. TypeOK'
    BY <1>0, <1>2, <2>1, <2>2 DEF Keep, TypeOK
  <2>4. Rules' \subseteq Rules
    BY <1>2, <2>1, <2>2 DEF Keep
  <2> QED
    BY <2>3, <2>4 DEF ChainInv
<1>3. CASE Extend
  <2>1. Head(todo) \in Rule /\ Head(todo) \in Members(todo)
    BY <1>3, RangeOfTail DEF Extend, TypeOK
  <2>2. rules[ii] \in Rule /\ ii \in DOMAIN rules
    BY <1>0, <1>3 DEF Extend, TypeOK
  <2>3. CASE isJunkFor(rules[ii], Head(todo))
    <3> DEFINE p == instantiated(Head(todo), rules[ii])
    <3>1. p \in Rule
      BY <2>1, <2>2, InstantiatedType
    <3>2. newtodo' = Append(newtodo, p)
      BY <1>3, <2>3 DEF Extend
    <3>3. newtodo' \in Seq(Rule) /\ Members(newtodo') = Members(newtodo) \cup {p}
      BY <3>1, <3>2, RangeOfAppend DEF TypeOK
    <3>4. Chained(p)
      BY <1>3, <2>1, <2>2, <2>3, ExtensionIsChained DEF ChainInv, Extend
    <3>5. TypeOK'
      BY <1>0, <1>3, <2>2, <3>3 DEF Extend, TypeOK
    <3> QED
      BY <1>3, <3>3, <3>4, <3>5 DEF Extend, ChainInv
  <2>4. CASE ~isJunkFor(rules[ii], Head(todo))
    <3>1. TypeOK'
      BY <1>0, <1>3, <2>2, <2>4 DEF Extend, TypeOK
    <3> QED
      BY <1>3, <2>4, <3>1 DEF Extend, ChainInv
  <2> QED
    BY <2>3, <2>4
<1>4. CASE Insert
  <2>1. Tail(todo) \in Seq(Rule) /\ Members(Tail(todo)) \subseteq Members(todo)
    BY <1>4, RangeOfTail DEF Insert, TypeOK
  <2>2. /\ newtodo \o Tail(todo) \in Seq(Rule)
        /\ Members(newtodo \o Tail(todo)) \subseteq Members(newtodo) \cup Members(Tail(todo))
    BY <2>1, RangeOfConcat DEF TypeOK
  <2>3. newtodo' = <<>> /\ Members(newtodo') = {}
    BY <1>4 DEF Insert, Members
  <2>4. TypeOK'
    BY <1>0, <1>4, <2>2 DEF Insert, TypeOK
  <2>5. Rules' \subseteq Rules
    BY <1>4, <2>1, <2>2, <2>3 DEF Insert
  <2> QED
    BY <2>4, <2>5 DEF ChainInv
<1>5. CASE UNCHANGED vars
  BY <1>5 DEF vars, TypeOK, ChainInv
<1> QED
  BY <1>1, <1>2, <1>3, <1>4, <1>5 DEF Next

-----------------------------------------------------------------------------
(* The rules of the result end at control points, because only Keep adds one. *)
EndInv == \A r \in Members(res) : isControl(r.right)

(* That, too, is preserved.                                                  *)
LEMMA EndNext == TypeOK /\ EndInv /\ [Next]_vars => EndInv'
<1> SUFFICES ASSUME TypeOK, EndInv, [Next]_vars PROVE EndInv'
  OBVIOUS
<1>1. CASE Keep
  <2>1. Head(todo) \in Rule
    BY <1>1, RangeOfTail DEF Keep, TypeOK
  <2>2. Members(res') = Members(res) \cup {Head(todo)}
    BY <1>1, <2>1, RangeOfAppend DEF Keep, TypeOK
  <2> QED
    BY <1>1, <2>2 DEF Keep, EndInv
<1>2. CASE NextRule \/ Extend \/ Insert \/ UNCHANGED vars
  BY <1>2 DEF NextRule, Extend, Insert, vars, EndInv
<1> QED
  BY <1>1, <1>2 DEF Next

-----------------------------------------------------------------------------
(* Completeness: what a rule and the rules after it can do is never lost.   *)

(* The head and the elements of the tail are all there is.                  *)
LEMMA RangeOfHeadTail ==
  ASSUME NEW S, NEW s \in Seq(S), s # <<>>
  PROVE  Members(s) = {Head(s)} \cup Members(Tail(s))
<1>1. Len(s) \in Nat /\ Len(s) > 0 /\ DOMAIN s = 1 .. Len(s)
  OBVIOUS
<1>2. Head(s) = s[1] /\ 1 \in DOMAIN s
  BY <1>1
<1>3. DOMAIN Tail(s) = 1 .. Len(s) - 1
  BY <1>1
<1>4. \A k \in DOMAIN Tail(s) : Tail(s)[k] = s[k + 1] /\ k + 1 \in DOMAIN s
  BY <1>1, <1>3
<1>5. \A k \in DOMAIN s : k = 1 \/ (k - 1 \in DOMAIN Tail(s) /\ (k - 1) + 1 = k)
  BY <1>1, <1>3
<1>6. \A k \in DOMAIN s : s[k] = Head(s) \/ s[k] \in Members(Tail(s))
  BY <1>2, <1>4, <1>5 DEF Members
<1> QED
  BY <1>2, <1>4, <1>6 DEF Members

(* A concatenation has all the elements of its parts.                       *)
LEMMA RangeOfWhole ==
  ASSUME NEW S, NEW s \in Seq(S), NEW t \in Seq(S)
  PROVE  Members(s \o t) = Members(s) \cup Members(t)
<1>1. s \o t \in Seq(S) /\ DOMAIN (s \o t) = 1 .. Len(s) + Len(t)
      /\ Len(s) \in Nat /\ Len(t) \in Nat
  OBVIOUS
<1>2. \A k \in DOMAIN s : k \in DOMAIN (s \o t) /\ (s \o t)[k] = s[k]
  BY <1>1
<1>3. \A k \in DOMAIN t : Len(s) + k \in DOMAIN (s \o t) /\ (s \o t)[Len(s) + k] = t[k]
  BY <1>1
<1>4. Members(s) \cup Members(t) \subseteq Members(s \o t)
  BY <1>2, <1>3 DEF Members
<1> QED
  BY <1>4, RangeOfConcat

(* The successors of a through the rule r, and where the rules may get from  *)
(* them, through symbols that are no control points.                        *)
Image(r, a) == {b \in Config : Relates(r, a, b)}

Closed(U) ==
  \A c \in U : ~isControl(c[1]) => \A d \in Config : Steps(rules, c, d) => d \in U

Ends(r, a, b) == \A U \in SUBSET Config : Image(r, a) \subseteq U /\ Closed(U) => b \in U

(* What the rule reaches in one step it reaches.                            *)
LEMMA EndsStart ==
  ASSUME NEW r, NEW a, NEW b \in Config, Relates(r, a, b)
  PROVE  Ends(r, a, b)
BY DEF Ends, Image

(* And it goes on from a symbol that is no control point.                   *)
LEMMA EndsExtends ==
  ASSUME NEW r, NEW a, NEW b \in Config, NEW c \in Config,
         Ends(r, a, b), ~isControl(b[1]), Steps(rules, b, c)
  PROVE  Ends(r, a, c)
BY DEF Ends, Closed

(* A rule that ends at a control point does its own step only.              *)
LEMMA EndsAtControl ==
  ASSUME NEW r, NEW a, NEW b, Ends(r, a, b), isControl(r.right)
  PROVE  Relates(r, a, b)
<1>1. Image(r, a) \in SUBSET Config /\ Closed(Image(r, a))
  BY DEF Image, Closed, Relates
<1>2. b \in Image(r, a)
  BY <1>1 DEF Ends
<1> QED
  BY <1>2 DEF Image

-----------------------------------------------------------------------------
(* Nondefs.                                                                 *)

(* The nondefs of the rules of the function.                                *)
Own == CHOOSE own \in [DOMAIN rules -> SUBSET Nondef] : Distinct(rules, own)

(* A rule on its way reads no nondef of the rules that may still be put      *)
(* into it.                                                                 *)
Clean(r) ==
  \E D \in SUBSET Nondef :
    /\ Reads(r, D)
    /\ \A k \in DOMAIN rules :
         ~isControl(rules[k].left) /\ Leads(rules, r.right, rules[k].left) => D \cap Own[k] = {}

(* The assumption provides these nondefs.                                   *)
LEMMA OwnDistinct ==
  ASSUME rules \in Systems
  PROVE  Own \in [DOMAIN rules -> SUBSET Nondef] /\ Distinct(rules, Own)
BY NondefsAssumption DEF Own

(* A symbol leads to itself.                                                *)
LEMMA LeadsHere ==
  ASSUME NEW f
  PROVE  Leads(rules, f, f)
BY DEF Leads

(* A junk rule at the end of which rules lead somewhere leads there.        *)
LEMMA LeadsOn ==
  ASSUME rules \in Seq(Rule), NEW k \in DOMAIN rules, ~isControl(rules[k].left), NEW g,
         Leads(rules, rules[k].right, g)
  PROVE  Leads(rules, rules[k].left, g)
BY DEF Leads

(* Two rules that read different nondefs can be given their values at once:  *)
(* the composed rule does what they do in a row.                            *)
LEMMA InstantiatedDoes ==
  ASSUME NEW r \in Rule, NEW q \in Rule, q.left = r.right,
         NEW D \in SUBSET Nondef, NEW E \in SUBSET Nondef,
         Reads(r, D), Reads(q, E), D \cap E = {},
         NEW a \in Config, NEW c \in Config, NEW b \in Config,
         Relates(r, a, c), Relates(q, c, b)
  PROVE  Relates(instantiated(r, q), a, b)
<1>1. PICK n \in Choice : <<a[2], n>> \in r.cond /\ r.update[<<a[2], n>>] = c[2]
  BY DEF Relates
<1>2. PICK m \in Choice : <<c[2], m>> \in q.cond /\ q.update[<<c[2], m>>] = b[2]
  BY DEF Relates
<1> DEFINE both == [d \in Nondef |-> IF d \in D THEN n[d] ELSE m[d]]
<1>3. both \in Choice
  BY DEF Choice
<1>4. a[2] \in State /\ c[2] \in State /\ <<a[2], both>> \in Point
  BY <1>3 DEF Config, Point
<1>5. (\A d \in D : n[d] = both[d]) /\ (\A d \in E : m[d] = both[d])
  OBVIOUS
<1> HIDE DEF both
<1>6. <<a[2], both>> \in r.cond /\ r.update[<<a[2], both>>] = c[2]
  BY <1>1, <1>3, <1>4, <1>5 DEF Reads
<1>7. <<c[2], both>> \in q.cond /\ q.update[<<c[2], both>>] = b[2]
  BY <1>2, <1>3, <1>4, <1>5 DEF Reads
<1> DEFINE p == instantiated(r, q)
<1>8. <<a[2], both>> \in p.cond
  BY <1>4, <1>6, <1>7 DEF instantiated
<1>9. p.update[<<a[2], both>>] = b[2]
  BY <1>4, <1>6, <1>7 DEF instantiated
<1> QED
  BY <1>3, <1>8, <1>9 DEF Relates, instantiated

(* And it reads what they read.                                             *)
LEMMA InstantiatedReads ==
  ASSUME NEW r \in Rule, NEW q \in Rule, NEW D, NEW E, Reads(r, D), Reads(q, E)
  PROVE  Reads(instantiated(r, q), D \cup E)
<1> DEFINE p == instantiated(r, q)
<1> SUFFICES ASSUME NEW n \in Choice, NEW m \in Choice,
                    \A d \in D \cup E : n[d] = m[d],
                    NEW x \in State
             PROVE  /\ <<x, n>> \in p.cond <=> <<x, m>> \in p.cond
                    /\ p.update[<<x, n>>] = p.update[<<x, m>>]
  BY DEF Reads
<1>1. /\ <<x, n>> \in r.cond <=> <<x, m>> \in r.cond
      /\ r.update[<<x, n>>] = r.update[<<x, m>>]
  BY DEF Reads
<1>2. <<x, n>> \in Point /\ <<x, m>> \in Point
  BY DEF Point
<1> DEFINE y == r.update[<<x, n>>]
<1>3. y \in State
  BY <1>2 DEF Rule
<1>4. /\ <<y, n>> \in q.cond <=> <<y, m>> \in q.cond
      /\ q.update[<<y, n>>] = q.update[<<y, m>>]
  BY <1>3 DEF Reads
<1>5. p.update[<<x, n>>] = q.update[<<y, n>>] /\ p.update[<<x, m>>] = q.update[<<y, m>>]
  BY <1>1, <1>2 DEF instantiated
<1>6. /\ <<x, n>> \in p.cond <=> <<x, n>> \in r.cond /\ <<y, n>> \in q.cond
      /\ <<x, m>> \in p.cond <=> <<x, m>> \in r.cond /\ <<y, m>> \in q.cond
  BY <1>1, <1>2 DEF instantiated
<1> QED
  BY <1>1, <1>4, <1>5, <1>6

(* A rule of the function is clean.                                         *)
LEMMA GoodIsClean ==
  ASSUME rules \in Systems, NEW k \in DOMAIN rules
  PROVE  Clean(rules[k])
BY OwnDistinct DEF Clean, Distinct

(* And stays it with a junk rule put into it.                               *)
LEMMA ExtensionIsClean ==
  ASSUME TypeOK, rules \in Systems, NEW r \in Rule, Clean(r),
         NEW k \in DOMAIN rules, isJunkFor(rules[k], r)
  PROVE  Clean(instantiated(r, rules[k]))
<1>1. PICK D \in SUBSET Nondef :
        /\ Reads(r, D)
        /\ \A l \in DOMAIN rules :
             ~isControl(rules[l].left) /\ Leads(rules, r.right, rules[l].left) => D \cap Own[l] = {}
  BY DEF Clean
<1>2. rules[k] \in Rule /\ Own[k] \in SUBSET Nondef /\ Distinct(rules, Own)
  BY OwnDistinct DEF TypeOK
<1>3. Reads(instantiated(r, rules[k]), D \cup Own[k])
  BY <1>1, <1>2, InstantiatedReads DEF Distinct
<1>4. ASSUME NEW l \in DOMAIN rules, ~isControl(rules[l].left),
             Leads(rules, rules[k].right, rules[l].left)
      PROVE  (D \cup Own[k]) \cap Own[l] = {}
  <2>1. Leads(rules, r.right, rules[l].left)
    BY <1>4, LeadsOn DEF isJunkFor, TypeOK
  <2>2. Own[k] \cap Own[l] = {}
    BY <1>2, <1>4 DEF Distinct
  <2> QED
    BY <1>1, <1>4, <2>1, <2>2
<1>5. instantiated(r, rules[k]).right = rules[k].right
  BY DEF instantiated
<1> QED
  BY <1>2, <1>3, <1>4, <1>5 DEF Clean

(* What a clean rule does on the way to a control point, one of the junk     *)
(* rules put into it does.                                                  *)
LEMMA EndsThroughJunk ==
  ASSUME TypeOK, rules \in Systems, NEW r \in Rule, Clean(r), ~isControl(r.right),
         NEW a \in Config, NEW b \in Config, isControl(b[1]), Ends(r, a, b)
  PROVE  \E k \in DOMAIN rules :
           isJunkFor(rules[k], r) /\ Ends(instantiated(r, rules[k]), a, b)
<1> DEFINE Junk == {k \in DOMAIN rules : isJunkFor(rules[k], r)}
           V == {d \in Config : \E k \in Junk : Ends(instantiated(r, rules[k]), a, d)}
           U == Image(r, a) \cup V
<1>1. U \in SUBSET Config
  BY DEF Image
<1>2. ASSUME NEW c \in U, ~isControl(c[1]), NEW d \in Config, Steps(rules, c, d)
      PROVE  d \in V
  <2>1. CASE c \in Image(r, a)
    <3>1. PICK k \in DOMAIN rules : Relates(rules[k], c, d)
      BY <1>2 DEF Steps
    <3>2. c \in Config /\ Relates(r, a, c) /\ c[1] = r.right
      BY <2>1 DEF Image, Relates
    <3>3. isJunkFor(rules[k], r) /\ rules[k] \in Rule
      BY <3>1, <3>2 DEF isJunkFor, Relates, TypeOK
    <3>4. PICK D \in SUBSET Nondef : Reads(r, D) /\ D \cap Own[k] = {}
      BY <3>3, LeadsHere DEF Clean, isJunkFor
    <3>5. Reads(rules[k], Own[k]) /\ Own[k] \in SUBSET Nondef
      BY OwnDistinct DEF Distinct
    <3>6. Relates(instantiated(r, rules[k]), a, d)
      BY <1>2, <3>1, <3>2, <3>3, <3>4, <3>5, InstantiatedDoes DEF isJunkFor
    <3> QED
      BY <1>2, <3>3, <3>6, EndsStart
  <2>2. CASE c \in V
    BY <1>2, <2>2, EndsExtends
  <2> QED
    BY <2>1, <2>2
<1>3. Closed(U)
  BY <1>2 DEF Closed
<1>4. b \in U
  BY <1>1, <1>3 DEF Ends
<1>5. b \notin Image(r, a)
  BY DEF Image, Relates
<1> QED
  BY <1>4, <1>5

-----------------------------------------------------------------------------
(* The invariant of completeness.                                           *)

(* With the lists t and n, the rules from index k on still to be tried with  *)
(* the head of t, and the result s, the run from a to b is not lost.        *)
KeptIn(t, k, n, s, a, b) ==
  \/ Steps(s, a, b)
  \/ \E r \in Members(n) : Ends(r, a, b)
  \/ /\ t # <<>>
     /\ \/ \E r \in Members(Tail(t)) : Ends(r, a, b)
        \/ isControl(Head(t).right) /\ Ends(Head(t), a, b)
        \/ /\ ~isControl(Head(t).right)
           /\ \E l \in DOMAIN rules :
                /\ k <= l /\ isJunkFor(rules[l], Head(t))
                /\ Ends(instantiated(Head(t), rules[l]), a, b)

(* The good rules the outer loop has been to are the first rules of runs     *)
(* that are not lost; the junk rules are only tried with a rule that needs   *)
(* them.                                                                    *)
Kept(j, t, k, n, s) ==
  isControl(rules[j].left) =>
    \A a, b \in Config :
      isControl(b[1]) /\ Ends(rules[j], a, b) => KeptIn(t, k, n, s, a, b)

CompleteInv ==
  /\ rules \in Systems
  /\ todo = <<>> \/ isControl(Head(todo).right) => ii = 1 /\ newtodo = <<>>
  /\ \A r \in Members(todo) \cup Members(newtodo) : Clean(r)
  /\ \A j \in DOMAIN rules : j < i => Kept(j, todo, ii, newtodo, res)

(* A rule of the list with which no junk rule has been tried loses nothing. *)
LEMMA WaitingIsKept ==
  ASSUME TypeOK, rules \in Systems, NEW t \in Seq(Rule), NEW r \in Members(t), Clean(r),
         NEW n, NEW s, NEW a \in Config, NEW b \in Config, isControl(b[1]), Ends(r, a, b)
  PROVE  KeptIn(t, 1, n, s, a, b)
<1>1. t # <<>>
  BY DEF Members
<1>2. Members(t) = {Head(t)} \cup Members(Tail(t)) /\ Head(t) \in Rule
  BY <1>1, RangeOfHeadTail, RangeOfTail
<1>3. CASE r \in Members(Tail(t))
  BY <1>1, <1>3 DEF KeptIn
<1>4. CASE r = Head(t) /\ isControl(r.right)
  BY <1>1, <1>4 DEF KeptIn
<1>5. CASE r = Head(t) /\ ~isControl(r.right)
  <2>1. PICK k \in DOMAIN rules : isJunkFor(rules[k], r) /\ Ends(instantiated(r, rules[k]), a, b)
    BY <1>2, <1>5, EndsThroughJunk
  <2>2. 1 <= k
    BY DEF TypeOK
  <2> QED
    BY <1>1, <1>5, <2>1, <2>2 DEF KeptIn
<1> QED
  BY <1>2, <1>3, <1>4, <1>5

(* Rules do not change, so what is said of them stays true.                 *)
LEMMA RulesStable ==
  ASSUME rules' = rules
  PROVE  /\ \A r : Clean(r) => Clean(r)'
         /\ \A j, t, k, n, s : Kept(j, t, k, n, s) => Kept(j, t, k, n, s)'
<1>1. Own' = Own
  BY DEF Own
<1>2. ASSUME NEW r, NEW a, NEW b PROVE Ends(r, a, b)' <=> Ends(r, a, b)
  BY DEF Ends, Closed
<1> QED
  BY <1>1, <1>2 DEF Clean, Kept, KeptIn

(* It holds at the start.                                                   *)
LEMMA CompleteInit == Init => CompleteInv
BY CondenseAssumption DEF Init, CompleteInv, Members

(* Every step preserves it.                                                 *)
LEMMA CompleteNext == TypeOK /\ CompleteInv /\ [Next]_vars => CompleteInv'
<1> SUFFICES ASSUME TypeOK, CompleteInv, [Next]_vars PROVE CompleteInv'
  OBVIOUS
<1>0. /\ rules' = rules /\ rules \in Seq(Rule) /\ rules \in Systems /\ Len(rules) \in Nat
      /\ DOMAIN rules = 1 .. Len(rules) /\ i \in Nat /\ ii \in Nat
  BY DEF Next, NextRule, Keep, Extend, Insert, vars, TypeOK, CompleteInv
<1> DEFINE Quiet == todo = <<>> \/ isControl(Head(todo).right) => ii = 1 /\ newtodo = <<>>
           Waiting == Members(todo) \cup Members(newtodo)
<1>A. SUFFICES /\ Quiet'
               /\ \A r \in Waiting' : Clean(r)
               /\ \A j \in DOMAIN rules : j < i' => Kept(j, todo', ii', newtodo', res')
  BY <1>0, RulesStable DEF CompleteInv
<1>B. /\ Quiet
      /\ \A r \in Waiting : Clean(r)
      /\ \A j \in DOMAIN rules : j < i => Kept(j, todo, ii, newtodo, res)
  BY DEF CompleteInv
<1>C. Members(<<>>) = {}
  BY DEF Members
<1>D. todo \in Seq(Rule) /\ newtodo \in Seq(Rule) /\ res \in Seq(Rule)
  BY DEF TypeOK
<1>1. CASE NextRule
  <2>0. /\ todo = <<>> /\ newtodo = <<>> /\ ii = 1
        /\ newtodo' = newtodo /\ ii' = ii /\ res' = res /\ i' = i + 1
        /\ todo' = IF isControl(rules[i].left) THEN <<rules[i]>> ELSE <<>>
    BY <1>1, <1>B DEF NextRule
  <2>1. i \in DOMAIN rules /\ rules[i] \in Rule
    BY <1>0, <1>1 DEF NextRule, TypeOK
  <2>2. Members(<<rules[i]>>) = {rules[i]} /\ <<rules[i]>> \in Seq(Rule)
    BY <2>1 DEF Members
  <2>3. \A r \in Waiting' : Clean(r)
    BY <1>0, <1>C, <2>0, <2>1, <2>2, GoodIsClean
  <2>4. ASSUME NEW j \in DOMAIN rules, j < i', isControl(rules[j].left),
               NEW a \in Config, NEW b \in Config, isControl(b[1]), Ends(rules[j], a, b)
        PROVE  KeptIn(todo', ii', newtodo', res', a, b)
    <3>1. CASE j < i
      <4>1. KeptIn(todo, ii, newtodo, res, a, b)
        BY <1>B, <2>4, <3>1 DEF Kept
      <4>2. Steps(res, a, b)
        BY <1>C, <2>0, <4>1 DEF KeptIn
      <4> QED
        BY <2>0, <4>2 DEF KeptIn
    <3>2. CASE j = i
      <4>1. todo' = <<rules[i]>> /\ todo' \in Seq(Rule) /\ rules[i] \in Members(todo')
        BY <2>0, <2>2, <2>4, <3>2
      <4>2. Clean(rules[i])
        BY <1>0, <2>1, GoodIsClean
      <4> QED
        BY <1>0, <2>0, <2>4, <3>2, <4>1, <4>2, WaitingIsKept
    <3> QED
      BY <1>0, <2>0, <2>4, <3>1, <3>2
  <2> QED
    BY <2>0, <2>3, <2>4 DEF Kept
<1>2. CASE Keep
  <2>0. /\ todo # <<>> /\ isControl(Head(todo).right) /\ newtodo = <<>> /\ ii = 1
        /\ res' = Append(res, Head(todo)) /\ todo' = Tail(todo)
        /\ newtodo' = newtodo /\ ii' = ii /\ i' = i
    BY <1>2, <1>B DEF Keep
  <2>1. /\ Members(todo) = {Head(todo)} \cup Members(todo')
        /\ Head(todo) \in Rule /\ todo' \in Seq(Rule)
    BY <1>D, <2>0, RangeOfHeadTail, RangeOfTail
  <2>2. \A r \in Waiting' : Clean(r)
    BY <1>B, <2>0, <2>1
  <2>3. ASSUME NEW a \in Config, NEW b \in Config
        PROVE  Steps(res, a, b) \/ Relates(Head(todo), a, b) => Steps(res', a, b)
    <3>1. Members(res') = Members(res) \cup {Head(todo)}
      BY <1>D, <2>0, <2>1, RangeOfAppend
    <3> QED
      BY <3>1 DEF Steps, Members
  <2>4. ASSUME NEW j \in DOMAIN rules, j < i', isControl(rules[j].left),
               NEW a \in Config, NEW b \in Config, isControl(b[1]), Ends(rules[j], a, b)
        PROVE  KeptIn(todo', ii', newtodo', res', a, b)
    <3>1. KeptIn(todo, ii, newtodo, res, a, b)
      BY <1>B, <2>0, <2>4 DEF Kept
    <3>2. CASE Steps(res, a, b) \/ Ends(Head(todo), a, b)
      <4>1. Steps(res', a, b)
        BY <2>0, <2>3, <3>2, EndsAtControl
      <4> QED
        BY <4>1 DEF KeptIn
    <3>3. CASE \E r \in Members(todo') : Ends(r, a, b)
      <4>1. PICK r \in Members(todo') : Ends(r, a, b)
        BY <3>3
      <4>2. Clean(r)
        BY <2>2
      <4> QED
        BY <1>0, <2>0, <2>1, <2>4, <4>1, <4>2, WaitingIsKept
    <3> QED
      BY <1>C, <2>0, <3>1, <3>2, <3>3 DEF KeptIn
  <2> QED
    BY <2>0, <2>2, <2>4 DEF Kept
<1>3. CASE Extend
  <2> DEFINE p == instantiated(Head(todo), rules[ii])
  <2>0. /\ todo # <<>> /\ ~isControl(Head(todo).right)
        /\ ii \in DOMAIN rules /\ ii' = ii + 1
        /\ newtodo' = IF isJunkFor(rules[ii], Head(todo)) THEN Append(newtodo, p) ELSE newtodo
        /\ todo' = todo /\ res' = res /\ i' = i
    BY <1>0, <1>3 DEF Extend, TypeOK
  <2>1. Head(todo) \in Rule /\ Head(todo) \in Members(todo) /\ rules[ii] \in Rule
    BY <1>D, <2>0, RangeOfTail DEF TypeOK
  <2>2. isJunkFor(rules[ii], Head(todo)) =>
          Clean(p) /\ Members(newtodo') = Members(newtodo) \cup {p}
    <3> SUFFICES ASSUME isJunkFor(rules[ii], Head(todo))
                 PROVE  Clean(p) /\ Members(newtodo') = Members(newtodo) \cup {p}
      OBVIOUS
    <3>1. Clean(p)
      BY <1>0, <1>B, <2>0, <2>1, ExtensionIsClean
    <3>2. p \in Rule
      BY <2>1, InstantiatedType
    <3>3. Members(Append(newtodo, p)) = Members(newtodo) \cup {p}
      BY <1>D, <3>2, RangeOfAppend
    <3> QED
      BY <2>0, <3>1, <3>3
  <2> HIDE DEF p
  <2>3. \A r \in Waiting' : Clean(r)
    BY <1>B, <2>0, <2>2
  <2>4. ASSUME NEW j \in DOMAIN rules, j < i', isControl(rules[j].left),
               NEW a \in Config, NEW b \in Config, isControl(b[1]), Ends(rules[j], a, b)
        PROVE  KeptIn(todo', ii', newtodo', res', a, b)
    <3>1. KeptIn(todo, ii, newtodo, res, a, b)
      BY <1>B, <2>0, <2>4 DEF Kept
    <3>2. Members(newtodo) \subseteq Members(newtodo')
      BY <2>0, <2>2
    <3>3. ASSUME NEW l \in DOMAIN rules, ii <= l, isJunkFor(rules[l], Head(todo)),
                 Ends(instantiated(Head(todo), rules[l]), a, b)
          PROVE  KeptIn(todo', ii', newtodo', res', a, b)
      <4>1. CASE l = ii
        <5>1. p \in Members(newtodo') /\ Ends(p, a, b)
          BY <2>2, <3>3, <4>1 DEF p
        <5> QED
          BY <5>1 DEF KeptIn
      <4>2. CASE l # ii
        <5>1. ii' <= l
          BY <1>0, <2>0, <3>3, <4>2
        <5> QED
          BY <2>0, <3>3, <5>1 DEF KeptIn
      <4> QED
        BY <4>1, <4>2
    <3> QED
      BY <2>0, <3>1, <3>2, <3>3 DEF KeptIn
  <2> QED
    BY <2>0, <2>3, <2>4 DEF Kept
<1>4. CASE Insert
  <2>0. /\ todo # <<>> /\ ii > Len(rules)
        /\ todo' = newtodo \o Tail(todo) /\ ii' = 1 /\ newtodo' = <<>>
        /\ res' = res /\ i' = i
    BY <1>4 DEF Insert
  <2>1. /\ Members(todo) = {Head(todo)} \cup Members(Tail(todo))
        /\ Tail(todo) \in Seq(Rule)
    BY <1>D, <2>0, RangeOfHeadTail, RangeOfTail
  <2>2. todo' \in Seq(Rule) /\ Members(todo') = Members(newtodo) \cup Members(Tail(todo))
    <3> DEFINE t == Tail(todo)
    <3>1. t \in Seq(Rule)
      BY <2>1
    <3> HIDE DEF t
    <3>2. newtodo \o t \in Seq(Rule) /\ Members(newtodo \o t) = Members(newtodo) \cup Members(t)
      BY <1>D, <3>1, RangeOfWhole, RangeOfConcat
    <3> QED
      BY <2>0, <3>2 DEF t
  <2>3. \A r \in Waiting' : Clean(r)
    BY <1>B, <1>C, <2>0, <2>1, <2>2
  <2>4. ASSUME NEW j \in DOMAIN rules, j < i', isControl(rules[j].left),
               NEW a \in Config, NEW b \in Config, isControl(b[1]), Ends(rules[j], a, b)
        PROVE  KeptIn(todo', ii', newtodo', res', a, b)
    <3>1. KeptIn(todo, ii, newtodo, res, a, b)
      BY <1>B, <2>0, <2>4 DEF Kept
    <3>2. ~isControl(Head(todo).right)
      BY <1>0, <1>B, <2>0
    <3>3. ~ \E l \in DOMAIN rules : ii <= l
      BY <1>0, <2>0
    <3>4. Steps(res, a, b) \/ \E r \in Members(todo') : Ends(r, a, b)
      BY <2>2, <3>1, <3>2, <3>3 DEF KeptIn
    <3>5. CASE Steps(res, a, b)
      BY <2>0, <3>5 DEF KeptIn
    <3>6. CASE \E r \in Members(todo') : Ends(r, a, b)
      <4>1. PICK r \in Members(todo') : Ends(r, a, b)
        BY <3>6
      <4>2. Clean(r)
        BY <2>3
      <4> QED
        BY <1>0, <2>0, <2>2, <2>4, <4>1, <4>2, WaitingIsKept
    <3> QED
      BY <3>4, <3>5, <3>6
  <2> QED
    BY <2>0, <2>3, <2>4 DEF Kept
<1>5. CASE UNCHANGED vars
  <2>1. /\ i' = i /\ todo' = todo /\ ii' = ii /\ newtodo' = newtodo /\ res' = res
    BY <1>5 DEF vars
  <2> QED
    BY <1>B, <2>1
<1> QED
  BY <1>1, <1>2, <1>3, <1>4, <1>5 DEF Next

(* When the loops have ended, every run from a control point to a control    *)
(* point began with a good rule, and so none is lost.                       *)
LEMMA CompleteAtEnd == TypeOK /\ CompleteInv => CondensedComplete
<1> SUFFICES ASSUME TypeOK, CompleteInv, condensed,
                    NEW a \in Config, NEW b \in Config, isControl(a[1]), isControl(b[1]),
                    Passes(rules, a, b)
             PROVE  Steps(res, a, b)
  BY DEF CondensedComplete
<1>0. DOMAIN rules = 1 .. Len(rules) /\ Len(rules) \in Nat
  BY DEF TypeOK
<1> DEFINE Good == {j \in DOMAIN rules : rules[j].left = a[1]}
           U == {d \in Config : \E j \in Good : Ends(rules[j], a, d)}
           succ == Successors(rules)
<1>1. succ[a] \subseteq U
  BY EndsStart DEF Successors, Steps, Relates
<1>2. ASSUME NEW c \in U, ~isControl(c[1])
      PROVE  succ[c] \subseteq U
  BY <1>2, EndsExtends DEF Successors
<1>3. b \in U
  BY <1>1, <1>2 DEF Passes
<1>4. PICK j \in Good : Ends(rules[j], a, b)
  BY <1>3
<1>5. todo = <<>> /\ newtodo = <<>> /\ j < i
  BY <1>0 DEF condensed, CompleteInv, TypeOK
<1>6. KeptIn(todo, ii, newtodo, res, a, b)
  BY <1>4, <1>5 DEF CompleteInv, Kept
<1> QED
  BY <1>5, <1>6 DEF KeptIn, Members

-----------------------------------------------------------------------------
(* The results.                                                             *)

(* In every execution the lists hold rules and the loops stay in their       *)
(* bounds.                                                                  *)
THEOREM CondenseTypeCorrect == Spec => []TypeOK
<1>1. IInv => TypeOK
  BY DEF IInv
<1> QED
  BY <1>1, InvInit, InvNext, PTL DEF Spec

(* In every execution each condensed rule joins two control points, and a    *)
(* step of it is a run of the rules of the function between them.            *)
THEOREM CondensationSound == Spec => []CondensedSound
<1>1. Init => EndInv
  BY DEF Init, EndInv, Members
<1>2. IInv => TypeOK
  BY DEF IInv
<1>3. IInv /\ EndInv => CondensedSound
  BY DEF IInv, ChainInv, EndInv, CondensedSound
<1> QED
  BY <1>1, <1>2, <1>3, InvInit, InvNext, EndNext, PTL DEF Spec

(* In every execution no run between control points is missing when the     *)
(* condensation has ended: it is one step of a condensed rule, for whatever *)
(* values of the nondefs its rules took.                                    *)
THEOREM CondensationComplete == Spec => []CondensedComplete
<1>1. IInv => TypeOK
  BY DEF IInv
<1> QED
  BY <1>1, InvInit, InvNext, CompleteInit, CompleteNext, CompleteAtEnd, PTL DEF Spec
=============================================================================
