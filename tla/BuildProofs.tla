---------------------------- MODULE BuildProofs -----------------------------
(***************************************************************************)
(* That building a model serves what its source means, and an edit moves   *)
(* one literal, for any declarations, any sources over them and any edits. *)
(*                                                                         *)
(* What a source means is defined by recursion.  Its steps are shown to    *)
(* exist, to grow, and so to have come to an end after as many as there    *)
(* are slots, each by a least number at which it fails.  The invariant     *)
(* then relates the stack, the memo and the agenda to that meaning.        *)
(***************************************************************************)
EXTENDS ModelBuild, FiniteSetTheorems, SequenceTheorems, WellFoundedInduction, TLAPS

-----------------------------------------------------------------------------
(* Numbers. *)

LEMMA LeastNatural ==
  ASSUME NEW S, S \subseteq Nat, S # {}
  PROVE  \E least \in S : \A n \in S : least <= n
<1> DEFINE R == {r \in Nat \X Nat : r[1] < r[2]}
<1>1. IsWellFoundedOn(R, Nat)
  BY NatLessThanWellFounded DEF OpToRel
<1>2. \A m, n \in Nat : <<m, n>> \in R <=> m < n
  OBVIOUS
<1> HIDE DEF R
<1>3. PICK least \in S : \A n \in S : ~(<<n, least>> \in R)
  BY <1>1, WFMin
<1>4. ASSUME NEW n \in S PROVE least <= n
  <2>1. n \in Nat /\ least \in Nat /\ ~(n < least)
    BY <1>2, <1>3
  <2> QED
    BY <2>1
<1> QED
  BY <1>4

LEMMA MaxIs ==
  ASSUME NEW b \in Nat, NEW S, S \subseteq 1..b, S # {}
  PROVE  Max(S) \in S /\ \A n \in S : n <= Max(S)
<1> DEFINE D == {b - n : n \in S}
<1>1. D \subseteq Nat /\ D # {}
  <2>1. \A n \in 1..b : b - n \in Nat
    OBVIOUS
  <2>2. D # {}
    OBVIOUS
  <2> QED
    BY <2>1, <2>2
<1>2. PICK d \in D : \A e \in D : d <= e
  <2> HIDE DEF D
  <2> QED
    BY <1>1, LeastNatural
<1>3. PICK g \in S : d = b - g
  OBVIOUS
<1>4. ASSUME NEW n \in S PROVE g >= n
  <2>1. b - n \in D
    OBVIOUS
  <2> QED
    BY <1>2, <1>3, <2>1
<1>5. \E x \in S : \A y \in S : x >= y
  BY <1>4
<1>6. Max(S) \in S /\ \A y \in S : Max(S) >= y
  BY <1>5 DEF Max
<1> QED
  BY <1>6

-----------------------------------------------------------------------------
(* Slots, what binds them and what they name. *)

Operand(slot, j) == Resolve(slot, Expr(slot).of[j])

Arity(op) == CASE op \in {"nothing", "literal"} -> 0 [] op = "chain" -> 1 [] op = "ratio" -> 2

Literals == {b \in Bindings : source[b].op = "literal"}

LEMMA SlotIs ==
  ASSUME NEW slot \in Slots
  PROVE  /\ slot = <<slot[1], slot[2]>> /\ slot[1] \in Usages /\ slot[2] \in PartNames \cup ReqNames
         /\ slot[1] \in Parts <=> slot[1] \notin Reqs
         /\ slot[1] \in Parts => slot[2] # "require"
         /\ \A s \in Slots : s[1] = slot[1] /\ s[2] = slot[2] => s = slot
BY BuildAssumption DEF Slots, Usages, ReqNames

LEMMA AttributesAreSlots == Attributes \subseteq Slots
BY DEF Attributes, Slots, ReqNames

LEMMA ProjectedAreSlots ==
  ASSUME NEW p \in Projected
  PROVE  p \in Slots /\ (p[1] \in Parts \/ (p[1] \in Reqs /\ p[2] = "require"))
BY BuildAssumption DEF Slots, ReqNames

\* The binding that holds is one of the source's, and carries a value.
LEMMA BindIs ==
  ASSUME NEW slot \in Slots
  PROVE  \/ /\ BindOf(slot) = None
            /\ Expr(slot) = Nothing
         \/ /\ BindOf(slot) # None
            /\ BindOf(slot) \in Bindings
            /\ BindOf(slot)[2] = slot[2]
            /\ Expr(slot) = source[BindOf(slot)]
            /\ Expr(slot).op # "nothing"
            /\ \E o \in ToSet(Owners[slot[1]]) : BindOf(slot) = <<o, slot[2]>>
<1> DEFINE owners == Owners[slot[1]]
           valued == {i \in DOMAIN owners : source[<<owners[i], slot[2]>>].op # "nothing"}
<1>1. CASE valued = {}
  <2>1. BindOf(slot) = None
    BY <1>1 DEF BindOf
  <2> QED
    BY <2>1 DEF Expr
<1>2. CASE valued # {}
  <2> DEFINE i == Max(valued)
             o == owners[i]
  <2>1. slot[1] \in Usages /\ slot[2] \in PartNames \cup ReqNames
    BY SlotIs
  <2>2. owners \in Seq(UNION {ToSet(Owners[u]) : u \in Usages})
    BY <2>1, SourceAssumption
  <2>3. DOMAIN owners = 1..Len(owners) /\ Len(owners) \in Nat
    BY <2>2
  <2>4. valued \subseteq 1..Len(owners)
    BY <2>3
  <2>5. i \in valued
    <3> HIDE DEF valued
    <3> QED
      BY <1>2, <2>3, <2>4, MaxIs
  <2>6. BindOf(slot) = <<o, slot[2]>>
    BY <1>2 DEF BindOf
  <2> HIDE DEF i
  <2>7. o \in ToSet(Owners[slot[1]]) /\ source[<<o, slot[2]>>].op # "nothing"
    BY <2>5 DEF ToSet
  <2> HIDE DEF o, valued, owners
  <2>8. <<o, slot[2]>> \in Bindings
    BY <2>1, <2>7 DEF Bindings
  <2>9. BindOf(slot) # None
    BY <2>6, <2>8, BuildAssumption
  <2>10. Expr(slot) = source[BindOf(slot)]
    BY <2>9 DEF Expr
  <2> QED
    BY <2>6, <2>7, <2>8, <2>9, <2>10
<1> QED
  BY <1>1, <1>2

LEMMA ExprIs ==
  ASSUME source \in Sources, NEW slot \in Slots
  PROVE  /\ Allowed(slot, Expr(slot))
         /\ Expr(slot).op \in {"nothing", "literal", "chain", "ratio"}
         /\ Expr(slot).op = "nothing" <=> BindOf(slot) = None
         /\ Expr(slot).op = "nothing" <=> Expr(slot) = Nothing
         /\ Expr(slot).op = "literal" => BindOf(slot) \in Literals
         /\ DOMAIN Expr(slot).of = 1..Arity(Expr(slot).op)
         /\ Len(Expr(slot).of) = Arity(Expr(slot).op)
         /\ \A j \in 1..Arity(Expr(slot).op) : Operand(slot, j) \in Slots
<1>1. Allowed(slot, Expr(slot))
  <2>1. CASE Expr(slot) = Nothing
    BY <2>1 DEF Allowed
  <2>2. CASE Expr(slot) # Nothing
    <3>1. PICK o \in ToSet(Owners[slot[1]]) : BindOf(slot) = <<o, slot[2]>>
      BY <2>2, BindIs
    <3>2. Expr(slot) = source[<<o, slot[2]>>]
      BY <2>2, <3>1, BindIs
    <3> QED
      BY <3>2, SourceAssumption
  <2> QED
    BY <2>1, <2>2
<1> DEFINE e == Expr(slot)
<1>2. Expr(slot).op = "literal" => BindOf(slot) \in Literals
  BY BindIs DEF Literals, Nothing
<1>3. e.op = "nothing" <=> BindOf(slot) = None
  BY BindIs DEF Nothing
<1> HIDE DEF e
<1>4. CASE e \in {Nothing, Literal}
  <2>1. e.op \in {"nothing", "literal"} /\ DOMAIN e.of = 1..0 /\ Len(e.of) = 0 /\ Arity(e.op) = 0
    BY <1>4 DEF Nothing, Literal, Arity
  <2> QED
    BY <1>1, <1>2, <1>3, <1>4, <2>1 DEF e, Nothing, Literal
<1>5. CASE slot[2] = "require" /\ e = Chain(<<"own", "limit">>)
  <2>1. e.op = "chain" /\ e.of = <<<<"own", "limit">>>> /\ Arity(e.op) = 1
    BY <1>5 DEF Chain, Arity
  <2>2. DOMAIN e.of = 1..1 /\ Len(e.of) = 1 /\ e.of[1] = <<"own", "limit">>
    BY <2>1
  <2>3. Operand(slot, 1) = <<slot[1], "limit">>
    BY <2>2 DEF Operand, Resolve, e
  <2>4. slot[1] \in Reqs
    BY <1>5, SlotIs
  <2>5. Operand(slot, 1) \in Slots
    BY <2>3, <2>4 DEF Slots, ReqNames
  <2>6. \A j \in 1..1 : j = 1
    OBVIOUS
  <2> QED
    BY <1>1, <1>2, <1>3, <2>1, <2>2, <2>5, <2>6 DEF e, Nothing
<1>6. CASE e = Chain(e.of[1]) /\ Resolve(slot, e.of[1]) \in Attributes
  <2>1. e.op = "chain" /\ Arity(e.op) = 1 /\ e.of = <<e.of[1]>>
    BY <1>6 DEF Chain, Arity
  <2>2. DOMAIN e.of = 1..1 /\ Len(e.of) = 1
    BY <2>1
  <2>3. Operand(slot, 1) \in Slots
    BY <1>6, AttributesAreSlots DEF Operand, e
  <2>4. \A j \in 1..1 : j = 1
    OBVIOUS
  <2> QED
    BY <1>1, <1>2, <1>3, <2>1, <2>2, <2>3, <2>4 DEF e, Nothing
<1>7. CASE /\ e = Ratio(e.of[1], e.of[2])
           /\ Resolve(slot, e.of[1]) \in Attributes /\ Resolve(slot, e.of[2]) \in Attributes
  <2>1. e.op = "ratio" /\ Arity(e.op) = 2 /\ e.of = <<e.of[1], e.of[2]>>
    BY <1>7 DEF Ratio, Arity
  <2>2. DOMAIN e.of = 1..2 /\ Len(e.of) = 2
    BY <2>1
  <2>3. Operand(slot, 1) \in Slots /\ Operand(slot, 2) \in Slots
    BY <1>7, AttributesAreSlots DEF Operand, e
  <2>4. \A j \in 1..2 : j = 1 \/ j = 2
    OBVIOUS
  <2> QED
    BY <1>1, <1>2, <1>3, <2>1, <2>2, <2>3, <2>4 DEF e, Nothing
<1> QED
  BY <1>1, <1>4, <1>5, <1>6, <1>7 DEF Allowed, e

\* A binding and a scope name one slot.
LEMMA KeysDiffer ==
  ASSUME NEW r \in Slots, NEW s \in Slots, BindOf(r) # None, BindOf(s) # None, Key(r) = Key(s)
  PROVE  r = s
<1>1. BindOf(r) = BindOf(s) /\ r[1] = s[1]
  BY DEF Key
<1>2. r[2] = s[2]
  BY <1>1, BindIs
<1> QED
  BY <1>1, <1>2, SlotIs

LEMMA KeyIs ==
  ASSUME NEW s \in Slots, BindOf(s) # None
  PROVE  Key(s) \in Bindings \X (Usages \cup {None})
BY BindIs, SlotIs DEF Key

\* Where a projected value is taken from.
LEMMA OriginIs ==
  ASSUME source \in Sources, NEW p \in Projected
  PROVE  /\ Origin(p) \in Slots
         /\ p[1] \in Parts => Origin(p) = p
         /\ p[1] \in Parts <=> Origin(p)[1] \in Parts
         /\ Origin(p)[1] \in Reqs <=> p[1] \in Reqs
         /\ Origin(Origin(p)) = Origin(p)
         /\ Origin(p) = p \/ (Expr(p).op = "chain" /\ Operand(p, 1) = Origin(p))
<1>1. p \in Slots /\ (p[1] \in Parts \/ (p[1] \in Reqs /\ p[2] = "require"))
  BY ProjectedAreSlots
<1>2. p[1] \in Parts <=> p[1] \notin Reqs
  BY <1>1, SlotIs
<1>3. CASE ~(p[2] = "require" /\ Expr(p).op = "chain")
  BY <1>1, <1>2, <1>3 DEF Origin
<1>4. CASE p[2] = "require" /\ Expr(p).op = "chain"
  <2>1. Expr(p) = Chain(<<"own", "limit">>)
    BY <1>1, <1>4, ExprIs DEF Allowed, Nothing, Literal, Chain, Ratio
  <2>2. Origin(p) = <<p[1], "limit">> /\ Operand(p, 1) = <<p[1], "limit">>
    BY <1>4, <2>1 DEF Origin, Operand, Resolve, Chain
  <2>3. p[1] \in Reqs /\ p[1] \notin Parts
    BY <1>1, <1>2, <1>4, SlotIs
  <2>4. Origin(p) \in Slots
    BY <2>2, <2>3 DEF Slots, ReqNames
  <2>5. Origin(Origin(p)) = Origin(p)
    BY <2>2 DEF Origin
  <2> QED
    BY <1>4, <2>2, <2>3, <2>4, <2>5
<1> QED
  BY <1>3, <1>4

-----------------------------------------------------------------------------
(* What can be known.  Meaning is as much as can be: a step more adds nothing. *)

Numbers == [Literals -> Nat]

Blank == [s \in Slots |-> None]
Views == [Slots -> Nat \cup {None}]

\* n knows what m knows.
Extends(n, m) == \A s \in Slots : m[s] # None => n[s] = m[s]

LEMMA KnownIs ==
  ASSUME source \in Sources, NEW t \in Numbers, NEW m \in Views, NEW s \in Slots
  PROVE  /\ Expr(s).op = "nothing" => KnownFrom(t, m)[s] = None
         /\ Expr(s).op = "literal" => KnownFrom(t, m)[s] = t[BindOf(s)] /\ KnownFrom(t, m)[s] \in Nat
         /\ Expr(s).op = "chain" => KnownFrom(t, m)[s] = m[Operand(s, 1)]
         /\ Expr(s).op = "ratio" =>
              KnownFrom(t, m)[s] =
                IF m[Operand(s, 1)] = None \/ m[Operand(s, 2)] = None \/ m[Operand(s, 2)] = 0
                THEN None ELSE m[Operand(s, 1)] \div m[Operand(s, 2)]
         /\ KnownFrom(t, m)[s] \in Nat \cup {None}
<1> DEFINE e == Expr(s)
<1>1. DOMAIN e.of = 1..Arity(e.op) /\ e.op \in {"nothing", "literal", "chain", "ratio"}
      /\ \A j \in 1..Arity(e.op) : Operand(s, j) \in Slots
  BY ExprIs
<1>2. CASE e.op = "nothing"
  <2>1. KnownFrom(t, m)[s] = None
    BY <1>2 DEF KnownFrom
  <2> QED
    BY <1>2, <2>1
<1>3. CASE e.op = "literal"
  <2>1. DOMAIN e.of = {}
    BY <1>1, <1>3 DEF Arity
  <2>2. KnownFrom(t, m)[s] = t[BindOf(s)]
    BY <1>3, <2>1 DEF KnownFrom
  <2>3. t[BindOf(s)] \in Nat
    BY <1>3, ExprIs DEF Numbers
  <2> QED
    BY <1>3, <2>2, <2>3
<1>4. CASE e.op = "chain"
  <2>1. DOMAIN e.of = {1} /\ Operand(s, 1) \in Slots
    BY <1>1, <1>4 DEF Arity
  <2>2. KnownFrom(t, m)[s] = m[Operand(s, 1)]
    BY <1>4, <2>1 DEF KnownFrom, Operand
  <2> QED
    BY <1>4, <2>1, <2>2 DEF Views
<1>5. CASE e.op = "ratio"
  <2>1. DOMAIN e.of = {1, 2} /\ Operand(s, 1) \in Slots /\ Operand(s, 2) \in Slots
    BY <1>1, <1>5 DEF Arity
  <2> DEFINE x == m[Operand(s, 1)]
             y == m[Operand(s, 2)]
  <2>2. KnownFrom(t, m)[s] = IF x = None \/ y = None \/ y = 0 THEN None ELSE x \div y
    BY <1>5, <2>1 DEF KnownFrom, Operand
  <2>3. x \in Nat \cup {None} /\ y \in Nat \cup {None}
    BY <2>1 DEF Views
  <2>4. \A i, j \in Nat : j # 0 => i \div j \in Nat
    OBVIOUS
  <2> HIDE DEF x, y
  <2>5. KnownFrom(t, m)[s] \in Nat \cup {None}
    BY <2>2, <2>3, <2>4
  <2> QED
    BY <1>5, <2>2, <2>5 DEF x, y
<1> QED
  BY <1>1, <1>2, <1>3, <1>4, <1>5

LEMMA KnownIsView ==
  ASSUME source \in Sources, NEW t \in Numbers, NEW m \in Views
  PROVE  KnownFrom(t, m) \in Views
<1>1. KnownFrom(t, m) = [s \in Slots |-> KnownFrom(t, m)[s]]
  BY DEF KnownFrom
<1>2. \A s \in Slots : KnownFrom(t, m)[s] \in Nat \cup {None}
  BY KnownIs
<1> QED
  BY <1>1, <1>2 DEF Views

LEMMA KnowingMore ==
  ASSUME source \in Sources, NEW t \in Numbers, NEW m \in Views, NEW n \in Views, Extends(n, m)
  PROVE  Extends(KnownFrom(t, n), KnownFrom(t, m))
<1> SUFFICES ASSUME NEW s \in Slots, KnownFrom(t, m)[s] # None
             PROVE  KnownFrom(t, n)[s] = KnownFrom(t, m)[s]
  BY DEF Extends
<1> DEFINE e == Expr(s)
<1>1. e.op \in {"nothing", "literal", "chain", "ratio"}
      /\ \A j \in 1..Arity(e.op) : Operand(s, j) \in Slots
  BY ExprIs
<1>2. e.op # "nothing"
  BY KnownIs
<1>3. CASE e.op = "literal"
  BY <1>3, KnownIs
<1>4. CASE e.op = "chain"
  <2>1. Operand(s, 1) \in Slots
    BY <1>1, <1>4 DEF Arity
  <2>2. m[Operand(s, 1)] # None
    BY <1>4, KnownIs
  <2> QED
    BY <1>4, <2>1, <2>2, KnownIs DEF Extends
<1>5. CASE e.op = "ratio"
  <2>1. Operand(s, 1) \in Slots /\ Operand(s, 2) \in Slots
    BY <1>1, <1>5 DEF Arity
  <2>2. m[Operand(s, 1)] # None /\ m[Operand(s, 2)] # None
    BY <1>5, KnownIs
  <2>3. n[Operand(s, 1)] = m[Operand(s, 1)] /\ n[Operand(s, 2)] = m[Operand(s, 2)]
    BY <2>1, <2>2 DEF Extends
  <2> QED
    BY <1>5, <2>3, KnownIs
<1> QED
  BY <1>1, <1>2, <1>3, <1>4, <1>5

\* The recursion has a solution.
Knowing(t, n, f) == f = [k \in 0..n |-> IF k = 0 THEN Blank ELSE KnownFrom(t, f[k - 1])]

LEMMA KnowingExists ==
  ASSUME NEW t, NEW n \in Nat
  PROVE  \E f : Knowing(t, n, f)
<1> DEFINE S == {m \in Nat : ~ \E f : Knowing(t, m, f)}
<1> SUFFICES ASSUME S # {} PROVE FALSE
  OBVIOUS
<1>1. PICK m \in S : \A k \in S : m <= k
  <2> HIDE DEF S
  <2>1. S \subseteq Nat
    BY DEF S
  <2> QED
    BY <2>1, LeastNatural
<1>2. m # 0
  <2>1. Knowing(t, 0, [k \in 0..0 |-> Blank])
    BY DEF Knowing
  <2> QED
    BY <2>1
<1>3. m - 1 \in Nat /\ m - 1 \notin S
  BY <1>1, <1>2
<1>4. PICK f : Knowing(t, m - 1, f)
  BY <1>3
<1> DEFINE g == [k \in 0..m |-> IF k = m THEN KnownFrom(t, f[m - 1]) ELSE f[k]]
<1>5. \A k \in 0..(m - 1) : g[k] = f[k]
  BY <1>3
<1>6. ASSUME NEW k \in 0..m
      PROVE  g[k] = IF k = 0 THEN Blank ELSE KnownFrom(t, g[k - 1])
  <2>1. CASE k = m
    <3>1. g[m - 1] = f[m - 1]
      BY <1>3, <1>5
    <3> QED
      BY <1>2, <2>1, <3>1
  <2>2. CASE k # m
    <3>1. k \in 0..(m - 1) /\ (k # 0 => k - 1 \in 0..(m - 1))
      BY <2>2, <1>3
    <3>2. f[k] = IF k = 0 THEN Blank ELSE KnownFrom(t, f[k - 1])
      BY <1>4, <3>1 DEF Knowing
    <3> QED
      BY <1>5, <3>1, <3>2
  <2> QED
    BY <2>1, <2>2
<1>7. Knowing(t, m, g)
  <2>1. g = [k \in 0..m |-> g[k]]
    OBVIOUS
  <2> HIDE DEF g
  <2> QED
    BY <1>6, <2>1 DEF Knowing
<1> QED
  BY <1>7

Steps(t) == CHOOSE f : Knowing(t, Cardinality(Slots), f)

LEMMA StepsAre ==
  ASSUME source \in Sources, NEW t \in Numbers
  PROVE  /\ Cardinality(Slots) \in Nat
         /\ Meaning(t) = Steps(t)[Cardinality(Slots)]
         /\ Steps(t)[0] = Blank
         /\ \A k \in 1..Cardinality(Slots) : Steps(t)[k] = KnownFrom(t, Steps(t)[k - 1])
         /\ \A k \in 0..Cardinality(Slots) : Steps(t)[k] \in Views
<1> DEFINE N == Cardinality(Slots)
<1>1. N \in Nat
  BY BuildAssumption, FS_CardinalityType
<1>2. Meaning(t) = Steps(t)[N]
  BY DEF Meaning, Steps, Knowing, Blank
<1>3. Knowing(t, N, Steps(t))
  BY <1>1, KnowingExists DEF Steps
<1> HIDE DEF N
<1>4. Steps(t)[0] = Blank
  BY <1>1, <1>3 DEF Knowing
<1>5. ASSUME NEW k \in 1..N
      PROVE  Steps(t)[k] = KnownFrom(t, Steps(t)[k - 1])
  BY <1>1, <1>3 DEF Knowing
<1>6. \A k \in 0..N : Steps(t)[k] \in Views
  <2> DEFINE S == {k \in 0..N : Steps(t)[k] \notin Views}
  <2> SUFFICES ASSUME S # {} PROVE FALSE
    OBVIOUS
  <2>1. S \subseteq Nat
    BY <1>1
  <2>2. PICK k \in S : \A j \in S : k <= j
    <3> HIDE DEF S
    <3> QED
      BY <2>1, LeastNatural
  <2>3. k # 0
    BY <1>4 DEF Blank, Views
  <2>4. k \in 1..N /\ k - 1 \in 0..N /\ k - 1 \notin S
    BY <1>1, <2>2, <2>3
  <2> QED
    BY <1>5, <2>2, <2>4, KnownIsView
<1> QED
  BY <1>1, <1>2, <1>4, <1>5, <1>6 DEF N

\* An expression has no number unless each of its operands does.
LEMMA NeedsEach ==
  ASSUME source \in Sources, NEW t \in Numbers, NEW m \in Views, NEW s \in Slots,
         NEW j \in 1..Arity(Expr(s).op), m[Operand(s, j)] = None
  PROVE  KnownFrom(t, m)[s] = None
<1>1. Expr(s).op \in {"nothing", "literal", "chain", "ratio"}
  BY ExprIs
<1>2. CASE Expr(s).op \in {"nothing", "literal"}
  BY <1>2 DEF Arity
<1>3. CASE Expr(s).op = "chain"
  <2>1. j = 1
    BY <1>3 DEF Arity
  <2> QED
    BY <1>3, <2>1, KnownIs
<1>4. CASE Expr(s).op = "ratio"
  <2>1. j = 1 \/ j = 2
    BY <1>4 DEF Arity
  <2> QED
    BY <1>4, <2>1, KnownIs
<1> QED
  BY <1>1, <1>2, <1>3, <1>4

LEMMA StepsGrow ==
  ASSUME source \in Sources, NEW t \in Numbers, NEW k \in 0..Cardinality(Slots)
  PROVE  Extends(KnownFrom(t, Steps(t)[k]), Steps(t)[k])
<1> DEFINE N == Cardinality(Slots)
           S == {j \in 0..N : ~Extends(KnownFrom(t, Steps(t)[j]), Steps(t)[j])}
<1> SUFFICES ASSUME S # {} PROVE FALSE
  OBVIOUS
<1>1. S \subseteq Nat /\ N \in Nat
  BY StepsAre
<1>2. PICK j \in S : \A i \in S : j <= i
  <2> HIDE DEF S
  <2> QED
    BY <1>1, LeastNatural
<1>3. j # 0
  <2>1. Extends(KnownFrom(t, Blank), Blank)
    BY DEF Extends, Blank
  <2> QED
    BY <2>1, StepsAre
<1>4. j \in 1..N /\ j - 1 \in 0..N /\ j - 1 \notin S
  BY <1>1, <1>2, <1>3
<1>5. Extends(Steps(t)[j], Steps(t)[j - 1])
  BY <1>4, StepsAre
<1>6. Steps(t)[j] \in Views /\ Steps(t)[j - 1] \in Views
  BY <1>4, StepsAre
<1>7. Extends(KnownFrom(t, Steps(t)[j]), KnownFrom(t, Steps(t)[j - 1]))
  BY <1>5, <1>6, KnowingMore
<1> QED
  BY <1>2, <1>4, <1>7, StepsAre

\* Meaning is consistent: it is what can be known from itself.
LEMMA Fixpoint ==
  ASSUME source \in Sources, NEW t \in Numbers
  PROVE  Meaning(t) \in Views /\ KnownFrom(t, Meaning(t)) = Meaning(t)
<1> DEFINE N == Cardinality(Slots)
           At(k) == Steps(t)[k]
           Next1(k) == KnownFrom(t, At(k))
           Had(k) == {s \in Slots : At(k)[s] # None}
<1>1. N \in Nat /\ Meaning(t) = At(N) /\ At(N) \in Views
  BY StepsAre
<1>2. \A k \in 0..N : At(k) \in Views /\ Next1(k) \in Views /\ Extends(Next1(k), At(k))
  BY StepsAre, StepsGrow, KnownIsView
<1>3. \A k \in 1..N : At(k) = Next1(k - 1)
  BY StepsAre
<1>4. CASE \E k \in 0..N : Next1(k) = At(k)
  <2>1. PICK k \in 0..N : Next1(k) = At(k)
    BY <1>4
  <2> DEFINE S == {j \in k..N : At(j) # At(k)}
  <2>2. S = {}
    <3> SUFFICES ASSUME S # {} PROVE FALSE
      OBVIOUS
    <3>1. S \subseteq Nat
      BY <1>1
    <3>2. PICK j \in S : \A i \in S : j <= i
      <4> HIDE DEF S
      <4> QED
        BY <3>1, LeastNatural
    <3>3. j \in k..N /\ j # k /\ At(j) # At(k)
      OBVIOUS
    <3>4. j - 1 \in k..N /\ j - 1 \notin S /\ j \in 1..N
      <4> HIDE DEF At, N
      <4> QED
        BY <1>1, <3>2, <3>3
    <3>5. At(j - 1) = At(k)
      BY <3>4
    <3>6. At(j) = Next1(j - 1)
      BY <1>3, <3>4
    <3> QED
      BY <2>1, <3>3, <3>5, <3>6
  <2>3. N \in k..N
    BY <1>1
  <2>4. At(N) = At(k)
    BY <2>2, <2>3
  <2> QED
    BY <1>1, <2>1, <2>4
<1>5. CASE \A k \in 0..N : Next1(k) # At(k)
  <2>1. ASSUME NEW k \in 0..N
        PROVE  \E s \in Slots : At(k)[s] = None /\ Next1(k)[s] # None
    <3>1. At(k) \in [Slots -> Nat \cup {None}] /\ Next1(k) \in [Slots -> Nat \cup {None}]
      BY <1>2 DEF Views
    <3>2. Next1(k) # At(k) /\ Extends(Next1(k), At(k))
      BY <1>2, <1>5
    <3> HIDE DEF At, Next1
    <3>3. PICK s \in Slots : Next1(k)[s] # At(k)[s]
      BY <3>1, <3>2
    <3> QED
      BY <3>2, <3>3 DEF Extends
  <2> DEFINE S == {k \in 0..N : Cardinality(Had(k)) < k}
  <2>2. \A k \in 0..N : Had(k) \subseteq Slots /\ IsFiniteSet(Had(k)) /\ Cardinality(Had(k)) \in Nat
    <3>1. \A k : Had(k) \subseteq Slots
      OBVIOUS
    <3> HIDE DEF Had
    <3> QED
      BY <3>1, BuildAssumption, FS_Subset, FS_CardinalityType
  <2>3. S = {}
    <3> SUFFICES ASSUME S # {} PROVE FALSE
      OBVIOUS
    <3>1. S \subseteq Nat
      BY <1>1
    <3>2. PICK k \in S : \A i \in S : k <= i
      <4> HIDE DEF S
      <4> QED
        BY <3>1, LeastNatural
    <3> HIDE DEF Had
    <3>3. k \in 0..N /\ Cardinality(Had(k)) < k
      OBVIOUS
    <3>4. k \in 1..N /\ k - 1 \in 0..N
      <4> HIDE DEF N
      <4> QED
        BY <1>1, <2>2, <3>3
    <3>5. Cardinality(Had(k - 1)) >= k - 1
      <4>1. k - 1 \notin S
        BY <3>2, <3>4
      <4> QED
        BY <2>2, <3>4, <4>1
    <3>6. At(k) = Next1(k - 1) /\ Extends(At(k), At(k - 1))
      BY <1>2, <1>3, <3>4
    <3>7. PICK s \in Slots : At(k - 1)[s] = None /\ At(k)[s] # None
      BY <2>1, <3>4, <3>6
    <3>8. Had(k - 1) \subseteq Had(k) /\ s \in Had(k) \ Had(k - 1)
      BY <3>6, <3>7 DEF Had, Extends
    <3>9. Cardinality(Had(k - 1)) < Cardinality(Had(k))
      <4>1. Had(k - 1) \in SUBSET Had(k) /\ IsFiniteSet(Had(k)) /\ Had(k - 1) # Had(k)
        BY <2>2, <3>3, <3>8
      <4>2. Cardinality(Had(k - 1)) <= Cardinality(Had(k))
            /\ Cardinality(Had(k)) # Cardinality(Had(k - 1))
        BY <4>1, FS_Subset
      <4>3. Cardinality(Had(k - 1)) \in Nat /\ Cardinality(Had(k)) \in Nat
        BY <2>2, <3>3, <3>4
      <4> HIDE DEF N, At
      <4> QED
        BY <4>2, <4>3
    <3>10. Cardinality(Had(k - 1)) \in Nat /\ Cardinality(Had(k)) \in Nat /\ k \in Nat
      BY <2>2, <3>3, <3>4
    <3> HIDE DEF N, At, S
    <3> QED
      BY <3>3, <3>5, <3>9, <3>10
  <2>4. Had(N) = Slots
    <3>1. N \in 0..N /\ N \notin S
      BY <1>1, <2>3
    <3>2. Cardinality(Had(N)) \in Nat /\ Had(N) \in SUBSET Slots
      BY <2>2, <3>1
    <3>3. Cardinality(Had(N)) <= N
      BY <3>2, BuildAssumption, FS_Subset
    <3>4. Cardinality(Had(N)) >= N
      BY <1>1, <3>1, <3>2
    <3>5. Cardinality(Had(N)) = N
      <4> HIDE DEF N, Had, S
      <4> QED
        BY <1>1, <3>2, <3>3, <3>4
    <3> HIDE DEF Had
    <3> QED
      BY <3>2, <3>5, BuildAssumption, FS_Subset
  <2>5. N \in 0..N
    BY <1>1
  <2>6. PICK s \in Slots : At(N)[s] = None
    BY <2>1, <2>5
  <2> QED
    BY <2>4, <2>6
<1> QED
  BY <1>4, <1>5

\* No number comes out of a set of slots each of which needs another of it.
LEMMA CircleHasNone ==
  ASSUME source \in Sources, NEW t \in Numbers, NEW C, C \subseteq Slots,
         \A s \in C : \E j \in 1..Arity(Expr(s).op) : Operand(s, j) \in C
  PROVE  \A s \in C : Meaning(t)[s] = None
<1> DEFINE N == Cardinality(Slots)
           S == {k \in 0..N : \E s \in C : Steps(t)[k][s] # None}
<1>1. S = {}
  <2> SUFFICES ASSUME S # {} PROVE FALSE
    OBVIOUS
  <2>1. S \subseteq Nat /\ N \in Nat
    BY StepsAre
  <2>2. PICK k \in S : \A i \in S : k <= i
    <3> HIDE DEF S
    <3> QED
      BY <2>1, LeastNatural
  <2>3. PICK s \in C : Steps(t)[k][s] # None
    OBVIOUS
  <2>4. k # 0
    BY <2>3, StepsAre DEF Blank
  <2>5. k \in 1..N /\ k - 1 \in 0..N /\ k - 1 \notin S
    BY <2>1, <2>2, <2>4
  <2>6. PICK j \in 1..Arity(Expr(s).op) : Operand(s, j) \in C
    OBVIOUS
  <2>7. Steps(t)[k - 1][Operand(s, j)] = None
    BY <2>5, <2>6
  <2>8. Steps(t)[k][s] = KnownFrom(t, Steps(t)[k - 1])[s] /\ Steps(t)[k - 1] \in Views
    BY <2>5, StepsAre
  <2> HIDE DEF S
  <2>9. KnownFrom(t, Steps(t)[k - 1])[s] = None
    BY <2>6, <2>7, <2>8, NeedsEach
  <2> QED
    BY <2>3, <2>8, <2>9
<1>2. N \in 0..N /\ Meaning(t) = Steps(t)[N]
  BY StepsAre
<1> QED
  BY <1>1, <1>2

-----------------------------------------------------------------------------
(* The invariant. *)

\* A call in progress: the operands read so far, each with its meaning.
Frame(f) ==
  /\ f.slot \in Slots /\ BindOf(f.slot) # None
  /\ f.read \in Seq(Nat) /\ Len(f.read) <= Arity(Expr(f.slot).op)
  /\ \A j \in 1..Len(f.read) : f.read[j] = Meaning(text)[Operand(f.slot, j)]

\* Each call was made for the next operand of the one below it, no slot is
\* entered twice, and the first is a projected value's.
Calls ==
  /\ stack \in Seq([slot : Slots, read : Seq(Nat)])
  /\ \A i \in 1..Len(stack) : Frame(stack[i])
  /\ \A i \in 1..(Len(stack) - 1) :
       /\ Len(stack[i].read) < Arity(Expr(stack[i].slot).op)
       /\ stack[i + 1].slot = Operand(stack[i].slot, Len(stack[i].read) + 1)
  /\ \A i, j \in 1..Len(stack) : stack[i].slot = stack[j].slot => i = j
  /\ stack # <<>> => \E p \in Projected : stack[1].slot = Origin(p)

\* What is remembered is what is meant.
Remembered ==
  /\ DOMAIN values \subseteq Bindings \X (Usages \cup {None})
  /\ \A s \in Slots : BindOf(s) # None /\ Memo(s) =>
       values[Key(s)] \in Nat /\ values[Key(s)] = Meaning(text)[s]

\* Nothing is left to do for the value of p.
Evaluated(p) ==
  \/ p[1] \in Parts /\ BindOf(p) = None
  \/ p[1] \in Reqs /\ Carries(p)
  \/ BindOf(Origin(p)) # None /\ Memo(Origin(p))

\* No projected value is passed over.
Progress ==
  pc = "building" =>
    /\ agenda \in Seq(Projected)
    /\ \A p \in Projected :
         p \in ToSet(agenda) \/ Evaluated(p) \/ (stack # <<>> /\ stack[1].slot = Origin(p))

\* The model installed is the meaning of its text.
Installed ==
  pc = "served" \/ served # None =>
    /\ served.text \in Numbers \cap Texts
    /\ served.editable = Editable
    /\ \A p \in Projected : served.value[p] = Meaning(served.text)[p]
    /\ Meaningful(served.text)

\* An edit's text is the one installed but for one literal, exclusively owned.
Patched ==
  pc = "building" /\ served # None =>
    /\ asked.slot \in Editable
    /\ asked.value \in Nat
    /\ text = [served.text EXCEPT ![LiteralOf(asked.slot)] = asked.value]

BInv ==
  /\ source \in Sources
  /\ text \in Numbers \cap Texts
  /\ pc \in {"building", "served", "no model"}
  /\ edits \in 0..MaxEdits
  /\ Calls
  /\ Remembered
  /\ Progress
  /\ Installed
  /\ Patched
  /\ refused # None => ~Meaningful(refused)

-----------------------------------------------------------------------------
(* The source stays, and with it all it means. *)

LEMMA NamesStay ==
  ASSUME UNCHANGED source
  PROVE  /\ \A s : BindOf(s)' = BindOf(s)
         /\ \A s : Expr(s)' = Expr(s)
         /\ \A s : Key(s)' = Key(s)
         /\ \A s : Origin(s)' = Origin(s)
         /\ \A s : Carries(s)' = Carries(s)
         /\ \A s : LiteralOf(s)' = LiteralOf(s)
         /\ \A s, j : Operand(s, j)' = Operand(s, j)
         /\ Literals' = Literals /\ Numbers' = Numbers /\ Texts' = Texts /\ Editable' = Editable
<1>1. \A s : BindOf(s)' = BindOf(s)
  BY DEF BindOf
<1>2. \A s : Expr(s)' = Expr(s)
  BY DEF Expr, BindOf
<1>3. \A s : Key(s)' = Key(s)
  BY DEF Key, BindOf
<1>4. \A s : Origin(s)' = Origin(s)
  BY DEF Origin, Expr, BindOf
<1>5. \A s : Carries(s)' = Carries(s)
  <2> SUFFICES ASSUME NEW s PROVE Carries(s)' = Carries(s)
    OBVIOUS
  <2>1. Origin(s)' = Origin(s)
    BY <1>4
  <2> QED
    BY <2>1 DEF Carries, Expr, BindOf
<1>6. \A s : LiteralOf(s)' = LiteralOf(s)
  BY DEF LiteralOf, Origin, Expr, BindOf
<1>7. \A s, j : Operand(s, j)' = Operand(s, j)
  BY DEF Operand, Resolve, Expr, BindOf
<1>8. Literals' = Literals /\ Numbers' = Numbers /\ Texts' = Texts
  BY DEF Literals, Numbers, Texts
<1>9. Editable' = Editable
  BY <1>5, <1>6 DEF Editable
<1> QED
  BY <1>1, <1>2, <1>3, <1>4, <1>5, <1>6, <1>7, <1>8, <1>9

LEMMA MeaningStays ==
  ASSUME UNCHANGED source
  PROVE  /\ text' = text => Meaning(text)' = Meaning(text)
         /\ text' = served.text => Meaning(text)' = Meaning(served.text)
         /\ served' = served => Meaning(served.text)' = Meaning(served.text)
         /\ served' = served => Meaningful(served.text)' = Meaningful(served.text)
         /\ served'.text = text => Meaning(served.text)' = Meaning(text)
         /\ served'.text = text => Meaningful(served.text)' = Meaningful(text)
         /\ refused' = refused => Meaningful(refused)' = Meaningful(refused)
         /\ refused' = text => Meaningful(refused)' = Meaningful(text)
<1>1. text' = text => Meaning(text)' = Meaning(text)
  BY DEF Meaning, KnownFrom, Resolve, Expr, BindOf
<1>2. text' = served.text => Meaning(text)' = Meaning(served.text)
  BY DEF Meaning, KnownFrom, Resolve, Expr, BindOf
<1>3. served' = served => Meaning(served.text)' = Meaning(served.text)
  BY DEF Meaning, KnownFrom, Resolve, Expr, BindOf
<1>4. served' = served => Meaningful(served.text)' = Meaningful(served.text)
  BY DEF Meaningful, Meaning, KnownFrom, Resolve, Expr, BindOf
<1>5. served'.text = text => Meaning(served.text)' = Meaning(text)
  BY DEF Meaning, KnownFrom, Resolve, Expr, BindOf
<1>6. served'.text = text => Meaningful(served.text)' = Meaningful(text)
  BY DEF Meaningful, Meaning, KnownFrom, Resolve, Expr, BindOf
<1>7. refused' = refused => Meaningful(refused)' = Meaningful(refused)
  BY DEF Meaningful, Meaning, KnownFrom, Resolve, Expr, BindOf
<1>8. refused' = text => Meaningful(refused)' = Meaningful(text)
  BY DEF Meaningful, Meaning, KnownFrom, Resolve, Expr, BindOf
<1> QED
  BY <1>1, <1>2, <1>3, <1>4, <1>5, <1>6, <1>7, <1>8

-----------------------------------------------------------------------------
(* What the invariant says of the values and of a refusal. *)

LEMMA OriginMeans ==
  ASSUME source \in Sources, NEW t \in Numbers, NEW p \in Projected
  PROVE  /\ Meaning(t)[p] = Meaning(t)[Origin(p)]
         /\ Carries(p) =>
              /\ LiteralOf(p) \in Literals
              /\ Meaning(t)[p] = t[LiteralOf(p)] /\ Meaning(t)[p] # None
         /\ BindOf(Origin(p)) = None => Meaning(t)[p] = None
         /\ Carries(p) <=> Carries(Origin(p))
<1>1. p \in Slots /\ Origin(p) \in Slots /\ Origin(Origin(p)) = Origin(p)
  BY ProjectedAreSlots, OriginIs
<1>2. Meaning(t) \in Views /\ \A s \in Slots : Meaning(t)[s] = KnownFrom(t, Meaning(t))[s]
  BY Fixpoint
<1>3. Meaning(t)[p] = Meaning(t)[Origin(p)]
  <2>1. CASE Origin(p) = p
    BY <2>1
  <2>2. CASE Expr(p).op = "chain" /\ Operand(p, 1) = Origin(p)
    BY <1>1, <1>2, <2>2, KnownIs
  <2> QED
    BY <2>1, <2>2, OriginIs
<1>4. ASSUME Carries(p)
      PROVE  LiteralOf(p) \in Literals /\ Meaning(t)[p] = t[LiteralOf(p)] /\ Meaning(t)[p] # None
  <2>1. Expr(Origin(p)).op = "literal"
    BY <1>4 DEF Carries
  <2>2. LiteralOf(p) \in Literals
    BY <1>1, <2>1, ExprIs DEF LiteralOf
  <2>3. Meaning(t)[Origin(p)] = t[LiteralOf(p)] /\ Meaning(t)[Origin(p)] \in Nat
    BY <1>1, <1>2, <2>1, KnownIs DEF LiteralOf
  <2> QED
    BY <1>3, <2>2, <2>3, BuildAssumption
<1>5. ASSUME BindOf(Origin(p)) = None
      PROVE  Meaning(t)[p] = None
  <2>1. Expr(Origin(p)).op = "nothing"
    BY <1>1, <1>5, ExprIs
  <2> QED
    BY <1>1, <1>2, <1>3, <2>1, KnownIs
<1>6. Carries(p) <=> Carries(Origin(p))
  BY <1>1 DEF Carries
<1> QED
  BY <1>3, <1>4, <1>5, <1>6

\* An expression means what it makes of what its operands mean.
LEMMA MeansNone ==
  ASSUME source \in Sources, NEW t \in Numbers, NEW s \in Slots,
         NEW j \in 1..Arity(Expr(s).op), Meaning(t)[Operand(s, j)] = None
  PROVE  Meaning(t)[s] = None
<1>1. Meaning(t) \in Views /\ KnownFrom(t, Meaning(t)) = Meaning(t)
  BY Fixpoint
<1> QED
  BY <1>1, NeedsEach

LEMMA CallsAre ==
  ASSUME Calls
  PROVE  /\ Len(stack) \in Nat /\ DOMAIN stack = 1..Len(stack)
         /\ stack # <<>> => Len(stack) >= 1
         /\ \A i \in 1..Len(stack) : Frame(stack[i]) /\ stack[i].slot \in Slots
<1> DEFINE F == [slot : Slots, read : Seq(Nat)]
<1>1. stack \in Seq(F) /\ \A i \in 1..Len(stack) : Frame(stack[i])
  BY DEF Calls
<1> HIDE DEF F
<1>2. Len(stack) \in Nat /\ DOMAIN stack = 1..Len(stack) /\ (stack # <<>> => Len(stack) >= 1)
  BY <1>1
<1> QED
  BY <1>1, <1>2 DEF Frame

\* When the expression being evaluated has no number, a projected value has none.
LEMMA NoneToTheBottom ==
  ASSUME BInv, stack # <<>>, Meaning(text)[stack[Len(stack)].slot] = None
  PROVE  ~Meaningful(text)
<1> DEFINE S == {i \in 1..Len(stack) : Meaning(text)[stack[i].slot] = None}
<1>1. Len(stack) \in Nat /\ Len(stack) # 0 /\ source \in Sources /\ text \in Numbers
  <2>1. Calls /\ source \in Sources /\ text \in Numbers
    BY DEF BInv
  <2>2. Len(stack) \in Nat /\ Len(stack) >= 1
    BY <2>1, CallsAre
  <2> QED
    BY <2>1, <2>2
<1>2. \A i \in 1..Len(stack) : Frame(stack[i])
  BY DEF BInv, Calls
<1>3. S \subseteq Nat /\ Len(stack) \in S
  BY <1>1
<1>4. PICK i \in S : \A k \in S : i <= k
  <2> HIDE DEF S
  <2> QED
    BY <1>3, LeastNatural
<1>5. i = 1
  <2> SUFFICES ASSUME i # 1 PROVE FALSE
    OBVIOUS
  <2>1. i - 1 \in 1..(Len(stack) - 1) /\ i - 1 \in 1..Len(stack) /\ i - 1 \notin S
    BY <1>1, <1>4
  <2> DEFINE f == stack[i - 1]
             j == Len(f.read) + 1
  <2>2. Frame(f) /\ Len(f.read) < Arity(Expr(f.slot).op) /\ stack[(i - 1) + 1].slot = Operand(f.slot, j)
    BY <1>2, <2>1 DEF BInv, Calls
  <2>3. (i - 1) + 1 = i
    BY <1>1
  <2>4. f.slot \in Slots /\ Len(f.read) \in Nat /\ Arity(Expr(f.slot).op) \in Nat
    <3>1. f.slot \in Slots /\ f.read \in Seq(Nat)
      BY <2>2 DEF Frame
    <3>2. Arity(Expr(f.slot).op) \in Nat
      BY <1>1, <3>1, ExprIs DEF Arity
    <3> QED
      BY <3>1, <3>2
  <2>5. j \in 1..Arity(Expr(f.slot).op)
    <3> HIDE DEF f
    <3> QED
      BY <2>2, <2>4
  <2>6. Meaning(text)[Operand(f.slot, j)] = None
    BY <2>2, <2>3
  <2>7. Meaning(text)[f.slot] = None
    <3> HIDE DEF f, j
    <3> QED
      BY <1>1, <2>4, <2>5, <2>6, MeansNone
  <2> QED
    BY <2>1, <2>7
<1>6. PICK p \in Projected : stack[1].slot = Origin(p)
  BY DEF BInv, Calls
<1>7. Meaning(text)[p] = None
  BY <1>1, <1>4, <1>5, <1>6, OriginMeans
<1>8. BindOf(Origin(p)) # None /\ Frame(stack[1])
  BY <1>2, <1>4, <1>5, <1>6 DEF Frame
<1>9. ~(p[1] \in Parts /\ Expr(p) = Nothing)
  <2>1. p[1] \in Parts => Origin(p) = p
    BY <1>1, OriginIs
  <2> QED
    BY <1>1, <1>8, <2>1, ProjectedAreSlots, ExprIs
<1> QED
  BY <1>7, <1>9 DEF Meaningful

\* The calls are no deeper than there are slots.
LEMMA CallsAreBounded ==
  ASSUME Calls
  PROVE  Len(stack) <= Cardinality(Slots)
<1> DEFINE n == Len(stack)
           f == [i \in 1..n |-> stack[i].slot]
<1>1. n \in Nat /\ \A i \in 1..n : stack[i].slot \in Slots
  BY CallsAre
<1>2. f \in Injection(1..n, Slots)
  <2>1. f \in [1..n -> Slots]
    BY <1>1
  <2>2. \A i, j \in 1..n : f[i] = f[j] => i = j
    BY DEF Calls
  <2> HIDE DEF f
  <2> QED
    BY <2>1, <2>2 DEF Injection, IsInjective
<1> HIDE DEF f
<1>3. Cardinality(1..n) <= Cardinality(Slots)
  BY <1>2, BuildAssumption, FS_Injection
<1>4. Cardinality(1..n) = n
  <2>1. Cardinality(1..n) = IF 1 > n THEN 0 ELSE n - 1 + 1
    BY <1>1, FS_Interval
  <2> HIDE DEF n
  <2> QED
    BY <1>1, <2>1
<1> QED
  BY <1>3, <1>4

LEMMA InvariantSays == BInv => BuildsWhatItMeans
<1> SUFFICES ASSUME BInv PROVE BuildsWhatItMeans
  OBVIOUS
<1>1. Len(stack) <= Cardinality(Slots) /\ \A i \in DOMAIN stack : stack[i].slot \in Slots
  BY CallsAreBounded, CallsAre DEF BInv
<1>2. Editable \subseteq Projected
  BY DEF Editable
<1>3. TypeOK
  BY <1>1, <1>2 DEF TypeOK, BInv, Remembered, Installed
<1> QED
  BY <1>3 DEF BuildsWhatItMeans, BInv, Installed

\* A call in progress stays one.
LEMMA FrameStays ==
  ASSUME UNCHANGED <<source, text>>, NEW f, Frame(f)
  PROVE  Frame(f)'
BY NamesStay, MeaningStays DEF Frame

\* What a step that leaves the calls, or what is remembered, alone keeps.
LEMMA StillCalls ==
  ASSUME Calls, UNCHANGED <<source, text, stack>>
  PROVE  Calls'
<1>1. \A i \in 1..Len(stack) : \A f : f = stack[i] => Frame(f)'
  BY FrameStays DEF Calls
<1>2. \A i \in 1..Len(stack) : Frame(stack[i])'
  BY <1>1
<1> QED
  BY <1>2, NamesStay DEF Calls, Arity

LEMMA StillRemembered ==
  ASSUME Remembered, UNCHANGED <<source, text, values>>
  PROVE  Remembered'
BY NamesStay, MeaningStays DEF Remembered, Memo

-----------------------------------------------------------------------------
(* Each step keeps the invariant. *)

LEMMA InitBInv == Init => BInv
<1> SUFFICES ASSUME Init PROVE BInv
  OBVIOUS
<1>1. text \in Numbers \cap Texts
  BY BuildAssumption DEF Init, Numbers, Texts, Literals
<1>2. Calls
  BY DEF Init, Calls
<1>3. Remembered
  BY DEF Init, Remembered, Memo
<1>4. Progress
  BY BuildAssumption DEF Init, Progress, Projected
<1>5. Installed /\ Patched
  BY DEF Init, Installed, Patched
<1> QED
  BY <1>1, <1>2, <1>3, <1>4, <1>5, BuildAssumption DEF Init, BInv

LEMMA FailKeeps ==
  ASSUME BInv, Fail, ~Meaningful(text)
  PROVE  BInv'
<1> USE DEF Fail
<1>1. UNCHANGED source /\ UNCHANGED served
  OBVIOUS
<1>2. (text \in Numbers \cap Texts)'
  BY <1>1, NamesStay DEF BInv, Installed
<1>3. stack' = <<>> /\ values' = <<>>
  OBVIOUS
<1>4. Calls' /\ Remembered'
  <2> USE DEFS Calls, Remembered, Memo
  <2> HIDE DEF Fail
  <2>1. Calls'
    BY <1>3
  <2>2. Remembered'
    BY <1>3
  <2> QED
    BY <2>1, <2>2
<1>5. Progress' /\ Patched'
  BY DEF Progress, Patched
<1>6. Installed'
  BY <1>1, NamesStay, MeaningStays DEF Installed, BInv
<1>7. (refused # None => ~Meaningful(refused))'
  BY <1>1, MeaningStays
<1> QED
  BY <1>2, <1>4, <1>5, <1>6, <1>7 DEF BInv

LEMMA SetLiteralKeeps ==
  ASSUME BInv, NEW p \in Projected, NEW v \in Requested, SetLiteral(p, v)
  PROVE  BInv'
<1> USE DEF SetLiteral, Start
<1>1. UNCHANGED source /\ UNCHANGED served /\ UNCHANGED refused /\ pc = "served"
  OBVIOUS
<1>2. served.text \in Numbers \cap Texts /\ served.editable = Editable
  BY <1>1 DEF BInv, Installed
<1>3. (edits \in 0..MaxEdits)'
  BY BuildAssumption DEF BInv
<1>4. Installed'
  BY <1>1, NamesStay, MeaningStays DEF Installed, BInv
<1>5. (refused # None => ~Meaningful(refused))'
  BY <1>1, MeaningStays DEF BInv
<1>6. CASE p \in served.editable /\ v >= 0
  <2>1. p \in Editable /\ v \in Nat
    BY <1>2, <1>6, BuildAssumption
  <2>2. LiteralOf(p) \in Literals
    <3>1. Origin(p) \in Slots /\ Expr(Origin(p)).op = "literal"
      BY <2>1, OriginIs DEF BInv, Editable, Carries
    <3> QED
      BY <3>1, ExprIs DEF BInv, LiteralOf
  <2>3. text' = [served.text EXCEPT ![LiteralOf(p)] = v]
    BY <1>6
  <2>4. text' \in Numbers \cap Texts
    BY <1>2, <2>1, <2>2, <2>3 DEF Numbers, Texts, Literals
  <2>5. (text \in Numbers \cap Texts)'
    BY <1>1, <2>4, NamesStay
  <2>6. Calls'
    BY <1>6 DEF Calls
  <2>7. Remembered'
    BY <1>6 DEF Remembered, Memo
  <2>8. Progress'
    BY <1>6, BuildAssumption DEF Progress, Projected
  <2>9. Patched'
    BY <1>1, <1>6, <2>1, <2>3, NamesStay DEF Patched
  <2> QED
    BY <1>1, <1>3, <1>4, <1>5, <1>6, <2>5, <2>6, <2>7, <2>8, <2>9 DEF BInv
<1>7. CASE ~(p \in served.editable /\ v >= 0)
  <2>1. UNCHANGED <<source, text, pc, stack, values, agenda, asked, served, refused>>
    BY <1>7
  <2>2. Calls'
    BY <2>1, StillCalls DEF BInv
  <2>3. Remembered'
    BY <2>1, StillRemembered DEF BInv
  <2>4. Progress' /\ Patched'
    BY <1>1, <2>1 DEF Progress, Patched
  <2>5. (text \in Numbers \cap Texts)'
    BY <2>1, NamesStay DEF BInv
  <2> QED
    BY <1>1, <1>3, <1>4, <1>5, <2>1, <2>2, <2>3, <2>4, <2>5 DEF BInv
<1> QED
  BY <1>6, <1>7

LEMMA ValueIsMeant ==
  ASSUME BInv, NEW p \in Projected, Evaluated(p)
  PROVE  /\ ValueOf(p) = Meaning(text)[p]
         /\ Meaning(text)[p] # None \/ (p[1] \in Parts /\ Expr(p) = Nothing)
<1> DEFINE from == Origin(p)
<1>1. source \in Sources /\ text \in Numbers /\ Remembered
  BY DEF BInv
<1>2. /\ p \in Slots /\ from \in Slots
      /\ from[1] \in Reqs <=> p[1] \in Reqs
      /\ p[1] \in Parts => from = p
  BY <1>1, ProjectedAreSlots, OriginIs
<1>3. CASE p[1] \in Parts /\ BindOf(p) = None
  <2>1. BindOf(from) = None /\ Expr(p) = Nothing
    BY <1>1, <1>2, <1>3, ExprIs
  <2>2. ValueOf(p) = None
    BY <1>2, <1>3, <2>1, SlotIs DEF ValueOf
  <2> QED
    BY <1>1, <1>3, <2>1, <2>2, OriginMeans
<1>4. CASE p[1] \in Reqs /\ Carries(p)
  <2>1. BindOf(from) # None
    BY <1>1, <1>2, <1>4, ExprIs DEF Carries
  <2>2. ValueOf(p) = text[LiteralOf(p)]
    BY <1>2, <1>4, <2>1 DEF ValueOf
  <2> QED
    BY <1>1, <1>4, <2>2, OriginMeans
<1>5. CASE BindOf(from) # None /\ Memo(from) /\ ~(p[1] \in Reqs /\ Carries(p))
  <2>1. ValueOf(p) = values[Key(from)]
    BY <1>2, <1>5 DEF ValueOf
  <2>2. values[Key(from)] = Meaning(text)[from] /\ values[Key(from)] \in Nat
    BY <1>1, <1>2, <1>5 DEF Remembered
  <2> QED
    BY <1>1, <2>1, <2>2, OriginMeans, BuildAssumption
<1> QED
  BY <1>3, <1>4, <1>5 DEF Evaluated

LEMMA ServeKeeps ==
  ASSUME BInv, Serve
  PROVE  BInv'
<1> USE DEF Serve
<1>1. UNCHANGED <<source, text, stack, values, refused>>
  OBVIOUS
<1>2. \A p \in Projected : Evaluated(p)
  <2>1. ToSet(agenda) = {}
    BY DEF ToSet
  <2> QED
    BY <2>1 DEF BInv, Progress
<1>3. served'.text = text /\ served'.editable = Editable
      /\ \A p \in Projected : served'.value[p] = Meaning(text)[p]
  <2>1. served' = [text |-> text, value |-> [p \in Projected |-> ValueOf(p)], editable |-> Editable]
    OBVIOUS
  <2>2. \A p \in Projected : ValueOf(p) = Meaning(text)[p]
    BY <1>2, ValueIsMeant
  <2> QED
    BY <2>1, <2>2
<1>4. Meaningful(text)
  BY <1>2, ValueIsMeant DEF Meaningful
<1>5. Installed'
  <2>1. served'.text \in Numbers' \cap Texts' /\ served'.editable = Editable'
    BY <1>1, <1>3, NamesStay DEF BInv
  <2>2. Meaning(served.text)' = Meaning(text) /\ Meaningful(served.text)' = Meaningful(text)
    BY <1>1, <1>3, MeaningStays
  <2> QED
    BY <1>3, <1>4, <2>1, <2>2 DEF Installed
<1>6. Calls' /\ Remembered'
  BY <1>1, StillCalls, StillRemembered DEF BInv
<1>7. Progress' /\ Patched'
  BY DEF Progress, Patched
<1>8. (refused # None => ~Meaningful(refused))'
  BY <1>1, MeaningStays DEF BInv
<1>9. (text \in Numbers \cap Texts)'
  BY <1>1, NamesStay DEF BInv
<1> QED
  BY <1>1, <1>5, <1>6, <1>7, <1>8, <1>9 DEF BInv

\* What a step of the evaluation leaves as it was.
LEMMA StillBuilding ==
  ASSUME BInv, pc = "building",
         UNCHANGED <<source, text, pc, served, asked, refused, edits>>, Calls', Remembered', Progress'
  PROVE  BInv'
<1>1. (text \in Numbers \cap Texts)'
  BY NamesStay DEF BInv
<1>2. Installed'
  BY NamesStay, MeaningStays DEF Installed, BInv
<1>3. Patched'
  BY NamesStay DEF Patched, BInv
<1>4. (refused # None => ~Meaningful(refused))'
  BY MeaningStays DEF BInv
<1> QED
  BY <1>1, <1>2, <1>3, <1>4 DEF BInv

\* Nothing evaluated is forgotten.
LEMMA StillEvaluated ==
  ASSUME UNCHANGED source, NEW p \in Projected, Evaluated(p), DOMAIN values \subseteq DOMAIN values'
  PROVE  Evaluated(p)'
BY NamesStay DEF Evaluated, Memo

LEMMA OneLess ==
  ASSUME NEW S, NEW seq \in Seq(S), seq # <<>>
  PROVE  /\ Head(seq) \in S /\ Tail(seq) \in Seq(S)
         /\ \A e \in ToSet(seq) : e = Head(seq) \/ e \in ToSet(Tail(seq))
<1>1. Head(seq) \in S /\ Tail(seq) \in Seq(S) /\ Len(Tail(seq)) = Len(seq) - 1
      /\ \A i \in 1..Len(Tail(seq)) : Tail(seq)[i] = seq[i + 1]
  BY HeadTailProperties
<1>2. ASSUME NEW e \in ToSet(seq), e # Head(seq) PROVE e \in ToSet(Tail(seq))
  <2>1. PICK i \in 1..Len(seq) : e = seq[i]
    BY DEF ToSet
  <2>2. i # 1
    BY <1>2, <2>1
  <2>3. i - 1 \in 1..Len(Tail(seq)) /\ (i - 1) + 1 = i
    BY <1>1, <2>1, <2>2
  <2>4. Tail(seq)[i - 1] = e
    BY <1>1, <2>1, <2>3
  <2>5. DOMAIN Tail(seq) = 1..Len(Tail(seq))
    BY <1>1
  <2> QED
    BY <2>3, <2>4, <2>5 DEF ToSet
<1> QED
  BY <1>1, <1>2

\* The stack with a call more for slot.
LEMMA CallsPushed ==
  ASSUME source \in Sources, Calls, NEW slot \in Slots, BindOf(slot) # None,
         UNCHANGED <<source, text>>, Push(slot),
         \A i \in 1..Len(stack) : stack[i].slot # slot,
         stack = <<>> => \E p \in Projected : slot = Origin(p),
         stack # <<>> =>
           LET top == stack[Len(stack)]
           IN  Len(top.read) < Arity(Expr(top.slot).op) /\ slot = Operand(top.slot, Len(top.read) + 1)
  PROVE  /\ Calls' /\ stack' # <<>>
         /\ stack = <<>> => stack'[1].slot = slot
         /\ stack # <<>> => stack'[1].slot = stack[1].slot
<1> DEFINE n == Len(stack)
           new == [slot |-> slot, read |-> <<>>]
           F == [slot : Slots, read : Seq(Nat)]
<1>1. stack \in Seq(F) /\ n \in Nat /\ new \in F /\ (stack = <<>> <=> n = 0)
  BY CallsAre DEF Calls
<1>2. stack' = Append(stack, new)
  BY DEF Push
<1> HIDE DEF F
<1>3. /\ stack' \in Seq(F) /\ stack' # <<>> /\ Len(stack') = n + 1
      /\ \A i \in 1..n : stack'[i] = stack[i]
      /\ stack'[n + 1] = new
  BY <1>1, <1>2, AppendProperties
<1>4. \A i \in 1..n : Frame(stack[i])
  BY DEF Calls
<1>5. ASSUME NEW i \in 1..(n + 1)
      PROVE  Frame(stack[i])'
  <2>1. CASE i \in 1..n
    <3>1. \A f : f = stack[i] => Frame(f)'
      BY <1>4, <2>1, FrameStays
    <3> QED
      BY <1>3, <2>1, <3>1
  <2>2. CASE i = n + 1
    <3>1. Arity(Expr(slot).op) \in Nat
      BY ExprIs DEF Arity
    <3>2. stack'[i] = [slot |-> slot, read |-> <<>>]
      BY <1>3, <2>2
    <3> HIDE DEF n
    <3> QED
      BY <3>1, <3>2, NamesStay DEF Frame
  <2> QED
    BY <1>1, <2>1, <2>2
<1>6. ASSUME NEW i \in 1..n
      PROVE  /\ Len(stack'[i].read) < Arity(Expr(stack[i].slot).op)'
             /\ stack'[i + 1].slot = Operand(stack[i].slot, Len(stack[i].read) + 1)'
  <2>1. stack'[i] = stack[i]
    BY <1>3
  <2>2. /\ Len(stack[i].read) < Arity(Expr(stack[i].slot).op)
        /\ stack'[i + 1].slot = Operand(stack[i].slot, Len(stack[i].read) + 1)
    <3>1. CASE i = n
      BY <1>1, <1>3, <3>1
    <3>2. CASE i # n
      <4>1. i \in 1..(n - 1) /\ i + 1 \in 1..n
        BY <1>1, <3>2
      <4> QED
        BY <1>3, <4>1 DEF Calls
    <3> QED
      BY <3>1, <3>2
  <2> QED
    BY <2>1, <2>2, NamesStay DEF Arity
<1>7. \A i, j \in 1..(n + 1) : stack'[i].slot = stack'[j].slot => i = j
  <2>1. \A i \in 1..(n + 1) : i \in 1..n \/ i = n + 1
    BY <1>1
  <2>2. \A i \in 1..n : stack'[i].slot = stack[i].slot /\ stack'[i].slot # slot
    BY <1>3
  <2>3. \A i, j \in 1..n : stack[i].slot = stack[j].slot => i = j
    BY DEF Calls
  <2>4. stack'[n + 1].slot = slot
    BY <1>3
  <2> QED
    BY <2>1, <2>2, <2>3, <2>4
<1>8. /\ stack = <<>> => stack'[1].slot = slot
      /\ stack # <<>> => stack'[1].slot = stack[1].slot
  <2>1. n # 0 => 1 \in 1..n
    BY <1>1
  <2> QED
    BY <1>1, <1>3, <2>1
<1>9. \E p \in Projected : stack'[1].slot = Origin(p)'
  BY <1>8, NamesStay DEF Calls
<1>10. Calls'
  <2>1. (Len(stack') - 1) = n
    BY <1>1, <1>3
  <2> QED
    BY <1>3, <1>5, <1>6, <1>7, <1>9, <2>1 DEF Calls, F
<1> QED
  BY <1>3, <1>8, <1>10

LEMMA ProjectKeeps ==
  ASSUME BInv, Project
  PROVE  BInv'
<1> USE DEF Project
<1> DEFINE p == Head(agenda)
           slot == Origin(p)
           limit == slot[1] \in Reqs
<1>1. /\ pc = "building" /\ stack = <<>> /\ source \in Sources /\ text \in Numbers
      /\ agenda \in Seq(Projected) /\ agenda # <<>> /\ Calls /\ Remembered
  BY DEF BInv, Progress
<1>2. /\ p \in Projected /\ Tail(agenda) \in Seq(Projected)
      /\ \A o \in ToSet(agenda) : o = p \/ o \in ToSet(Tail(agenda))
  BY <1>1, OneLess
<1>3. /\ p \in Slots /\ slot \in Slots /\ (slot[1] \in Reqs <=> p[1] \in Reqs)
      /\ (p[1] \in Parts => slot = p) /\ (p[1] \in Parts <=> p[1] \notin Reqs)
  BY <1>1, <1>2, ProjectedAreSlots, OriginIs, SlotIs
<1>4. CASE limit /\ BindOf(slot) = None
  <2>1. Meaning(text)[p] = None /\ ~(p[1] \in Parts)
    BY <1>1, <1>2, <1>3, <1>4, OriginMeans
  <2>2. ~Meaningful(text)
    BY <1>2, <2>1 DEF Meaningful
  <2>3. Fail
    BY <1>4
  <2> QED
    BY <2>2, <2>3, FailKeeps
<1>5. CASE ~(limit /\ BindOf(slot) = None)
  <2>1. /\ UNCHANGED <<source, text, pc, values, served, asked, refused, edits>>
        /\ agenda' = Tail(agenda)
        /\ IF BindOf(slot) = None \/ Memo(slot) \/ (limit /\ Carries(slot))
             THEN UNCHANGED stack ELSE Push(slot)
    BY <1>5
  <2> HIDE DEF Project
  <2>2. Remembered'
    BY <1>1, <2>1, StillRemembered
  <2>3. \A o \in Projected : o = p \/ o \in ToSet(agenda)' \/ Evaluated(o)'
    <3>1. ASSUME NEW o \in Projected, o # p, o \notin ToSet(agenda)' PROVE Evaluated(o)'
      <4>1. Evaluated(o)
        BY <1>1, <1>2, <2>1, <3>1 DEF BInv, Progress
      <4> QED
        BY <2>1, <4>1, StillEvaluated
    <3> QED
      BY <3>1
  <2>4. CASE BindOf(slot) = None \/ Memo(slot) \/ (limit /\ Carries(slot))
    <3>1. Calls'
      BY <1>1, <2>1, <2>4, StillCalls
    <3>2. Evaluated(p)
      <4>1. p \in Projected /\ (Carries(p) <=> Carries(slot))
        BY <1>1, <1>2, OriginMeans
      <4> QED
        BY <1>3, <1>5, <2>4, <4>1 DEF Evaluated
    <3>3. ASSUME NEW o \in Projected, o = p PROVE Evaluated(o)'
      BY <2>1, <3>2, <3>3, StillEvaluated
    <3>4. Progress'
      <4> HIDE DEF p
      <4> QED
        BY <1>2, <2>1, <2>3, <3>3 DEF Progress
    <3> QED
      BY <1>1, <2>1, <2>2, <3>1, <3>4, StillBuilding
  <2>5. CASE ~(BindOf(slot) = None \/ Memo(slot) \/ (limit /\ Carries(slot)))
    <3>1. Push(slot) /\ BindOf(slot) # None
      BY <2>1, <2>5
    <3>2. \A i \in 1..Len(stack) : stack[i].slot # slot
      BY <1>1, CallsAre
    <3>3. Calls' /\ stack' # <<>> /\ stack'[1].slot = slot
      <4> HIDE DEF slot
      <4>1. \E o \in Projected : slot = Origin(o)
        BY <1>2 DEF slot
      <4> QED
        BY <1>1, <1>3, <2>1, <3>1, <3>2, <4>1, CallsPushed
    <3>4. Progress'
      <4>1. \A o \in Projected : o = p => stack'[1].slot = Origin(o)'
        BY <2>1, <3>3, NamesStay
      <4> HIDE DEF p, slot
      <4> QED
        BY <1>2, <2>1, <2>3, <3>3, <4>1 DEF Progress
    <3> QED
      BY <1>1, <2>1, <2>2, <3>3, <3>4, StillBuilding
  <2> QED
    BY <2>4, <2>5
<1> QED
  BY <1>4, <1>5

\* The operand the topmost call is about to read.
Wanted == Operand(Top.slot, Len(Top.read) + 1)

LEMMA TopIs ==
  ASSUME source \in Sources, Calls, stack # <<>>
  PROVE  /\ Top = stack[Len(stack)] /\ Len(stack) \in 1..Len(stack)
         /\ Frame(Top) /\ Top.slot \in Slots /\ Top.read \in Seq(Nat) /\ Len(Top.read) \in Nat
         /\ Top \in [slot : Slots, read : Seq(Nat)]
         /\ Len(Expr(Top.slot).of) = Arity(Expr(Top.slot).op) /\ Arity(Expr(Top.slot).op) \in Nat
         /\ Len(Top.read) < Arity(Expr(Top.slot).op) =>
              Len(Top.read) + 1 \in 1..Arity(Expr(Top.slot).op) /\ Wanted \in Slots
<1> DEFINE top == stack[Len(stack)]
<1>1. Top = top
  BY DEF Top, Last
<1>2. Len(stack) \in Nat /\ Len(stack) >= 1
  BY CallsAre
<1>3. Frame(top) /\ top \in [slot : Slots, read : Seq(Nat)]
  <2>1. Len(stack) \in 1..Len(stack)
    BY <1>2
  <2> DEFINE F == [slot : Slots, read : Seq(Nat)]
  <2>2. stack \in Seq(F)
    BY DEF Calls
  <2> HIDE DEF F
  <2>3. top \in F
    BY <2>1, <2>2
  <2> QED
    BY <2>1, <2>3, CallsAre DEF F
<1> HIDE DEF top
<1>4. top.slot \in Slots /\ top.read \in Seq(Nat) /\ Len(top.read) \in Nat
  BY <1>3
<1>5. Len(Expr(top.slot).of) = Arity(Expr(top.slot).op) /\ Arity(Expr(top.slot).op) \in Nat
      /\ \A j \in 1..Arity(Expr(top.slot).op) : Operand(top.slot, j) \in Slots
  BY <1>4, ExprIs DEF Arity
<1>6. ASSUME Len(top.read) < Arity(Expr(top.slot).op)
      PROVE  Len(top.read) + 1 \in 1..Arity(Expr(top.slot).op)
  BY <1>4, <1>5, <1>6
<1> QED
  BY <1>1, <1>2, <1>3, <1>4, <1>5, <1>6 DEF top, Wanted

\* An operand without a number ends the build, rightly.
LEMMA NoneIsRefused ==
  ASSUME BInv, stack # <<>>, Len(Top.read) < Arity(Expr(Top.slot).op),
         Meaning(text)[Wanted] = None
  PROVE  ~Meaningful(text)
<1>1. source \in Sources /\ text \in Numbers /\ Calls
  BY DEF BInv
<1>2. Top.slot \in Slots /\ Len(Top.read) + 1 \in 1..Arity(Expr(Top.slot).op) /\ Top = stack[Len(stack)]
  BY <1>1, TopIs
<1>3. Meaning(text)[Top.slot] = None
  BY <1>1, <1>2, MeansNone DEF Wanted
<1> QED
  BY <1>2, <1>3, NoneToTheBottom

\* So does one that is being evaluated already: the calls since are a circle.
LEMMA BusyIsRefused ==
  ASSUME BInv, stack # <<>>, Len(Top.read) < Arity(Expr(Top.slot).op),
         NEW i \in 1..Len(stack), stack[i].slot = Wanted
  PROVE  ~Meaningful(text)
<1> DEFINE n == Len(stack)
           C == {stack[k].slot : k \in i..n}
<1>1. source \in Sources /\ text \in Numbers /\ Calls
  BY DEF BInv
<1>2. n \in Nat /\ \A k \in 1..n : Frame(stack[k]) /\ stack[k].slot \in Slots
  BY <1>1, CallsAre
<1>3. Top = stack[n] /\ Len(Top.read) + 1 \in 1..Arity(Expr(Top.slot).op)
  BY <1>1, TopIs
<1>4. ASSUME NEW k \in i..n
      PROVE  \E j \in 1..Arity(Expr(stack[k].slot).op) : Operand(stack[k].slot, j) \in C
  <2>1. CASE k = n
    <3>1. Operand(stack[k].slot, Len(stack[k].read) + 1) = stack[i].slot
      BY <1>3, <2>1 DEF Wanted
    <3>2. stack[i].slot \in C
      BY <1>2
    <3> QED
      BY <1>3, <2>1, <3>1, <3>2
  <2>2. CASE k # n
    <3>1. k \in 1..(n - 1) /\ k \in 1..n /\ k + 1 \in i..n
      BY <1>2, <2>2
    <3> DEFINE j == Len(stack[k].read) + 1
    <3>2. /\ Len(stack[k].read) < Arity(Expr(stack[k].slot).op)
          /\ stack[k + 1].slot = Operand(stack[k].slot, j)
      BY <1>1, <3>1 DEF Calls
    <3>3. stack[k + 1].slot \in C
      BY <3>1
    <3>4. Len(stack[k].read) \in Nat /\ Arity(Expr(stack[k].slot).op) \in Nat
      <4>1. stack[k].slot \in Slots /\ stack[k].read \in Seq(Nat)
        BY <1>2, <3>1 DEF Frame
      <4> QED
        BY <1>1, <4>1, ExprIs DEF Arity
    <3>5. j \in 1..Arity(Expr(stack[k].slot).op)
      BY <3>2, <3>4
    <3> QED
      BY <3>2, <3>3, <3>5
  <2> QED
    BY <2>1, <2>2
<1>5. C \subseteq Slots /\ \A s \in C : \E j \in 1..Arity(Expr(s).op) : Operand(s, j) \in C
  <2>1. \A k \in i..n : k \in 1..n
    BY <1>2
  <2>2. C \subseteq Slots
    BY <1>2, <2>1
  <2>3. ASSUME NEW s \in C PROVE \E j \in 1..Arity(Expr(s).op) : Operand(s, j) \in C
    <3>1. PICK k \in i..n : s = stack[k].slot
      OBVIOUS
    <3> HIDE DEF C
    <3> QED
      BY <1>4, <3>1
  <2> QED
    BY <2>2, <2>3
<1>6. stack[n].slot \in C
  BY <1>2
<1>7. Meaning(text)[stack[n].slot] = None
  <2> HIDE DEF C
  <2> QED
    BY <1>1, <1>5, <1>6, CircleHasNone
<1> QED
  BY <1>7, NoneToTheBottom

\* The topmost call with an operand more.
LEMMA CallsRead ==
  ASSUME source \in Sources, text \in Numbers, Calls, stack # <<>>,
         Len(Top.read) < Arity(Expr(Top.slot).op),
         NEW v \in Nat, v = Meaning(text)[Wanted],
         UNCHANGED <<source, text>>,
         stack' = [stack EXCEPT ![Len(stack)].read = Append(@, v)]
  PROVE  Calls' /\ stack' # <<>> /\ stack'[1].slot = stack[1].slot
<1> DEFINE n == Len(stack)
           F == [slot : Slots, read : Seq(Nat)]
           read == Append(Top.read, v)
<1>1. stack \in Seq(F) /\ n \in Nat /\ n >= 1 /\ DOMAIN stack = 1..n
  BY CallsAre DEF Calls
<1>2. Top = stack[n] /\ Frame(Top) /\ Top \in F /\ Top.read \in Seq(Nat) /\ Len(Top.read) \in Nat
      /\ Arity(Expr(Top.slot).op) \in Nat
  BY TopIs
<1>3. /\ read \in Seq(Nat) /\ Len(read) = Len(Top.read) + 1
      /\ \A j \in 1..Len(Top.read) : read[j] = Top.read[j]
      /\ read[Len(Top.read) + 1] = v
  <2>1. Top.read \in Seq(Nat) /\ v \in Nat
    BY <1>2
  <2> QED
    BY <2>1, AppendProperties
<1>4. stack' = [stack EXCEPT ![n] = [Top EXCEPT !.read = read]]
  BY <1>2
<1>5. /\ stack' \in Seq(F) /\ Len(stack') = n
      /\ \A i \in 1..n : i # n => stack'[i] = stack[i]
      /\ stack'[n].slot = Top.slot /\ stack'[n].read = read
  <2>1. [Top EXCEPT !.read = read] \in F /\ [Top EXCEPT !.read = read].slot = Top.slot
        /\ [Top EXCEPT !.read = read].read = read
    BY <1>2, <1>3
  <2> HIDE DEF F, read
  <2> DEFINE new == [Top EXCEPT !.read = read]
  <2>2. stack' = [stack EXCEPT ![n] = new] /\ new \in F /\ new.slot = Top.slot /\ new.read = read
    BY <1>4, <2>1
  <2> HIDE DEF new, n
  <2>3. stack' = [i \in 1..n |-> IF i = n THEN new ELSE stack[i]]
    BY <1>1, <2>2
  <2>4. \A i \in 1..n : stack[i] \in F
    BY <1>1
  <2>5. stack' \in [1..n -> F]
    BY <2>2, <2>3, <2>4
  <2>6. stack' \in Seq(F) /\ Len(stack') = n
    BY <1>1, <2>5
  <2>7. n \in 1..n
    BY <1>1
  <2> QED
    BY <2>2, <2>3, <2>6, <2>7
<1>6. \A i \in 1..n : stack'[i].slot = stack[i].slot
  BY <1>2, <1>5
<1>7. ASSUME NEW i \in 1..n
      PROVE  Frame(stack[i])'
  <2>1. CASE i # n
    <3>1. Frame(stack[i]) /\ stack'[i] = stack[i]
      BY <1>5, <2>1 DEF Calls
    <3>2. \A f : f = stack[i] => Frame(f)'
      BY <3>1, FrameStays
    <3> QED
      BY <3>1, <3>2
  <2>2. CASE i = n
    <3>1. \A j \in 1..Len(read) : read[j] = Meaning(text)[Operand(Top.slot, j)]
      <4>1. \A j \in 1..Len(read) : j \in 1..Len(Top.read) \/ j = Len(Top.read) + 1
        BY <1>2, <1>3
      <4> HIDE DEF read
      <4> QED
        BY <1>2, <1>3, <4>1 DEF Frame, Wanted
    <3>2. Len(read) <= Arity(Expr(Top.slot).op)
      <4> HIDE DEF read
      <4> QED
        BY <1>2, <1>3
    <3>3. stack'[i].slot = Top.slot /\ stack'[i].read = read
      BY <1>5, <2>2
    <3>4. Top.slot \in Slots /\ BindOf(Top.slot) # None
      BY <1>2 DEF Frame
    <3>5. \A f : f.slot = Top.slot /\ f.read = read => Frame(f)'
      <4> HIDE DEF read
      <4>1. \A f : f.slot = Top.slot /\ f.read = read => Frame(f)
        BY <1>3, <3>1, <3>2, <3>4 DEF Frame
      <4> QED
        BY <4>1, FrameStays
    <3> QED
      BY <3>3, <3>5
  <2> QED
    BY <2>1, <2>2
<1>8. \A i \in 1..(n - 1) :
        /\ Len(stack'[i].read) < Arity(Expr(stack[i].slot).op)'
        /\ stack'[i + 1].slot = Operand(stack[i].slot, Len(stack[i].read) + 1)'
  <2> SUFFICES ASSUME NEW i \in 1..(n - 1)
               PROVE  /\ Len(stack'[i].read) < Arity(Expr(stack[i].slot).op)'
                      /\ stack'[i + 1].slot = Operand(stack[i].slot, Len(stack[i].read) + 1)'
    OBVIOUS
  <2>1. i \in 1..n /\ i + 1 \in 1..n /\ i # n
    BY <1>1
  <2>2. stack'[i] = stack[i] /\ stack'[i + 1].slot = stack[i + 1].slot
    BY <1>5, <1>6, <2>1
  <2>3. /\ Len(stack[i].read) < Arity(Expr(stack[i].slot).op)
        /\ stack[i + 1].slot = Operand(stack[i].slot, Len(stack[i].read) + 1)
    BY DEF Calls
  <2> QED
    BY <2>2, <2>3, NamesStay DEF Arity
<1>9. \A i, j \in 1..n : stack'[i].slot = stack'[j].slot => i = j
  BY <1>6 DEF Calls
<1>10. stack'[1].slot = stack[1].slot /\ stack' # <<>>
  <2>1. 1 \in 1..n
    BY <1>1
  <2>2. stack' # <<>>
    BY <1>1, <1>5
  <2> QED
    BY <1>6, <2>1, <2>2
<1>11. \E p \in Projected : stack'[1].slot = Origin(p)'
  BY <1>10, NamesStay DEF Calls
<1>12. Calls'
  BY <1>5, <1>7, <1>8, <1>9, <1>11 DEF Calls, F
<1> QED
  BY <1>10, <1>12

LEMMA DescendKeeps ==
  ASSUME BInv, Descend
  PROVE  BInv'
<1>1. /\ pc = "building" /\ stack # <<>> /\ source \in Sources /\ text \in Numbers
      /\ Calls /\ Remembered /\ Len(Top.read) < Len(Expr(Top.slot).of)
  BY DEF BInv, Descend
<1>2. Len(Top.read) < Arity(Expr(Top.slot).op) /\ Wanted \in Slots
  BY <1>1, TopIs
<1>3. \A p \in Projected : p \in ToSet(agenda) \/ Evaluated(p) \/ stack[1].slot = Origin(p)
  BY <1>1 DEF BInv, Progress
<1>4. ASSUME UNCHANGED <<source, pc, agenda, values>>, stack' # <<>>, stack'[1].slot = stack[1].slot
      PROVE  Progress'
  <2>1. \A p \in Projected : Evaluated(p) => Evaluated(p)'
    BY <1>4, StillEvaluated
  <2>2. \A p \in Projected : stack[1].slot = Origin(p) => stack'[1].slot = Origin(p)'
    BY <1>4, NamesStay
  <2>3. agenda' \in Seq(Projected)
    BY <1>1, <1>4 DEF BInv, Progress
  <2> QED
    BY <1>3, <1>4, <2>1, <2>2, <2>3 DEF Progress
<1>5. CASE BindOf(Wanted) = None
  <2>1. Fail
    BY <1>5 DEF Descend, Wanted, Operand
  <2>2. Meaning(text)[Wanted] = None
    <3>1. Expr(Wanted).op = "nothing"
      BY <1>1, <1>2, <1>5, ExprIs
    <3> QED
      BY <1>1, <1>2, <3>1, Fixpoint, KnownIs
  <2> QED
    BY <1>1, <1>2, <2>1, <2>2, NoneIsRefused, FailKeeps
<1>6. CASE BindOf(Wanted) # None /\ Memo(Wanted)
  <2>1. /\ stack' = [stack EXCEPT ![Len(stack)].read = Append(@, values[Key(Wanted)])]
        /\ UNCHANGED <<source, text, pc, agenda, values, served, asked, refused, edits>>
    BY <1>6 DEF Descend, Wanted, Operand
  <2>2. values[Key(Wanted)] \in Nat /\ values[Key(Wanted)] = Meaning(text)[Wanted]
    BY <1>1, <1>2, <1>6 DEF Remembered
  <2>3. Calls' /\ stack' # <<>> /\ stack'[1].slot = stack[1].slot
    BY <1>1, <1>2, <2>1, <2>2, CallsRead
  <2> QED
    BY <1>1, <1>4, <2>1, <2>3, StillRemembered, StillBuilding
<1>7. CASE BindOf(Wanted) # None /\ ~Memo(Wanted) /\ Key(Wanted) \in Busy
  <2>1. Fail
    BY <1>7 DEF Descend, Wanted, Operand
  <2>2. PICK i \in 1..Len(stack) : Key(stack[i].slot) = Key(Wanted)
    BY <1>1, <1>7, CallsAre DEF Busy
  <2>3. stack[i].slot \in Slots /\ BindOf(stack[i].slot) # None
    BY <1>1, CallsAre DEF Frame
  <2>4. stack[i].slot = Wanted
    BY <1>2, <1>7, <2>2, <2>3, KeysDiffer
  <2> QED
    BY <1>1, <1>2, <2>1, <2>4, BusyIsRefused, FailKeeps
<1>8. CASE BindOf(Wanted) # None /\ ~Memo(Wanted) /\ Key(Wanted) \notin Busy
  <2>1. /\ Push(Wanted)
        /\ UNCHANGED <<source, text, pc, agenda, values, served, asked, refused, edits>>
    BY <1>8 DEF Descend, Wanted, Operand
  <2>2. \A i \in 1..Len(stack) : stack[i].slot # Wanted
    BY <1>1, <1>8, CallsAre DEF Busy
  <2>3. Top = stack[Len(stack)]
    BY <1>1, TopIs
  <2>4. Calls' /\ stack' # <<>> /\ stack'[1].slot = stack[1].slot
    <3> DEFINE w == Wanted
    <3>1. w = Operand(Top.slot, Len(Top.read) + 1) /\ Push(w)
      BY <2>1 DEF Wanted
    <3> HIDE DEF w
    <3>2. w \in Slots /\ BindOf(w) # None /\ \A i \in 1..Len(stack) : stack[i].slot # w
      BY <1>2, <1>8, <2>2 DEF w
    <3> QED
      BY <1>1, <1>2, <2>1, <2>3, <3>1, <3>2, CallsPushed
  <2> QED
    BY <1>1, <1>4, <2>1, <2>4, StillRemembered, StillBuilding
<1> QED
  BY <1>5, <1>6, <1>7, <1>8

\* What eval makes of the operands is what the slot means.
LEMMA ComputedIs ==
  ASSUME source \in Sources, text \in Numbers, Calls, stack # <<>>,
         Len(Top.read) = Len(Expr(Top.slot).of)
  PROVE  /\ Computed(Top.slot, Top.read) = Meaning(text)[Top.slot]
         /\ Meaning(text)[Top.slot] \in Nat \cup {None}
<1> DEFINE s == Top.slot
           read == Top.read
           m == Meaning(text)
<1>1. /\ s \in Slots /\ Frame(Top) /\ read \in Seq(Nat) /\ Len(read) = Arity(Expr(s).op)
  BY TopIs
<1>2. m \in Views /\ m[s] = KnownFrom(text, m)[s]
  BY Fixpoint
<1>3. \A j \in 1..Arity(Expr(s).op) : read[j] = m[Operand(s, j)] /\ read[j] \in Nat
  <2>1. \A j \in 1..Len(read) : read[j] = m[Operand(s, j)]
    BY <1>1 DEF Frame
  <2>2. \A j \in 1..Len(read) : read[j] \in Nat
    <3> HIDE DEF read
    <3> QED
      BY <1>1
  <2> QED
    BY <1>1, <2>1, <2>2
<1>4. Expr(s).op \in {"nothing", "literal", "chain", "ratio"} /\ Expr(s).op # "nothing"
  BY <1>1, ExprIs DEF Frame
<1>5. Computed(s, read) = m[s]
  <2> HIDE DEF s, read, m
  <2>1. CASE Expr(s).op = "literal"
    <3>1. Computed(s, read) = text[BindOf(s)]
      BY <2>1 DEF Computed
    <3> QED
      BY <1>1, <1>2, <2>1, <3>1, KnownIs
  <2>2. CASE Expr(s).op = "chain"
    <3>1. read[1] = m[Operand(s, 1)]
      BY <1>3, <2>2 DEF Arity
    <3>2. Computed(s, read) = read[1]
      BY <2>2 DEF Computed
    <3> QED
      BY <1>1, <1>2, <2>2, <3>1, <3>2, KnownIs
  <2>3. CASE Expr(s).op = "ratio"
    <3>1. /\ read[1] = m[Operand(s, 1)] /\ read[2] = m[Operand(s, 2)]
          /\ read[1] # None /\ read[2] # None
      BY <1>3, <2>3, BuildAssumption DEF Arity
    <3>2. Computed(s, read) = IF read[2] = 0 THEN None ELSE read[1] \div read[2]
      BY <2>3 DEF Computed
    <3> QED
      BY <1>1, <1>2, <2>3, <3>1, <3>2, KnownIs
  <2> QED
    BY <1>4, <2>1, <2>2, <2>3
<1>6. m[s] \in Nat \cup {None}
  BY <1>1, <1>2 DEF Views
<1> QED
  BY <1>5, <1>6

\* The stack with a call less.
LEMMA CallsReturn ==
  ASSUME source \in Sources, Calls, stack # <<>>, UNCHANGED <<source, text>>, stack' = Front(stack)
  PROVE  /\ Calls'
         /\ stack' = <<>> => Top.slot = stack[1].slot
         /\ stack' # <<>> => stack'[1].slot = stack[1].slot
<1> DEFINE n == Len(stack)
           F == [slot : Slots, read : Seq(Nat)]
<1>1. stack \in Seq(F) /\ n \in Nat /\ n >= 1
  BY CallsAre DEF Calls
<1>2. stack' = SubSeq(stack, 1, n - 1)
  BY DEF Front
<1>3. stack' \in Seq(F) /\ Len(stack') = n - 1 /\ \A i \in 1..(n - 1) : stack'[i] = stack[i]
  <2> HIDE DEF F, n
  <2>1. \A i \in 1..(n - 1) : stack[i] \in F
    BY <1>1 DEF n
  <2>2. 1 \in Int /\ n - 1 \in Int
    BY <1>1
  <2>3. /\ SubSeq(stack, 1, n - 1) \in Seq(F)
        /\ Len(SubSeq(stack, 1, n - 1)) = IF 1 <= n - 1 THEN (n - 1) - 1 + 1 ELSE 0
        /\ \A i \in 1..((n - 1) - 1 + 1) : SubSeq(stack, 1, n - 1)[i] = stack[1 + i - 1]
    BY <2>1, <2>2, SubSeqProperties
  <2>4. Len(stack') = n - 1
    BY <1>1, <1>2, <2>3
  <2>5. \A i \in 1..(n - 1) : i \in 1..((n - 1) - 1 + 1) /\ 1 + i - 1 = i
    BY <1>1
  <2> QED
    BY <1>2, <2>3, <2>4, <2>5
<1>4. /\ Meaning(text)' = Meaning(text)
      /\ \A s : BindOf(s)' = BindOf(s) /\ Expr(s)' = Expr(s)
      /\ \A s, j : Operand(s, j)' = Operand(s, j)
  BY NamesStay, MeaningStays
<1>5. \A i \in 1..(n - 1) : i \in 1..n /\ stack'[i] = stack[i]
  BY <1>1, <1>3
<1>6. ASSUME NEW i \in 1..(n - 1)
      PROVE  Frame(stack[i])'
  <2>1. Frame(stack[i]) /\ stack'[i] = stack[i]
    BY <1>5 DEF Calls
  <2>2. \A f : f = stack[i] => Frame(f)'
    BY <2>1, FrameStays
  <2> QED
    BY <2>1, <2>2
<1>7. ASSUME NEW i \in 1..((n - 1) - 1)
      PROVE  /\ Len(stack'[i].read) < Arity(Expr(stack[i].slot).op)'
             /\ stack'[i + 1].slot = Operand(stack[i].slot, Len(stack[i].read) + 1)'
  <2>1. i \in 1..(n - 1) /\ i + 1 \in 1..(n - 1)
    BY <1>1
  <2>2. stack'[i] = stack[i] /\ stack'[i + 1] = stack[i + 1]
    BY <1>5, <2>1
  <2>3. /\ Len(stack[i].read) < Arity(Expr(stack[i].slot).op)
        /\ stack[i + 1].slot = Operand(stack[i].slot, Len(stack[i].read) + 1)
    BY <2>1 DEF Calls
  <2> QED
    BY <1>4, <2>2, <2>3 DEF Arity
<1>8. \A i, j \in 1..(n - 1) : stack'[i].slot = stack'[j].slot => i = j
  BY <1>5 DEF Calls
<1>9. /\ stack' = <<>> => Top.slot = stack[1].slot
      /\ stack' # <<>> => stack'[1].slot = stack[1].slot
  <2>1. Top = stack[n]
    BY TopIs
  <2>2. stack' = <<>> => n = 1
    BY <1>1, <1>3
  <2>3. stack' # <<>> => 1 \in 1..(n - 1)
    <3> HIDE DEF F
    <3> QED
      BY <1>1, <1>3
  <2> QED
    BY <1>5, <2>1, <2>2, <2>3
<1>10. stack' # <<>> => \E p \in Projected : stack'[1].slot = Origin(p)'
  BY <1>9, NamesStay DEF Calls
<1>11. Calls'
  BY <1>3, <1>6, <1>7, <1>8, <1>10 DEF Calls, F
<1> QED
  BY <1>9, <1>11

LEMMA AscendKeeps ==
  ASSUME BInv, Ascend
  PROVE  BInv'
<1> DEFINE number == Computed(Top.slot, Top.read)
           key == Key(Top.slot)
<1>1. /\ pc = "building" /\ stack # <<>> /\ source \in Sources /\ text \in Numbers
      /\ Calls /\ Remembered /\ Len(Top.read) = Len(Expr(Top.slot).of)
  BY DEF BInv, Ascend
<1>2. Top.slot \in Slots /\ Frame(Top) /\ Top = stack[Len(stack)]
  BY <1>1, TopIs
<1>3. number = Meaning(text)[Top.slot] /\ number \in Nat \cup {None}
  BY <1>1, ComputedIs
<1>4. CASE number = None
  <2>1. Fail
    BY <1>4 DEF Ascend
  <2>2. ~Meaningful(text)
    BY <1>1, <1>2, <1>3, <1>4, NoneToTheBottom
  <2> QED
    BY <2>1, <2>2, FailKeeps
<1>5. CASE number # None
  <2>1. /\ values' = [k \in DOMAIN values \cup {key} |-> IF k = key THEN number ELSE values[k]]
        /\ stack' = Front(stack)
        /\ UNCHANGED <<source, text, pc, agenda, served, asked, refused, edits>>
    BY <1>5 DEF Ascend
  <2>2. /\ Calls'
        /\ stack' = <<>> => Top.slot = stack[1].slot
        /\ stack' # <<>> => stack'[1].slot = stack[1].slot
    BY <1>1, <2>1, CallsReturn
  <2>3. BindOf(Top.slot) # None /\ key \in Bindings \X (Usages \cup {None})
    BY <1>2, KeyIs DEF Frame
  <2>4. /\ DOMAIN values' = DOMAIN values \cup {key} /\ values'[key] = number
        /\ \A k \in DOMAIN values : k # key => values'[k] = values[k]
    <3> HIDE DEF key, number
    <3> QED
      BY <2>1
  <2>5. ASSUME NEW s \in Slots, BindOf(s) # None, Key(s) \in DOMAIN values'
        PROVE  values'[Key(s)] \in Nat /\ values'[Key(s)] = Meaning(text)[s]
    <3>1. CASE Key(s) = key
      <4>1. s = Top.slot
        BY <1>2, <2>3, <2>5, <3>1, KeysDiffer
      <4> QED
        BY <1>3, <1>5, <2>4, <3>1, <4>1
    <3>2. CASE Key(s) # key
      <4>1. Key(s) \in DOMAIN values /\ values'[Key(s)] = values[Key(s)]
        BY <2>4, <2>5, <3>2
      <4> QED
        BY <1>1, <2>5, <4>1 DEF Remembered, Memo
    <3> QED
      BY <3>1, <3>2
  <2>6. Remembered'
    <3>1. /\ Meaning(text)' = Meaning(text) /\ \A s : BindOf(s)' = BindOf(s) /\ Key(s)' = Key(s)
      BY <2>1, NamesStay, MeaningStays
    <3>2. DOMAIN values' \subseteq Bindings \X (Usages \cup {None})
      BY <1>1, <2>3, <2>4 DEF Remembered
    <3> QED
      BY <2>5, <3>1, <3>2 DEF Remembered, Memo
  <2>7. Progress'
    <3>1. ASSUME NEW p \in Projected
          PROVE  \/ p \in ToSet(agenda) \/ Evaluated(p)'
                 \/ stack' # <<>> /\ stack'[1].slot = Origin(p)'
      <4>1. CASE Evaluated(p)
        BY <2>1, <2>4, <4>1, StillEvaluated
      <4>2. CASE stack[1].slot = Origin(p) /\ stack' # <<>>
        BY <2>1, <2>2, <4>2, NamesStay
      <4>3. CASE stack[1].slot = Origin(p) /\ stack' = <<>>
        <5>1. Origin(p) = Top.slot
          BY <2>2, <4>3
        <5>2. Origin(p)' = Origin(p) /\ BindOf(Origin(p))' # None /\ Key(Origin(p))' = key
          <6>1. \A s : s = Top.slot => BindOf(s)' # None /\ Key(s)' = key
            BY <2>1, <2>3, NamesStay
          <6> QED
            BY <2>1, <5>1, <6>1, NamesStay
        <5> QED
          BY <2>4, <5>2 DEF Evaluated, Memo
      <4> QED
        BY <1>1, <4>1, <4>2, <4>3 DEF BInv, Progress
    <3>2. agenda' = agenda /\ agenda \in Seq(Projected)
      BY <1>1, <2>1 DEF BInv, Progress
    <3> QED
      BY <3>1, <3>2 DEF Progress
  <2> QED
    BY <1>1, <2>1, <2>2, <2>6, <2>7, StillBuilding
<1> QED
  BY <1>4, <1>5

LEMMA NextBInv == BInv /\ [Next]_vars => BInv'
<1> SUFFICES ASSUME BInv, [Next]_vars PROVE BInv'
  OBVIOUS
<1>1. CASE Project
  BY <1>1, ProjectKeeps
<1>2. CASE Descend
  BY <1>2, DescendKeeps
<1>3. CASE Ascend
  BY <1>3, AscendKeeps
<1>4. CASE Serve
  BY <1>4, ServeKeeps
<1>5. ASSUME NEW p \in Projected, NEW v \in Requested, SetLiteral(p, v)
      PROVE  BInv'
  BY <1>5, SetLiteralKeeps
<1>6. CASE UNCHANGED vars
  <2>1. UNCHANGED <<source, text, pc, agenda, stack, values, served, asked, refused, edits>>
    BY <1>6 DEF vars
  <2>2. Calls' /\ Remembered'
    BY <2>1, StillCalls, StillRemembered DEF BInv
  <2>3. Progress'
    BY <2>1, NamesStay DEF BInv, Progress, Evaluated, Memo
  <2>4. Installed' /\ Patched'
    BY <2>1, NamesStay, MeaningStays DEF BInv, Installed, Patched
  <2>5. (refused # None => ~Meaningful(refused))' /\ (text \in Numbers \cap Texts)'
    BY <2>1, NamesStay, MeaningStays DEF BInv
  <2> QED
    BY <2>1, <2>2, <2>3, <2>4, <2>5 DEF BInv
<1> QED
  BY <1>1, <1>2, <1>3, <1>4, <1>5, <1>6 DEF Next

-----------------------------------------------------------------------------
(* The theorems. *)

LEMMA SpecBInv == Spec => []BInv
BY InitBInv, NextBInv, PTL DEF Spec

\* Whatever the declarations, the source and the edits, each usage is served
\* the value its own scope gives its expression, evaluation never goes deeper
\* than there are slots, and a text is refused only when some projected value
\* has no meaning (build, eval, chainValue and checkedLimit).
THEOREM BuildIsMeaning == Spec => []BuildsWhatItMeans
BY SpecBInv, InvariantSays, PTL

\* A model installed over another differs from it in what the edit asked for
\* and in computed values alone: exclusive marks as editable no literal that
\* two projected values share, and a patch moves one (patch, SetAttribute and
\* SetLimit).
THEOREM EditsMoveOneLiteral == Spec => EditMovesOneLiteral
<1>1. ASSUME BInv, [Next]_vars, served' # served, served # None
      PROVE  /\ served'.value[asked.slot] = asked.value
             /\ \A p \in Projected \ {asked.slot} :
                  served'.value[p] # served.value[p] => Expr(Origin(p)).op \in {"chain", "ratio"}
  <2>1. Serve
    BY <1>1 DEF Next, vars, Project, Descend, Ascend, Fail, SetLiteral
  <2> DEFINE slot == asked.slot
             old == served.text
  <2>2. /\ slot \in Editable /\ asked.value \in Nat
        /\ text = [old EXCEPT ![LiteralOf(slot)] = asked.value]
        /\ source \in Sources /\ text \in Numbers /\ old \in Numbers
        /\ \A p \in Projected : served.value[p] = Meaning(old)[p]
    BY <1>1, <2>1 DEF BInv, Patched, Installed, Serve
  <2>3. \A p \in Projected : served'.value[p] = Meaning(text)[p]
    <3>1. BInv'
      BY <1>1, NextBInv
    <3>2. \A p \in Projected : served'.value[p] = Meaning(served.text)'[p]
      BY <2>1, <3>1 DEF BInv, Installed, Serve
    <3>3. UNCHANGED source /\ served'.text = text
      BY <2>1 DEF Serve
    <3> QED
      BY <3>2, <3>3, MeaningStays
  <2>4. slot \in Projected /\ Carries(slot) /\ LiteralOf(slot) \in Literals
    BY <2>2, OriginMeans DEF Editable
  <2>5. served'.value[slot] = asked.value
    <3>1. Meaning(text)[slot] = text[LiteralOf(slot)]
      BY <2>2, <2>4, OriginMeans
    <3> HIDE DEF slot, old
    <3> QED
      BY <2>2, <2>3, <2>4, <3>1 DEF Numbers
  <2>6. ASSUME NEW p \in Projected \ {slot}, served'.value[p] # served.value[p]
        PROVE  Expr(Origin(p)).op \in {"chain", "ratio"}
    <3>1. Meaning(text)[p] # Meaning(old)[p]
      BY <2>2, <2>3, <2>6
    <3>2. Origin(p) \in Slots
      BY <2>2, OriginIs
    <3>3. Expr(Origin(p)).op # "nothing"
      <4>1. BindOf(Origin(p)) # None
        BY <2>2, <3>1, OriginMeans
      <4> QED
        BY <2>2, <3>2, <4>1, ExprIs
    <3>4. Expr(Origin(p)).op # "literal"
      <4> SUFFICES ASSUME Carries(p) PROVE FALSE
        BY DEF Carries
      <4>1. LiteralOf(p) # LiteralOf(slot)
        BY <2>2, <2>4, <2>6 DEF Editable
      <4>2. /\ LiteralOf(p) \in Literals
            /\ Meaning(text)[p] = text[LiteralOf(p)] /\ Meaning(old)[p] = old[LiteralOf(p)]
        BY <2>2, OriginMeans
      <4> HIDE DEF slot, old
      <4>3. text[LiteralOf(p)] = old[LiteralOf(p)]
        BY <2>2, <4>1, <4>2 DEF Numbers
      <4> QED
        BY <3>1, <4>2, <4>3 DEF old
    <3> QED
      BY <2>2, <3>2, <3>3, <3>4, ExprIs
  <2> QED
    BY <2>5, <2>6
<1>2. BInv /\ [Next]_vars =>
        [served' # served /\ served # None =>
           /\ served'.value[asked.slot] = asked.value
           /\ \A p \in Projected \ {asked.slot} :
                served'.value[p] # served.value[p] => Expr(Origin(p)).op \in {"chain", "ratio"}]_vars
  BY <1>1
<1> QED
  BY <1>2, SpecBInv, PTL DEF Spec, EditMovesOneLiteral
=============================================================================
