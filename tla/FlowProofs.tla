----------------------------- MODULE FlowProofs -----------------------------
(* That a call finds the greatest flow and the cheapest cut nearest the      *)
(* entries, and that the verdict says what the call found, for any children, *)
(* values and wires.                                                         *)
(*                                                                           *)
(* What can be reached is defined by recursion, in as many steps as there    *)
(* are vertices; it is shown to be the least set closed under the arcs.  The *)
(* residual arcs are kept against the books of a flow, one number for every  *)
(* arc, that come out even at every vertex.  A sum is over a finite set, by  *)
(* induction on it.                                                          *)
EXTENDS Verdict, FiniteSetTheorems, SequenceTheorems, WellFoundedInduction, TLAPS

-----------------------------------------------------------------------------
(* Numbers. *)

LEMMA LeastOf ==
  ASSUME NEW S, S \subseteq Nat, S # {}
  PROVE  \E least \in S : \A n \in S : least <= n
<1> DEFINE R == {r \in Nat \X Nat : r[1] < r[2]}
<1>1. IsWellFoundedOn(R, Nat)
  BY NatLessThanWellFounded DEF OpToRel
<1>2. \A m, n \in Nat : <<m, n>> \in R <=> m < n
  OBVIOUS
<1> HIDE DEF R
<1>3. PICK least \in S : \A n \in S : ~(<<n, least>> \in R)
  BY <1>1, WFMin
<1>4. ASSUME NEW n \in S PROVE least <= n
  <2>1. n \in Nat /\ least \in Nat /\ ~(n < least)
    BY <1>2, <1>3
  <2> QED
    BY <2>1
<1> QED
  BY <1>4

LEMMA MinIs ==
  ASSUME NEW S, S \subseteq Nat, S # {}
  PROVE  Min(S) \in S /\ \A n \in S : Min(S) <= n
<1>1. \E least \in S : \A n \in S : least <= n
  BY LeastOf
<1> QED
  BY <1>1 DEF Min

LEMMA MaxIs ==
  ASSUME NEW S, S \subseteq Int, NEW d \in S, \A n \in S : n <= d
  PROVE  Max(S) = d
<1> DEFINE m == Max(S)
<1>1. m \in S /\ \A n \in S : m >= n
  BY DEF Max
<1> HIDE DEF m
<1>2. m \in Int /\ d \in Int /\ m >= d /\ m <= d
  BY <1>1
<1>3. m = d
  BY <1>2
<1> QED
  BY <1>3 DEF m

-----------------------------------------------------------------------------
(* Spread is the least set closed under the arcs. *)

Spreading(V, arcs, n, f) ==
  f = [k \in 0..n |->
         IF k = 0 THEN V
         ELSE LET near == f[k - 1] IN near \cup {a[2] : a \in {b \in arcs : b[1] \in near}}]

LEMMA SpreadingExists ==
  ASSUME NEW V, NEW arcs, NEW n \in Nat
  PROVE  \E f : Spreading(V, arcs, n, f)
<1> DEFINE S == {m \in Nat : ~ \E f : Spreading(V, arcs, m, f)}
           With(near) == near \cup {a[2] : a \in {b \in arcs : b[1] \in near}}
<1> SUFFICES ASSUME S # {} PROVE FALSE
  OBVIOUS
<1>1. PICK m \in S : \A k \in S : m <= k
  <2> HIDE DEF S
  <2>1. S \subseteq Nat
    BY DEF S
  <2> QED
    BY <2>1, LeastOf
<1>2. m # 0
  <2>1. Spreading(V, arcs, 0, [k \in 0..0 |-> V])
    BY DEF Spreading
  <2> QED
    BY <2>1
<1>3. m - 1 \in Nat /\ m - 1 \notin S
  BY <1>1, <1>2
<1>4. PICK f : Spreading(V, arcs, m - 1, f)
  BY <1>3
<1>5. \A k \in 0..(m - 1) : f[k] = IF k = 0 THEN V ELSE With(f[k - 1])
  BY <1>4 DEF Spreading
<1> HIDE DEF With
<1> DEFINE g == [k \in 0..m |-> IF k = m THEN With(f[m - 1]) ELSE f[k]]
<1>6. \A k \in 0..(m - 1) : g[k] = f[k]
  BY <1>3
<1>7. ASSUME NEW k \in 0..m
      PROVE  g[k] = IF k = 0 THEN V ELSE With(g[k - 1])
  <2>1. CASE k = m
    <3>1. g[m - 1] = f[m - 1]
      BY <1>3, <1>6
    <3> QED
      BY <1>2, <2>1, <3>1
  <2>2. CASE k # m
    <3>1. k \in 0..(m - 1) /\ (k # 0 => k - 1 \in 0..(m - 1))
      BY <2>2, <1>3
    <3> HIDE DEF g
    <3> QED
      BY <1>5, <1>6, <3>1
  <2> QED
    BY <2>1, <2>2
<1>8. Spreading(V, arcs, m, g)
  <2>1. g = [k \in 0..m |-> g[k]]
    OBVIOUS
  <2> HIDE DEF g
  <2>2. g = [k \in 0..m |-> IF k = 0 THEN V ELSE With(g[k - 1])]
    BY <1>7, <2>1
  <2> QED
    BY <2>2 DEF Spreading, With
<1> QED
  BY <1>8

\* What the recursion holds after k steps.
Near(V, arcs, n) == CHOOSE f : Spreading(V, arcs, n, f)

LEMMA NearIs ==
  ASSUME NEW V, NEW arcs, NEW n \in Nat
  PROVE  /\ Spread(V, arcs, n) = Near(V, arcs, n)[n]
         /\ Near(V, arcs, n)[0] = V
         /\ \A k \in 1..n : \A x :
              x \in Near(V, arcs, n)[k] <=>
                \/ x \in Near(V, arcs, n)[k - 1]
                \/ \E a \in arcs : a[1] \in Near(V, arcs, n)[k - 1] /\ a[2] = x
<1>1. Spread(V, arcs, n) = Near(V, arcs, n)[n]
  BY DEF Spread, Near, Spreading
<1>2. Spreading(V, arcs, n, Near(V, arcs, n))
  BY SpreadingExists DEF Near
<1>3. Near(V, arcs, n)[0] = V
  BY <1>2 DEF Spreading
<1>4. ASSUME NEW k \in 1..n
      PROVE  Near(V, arcs, n)[k] =
               Near(V, arcs, n)[k - 1] \cup
                 {a[2] : a \in {b \in arcs : b[1] \in Near(V, arcs, n)[k - 1]}}
  <2> DEFINE f == Near(V, arcs, n)
             g == [i \in 0..n |->
                     IF i = 0 THEN V
                     ELSE f[i - 1] \cup {a[2] : a \in {b \in arcs : b[1] \in f[i - 1]}}]
  <2>1. f = g
    BY <1>2 DEF Spreading
  <2>2. k \in 0..n /\ k # 0
    OBVIOUS
  <2> HIDE DEF f
  <2>3. g[k] = f[k - 1] \cup {a[2] : a \in {b \in arcs : b[1] \in f[k - 1]}}
    BY <2>2
  <2> HIDE DEF g
  <2>4. f[k] = g[k]
    BY <2>1
  <2> QED
    BY <2>3, <2>4 DEF f
<1>5. ASSUME NEW k \in 1..n, NEW x
      PROVE  x \in Near(V, arcs, n)[k] <=>
               \/ x \in Near(V, arcs, n)[k - 1]
               \/ \E a \in arcs : a[1] \in Near(V, arcs, n)[k - 1] /\ a[2] = x
  BY <1>4
<1> QED
  BY <1>1, <1>3, <1>5

\* No closed set is left.
LEMMA SpreadWithin ==
  ASSUME NEW V, NEW arcs, NEW n \in Nat, NEW S,
         V \subseteq S, \A a \in arcs : a[1] \in S => a[2] \in S
  PROVE  Spread(V, arcs, n) \subseteq S
<1> DEFINE At(k) == Near(V, arcs, n)[k]
           T == {k \in 0..n : ~(At(k) \subseteq S)}
<1>1. T = {}
  <2> SUFFICES ASSUME T # {} PROVE FALSE
    OBVIOUS
  <2>1. PICK k \in T : \A j \in T : k <= j
    <3>1. T \subseteq Nat
      OBVIOUS
    <3> HIDE DEF T
    <3> QED
      BY <3>1, LeastOf
  <2>2. k # 0
    BY NearIs
  <2>3. k \in 1..n /\ k - 1 \in 0..n /\ k - 1 \notin T
    BY <2>1, <2>2
  <2>4. At(k - 1) \subseteq S /\ ~(At(k) \subseteq S)
    BY <2>1, <2>3
  <2> HIDE DEF T
  <2> QED
    BY <2>3, <2>4, NearIs
<1>2. At(n) \subseteq S
  BY <1>1
<1> QED
  BY <1>2, NearIs

LEMMA NearGrows ==
  ASSUME NEW V, NEW arcs, NEW n \in Nat, NEW i \in 0..n, NEW j \in i..n
  PROVE  Near(V, arcs, n)[i] \subseteq Near(V, arcs, n)[j]
<1> DEFINE At(k) == Near(V, arcs, n)[k]
           T == {k \in i..n : ~(At(i) \subseteq At(k))}
<1> SUFFICES ASSUME T # {} PROVE FALSE
  OBVIOUS
<1>1. PICK k \in T : \A m \in T : k <= m
  <2>1. T \subseteq Nat
    OBVIOUS
  <2> HIDE DEF T
  <2> QED
    BY <2>1, LeastOf
<1>2. k # i
  OBVIOUS
<1>3. k \in 1..n /\ k - 1 \in i..n /\ k - 1 \notin T
  BY <1>1, <1>2
<1>4. At(i) \subseteq At(k - 1) /\ At(k - 1) \subseteq At(k)
  BY <1>3, NearIs
<1> QED
  BY <1>4
\* As many steps as there are vertices are enough to close it.
LEMMA SpreadClosed ==
  ASSUME NEW V, NEW arcs, NEW U, IsFiniteSet(U), NEW n \in Nat, Cardinality(U) <= n,
         V \subseteq U, \A a \in arcs : a[2] \in U
  PROVE  /\ V \subseteq Spread(V, arcs, n)
         /\ Spread(V, arcs, n) \subseteq U
         /\ \A a \in arcs : a[1] \in Spread(V, arcs, n) => a[2] \in Spread(V, arcs, n)
<1> DEFINE At(k) == Near(V, arcs, n)[k]
<1>1. At(n) = Spread(V, arcs, n) /\ At(0) = V
  BY NearIs
<1>2. At(n) \subseteq U
  BY <1>1, SpreadWithin
<1>3. \A i \in 0..n : \A j \in i..n : At(i) \subseteq At(j)
  BY NearGrows
<1>4. \A k \in 0..n : V \subseteq At(k) /\ At(k) \subseteq At(n)
  <2>1. 0 \in 0..n /\ \A k \in 0..n : k \in 0..n /\ n \in k..n
    OBVIOUS
  <2> HIDE DEF At
  <2> QED
    BY <1>1, <1>3, <2>1
<1>5. \A k \in 0..n : At(k) \subseteq U /\ IsFiniteSet(At(k)) /\ Cardinality(At(k)) \in Nat
  <2>1. \A k \in 0..n : At(k) \subseteq U
    BY <1>2, <1>4
  <2> HIDE DEF At
  <2> QED
    BY <2>1, FS_Subset, FS_CardinalityType
<1>6. CASE \E k \in 1..n : At(k) = At(k - 1)
  <2>1. PICK k \in 1..n : At(k) = At(k - 1)
    BY <1>6
  <2>2. k - 1 \in 0..n
    OBVIOUS
  <2>3. \A a \in arcs : a[1] \in At(k - 1) => a[2] \in At(k - 1)
    BY <2>1, NearIs
  <2>4. V \subseteq At(k - 1) /\ At(k - 1) \subseteq At(n)
    BY <1>4, <2>2
  <2>5. At(n) \subseteq At(k - 1)
    <3> HIDE DEF At
    <3> QED
      BY <1>1, <2>3, <2>4, SpreadWithin
  <2>6. At(n) = At(k - 1)
    BY <2>4, <2>5
  <2> HIDE DEF At
  <2> QED
    BY <1>1, <1>2, <2>3, <2>4, <2>6
<1>7. CASE \A k \in 1..n : At(k) # At(k - 1)
  <2> DEFINE T == {k \in 0..n : Cardinality(At(k)) < k}
  <2>1. T = {}
    <3> SUFFICES ASSUME T # {} PROVE FALSE
      OBVIOUS
    <3>1. PICK k \in T : \A j \in T : k <= j
      <4>1. T \subseteq Nat
        OBVIOUS
      <4> HIDE DEF T
      <4> QED
        BY <4>1, LeastOf
    <3>2. k \in 0..n /\ Cardinality(At(k)) < k
      OBVIOUS
    <3> HIDE DEF At
    <3>3. k \in 1..n /\ k - 1 \in 0..n /\ k \in (k - 1)..n
      BY <1>5, <3>2
    <3>4. k - 1 \notin T
      BY <3>1, <3>3
    <3>5. Cardinality(At(k - 1)) >= k - 1
      BY <1>5, <3>3, <3>4
    <3>6. At(k - 1) \in SUBSET At(k) /\ At(k) # At(k - 1)
      BY <1>3, <1>7, <3>3
    <3>7. Cardinality(At(k - 1)) <= Cardinality(At(k))
          /\ Cardinality(At(k)) # Cardinality(At(k - 1))
      BY <1>5, <3>2, <3>6, FS_Subset
    <3>8. Cardinality(At(k)) \in Nat /\ Cardinality(At(k - 1)) \in Nat /\ k \in Nat
      BY <1>5, <3>2, <3>3
    <3> HIDE DEF T
    <3> QED
      BY <3>2, <3>5, <3>7, <3>8
  <2>2. n \in 0..n /\ n \notin T
    BY <2>1
  <2> HIDE DEF At
  <2>3. At(n) \in SUBSET U /\ Cardinality(At(n)) \in Nat /\ Cardinality(At(n)) >= n
    BY <1>2, <1>5, <2>2
  <2>4. Cardinality(At(n)) <= Cardinality(U) /\ Cardinality(U) \in Nat
    BY <2>3, FS_Subset, FS_CardinalityType
  <2>5. Cardinality(At(n)) = Cardinality(U)
    <3> HIDE DEF T
    <3> QED
      BY <2>3, <2>4
  <2>6. At(n) = U
    BY <2>3, <2>5, FS_Subset
  <2> QED
    BY <1>1, <2>6
<1> QED
  BY <1>6, <1>7

-----------------------------------------------------------------------------
(* The network. *)

LEMMA ChildIs ==
  /\ Children = {Child[i] : i \in 1..Len(Child)} /\ Len(Child) \in Nat
  /\ DOMAIN Child = 1..Len(Child)
  /\ IsFiniteSet(Children) /\ Cardinality(Children) <= Len(Child)
<1>1. Len(Child) \in Nat /\ DOMAIN Child = 1..Len(Child)
  BY InputAssumption
<1>2. Children = {Child[i] : i \in 1..Len(Child)}
  BY <1>1 DEF Children, ToSet
<1> HIDE DEF Children
<1> DEFINE f == [i \in 1..Len(Child) |-> Child[i]]
<1>3. f \in Surjection(1..Len(Child), Children)
  BY <1>2 DEF Surjection
<1>4. IsFiniteSet(1..Len(Child)) /\ Cardinality(1..Len(Child)) = Len(Child)
  <2>1. 1 \in Int /\ Len(Child) \in Int
    BY <1>1
  <2>2. /\ IsFiniteSet(1..Len(Child))
        /\ Cardinality(1..Len(Child)) = IF 1 > Len(Child) THEN 0 ELSE Len(Child) - 1 + 1
    BY <2>1, FS_Interval
  <2> QED
    BY <1>1, <2>2
<1> QED
  BY <1>1, <1>2, <1>3, <1>4, FS_Surjection

LEMMA VerticesFinite == IsFiniteSet(Vertices) /\ Cardinality(Vertices) \in Nat
<1> DEFINE Ins == {In(c) : c \in Children}
           Outs == {Out(c) : c \in Children}
<1>1. IsFiniteSet(Ins)
  <2>1. [c \in Children |-> In(c)] \in Surjection(Children, Ins)
    BY DEF Surjection
  <2> QED
    BY <2>1, ChildIs, FS_Surjection
<1>2. IsFiniteSet(Outs)
  <2>1. [c \in Children |-> Out(c)] \in Surjection(Children, Outs)
    BY DEF Surjection
  <2> QED
    BY <2>1, ChildIs, FS_Surjection
<1>3. IsFiniteSet({Source, Sink})
  <2>1. {Source, Sink} = {Source} \cup {Sink}
    OBVIOUS
  <2>2. IsFiniteSet({Source}) /\ IsFiniteSet({Sink})
    BY FS_Singleton
  <2> QED
    BY <2>1, <2>2, FS_Union
<1>4. IsFiniteSet(Vertices)
  BY <1>1, <1>2, <1>3, FS_Union DEF Vertices
<1> QED
  BY <1>4, FS_CardinalityType

\* No two of the kinds of vertices, and of arcs, meet.
LEMMA VerticesApart ==
  /\ Source \in Vertices /\ Sink \in Vertices /\ Source # Sink
  /\ \A c \in Children : In(c) \in Vertices /\ Out(c) \in Vertices
  /\ \A c : Source # In(c) /\ Source # Out(c) /\ Sink # In(c) /\ Sink # Out(c)
  /\ \A c, d : /\ In(c) # Out(d)
               /\ In(c) = In(d) => c = d
               /\ Out(c) = Out(d) => c = d
BY DEF Vertices, Source, Sink, In, Out

LEMMA ArcsApart ==
  /\ \A a \in Own : \E c \in Children : Linked(c) /\ a = <<In(c), Out(c)>>
  /\ \A a \in Ends \cup Wired : a \notin Own
<1>1. \A a \in Own : \E c \in Children : Linked(c) /\ a = <<In(c), Out(c)>>
  BY DEF Own
<1>2. ASSUME NEW a \in Ends \cup Wired, NEW c, a = <<In(c), Out(c)>> PROVE FALSE
  <2>1. \/ \E d : a = <<Source, In(d)>>
        \/ \E d : a = <<Out(d), Sink>>
        \/ \E d, e : a = <<Out(d), In(e)>>
    BY DEF Ends, Wired
  <2>2. a[1] = In(c)
    BY <1>2
  <2> QED
    BY <2>1, <2>2, VerticesApart
<1> QED
  BY <1>1, <1>2

\* Where an arc of the network leads.
LEMMA ForwardIs ==
  ASSUME value \in [Children -> Nat]
  PROVE  /\ DOMAIN Forward = Ends \cup Wired \cup Own
         /\ \A a \in DOMAIN Forward : a[1] \in Vertices /\ a[2] \in Vertices
         /\ \A a \in Ends \cup Wired : Forward[a] = Unlimited
         /\ \A c \in Children : Linked(c) =>
              <<In(c), Out(c)>> \in Own /\ Forward[<<In(c), Out(c)>>] = value[c]
         /\ Forward \in [DOMAIN Forward -> Nat]
<1>1. DOMAIN Forward = Ends \cup Wired \cup Own
  BY DEF Forward
<1>2. ASSUME NEW a \in Ends \cup Wired
      PROVE  Forward[a] = Unlimited /\ a[1] \in Vertices /\ a[2] \in Vertices
  <2>1. Forward[a] = Unlimited
    BY ArcsApart DEF Forward
  <2>2. \/ \E d \in Children : a = <<Source, In(d)>>
        \/ \E d \in Children : a = <<Out(d), Sink>>
        \/ \E d \in Children, e \in Children : a = <<Out(d), In(e)>>
    BY DEF Ends, Wired, Wire, Entry, Exit
  <2> QED
    BY <2>1, <2>2, VerticesApart
<1>3. ASSUME NEW a \in Own
      PROVE  a[1] \in Vertices /\ a[2] \in Vertices /\ Forward[a] \in Nat
             /\ \E c \in Children : a = <<In(c), Out(c)>> /\ Forward[a] = value[c]
  <2>1. PICK c \in Children : a = <<In(c), Out(c)>>
    BY ArcsApart
  <2>2. Forward[a] = value[a[1][1]] /\ a[1][1] = c
    BY <2>1 DEF Forward, In
  <2> QED
    BY <2>1, <2>2, VerticesApart
<1>4. ASSUME NEW c \in Children, Linked(c)
      PROVE  <<In(c), Out(c)>> \in Own /\ Forward[<<In(c), Out(c)>>] = value[c]
  <2>1. <<In(c), Out(c)>> \in Own
    BY <1>4 DEF Own
  <2>2. PICK d \in Children : <<In(c), Out(c)>> = <<In(d), Out(d)>>
                              /\ Forward[<<In(c), Out(c)>>] = value[d]
    BY <1>3, <2>1
  <2>3. c = d
    BY <2>2, VerticesApart
  <2> QED
    BY <2>1, <2>2, <2>3
<1>5. Unlimited \in Nat
  BY InputAssumption
<1>6. Forward = [a \in DOMAIN Forward |-> Forward[a]]
  BY DEF Forward
<1>7. \A a \in DOMAIN Forward : Forward[a] \in Nat
  BY <1>1, <1>2, <1>3, <1>5
<1> HIDE DEF Forward
<1>8. Forward \in [DOMAIN Forward -> Nat]
  BY <1>6, <1>7
<1> QED
  BY <1>1, <1>2, <1>3, <1>4, <1>8
LEMMA NetworkIs ==
  ASSUME value \in [Children -> Nat]
  PROVE  /\ Network \in [DOMAIN Network -> Nat]
         /\ \A a \in DOMAIN Forward : a \in DOMAIN Network /\ Network[a] = Forward[a]
         /\ \A a \in DOMAIN Network \ DOMAIN Forward : Network[a] = 0
         /\ \A a \in DOMAIN Network : a[1] \in Vertices /\ a[2] \in Vertices
<1> DEFINE arcs == DOMAIN Forward
           both == arcs \cup {Back(b) : b \in arcs}
<1>1. Network = [a \in both |-> IF a \in arcs THEN Forward[a] ELSE 0]
  BY DEF Network
<1>2. /\ \A a \in arcs : a[1] \in Vertices /\ a[2] \in Vertices
      /\ \A a \in arcs : Forward[a] \in Nat
  BY ForwardIs
<1>3. \A a \in both : a[1] \in Vertices /\ a[2] \in Vertices
  BY <1>2 DEF Back
<1> HIDE DEF arcs
<1>4. DOMAIN Network = both /\ \A a \in both : Network[a] \in Nat
  BY <1>1, <1>2
<1>5. \A a \in both : Network[a] = IF a \in arcs THEN Forward[a] ELSE 0
  BY <1>1
<1>6. \A a \in arcs : a \in both
  OBVIOUS
<1>7. Network = [a \in both |-> Network[a]]
  BY <1>1
<1> HIDE DEF both
<1>8. Network \in [both -> Nat]
  BY <1>4, <1>7
<1> QED
  BY <1>3, <1>4, <1>5, <1>6, <1>8 DEF arcs

LEMMA NetworkPairs ==
  ASSUME value \in [Children -> Nat], NEW a \in DOMAIN Network
  PROVE  a = <<a[1], a[2]>>
<1>1. a \in DOMAIN Forward \/ \E b \in DOMAIN Forward : a = Back(b)
  BY DEF Network
<1>2. CASE a \in DOMAIN Forward
  <2>1. a \in Ends \cup Wired \cup Own
    BY <1>2, ForwardIs
  <2> QED
    BY <2>1 DEF Ends, Wired, Own
<1>3. CASE \E b \in DOMAIN Forward : a = Back(b)
  BY <1>3 DEF Back
<1> QED
  BY <1>1, <1>2, <1>3

-----------------------------------------------------------------------------
(* The invariant. *)

\* No path leads from an entry to an exit.
Apart == Past({}) \cap Exit = {}

\* A call that found nothing wrong with its input.
Called == pc \in {"bfs", "dfs", "done"}

\* Connections and what joins the source and the sink stay unlimited.
NetInv ==
  /\ value \in [Children -> Nat]
  /\ cap \in [DOMAIN Network -> Nat]
  /\ \A a \in Ends \cup Wired : cap[a] = Unlimited
  /\ level \in [Vertices -> Int]
  /\ level[Source] = 0

\* The search is d arcs away from the source, and has seen all that one open
\* arc leads to from any nearer.
Searched ==
  \E d \in {level[v] : v \in Vertices} :
    /\ \A v \in Vertices : level[v] <= d
    /\ \A a \in DOMAIN cap : Open(a) /\ level[a[1]] \in 0..(d - 1) => level[a[2]] >= 0

\* The search that ended the call has seen all there is, and not the sink.
SearchedOut ==
  /\ level[Sink] < 0
  /\ \A a \in DOMAIN cap : Open(a) /\ level[a[1]] >= 0 => level[a[2]] >= 0

\* The calls of dfs stand on a walk of the network.
Walk ==
  /\ path \in Seq(Vertices) /\ path # <<>> /\ path[1] = Source
  /\ \A i \in 1..(Len(path) - 1) : <<path[i], path[i + 1]>> \in DOMAIN cap

\* Where no path leads to an exit nothing ever flows, nor does dfs get out of
\* what the entries lead to.
Stays == \A i \in 1..Len(path) : path[i] = Source \/ \E c \in Past({}) : path[i] \in {In(c), Out(c)}

FlowInv ==
  /\ value \in [Children -> Values]
  /\ flow \in Nat
  /\ pc \in {"no children", "faulty", "no entry", "no exit", "bfs", "dfs", "done"}
  /\ pc = "no children" <=> Child = <<>>
  /\ pc = "faulty" <=> Child # <<>> /\ Faulty # {}
  /\ Called => NetInv /\ (Apart => cap = Network)
  /\ pc = "bfs" => Searched
  /\ pc = "dfs" => Walk /\ (Apart => Stays)
  /\ pc = "done" => SearchedOut

LEMMA InitFlowInv == Init => FlowInv
<1> SUFFICES ASSUME Init PROVE FlowInv
  OBVIOUS
<1>1. value \in [Children -> Values]
  BY InputAssumption DEF Init
<1>2. pc = Outcome /\ flow = 0 /\ flow \in Nat /\ level = Unsearched
  BY DEF Init
<1>3. pc \in {"no children", "faulty", "no entry", "no exit", "bfs"}
  BY <1>2 DEF Outcome
<1>4. /\ pc = "no children" <=> Child = <<>>
      /\ pc = "faulty" <=> Child # <<>> /\ Faulty # {}
  BY <1>2 DEF Outcome
<1>5. ASSUME pc = "bfs"
      PROVE  NetInv /\ cap = Network /\ Searched
  <2>1. Faulty = {}
    BY <1>3, <1>4, <1>5
  <2>2. value \in [Children -> Nat]
    <3>1. ASSUME NEW c \in Children PROVE value[c] \in Nat
      <4>1. PICK i \in 1..Len(Child) : c = Child[i]
        BY ChildIs
      <4>2. ~Bad(value[c])
        BY <2>1, <4>1, ChildIs DEF Faulty
      <4>3. value[c] \in Int /\ ~(value[c] < 0)
        BY <1>1, <4>2, InputAssumption DEF Bad
      <4> QED
        BY <4>3
    <3> QED
      BY <1>1, <3>1
  <2>3. cap = Network
    BY <1>5 DEF Init
  <2>4. cap \in [DOMAIN Network -> Nat]
    BY <2>2, <2>3, NetworkIs
  <2>5. \A a \in Ends \cup Wired : cap[a] = Unlimited
    BY <2>2, <2>3, ForwardIs, NetworkIs
  <2>6. /\ level \in [Vertices -> Int] /\ level[Source] = 0 /\ Source \in Vertices
        /\ \A v \in Vertices : level[v] <= 0
    BY <1>2, VerticesApart DEF Unsearched
  <2>7. Searched
    <3>1. 0 \in {level[v] : v \in Vertices}
      BY <2>6
    <3> QED
      BY <2>6, <3>1 DEF Searched
  <2> QED
    BY <2>2, <2>3, <2>4, <2>5, <2>6, <2>7 DEF NetInv
<1> QED
  BY <1>1, <1>2, <1>3, <1>4, <1>5 DEF FlowInv, Called

\* The input stays as it is, and with it all that is read off it.
LEMMA Steady ==
  ASSUME UNCHANGED <<value, wires>>
  PROVE  /\ Faulty' = Faulty /\ Ends' = Ends /\ Wired' = Wired
         /\ Network' = Network
         /\ Past({})' = Past({}) /\ Exit' = Exit /\ Apart' = Apart
<1>1. Wire' = Wire
  BY DEF Wire
<1>2. /\ \A c : HasIn(c)' = HasIn(c)
      /\ \A c : HasOut(c)' = HasOut(c)
  BY <1>1 DEF HasIn, HasOut
<1>3. Entry' = Entry /\ Exit' = Exit /\ \A c : Linked(c)' = Linked(c)
  BY <1>2 DEF Entry, Exit, Linked
<1>4. Ends' = Ends /\ Wired' = Wired /\ Own' = Own
  BY <1>1, <1>3 DEF Ends, Wired, Own
<1>5. Forward' = Forward
  BY <1>4 DEF Forward
<1>6. Network' = Network
  BY <1>5 DEF Network
<1>7. Past({})' = Past({})
  BY <1>1, <1>3 DEF Past
<1>8. Faulty' = Faulty
  BY DEF Faulty
<1>9. Apart' = Apart
  BY <1>3, <1>7 DEF Apart
<1> QED
  BY <1>3, <1>4, <1>6, <1>7, <1>8, <1>9
\* How far the search has come.
LEMMA DepthIs ==
  ASSUME NetInv, Searched
  PROVE  /\ Depth \in Nat /\ \A v \in Vertices : level[v] <= Depth
         /\ \A a \in DOMAIN cap : Open(a) /\ level[a[1]] \in 0..(Depth - 1) => level[a[2]] >= 0
<1>1. PICK d \in {level[v] : v \in Vertices} :
        /\ \A v \in Vertices : level[v] <= d
        /\ \A a \in DOMAIN cap : Open(a) /\ level[a[1]] \in 0..(d - 1) => level[a[2]] >= 0
  BY DEF Searched
<1> DEFINE S == {level[v] : v \in Vertices}
<1>2. S \subseteq Int /\ \A n \in S : n <= d
  BY <1>1 DEF NetInv
<1>3. Depth = d
  <2> HIDE DEF S
  <2>1. Max(S) = d
    BY <1>2, MaxIs DEF S
  <2> QED
    BY <2>1 DEF Depth, S
<1>4. d >= 0
  BY <1>1, VerticesApart DEF NetInv
<1> QED
  BY <1>1, <1>2, <1>3, <1>4

LEMMA BfsKeeps ==
  ASSUME FlowInv, Bfs
  PROVE  FlowInv'
<1>1. pc = "bfs" /\ Called /\ NetInv /\ (Apart => cap = Network)
      /\ UNCHANGED <<value, wires, cap, dead, flow>>
  BY DEF Bfs, FlowInv, Called
<1> DEFINE d == Depth
<1>2. /\ \A v \in Vertices : level[v] <= d
      /\ \A a \in DOMAIN cap : Open(a) /\ level[a[1]] \in 0..(d - 1) => level[a[2]] >= 0
  BY <1>1, DepthIs DEF FlowInv
<1>3. Depth = d /\ d \in Nat
  BY <1>1, DepthIs DEF FlowInv
<1> HIDE DEF d
<1>4. \A a \in DOMAIN cap : a[1] \in Vertices /\ a[2] \in Vertices /\ cap[a] \in Nat
  BY <1>1, NetworkIs DEF NetInv
<1>5. level \in [Vertices -> Int] /\ level[Source] = 0 /\ Source \in Vertices /\ Sink \in Vertices
  BY <1>1, VerticesApart DEF NetInv
<1>6. /\ Faulty' = Faulty /\ Ends' = Ends /\ Wired' = Wired
      /\ Network' = Network /\ Apart' = Apart
  BY <1>1, Steady
<1>7. CASE Further # {}
  <2>1. /\ level' = [v \in Vertices |-> IF v \in Further THEN Depth + 1 ELSE level[v]]
        /\ pc' = "bfs"
    BY <1>1, <1>7 DEF Bfs
  <2>2. \A v \in Further : v \in Vertices /\ level[v] < 0
    BY <1>4 DEF Further
  <2>3. \A v \in Vertices : level'[v] = IF v \in Further THEN d + 1 ELSE level[v]
    BY <1>3, <2>1
  <2>4. level' \in [Vertices -> Int] /\ level'[Source] = 0
    <3>1. \A v \in Vertices : level'[v] \in Int
      BY <1>3, <1>5, <2>3
    <3>2. Source \notin Further
      BY <1>5, <2>2
    <3> QED
      BY <1>5, <2>1, <2>3, <3>1, <3>2
  <2>5. d + 1 \in {level'[v] : v \in Vertices}
    BY <1>7, <2>2, <2>3
  <2>6. \A v \in Vertices : level'[v] <= d + 1
    BY <1>2, <1>3, <1>5, <2>3
  <2>7. ASSUME NEW a \in DOMAIN cap, Open(a), level'[a[1]] \in 0..d
        PROVE  level'[a[2]] >= 0
    <3>1. a[1] \notin Further /\ level[a[1]] = level'[a[1]]
      BY <1>3, <1>4, <2>3, <2>7
    <3>2. CASE level[a[1]] = d
      BY <1>3, <1>4, <1>5, <2>3, <2>7, <3>2 DEF Further
    <3>3. CASE level[a[1]] # d
      <4>1. level[a[1]] \in 0..(d - 1)
        BY <1>3, <2>7, <3>1, <3>3
      <4>2. level[a[2]] >= 0
        BY <1>2, <2>7, <4>1
      <4> QED
        BY <1>3, <1>4, <2>3, <4>2
    <3> QED
      BY <3>2, <3>3
  <2>8. Searched'
    <3>1. 0..((d + 1) - 1) = 0..d
      BY <1>3
    <3>2. \A a \in DOMAIN cap' :
            cap'[a] > 0 /\ level'[a[1]] \in 0..((d + 1) - 1) => level'[a[2]] >= 0
      BY <1>1, <2>7, <3>1 DEF Open
    <3> QED
      BY <2>5, <2>6, <3>2 DEF Searched, Open
  <2> QED
    BY <1>1, <1>6, <2>1, <2>4, <2>5, <2>8 DEF FlowInv, NetInv, Called
<1>8. CASE Further = {}
  <2>1. level' = level /\ (level[Sink] >= 0 => pc' = "dfs" /\ path' = <<Source>>)
        /\ (~(level[Sink] >= 0) => pc' = "done")
    BY <1>1, <1>8 DEF Bfs
  <2>2. NetInv' /\ (Apart => cap = Network)'
    BY <1>1, <1>6, <2>1 DEF NetInv
  <2>3. CASE level[Sink] >= 0
    <3>1. path' = <<Source>> /\ path' \in Seq(Vertices) /\ Len(path') = 1 /\ path'[1] = Source
      <4>1. path' = <<Source>>
        BY <2>1, <2>3
      <4>2. <<Source>> \in Seq(Vertices) /\ Len(<<Source>>) = 1 /\ <<Source>>[1] = Source
        BY <1>5
      <4> QED
        BY <4>1, <4>2
    <3>2. path' # <<>>
      BY <3>1
    <3>3. (Walk /\ Stays)'
      BY <3>1, <3>2 DEF Walk, Stays
    <3> QED
      BY <1>1, <1>6, <2>1, <2>2, <2>3, <3>3 DEF FlowInv, Called
  <2>4. CASE ~(level[Sink] >= 0)
    <3>1. ASSUME NEW a \in DOMAIN cap, Open(a), level[a[1]] >= 0
          PROVE  level[a[2]] >= 0
      <4>1. CASE level[a[1]] = d
        <5>1. ~(level[a[2]] < 0)
          BY <1>3, <1>8, <3>1, <4>1 DEF Further
        <5> QED
          BY <1>4, <1>5, <5>1
      <4>2. CASE level[a[1]] # d
        <5>1. level[a[1]] \in 0..(d - 1)
          BY <1>2, <1>3, <1>4, <1>5, <3>1, <4>2
        <5> QED
          BY <1>2, <3>1, <5>1
      <4> QED
        BY <4>1, <4>2
    <3>2. SearchedOut'
      BY <1>1, <1>5, <2>1, <2>4, <3>1 DEF SearchedOut, Open
    <3> QED
      BY <1>1, <1>6, <2>1, <2>2, <2>4, <3>2 DEF FlowInv, Called
  <2> QED
    BY <2>3, <2>4
<1> QED
  BY <1>7, <1>8

\* What flows past the children of D is closed under the wires, but for D.
LEMMA PastOf ==
  ASSUME NEW D \in SUBSET Children
  PROVE  /\ Entry \ D \subseteq Past(D) /\ Past(D) \subseteq Children \ D
         /\ \A w \in Wire : w[1] \in Past(D) /\ w[2] \notin D => w[2] \in Past(D)
<1> DEFINE arcs == {w \in Wire : w[2] \notin D}
           first == Entry \ D
           U == Children \ D
           past == Spread(first, arcs, Len(Child))
<1>1. Past(D) = past
  BY DEF Past
<1>2. first \subseteq U /\ \A w \in arcs : w[2] \in U
  BY DEF Entry, Wire
<1>3. IsFiniteSet(U) /\ Cardinality(U) <= Len(Child) /\ Len(Child) \in Nat
  <2>1. IsFiniteSet(U) /\ Cardinality(U) <= Cardinality(Children)
    BY ChildIs, FS_Subset
  <2>2. Cardinality(U) \in Nat /\ Cardinality(Children) \in Nat
    BY <2>1, ChildIs, FS_CardinalityType
  <2> HIDE DEF U
  <2> QED
    BY <2>1, <2>2, ChildIs
<1>4. /\ first \subseteq past /\ past \subseteq U
      /\ \A a \in arcs : a[1] \in past => a[2] \in past
  <2> HIDE DEF arcs, first, U
  <2> QED
    BY <1>2, <1>3, SpreadClosed
<1> HIDE DEF past
<1> QED
  BY <1>1, <1>4

\* What the entries lead to is closed under the wires.
LEMMA PastIs ==
  /\ Entry \subseteq Past({}) /\ Past({}) \subseteq Children
  /\ \A w \in Wire : w[1] \in Past({}) => w[2] \in Past({})
BY PastOf, Zenon

\* The first arc that can be taken, while nothing has flowed.
LEMMA OpenIs ==
  ASSUME value \in [Children -> Nat], NEW a \in DOMAIN Network, Network[a] > 0
  PROVE  \/ \E c \in Entry : a = <<Source, In(c)>>
         \/ \E c \in Exit : a = <<Out(c), Sink>>
         \/ \E w \in Wire : a = <<Out(w[1]), In(w[2])>>
         \/ \E c \in Children : Linked(c) /\ a = <<In(c), Out(c)>>
<1>1. a \in DOMAIN Forward
  BY NetworkIs
<1>2. a \in Ends \cup Wired \cup Own
  BY <1>1, ForwardIs
<1> QED
  BY <1>2 DEF Ends, Wired, Own

\* Nothing leads from what stays to the sink.
LEMMA Onwards ==
  ASSUME value \in [Children -> Nat], Apart, NEW a \in DOMAIN Network, Network[a] > 0,
         a[1] = Source \/ \E c \in Past({}) : a[1] \in {In(c), Out(c)}
  PROVE  \E c \in Past({}) : a[2] \in {In(c), Out(c)}
<1>1. CASE \E c \in Entry : a = <<Source, In(c)>>
  BY <1>1, PastIs
<1>2. CASE \E c \in Exit : a = <<Out(c), Sink>>
  <2>1. PICK c \in Exit : a = <<Out(c), Sink>>
    BY <1>2
  <2>2. a[1] = Out(c)
    BY <2>1
  <2>3. c \in Past({})
    BY <2>2, VerticesApart
  <2> QED
    BY <2>1, <2>3 DEF Apart
<1>3. CASE \E w \in Wire : a = <<Out(w[1]), In(w[2])>>
  <2>1. PICK w \in Wire : a = <<Out(w[1]), In(w[2])>>
    BY <1>3
  <2>2. a[1] = Out(w[1]) /\ a[2] = In(w[2])
    BY <2>1
  <2>3. w[1] \in Past({})
    BY <2>2, VerticesApart
  <2> QED
    BY <2>2, <2>3, PastIs
<1>4. CASE \E c \in Children : a = <<In(c), Out(c)>>
  <2>1. PICK c \in Children : a[1] = In(c) /\ a[2] = Out(c)
    BY <1>4
  <2>2. c \in Past({})
    BY <2>1, VerticesApart
  <2> QED
    BY <2>1, <2>2
<1> QED
  BY <1>1, <1>2, <1>3, <1>4, OpenIs
LEMMA AdvanceKeeps ==
  ASSUME FlowInv, Advance
  PROVE  FlowInv'
<1>1. /\ pc = "dfs" /\ Called /\ NetInv /\ (Apart => cap = Network) /\ Walk /\ (Apart => Stays)
      /\ UNCHANGED <<value, wires, pc, cap, level, dead, flow>>
  BY DEF Advance, FlowInv, Called
<1>2. PICK a \in Onward : path' = Append(path, a[2])
  BY DEF Advance
<1>3. a \in DOMAIN cap /\ a[1] = path[Len(path)] /\ cap[a] > 0
  BY <1>2 DEF Onward, Top, Last, Admissible, Open
<1>4. a = <<a[1], a[2]>> /\ a[2] \in Vertices
  BY <1>1, <1>3, NetworkIs, NetworkPairs DEF NetInv
<1>5. Len(path) \in Nat /\ Len(path) >= 1
  BY <1>1 DEF Walk
<1>6. /\ path' \in Seq(Vertices) /\ Len(path') = Len(path) + 1
      /\ \A i \in 1..Len(path) : path'[i] = path[i]
      /\ path'[Len(path) + 1] = a[2]
  BY <1>1, <1>2, <1>4 DEF Walk
<1>7. Walk'
  <2>1. path' # <<>> /\ path'[1] = Source
    BY <1>1, <1>5, <1>6 DEF Walk
  <2>2. ASSUME NEW i \in 1..(Len(path') - 1)
        PROVE  <<path'[i], path'[i + 1]>> \in DOMAIN cap
    <3>1. CASE i = Len(path)
      BY <1>3, <1>4, <1>5, <1>6, <3>1
    <3>2. CASE i # Len(path)
      <4>1. i \in 1..(Len(path) - 1) /\ i + 1 \in 1..Len(path) /\ i \in 1..Len(path)
        BY <1>5, <1>6, <3>2
      <4> QED
        BY <1>1, <1>6, <4>1 DEF Walk
    <3> QED
      BY <3>1, <3>2
  <2> QED
    BY <1>1, <1>6, <2>1, <2>2 DEF Walk
<1>8. /\ Faulty' = Faulty /\ Ends' = Ends /\ Wired' = Wired
      /\ Network' = Network /\ Apart' = Apart /\ Past({})' = Past({})
  BY <1>1, Steady
<1>9. ASSUME Apart PROVE Stays'
  <2>1. cap = Network /\ Stays /\ value \in [Children -> Nat]
    BY <1>1, <1>9 DEF NetInv
  <2>2. a[1] = Source \/ \E c \in Past({}) : a[1] \in {In(c), Out(c)}
    BY <1>3, <1>5, <2>1 DEF Stays
  <2>3. \E c \in Past({}) : a[2] \in {In(c), Out(c)}
    BY <1>3, <1>9, <2>1, <2>2, Onwards
  <2>4. ASSUME NEW i \in 1..Len(path')
        PROVE  path'[i] = Source \/ \E c \in Past({}) : path'[i] \in {In(c), Out(c)}
    <3>1. i \in 1..Len(path) \/ i = Len(path) + 1
      BY <1>5, <1>6
    <3> QED
      BY <1>6, <2>1, <2>3, <3>1 DEF Stays
  <2> QED
    BY <1>8, <2>4 DEF Stays
<1>10. NetInv' /\ (Apart => cap = Network)'
  BY <1>1, <1>8 DEF NetInv
<1> QED
  BY <1>1, <1>7, <1>8, <1>9, <1>10 DEF FlowInv, Called

LEMMA RetreatKeeps ==
  ASSUME FlowInv, Retreat
  PROVE  FlowInv'
<1>1. /\ pc = "dfs" /\ Called /\ NetInv /\ (Apart => cap = Network) /\ Walk /\ (Apart => Stays)
      /\ UNCHANGED <<value, wires, cap, flow>>
  BY DEF Retreat, FlowInv, Called
<1>2. /\ Faulty' = Faulty /\ Ends' = Ends /\ Wired' = Wired
      /\ Network' = Network /\ Apart' = Apart /\ Past({})' = Past({})
  BY <1>1, Steady
<1>3. CASE path = <<Source>>
  <2>1. pc' = "bfs" /\ level' = Unsearched
    BY <1>3 DEF Retreat
  <2>2. /\ level' \in [Vertices -> Int] /\ level'[Source] = 0 /\ Source \in Vertices
        /\ \A v \in Vertices : level'[v] <= 0
    BY <2>1, VerticesApart DEF Unsearched
  <2>3. Searched'
    <3>1. 0 \in {level'[v] : v \in Vertices}
      BY <2>2
    <3> QED
      BY <2>2, <3>1 DEF Searched
  <2>4. NetInv' /\ (Apart => cap = Network)'
    BY <1>1, <1>2, <2>2 DEF NetInv
  <2> QED
    BY <1>1, <1>2, <2>1, <2>3, <2>4 DEF FlowInv, Called
<1>4. CASE path # <<Source>>
  <2>1. pc' = "dfs" /\ level' = level /\ path' = SubSeq(path, 1, Len(path) - 1)
    BY <1>1, <1>4 DEF Retreat, Front
  <2>2. Len(path) \in Nat /\ Len(path) >= 2
    <3>1. Len(path) \in Nat /\ Len(path) >= 1
      BY <1>1 DEF Walk
    <3>2. Len(path) # 1
      <4> SUFFICES ASSUME Len(path) = 1 PROVE FALSE
        OBVIOUS
      <4>1. path = <<path[1]>>
        BY <1>1 DEF Walk
      <4> QED
        BY <1>1, <1>4, <4>1 DEF Walk
    <3> QED
      BY <3>1, <3>2
  <2>3. /\ path' \in Seq(Vertices) /\ Len(path') = Len(path) - 1
        /\ \A i \in 1..(Len(path) - 1) : path'[i] = path[i]
    BY <1>1, <2>1, <2>2 DEF Walk
  <2>4. Walk'
    <3>1. path' # <<>> /\ path'[1] = Source
      BY <1>1, <2>2, <2>3 DEF Walk
    <3>2. ASSUME NEW i \in 1..(Len(path') - 1)
          PROVE  <<path'[i], path'[i + 1]>> \in DOMAIN cap
      <4>1. i \in 1..(Len(path) - 1) /\ i + 1 \in 1..(Len(path) - 1)
        BY <2>2, <2>3
      <4> QED
        BY <1>1, <2>3, <4>1 DEF Walk
    <3> QED
      BY <1>1, <2>3, <3>1, <3>2 DEF Walk
  <2>5. ASSUME Apart PROVE Stays'
    <3>1. \A i \in 1..Len(path') : i \in 1..Len(path) /\ path'[i] = path[i]
      BY <2>2, <2>3
    <3> QED
      BY <1>1, <1>2, <2>5, <3>1 DEF Stays
  <2>6. NetInv' /\ (Apart => cap = Network)'
    BY <1>1, <1>2, <2>1 DEF NetInv
  <2> QED
    BY <1>1, <1>2, <2>1, <2>4, <2>5, <2>6 DEF FlowInv, Called
<1> QED
  BY <1>3, <1>4

LEMMA AugmentKeeps ==
  ASSUME FlowInv, Augment
  PROVE  FlowInv'
<1> DEFINE S == {cap[a] : a \in Arcs}
           d == Min(S)
<1>1. /\ pc = "dfs" /\ Called /\ NetInv /\ Walk /\ (Apart => Stays)
      /\ path[Len(path)] = Sink /\ path' = <<Source>>
      /\ cap' = Pushed(d) /\ flow' = flow + d
      /\ UNCHANGED <<value, wires, pc, level, dead>>
  BY DEF Augment, FlowInv, Called, Top, Last
<1>2. Len(path) \in Nat /\ Len(path) >= 2
  <2>1. Len(path) \in Nat /\ Len(path) >= 1
    BY <1>1 DEF Walk
  <2>2. Len(path) # 1
    BY <1>1, VerticesApart DEF Walk
  <2> QED
    BY <2>1, <2>2
<1>3. /\ Arcs \subseteq DOMAIN cap /\ S # {}
      /\ \A a \in DOMAIN cap : cap[a] \in Nat
  <2>1. Arcs \subseteq DOMAIN cap
    BY <1>1 DEF Walk, Arcs
  <2>2. 1 \in 1..(Len(path) - 1)
    BY <1>2
  <2>3. <<path[1], path[1 + 1]>> \in Arcs
    BY <2>2 DEF Arcs
  <2> QED
    BY <1>1, <2>1, <2>3 DEF NetInv
<1>4. d \in Nat /\ \A a \in Arcs : d <= cap[a]
  <2>1. S \subseteq Nat
    BY <1>3
  <2>2. Min(S) \in S /\ \A n \in S : Min(S) <= n
    <3> HIDE DEF S
    <3> QED
      BY <1>3, <2>1, MinIs
  <2> QED
    BY <2>1, <2>2
<1> HIDE DEF d
<1>5. /\ DOMAIN cap' = DOMAIN cap
      /\ \A a \in DOMAIN cap : cap'[a] \in Nat /\ (cap[a] = Unlimited => cap'[a] = Unlimited)
  <2>1. cap' = [a \in DOMAIN cap |->
                  IF a \in Arcs THEN Less(cap[a], d)
                  ELSE IF Back(a) \in Arcs THEN More(cap[a], d) ELSE cap[a]]
    BY <1>1 DEF Pushed
  <2>2. ASSUME NEW a \in DOMAIN cap
        PROVE  /\ a \in Arcs => Less(cap[a], d) \in Nat
               /\ More(cap[a], d) \in Nat /\ cap[a] \in Nat
               /\ cap[a] = Unlimited => Less(cap[a], d) = Unlimited /\ More(cap[a], d) = Unlimited
    BY <1>3, <1>4, InputAssumption DEF Less, More
  <2> QED
    BY <2>1, <2>2
<1>6. /\ Faulty' = Faulty /\ Ends' = Ends /\ Wired' = Wired
      /\ Network' = Network /\ Apart' = Apart
  BY <1>1, Steady
<1>7. NetInv'
  <2>1. DOMAIN cap = DOMAIN Network /\ cap' = [a \in DOMAIN cap |-> cap'[a]]
    BY <1>1 DEF NetInv, Pushed
  <2>2. cap' \in [DOMAIN Network -> Nat]
    BY <1>5, <2>1
  <2>3. \A a \in Ends \cup Wired : a \in DOMAIN cap
    BY <1>1, <2>1, ForwardIs, NetworkIs DEF NetInv
  <2> QED
    BY <1>1, <1>5, <1>6, <2>2, <2>3 DEF NetInv
<1>8. ~Apart
  <2> SUFFICES ASSUME Apart PROVE FALSE
    OBVIOUS
  <2>1. Sink = Source \/ \E c \in Past({}) : Sink \in {In(c), Out(c)}
    BY <1>1, <1>2 DEF Stays
  <2> QED
    BY <2>1, VerticesApart
<1>9. Walk'
  <2>1. Source \in Vertices
    BY VerticesApart
  <2>2. <<Source>> \in Seq(Vertices) /\ Len(<<Source>>) = 1 /\ <<Source>>[1] = Source
    BY <2>1
  <2> QED
    BY <1>1, <2>2 DEF Walk
<1>10. flow' \in Nat
  BY <1>1, <1>4 DEF FlowInv
<1> QED
  BY <1>1, <1>6, <1>7, <1>8, <1>9, <1>10 DEF FlowInv, Called

LEMMA SpecFlowInv == Spec => []FlowInv
<1>1. FlowInv /\ [Next]_vars => FlowInv'
  <2> SUFFICES ASSUME FlowInv, [Next]_vars PROVE FlowInv'
    OBVIOUS
  <2>1. CASE Next
    BY <2>1, BfsKeeps, AdvanceKeeps, RetreatKeeps, AugmentKeeps DEF Next
  <2>2. CASE UNCHANGED vars
    <3>1. UNCHANGED <<value, wires, pc, cap, level, dead, path, flow>>
      BY <2>2 DEF vars
    <3>2. /\ Faulty' = Faulty /\ Ends' = Ends /\ Wired' = Wired
          /\ Network' = Network /\ Apart' = Apart /\ Past({})' = Past({})
      BY <3>1, Steady
    <3> QED
      BY <3>1, <3>2 DEF FlowInv, Called, NetInv, Searched, SearchedOut, Walk, Stays, Open
  <2> QED
    BY <2>1, <2>2
<1> QED
  BY <1>1, InitFlowInv, PTL DEF Spec
-----------------------------------------------------------------------------
(* The cut. *)

\* What can be reached in the end is closed, and the sink is not in it.
LEMMA ReachIs ==
  ASSUME FlowInv, pc = "done"
  PROVE  /\ Source \in ReachOf({Source}) /\ Sink \notin ReachOf({Source})
         /\ ReachOf({Source}) \subseteq Vertices
         /\ \A a \in DOMAIN cap : Open(a) /\ a[1] \in ReachOf({Source}) => a[2] \in ReachOf({Source})
<1> DEFINE arcs == {a \in DOMAIN cap : Open(a)}
           n == Cardinality(Vertices)
           reach == Spread({Source}, arcs, n)
           seen == {v \in Vertices : level[v] >= 0}
<1>1. ReachOf({Source}) = reach
  BY DEF ReachOf
<1>2. NetInv /\ SearchedOut
  BY DEF FlowInv, Called
<1>3. \A a \in DOMAIN cap : a[1] \in Vertices /\ a[2] \in Vertices
  BY <1>2, NetworkIs DEF NetInv
<1>4. n \in Nat /\ IsFiniteSet(Vertices) /\ n <= n /\ {Source} \subseteq Vertices
      /\ \A a \in arcs : a[2] \in Vertices
  BY <1>3, VerticesFinite, VerticesApart
<1>5. /\ {Source} \subseteq reach /\ reach \subseteq Vertices
      /\ \A a \in arcs : a[1] \in reach => a[2] \in reach
  <2>1. n = Cardinality(Vertices)
    OBVIOUS
  <2> HIDE DEF arcs, n
  <2> QED
    BY <1>4, <2>1, SpreadClosed
<1>6. reach \subseteq seen
  <2>1. {Source} \subseteq seen
    BY <1>2, VerticesApart DEF NetInv
  <2>2. \A a \in arcs : a[1] \in seen => a[2] \in seen
    BY <1>2, <1>3 DEF SearchedOut
  <2> HIDE DEF arcs, n, seen
  <2> QED
    BY <1>4, <2>1, <2>2, SpreadWithin
<1>7. Sink \notin reach
  <2>1. level[Sink] \in Int /\ level[Sink] < 0
    BY <1>2, VerticesApart DEF NetInv, SearchedOut
  <2>2. Sink \notin seen
    BY <2>1
  <2> QED
    BY <1>6, <2>2
<1> HIDE DEF reach
<1> QED
  BY <1>1, <1>5, <1>7

LEMMA ConnectionsOpen ==
  ASSUME NetInv
  PROVE  \A a \in Ends \cup Wired : a \in DOMAIN cap /\ Open(a)
<1>1. Unlimited > 0
  BY InputAssumption
<1> QED
  BY <1>1, ForwardIs, NetworkIs DEF NetInv, Open

\* What flows past the cut is reached.
LEMMA PastIsReached ==
  ASSUME FlowInv, pc = "done"
  PROVE  \A c \in Past(Cut) : Out(c) \in ReachOf({Source})
<1> DEFINE reach == ReachOf({Source})
           S == {c \in Children : c \notin Cut /\ In(c) \in reach}
<1>1. NetInv
  BY DEF FlowInv, Called
<1>2. \A a \in Ends \cup Wired : a[1] \in reach => a[2] \in reach
  BY <1>1, ConnectionsOpen, ReachIs
<1>3. \A c \in S : Out(c) \in reach
  BY DEF Cut
<1>4. Entry \ Cut \subseteq S
  <2> SUFFICES ASSUME NEW c \in Entry \ Cut PROVE c \in S
    OBVIOUS
  <2>1. <<Source, In(c)>> \in Ends /\ c \in Children
    BY DEF Ends, Entry
  <2>2. In(c) \in reach
    BY <1>2, <2>1, ReachIs
  <2> QED
    BY <2>1, <2>2
<1>5. \A w \in {x \in Wire : x[2] \notin Cut} : w[1] \in S => w[2] \in S
  <2> SUFFICES ASSUME NEW w \in Wire, w[2] \notin Cut, w[1] \in S PROVE w[2] \in S
    OBVIOUS
  <2>1. <<Out(w[1]), In(w[2])>> \in Wired /\ w[2] \in Children
    BY DEF Wired, Wire
  <2>2. Out(w[1]) \in reach
    BY <1>3
  <2>3. In(w[2]) \in reach
    BY <1>2, <2>1, <2>2
  <2> QED
    BY <2>1, <2>3
<1>6. Past(Cut) \subseteq S
  <2> HIDE DEF S
  <2> QED
    BY <1>4, <1>5, ChildIs, SpreadWithin DEF Past
<1> QED
  BY <1>3, <1>6

LEMMA FlowInvSeparates == FlowInv => CutSeparates
<1> SUFFICES ASSUME FlowInv, pc = "done", NEW c \in Past(Cut), c \in Exit PROVE FALSE
  BY DEF CutSeparates, Separates
<1>1. NetInv
  BY DEF FlowInv, Called
<1>2. Out(c) \in ReachOf({Source})
  BY PastIsReached
<1>3. <<Out(c), Sink>> \in Ends
  BY DEF Ends
<1>4. \A a \in Ends : a[1] \in ReachOf({Source}) => a[2] \in ReachOf({Source})
  BY <1>1, ConnectionsOpen, ReachIs
<1>5. Sink \in ReachOf({Source})
  BY <1>2, <1>3, <1>4
<1> QED
  BY <1>5, ReachIs

\* Whatever the children, their values and wires and the order the paths are
\* found in, without the children of the cut no path leads from an entry to an
\* exit.
THEOREM TheCutSeparates == Spec => []CutSeparates
BY SpecFlowInv, FlowInvSeparates, PTL

-----------------------------------------------------------------------------
(* Sums. *)

\* Induction on finite sets, for a set of sets.
LEMMA FiniteInduction ==
  ASSUME NEW S, IsFiniteSet(S), NEW Good,
         \A T \in SUBSET S : (\A x \in T : T \ {x} \in Good) => T \in Good
  PROVE  \A T \in SUBSET S : T \in Good
<1> DEFINE Failing == {T \in SUBSET S : T \notin Good}
           Counts == {Cardinality(T) : T \in Failing}
<1>1. \A T \in SUBSET S : IsFiniteSet(T) /\ Cardinality(T) \in Nat
  BY FS_Subset, FS_CardinalityType
<1> SUFFICES ASSUME Failing # {} PROVE FALSE
  OBVIOUS
<1>2. Counts \subseteq Nat /\ Counts # {}
  BY <1>1
<1>3. PICK n \in Counts : \A m \in Counts : n <= m
  <2> HIDE DEF Counts
  <2> QED
    BY <1>2, LeastOf
<1>4. PICK T \in Failing : Cardinality(T) = n
  OBVIOUS
<1>5. ASSUME NEW x \in T PROVE T \ {x} \in Good
  <2>1. T \ {x} \in SUBSET S /\ T \in SUBSET S
    OBVIOUS
  <2>2. Cardinality(T \ {x}) = Cardinality(T) - 1
    BY <1>1, <2>1, FS_RemoveElement
  <2>3. Cardinality(T \ {x}) \notin Counts
    BY <1>1, <1>3, <1>4, <2>1, <2>2
  <2> QED
    BY <2>1, <2>3
<1> QED
  BY <1>5

Summing(g, S, f) ==
  f = [T \in SUBSET S |-> IF T = {} THEN 0 ELSE LET x == CHOOSE x \in T : TRUE IN g[x] + f[T \ {x}]]

Sum(g, S) == (CHOOSE f : Summing(g, S, f))[S]

Chosen(T) == CHOOSE x \in T : TRUE

LEMMA ChosenIs == \A T : T # {} => Chosen(T) \in T
BY DEF Chosen

LEMMA SummingIs ==
  ASSUME NEW g, NEW S, NEW f, Summing(g, S, f)
  PROVE  \A T \in SUBSET S : f[T] = IF T = {} THEN 0 ELSE g[Chosen(T)] + f[T \ {Chosen(T)}]
<1> DEFINE h == [T \in SUBSET S |-> IF T = {} THEN 0 ELSE g[Chosen(T)] + f[T \ {Chosen(T)}]]
<1>1. f = h
  BY DEF Summing, Chosen
<1>2. \A T \in SUBSET S : h[T] = IF T = {} THEN 0 ELSE g[Chosen(T)] + f[T \ {Chosen(T)}]
  OBVIOUS
<1> HIDE DEF h
<1> QED
  BY <1>1, <1>2

LEMMA SumsAgree ==
  ASSUME NEW g, NEW S, NEW R \in SUBSET S, IsFiniteSet(R), NEW f, Summing(g, S, f),
         NEW h, Summing(g, R, h)
  PROVE  f[R] = h[R]
<1>0. /\ \A T \in SUBSET S : f[T] = IF T = {} THEN 0 ELSE g[Chosen(T)] + f[T \ {Chosen(T)}]
      /\ \A T \in SUBSET R : h[T] = IF T = {} THEN 0 ELSE g[Chosen(T)] + h[T \ {Chosen(T)}]
  BY SummingIs
<1> DEFINE Good == {T \in SUBSET R : f[T] = h[T]}
<1>1. ASSUME NEW T \in SUBSET R, \A x \in T : T \ {x} \in Good
      PROVE  T \in Good
  <2>1. T \in SUBSET S
    OBVIOUS
  <2>2. f[T] = IF T = {} THEN 0 ELSE g[Chosen(T)] + f[T \ {Chosen(T)}]
    BY <1>0, <2>1
  <2>3. h[T] = IF T = {} THEN 0 ELSE g[Chosen(T)] + h[T \ {Chosen(T)}]
    BY <1>0
  <2>4. T # {} => f[T \ {Chosen(T)}] = h[T \ {Chosen(T)}]
    BY <1>1, ChosenIs
  <2> QED
    BY <2>2, <2>3, <2>4
<1> HIDE DEF Good
<1>2. R \in Good
  BY <1>1, FiniteInduction
<1> QED
  BY <1>2 DEF Good

\* A recursion on the subsets of a finite set has a solution.
LEMMA SummingExists ==
  ASSUME NEW g, NEW S, IsFiniteSet(S)
  PROVE  \E f : Summing(g, S, f)
<1> DEFINE Good == {T \in SUBSET S : \A U \in SUBSET T : \E f : Summing(g, U, f)}
<1>1. ASSUME NEW T \in SUBSET S, \A x \in T : T \ {x} \in Good
      PROVE  T \in Good
  <2> DEFINE f == [U \in SUBSET T |-> IF U = {} THEN 0 ELSE g[Chosen(U)] + Sum(g, U \ {Chosen(U)})]
  <2>1. ASSUME NEW U \in SUBSET T, U # T
        PROVE  \E h : Summing(g, U, h)
    <3>1. PICK x \in T : x \notin U
      BY <2>1
    <3>2. U \in SUBSET (T \ {x})
      BY <3>1
    <3> QED
      BY <1>1, <3>2
  <2>2. ASSUME NEW U \in SUBSET T, U # T
        PROVE  f[U] = Sum(g, U)
    <3> DEFINE h == CHOOSE k : Summing(g, U, k)
    <3>1. Summing(g, U, h)
      BY <2>1, <2>2
    <3>2. Sum(g, U) = h[U]
      BY DEF Sum
    <3> HIDE DEF h
    <3>3. h[U] = IF U = {} THEN 0 ELSE g[Chosen(U)] + h[U \ {Chosen(U)}]
      BY <3>1, SummingIs
    <3>4. ASSUME U # {}
          PROVE  h[U \ {Chosen(U)}] = Sum(g, U \ {Chosen(U)})
      <4> DEFINE W == U \ {Chosen(U)}
                 k == CHOOSE m : Summing(g, W, m)
      <4>1. W \in SUBSET T /\ W # T /\ W \in SUBSET U
        BY <2>2
      <4>2. Summing(g, W, k)
        BY <2>1, <4>1
      <4>3. IsFiniteSet(W)
        BY FS_Subset
      <4>4. Sum(g, W) = k[W]
        BY DEF Sum
      <4> HIDE DEF W, k
      <4>5. h[W] = k[W]
        BY <3>1, <4>1, <4>2, <4>3, SumsAgree
      <4> QED
        BY <4>4, <4>5 DEF W
    <3> QED
      BY <3>2, <3>3, <3>4
  <2>3. \A U \in SUBSET T : U # {} => f[U \ {Chosen(U)}] = Sum(g, U \ {Chosen(U)})
    <3> SUFFICES ASSUME NEW U \in SUBSET T, U # {}
                 PROVE  f[U \ {Chosen(U)}] = Sum(g, U \ {Chosen(U)})
      OBVIOUS
    <3>1. Chosen(U) \in U
      BY ChosenIs
    <3>2. U \ {Chosen(U)} \in SUBSET T /\ U \ {Chosen(U)} # T
      BY <3>1
    <3> HIDE DEF f
    <3> QED
      BY <2>2, <3>2
  <2>4. Summing(g, T, f)
    <3>1. f = [U \in SUBSET T |-> IF U = {} THEN 0 ELSE g[Chosen(U)] + f[U \ {Chosen(U)}]]
      BY <2>3
    <3> HIDE DEF f
    <3> QED
      BY <3>1 DEF Summing, Chosen
  <2>5. \A U \in SUBSET T : \E h : Summing(g, U, h)
    BY <2>1, <2>4
  <2> QED
    BY <2>5
<1> HIDE DEF Good
<1>2. S \in Good
  BY <1>1, FiniteInduction
<1> QED
  BY <1>2 DEF Good

LEMMA SumIs ==
  ASSUME NEW g, NEW S, IsFiniteSet(S)
  PROVE  Sum(g, S) = IF S = {} THEN 0 ELSE g[Chosen(S)] + Sum(g, S \ {Chosen(S)})
<1> DEFINE f == CHOOSE k : Summing(g, S, k)
           W == S \ {Chosen(S)}
           h == CHOOSE k : Summing(g, W, k)
<1>1. Summing(g, S, f)
  BY SummingExists
<1>2. IsFiniteSet(W) /\ W \in SUBSET S
  BY FS_Subset
<1>3. Summing(g, W, h)
  <2> HIDE DEF W
  <2> QED
    BY <1>2, SummingExists
<1>4. Sum(g, S) = f[S] /\ Sum(g, W) = h[W]
  BY DEF Sum
<1> HIDE DEF f, h
<1>5. f[S] = IF S = {} THEN 0 ELSE g[Chosen(S)] + f[W]
  BY <1>1, SummingIs
<1>6. f[W] = h[W]
  <2> HIDE DEF W
  <2> QED
    BY <1>1, <1>2, <1>3, SumsAgree
<1> QED
  BY <1>4, <1>5, <1>6

LEMMA SumInt ==
  ASSUME NEW g, NEW S, IsFiniteSet(S), \A x \in S : g[x] \in Int
  PROVE  \A T \in SUBSET S : IsFiniteSet(T) /\ Sum(g, T) \in Int
<1> DEFINE Good == {T \in SUBSET S : Sum(g, T) \in Int}
<1>0. \A T \in SUBSET S : IsFiniteSet(T)
  BY FS_Subset
<1>1. ASSUME NEW T \in SUBSET S, \A x \in T : T \ {x} \in Good
      PROVE  T \in Good
  <2>1. Sum(g, T) = IF T = {} THEN 0 ELSE g[Chosen(T)] + Sum(g, T \ {Chosen(T)})
    BY <1>0, SumIs
  <2>2. T # {} => Chosen(T) \in T
    BY ChosenIs
  <2>3. T # {} => Sum(g, T \ {Chosen(T)}) \in Int
    BY <1>1, <2>2
  <2> QED
    BY <2>1, <2>2, <2>3
<1> HIDE DEF Good
<1>2. \A T \in SUBSET S : T \in Good
  BY <1>1, FiniteInduction
<1> QED
  BY <1>0, <1>2 DEF Good

\* Chosen element may be taken out first.
LEMMA SumTake ==
  ASSUME NEW g, NEW S, IsFiniteSet(S), \A x \in S : g[x] \in Int, NEW x \in S
  PROVE  Sum(g, S) = g[x] + Sum(g, S \ {x})
<1> DEFINE Good == {T \in SUBSET S : \A y \in T : Sum(g, T) = g[y] + Sum(g, T \ {y})}
<1>0. \A T \in SUBSET S : IsFiniteSet(T) /\ Sum(g, T) \in Int
  BY SumInt
<1>1. ASSUME NEW T \in SUBSET S, \A y \in T : T \ {y} \in Good
      PROVE  T \in Good
  <2> SUFFICES ASSUME NEW y \in T
               PROVE  Sum(g, T) = g[y] + Sum(g, T \ {y})
    OBVIOUS
  <2> DEFINE z == Chosen(T)
  <2>1. z \in T
    BY ChosenIs
  <2>2. Sum(g, T) = g[z] + Sum(g, T \ {z})
    BY <1>0, SumIs
  <2> HIDE DEF z
  <2>3. CASE y = z
    BY <2>2, <2>3
  <2>4. CASE y # z
    <3>1. y \in T \ {z} /\ z \in T \ {y} /\ (T \ {z}) \ {y} = (T \ {y}) \ {z}
      BY <2>1, <2>4
    <3>2. Sum(g, T \ {z}) = g[y] + Sum(g, (T \ {z}) \ {y})
      BY <1>1, <2>1, <3>1
    <3>3. Sum(g, T \ {y}) = g[z] + Sum(g, (T \ {y}) \ {z})
      BY <1>1, <3>1
    <3>4. g[y] \in Int /\ g[z] \in Int
      BY <2>1
    <3>5. Sum(g, (T \ {y}) \ {z}) \in Int /\ Sum(g, (T \ {z}) \ {y}) = Sum(g, (T \ {y}) \ {z})
      BY <1>0, <3>1
    <3> QED
      BY <2>2, <3>2, <3>3, <3>4, <3>5
  <2> QED
    BY <2>3, <2>4
<1> HIDE DEF Good
<1>2. \A T \in SUBSET S : T \in Good
  BY <1>1, FiniteInduction
<1> QED
  BY <1>2 DEF Good

LEMMA SumAdd ==
  ASSUME NEW g, NEW S, IsFiniteSet(S), \A x \in S : g[x] \in Int, NEW y, y \notin S, g[y] \in Int
  PROVE  Sum(g, S \cup {y}) = Sum(g, S) + g[y]
<1> DEFINE T == S \cup {y}
<1>1. IsFiniteSet(T)
  BY FS_AddElement
<1>2. y \in T /\ T \ {y} = S /\ \A x \in T : g[x] \in Int
  OBVIOUS
<1>3. Sum(g, S) \in Int
  BY SumInt
<1> HIDE DEF T
<1>4. Sum(g, T) = g[y] + Sum(g, T \ {y})
  BY <1>1, <1>2, SumTake
<1>5. Sum(g, T) = Sum(g, S) + g[y]
  <2>1. Sum(g, T \ {y}) = Sum(g, S)
    BY <1>2
  <2> QED
    BY <1>3, <1>4, <2>1
<1> QED
  BY <1>5 DEF T

\* A greater summand makes a greater sum.
LEMMA SumLess ==
  ASSUME NEW g, NEW h, NEW S, IsFiniteSet(S),
         \A x \in S : g[x] \in Int /\ h[x] \in Int /\ g[x] <= h[x]
  PROVE  /\ Sum(g, S) <= Sum(h, S)
         /\ Sum(g, S) = Sum(h, S) => \A x \in S : g[x] = h[x]
<1> DEFINE Good == {T \in SUBSET S :
                      /\ Sum(g, T) <= Sum(h, T)
                      /\ Sum(g, T) = Sum(h, T) => \A x \in T : g[x] = h[x]}
<1>0. \A T \in SUBSET S : IsFiniteSet(T) /\ Sum(g, T) \in Int /\ Sum(h, T) \in Int
  BY SumInt
<1>1. ASSUME NEW T \in SUBSET S, \A y \in T : T \ {y} \in Good
      PROVE  T \in Good
  <2>1. ASSUME NEW y \in T
        PROVE  /\ Sum(g, T) <= Sum(h, T)
               /\ Sum(g, T) = Sum(h, T) => g[y] = h[y]
    <3>1. Sum(g, T) = g[y] + Sum(g, T \ {y})
      BY <1>0, SumTake
    <3>2. Sum(h, T) = h[y] + Sum(h, T \ {y})
      BY <1>0, SumTake
    <3>3. Sum(g, T \ {y}) <= Sum(h, T \ {y})
      BY <1>1
    <3>4. /\ Sum(g, T \ {y}) \in Int /\ Sum(h, T \ {y}) \in Int
          /\ g[y] \in Int /\ h[y] \in Int /\ g[y] <= h[y]
      BY <1>0
    <3> QED
      BY <3>1, <3>2, <3>3, <3>4
  <2>2. CASE T = {}
    <3>1. Sum(g, T) = 0 /\ Sum(h, T) = 0
      BY <1>0, <2>2, SumIs
    <3> QED
      BY <2>2, <3>1
  <2> QED
    BY <2>1, <2>2
<1> HIDE DEF Good
<1>2. \A T \in SUBSET S : T \in Good
  BY <1>1, FiniteInduction
<1> QED
  BY <1>2 DEF Good

LEMMA SumSame ==
  ASSUME NEW g, NEW h, NEW S, IsFiniteSet(S), \A x \in S : g[x] \in Int /\ g[x] = h[x]
  PROVE  Sum(g, S) = Sum(h, S)
<1>1. \A x \in S : g[x] \in Int /\ h[x] \in Int /\ g[x] <= h[x] /\ h[x] <= g[x]
  OBVIOUS
<1>2. Sum(g, S) <= Sum(h, S) /\ Sum(h, S) <= Sum(g, S)
  BY <1>1, SumLess
<1>3. Sum(g, S) \in Int /\ Sum(h, S) \in Int
  BY <1>1, SumInt
<1> QED
  BY <1>2, <1>3

\* One summand changes.
LEMMA SumAt ==
  ASSUME NEW g, NEW h, NEW S, IsFiniteSet(S), NEW y \in S,
         \A x \in S : g[x] \in Int /\ h[x] \in Int /\ (x # y => h[x] = g[x])
  PROVE  Sum(h, S) = Sum(g, S) + (h[y] - g[y])
<1>1. Sum(g, S) = g[y] + Sum(g, S \ {y})
  BY SumTake
<1>2. Sum(h, S) = h[y] + Sum(h, S \ {y})
  BY SumTake
<1>3. IsFiniteSet(S \ {y}) /\ Sum(g, S \ {y}) \in Int
  BY SumInt
<1>4. Sum(g, S \ {y}) = Sum(h, S \ {y})
  <2> DEFINE T == S \ {y}
  <2>1. IsFiniteSet(T) /\ \A x \in T : g[x] \in Int /\ g[x] = h[x]
    BY <1>3
  <2> HIDE DEF T
  <2>2. Sum(g, T) = Sum(h, T)
    BY <2>1, SumSame
  <2> QED
    BY <2>2 DEF T
<1>5. g[y] \in Int /\ h[y] \in Int
  OBVIOUS
<1> QED
  BY <1>1, <1>2, <1>3, <1>4, <1>5

LEMMA SumSplit ==
  ASSUME NEW g, NEW S, IsFiniteSet(S), \A x \in S : g[x] \in Int, NEW R
  PROVE  Sum(g, S) = Sum(g, S \cap R) + Sum(g, S \ R)
<1> DEFINE Good == {T \in SUBSET S : Sum(g, T) = Sum(g, T \cap R) + Sum(g, T \ R)}
<1>0. \A T \in SUBSET S : IsFiniteSet(T) /\ Sum(g, T) \in Int
  BY SumInt
<1>1. ASSUME NEW T \in SUBSET S, \A y \in T : T \ {y} \in Good
      PROVE  T \in Good
  <2>1. CASE T = {}
    <3>1. T \cap R = {} /\ T \ R = {} /\ Sum(g, {}) = 0
      BY <1>0, <2>1, SumIs
    <3> QED
      BY <2>1, <3>1
  <2>2. CASE T # {}
    <3>1. PICK y \in T : TRUE
      BY <2>2
    <3>2. Sum(g, T) = g[y] + Sum(g, T \ {y})
      BY <1>0, SumTake
    <3>3. Sum(g, T \ {y}) = Sum(g, (T \ {y}) \cap R) + Sum(g, (T \ {y}) \ R)
      BY <1>1
    <3>4. T \cap R \in SUBSET S /\ T \ R \in SUBSET S
          /\ (T \ {y}) \cap R \in SUBSET S /\ (T \ {y}) \ R \in SUBSET S
      OBVIOUS
    <3>5. CASE y \in R
      <4>1. y \in T \cap R /\ (T \ {y}) \cap R = (T \cap R) \ {y} /\ (T \ {y}) \ R = T \ R
        BY <3>5
      <4>2. Sum(g, T \cap R) = g[y] + Sum(g, (T \cap R) \ {y})
        BY <1>0, <3>4, <4>1, SumTake
      <4>3. Sum(g, T \ {y}) = Sum(g, (T \cap R) \ {y}) + Sum(g, T \ R)
        BY <3>3, <4>1
      <4>4. Sum(g, (T \cap R) \ {y}) \in Int /\ Sum(g, T \ R) \in Int /\ g[y] \in Int
        BY <1>0, <3>4, <4>1
      <4> QED
        BY <3>2, <4>2, <4>3, <4>4
    <3>6. CASE y \notin R
      <4>1. y \in T \ R /\ (T \ {y}) \ R = (T \ R) \ {y} /\ (T \ {y}) \cap R = T \cap R
        BY <3>6
      <4>2. Sum(g, T \ R) = g[y] + Sum(g, (T \ R) \ {y})
        BY <1>0, <3>4, <4>1, SumTake
      <4>3. Sum(g, T \ {y}) = Sum(g, T \cap R) + Sum(g, (T \ R) \ {y})
        BY <3>3, <4>1
      <4>4. Sum(g, (T \ R) \ {y}) \in Int /\ Sum(g, T \cap R) \in Int /\ g[y] \in Int
        BY <1>0, <3>4, <4>1
      <4> QED
        BY <3>2, <4>2, <4>3, <4>4
    <3> QED
      BY <3>5, <3>6
  <2> QED
    BY <2>1, <2>2
<1> HIDE DEF Good
<1>2. \A T \in SUBSET S : T \in Good
  BY <1>1, FiniteInduction
<1> QED
  BY <1>2 DEF Good

LEMMA SumZero ==
  ASSUME NEW g, NEW S, IsFiniteSet(S), \A x \in S : g[x] = 0
  PROVE  Sum(g, S) = 0
<1> DEFINE Good == {T \in SUBSET S : Sum(g, T) = 0}
<1>0. \A T \in SUBSET S : IsFiniteSet(T)
  BY FS_Subset
<1>1. ASSUME NEW T \in SUBSET S, \A y \in T : T \ {y} \in Good
      PROVE  T \in Good
  <2>1. Sum(g, T) = IF T = {} THEN 0 ELSE g[Chosen(T)] + Sum(g, T \ {Chosen(T)})
    BY <1>0, SumIs
  <2>2. T # {} => Chosen(T) \in T
    BY ChosenIs
  <2>3. T # {} => g[Chosen(T)] = 0 /\ Sum(g, T \ {Chosen(T)}) = 0
    BY <1>1, <2>2
  <2> QED
    BY <2>1, <2>3
<1> HIDE DEF Good
<1>2. \A T \in SUBSET S : T \in Good
  BY <1>1, FiniteInduction
<1> QED
  BY <1>2 DEF Good

\* The same summands, found elsewhere, with their sign or against it.
LEMMA SumMap ==
  ASSUME NEW g, NEW h, NEW S, IsFiniteSet(S), NEW f, NEW sign \in {1, -1},
         \A x, y \in S : f[x] = f[y] => x = y,
         \A x \in S : g[x] \in Int /\ h[f[x]] \in Int /\ h[f[x]] = sign * g[x]
  PROVE  /\ IsFiniteSet({f[x] : x \in S})
         /\ Sum(h, {f[x] : x \in S}) = sign * Sum(g, S)
<1> DEFINE Good == {T \in SUBSET S :
                      /\ IsFiniteSet({f[x] : x \in T})
                      /\ Sum(h, {f[x] : x \in T}) = sign * Sum(g, T)}
<1>0. \A T \in SUBSET S : IsFiniteSet(T) /\ Sum(g, T) \in Int
  BY SumInt
<1>1. ASSUME NEW T \in SUBSET S, \A y \in T : T \ {y} \in Good
      PROVE  T \in Good
  <2>1. CASE T = {}
    <3>1. {f[x] : x \in T} = {} /\ IsFiniteSet({})
      BY <2>1, FS_EmptySet
    <3>2. Sum(h, {}) = 0 /\ Sum(g, {}) = 0
      BY <3>1, SumIs
    <3> QED
      BY <2>1, <3>1, <3>2
  <2>2. CASE T # {}
    <3>1. PICK y \in T : TRUE
      BY <2>2
    <3> DEFINE U == {f[x] : x \in T \ {y}}
    <3>2. IsFiniteSet(U) /\ Sum(h, U) = sign * Sum(g, T \ {y})
      BY <1>1
    <3>3. {f[x] : x \in T} = U \cup {f[y]} /\ f[y] \notin U /\ \A u \in U : h[u] \in Int
      OBVIOUS
    <3>4. Sum(g, T) = g[y] + Sum(g, T \ {y})
      BY <1>0, SumTake
    <3>5. Sum(g, T \ {y}) \in Int /\ g[y] \in Int /\ h[f[y]] = sign * g[y] /\ h[f[y]] \in Int
      BY <1>0
    <3> HIDE DEF U
    <3>6. IsFiniteSet(U \cup {f[y]})
      BY <3>2, FS_AddElement
    <3>7. Sum(h, U \cup {f[y]}) = Sum(h, U) + h[f[y]]
      BY <3>2, <3>3, <3>5, SumAdd
    <3>8. sign * Sum(g, T) = sign * Sum(g, T \ {y}) + sign * g[y]
      <4>1. sign = 1 \/ sign = -1
        OBVIOUS
      <4> QED
        BY <3>4, <3>5, <4>1
    <3> QED
      BY <3>2, <3>3, <3>5, <3>6, <3>7, <3>8
  <2> QED
    BY <2>1, <2>2
<1> HIDE DEF Good
<1>2. \A T \in SUBSET S : T \in Good
  BY <1>1, FiniteInduction
<1> QED
  BY <1>2 DEF Good

\* None of a sum's summands is more than it, if none is negative.
LEMMA SumHolds ==
  ASSUME NEW g, NEW S, IsFiniteSet(S), \A x \in S : g[x] \in Nat
  PROVE  Sum(g, S) \in Nat /\ \A x \in S : g[x] <= Sum(g, S)
<1>1. \A T \in SUBSET S : Sum(g, T) >= 0
  <2> SUFFICES ASSUME NEW T \in SUBSET S PROVE Sum(g, T) >= 0
    OBVIOUS
  <2> DEFINE z == [x \in S |-> 0]
  <2>1. IsFiniteSet(T) /\ \A x \in T : z[x] = 0
    BY FS_Subset
  <2>2. \A x \in T : z[x] \in Int /\ g[x] \in Int /\ z[x] <= g[x]
    OBVIOUS
  <2> HIDE DEF z
  <2>3. Sum(z, T) = 0
    BY <2>1, SumZero
  <2>4. Sum(z, T) <= Sum(g, T)
    BY <2>1, <2>2, SumLess
  <2>5. Sum(g, T) \in Int
    BY SumInt
  <2> QED
    BY <2>3, <2>4, <2>5
<1>2. \A T \in SUBSET S : Sum(g, T) \in Int
  BY SumInt
<1>3. ASSUME NEW x \in S PROVE g[x] <= Sum(g, S)
  <2>1. Sum(g, S) = g[x] + Sum(g, S \ {x})
    BY SumTake
  <2>2. Sum(g, S \ {x}) >= 0 /\ Sum(g, S \ {x}) \in Int /\ g[x] \in Nat
    BY <1>1, <1>2
  <2> QED
    BY <2>1, <2>2
<1>4. Sum(g, S) >= 0 /\ Sum(g, S) \in Int
  BY <1>1, <1>2
<1> QED
  BY <1>3, <1>4

LEMMA SumMinus ==
  ASSUME NEW g, NEW h, NEW S, IsFiniteSet(S), \A x \in S : g[x] \in Int /\ h[x] = -g[x]
  PROVE  Sum(h, S) = -Sum(g, S)
<1> DEFINE f == [x \in S |-> x]
<1>1. {f[x] : x \in S} = S /\ \A x, y \in S : f[x] = f[y] => x = y
  OBVIOUS
<1>2. \A x \in S : g[x] \in Int /\ h[f[x]] \in Int /\ h[f[x]] = -1 * g[x]
  OBVIOUS
<1>3. -1 \in {1, -1} /\ Sum(g, S) \in Int
  BY SumInt
<1> HIDE DEF f
<1>4. Sum(h, {f[x] : x \in S}) = -1 * Sum(g, S)
  BY <1>1, <1>2, <1>3, SumMap
<1>5. Sum(h, S) = -1 * Sum(g, S)
  BY <1>1, <1>4
<1> QED
  BY <1>3, <1>5

LEMMA SumPart ==
  ASSUME NEW g, NEW S, IsFiniteSet(S), \A x \in S : g[x] \in Int, NEW R \in SUBSET S
  PROVE  Sum(g, S) = Sum(g, R) + Sum(g, S \ R)
<1>1. Sum(g, S) = Sum(g, S \cap R) + Sum(g, S \ R)
  BY SumSplit
<1>2. S \cap R = R
  OBVIOUS
<1> QED
  BY <1>1, <1>2

-----------------------------------------------------------------------------
(* The books of the network. *)

NetArc == DOMAIN Network

From(R) == {a \in NetArc : a[1] \in R}
Leaving(R) == {a \in NetArc : a[1] \in R /\ a[2] \notin R}

LEMMA BackIs == \A a : a = <<a[1], a[2]>> => Back(a) = <<a[2], a[1]>> /\ Back(Back(a)) = a
BY DEF Back

LEMMA NetArcs ==
  ASSUME value \in [Children -> Nat]
  PROVE  /\ IsFiniteSet(NetArc)
         /\ \A a \in NetArc : /\ a = <<a[1], a[2]>> /\ a[1] \in Vertices /\ a[2] \in Vertices
                              /\ Back(a) \in NetArc /\ Back(a)[1] = a[2] /\ Back(a)[2] = a[1]
                              /\ Back(Back(a)) = a
                              /\ a \notin DOMAIN Forward => Back(a) \in DOMAIN Forward
<1>1. \A a \in NetArc : a = <<a[1], a[2]>> /\ a[1] \in Vertices /\ a[2] \in Vertices
  BY NetworkIs, NetworkPairs DEF NetArc
<1>2. NetArc = DOMAIN Forward \cup {Back(b) : b \in DOMAIN Forward}
  BY DEF NetArc, Network
<1>3. \A a \in NetArc : Back(a)[1] = a[2] /\ Back(a)[2] = a[1] /\ Back(Back(a)) = a
  BY <1>1 DEF Back
<1>4. \A a \in NetArc : Back(a) \in NetArc /\ (a \notin DOMAIN Forward => Back(a) \in DOMAIN Forward)
  BY <1>2, <1>3
<1>5. IsFiniteSet(NetArc)
  <2>1. IsFiniteSet(Vertices \X Vertices)
    BY VerticesFinite, FS_Product
  <2>2. NetArc \subseteq Vertices \X Vertices
    BY <1>1
  <2> QED
    BY <2>1, <2>2, FS_Subset
<1> QED
  BY <1>1, <1>3, <1>4, <1>5

\* A child's value is less than what a connection carries.
LEMMA ValuesLimited ==
  ASSUME value \in [Children -> Values], value \in [Children -> Nat], NEW c \in Children
  PROVE  value[c] < Unlimited
<1>1. value[c] \in Values \ {Missing} /\ value[c] \in Nat
  BY InputAssumption
<1>2. Len(Child) \in Nat /\ Len(Child) >= 1
  <2>1. PICK i \in 1..Len(Child) : c = Child[i]
    BY ChildIs
  <2> QED
    BY <2>1, ChildIs
<1>3. value[c] * Len(Child) < Unlimited /\ Unlimited \in Nat
  BY <1>1, InputAssumption
<1>4. \A v, n \in Nat : n >= 1 => v * n >= v
  <2> SUFFICES ASSUME NEW v \in Nat, NEW n \in Nat, n >= 1 PROVE v * n >= v
    OBVIOUS
  <2>1. PICK m \in Nat : n = m + 1
    <3>1. n - 1 \in Nat /\ n = (n - 1) + 1
      OBVIOUS
    <3> QED
      BY <3>1
  <2>2. v * (m + 1) = v * m + v /\ v * m \in Nat
    OBVIOUS
  <2> QED
    BY <2>1, <2>2
<1>5. value[c] * Len(Child) >= value[c] /\ value[c] * Len(Child) \in Int
  BY <1>1, <1>2, <1>4
<1> QED
  BY <1>1, <1>3, <1>5

\* What an arc may carry: a child's own what it is worth, a connection
\* anything, and against either nothing but what flows.
LEMMA ArcIs ==
  ASSUME value \in [Children -> Values], value \in [Children -> Nat], NEW a \in NetArc
  PROVE  /\ Network[a] \in Nat
         /\ Network[a] = Unlimited <=> a \in Ends \cup Wired
         /\ a \in Ends \cup Wired => Back(a) \notin Ends \cup Wired
         /\ Network[a] # Unlimited =>
              \/ \E c \in Children : Linked(c) /\ a = <<In(c), Out(c)>> /\ Network[a] = value[c]
              \/ a \notin DOMAIN Forward /\ Network[a] = 0
<1>1. DOMAIN Forward = Ends \cup Wired \cup Own
  BY ForwardIs
<1>2. Network[a] \in Nat /\ Unlimited \in Nat \ {0}
  BY NetworkIs, InputAssumption DEF NetArc
<1>3. a \in Ends \cup Wired => Network[a] = Unlimited
  BY <1>1, ForwardIs, NetworkIs
<1>4. ASSUME a \in Own
      PROVE  \E c \in Children : Linked(c) /\ a = <<In(c), Out(c)>> /\ Network[a] = value[c]
  <2>1. PICK c \in Children : Linked(c) /\ a = <<In(c), Out(c)>>
    BY <1>4, ArcsApart
  <2>2. Forward[a] = value[c] /\ a \in DOMAIN Forward
    BY <2>1, ForwardIs
  <2> QED
    BY <2>1, <2>2, NetworkIs
<1>5. a \in Own => Network[a] # Unlimited
  <2> SUFFICES ASSUME a \in Own PROVE Network[a] # Unlimited
    OBVIOUS
  <2>1. PICK c \in Children : Network[a] = value[c]
    BY <1>4
  <2>2. value[c] < Unlimited /\ value[c] \in Nat
    BY ValuesLimited
  <2> QED
    BY <1>2, <2>1, <2>2
<1>6. a \notin DOMAIN Forward => Network[a] = 0
  BY NetworkIs DEF NetArc
<1>7. a \in Ends \cup Wired => Back(a) \notin Ends \cup Wired
  <2> SUFFICES ASSUME a \in Ends \cup Wired, Back(a) \in Ends \cup Wired PROVE FALSE
    OBVIOUS
  <2>1. \A b \in Ends \cup Wired :
          \/ \E d : b[1] = Source /\ b[2] = In(d)
          \/ \E d : b[1] = Out(d) /\ b[2] = Sink
          \/ \E d, e : b[1] = Out(d) /\ b[2] = In(e)
    BY DEF Ends, Wired
  <2>2. Back(a)[1] = a[2] /\ Back(a)[2] = a[1]
    BY DEF Back
  <2>3. \/ \E d : a[1] = Source /\ a[2] = In(d)
        \/ \E d : a[1] = Out(d) /\ a[2] = Sink
        \/ \E d, e : a[1] = Out(d) /\ a[2] = In(e)
    BY <2>1
  <2>4. \/ \E d : a[2] = Source /\ a[1] = In(d)
        \/ \E d : a[2] = Out(d) /\ a[1] = Sink
        \/ \E d, e : a[2] = Out(d) /\ a[1] = In(e)
    BY <2>1, <2>2
  <2> QED
    BY <2>3, <2>4, VerticesApart
<1> QED
  BY <1>1, <1>2, <1>3, <1>4, <1>5, <1>6, <1>7

\* What flows along every arc, against the arc counting as taken back: what is
\* left of an arc that is not a connection is what it may carry but for that,
\* and nothing is lost between the source and the sink.
Books(g) ==
  /\ g \in [NetArc -> Int]
  /\ \A a \in NetArc : g[Back(a)] = -g[a]
  /\ \A a \in NetArc : Network[a] # Unlimited => cap[a] = Network[a] - g[a]
  /\ \A v \in Vertices :
       Sum(g, From({v})) = IF v = Source THEN flow ELSE IF v = Sink THEN -flow ELSE 0

\* What is given up along an arc is what is left of it the other way.
LEMMA BooksBack ==
  ASSUME NetInv, value \in [Children -> Values], NEW g, Books(g), NEW a \in Ends \cup Wired
  PROVE  a \in NetArc /\ g[a] \in Int /\ Back(a) \in NetArc
         /\ (Back(a) \notin Own => cap[Back(a)] = g[a] /\ g[a] \in Nat)
<1>1. value \in [Children -> Nat]
  BY DEF NetInv
<1>2. a \in NetArc /\ Back(a) \in NetArc
  BY <1>1, ForwardIs, NetworkIs, NetArcs DEF NetArc
<1>3. g[a] \in Int /\ g[Back(a)] = -g[a]
  BY <1>2 DEF Books
<1>4. ASSUME Back(a) \notin Own
      PROVE  cap[Back(a)] = g[a] /\ g[a] \in Nat
  <2>1. Back(a) \notin Ends \cup Wired /\ Network[Back(a)] # Unlimited
    BY <1>1, <1>2, ArcIs
  <2>2. Back(a) \notin DOMAIN Forward
    BY <1>1, <1>4, <2>1, ForwardIs
  <2>3. Network[Back(a)] = 0
    BY <1>2, <1>1, <2>2, NetworkIs DEF NetArc
  <2>4. cap[Back(a)] = Network[Back(a)] - g[Back(a)]
    BY <1>2, <2>1 DEF Books
  <2>5. cap[Back(a)] \in Nat
    BY <1>2 DEF NetInv, NetArc
  <2> QED
    BY <1>3, <2>3, <2>4, <2>5
<1> QED
  BY <1>2, <1>3, <1>4

LEMMA BooksSums ==
  ASSUME NetInv, NEW g, Books(g), flow \in Nat
  PROVE  \A S \in SUBSET NetArc : IsFiniteSet(S) /\ Sum(g, S) \in Int /\ \A a \in S : g[a] \in Int
<1>1. IsFiniteSet(NetArc) /\ \A a \in NetArc : g[a] \in Int
  BY NetArcs DEF NetInv, Books
<1> QED
  BY <1>1, SumInt

\* What flows through a child is more than what flows out of it to any other.
LEMMA FlowsOut ==
  ASSUME NetInv, value \in [Children -> Values], NEW g, Books(g), flow \in Nat,
         NEW a \in Ends \cup Wired, NEW c \in Children, a[1] = Out(c)
  PROVE  /\ Linked(c) /\ <<In(c), Out(c)>> \in NetArc
         /\ g[<<In(c), Out(c)>>] \in Nat
         /\ Back(a) \notin Own => g[a] <= g[<<In(c), Out(c)>>]
<1> DEFINE own == <<In(c), Out(c)>>
           b == Back(own)
           S == From({Out(c)})
<1>1. value \in [Children -> Nat] /\ a \in NetArc
  BY BooksBack DEF NetInv
<1>2. Linked(c)
  <2>1. \/ \E d \in Exit : a = <<Out(d), Sink>>
        \/ \E w \in Wire : a = <<Out(w[1]), In(w[2])>>
        \/ \E d : a = <<Source, In(d)>>
    BY DEF Ends, Wired
  <2>2. \/ c \in Exit
        \/ \E w \in Wire : w[1] = c
    BY <2>1, VerticesApart
  <2> QED
    BY <2>2 DEF Exit, Linked, HasOut
<1>3. own \in Own /\ own \in DOMAIN Forward /\ own \in NetArc /\ Back(own) \in NetArc
  BY <1>1, <1>2, ForwardIs, NetworkIs, NetArcs DEF NetArc
<1>4. b \in S /\ a \in S /\ S \subseteq NetArc /\ b = <<Out(c), In(c)>>
  BY <1>1, <1>3 DEF From, Back
<1>5. IsFiniteSet(S) /\ \A x \in S : g[x] \in Int
  BY <1>4, BooksSums
<1>6. g[own] \in Int /\ g[b] = -g[own]
  BY <1>3 DEF Books
<1>7. Sum(g, S) = 0
  <2>1. Out(c) \in Vertices /\ Out(c) # Source /\ Out(c) # Sink
    BY VerticesApart
  <2> QED
    BY <2>1 DEF Books
<1>8. ASSUME NEW x \in S, x # b
      PROVE  g[x] \in Nat
  <2>1. x \in NetArc /\ x[1] = Out(c)
    BY DEF From
  <2>2. Back(x) \notin Own
    <3> SUFFICES ASSUME Back(x) \in Own PROVE FALSE
      OBVIOUS
    <3>1. PICK d \in Children : Back(x) = <<In(d), Out(d)>>
      BY ArcsApart
    <3>2. x = <<Out(d), In(d)>>
      <4>1. x = Back(Back(x))
        BY <1>1, <2>1, NetArcs
      <4> QED
        BY <3>1, <4>1 DEF Back
    <3>3. Out(d) = Out(c)
      BY <2>1, <3>2
    <3> QED
      BY <1>4, <1>8, <3>2, <3>3, VerticesApart
  <2>3. x \notin Own
    BY <2>1, ArcsApart, VerticesApart
  <2>4. CASE x \in Ends \cup Wired
    BY <2>2, <2>4, BooksBack
  <2>5. CASE x \notin Ends \cup Wired
    <3>1. x \notin DOMAIN Forward
      BY <1>1, <2>3, <2>5, ForwardIs
    <3>2. Back(x) \in Ends \cup Wired
      BY <1>1, <2>1, <2>2, <3>1, NetArcs, ForwardIs
    <3>3. Back(x)[2] = Out(c)
      BY <1>1, <2>1, NetArcs
    <3>4. \/ \E d : Back(x)[2] = In(d)
          \/ Back(x)[2] = Sink
      BY <3>2 DEF Ends, Wired
    <3> QED
      BY <3>3, <3>4, VerticesApart
  <2> QED
    BY <2>4, <2>5
<1>9. Sum(g, S) = g[b] + Sum(g, S \ {b})
  <2> HIDE DEF b, S
  <2> QED
    BY <1>4, <1>5, SumTake
<1>10. /\ Sum(g, S \ {b}) \in Nat
       /\ \A x \in S \ {b} : g[x] <= Sum(g, S \ {b})
  <2> DEFINE T == S \ {b}
  <2>1. IsFiniteSet(T) /\ \A x \in T : g[x] \in Nat
    BY <1>5, <1>8, FS_Subset
  <2> HIDE DEF T
  <2>2. Sum(g, T) \in Nat /\ \A x \in T : g[x] <= Sum(g, T)
    BY <2>1, SumHolds
  <2> QED
    BY <2>2 DEF T
<1>11. Sum(g, S \ {b}) = g[own]
  BY <1>6, <1>7, <1>9, <1>10
<1>12. Back(a) \notin Own => a # b
  BY <1>3, BackIs
<1> QED
  BY <1>2, <1>3, <1>4, <1>10, <1>11, <1>12

\* And what flows into it.
LEMMA FlowsIn ==
  ASSUME NetInv, value \in [Children -> Values], NEW g, Books(g), flow \in Nat,
         NEW a \in Ends \cup Wired, NEW c \in Children, a[2] = In(c), Back(a) \notin Own
  PROVE  /\ Linked(c) /\ <<In(c), Out(c)>> \in NetArc
         /\ g[a] <= g[<<In(c), Out(c)>>]
<1> DEFINE own == <<In(c), Out(c)>>
           S == From({In(c)})
           h == [x \in NetArc |-> -g[x]]
<1>0. \A x \in NetArc : h[x] = -g[x]
  OBVIOUS
<1> HIDE DEF h
<1>1. value \in [Children -> Nat] /\ a \in NetArc
  BY BooksBack DEF NetInv
<1>2. Linked(c)
  <2>1. \/ \E d : a = <<Out(d), Sink>>
        \/ \E w \in Wire : a = <<Out(w[1]), In(w[2])>>
        \/ \E d \in Entry : a = <<Source, In(d)>>
    BY DEF Ends, Wired
  <2>2. \/ c \in Entry
        \/ \E w \in Wire : w[2] = c
    BY <2>1, VerticesApart
  <2> QED
    BY <2>2 DEF Entry, Linked, HasIn
<1>3. own \in Own /\ own \in NetArc
  BY <1>1, <1>2, ForwardIs, NetworkIs DEF NetArc
<1>4. own \in S /\ Back(a) \in S /\ S \subseteq NetArc /\ Back(a) # own
  BY <1>1, <1>3, NetArcs DEF From
<1>5. IsFiniteSet(S) /\ \A x \in S : g[x] \in Int
  BY <1>4, BooksSums
<1>6. g[own] \in Int /\ g[a] \in Int /\ g[Back(a)] = -g[a]
  BY <1>1, <1>3 DEF Books
<1>7. Sum(g, S) = 0
  <2>1. In(c) \in Vertices /\ In(c) # Source /\ In(c) # Sink
    BY VerticesApart
  <2> QED
    BY <2>1 DEF Books
<1>8. ASSUME NEW x \in S, x # own
      PROVE  -g[x] \in Nat
  <2>1. x \in NetArc /\ x[1] = In(c) /\ x = <<x[1], x[2]>>
    BY <1>1, NetArcs DEF From
  <2>2. x \notin Own
    <3> SUFFICES ASSUME x \in Own PROVE FALSE
      OBVIOUS
    <3>1. PICK d \in Children : x = <<In(d), Out(d)>>
      BY ArcsApart
    <3>2. In(d) = In(c)
      BY <2>1, <3>1
    <3> QED
      BY <1>8, <3>1, <3>2, VerticesApart
  <2>3. x \notin Ends \cup Wired
    <3> SUFFICES ASSUME x \in Ends \cup Wired PROVE FALSE
      OBVIOUS
    <3>1. x[1] = Source \/ \E d : x[1] = Out(d)
      BY DEF Ends, Wired
    <3> QED
      BY <2>1, <3>1, VerticesApart
  <2>4. Back(x) \in DOMAIN Forward /\ Back(x)[2] = In(c) /\ Back(Back(x)) = x
    BY <1>1, <2>1, <2>2, <2>3, NetArcs, ForwardIs
  <2>5. Back(x) \notin Own
    BY <2>4, ArcsApart, VerticesApart
  <2>6. Back(x) \in Ends \cup Wired
    BY <1>1, <2>4, <2>5, ForwardIs
  <2>7. g[Back(x)] \in Nat
    BY <2>2, <2>4, <2>6, BooksBack
  <2>8. g[Back(x)] = -g[x]
    BY <2>1 DEF Books
  <2> QED
    BY <2>7, <2>8
<1>9. Sum(g, S) = g[own] + Sum(g, S \ {own})
  <2> HIDE DEF own, S
  <2> QED
    BY <1>4, <1>5, SumTake
<1>10. /\ Sum(g, S \ {own}) \in Int
       /\ \A x \in S \ {own} : -g[x] <= -Sum(g, S \ {own})
  <2> DEFINE T == S \ {own}
  <2>1. IsFiniteSet(T) /\ \A x \in T : h[x] = -g[x] /\ g[x] \in Int /\ -g[x] \in Nat
    BY <1>0, <1>4, <1>5, <1>8, FS_Subset
  <2> HIDE DEF T
  <2>4. Sum(h, T) = -Sum(g, T)
    BY <2>1, SumMinus
  <2>5. \A x \in T : h[x] \in Nat
    BY <2>1
  <2>6. Sum(h, T) \in Nat /\ \A x \in T : h[x] <= Sum(h, T)
    BY <2>1, <2>5, SumHolds
  <2>7. Sum(g, T) \in Int
    BY <2>1, SumInt
  <2> QED
    BY <2>1, <2>4, <2>6, <2>7 DEF T
<1>11. -Sum(g, S \ {own}) = g[own]
  BY <1>6, <1>7, <1>9, <1>10
<1>12. Back(a) \in S \ {own} /\ -g[Back(a)] = g[a]
  BY <1>4, <1>6
<1> QED
  BY <1>2, <1>3, <1>10, <1>11, <1>12

\* So no arc but a connection is ever left with more than a child's value.
LEMMA BooksLimited ==
  ASSUME NetInv, value \in [Children -> Values], NEW g, Books(g), flow \in Nat,
         NEW a \in NetArc, Network[a] # Unlimited
  PROVE  cap[a] < Unlimited
<1>1. value \in [Children -> Nat]
  BY DEF NetInv
<1>2. a \notin Ends \cup Wired /\ cap[a] \in Nat /\ cap[a] = Network[a] - g[a] /\ g[a] \in Int
  BY <1>1, ArcIs DEF NetInv, Books, NetArc
<1>3. \A c \in Children : value[c] < Unlimited /\ value[c] \in Nat
  BY <1>1, ValuesLimited
<1>4. Unlimited \in Nat \ {0}
  BY InputAssumption
<1>5. Back(a) \in NetArc /\ Back(Back(a)) = a /\ g[Back(a)] = -g[a]
      /\ Back(a)[1] = a[2] /\ Back(a)[2] = a[1] /\ g[Back(a)] \in Int
  BY <1>1, NetArcs DEF Books
<1>6. ASSUME NEW c \in Children, <<In(c), Out(c)>> \in NetArc, Linked(c)
      PROVE  g[<<In(c), Out(c)>>] <= value[c] /\ g[<<In(c), Out(c)>>] \in Int
  <2> DEFINE own == <<In(c), Out(c)>>
  <2>1. own \in Own /\ own \notin Ends \cup Wired
    BY <1>6, ArcsApart DEF Own
  <2>2. Network[own] = value[c]
    BY <1>1, <1>6, ForwardIs, NetworkIs
  <2>3. cap[own] = Network[own] - g[own] /\ cap[own] \in Nat /\ g[own] \in Int
    BY <1>1, <1>6, <2>1, ArcIs DEF NetInv, Books, NetArc
  <2> QED
    BY <1>3, <2>2, <2>3
<1>7. CASE a \in Own
  <2>1. PICK c \in Children : Linked(c) /\ a = <<In(c), Out(c)>>
    BY <1>7, ArcsApart
  <2>2. Network[a] = value[c]
    BY <1>1, <2>1, ForwardIs, NetworkIs
  <2>3. g[a] \in Nat
    <3>1. PICK b \in Ends \cup Wired : b[1] = Out(c)
      <4>1. CASE HasOut(c)
        <5>1. PICK w \in Wire : w[1] = c
          BY <4>1 DEF HasOut
        <5>2. <<Out(c), In(w[2])>> \in Wired
          BY <5>1 DEF Wired
        <5> QED
          BY <5>2
      <4>2. CASE ~HasOut(c)
        <5>1. c \in Exit
          BY <2>1, <4>2 DEF Linked, Exit
        <5>2. <<Out(c), Sink>> \in Ends
          BY <5>1 DEF Ends
        <5> QED
          BY <5>2
      <4> QED
        BY <4>1, <4>2
    <3> QED
      BY <2>1, <3>1, FlowsOut
  <2>4. cap[a] <= value[c]
    BY <1>2, <1>3, <2>2, <2>3
  <2> QED
    BY <1>2, <1>3, <1>4, <2>4
<1>8. CASE a \notin Own
  <2>1. Network[a] = 0 /\ cap[a] = g[Back(a)]
    <3>1. a \notin DOMAIN Forward
      BY <1>1, <1>2, <1>8, ForwardIs
    <3>2. Network[a] = 0
      BY <1>1, <3>1, NetworkIs DEF NetArc
    <3> QED
      BY <1>2, <1>5, <3>2
  <2>2. Back(a) \in Ends \cup Wired \cup Own
    BY <1>1, <1>2, <1>8, NetArcs, ForwardIs
  <2>3. CASE Back(a) \in Own
    <3>1. PICK c \in Children : Linked(c) /\ Back(a) = <<In(c), Out(c)>>
      BY <2>3, ArcsApart
    <3>2. g[Back(a)] <= value[c]
      BY <1>5, <1>6, <3>1
    <3> QED
      BY <1>2, <1>3, <1>4, <2>1, <3>1, <3>2
  <2>4. CASE Back(a) \in Ends \cup Wired
    <3>1. Back(Back(a)) \notin Own
      BY <1>5, <1>8
    <3>2. \E c \in Children : Back(a)[1] = Out(c) \/ Back(a)[2] = In(c)
      BY <2>4 DEF Ends, Wired, Wire, Entry, Exit
    <3>3. PICK c \in Children : Back(a)[1] = Out(c) \/ Back(a)[2] = In(c)
      BY <3>2
    <3>4. /\ Linked(c) /\ <<In(c), Out(c)>> \in NetArc
          /\ g[Back(a)] <= g[<<In(c), Out(c)>>]
      BY <2>4, <3>1, <3>3, FlowsOut, FlowsIn
    <3>5. g[<<In(c), Out(c)>>] <= value[c] /\ g[<<In(c), Out(c)>>] \in Int
      BY <1>6, <3>4
    <3>6. g[Back(a)] <= value[c]
      BY <1>3, <1>5, <3>4, <3>5
    <3> QED
      BY <1>2, <1>3, <1>4, <2>1, <3>6
  <2> QED
    BY <2>2, <2>3, <2>4
<1> QED
  BY <1>7, <1>8

\* What is given up and what is taken by a set of vertices without the sink
\* is what has flowed out of the source.
LEMMA FlowFromSet ==
  ASSUME NetInv, NEW g, Books(g), flow \in Nat, NEW R \in SUBSET Vertices, Source \in R, Sink \notin R
  PROVE  Sum(g, From(R)) = flow
<1> DEFINE Due(T) == IF Source \in T THEN IF Sink \in T THEN 0 ELSE flow
                     ELSE IF Sink \in T THEN -flow ELSE 0
           Good == {T \in SUBSET Vertices : Sum(g, From(T)) = Due(T)}
<1>1. \A T : From(T) \in SUBSET NetArc
  BY DEF From
<1>2. \A T : IsFiniteSet(From(T)) /\ Sum(g, From(T)) \in Int /\ \A a \in From(T) : g[a] \in Int
  BY <1>1, BooksSums
<1>3. Source # Sink
  BY VerticesApart
<1>4. ASSUME NEW T \in SUBSET Vertices, \A v \in T : T \ {v} \in Good
      PROVE  T \in Good
  <2>1. CASE T = {}
    <3>1. From(T) = {} /\ Due(T) = 0
      BY <2>1 DEF From
    <3>2. Sum(g, From(T)) = 0
      BY <1>2, <3>1, SumIs
    <3> QED
      BY <3>1, <3>2
  <2>2. CASE T # {}
    <3>1. PICK v \in T : TRUE
      BY <2>2
    <3>2. Sum(g, From(T)) = Sum(g, From({v})) + Sum(g, From(T) \ From({v}))
      <4> DEFINE S == From(T)
                 W == From({v})
      <4>1. IsFiniteSet(S) /\ \A a \in S : g[a] \in Int
        BY <1>2
      <4>2. W \in SUBSET S
        BY DEF From
      <4> HIDE DEF S, W
      <4>3. Sum(g, S) = Sum(g, W) + Sum(g, S \ W)
        BY <4>1, <4>2, SumPart
      <4> QED
        BY <4>3 DEF S, W
    <3>3. From(T) \ From({v}) = From(T \ {v})
      BY DEF From
    <3>4. Sum(g, From({v})) = IF v = Source THEN flow ELSE IF v = Sink THEN -flow ELSE 0
      BY DEF Books
    <3>5. Sum(g, From(T \ {v})) = Due(T \ {v})
      BY <1>4
    <3>6. Due(T) = (IF v = Source THEN flow ELSE IF v = Sink THEN -flow ELSE 0) + Due(T \ {v})
      BY <1>3
    <3> HIDE DEF Due
    <3>7. Sum(g, From(T)) = Sum(g, From({v})) + Sum(g, From(T \ {v}))
      BY <3>2, <3>3
    <3> QED
      BY <3>4, <3>5, <3>6, <3>7
  <2> QED
    BY <2>1, <2>2
<1>5. Due(R) = flow
  OBVIOUS
<1> HIDE DEF Good, Due
<1>6. \A T \in SUBSET Vertices : T \in Good
  BY <1>4, VerticesFinite, FiniteInduction
<1> QED
  BY <1>5, <1>6 DEF Good

\* What flows within the set cancels out.
LEMMA FlowAcross ==
  ASSUME NetInv, NEW g, Books(g), flow \in Nat, NEW R \in SUBSET Vertices, Source \in R, Sink \notin R
  PROVE  Sum(g, Leaving(R)) = flow
<1> DEFINE S == From(R)
           L == Leaving(R)
           W == {a \in NetArc : a[1] \in R /\ a[2] \in R}
           f == [a \in NetArc |-> Back(a)]
<1>1. S \in SUBSET NetArc /\ W \in SUBSET NetArc /\ L \in SUBSET S /\ S \ L = W
  BY DEF From, Leaving
<1>2. /\ IsFiniteSet(S) /\ \A a \in S : g[a] \in Int
      /\ IsFiniteSet(W) /\ Sum(g, W) \in Int /\ \A a \in W : g[a] \in Int
      /\ Sum(g, L) \in Int
  BY <1>1, BooksSums
<1>3. Sum(g, S) = Sum(g, L) + Sum(g, W)
  <2> HIDE DEF S, L, W
  <2>1. Sum(g, S) = Sum(g, L) + Sum(g, S \ L)
    BY <1>1, <1>2, SumPart
  <2> QED
    BY <1>1, <2>1
<1>4. Sum(g, W) = -Sum(g, W)
  <2>1. \A a \in NetArc : Back(a) \in NetArc /\ Back(Back(a)) = a /\ Back(a)[1] = a[2] /\ Back(a)[2] = a[1]
                          /\ g[Back(a)] = -g[a] /\ g[a] \in Int
    BY NetArcs DEF NetInv, Books
  <2>2. {f[a] : a \in W} = W
    <3>1. \A a \in W : Back(a) \in W
      BY <2>1
    <3>2. \A a \in W : f[a] = Back(a) /\ f[Back(a)] = a
      BY <2>1
    <3> HIDE DEF f, W
    <3> QED
      BY <3>1, <3>2
  <2>3. \A a, b \in W : f[a] = f[b] => a = b
    <3>1. \A a \in W : f[a] = Back(a) /\ Back(Back(a)) = a
      BY <2>1
    <3> HIDE DEF f, W
    <3> QED
      BY <3>1
  <2>4. \A a \in W : g[a] \in Int /\ g[f[a]] \in Int /\ g[f[a]] = -1 * g[a]
    <3> SUFFICES ASSUME NEW a \in W PROVE g[a] \in Int /\ g[f[a]] \in Int /\ g[f[a]] = -1 * g[a]
      OBVIOUS
    <3>1. f[a] = Back(a) /\ g[Back(a)] = -g[a] /\ g[a] \in Int
      BY <2>1
    <3> HIDE DEF f
    <3> QED
      BY <3>1
  <2>5. -1 \in {1, -1}
    OBVIOUS
  <2> HIDE DEF f, W
  <2>6. Sum(g, {f[a] : a \in W}) = -1 * Sum(g, W)
    BY <1>2, <2>3, <2>4, <2>5, SumMap
  <2>7. Sum(g, W) = -1 * Sum(g, W)
    BY <2>2, <2>6
  <2> QED
    BY <1>2, <2>7
<1>5. Sum(g, S) = flow
  BY FlowFromSet
<1> HIDE DEF S, L, W
<1>6. Sum(g, L) = flow
  BY <1>2, <1>3, <1>4, <1>5
<1> QED
  BY <1>6 DEF L

\* No more has flowed than the arcs that leave such a set may carry, and just
\* that when none of them can take more.
LEMMA FlowIsLimited ==
  ASSUME NetInv, value \in [Children -> Values], NEW g, Books(g), flow \in Nat,
         NEW R \in SUBSET Vertices, Source \in R, Sink \notin R,
         \A a \in Leaving(R) : Network[a] # Unlimited
  PROVE  /\ flow <= Sum(Network, Leaving(R))
         /\ flow = Sum(Network, Leaving(R)) <=> \A a \in Leaving(R) : ~Open(a)
<1> DEFINE L == Leaving(R)
<1>1. \A a \in L : g[a] \in Int /\ Network[a] \in Int /\ cap[a] \in Nat /\ cap[a] = Network[a] - g[a]
  <2> SUFFICES ASSUME NEW a \in L
               PROVE  g[a] \in Int /\ Network[a] \in Int /\ cap[a] \in Nat /\ cap[a] = Network[a] - g[a]
    OBVIOUS
  <2>1. a \in NetArc
    BY DEF Leaving
  <2>2. value \in [Children -> Nat] /\ Network[a] \in Nat
    BY <2>1, ArcIs DEF NetInv
  <2> QED
    BY <2>1, <2>2 DEF NetInv, Books, NetArc
<1>2. L \in SUBSET NetArc
  BY DEF Leaving
<1>3. IsFiniteSet(L) /\ Sum(g, L) = flow
  BY <1>2, BooksSums, FlowAcross
<1> HIDE DEF L
<1>4. \A a \in L : g[a] \in Int /\ Network[a] \in Int /\ g[a] <= Network[a]
  BY <1>1
<1>5. /\ Sum(g, L) <= Sum(Network, L)
      /\ Sum(g, L) = Sum(Network, L) => \A a \in L : g[a] = Network[a]
  BY <1>3, <1>4, SumLess
<1>6. (\A a \in L : g[a] = Network[a]) => Sum(g, L) = Sum(Network, L)
  BY <1>1, <1>3, SumSame
<1>7. \A a \in L : ~Open(a) <=> g[a] = Network[a]
  BY <1>1 DEF Open
<1> QED
  BY <1>3, <1>5, <1>6, <1>7 DEF L

\* The children a set of vertices leaves on the inside.
Between(R) == {c \in Children : In(c) \in R /\ Out(c) \notin R}

\* Of the arcs that leave a set, if no connection does, only the children's
\* own carry anything.
LEMMA WorthOfLeaving ==
  ASSUME NetInv, value \in [Children -> Values], NEW R \in SUBSET Vertices,
         \A a \in Leaving(R) : Network[a] # Unlimited,
         \A c \in Between(R) : Linked(c)
  PROVE  IsFiniteSet(Between(R)) /\ Sum(Network, Leaving(R)) = Sum(value, Between(R))
<1> DEFINE L == Leaving(R)
           B == Between(R)
           f == [c \in Children |-> <<In(c), Out(c)>>]
           M == {f[c] : c \in B}
<1>1. value \in [Children -> Nat]
  BY DEF NetInv
<1>2. B \subseteq Children /\ IsFiniteSet(B)
  BY ChildIs, FS_Subset DEF Between
<1>3. L \subseteq NetArc /\ IsFiniteSet(L) /\ \A a \in L : Network[a] \in Int
  BY <1>1, NetArcs, ArcIs, FS_Subset DEF Leaving
<1>4. \A c \in Children : f[c] = <<In(c), Out(c)>>
  OBVIOUS
<1>5. \A c \in B : f[c] \in L /\ Network[f[c]] = value[c] /\ value[c] \in Nat
  <2> SUFFICES ASSUME NEW c \in B PROVE f[c] \in L /\ Network[f[c]] = value[c] /\ value[c] \in Nat
    OBVIOUS
  <2>1. Linked(c) /\ c \in Children /\ In(c) \in R /\ Out(c) \notin R
    BY DEF Between
  <2>2. <<In(c), Out(c)>> \in NetArc /\ Network[<<In(c), Out(c)>>] = value[c]
    BY <1>1, <2>1, ForwardIs, NetworkIs DEF NetArc
  <2> QED
    BY <1>1, <1>4, <2>1, <2>2 DEF Leaving
<1>6. \A c, d \in B : f[c] = f[d] => c = d
  BY <1>2, <1>4, VerticesApart
<1>7. \A a \in L \ M : Network[a] = 0
  <2> SUFFICES ASSUME NEW a \in L, a \notin M PROVE Network[a] = 0
    OBVIOUS
  <2>1. a \in NetArc /\ a[1] \in R /\ a[2] \notin R /\ Network[a] # Unlimited
    BY DEF Leaving
  <2>2. ASSUME NEW c \in Children, a = <<In(c), Out(c)>> PROVE FALSE
    <3>1. c \in B
      BY <2>1, <2>2 DEF Between
    <3>2. a = f[c]
      BY <1>4, <2>2
    <3> QED
      BY <3>1, <3>2
  <2> QED
    BY <1>1, <2>1, <2>2, ArcIs
<1> HIDE DEF L, B, f
<1>8. M \in SUBSET L
  BY <1>5
<1>9. Sum(Network, L) = Sum(Network, M) + Sum(Network, L \ M)
  <2> HIDE DEF M
  <2> QED
    BY <1>3, <1>8, SumPart
<1>10. Sum(Network, M) = Sum(value, B)
  <2>1. 1 \in {1, -1} /\ \A c \in B : value[c] \in Int /\ Network[f[c]] \in Int /\ Network[f[c]] = 1 * value[c]
    BY <1>5
  <2>2. Sum(Network, M) = 1 * Sum(value, B)
    BY <1>2, <1>6, <2>1, SumMap
  <2>3. Sum(value, B) \in Int
    BY <1>2, <1>5, SumInt
  <2> QED
    BY <2>2, <2>3
<1>11. Sum(Network, L \ M) = 0
  <2> DEFINE Z == L \ M
  <2>1. IsFiniteSet(Z) /\ \A a \in Z : Network[a] = 0
    BY <1>3, <1>7, FS_Subset
  <2> HIDE DEF Z
  <2>2. Sum(Network, Z) = 0
    BY <2>1, SumZero
  <2> QED
    BY <2>2 DEF Z
<1>12. Sum(value, B) \in Int
  BY <1>2, <1>5, SumInt
<1> HIDE DEF M
<1> QED
  BY <1>2, <1>9, <1>10, <1>11, <1>12 DEF L, B

-----------------------------------------------------------------------------
(* The invariant the books are kept by. *)

\* The search goes from layer to layer, and leaves none out.
Layers ==
  /\ level \in [Vertices -> Int]
  /\ \A v \in Vertices :
       level[v] >= -1 /\ \A i \in 0..level[v] : \E u \in Vertices : level[u] = i

\* The calls of dfs go one layer further each, along arcs that take more.
Ladder ==
  /\ \A i \in 1..Len(path) : level[path[i]] = i - 1
  /\ \A i \in 1..(Len(path) - 1) : Open(<<path[i], path[i + 1]>>)

BooksInv ==
  /\ Layers
  /\ ~Called => cap = <<>>
  /\ pc # "dfs" => path = <<>>
  /\ dead \subseteq DOMAIN cap
  /\ Called => \E g : Books(g)
  /\ pc = "dfs" => Ladder

LEMMA UnsearchedIs ==
  level = Unsearched => Layers
<1> SUFFICES ASSUME level = Unsearched PROVE Layers
  OBVIOUS
<1>1. level \in [Vertices -> Int] /\ \A v \in Vertices : level[v] = IF v = Source THEN 0 ELSE -1
  BY DEF Unsearched
<1>2. ASSUME NEW v \in Vertices
      PROVE  level[v] >= -1 /\ \A i \in 0..level[v] : level[v] = i
  BY <1>1
<1> QED
  BY <1>1, <1>2 DEF Layers

LEMMA InitBooks == Init => BooksInv
<1> SUFFICES ASSUME Init PROVE BooksInv
  OBVIOUS
<1>1. FlowInv
  BY InitFlowInv
<1>2. level = Unsearched /\ dead = {} /\ path = <<>> /\ flow = 0 /\ pc = Outcome
  BY DEF Init
<1>3. pc # "dfs" /\ pc # "done"
  BY <1>2 DEF Outcome
<1>4. ~Called => cap = <<>>
  BY DEF Init, Called
<1>5. ASSUME Called
      PROVE  \E g : Books(g)
  <2>1. NetInv /\ value \in [Children -> Nat] /\ cap = Network
    BY <1>1, <1>3, <1>5 DEF FlowInv, NetInv, Init, Called
  <2> DEFINE g == [a \in NetArc |-> 0]
  <2>2. g \in [NetArc -> Int] /\ \A a \in NetArc : g[a] = 0
    OBVIOUS
  <2>3. \A a \in NetArc : g[Back(a)] = -g[a]
    <3> HIDE DEF g
    <3>1. \A a \in NetArc : Back(a) \in NetArc
      BY <2>1, NetArcs
    <3> QED
      BY <2>2, <3>1
  <2>4. \A a \in NetArc : cap[a] = Network[a] - g[a]
    BY <2>1, <2>2, NetworkIs DEF NetArc
  <2>5. ASSUME NEW v \in Vertices PROVE Sum(g, From({v})) = 0
    <3> DEFINE S == From({v})
    <3>1. IsFiniteSet(S) /\ \A a \in S : g[a] = 0
      BY <2>1, <2>2, NetArcs, FS_Subset DEF From
    <3> HIDE DEF g, S
    <3>2. Sum(g, S) = 0
      BY <3>1, SumZero
    <3> QED
      BY <3>2 DEF S
  <2> HIDE DEF g
  <2>6. Books(g)
    BY <1>2, <2>2, <2>3, <2>4, <2>5 DEF Books
  <2> QED
    BY <2>6
<1> QED
  BY <1>2, <1>3, <1>4, <1>5, UnsearchedIs DEF BooksInv

LEMMA BooksStay ==
  ASSUME UNCHANGED <<value, wires, cap, flow>>, \E g : Books(g)
  PROVE  (\E g : Books(g))'
<1>1. PICK g : Books(g)
  OBVIOUS
<1>2. Network' = Network
  BY Steady
<1>3. NetArc' = NetArc /\ \A v : From({v})' = From({v})
  BY <1>2 DEF NetArc, From
<1>4. Vertices' = Vertices
  BY DEF Vertices
<1>5. Books(g)'
  BY <1>1, <1>2, <1>3, <1>4 DEF Books
<1> QED
  BY <1>5

LEMMA BfsBooks ==
  ASSUME FlowInv, BooksInv, Bfs
  PROVE  BooksInv'
<1>1. pc = "bfs" /\ Called /\ NetInv /\ Layers /\ path = <<>> /\ dead \subseteq DOMAIN cap
      /\ UNCHANGED <<value, wires, cap, dead, flow>>
  BY DEF Bfs, FlowInv, BooksInv, Called
<1>2. (\E g : Books(g))'
  BY <1>1, BooksStay DEF BooksInv
<1>3. CASE Further # {}
  <2>1. /\ level' = [v \in Vertices |-> IF v \in Further THEN Depth + 1 ELSE level[v]]
        /\ pc' = "bfs" /\ path' = path
    BY <1>1, <1>3 DEF Bfs
  <2>2. Depth \in Nat /\ \A v \in Vertices : level[v] <= Depth
    BY <1>1, DepthIs DEF FlowInv
  <2>3. \A a \in DOMAIN cap : a[1] \in Vertices /\ a[2] \in Vertices
    BY <1>1, NetworkIs DEF NetInv
  <2>4. PICK b \in DOMAIN cap : level[b[1]] = Depth
    BY <1>3 DEF Further
  <2>5. \A v \in Further : level[v] < 0
    BY DEF Further
  <2> DEFINE d == Depth
  <2>6. d \in Nat /\ \A v \in Vertices : level'[v] = IF v \in Further THEN d + 1 ELSE level[v]
    BY <2>1, <2>2
  <2>7. \A v \in Vertices : level[v] <= d /\ level[v] \in Int /\ level[v] >= -1
    BY <1>1, <2>2 DEF Layers
  <2>8. \A i \in 0..d : \E u \in Vertices : level[u] = i
    BY <1>1, <2>3, <2>4 DEF Layers
  <2> HIDE DEF d
  <2>9. \A i \in 0..d : \E u \in Vertices : level'[u] = i
    <3> SUFFICES ASSUME NEW i \in 0..d PROVE \E u \in Vertices : level'[u] = i
      OBVIOUS
    <3>1. PICK u \in Vertices : level[u] = i
      BY <2>8
    <3>2. u \notin Further
      BY <2>5, <3>1
    <3> QED
      BY <2>6, <3>1, <3>2
  <2>10. ASSUME NEW v \in Vertices
         PROVE  level'[v] \in Int /\ level'[v] >= -1 /\ \A i \in 0..level'[v] : \E u \in Vertices : level'[u] = i
    <3>1. CASE v \in Further
      <4>1. level'[v] = d + 1
        BY <2>6, <3>1
      <4>2. ASSUME NEW i \in 0..(d + 1) PROVE \E u \in Vertices : level'[u] = i
        <5>1. i \in 0..d \/ i = d + 1
          BY <2>6
        <5> QED
          BY <2>9, <4>1, <5>1
      <4> QED
        BY <2>6, <4>1, <4>2
    <3>2. CASE v \notin Further
      <4>1. level'[v] = level[v]
        BY <2>6, <3>2
      <4>2. \A i \in 0..level[v] : i \in 0..d
        BY <2>6, <2>7
      <4> QED
        BY <2>7, <2>9, <4>1, <4>2
    <3> QED
      BY <3>1, <3>2
  <2>11. level' \in [Vertices -> Int]
    BY <2>1, <2>10
  <2>12. Layers'
    BY <2>10, <2>11 DEF Layers, Vertices
  <2> QED
    BY <1>1, <1>2, <2>1, <2>12 DEF BooksInv, Called
<1>4. CASE Further = {}
  <2>1. /\ level' = level
        /\ level[Sink] >= 0 => pc' = "dfs" /\ path' = <<Source>>
        /\ ~(level[Sink] >= 0) => pc' = "done" /\ path' = path
    BY <1>1, <1>4 DEF Bfs
  <2>2. Layers'
    BY <1>1, <2>1 DEF Layers, Vertices
  <2>3. path' = <<Source>> => Ladder'
    <3> SUFFICES ASSUME path' = <<Source>> PROVE Ladder'
      OBVIOUS
    <3>1. Len(<<Source>>) = 1 /\ <<Source>>[1] = Source
      OBVIOUS
    <3>2. level'[Source] = 0 /\ Len(path') = 1 /\ path'[1] = Source
      BY <1>1, <2>1, <3>1 DEF NetInv
    <3>3. \A i \in 1..Len(path') : i = 1
      BY <3>2
    <3>4. \A i \in 1..Len(path') : level'[path'[i]] = i - 1
      BY <3>2, <3>3
    <3> QED
      BY <3>2, <3>4 DEF Ladder
  <2> QED
    BY <1>1, <1>2, <2>1, <2>2, <2>3 DEF BooksInv, Called
<1> QED
  BY <1>3, <1>4

LEMMA AdvanceBooks ==
  ASSUME FlowInv, BooksInv, Advance
  PROVE  BooksInv'
<1>1. /\ pc = "dfs" /\ Called /\ NetInv /\ Walk /\ Ladder /\ Layers /\ dead \subseteq DOMAIN cap
      /\ UNCHANGED <<value, wires, pc, cap, level, dead, flow>>
  BY DEF Advance, FlowInv, BooksInv, Called
<1>2. (\E g : Books(g))'
  BY <1>1, BooksStay DEF BooksInv
<1>3. PICK a \in Onward : path' = Append(path, a[2])
  BY DEF Advance
<1>4. a \in DOMAIN cap /\ a[1] = path[Len(path)] /\ Open(a) /\ level[a[2]] = level[a[1]] + 1
  BY <1>3 DEF Onward, Top, Last, Admissible
<1>5. a = <<a[1], a[2]>> /\ a[2] \in Vertices
  BY <1>1, <1>4, NetworkIs, NetworkPairs DEF NetInv
<1>6. Len(path) \in Nat /\ Len(path) >= 1
  BY <1>1 DEF Walk
<1>7. /\ Len(path') = Len(path) + 1
      /\ \A i \in 1..Len(path) : path'[i] = path[i]
      /\ path'[Len(path) + 1] = a[2]
  BY <1>1, <1>3, <1>5 DEF Walk
<1>8. ASSUME NEW i \in 1..Len(path') PROVE level[path'[i]] = i - 1
  <2>1. CASE i = Len(path) + 1
    <3>1. level[a[1]] = Len(path) - 1
      BY <1>1, <1>4, <1>6 DEF Ladder
    <3> QED
      BY <1>4, <1>6, <1>7, <2>1, <3>1
  <2>2. CASE i # Len(path) + 1
    <3>1. i \in 1..Len(path)
      BY <1>6, <1>7, <2>2
    <3> QED
      BY <1>1, <1>7, <3>1 DEF Ladder
  <2> QED
    BY <2>1, <2>2
<1>9. ASSUME NEW i \in 1..(Len(path') - 1) PROVE Open(<<path'[i], path'[i + 1]>>)
  <2>1. CASE i = Len(path)
    BY <1>4, <1>5, <1>6, <1>7, <2>1
  <2>2. CASE i # Len(path)
    <3>1. i \in 1..(Len(path) - 1) /\ i + 1 \in 1..Len(path) /\ i \in 1..Len(path)
      BY <1>6, <1>7, <2>2
    <3> QED
      BY <1>1, <1>7, <3>1 DEF Ladder
  <2> QED
    BY <2>1, <2>2
<1>10. Ladder'
  BY <1>1, <1>8, <1>9 DEF Ladder, Open
<1>11. Layers'
  BY <1>1 DEF Layers, Vertices
<1> QED
  BY <1>1, <1>2, <1>10, <1>11 DEF BooksInv, Called

LEMMA RetreatBooks ==
  ASSUME FlowInv, BooksInv, Retreat
  PROVE  BooksInv'
<1>1. /\ pc = "dfs" /\ Called /\ NetInv /\ Walk /\ Ladder /\ Layers /\ dead \subseteq DOMAIN cap
      /\ UNCHANGED <<value, wires, cap, flow>>
  BY DEF Retreat, FlowInv, BooksInv, Called
<1>2. (\E g : Books(g))'
  BY <1>1, BooksStay DEF BooksInv
<1>3. CASE path = <<Source>>
  <2>1. pc' = "bfs" /\ level' = Unsearched /\ dead' = {} /\ path' = <<>>
    BY <1>3 DEF Retreat
  <2>2. Unsearched' = Unsearched
    BY DEF Unsearched, Vertices, Source
  <2>3. Layers'
    BY <2>1, <2>2, UnsearchedIs DEF Layers, Unsearched
  <2> QED
    BY <1>1, <1>2, <2>1, <2>3 DEF BooksInv, Called
<1>4. CASE path # <<Source>>
  <2>1. /\ pc' = "dfs" /\ level' = level /\ path' = SubSeq(path, 1, Len(path) - 1)
        /\ dead' = dead \cup {<<path[Len(path) - 1], path[Len(path)]>>}
    BY <1>1, <1>4 DEF Retreat, Front, Top, Last
  <2>2. Len(path) \in Nat /\ Len(path) >= 2
    <3>1. Len(path) \in Nat /\ Len(path) >= 1
      BY <1>1 DEF Walk
    <3>2. Len(path) # 1
      <4> SUFFICES ASSUME Len(path) = 1 PROVE FALSE
        OBVIOUS
      <4>1. path = <<path[1]>>
        BY <1>1 DEF Walk
      <4> QED
        BY <1>1, <1>4, <4>1 DEF Walk
    <3> DEFINE n == Len(path)
    <3>3. n \in Nat /\ n >= 1 /\ n # 1
      BY <3>1, <3>2
    <3> HIDE DEF n
    <3>4. n >= 2
      BY <3>3
    <3> QED
      BY <3>3, <3>4 DEF n
  <2>3. /\ Len(path') = Len(path) - 1
        /\ \A i \in 1..(Len(path) - 1) : path'[i] = path[i]
    BY <1>1, <2>1, <2>2 DEF Walk
  <2>4. Ladder'
    <3>1. \A i \in 1..Len(path') : level[path'[i]] = i - 1
      <4>1. \A i \in 1..Len(path') : i \in 1..Len(path) /\ path'[i] = path[i]
        BY <2>2, <2>3
      <4> QED
        BY <1>1, <4>1 DEF Ladder
    <3>2. \A i \in 1..(Len(path') - 1) : Open(<<path'[i], path'[i + 1]>>)
      <4>1. \A i \in 1..(Len(path') - 1) :
              i \in 1..(Len(path) - 1) /\ path'[i] = path[i] /\ path'[i + 1] = path[i + 1]
        BY <2>2, <2>3
      <4> QED
        BY <1>1, <4>1 DEF Ladder
    <3> QED
      BY <1>1, <2>1, <3>1, <3>2 DEF Ladder, Open
  <2>5. dead' \subseteq DOMAIN cap
    <3>1. Len(path) - 1 \in 1..(Len(path) - 1) /\ (Len(path) - 1) + 1 = Len(path)
      BY <2>2
    <3>2. <<path[Len(path) - 1], path[(Len(path) - 1) + 1]>> \in DOMAIN cap
      BY <1>1, <3>1 DEF Walk
    <3> QED
      BY <1>1, <2>1, <3>1, <3>2
  <2>6. Layers'
    BY <1>1, <2>1 DEF Layers, Vertices
  <2> QED
    BY <1>1, <1>2, <2>1, <2>4, <2>5, <2>6 DEF BooksInv, Called
<1> QED
  BY <1>3, <1>4

\* What the sums become when d flows down the path: as much is given up as is
\* taken, at every vertex between.
LEMMA PathSums ==
  ASSUME FlowInv, BooksInv, pc = "dfs", path[Len(path)] = Sink, NEW g, Books(g), NEW d \in Nat,
         NEW h, \A a \in NetArc : h[a] = IF a \in Arcs THEN g[a] + d
                                        ELSE IF Back(a) \in Arcs THEN g[a] - d ELSE g[a],
         NEW v \in Vertices
  PROVE  Sum(h, From({v})) =
           IF v = Source THEN flow + d ELSE IF v = Sink THEN -(flow + d) ELSE 0
<1>1. Called /\ NetInv /\ Walk /\ Ladder /\ flow \in Nat /\ value \in [Children -> Nat]
  BY DEF FlowInv, BooksInv, NetInv, Called
<1> DEFINE n == Len(path)
           S == From({v})
           up == [a \in NetArc |-> IF a \in Arcs THEN g[a] + d ELSE g[a]]
<1>2. n \in Nat /\ n >= 2 /\ path[1] = Source /\ path[n] = Sink
  <2>1. Len(path) \in Nat /\ Len(path) >= 1
    BY <1>1 DEF Walk
  <2>2. Len(path) # 1
    BY <1>1, VerticesApart DEF Walk
  <2>3. n \in Nat /\ n >= 1 /\ n # 1
    BY <2>1, <2>2
  <2>4. path[1] = Source /\ path[n] = Sink
    BY <1>1 DEF Walk
  <2> HIDE DEF n
  <2> QED
    BY <2>3, <2>4
<1>3. /\ \A i \in 1..n : path[i] \in Vertices /\ level[path[i]] = i - 1
      /\ \A i, j \in 1..n : path[i] = path[j] => i = j
  <2>1. \A i \in 1..n : path[i] \in Vertices /\ level[path[i]] = i - 1
    BY <1>1 DEF Walk, Ladder
  <2>2. ASSUME NEW i \in 1..n, NEW j \in 1..n, path[i] = path[j] PROVE i = j
    <3>1. i - 1 = j - 1
      BY <2>1, <2>2
    <3>2. i \in Int /\ j \in Int
      BY <1>2
    <3> HIDE DEF n
    <3> QED
      BY <3>1, <3>2
  <2> QED
    BY <2>1, <2>2
<1>4. /\ \A a : a \in Arcs <=> \E i \in 1..(n - 1) : a = <<path[i], path[i + 1]>>
      /\ \A i \in 1..(n - 1) : <<path[i], path[i + 1]>> \in NetArc
                               /\ Back(<<path[i], path[i + 1]>>) \in NetArc
                               /\ Back(<<path[i], path[i + 1]>>) = <<path[i + 1], path[i]>>
  <2>1. \A i \in 1..(n - 1) : <<path[i], path[i + 1]>> \in NetArc
    BY <1>1 DEF Walk, NetInv, NetArc
  <2>2. \A i \in 1..(n - 1) : Back(<<path[i], path[i + 1]>>) \in NetArc
    BY <1>1, <2>1, NetArcs
  <2>3. \A a : a \in Arcs <=> \E i \in 1..(n - 1) : a = <<path[i], path[i + 1]>>
    BY DEF Arcs
  <2> HIDE DEF n
  <2> QED
    BY <2>1, <2>2, <2>3 DEF Back
<1>5. /\ IsFiniteSet(S) /\ S \subseteq NetArc
      /\ \A a \in S : a[1] = v /\ a = <<a[1], a[2]>> /\ Back(a) = <<a[2], a[1]>> /\ g[a] \in Int
  BY <1>1, NetArcs, FS_Subset DEF From, Back, Books
<1>6. \A a \in S : /\ up[a] = IF a \in Arcs THEN g[a] + d ELSE g[a]
                   /\ up[a] \in Int
  <2> SUFFICES ASSUME NEW a \in S
               PROVE  up[a] = (IF a \in Arcs THEN g[a] + d ELSE g[a]) /\ up[a] \in Int
    OBVIOUS
  <2>1. a \in NetArc /\ g[a] \in Int
    BY <1>5
  <2>2. up[a] = IF a \in Arcs THEN g[a] + d ELSE g[a]
    BY <2>1
  <2> HIDE DEF up
  <2> QED
    BY <2>1, <2>2
<1>7. ASSUME NEW a \in S, a \in Arcs
      PROVE  Back(a) \notin Arcs
  <2> SUFFICES ASSUME Back(a) \in Arcs PROVE FALSE
    OBVIOUS
  <2>1. PICK i \in 1..(n - 1) : a = <<path[i], path[i + 1]>>
    BY <1>4, <1>7
  <2>2. PICK j \in 1..(n - 1) : Back(a) = <<path[j], path[j + 1]>>
    BY <1>4
  <2>3. path[i] = path[j + 1] /\ path[i + 1] = path[j]
    BY <1>4, <2>1, <2>2
  <2> HIDE DEF n
  <2>4. i \in 1..n /\ j \in 1..n /\ i + 1 \in 1..n /\ j + 1 \in 1..n
    BY <1>2
  <2>5. i = j + 1 /\ i + 1 = j
    BY <1>3, <2>3, <2>4
  <2> QED
    BY <2>4, <2>5
<1>8. \A a \in S : h[a] = (IF Back(a) \in Arcs THEN up[a] - d ELSE up[a]) /\ h[a] \in Int
  <2> SUFFICES ASSUME NEW a \in S
               PROVE  h[a] = (IF Back(a) \in Arcs THEN up[a] - d ELSE up[a]) /\ h[a] \in Int
    OBVIOUS
  <2>1. h[a] = IF a \in Arcs THEN g[a] + d ELSE IF Back(a) \in Arcs THEN g[a] - d ELSE g[a]
    BY <1>5
  <2>2. g[a] \in Int /\ up[a] = IF a \in Arcs THEN g[a] + d ELSE g[a]
    BY <1>5, <1>6
  <2>3. a \in Arcs => Back(a) \notin Arcs
    BY <1>7
  <2> HIDE DEF up
  <2>4. CASE a \in Arcs
    <3>1. h[a] = g[a] + d /\ up[a] = g[a] + d /\ Back(a) \notin Arcs
      BY <2>1, <2>2, <2>3, <2>4
    <3> QED
      BY <2>2, <3>1
  <2>5. CASE a \notin Arcs /\ Back(a) \in Arcs
    <3>1. h[a] = g[a] - d /\ up[a] = g[a]
      BY <2>1, <2>2, <2>5
    <3> QED
      BY <2>2, <2>5, <3>1
  <2>6. CASE a \notin Arcs /\ Back(a) \notin Arcs
    <3>1. h[a] = g[a] /\ up[a] = g[a]
      BY <2>1, <2>2, <2>6
    <3> QED
      BY <2>2, <2>6, <3>1
  <2> QED
    BY <2>4, <2>5, <2>6
<1>9. Sum(g, S) \in Int /\ Sum(g, S) = IF v = Source THEN flow ELSE IF v = Sink THEN -flow ELSE 0
  <2>1. Sum(g, S) \in Int
    <3> HIDE DEF S
    <3> QED
      BY <1>5, SumInt
  <2> QED
    BY <2>1 DEF Books
<1> HIDE DEF up, S, n
<1>10. CASE \E i \in 1..n : path[i] = v
  <2>1. PICK i \in 1..n : path[i] = v
    BY <1>10
  <2>2. (i = 1 <=> v = Source) /\ (i = n <=> v = Sink)
    <3>1. 1 \in 1..n /\ n \in 1..n
      BY <1>2
    <3> QED
      BY <1>2, <1>3, <2>1, <3>1
  <2>3. Sum(up, S) = Sum(g, S) + IF i < n THEN d ELSE 0
    <3>1. \A a \in S : a \in Arcs => i < n /\ a = <<path[i], path[i + 1]>>
      <4> SUFFICES ASSUME NEW a \in S, a \in Arcs PROVE i < n /\ a = <<path[i], path[i + 1]>>
        OBVIOUS
      <4>1. PICK j \in 1..(n - 1) : a = <<path[j], path[j + 1]>>
        BY <1>4
      <4>2. path[j] = path[i] /\ j \in 1..n /\ j < n
        BY <1>2, <1>5, <2>1, <4>1
      <4>3. i = j
        BY <1>3, <4>2
      <4> QED
        BY <4>1, <4>2, <4>3
    <3>2. CASE i < n
      <4> DEFINE p == <<path[i], path[i + 1]>>
      <4>1. i \in 1..(n - 1)
        BY <1>2, <3>2
      <4>2. p \in Arcs /\ p \in NetArc
        BY <1>4, <4>1
      <4>3. p \in S
        BY <2>1, <4>2 DEF S, From
      <4> HIDE DEF p
      <4>4. \A a \in S : a # p => up[a] = g[a]
        BY <1>6, <3>1 DEF p
      <4>5. \A a \in S : g[a] \in Int /\ up[a] \in Int /\ (a # p => up[a] = g[a])
        BY <1>5, <1>6, <4>4
      <4>6. Sum(up, S) = Sum(g, S) + (up[p] - g[p])
        BY <1>5, <4>3, <4>5, SumAt
      <4>7. up[p] = g[p] + d /\ g[p] \in Int
        BY <1>5, <1>6, <4>2, <4>3
      <4>8. up[p] - g[p] = d
        BY <4>7
      <4> QED
        BY <3>2, <4>6, <4>8
    <3>3. CASE ~(i < n)
      <4>1. \A a \in S : g[a] \in Int /\ g[a] = up[a]
        BY <1>5, <1>6, <3>1, <3>3
      <4>2. Sum(g, S) = Sum(up, S)
        BY <1>5, <4>1, SumSame
      <4> QED
        BY <1>9, <3>3, <4>2
    <3> QED
      BY <3>2, <3>3
  <2>4. Sum(h, S) = Sum(up, S) - IF i > 1 THEN d ELSE 0
    <3>0. Sum(up, S) \in Int
      BY <1>5, <1>6, SumInt
    <3>1. \A a \in S : Back(a) \in Arcs => i > 1 /\ a = <<path[i], path[i - 1]>>
      <4> SUFFICES ASSUME NEW a \in S, Back(a) \in Arcs PROVE i > 1 /\ a = <<path[i], path[i - 1]>>
        OBVIOUS
      <4>1. PICK j \in 1..(n - 1) : Back(a) = <<path[j], path[j + 1]>>
        BY <1>4
      <4>2. a[2] = path[j] /\ a[1] = path[j + 1] /\ a = <<a[1], a[2]>>
        BY <1>5, <4>1
      <4>3. path[j + 1] = path[i] /\ j + 1 \in 1..n /\ j + 1 > 1
        BY <1>2, <1>5, <2>1, <4>2
      <4>4. i = j + 1
        BY <1>3, <4>3
      <4>5. i - 1 = j
        BY <4>4
      <4> QED
        BY <4>2, <4>3, <4>4, <4>5
    <3>2. CASE i > 1
      <4> DEFINE p == <<path[i], path[i - 1]>>
      <4>1. i - 1 \in 1..(n - 1) /\ (i - 1) + 1 = i
        BY <1>2, <3>2
      <4>2. p \in NetArc /\ Back(p) \in Arcs
        <5>1. Back(<<path[i - 1], path[(i - 1) + 1]>>) = <<path[(i - 1) + 1], path[i - 1]>>
              /\ Back(<<path[i - 1], path[(i - 1) + 1]>>) \in NetArc
              /\ <<path[i - 1], path[(i - 1) + 1]>> \in Arcs
          BY <1>4, <4>1
        <5> QED
          BY <4>1, <5>1 DEF Back
      <4>3. p \in S
        BY <2>1, <4>2 DEF S, From
      <4> HIDE DEF p
      <4>4. \A a \in S : a # p => h[a] = up[a]
        BY <1>8, <3>1 DEF p
      <4>5. \A a \in S : up[a] \in Int /\ h[a] \in Int /\ (a # p => h[a] = up[a])
        BY <1>6, <1>8, <4>4
      <4>6. Sum(h, S) = Sum(up, S) + (h[p] - up[p])
        BY <1>5, <4>3, <4>5, SumAt
      <4>7. h[p] = up[p] - d /\ up[p] \in Int
        BY <1>6, <1>8, <4>2, <4>3
      <4>8. h[p] - up[p] = -d
        BY <4>7
      <4> QED
        BY <3>0, <3>2, <4>6, <4>8
    <3>3. CASE ~(i > 1)
      <4>1. \A a \in S : up[a] \in Int /\ up[a] = h[a]
        BY <1>6, <1>8, <3>1, <3>3
      <4>2. Sum(up, S) = Sum(h, S)
        BY <1>5, <4>1, SumSame
      <4> QED
        BY <3>0, <3>3, <4>2
    <3> QED
      BY <3>2, <3>3
  <2>5. (i < n <=> v # Sink) /\ (i > 1 <=> v # Source)
    BY <1>2, <2>2
  <2>6. Source # Sink
    BY VerticesApart
  <2>7. Sum(h, S) = IF v = Source THEN flow + d ELSE IF v = Sink THEN -(flow + d) ELSE 0
    BY <1>1, <1>9, <2>3, <2>4, <2>5, <2>6
  <2> QED
    BY <2>7 DEF S
<1>11. CASE ~ \E i \in 1..n : path[i] = v
  <2>1. \A i \in 1..(n - 1) : i \in 1..n /\ i + 1 \in 1..n
    BY <1>2
  <2>2. \A a \in S : a \notin Arcs
    BY <1>4, <1>5, <1>11, <2>1
  <2>3. \A a \in S : Back(a) \notin Arcs
    <3> SUFFICES ASSUME NEW a \in S, Back(a) \in Arcs PROVE FALSE
      OBVIOUS
    <3>1. PICK j \in 1..(n - 1) : Back(a) = <<path[j], path[j + 1]>>
      BY <1>4
    <3>2. path[j + 1] = v
      BY <1>5, <3>1
    <3> QED
      BY <1>11, <2>1, <3>2
  <2>4. \A a \in S : g[a] \in Int /\ g[a] = h[a]
    BY <1>5, <1>6, <1>8, <2>2, <2>3
  <2>5. Sum(g, S) = Sum(h, S)
    BY <1>5, <2>4, SumSame
  <2>6. v # Source /\ v # Sink
    <3>1. 1 \in 1..n /\ n \in 1..n
      BY <1>2
    <3> QED
      BY <1>2, <1>11, <3>1
  <2> QED
    BY <1>9, <2>5, <2>6 DEF S
<1> QED
  BY <1>10, <1>11

LEMMA AugmentBooks ==
  ASSUME FlowInv, BooksInv, Augment
  PROVE  BooksInv'
<1> DEFINE C == {cap[a] : a \in Arcs}
           d == Min(C)
<1>1. /\ pc = "dfs" /\ Called /\ NetInv /\ Walk /\ Ladder /\ Layers /\ dead \subseteq DOMAIN cap
      /\ flow \in Nat /\ value \in [Children -> Values]
      /\ path[Len(path)] = Sink /\ path' = <<Source>>
      /\ cap' = Pushed(d) /\ flow' = flow + d
      /\ UNCHANGED <<value, wires, pc, level, dead>>
  BY DEF Augment, FlowInv, BooksInv, Called, Top, Last
<1>2. Len(path) \in Nat /\ Len(path) >= 2
  <2>1. Len(path) \in Nat /\ Len(path) >= 1
    BY <1>1 DEF Walk
  <2>2. Len(path) # 1
    BY <1>1, VerticesApart DEF Walk
  <2> DEFINE n == Len(path)
  <2>3. n \in Nat /\ n >= 1 /\ n # 1
    BY <2>1, <2>2
  <2> HIDE DEF n
  <2>4. n >= 2
    BY <2>3
  <2> QED
    BY <2>3, <2>4 DEF n
<1>3. /\ Arcs \subseteq DOMAIN cap /\ C # {}
      /\ \A a \in DOMAIN cap : cap[a] \in Nat
  <2>1. Arcs \subseteq DOMAIN cap
    BY <1>1 DEF Walk, Arcs
  <2>2. 1 \in 1..(Len(path) - 1)
    BY <1>2
  <2>3. <<path[1], path[1 + 1]>> \in Arcs
    BY <2>2 DEF Arcs
  <2> QED
    BY <1>1, <2>1, <2>3 DEF NetInv
<1>4. d \in Nat
  <2>1. C \subseteq Nat
    BY <1>3
  <2>2. Min(C) \in C
    <3> HIDE DEF C
    <3> QED
      BY <1>3, <2>1, MinIs
  <2> QED
    BY <2>1, <2>2
<1> HIDE DEF d
<1>5. Network' = Network /\ NetArc' = NetArc /\ (\A v : From({v})' = From({v})) /\ Vertices' = Vertices
  <2>1. Network' = Network
    BY <1>1, Steady
  <2> QED
    BY <2>1 DEF NetArc, From, Vertices
<1>6. PICK g : Books(g)
  BY <1>1 DEF BooksInv
<1> DEFINE h == [a \in NetArc |-> IF a \in Arcs THEN g[a] + d
                                  ELSE IF Back(a) \in Arcs THEN g[a] - d ELSE g[a]]
<1>7. /\ DOMAIN cap = NetArc /\ DOMAIN cap' = NetArc /\ value \in [Children -> Nat]
      /\ \A a \in NetArc :
           /\ cap'[a] = IF a \in Arcs THEN Less(cap[a], d)
                        ELSE IF Back(a) \in Arcs THEN More(cap[a], d) ELSE cap[a]
           /\ cap[a] \in Nat /\ g[a] \in Int
           /\ Back(a) \in NetArc /\ Back(Back(a)) = a /\ g[Back(a)] = -g[a]
  <2>1. DOMAIN cap = NetArc /\ value \in [Children -> Nat]
    BY <1>1 DEF NetInv, NetArc
  <2>2. /\ \A a \in NetArc : Back(a) \in NetArc /\ Back(Back(a)) = a
        /\ \A a \in NetArc : g[a] \in Int /\ g[Back(a)] = -g[a]
    BY <1>6, <2>1, NetArcs DEF Books
  <2> QED
    BY <1>1, <1>3, <2>1, <2>2 DEF Pushed
<1>8. \A a \in NetArc : a \in Arcs => Back(a) \notin Arcs
  <2> SUFFICES ASSUME NEW a \in NetArc, a \in Arcs, Back(a) \in Arcs PROVE FALSE
    OBVIOUS
  <2>1. PICK i \in 1..(Len(path) - 1) : a = <<path[i], path[i + 1]>>
    BY DEF Arcs
  <2>2. PICK j \in 1..(Len(path) - 1) : Back(a) = <<path[j], path[j + 1]>>
    BY DEF Arcs
  <2>3. path[i] = path[j + 1] /\ path[i + 1] = path[j]
    BY <2>1, <2>2 DEF Back
  <2>4. i \in 1..Len(path) /\ j \in 1..Len(path) /\ i + 1 \in 1..Len(path) /\ j + 1 \in 1..Len(path)
    BY <1>2
  <2>5. i - 1 = (j + 1) - 1 /\ (i + 1) - 1 = j - 1
    BY <1>1, <2>3, <2>4 DEF Ladder
  <2> QED
    BY <2>4, <2>5
<1>9. h \in [NetArc -> Int]
  BY <1>4, <1>7
<1>10. \A a \in NetArc : h[Back(a)] = -h[a]
  <2> SUFFICES ASSUME NEW a \in NetArc PROVE h[Back(a)] = -h[a]
    OBVIOUS
  <2>1. Back(a) \in NetArc /\ Back(Back(a)) = a /\ g[Back(a)] = -g[a] /\ g[a] \in Int
    BY <1>7
  <2>2. /\ h[a] = IF a \in Arcs THEN g[a] + d ELSE IF Back(a) \in Arcs THEN g[a] - d ELSE g[a]
        /\ h[Back(a)] = IF Back(a) \in Arcs THEN g[Back(a)] + d
                        ELSE IF Back(Back(a)) \in Arcs THEN g[Back(a)] - d ELSE g[Back(a)]
    BY <2>1
  <2> HIDE DEF h
  <2> QED
    BY <1>4, <1>8, <2>1, <2>2
<1>11. \A a \in NetArc : Network[a] # Unlimited => cap'[a] = Network[a] - h[a]
  <2> SUFFICES ASSUME NEW a \in NetArc, Network[a] # Unlimited PROVE cap'[a] = Network[a] - h[a]
    OBVIOUS
  <2>1. cap[a] < Unlimited
    BY <1>1, <1>6, BooksLimited
  <2>2. cap[a] # Unlimited
    BY <1>7, <2>1, InputAssumption
  <2>3. cap[a] = Network[a] - g[a] /\ Network[a] \in Nat
    BY <1>1, <1>6, <1>7, ArcIs DEF Books
  <2>4. Less(cap[a], d) = cap[a] - d /\ More(cap[a], d) = cap[a] + d
    BY <2>2 DEF Less, More
  <2>5. h[a] = IF a \in Arcs THEN g[a] + d ELSE IF Back(a) \in Arcs THEN g[a] - d ELSE g[a]
    OBVIOUS
  <2> HIDE DEF h
  <2>6. cap'[a] = IF a \in Arcs THEN cap[a] - d
                  ELSE IF Back(a) \in Arcs THEN cap[a] + d ELSE cap[a]
    BY <1>7, <2>4
  <2>7. g[a] \in Int /\ cap[a] \in Nat
    BY <1>7
  <2> QED
    BY <1>4, <2>3, <2>5, <2>6, <2>7
<1>12. \A v \in Vertices :
         Sum(h, From({v})) = IF v = Source THEN flow + d ELSE IF v = Sink THEN -(flow + d) ELSE 0
  <2>1. \A a \in NetArc : h[a] = IF a \in Arcs THEN g[a] + d
                                ELSE IF Back(a) \in Arcs THEN g[a] - d ELSE g[a]
    OBVIOUS
  <2> HIDE DEF h
  <2> SUFFICES ASSUME NEW v \in Vertices
               PROVE  Sum(h, From({v})) =
                        IF v = Source THEN flow + d ELSE IF v = Sink THEN -(flow + d) ELSE 0
    OBVIOUS
  <2>2. pc = "dfs" /\ path[Len(path)] = Sink
    BY <1>1
  <2> QED
    BY <1>4, <1>6, <2>1, <2>2, PathSums
<1> HIDE DEF h
<1>13. Source' = Source /\ Sink' = Sink
  BY DEF Source, Sink
<1>130. PICK k : k = h
  OBVIOUS
<1>14. Books(k)'
  <2>1. k \in [NetArc' -> Int] /\ \A a \in NetArc' : k[Back(a)] = -k[a]
    BY <1>5, <1>9, <1>10, <1>130
  <2>2. \A a \in NetArc' : Network'[a] # Unlimited => cap'[a] = Network'[a] - k[a]
    BY <1>5, <1>11, <1>130
  <2>3. ASSUME NEW v \in Vertices'
        PROVE  Sum(k, From({v})') = IF v = Source' THEN flow' ELSE IF v = Sink' THEN -(flow') ELSE 0
    <3>1. From({v})' = From({v}) /\ v \in Vertices
      BY <1>5
    <3>2. Sum(k, From({v})) = IF v = Source THEN flow + d ELSE IF v = Sink THEN -(flow + d) ELSE 0
      BY <1>12, <1>130, <3>1
    <3> QED
      BY <1>1, <1>13, <3>1, <3>2
  <2>4. k \in [NetArc' -> Int] /\ (\A a \in NetArc' : k[Back(a)] = -k[a])
    BY <2>1
  <2> QED
    BY <2>2, <2>3, <2>4 DEF Books
<1>15. Ladder'
  <2>1. Len(<<Source>>) = 1 /\ <<Source>>[1] = Source
    OBVIOUS
  <2>2. level'[Source] = 0 /\ Len(path') = 1 /\ path'[1] = Source
    BY <1>1, <2>1 DEF NetInv
  <2>3. \A i \in 1..Len(path') : i = 1
    BY <2>2
  <2>4. \A i \in 1..Len(path') : level'[path'[i]] = i - 1
    BY <2>2, <2>3
  <2> QED
    BY <2>2, <2>4 DEF Ladder
<1>16. Layers'
  BY <1>1, <1>5 DEF Layers
<1>17. dead' \subseteq DOMAIN cap'
  BY <1>1, <1>7
<1>18. (\E f : Books(f))'
  BY <1>14
<1> QED
  BY <1>1, <1>15, <1>16, <1>17, <1>18 DEF BooksInv, Called

LEMMA SpecBooks == Spec => [](FlowInv /\ BooksInv)
<1>1. FlowInv /\ BooksInv /\ [Next]_vars => BooksInv'
  <2> SUFFICES ASSUME FlowInv, BooksInv, [Next]_vars PROVE BooksInv'
    OBVIOUS
  <2>1. CASE Next
    BY <2>1, BfsBooks, AdvanceBooks, RetreatBooks, AugmentBooks DEF Next
  <2>2. CASE UNCHANGED vars
    <3>1. UNCHANGED <<value, wires, pc, cap, level, dead, path, flow>>
      BY <2>2 DEF vars
    <3>2. Called => (\E g : Books(g))'
      BY <3>1, BooksStay DEF BooksInv
    <3>3. Layers' /\ (pc = "dfs" => Ladder')
      BY <3>1 DEF BooksInv, Layers, Vertices, Ladder, Open
    <3> QED
      BY <3>1, <3>2, <3>3 DEF BooksInv, Called
  <2> QED
    BY <2>1, <2>2
<1> QED
  BY <1>1, InitBooks, SpecFlowInv, PTL DEF Spec

-----------------------------------------------------------------------------
(* The cut is the cheapest, and the nearest. *)

LEMMA WeightIs ==
  ASSUME NEW C
  PROVE  Weight(C) = Sum(value, C)
BY DEF Weight, SumFunctionOnSet, FoldFunctionOnSet, MapThenFoldSet, Sum, Summing

\* The side of the source, when the children of D are taken out.
Side(D) == {Source} \cup {In(c) : c \in Past(D) \cup Met(D)} \cup {Out(c) : c \in Past(D)}

LEMMA SideIs ==
  ASSUME value \in [Children -> Values], value \in [Children -> Nat], NEW D \in SUBSET Children, Separates(D)
  PROVE  /\ Side(D) \subseteq Vertices /\ Source \in Side(D) /\ Sink \notin Side(D)
         /\ Between(Side(D)) = Met(D) /\ Met(D) \subseteq D
         /\ \A c \in Met(D) : Linked(c)
         /\ \A a \in Leaving(Side(D)) : Network[a] # Unlimited
         /\ \A c : In(c) \in Side(D) <=> c \in Past(D) \cup Met(D)
         /\ \A c : Out(c) \in Side(D) <=> c \in Past(D)
<1>1. /\ Entry \ D \subseteq Past(D) /\ Past(D) \subseteq Children \ D
      /\ \A w \in Wire : w[1] \in Past(D) /\ w[2] \notin D => w[2] \in Past(D)
  BY PastOf
<1>2. Met(D) \subseteq D /\ \A c : c \in Met(D) <=>
        c \in D /\ (c \in Entry \/ \E w \in Wire : w[1] \in Past(D) /\ w[2] = c)
  BY DEF Met
<1>3. \A c : In(c) \in Side(D) <=> c \in Past(D) \cup Met(D)
  BY VerticesApart DEF Side
<1>4. \A c : Out(c) \in Side(D) <=> c \in Past(D)
  BY VerticesApart DEF Side
<1>5. Side(D) \subseteq Vertices /\ Source \in Side(D) /\ Sink \notin Side(D)
  <2>1. Past(D) \subseteq Children /\ Met(D) \subseteq Children
    BY <1>1, <1>2
  <2> QED
    BY <2>1, VerticesApart DEF Side
<1>6. Between(Side(D)) = Met(D)
  BY <1>1, <1>2, <1>3, <1>4 DEF Between
<1>7. \A c \in Met(D) : Linked(c)
  BY <1>2 DEF Linked, Entry, HasIn
<1>8. ASSUME NEW a \in Leaving(Side(D)) PROVE Network[a] # Unlimited
  <2> SUFFICES ASSUME Network[a] = Unlimited PROVE FALSE
    OBVIOUS
  <2>1. a \in NetArc /\ a[1] \in Side(D) /\ a[2] \notin Side(D)
    BY <1>8 DEF Leaving
  <2>2. a \in Ends \cup Wired
    BY <2>1, ArcIs
  <2>3. CASE \E c \in Entry : a = <<Source, In(c)>>
    <3>1. PICK c \in Entry : a = <<Source, In(c)>>
      BY <2>3
    <3>2. c \in Past(D) \cup Met(D)
      BY <1>1, <1>2
    <3> QED
      BY <1>3, <2>1, <3>1, <3>2
  <2>4. CASE \E c \in Exit : a = <<Out(c), Sink>>
    <3>1. PICK c \in Exit : a = <<Out(c), Sink>>
      BY <2>4
    <3>2. c \in Past(D)
      BY <1>4, <2>1, <3>1
    <3> QED
      BY <3>1, <3>2 DEF Separates
  <2>5. CASE \E w \in Wire : a = <<Out(w[1]), In(w[2])>>
    <3>1. PICK w \in Wire : a = <<Out(w[1]), In(w[2])>>
      BY <2>5
    <3>2. w[1] \in Past(D)
      BY <1>4, <2>1, <3>1
    <3>3. w[2] \in Past(D) \cup Met(D)
      BY <1>1, <1>2, <3>2
    <3> QED
      BY <1>3, <2>1, <3>1, <3>3
  <2> QED
    BY <2>2, <2>3, <2>4, <2>5 DEF Ends, Wired
<1> QED
  BY <1>2, <1>3, <1>4, <1>5, <1>6, <1>7, <1>8

\* No more has flowed than any children are worth whose removal separates the
\* entries from the exits, and just that when nothing more goes past them.
LEMMA NoMoreThan ==
  ASSUME FlowInv, Called, NEW g, Books(g), NEW D \in SUBSET Children, Separates(D)
  PROVE  /\ Weight(D) \in Nat /\ flow <= Weight(D)
         /\ flow = Weight(D) => \A a \in Leaving(Side(D)) : ~Open(a)
<1>1. NetInv /\ value \in [Children -> Values] /\ flow \in Nat /\ value \in [Children -> Nat]
  BY DEF FlowInv, NetInv
<1> DEFINE R == Side(D)
           M == Met(D)
<1>2. /\ R \subseteq Vertices /\ Source \in R /\ Sink \notin R
      /\ Between(R) = M /\ M \subseteq D /\ \A c \in M : Linked(c)
      /\ \A a \in Leaving(R) : Network[a] # Unlimited
  BY <1>1, SideIs
<1> HIDE DEF R, M
<1>3. Sum(Network, Leaving(R)) = Sum(value, M)
  BY <1>1, <1>2, WorthOfLeaving
<1>4. /\ flow <= Sum(value, M)
      /\ flow = Sum(value, M) => \A a \in Leaving(R) : ~Open(a)
  BY <1>1, <1>2, <1>3, FlowIsLimited
<1>5. IsFiniteSet(D) /\ \A c \in D : value[c] \in Int /\ value[c] \in Nat
  BY <1>1, ChildIs, FS_Subset
<1> DEFINE rest == D \ M
<1>6. Sum(value, D) = Sum(value, M) + Sum(value, rest)
  BY <1>2, <1>5, SumPart
<1>7. Sum(value, M) \in Nat /\ Sum(value, rest) \in Nat
  <2>1. IsFiniteSet(M) /\ IsFiniteSet(rest)
    BY <1>2, <1>5, SumInt
  <2>2. (\A c \in M : value[c] \in Nat) /\ (\A c \in rest : value[c] \in Nat)
    BY <1>2, <1>5
  <2> HIDE DEF rest
  <2> QED
    BY <2>1, <2>2, SumHolds
<1> HIDE DEF rest
<1>8. Weight(D) = Sum(value, D)
  BY WeightIs
<1>9. /\ Weight(D) \in Nat /\ flow <= Weight(D)
      /\ flow = Weight(D) => \A a \in Leaving(R) : ~Open(a)
  BY <1>1, <1>4, <1>6, <1>7, <1>8
<1> QED
  BY <1>9 DEF R

\* What is reached in the end is worth what has flowed.
LEMMA CutIsWorth ==
  ASSUME FlowInv, pc = "done", NEW g, Books(g)
  PROVE  flow = Weight(Cut)
<1> DEFINE reach == ReachOf({Source})
<1>1. NetInv /\ value \in [Children -> Values] /\ flow \in Nat /\ value \in [Children -> Nat]
  BY DEF FlowInv, NetInv, Called
<1>2. /\ reach \subseteq Vertices /\ Source \in reach /\ Sink \notin reach
      /\ \A a \in DOMAIN cap : Open(a) /\ a[1] \in reach => a[2] \in reach
  BY ReachIs
<1>3. DOMAIN cap = NetArc
  BY <1>1 DEF NetInv, NetArc
<1>4. Between(reach) = Cut
  BY DEF Between, Cut
<1>5. \A a \in Leaving(reach) : ~Open(a)
  BY <1>2, <1>3 DEF Leaving
<1>6. \A a \in Leaving(reach) : Network[a] # Unlimited
  <2> SUFFICES ASSUME NEW a \in Leaving(reach), Network[a] = Unlimited PROVE FALSE
    OBVIOUS
  <2>1. a \in Ends \cup Wired
    BY <1>1, ArcIs DEF Leaving
  <2> QED
    BY <1>1, <1>5, <2>1, ConnectionsOpen
<1>7. \A c \in Children : In(c) \in reach => Linked(c)
  <2> DEFINE joined == {v \in Vertices : \A c \in Children : v = In(c) => Linked(c)}
             arcs == {a \in DOMAIN cap : Open(a)}
             n == Cardinality(Vertices)
  <2>1. {Source} \subseteq joined
    BY VerticesApart
  <2>2. ASSUME NEW a \in NetArc PROVE a[2] \in joined
    <3>1. a[2] \in Vertices
      BY <1>1, NetArcs
    <3>2. SUFFICES ASSUME NEW c \in Children, a[2] = In(c) PROVE Linked(c)
      BY <3>1
    <3>3. a \in DOMAIN Forward \/ Back(a) \in DOMAIN Forward
      BY <1>1, NetArcs
    <3>4. Back(a)[1] = a[2]
      BY DEF Back
    <3>5. \A b \in DOMAIN Forward : In(c) \in {b[1], b[2]} => Linked(c)
      <4> SUFFICES ASSUME NEW b \in DOMAIN Forward, In(c) \in {b[1], b[2]} PROVE Linked(c)
        OBVIOUS
      <4>1. \/ \E d \in Entry : b = <<Source, In(d)>>
            \/ \E d \in Exit : b = <<Out(d), Sink>>
            \/ \E w \in Wire : b = <<Out(w[1]), In(w[2])>>
            \/ \E d \in Children : Linked(d) /\ b = <<In(d), Out(d)>>
        BY <1>1, ForwardIs, ArcsApart DEF Ends, Wired
      <4>2. c \in Entry \/ Linked(c) \/ \E w \in Wire : w[2] = c
        BY <4>1, VerticesApart
      <4> QED
        BY <4>2 DEF Linked, Entry, HasIn
    <3> QED
      BY <3>2, <3>3, <3>4, <3>5
  <2>3. reach = Spread({Source}, arcs, n) /\ n \in Nat
    BY VerticesFinite DEF ReachOf
  <2>4. \A a \in arcs : a[1] \in joined => a[2] \in joined
    BY <1>3, <2>2
  <2>5. reach \subseteq joined
    <3> HIDE DEF reach, joined, arcs, n
    <3> QED
      BY <2>1, <2>3, <2>4, SpreadWithin
  <2> QED
    BY <2>5
<1> HIDE DEF reach
<1>8. \A c \in Between(reach) : Linked(c)
  BY <1>7 DEF Between
<1>9. Sum(Network, Leaving(reach)) = Sum(value, Between(reach))
  BY <1>1, <1>2, <1>6, <1>8, WorthOfLeaving
<1>10. flow = Sum(Network, Leaving(reach))
  BY <1>1, <1>2, <1>5, <1>6, FlowIsLimited
<1> QED
  BY <1>4, <1>9, <1>10, WeightIs

\* Nothing gets past the cheapest children: what is reached lies on their side.
LEMMA ReachStays ==
  ASSUME FlowInv, pc = "done", NEW g, Books(g), NEW D \in SUBSET Children, Separates(D),
         flow = Weight(D)
  PROVE  ReachOf({Source}) \subseteq Side(D)
<1> DEFINE arcs == {a \in DOMAIN cap : Open(a)}
           n == Cardinality(Vertices)
<1>1. NetInv /\ Called /\ value \in [Children -> Values] /\ value \in [Children -> Nat]
  BY DEF FlowInv, NetInv, Called
<1>2. {Source} \subseteq Side(D)
  BY <1>1, SideIs
<1>3. \A a \in Leaving(Side(D)) : ~Open(a)
  BY <1>1, NoMoreThan
<1>4. \A a \in arcs : a[1] \in Side(D) => a[2] \in Side(D)
  BY <1>1, <1>3 DEF Leaving, NetArc, NetInv
<1>5. ReachOf({Source}) = Spread({Source}, arcs, n) /\ n \in Nat
  BY VerticesFinite DEF ReachOf
<1> HIDE DEF arcs, n
<1> QED
  BY <1>2, <1>4, <1>5, SpreadWithin

LEMMA NearestCut ==
  ASSUME FlowInv, BooksInv
  PROVE  CapacityIsNearestCut
<1> SUFFICES ASSUME pc = "done"
             PROVE  \E C \in Cheapest : /\ flow = Weight(C)
                                        /\ Cut = Met(C)
                                        /\ \A D \in Cheapest : Past(C) \subseteq Past(D)
  BY DEF CapacityIsNearestCut
<1>1. PICK g : Books(g)
  BY DEF BooksInv, Called
<1>2. Called /\ NetInv /\ value \in [Children -> Values] /\ value \in [Children -> Nat]
  BY DEF FlowInv, NetInv, Called
<1>3. Separates(Cut) /\ Cut \in SUBSET Children
  BY FlowInvSeparates DEF CutSeparates, Cut
<1>4. flow = Weight(Cut)
  BY <1>1, CutIsWorth
<1>5. \A D \in SUBSET Children : Separates(D) => flow <= Weight(D)
  BY <1>1, <1>2, NoMoreThan
<1>6. Cut \in Cheapest
  BY <1>3, <1>4, <1>5 DEF Cheapest
<1>7. ASSUME NEW D \in Cheapest
      PROVE  D \in SUBSET Children /\ Separates(D) /\ flow = Weight(D)
  <2>1. D \in SUBSET Children /\ Separates(D) /\ Weight(D) <= Weight(Cut)
    BY <1>3 DEF Cheapest
  <2>2. Weight(D) \in Nat /\ Weight(Cut) \in Nat /\ flow <= Weight(D)
    BY <1>1, <1>2, <1>3, <2>1, NoMoreThan
  <2> QED
    BY <1>4, <2>1, <2>2
<1>8. Cut = Met(Cut)
  <2>1. ReachOf({Source}) \subseteq Side(Cut)
    BY <1>1, <1>3, <1>4, ReachStays
  <2>2. Met(Cut) \subseteq Cut /\ \A c : In(c) \in Side(Cut) <=> c \in Past(Cut) \cup Met(Cut)
    BY <1>2, <1>3, SideIs
  <2>3. \A c \in Cut : In(c) \in ReachOf({Source})
    BY DEF Cut
  <2>4. Past(Cut) \cap Cut = {}
    BY <1>3, PastOf
  <2> QED
    BY <2>1, <2>2, <2>3, <2>4
<1>9. ASSUME NEW D \in Cheapest
      PROVE  Past(Cut) \subseteq Past(D)
  <2>1. D \in SUBSET Children /\ Separates(D) /\ flow = Weight(D)
    BY <1>7
  <2>2. ReachOf({Source}) \subseteq Side(D)
    BY <1>1, <2>1, ReachStays
  <2>3. \A c : Out(c) \in Side(D) <=> c \in Past(D)
    BY <1>2, <2>1, SideIs
  <2> QED
    BY <2>2, <2>3, PastIsReached
<1> QED
  BY <1>4, <1>6, <1>8, <1>9

-----------------------------------------------------------------------------
(* The network at every step. *)

\* No more layers are found than there are vertices.
LEMMA LevelsBounded ==
  ASSUME Layers
  PROVE  level \in [Vertices -> -1..Cardinality(Vertices)]
<1>1. IsFiniteSet(Vertices) /\ Cardinality(Vertices) \in Nat
  BY VerticesFinite
<1>2. ASSUME NEW v \in Vertices
      PROVE  level[v] \in -1..Cardinality(Vertices)
  <2>1. level[v] \in Int /\ level[v] >= -1 /\ \A i \in 0..level[v] : \E u \in Vertices : level[u] = i
    BY DEF Layers
  <2>2. CASE level[v] = -1
    BY <1>1, <2>2
  <2>3. CASE level[v] # -1
    <3> DEFINE T == 0..level[v]
               at == [i \in T |-> CHOOSE u \in Vertices : level[u] = i]
    <3>1. \A i \in T : at[i] \in Vertices /\ level[at[i]] = i
      BY <2>1
    <3>2. at \in Injection(T, Vertices)
      <4>1. at \in [T -> Vertices]
        BY <3>1
      <4>2. \A i, j \in T : at[i] = at[j] => i = j
        BY <3>1
      <4> HIDE DEF at, T
      <4> QED
        BY <4>1, <4>2 DEF Injection, IsInjective
    <3>3. Cardinality(T) <= Cardinality(Vertices)
      <4> HIDE DEF at, T
      <4> QED
        BY <1>1, <3>2, FS_Injection
    <3>4. level[v] >= 0
      BY <2>1, <2>3
    <3>5. Cardinality(T) = level[v] - 0 + 1
      BY <2>1, <3>4, FS_Interval
    <3> HIDE DEF T
    <3> QED
      BY <1>1, <2>1, <3>3, <3>4, <3>5
  <2> QED
    BY <2>2, <2>3
<1> QED
  BY <1>2 DEF Layers

LEMMA BooksType ==
  ASSUME FlowInv, BooksInv
  PROVE  TypeOK
<1>1. \A a \in DOMAIN cap : cap[a] \in 0..Unlimited
  <2> SUFFICES ASSUME NEW a \in DOMAIN cap PROVE cap[a] \in 0..Unlimited
    OBVIOUS
  <2>1. Unlimited \in Nat
    BY InputAssumption
  <2>2. CASE ~Called
    <3>1. cap = <<>>
      BY <2>2 DEF BooksInv
    <3>2. DOMAIN cap = {}
      BY <3>1
    <3> QED
      BY <3>2
  <2>3. CASE Called
    <3>1. NetInv /\ value \in [Children -> Values] /\ flow \in Nat /\ value \in [Children -> Nat]
      BY <2>3 DEF FlowInv, NetInv
    <3>2. PICK g : Books(g)
      BY <2>3 DEF BooksInv
    <3>3. a \in NetArc /\ cap[a] \in Nat
      BY <3>1 DEF NetInv, NetArc
    <3>4. CASE a \in Ends \cup Wired
      BY <2>1, <3>1, <3>4 DEF NetInv
    <3>5. CASE a \notin Ends \cup Wired
      <4>1. Network[a] # Unlimited
        BY <3>1, <3>3, <3>5, ArcIs
      <4>2. cap[a] < Unlimited
        BY <3>1, <3>2, <3>3, <4>1, BooksLimited
      <4> QED
        BY <2>1, <3>3, <4>2
    <3> QED
      BY <3>4, <3>5
  <2> QED
    BY <2>2, <2>3
<1>2. level \in [Vertices -> -1..Cardinality(Vertices)]
  BY LevelsBounded DEF BooksInv
<1>3. pc = "dfs" => path # <<>> /\ path[1] = Source
  BY DEF FlowInv, Walk
<1> QED
  BY <1>1, <1>2, <1>3 DEF TypeOK, FlowInv, BooksInv

\* The sum over what the arcs carry.
Carrying(S, f) ==
  f = [T \in SUBSET S |->
         IF T = {} THEN 0 ELSE LET x == CHOOSE x \in T : TRUE IN Carried(x) + f[T \ {x}]]

LEMMA CarriedSum ==
  ASSUME NEW g, NEW S, IsFiniteSet(S), \A x \in S : Carried(x) = g[x]
  PROVE  MapThenSumSet(Carried, S) = Sum(g, S)
<1>1. MapThenSumSet(Carried, S) = (CHOOSE f : Carrying(S, f))[S]
  BY DEF MapThenSumSet, MapThenFoldSet, Carrying
<1>2. ASSUME NEW f PROVE Carrying(S, f) <=> Summing(g, S, f)
  <2>1. ASSUME NEW T \in SUBSET S
        PROVE  (IF T = {} THEN 0 ELSE LET x == CHOOSE x \in T : TRUE IN Carried(x) + f[T \ {x}])
             = (IF T = {} THEN 0 ELSE LET x == CHOOSE x \in T : TRUE IN g[x] + f[T \ {x}])
    <3>1. CASE T = {}
      BY <3>1
    <3>2. CASE T # {}
      <4>1. (CHOOSE x \in T : TRUE) \in T
        BY <3>2
      <4>2. Carried(CHOOSE x \in T : TRUE) = g[CHOOSE x \in T : TRUE]
        BY <4>1
      <4> QED
        BY <3>2, <4>2
    <3> QED
      BY <3>1, <3>2
  <2>2. [T \in SUBSET S |->
           IF T = {} THEN 0 ELSE LET x == CHOOSE x \in T : TRUE IN Carried(x) + f[T \ {x}]]
      = [T \in SUBSET S |->
           IF T = {} THEN 0 ELSE LET x == CHOOSE x \in T : TRUE IN g[x] + f[T \ {x}]]
    BY <2>1, Zenon
  <2> QED
    BY <2>2 DEF Carrying, Summing
<1>3. \E f : Summing(g, S, f)
  BY SummingExists
<1> DEFINE here == CHOOSE f : Carrying(S, f)
           there == CHOOSE f : Summing(g, S, f)
<1>4. Carrying(S, here)
  BY <1>2, <1>3
<1>5. Summing(g, S, here) /\ Summing(g, S, there)
  BY <1>2, <1>3, <1>4
<1>6. Sum(g, S) = there[S]
  BY DEF Sum
<1> HIDE DEF here, there
<1>7. here[S] = there[S]
  BY <1>5, SumsAgree
<1> QED
  BY <1>1, <1>6, <1>7 DEF here

\* Where no arc has another against it, the books of a vertex are what flows
\* from it and what flows into it.
LEMMA BooksAt ==
  ASSUME NetInv, value \in [Children -> Values], NEW g, Books(g), flow \in Nat, NEW v \in Vertices,
         \A a \in DOMAIN Forward : v \in {a[1], a[2]} => Back(a) \notin DOMAIN Forward
  PROVE  /\ FlowFrom(v, DOMAIN Forward) \in Int /\ FlowInto(v, DOMAIN Forward) \in Int
         /\ FlowFrom(v, DOMAIN Forward) = FlowInto(v, DOMAIN Forward) + Sum(g, From({v}))
         /\ \A a \in DOMAIN Forward : v \in {a[1], a[2]} => Carried(a) = g[a]
<1> DEFINE arcs == DOMAIN Forward
           F == {a \in arcs : a[1] = v}
           G == {a \in arcs : a[2] = v}
           S == From({v})
           rest == S \ F
           f == [a \in G |-> Back(a)]
<1>1. value \in [Children -> Nat]
  BY DEF NetInv
<1>2. \A a \in arcs : a \in NetArc
  BY <1>1, NetworkIs DEF NetArc
<1>3. \A a \in NetArc : /\ Back(a) \in NetArc /\ Back(a)[1] = a[2] /\ Back(a)[2] = a[1]
                        /\ Back(Back(a)) = a /\ g[a] \in Int /\ g[Back(a)] = -g[a]
                        /\ a \notin arcs => Back(a) \in arcs
  BY <1>1, NetArcs DEF Books
<1>4. ASSUME NEW a \in arcs, v \in {a[1], a[2]}
      PROVE  Carried(a) = g[a]
  <2>1. Back(a) \in NetArc /\ Back(a) \notin arcs
    BY <1>2, <1>3, <1>4
  <2>2. Network[Back(a)] = 0 /\ Unlimited # 0
    BY <1>1, <2>1, NetworkIs, InputAssumption DEF NetArc
  <2>3. cap[Back(a)] = 0 - g[Back(a)]
    BY <2>1, <2>2 DEF Books
  <2>4. g[a] \in Int /\ g[Back(a)] = -g[a]
    BY <1>2, <1>3
  <2> QED
    BY <2>3, <2>4 DEF Carried
<1>5. /\ IsFiniteSet(F) /\ IsFiniteSet(G) /\ IsFiniteSet(S)
      /\ Sum(g, F) \in Int /\ Sum(g, G) \in Int /\ Sum(g, S) \in Int
      /\ \A a \in S : g[a] \in Int
  <2>1. F \subseteq NetArc /\ G \subseteq NetArc /\ S \subseteq NetArc
    BY <1>2 DEF From
  <2> HIDE DEF F, G, S
  <2> QED
    BY <2>1, BooksSums
<1>6. FlowFrom(v, arcs) = Sum(g, F) /\ FlowInto(v, arcs) = Sum(g, G)
  <2>1. (\A a \in F : Carried(a) = g[a]) /\ (\A a \in G : Carried(a) = g[a])
    BY <1>4
  <2>2. FlowFrom(v, arcs) = MapThenSumSet(Carried, F) /\ FlowInto(v, arcs) = MapThenSumSet(Carried, G)
    BY DEF FlowFrom, FlowInto
  <2> HIDE DEF F, G
  <2> QED
    BY <1>5, <2>1, <2>2, CarriedSum
<1>7. F \subseteq S
  BY <1>2 DEF From
<1>8. rest = {f[a] : a \in G}
  <2>1. ASSUME NEW a \in rest PROVE \E b \in G : a = f[b]
    <3>1. a \in NetArc /\ a[1] = v /\ a \notin arcs
      BY <2>1 DEF From
    <3>2. Back(a) \in G /\ f[Back(a)] = a
      BY <1>3, <3>1
    <3> QED
      BY <3>2
  <2>2. ASSUME NEW b \in G PROVE f[b] \in rest
    <3>1. b \in NetArc /\ b \in arcs /\ b[2] = v
      BY <1>2
    <3>2. Back(b) \notin arcs /\ Back(b) \in NetArc /\ Back(b)[1] = v
      BY <1>3, <3>1
    <3>3. f[b] = Back(b)
      OBVIOUS
    <3> QED
      BY <3>2, <3>3 DEF From
  <2> HIDE DEF f, rest, G
  <2> QED
    BY <2>1, <2>2
<1>9. Sum(g, rest) = -Sum(g, G)
  <2>1. PICK sign \in {1, -1} : sign = -1
    OBVIOUS
  <2>2. \A x, y \in G : f[x] = f[y] => x = y
    BY <1>2, <1>3
  <2>3. \A x \in G : g[x] \in Int /\ g[f[x]] \in Int /\ g[f[x]] = sign * g[x]
    <3> SUFFICES ASSUME NEW x \in G PROVE g[x] \in Int /\ g[f[x]] \in Int /\ g[f[x]] = sign * g[x]
      OBVIOUS
    <3>1. f[x] = Back(x) /\ g[x] \in Int /\ g[Back(x)] = -g[x]
      BY <1>2, <1>3
    <3> HIDE DEF f
    <3> QED
      BY <2>1, <3>1
  <2>4. IsFiniteSet(G) /\ Sum(g, G) \in Int
    BY <1>5
  <2> HIDE DEF f, G, rest
  <2>5. Sum(g, {f[x] : x \in G}) = sign * Sum(g, G)
    BY <2>2, <2>3, <2>4, SumMap
  <2>6. Sum(g, rest) = sign * Sum(g, G)
    BY <1>8, <2>5
  <2> QED
    BY <2>1, <2>4, <2>6
<1>10. Sum(g, S) = Sum(g, F) + Sum(g, rest)
  <2> HIDE DEF F, S
  <2> QED
    BY <1>5, <1>7, SumPart
<1> HIDE DEF F, G, S, rest, f
<1>11. FlowFrom(v, arcs) = FlowInto(v, arcs) + Sum(g, S)
  BY <1>5, <1>6, <1>9, <1>10
<1> QED
  BY <1>4, <1>5, <1>6, <1>11 DEF S

\* A wire leads from one end to the other.
Pairs == \A w \in wires : w = <<w[1], w[2]>>

LEMMA SpecPairs == Spec => []Pairs
<1>1. Init => Pairs
  BY InputAssumption DEF Init, Pairs
<1>2. Pairs /\ [Next]_vars => Pairs'
  BY DEF Pairs, Next, Bfs, Advance, Retreat, Augment, vars
<1> QED
  BY <1>1, <1>2, PTL DEF Spec

LEMMA Conserved ==
  ASSUME FlowInv, BooksInv, Pairs
  PROVE  FlowConserved
<1>1. TypeOK
  BY BooksType
<1> SUFFICES ASSUME Called
             PROVE  LET arcs == DOMAIN Forward
                    IN  /\ FlowFrom(Source, arcs) = flow
                        /\ \A c \in Children : <<c, c>> \notin wires =>
                             /\ \A v \in {In(c), Out(c)} : FlowInto(v, arcs) = FlowFrom(v, arcs)
                             /\ Linked(c) => Carried(<<In(c), Out(c)>>) <= value[c]
  BY <1>1 DEF FlowConserved, Called
<1> DEFINE arcs == DOMAIN Forward
<1>2. NetInv /\ value \in [Children -> Values] /\ flow \in Nat /\ value \in [Children -> Nat]
  BY DEF FlowInv, NetInv
<1>3. PICK g : Books(g)
  BY DEF BooksInv
<1>4. \A a \in arcs :
         \/ \E c \in Entry : a = <<Source, In(c)>>
         \/ \E c \in Exit : a = <<Out(c), Sink>>
         \/ \E w \in Wire : a = <<Out(w[1]), In(w[2])>>
         \/ \E c \in Children : Linked(c) /\ a = <<In(c), Out(c)>>
  BY <1>2, ForwardIs, ArcsApart DEF Ends, Wired
<1>5. FlowFrom(Source, arcs) = flow
  <2>1. \A a \in arcs : a[2] # Source
    BY <1>4, VerticesApart
  <2>2. \A a \in arcs : Source \in {a[1], a[2]} => Back(a) \notin arcs
    <3>1. \A a : Back(a)[2] = a[1]
      BY DEF Back
    <3> QED
      BY <2>1, <3>1
  <2>3. FlowFrom(Source, arcs) = FlowInto(Source, arcs) + Sum(g, From({Source}))
    BY <1>2, <1>3, <2>2, BooksAt, VerticesApart
  <2>4. Sum(g, From({Source})) = flow
    BY <1>3, VerticesApart DEF Books
  <2>5. FlowInto(Source, arcs) = 0
    <3> DEFINE none == {a \in arcs : a[2] = Source}
    <3>1. none = {}
      BY <2>1
    <3>2. IsFiniteSet(none) /\ (\A x \in none : Carried(x) = g[x]) /\ (\A x \in none : g[x] = 0)
      BY <3>1, FS_EmptySet
    <3>3. FlowInto(Source, arcs) = MapThenSumSet(Carried, none)
      BY DEF FlowInto
    <3> HIDE DEF none
    <3>4. MapThenSumSet(Carried, none) = Sum(g, none)
      BY <3>2, CarriedSum
    <3> QED
      BY <3>2, <3>3, <3>4, SumZero
  <2> QED
    BY <1>2, <2>3, <2>4, <2>5
<1>6. ASSUME NEW c \in Children, <<c, c>> \notin wires
      PROVE  /\ \A v \in {In(c), Out(c)} : FlowInto(v, arcs) = FlowFrom(v, arcs)
             /\ Linked(c) => Carried(<<In(c), Out(c)>>) <= value[c]
  <2>1. ASSUME NEW v \in {In(c), Out(c)}, NEW a \in arcs, v \in {a[1], a[2]}
        PROVE  Back(a) \notin arcs
    <3> SUFFICES ASSUME Back(a) \in arcs PROVE FALSE
      OBVIOUS
    <3>1. Back(a)[1] = a[2] /\ Back(a)[2] = a[1]
      BY DEF Back
    <3>2. PICK w \in Wire : \/ a[1] = Out(w[1]) /\ a[2] = In(w[2]) /\ w[1] = w[2]
                            \/ a[1] = In(w[2]) /\ a[2] = Out(w[1]) /\ w[1] = w[2]
      <4>1. \/ \E d : a[1] = Source /\ a[2] = In(d)
            \/ \E d : a[1] = Out(d) /\ a[2] = Sink
            \/ \E w \in Wire : a[1] = Out(w[1]) /\ a[2] = In(w[2])
            \/ \E d : a[1] = In(d) /\ a[2] = Out(d)
        BY <1>4
      <4>2. \/ \E d : a[2] = Source /\ a[1] = In(d)
            \/ \E d : a[2] = Out(d) /\ a[1] = Sink
            \/ \E w \in Wire : a[2] = Out(w[1]) /\ a[1] = In(w[2])
            \/ \E d : a[2] = In(d) /\ a[1] = Out(d)
        BY <1>4, <3>1
      <4> QED
        BY <4>1, <4>2, VerticesApart
    <3>3. w[1] = c /\ w[2] = c
      BY <2>1, <3>2, VerticesApart
    <3>4. w \in wires /\ w = <<w[1], w[2]>>
      BY DEF Wire, Pairs
    <3> QED
      BY <1>6, <3>3, <3>4
  <2>2. ASSUME NEW v \in {In(c), Out(c)}
        PROVE  FlowInto(v, arcs) = FlowFrom(v, arcs)
    <3>1. v \in Vertices /\ v # Source /\ v # Sink
      BY VerticesApart
    <3>2. Sum(g, From({v})) = 0
      BY <1>3, <3>1 DEF Books
    <3>3. /\ FlowFrom(v, arcs) \in Int /\ FlowInto(v, arcs) \in Int
          /\ FlowFrom(v, arcs) = FlowInto(v, arcs) + Sum(g, From({v}))
      BY <1>2, <1>3, <2>1, <3>1, BooksAt
    <3> QED
      BY <3>2, <3>3
  <2>3. ASSUME Linked(c)
        PROVE  Carried(<<In(c), Out(c)>>) <= value[c]
    <3> DEFINE own == <<In(c), Out(c)>>
    <3>1. own \in arcs /\ own \in Own /\ Forward[own] = value[c] /\ own \in NetArc
      BY <1>2, <2>3, ForwardIs, NetworkIs DEF NetArc
    <3>2. own[1] = In(c) /\ In(c) \in Vertices
      BY VerticesApart
    <3> HIDE DEF own
    <3>3. Carried(own) = g[own]
      BY <1>2, <1>3, <2>1, <3>1, <3>2, BooksAt
    <3>4. Network[own] = value[c]
      BY <1>2, <3>1, NetworkIs
    <3>5. value[c] < Unlimited
      BY <1>2, ValuesLimited
    <3>6. value[c] \in Nat /\ cap[own] \in Nat /\ g[own] \in Int
      BY <1>2, <1>3, <3>1 DEF NetInv, NetArc, Books
    <3>7. cap[own] = value[c] - g[own]
      BY <1>3, <3>1, <3>4, <3>5, <3>6, InputAssumption DEF Books
    <3> QED
      BY <3>3, <3>6, <3>7 DEF own
  <2> QED
    BY <2>2, <2>3
<1> QED
  BY <1>5, <1>6

\* At every step the network carries a flow of the value counted, and in the
\* end the flow is the least total value of any children whose removal
\* separates the entries from the exits: what is reported is the one such set
\* nearest the entries, whatever the children, their values and wires and the
\* order the paths are found in.
THEOREM FindsTheNearestCut == Spec => []FlowAndCut
<1>1. FlowInv /\ BooksInv /\ Pairs => FlowAndCut
  BY Conserved, NearestCut, FlowInvSeparates DEF FlowAndCut
<1> QED
  BY <1>1, SpecBooks, SpecPairs, PTL

-----------------------------------------------------------------------------
(* The verdict. *)

\* Some child lies on the way just when a path leads to an exit.
LEMMA OnTheWayIs == (\A c \in Children : ~OnTheWay(c)) <=> Apart
<1> DEFINE back == {<<w[2], w[1]>> : w \in Wire}
<1>1. /\ \A b \in back : \E w \in Wire : b[1] = w[2] /\ b[2] = w[1]
      /\ \A b \in back : b[2] \in Children
  BY DEF Wire
<1>2. IsFiniteSet(Children) /\ Len(Child) \in Nat /\ Cardinality(Children) <= Len(Child)
      /\ Exit \subseteq Children
  BY ChildIs DEF Exit
<1>3. Onto = Spread(Exit, back, Len(Child))
  BY DEF Onto
<1>4. Exit \subseteq Onto
  <2> HIDE DEF back
  <2> QED
    BY <1>1, <1>2, <1>3, SpreadClosed
<1>5. ASSUME Apart PROVE \A c \in Children : ~OnTheWay(c)
  <2> DEFINE off == {c \in Children : c \notin Past({})}
  <2>1. Exit \subseteq off
    BY <1>2, <1>5 DEF Apart
  <2>2. \A b \in back : b[1] \in off => b[2] \in off
    BY <1>1, PastIs
  <2>3. Onto \subseteq off
    <3> HIDE DEF back, off
    <3> QED
      BY <1>2, <1>3, <2>1, <2>2, SpreadWithin
  <2> QED
    BY <2>3 DEF OnTheWay
<1>6. ASSUME NEW c \in Past({}) \cap Exit PROVE OnTheWay(c) /\ c \in Children
  BY <1>2, <1>4 DEF OnTheWay
<1> QED
  BY <1>5, <1>6 DEF Apart

\* Where no path leads to an exit, what is cut has no value.
LEMMA CutOfNothing ==
  ASSUME FlowInv, pc = "done", Apart, NEW c \in Cut
  PROVE  value[c] = 0
<1> DEFINE reach == ReachOf({Source})
           arcs == {a \in DOMAIN cap : Open(a)}
           S == {v \in Vertices : \A d \in Children : v = In(d) => Linked(d)}
<1>1. NetInv /\ cap = Network /\ value \in [Children -> Nat]
  BY DEF FlowInv, Called, NetInv
<1>2. c \in Children /\ In(c) \in reach /\ Out(c) \notin reach
  BY DEF Cut
<1>3. \A a \in arcs : a[1] \in S => a[2] \in S
  <2> SUFFICES ASSUME NEW a \in arcs PROVE a[2] \in S
    OBVIOUS
  <2>1. a[2] \in Vertices
    BY <1>1, NetworkIs
  <2>2. ASSUME NEW d \in Children, a[2] = In(d) PROVE Linked(d)
    <3>1. \/ \E e \in Entry : a = <<Source, In(e)>>
          \/ \E e \in Exit : a = <<Out(e), Sink>>
          \/ \E w \in Wire : a = <<Out(w[1]), In(w[2])>>
          \/ \E e \in Children : Linked(e) /\ a = <<In(e), Out(e)>>
      BY <1>1, OpenIs DEF Open
    <3>2. \/ d \in Entry
          \/ \E w \in Wire : d = w[2]
      BY <2>2, <3>1, VerticesApart
    <3> QED
      BY <3>2 DEF Entry, Linked, HasIn
  <2> QED
    BY <2>1, <2>2
<1>4. {Source} \subseteq S
  BY VerticesApart
<1>5. reach \subseteq S
  <2> HIDE DEF S
  <2> QED
    BY <1>3, <1>4, VerticesFinite, SpreadWithin DEF ReachOf
<1>6. Linked(c)
  BY <1>2, <1>5
<1>7. <<In(c), Out(c)>> \in DOMAIN cap /\ cap[<<In(c), Out(c)>>] = value[c]
  BY <1>1, <1>2, <1>6, ForwardIs, NetworkIs
<1>8. ~Open(<<In(c), Out(c)>>)
  BY <1>2, <1>7, ReachIs
<1> QED
  BY <1>1, <1>2, <1>7, <1>8 DEF Open
\* What a requirement on a subject with children is told.
LEMMA WholeIs ==
  ASSUME FlowInv, ~Working, NEW req \in Requirements, NEW subject \in Wholes
  PROVE  /\ ~subject.leaf /\ pc \in {"faulty", "no entry", "no exit", "done"}
         /\ req.quantity = "" => Verdict(req, subject) = Inconclusive("no quantity")
         /\ req.quantity = "other" =>
              \E why \in {"no service runs", "no service computes"} :
                Verdict(req, subject) = Inconclusive(why)
         /\ req.quantity = "configured" => Verdict(req, subject) = Whole(req)
         /\ req.quantity \in {"", "configured", "other"}
<1>1. ~subject.leaf /\ Child # <<>>
  BY DEF Wholes
<1>2. pc \in {"faulty", "no entry", "no exit", "done"}
  BY <1>1 DEF FlowInv, Working
<1>3. req.quantity \in {"", "configured", "other"} /\ req.case \in BOOLEAN
  BY DEF Requirements
<1> QED
  BY <1>1, <1>2, <1>3 DEF Verdict

LEMMA JudgeIs ==
  ASSUME NEW v, NEW req
  PROVE  /\ Judge(v, req) \in {"PASS", "FAIL"}
         /\ Judge(v, req) = "PASS" <=> Holds(v, req.comparison, req.limit)
BY DEF Judge

LEMMA IncomparableIs ==
  ASSUME NEW req \in Requirements
  PROVE  /\ Incomparable(req) \in {"", "no limit", "no comparison"}
         /\ Incomparable(req) = "" <=> req.limit # None /\ req.comparison # ""
         /\ req.limit # None => req.limit \in Int
<1>1. req.limit \in Limits \cup {None}
  BY DEF Requirements
<1> QED
  BY <1>1, LimitAssumption DEF Incomparable

LEMMA WholeSays ==
  ASSUME FlowInv, pc \in {"faulty", "no entry", "no exit", "done"}, NEW req \in Requirements
  PROVE  /\ pc = "faulty" => Whole(req) = Says("ERROR", "value", {Child[Min(Faulty)]})
         /\ pc \in {"no entry", "no exit"} => Whole(req) = Inconclusive(pc)
         /\ pc = "done" /\ Incomparable(req) # "" => Whole(req) = Inconclusive(Incomparable(req))
         /\ pc = "done" /\ Incomparable(req) = "" =>
              Whole(req) = Says(Judge(flow, req), Template, Cut)
<1>1. CASE pc = "faulty"
  BY <1>1 DEF Whole
<1>2. CASE pc \in {"no entry", "no exit"}
  BY <1>2 DEF Whole
<1>3. CASE pc = "done" /\ Incomparable(req) # ""
  BY <1>3 DEF Whole
<1>4. CASE pc = "done" /\ Incomparable(req) = ""
  BY <1>4 DEF Whole
<1> QED
  BY <1>1, <1>2, <1>3, <1>4

\* A child named as faulty is.
LEMMA FirstFault ==
  ASSUME FlowInv
  PROVE  /\ Faulty # {} => Child[Min(Faulty)] \in Children /\ Bad(value[Child[Min(Faulty)]])
         /\ Faulty = {} => \A c \in Children : ~Bad(value[c])
<1>1. Faulty \subseteq 1..Len(Child)
  BY ChildIs DEF Faulty
<1>2. ASSUME Faulty # {} PROVE Min(Faulty) \in Faulty
  <2>1. Faulty \subseteq Nat
    BY <1>1
  <2> QED
    BY <1>2, <2>1, MinIs
<1>3. \A i \in Faulty : Child[i] \in Children /\ Bad(value[Child[i]])
  BY ChildIs DEF Faulty
<1>4. ASSUME Faulty = {}, NEW c \in Children PROVE ~Bad(value[c])
  <2>1. PICK i \in DOMAIN Child : c = Child[i]
    BY ChildIs
  <2> QED
    BY <1>4, <2>1 DEF Faulty
<1> QED
  BY <1>2, <1>3, <1>4

\* At least the limit is what covers everything up to it.
LEMMA Covers ==
  ASSUME NEW number \in Nat, NEW limit \in Int
  PROVE  number >= limit <=> \A n \in 0..limit : n <= number
<1>1. CASE limit < 0
  BY <1>1
<1>2. CASE limit >= 0
  <2>1. limit \in 0..limit
    BY <1>2
  <2> QED
    BY <2>1
<1> QED
  BY <1>1, <1>2

\* The first half of what VerdictFollowsCapacity asks of one subject.
LEMMA JudgedIs ==
  ASSUME FlowInv, ~Working, NEW req \in Requirements, NEW subject \in Subjects
  PROVE  LET said == Verdict(req, subject)
             number == Analyse(subject)
         IN  /\ Judged(said) <=> /\ req.quantity = "configured"
                                 /\ req.limit # None /\ req.comparison # ""
                                 /\ number # Missing
             /\ Judged(said) => number \in Nat /\ said.kind = Judge(number, req)
<1> DEFINE said == Verdict(req, subject)
           number == Analyse(subject)
<1> SUFFICES /\ Judged(said) <=> /\ req.quantity = "configured"
                                 /\ req.limit # None /\ req.comparison # ""
                                 /\ number # Missing
             /\ Judged(said) => number \in Nat /\ said.kind = Judge(number, req)
  OBVIOUS
<1>1. \/ subject \in Wholes
      \/ subject.leaf /\ subject.attribute \in Values \cup {None}
  BY DEF Subjects
<1>2. flow \in Nat /\ Missing \notin Int
  BY InputAssumption DEF FlowInv
<1>3. CASE subject \in Wholes
  <2>1. ~subject.leaf /\ pc \in {"faulty", "no entry", "no exit", "done"}
    BY <1>3, WholeIs
  <2>2. number = IF pc = "done" THEN flow ELSE Missing
    BY <2>1 DEF Analyse
  <2>3. CASE req.quantity # "configured"
    <3>1. \E why : said = Inconclusive(why)
      BY <1>3, <2>3, WholeIs
    <3> HIDE DEF said, number
    <3>2. said.kind = "INCONCLUSIVE"
      BY <3>1 DEF Says, Inconclusive
    <3> QED
      BY <2>3, <3>2 DEF Judged
  <2>4. CASE req.quantity = "configured" /\ pc # "done"
    <3>1. said = Whole(req)
      BY <1>3, <2>4, WholeIs
    <3>2. \/ Whole(req) = Says("ERROR", "value", {Child[Min(Faulty)]})
          \/ Whole(req) = Inconclusive(pc)
      BY <2>1, <2>4, WholeSays
    <3> HIDE DEF said, number
    <3> QED
      BY <2>2, <2>4, <3>1, <3>2 DEF Judged, Says, Inconclusive
  <2>5. CASE req.quantity = "configured" /\ pc = "done" /\ Incomparable(req) # ""
    <3>1. said = Whole(req)
      BY <1>3, <2>5, WholeIs
    <3>2. Whole(req) = Inconclusive(Incomparable(req))
      BY <2>1, <2>5, WholeSays
    <3> HIDE DEF said, number
    <3>3. said.kind = "INCONCLUSIVE"
      BY <3>1, <3>2 DEF Says, Inconclusive
    <3> QED
      BY <2>5, <3>3, IncomparableIs DEF Judged
  <2>6. CASE req.quantity = "configured" /\ pc = "done" /\ Incomparable(req) = ""
    <3>1. said = Whole(req) /\ number = flow
      BY <1>3, <2>2, <2>6, WholeIs
    <3>2. Whole(req) = Says(Judge(flow, req), Template, Cut)
      BY <2>1, <2>6, WholeSays
    <3> HIDE DEF said, number
    <3>3. said.kind = Judge(flow, req)
      BY <3>1, <3>2 DEF Says
    <3>4. Judged(said) /\ number \in Nat /\ number # Missing
      BY <1>2, <3>1, <3>3, JudgeIs DEF Judged
    <3>5. req.limit # None /\ req.comparison # ""
      BY <2>6, IncomparableIs
    <3> QED
      BY <2>6, <3>1, <3>3, <3>4, <3>5
  <2> QED
    BY <2>3, <2>4, <2>5, <2>6
<1>4. CASE subject.leaf /\ subject.attribute \in Values \cup {None}
  <2>1. /\ Given(subject) => subject.attribute \in Nat /\ subject.attribute # Missing
        /\ number = IF Given(subject) THEN subject.attribute ELSE Missing
    <3>1. ASSUME Given(subject) PROVE subject.attribute \in Nat /\ subject.attribute # Missing
      BY <1>4, <3>1, InputAssumption DEF Given, Bad
    <3>2. number = IF Given(subject) THEN subject.attribute ELSE Missing
      BY <1>4 DEF Analyse
    <3> QED
      BY <3>1, <3>2
  <2>2. req.quantity \in {"", "configured", "other"}
    BY DEF Requirements
  <2>3. CASE req.quantity # "configured"
    <3>1. \E why : said = Inconclusive(why)
      BY <2>2, <2>3 DEF Verdict
    <3> HIDE DEF said, number
    <3>2. said.kind = "INCONCLUSIVE"
      BY <3>1 DEF Says, Inconclusive
    <3> QED
      BY <2>3, <3>2 DEF Judged
  <2>4. CASE req.quantity = "configured"
    <3>1. said = Leaf(req, subject)
      BY <1>4, <2>4 DEF Verdict
    <3> HIDE DEF said, number
    <3>2. CASE ~Given(subject)
      <4>1. \/ Leaf(req, subject) = Inconclusive("no children")
            \/ Leaf(req, subject) = Says("ERROR", "value", {"subject"})
        BY <3>2 DEF Leaf
      <4>2. said.kind \in {"ERROR", "INCONCLUSIVE"}
        <5>1. said = Inconclusive("no children") \/ said = Says("ERROR", "value", {"subject"})
          BY <3>1, <4>1
        <5>2. CASE said = Inconclusive("no children")
          BY <5>2 DEF Says, Inconclusive
        <5>3. CASE said = Says("ERROR", "value", {"subject"})
          BY <5>3 DEF Says
        <5> QED
          BY <5>1, <5>2, <5>3
      <4> QED
        BY <2>1, <3>2, <4>2 DEF Judged
    <3>3. CASE Given(subject)
      <4>1. Leaf(req, subject) =
              IF Incomparable(req) # "" THEN Inconclusive(Incomparable(req))
              ELSE Says(Judge(subject.attribute, req), "leaf", {})
        BY <3>3 DEF Leaf, Given
      <4>2. CASE Incomparable(req) # ""
        <5>1. said.kind = "INCONCLUSIVE"
          <6>1. said = Inconclusive(Incomparable(req))
            BY <3>1, <4>1, <4>2
          <6> QED
            BY <6>1 DEF Says, Inconclusive
        <5> QED
          BY <4>2, <5>1, IncomparableIs DEF Judged
      <4>3. CASE Incomparable(req) = ""
        <5>1. said.kind = Judge(number, req) /\ number \in Nat /\ number # Missing
          <6>1. number = subject.attribute /\ number \in Nat /\ number # Missing
            BY <2>1, <3>3
          <6>2. said.kind = Judge(subject.attribute, req)
            <7>1. Leaf(req, subject) = Says(Judge(subject.attribute, req), "leaf", {})
              BY <4>1, <4>3
            <7>2. said = Says(Judge(subject.attribute, req), "leaf", {})
              BY <3>1, <7>1
            <7> QED
              BY <7>2 DEF Says
          <6> QED
            BY <6>1, <6>2
        <5>2. Judged(said)
          BY <5>1, JudgeIs DEF Judged
        <5>3. req.limit # None /\ req.comparison # ""
          BY <4>3, IncomparableIs
        <5> QED
          BY <2>4, <5>1, <5>2, <5>3
      <4> QED
        BY <4>2, <4>3
    <3> QED
      BY <3>2, <3>3
  <2> QED
    BY <2>3, <2>4
<1> QED
  BY <1>1, <1>3, <1>4
LEMMA FlowInvFollows == FlowInv => VerdictFollowsCapacity
<1> SUFFICES ASSUME FlowInv, ~Working, NEW req \in Requirements, NEW subject \in Subjects
             PROVE  LET said == Verdict(req, subject)
                        number == Analyse(subject)
                    IN  /\ Judged(said) <=> /\ req.quantity = "configured"
                                            /\ req.limit # None /\ req.comparison # ""
                                            /\ number # Missing
                        /\ Judged(said) /\ req.comparison = "GE" =>
                             (said.kind = "PASS" <=> \A n \in 0..req.limit : n <= number)
  BY DEF VerdictFollowsCapacity
<1> DEFINE said == Verdict(req, subject)
           number == Analyse(subject)
<1>1. /\ Judged(said) <=> /\ req.quantity = "configured"
                          /\ req.limit # None /\ req.comparison # ""
                          /\ number # Missing
      /\ Judged(said) => number \in Nat /\ said.kind = Judge(number, req)
  BY JudgedIs
<1> SUFFICES ASSUME Judged(said), req.comparison = "GE"
             PROVE  said.kind = "PASS" <=> \A n \in 0..req.limit : n <= number
  BY <1>1
<1> HIDE DEF said, number
<1>2. number \in Nat /\ req.limit \in Int /\ said.kind = Judge(number, req)
  BY <1>1, IncomparableIs
<1>3. said.kind = "PASS" <=> Holds(number, req.comparison, req.limit)
  BY <1>2, JudgeIs
<1>4. Holds(number, req.comparison, req.limit) <=> number >= req.limit
  BY DEF Holds
<1> QED
  BY <1>2, <1>3, <1>4, Covers

LEMMA FlowInvNames == FlowInv => ErrorsNameTheChild /\ LimitIsNamed
<1> SUFFICES ASSUME FlowInv PROVE ErrorsNameTheChild /\ LimitIsNamed
  OBVIOUS
<1>1. ErrorsNameTheChild
  <2> SUFFICES ASSUME ~Working, NEW req \in Requirements, NEW subject \in Wholes
               PROVE  LET said == Verdict(req, subject)
                      IN  said.kind = "ERROR" <=>
                            /\ req.quantity = "configured"
                            /\ \E c \in Children : Bad(value[c]) /\ said.names = {c}
    BY DEF ErrorsNameTheChild
  <2> DEFINE said == Verdict(req, subject)
             named == \E c \in Children : Bad(value[c]) /\ said.names = {c}
  <2> SUFFICES said.kind = "ERROR" <=> req.quantity = "configured" /\ named
    OBVIOUS
  <2>1. pc \in {"faulty", "no entry", "no exit", "done"}
        /\ (req.quantity = "configured" => said = Whole(req))
        /\ (req.quantity # "configured" => \E why : said = Inconclusive(why))
    BY WholeIs
  <2>2. pc = "faulty" <=> Faulty # {}
    BY DEF FlowInv, Wholes
  <2> HIDE DEF said
  <2>3. CASE req.quantity # "configured"
    <3>1. PICK why : said = Inconclusive(why)
      BY <2>1, <2>3
    <3>2. said.kind = "INCONCLUSIVE"
      BY <3>1 DEF Inconclusive, Says
    <3> QED
      BY <2>3, <3>2
  <2>4. CASE req.quantity = "configured" /\ pc = "faulty"
    <3>1. said = Says("ERROR", "value", {Child[Min(Faulty)]})
      BY <2>1, <2>4, WholeSays
    <3>2. said.kind = "ERROR" /\ said.names = {Child[Min(Faulty)]}
      BY <3>1 DEF Says
    <3>3. Child[Min(Faulty)] \in Children /\ Bad(value[Child[Min(Faulty)]])
      BY <2>2, <2>4, FirstFault
    <3> QED
      BY <2>4, <3>2, <3>3
  <2>5. CASE req.quantity = "configured" /\ pc # "faulty"
    <3>1. ~named
      BY <2>2, <2>5, FirstFault
    <3>2. CASE pc = "done" /\ Incomparable(req) = ""
      <4>1. said = Says(Judge(flow, req), Template, Cut)
        BY <2>1, <2>5, <3>2, WholeSays
      <4>2. said.kind = Judge(flow, req)
        BY <4>1 DEF Says
      <4>3. said.kind # "ERROR"
        BY <4>2, JudgeIs
      <4> QED
        BY <3>1, <4>3
    <3>3. CASE ~(pc = "done" /\ Incomparable(req) = "")
      <4>1. \E why : said = Inconclusive(why)
        BY <2>1, <2>5, <3>3, WholeSays
      <4>2. said.kind = "INCONCLUSIVE"
        BY <4>1 DEF Inconclusive, Says
      <4> QED
        BY <3>1, <4>2
    <3> QED
      BY <3>2, <3>3
  <2> QED
    BY <2>3, <2>4, <2>5
<1>2. LimitIsNamed
  <2> SUFFICES ASSUME pc = "done", NEW req \in Requirements, NEW subject \in Wholes
               PROVE  LET said == Verdict(req, subject)
                          apart == \A c \in Children : ~OnTheWay(c)
                      IN  Judged(said) =>
                            /\ said.template = "no path" => apart /\ said.names = {}
                            /\ said.template = "limited by" =>
                                 /\ said.names # {}
                                 /\ apart => \A c \in said.names : value[c] = 0
    BY DEF LimitIsNamed
  <2> DEFINE said == Verdict(req, subject)
             apart == \A c \in Children : ~OnTheWay(c)
  <2>1. ~Working
    BY DEF Working
  <2>2. Wholes \subseteq Subjects
    BY DEF Subjects
  <2>3. Judged(said) => req.quantity = "configured" /\ req.limit # None /\ req.comparison # ""
    BY <2>1, <2>2, JudgedIs
  <2>4. req.quantity = "configured" => said = Whole(req)
    BY <2>1, WholeIs
  <2>5. apart <=> Apart
    BY OnTheWayIs
  <2> SUFFICES ASSUME Judged(said)
               PROVE  /\ said.template = "no path" => apart /\ said.names = {}
                      /\ said.template = "limited by" =>
                           /\ said.names # {}
                           /\ apart => \A c \in said.names : value[c] = 0
    OBVIOUS
  <2> HIDE DEF said, apart
  <2>6. said = Says(Judge(flow, req), Template, Cut)
    BY <2>3, <2>4, IncomparableIs, WholeSays
  <2>7. said.template = Template /\ said.names = Cut
    BY <2>6 DEF Says
  <2>8. ASSUME Cut = {} PROVE apart
    <3>1. Past({}) \cap Exit = {}
      BY <2>8, FlowInvSeparates DEF CutSeparates, Separates
    <3> QED
      BY <2>5, <3>1 DEF Apart
  <2>9. ASSUME apart PROVE \A c \in Cut : value[c] = 0
    BY <2>5, <2>9, CutOfNothing
  <2>10. (Template = "no path" <=> Cut = {}) /\ (Template = "limited by" <=> Cut # {})
    BY DEF Template
  <2> QED
    BY <2>7, <2>8, <2>9, <2>10
<1> QED
  BY <1>1, <1>2

\* The verdict and Part.capacity agree: whatever the wiring and the values, a
\* comparable requirement is judged exactly when its subject has a capacity,
\* and against that number.
THEOREM VerdictIsOfTheCapacity == Spec => []VerdictFollowsCapacity
BY SpecFlowInv, FlowInvFollows, PTL

\* An error names a child whose value is bad; no path is only said where there
\* is none, and what is named where there is none has the value 0.
THEOREM ReasonIsTrue == Spec => []ReasonNamesTheCulprit
<1>1. FlowInv => ReasonNamesTheCulprit
  BY FlowInvNames DEF ReasonNamesTheCulprit
<1> QED
  BY <1>1, SpecFlowInv, PTL
=============================================================================
