---------------------------- MODULE EditingProofs ---------------------------
(* That every operation keeps the document a tree and loses nothing, whatever *)
(* pages and programs ask of the service, that its numbers outline it, and   *)
(* that a page ends up showing it, for any shipped document and any number of *)
(* nodes made and of acts.  Numbers is a recursion along the parents: that   *)
(* there is one numbering, and only one, rests on the tree's being grounded, *)
(* and so does that an edit leaves the rest of the document in its order.    *)
EXTENDS Editing, SequenceTheorems, FiniteSetTheorems, WellFoundedInduction, TLAPS

-----------------------------------------------------------------------------
(* Lists.  Every change of a list of children replaces a stretch of it.      *)

NoDup(s) == \A i, j \in DOMAIN s : s[i] = s[j] => i = j

\* s with t in place of what stands between position a and position b.
Spliced(s, a, t, b) == SubSeq(s, 1, a) \o t \o SubSeq(s, b, Len(s))

LEMMA SplicedShape ==
  ASSUME NEW E, NEW s \in Seq(E), NEW t \in Seq(E),
         NEW a \in 0..Len(s), NEW b \in (a + 1)..(Len(s) + 1)
  PROVE  /\ Spliced(s, a, t, b) \in Seq(E)
         /\ Len(Spliced(s, a, t, b)) = a + Len(t) + Len(s) - b + 1
         /\ \A i \in 1..(a + Len(t) + Len(s) - b + 1) :
              Spliced(s, a, t, b)[i] =
                IF i <= a THEN s[i]
                ELSE IF i <= a + Len(t) THEN t[i - a]
                ELSE s[i - a - Len(t) + b - 1]
<1> DEFINE u == SubSeq(s, 1, a)
           v == SubSeq(s, b, Len(s))
<1>0. Len(s) \in Nat /\ Len(t) \in Nat /\ a \in Nat /\ b \in Nat
  OBVIOUS
<1>1. u \in Seq(E) /\ Len(u) = a /\ \A i \in 1..a : u[i] = s[i]
  <2>1. \A i \in 1..a : s[i] \in E
    BY <1>0, ElementOfSeq
  <2> QED
    BY <1>0, <2>1, SubSeqProperties
<1>2. v \in Seq(E) /\ Len(v) = Len(s) - b + 1 /\ \A i \in 1..(Len(s) - b + 1) : v[i] = s[b + i - 1]
  <2>1. \A i \in b..Len(s) : s[i] \in E
    BY <1>0, ElementOfSeq
  <2>2. /\ v \in Seq(E)
        /\ Len(v) = IF b <= Len(s) THEN Len(s) - b + 1 ELSE 0
        /\ \A i \in 1..(Len(s) - b + 1) : v[i] = s[b + i - 1]
    BY <1>0, <2>1, SubSeqProperties
  <2> QED
    BY <1>0, <2>2
<1> HIDE DEF u, v
<1> DEFINE x == u \o t
<1>3. /\ x \in Seq(E) /\ Len(x) = a + Len(t)
      /\ \A i \in 1..(a + Len(t)) : x[i] = IF i <= a THEN u[i] ELSE t[i - a]
  BY <1>1, ConcatProperties
<1>5. Spliced(s, a, t, b) = x \o v
  BY DEF Spliced, u, v
<1> HIDE DEF x
<1>4. /\ x \o v \in Seq(E) /\ Len(x \o v) = a + Len(t) + Len(s) - b + 1
      /\ \A i \in 1..(a + Len(t) + Len(s) - b + 1) :
           (x \o v)[i] = IF i <= a + Len(t) THEN x[i] ELSE v[i - (a + Len(t))]
  <2>1. Len(x) + Len(v) = a + Len(t) + Len(s) - b + 1
    BY <1>0, <1>2, <1>3
  <2>2. /\ x \o v \in Seq(E)
        /\ Len(x \o v) = Len(x) + Len(v)
        /\ \A i \in 1..(Len(x) + Len(v)) :
             (x \o v)[i] = IF i <= Len(x) THEN x[i] ELSE v[i - Len(x)]
    BY <1>2, <1>3, ConcatProperties
  <2> QED
    BY <1>3, <2>1, <2>2
<1>6. ASSUME NEW i \in 1..(a + Len(t) + Len(s) - b + 1)
      PROVE  Spliced(s, a, t, b)[i] =
                IF i <= a THEN s[i]
                ELSE IF i <= a + Len(t) THEN t[i - a]
                ELSE s[i - a - Len(t) + b - 1]
  <2>1. CASE i <= a
    BY <1>0, <1>1, <1>3, <1>4, <1>5, <2>1
  <2>2. CASE i > a /\ i <= a + Len(t)
    BY <1>0, <1>3, <1>4, <1>5, <2>2
  <2>3. CASE i > a + Len(t)
    <3>1. i - (a + Len(t)) \in 1..(Len(s) - b + 1)
      BY <1>0, <2>3
    <3>2. v[i - (a + Len(t))] = s[b + (i - (a + Len(t))) - 1]
      BY <1>2, <3>1
    <3>3. b + (i - (a + Len(t))) - 1 = i - a - Len(t) + b - 1
      BY <1>0
    <3> QED
      BY <1>0, <1>4, <1>5, <2>3, <3>2, <3>3
  <2> QED
    BY <1>0, <2>1, <2>2, <2>3
<1> QED
  BY <1>4, <1>5, <1>6

\* What a list holds is what its positions hold.
LEMMA RangeIs ==
  ASSUME NEW E, NEW s \in Seq(E)
  PROVE  /\ Range(s) = {s[i] : i \in 1..Len(s)} /\ Range(s) \subseteq E
         /\ DOMAIN s = 1..Len(s) /\ Len(s) \in Nat
         /\ s = <<>> <=> Range(s) = {}
<1>1. DOMAIN s = 1..Len(s) /\ Len(s) \in Nat
  BY LenProperties
<1>2. Range(s) = {s[i] : i \in 1..Len(s)} /\ Range(s) \subseteq E
  BY RangeEquality, RangeOfSeq
<1>3. s = <<>> <=> Len(s) = 0
  BY <1>1, EmptySeq
<1> QED
  BY <1>1, <1>2, <1>3

\* A splice holds what was kept and what was put in, each once if it was so.
LEMMA SplicedHolds ==
  ASSUME NEW E, NEW s \in Seq(E), NEW t \in Seq(E),
         NEW a \in 0..Len(s), NEW b \in (a + 1)..(Len(s) + 1)
  PROVE  /\ Spliced(s, a, t, b) \in Seq(E)
         /\ Range(Spliced(s, a, t, b)) =
              Range(t) \cup {s[i] : i \in {j \in 1..Len(s) : j <= a \/ j >= b}}
         /\ NoDup(s) /\ NoDup(t)
            /\ (\A i \in 1..Len(s) : i <= a \/ i >= b => s[i] \notin Range(t))
              => NoDup(Spliced(s, a, t, b))
<1> DEFINE w == Spliced(s, a, t, b)
           n == a + Len(t) + Len(s) - b + 1
<1>0. Len(s) \in Nat /\ Len(t) \in Nat /\ a \in Nat /\ b \in Nat
  OBVIOUS
<1>1. w \in Seq(E) /\ Len(w) = n /\ n \in Nat
  <2>1. w \in Seq(E) /\ Len(w) = n
    BY SplicedShape
  <2>2. n \in Nat
    BY <1>0
  <2> QED
    BY <2>1, <2>2
<1>2. \A i \in 1..n :
        w[i] = IF i <= a THEN s[i]
               ELSE IF i <= a + Len(t) THEN t[i - a]
               ELSE s[i - a - Len(t) + b - 1]
  BY SplicedShape
<1>3. /\ Range(w) = {w[i] : i \in 1..n} /\ DOMAIN w = 1..n
      /\ Range(t) = {t[i] : i \in 1..Len(t)} /\ DOMAIN t = 1..Len(t)
      /\ DOMAIN s = 1..Len(s)
  BY <1>1, RangeIs
<1> HIDE DEF w
<1>4. Range(w) = Range(t) \cup {s[i] : i \in {j \in 1..Len(s) : j <= a \/ j >= b}}
  <2>1. ASSUME NEW i \in 1..n
        PROVE  w[i] \in Range(t) \cup {s[k] : k \in {j \in 1..Len(s) : j <= a \/ j >= b}}
    <3>1. CASE i <= a
      <4>1. w[i] = s[i] /\ i \in 1..Len(s)
        BY <1>0, <1>2, <3>1
      <4> QED
        BY <3>1, <4>1
    <3>2. CASE i > a /\ i <= a + Len(t)
      <4>1. w[i] = t[i - a] /\ i - a \in 1..Len(t)
        BY <1>0, <1>2, <3>2
      <4> QED
        BY <1>3, <4>1
    <3>3. CASE i > a + Len(t)
      <4> DEFINE k == i - a - Len(t) + b - 1
      <4>1. w[i] = s[k] /\ k \in 1..Len(s) /\ k >= b
        BY <1>0, <1>2, <3>3
      <4> HIDE DEF k
      <4> QED
        BY <4>1
    <3>4. i <= a \/ (i > a /\ i <= a + Len(t)) \/ i > a + Len(t)
      BY <1>0
    <3> QED
      BY <3>1, <3>2, <3>3, <3>4
  <2>2. ASSUME NEW j \in 1..Len(t) PROVE t[j] \in Range(w)
    <3>1. a + j \in 1..n /\ w[a + j] = t[j]
      BY <1>0, <1>2
    <3> QED
      BY <1>3, <3>1
  <2>3. ASSUME NEW j \in 1..Len(s), j <= a PROVE s[j] \in Range(w)
    <3>1. j \in 1..n /\ w[j] = s[j]
      BY <1>0, <1>2, <2>3
    <3> QED
      BY <1>3, <3>1
  <2>4. ASSUME NEW j \in 1..Len(s), j >= b PROVE s[j] \in Range(w)
    <3> DEFINE k == j + a + Len(t) - b + 1
    <3>1. k \in 1..n /\ k > a + Len(t) /\ k - a - Len(t) + b - 1 = j
      BY <1>0, <2>4
    <3>2. w[k] = s[j]
      BY <1>0, <1>2, <3>1
    <3> QED
      BY <1>3, <3>1, <3>2
  <2> QED
    BY <1>3, <2>1, <2>2, <2>3, <2>4
<1>5. ASSUME NoDup(s), NoDup(t), \A i \in 1..Len(s) : i <= a \/ i >= b => s[i] \notin Range(t)
      PROVE  NoDup(w)
  <2> SUFFICES ASSUME NEW i \in 1..n, NEW j \in 1..n, w[i] = w[j], i < j PROVE FALSE
    BY <1>0, <1>1, <1>3 DEF NoDup
  <2> DEFINE at(k) == IF k <= a THEN k ELSE k - a - Len(t) + b - 1
  <2>1. ASSUME NEW k \in 1..n, k <= a \/ k > a + Len(t)
        PROVE  w[k] = s[at(k)] /\ at(k) \in 1..Len(s) /\ (at(k) <= a \/ at(k) >= b)
    BY <1>0, <1>2, <2>1
  <2>2. ASSUME NEW k \in 1..n, k > a, k <= a + Len(t)
        PROVE  w[k] = t[k - a] /\ k - a \in 1..Len(t)
    BY <1>0, <1>2, <2>2
  <2>3. CASE (i <= a \/ i > a + Len(t)) /\ (j <= a \/ j > a + Len(t))
    <3>1. at(i) # at(j)
      BY <1>0, <2>3
    <3> HIDE DEF at
    <3> QED
      BY <1>3, <1>5, <2>1, <2>3, <3>1 DEF NoDup
  <2>4. CASE i > a /\ i <= a + Len(t) /\ j > a /\ j <= a + Len(t)
    <3>1. i - a # j - a
      BY <1>0
    <3> QED
      BY <1>3, <1>5, <2>2, <2>4, <3>1 DEF NoDup
  <2>5. ASSUME NEW k \in 1..n, NEW l \in 1..n, k > a, k <= a + Len(t),
               l <= a \/ l > a + Len(t)
        PROVE  w[k] # w[l]
    <3> HIDE DEF at
    <3> QED
      BY <1>3, <1>5, <2>1, <2>2, <2>5
  <2> QED
    BY <1>0, <2>3, <2>4, <2>5
<1> QED
  BY <1>1, <1>4, <1>5 DEF w

LEMMA InsertHolds ==
  ASSUME NEW E, NEW s \in Seq(E), NoDup(s), NEW index \in Int, NEW n \in E, n \notin Range(s)
  PROVE  /\ Insert(s, index, n) \in Seq(E)
         /\ Range(Insert(s, index, n)) = Range(s) \cup {n}
         /\ NoDup(Insert(s, index, n))
<1> DEFINE low == Min({index, Len(s)})
           at == Max({0, low})
<1>0. Len(s) \in Nat /\ DOMAIN s = 1..Len(s)
  BY RangeIs
<1>1. low \in Int /\ low <= Len(s)
  <2>1. \E x \in {index, Len(s)} : \A y \in {index, Len(s)} : x <= y
    BY <1>0
  <2>2. low \in {index, Len(s)} /\ \A y \in {index, Len(s)} : low <= y
    BY <2>1, Zenon DEF Min
  <2> QED
    BY <1>0, <2>2
<1>2. at \in 0..Len(s)
  <2> HIDE DEF low
  <2>1. \E x \in {0, low} : \A y \in {0, low} : x >= y
    BY <1>1
  <2>2. at \in {0, low} /\ at >= 0
    BY <1>1, <2>1 DEF Max
  <2> QED
    BY <1>0, <1>1, <2>2
<1> HIDE DEF at
<1>3. Insert(s, index, n) = Spliced(s, at, <<n>>, at + 1)
  <2>1. Insert(s, index, n) = InsertAt(s, at + 1, n)
    BY DEF Insert, at
  <2>2. (at + 1) - 1 = at
    BY <1>2
  <2> QED
    BY <2>1, <2>2 DEF InsertAt, Spliced
<1>4. at \in 0..Len(s) /\ at + 1 \in (at + 1)..(Len(s) + 1)
  BY <1>0, <1>2
<1>5. <<n>> \in Seq(E) /\ Range(<<n>>) = {n} /\ NoDup(<<n>>)
  <2>1. <<n>> \in Seq(E) /\ Len(<<n>>) = 1 /\ <<n>>[1] = n
    OBVIOUS
  <2>2. Range(<<n>>) = {<<n>>[i] : i \in 1..1} /\ DOMAIN <<n>> = 1..1
    BY <2>1, RangeIs
  <2> QED
    BY <2>1, <2>2 DEF NoDup
<1>6. {s[i] : i \in {j \in 1..Len(s) : j <= at \/ j >= at + 1}} = Range(s)
  <2>1. {j \in 1..Len(s) : j <= at \/ j >= at + 1} = 1..Len(s)
    BY <1>2
  <2> QED
    BY <2>1, RangeIs
<1>7. \A i \in 1..Len(s) : s[i] \notin Range(<<n>>)
  BY <1>5, RangeIs
<1> DEFINE t == <<n>>
           b == at + 1
<1> HIDE DEF t, b
<1>9. /\ b \in (at + 1)..(Len(s) + 1)
      /\ t \in Seq(E) /\ NoDup(t) /\ \A i \in 1..Len(s) : s[i] \notin Range(t)
  BY <1>4, <1>5, <1>7 DEF t, b
<1>8. /\ Spliced(s, at, t, b) \in Seq(E)
      /\ Range(Spliced(s, at, t, b)) =
           Range(t) \cup {s[i] : i \in {j \in 1..Len(s) : j <= at \/ j >= b}}
      /\ NoDup(Spliced(s, at, t, b))
  BY <1>4, <1>9, SplicedHolds
<1> QED
  BY <1>3, <1>5, <1>6, <1>8 DEF t, b

\* Cutting out one position and putting t there.
LEMMA PromoteHolds ==
  ASSUME NEW E, NEW s \in Seq(E), NoDup(s), NEW i \in 1..Len(s), NEW t \in Seq(E), NoDup(t),
         Range(t) \cap Range(s) = {}
  PROVE  /\ Spliced(s, i - 1, t, i + 1) \in Seq(E)
         /\ Range(Spliced(s, i - 1, t, i + 1)) = (Range(s) \ {s[i]}) \cup Range(t)
         /\ NoDup(Spliced(s, i - 1, t, i + 1))
<1>0. Len(s) \in Nat /\ DOMAIN s = 1..Len(s) /\ Range(s) = {s[j] : j \in 1..Len(s)}
  BY RangeIs
<1>1. i - 1 \in 0..Len(s) /\ i + 1 \in ((i - 1) + 1)..(Len(s) + 1)
  BY <1>0
<1>2. {s[k] : k \in {j \in 1..Len(s) : j <= i - 1 \/ j >= i + 1}} = Range(s) \ {s[i]}
  <2>1. {j \in 1..Len(s) : j <= i - 1 \/ j >= i + 1} = 1..Len(s) \ {i}
    BY <1>0
  <2> QED
    BY <1>0, <2>1 DEF NoDup
<1>3. \A k \in 1..Len(s) : s[k] \notin Range(t)
  BY <1>0
<1> DEFINE a == i - 1
           b == i + 1
<1> HIDE DEF a, b
<1>4. a \in 0..Len(s) /\ b \in (a + 1)..(Len(s) + 1)
  BY <1>1 DEF a, b
<1>5. /\ Spliced(s, a, t, b) \in Seq(E)
      /\ Range(Spliced(s, a, t, b)) =
           Range(t) \cup {s[k] : k \in {j \in 1..Len(s) : j <= a \/ j >= b}}
      /\ NoDup(Spliced(s, a, t, b))
  BY <1>3, <1>4, SplicedHolds
<1> QED
  BY <1>2, <1>5 DEF a, b

LEMMA RemoveHolds ==
  ASSUME NEW E, NEW s \in Seq(E), NoDup(s), NEW i \in 1..Len(s)
  PROVE  /\ RemoveAt(s, i) \in Seq(E)
         /\ Range(RemoveAt(s, i)) = Range(s) \ {s[i]}
         /\ NoDup(RemoveAt(s, i))
<1>1. <<>> \in Seq(E) /\ Range(<<>>) = {} /\ NoDup(<<>>)
  <2>1. <<>> \in Seq(E) /\ DOMAIN <<>> = {}
    OBVIOUS
  <2> QED
    BY <2>1, RangeIs DEF NoDup
<1>2. RemoveAt(s, i) = Spliced(s, i - 1, <<>>, i + 1)
  <2>1. \A j \in 1..(i - 1) : s[j] \in E
    BY ElementOfSeq
  <2>2. SubSeq(s, 1, i - 1) \in Seq(E)
    BY <2>1, SubSeqProperties
  <2>3. SubSeq(s, 1, i - 1) \o <<>> = SubSeq(s, 1, i - 1)
    BY <2>2, ConcatEmptySeq
  <2> QED
    BY <2>3 DEF RemoveAt, Spliced
<1> DEFINE t == <<>>
<1> HIDE DEF t
<1>3. t \in Seq(E) /\ Range(t) = {} /\ NoDup(t)
  BY <1>1 DEF t
<1>4. /\ Spliced(s, i - 1, t, i + 1) \in Seq(E)
      /\ Range(Spliced(s, i - 1, t, i + 1)) = (Range(s) \ {s[i]}) \cup Range(t)
      /\ NoDup(Spliced(s, i - 1, t, i + 1))
  BY <1>3, PromoteHolds
<1> QED
  BY <1>2, <1>3, <1>4 DEF t

LEMMA ReplaceHolds ==
  ASSUME NEW E, NEW s \in Seq(E), NoDup(s), NEW i \in 1..Len(s), NEW n \in E, n \notin Range(s)
  PROVE  /\ [s EXCEPT ![i] = n] \in Seq(E)
         /\ Range([s EXCEPT ![i] = n]) = (Range(s) \ {s[i]}) \cup {n}
         /\ NoDup([s EXCEPT ![i] = n])
<1> DEFINE w == [s EXCEPT ![i] = n]
<1>0. Range(s) = {s[j] : j \in 1..Len(s)} /\ DOMAIN s = 1..Len(s)
  BY RangeIs
<1>1. w \in Seq(E) /\ Len(w) = Len(s) /\ \A j \in 1..Len(s) : w[j] = IF j = i THEN n ELSE s[j]
  BY ExceptSeq
<1> HIDE DEF w
<1>2. Range(w) = {w[j] : j \in 1..Len(s)} /\ DOMAIN w = 1..Len(s)
  BY <1>1, RangeIs
<1>3. Range(w) = (Range(s) \ {s[i]}) \cup {n}
  BY <1>0, <1>1, <1>2 DEF NoDup
<1>4. NoDup(w)
  BY <1>0, <1>1, <1>2 DEF NoDup
<1> QED
  BY <1>1, <1>3, <1>4 DEF w

LEMMA AppendHolds ==
  ASSUME NEW E, NEW s \in Seq(E), NoDup(s), NEW n \in E, n \notin Range(s)
  PROVE  /\ Append(s, n) \in Seq(E)
         /\ Range(Append(s, n)) = Range(s) \cup {n}
         /\ NoDup(Append(s, n))
<1> DEFINE w == Append(s, n)
<1>0. Range(s) = {s[j] : j \in 1..Len(s)} /\ DOMAIN s = 1..Len(s) /\ Len(s) \in Nat
  BY RangeIs
<1>1. /\ w \in Seq(E) /\ Len(w) = Len(s) + 1
      /\ \A j \in 1..Len(s) : w[j] = s[j]
      /\ w[Len(s) + 1] = n
  BY AppendProperties
<1> HIDE DEF w
<1>2. Range(w) = {w[j] : j \in 1..(Len(s) + 1)} /\ DOMAIN w = 1..(Len(s) + 1)
  BY <1>1, RangeIs
<1>3. 1..(Len(s) + 1) = 1..Len(s) \cup {Len(s) + 1}
  BY <1>0
<1>4. Range(w) = Range(s) \cup {n}
  BY <1>0, <1>1, <1>2, <1>3
<1>5. NoDup(w)
  BY <1>0, <1>1, <1>2, <1>3 DEF NoDup
<1> QED
  BY <1>1, <1>4, <1>5 DEF w

-----------------------------------------------------------------------------
(* The inductive invariant of the document.                                  *)

Kids(p) == Range(kids[p])

Unique ==
  /\ \A p \in Nodes : NoDup(kids[p])
  /\ \A p, q \in Nodes : p # q => Kids(p) \cap Kids(q) = {}

\* No set of nodes holds all its own parents.
Grounded ==
  \A S \in SUBSET Ids : S # {} => \E n \in S : \A p \in S : n \notin Kids(p)

\* What is in the tree was shipped or has been made.
Made == \A n \in InTree : n \in Shipped \/ n < next

\* A former parent is one still, whatever became of it.
FormerCanHold ==
  \A r \in Requirements : former[r] # Root =>
    /\ kind[former[r]] # "prose"
    /\ former[r] \in Shipped \/ former[r] < next

TIInv ==
  /\ TreeTypeOK
  /\ ProseIsLeaf
  /\ Unique
  /\ Grounded
  /\ NothingLost
  /\ Made
  /\ FormerCanHold

LEMMA InTreeIs == \A n : n \in InTree <=> \E p \in Nodes : n \in Kids(p)
BY DEF InTree, Kids

LEMMA KidsIs ==
  ASSUME TreeTypeOK, NEW p \in Nodes
  PROVE  /\ kids[p] \in Seq(Ids) /\ Kids(p) \subseteq Ids
         /\ Kids(p) = {kids[p][i] : i \in 1..Len(kids[p])}
         /\ DOMAIN kids[p] = 1..Len(kids[p])
         /\ kids[p] = <<>> <=> Kids(p) = {}
<1>1. kids[p] \in Seq(Ids)
  BY DEF TreeTypeOK
<1> QED
  BY <1>1, RangeIs DEF Kids

LEMMA ParentIs ==
  ASSUME TreeTypeOK, NEW n \in InTree
  PROVE  /\ Parent(n) \in Nodes /\ n \in Kids(Parent(n))
         /\ Index(n) \in 1..Len(kids[Parent(n)])
         /\ kids[Parent(n)][Index(n)] = n
         /\ n \in Ids
<1>1. Parent(n) \in Nodes /\ n \in Kids(Parent(n))
  BY InTreeIs DEF Parent, Kids
<1>2. \E i \in DOMAIN kids[Parent(n)] : kids[Parent(n)][i] = n
  BY <1>1, KidsIs
<1>3. Index(n) \in DOMAIN kids[Parent(n)] /\ kids[Parent(n)][Index(n)] = n
  BY <1>2, Zenon DEF Index
<1> QED
  BY <1>1, <1>3, KidsIs

\* A node that holds something can hold something.
LEMMA HolderCanHold ==
  ASSUME TIInv, NEW p \in Nodes, Kids(p) # {}
  PROVE  p = Root \/ (p \in InTree /\ kind[p] # "prose")
<1> SUFFICES ASSUME p # Root PROVE p \in InTree /\ kind[p] # "prose"
  OBVIOUS
<1>1. p \in Ids
  BY DEF Nodes
<1>2. kids[p] # <<>>
  BY KidsIs DEF TIInv
<1> QED
  BY <1>1, <1>2 DEF TIInv, NothingLost, ProseIsLeaf

LEMMA FreshIsNew ==
  ASSUME TIInv, NEW k \in Fresh, IsNewId(k)
  PROVE  /\ k \in Ids /\ k # Root /\ k \notin InTree /\ Kids(k) = {} /\ kids[k] = <<>>
         /\ k \notin Requirements /\ k \notin Shipped
         /\ \A r \in Requirements : former[r] # k
         /\ \A r \in Requirements :
              former[r] # Root => former[r] \in Shipped \/ former[r] < k + 1
         /\ \A n \in InTree : n # k /\ (n \in Shipped \/ n < k + 1)
         /\ k + 1 \in 1..(MaxFresh + 1) /\ next <= k
         /\ {j \in Fresh : j < k + 1} \ Shipped \subseteq InTree \cup {k}
<1>1. k \in Ids /\ k # Root /\ k \notin InTree /\ next <= k /\ k \in 1..MaxFresh
  BY TreeAssumption DEF Ids, IsNewId, Fresh
<1>2. Kids(k) = {} /\ kids[k] = <<>>
  BY <1>1, KidsIs DEF TIInv, NothingLost, Nodes
<1>3. k \notin Requirements /\ k \notin Shipped
  BY <1>1, TreeAssumption DEF TIInv, NothingLost
<1>4. \A r \in Requirements : former[r] # k
  BY <1>1, <1>3, TreeAssumption DEF TIInv, FormerCanHold, TreeTypeOK
<1>5. k + 1 \in 1..(MaxFresh + 1) /\ next \in Int
  BY <1>1, TreeAssumption DEF TIInv, TreeTypeOK
<1>6. \A n \in InTree : n # k /\ (n \in Shipped \/ n < k + 1)
  <2> SUFFICES ASSUME NEW n \in InTree, n \notin Shipped PROVE n < k + 1
    BY <1>1
  <2>1. n \in 1..MaxFresh /\ n < next
    BY ParentIs DEF TIInv, Made, Ids, Fresh
  <2> QED
    BY <1>1, <1>5, <2>1, TreeAssumption
<1>8. \A r \in Requirements : former[r] # Root => former[r] \in Shipped \/ former[r] < k + 1
  <2> SUFFICES ASSUME NEW r \in Requirements, former[r] # Root, former[r] \notin Shipped
               PROVE  former[r] < k + 1
    OBVIOUS
  <2>1. former[r] \in 1..MaxFresh /\ former[r] < next
    BY DEF TIInv, FormerCanHold, TreeTypeOK, Nodes, Ids, Fresh
  <2> QED
    BY <1>1, <1>5, <2>1, TreeAssumption
<1>7. ASSUME NEW j \in Fresh, j < k + 1, j \notin Shipped PROVE j \in InTree \cup {k}
  <2>0. j \in Int /\ k \in Int
    BY TreeAssumption DEF Fresh
  <2>1. CASE j < next
    BY <1>7, <2>1 DEF TIInv, NothingLost
  <2>2. CASE j >= next /\ j # k
    <3>1. j \in next..(k - 1)
      BY <1>5, <1>7, <2>0, <2>2
    <3> QED
      BY <3>1 DEF IsNewId
  <2> QED
    BY <1>5, <2>0, <2>1, <2>2
<1> QED
  BY <1>1, <1>2, <1>3, <1>4, <1>5, <1>6, <1>7, <1>8

-----------------------------------------------------------------------------
(* What each operation does to what every node holds. *)

\* The lists are lists still, with no node twice in any.
ListsOK ==
  /\ kids \in [Nodes -> Seq(Ids)]
  /\ \A x \in Nodes : NoDup(kids[x])

LEMMA MoveShape ==
  ASSUME TIInv, NEW n \in Ids, NEW p \in Nodes, NEW i \in Int, Move(n, p, i)
  PROVE  /\ ListsOK'
         /\ \A x \in Nodes : Kids(x)' = (Kids(x) \ {n}) \cup (IF x = p THEN {n} ELSE {})
<1> DEFINE q == Parent(n)
           detached == [kids EXCEPT ![q] = RemoveAt(@, Index(n))]
<1>0. TreeTypeOK /\ kids \in [Nodes -> Seq(Ids)]
  BY DEF TIInv, TreeTypeOK
<1>1. /\ q \in Nodes /\ n \in Kids(q) /\ Index(n) \in 1..Len(kids[q])
      /\ kids[q][Index(n)] = n
  BY <1>0, ParentIs DEF Move, CanMove
<1>2. kids' = [detached EXCEPT ![p] = Insert(@, i, n)]
  BY DEF Move
<1>3. /\ RemoveAt(kids[q], Index(n)) \in Seq(Ids)
      /\ Range(RemoveAt(kids[q], Index(n))) = Kids(q) \ {n}
      /\ NoDup(RemoveAt(kids[q], Index(n)))
  BY <1>0, <1>1, RemoveHolds DEF TIInv, Unique, Kids
<1>4. \A x \in Nodes : detached[x] = IF x = q THEN RemoveAt(kids[q], Index(n)) ELSE kids[x]
  BY <1>0, <1>1
<1>5. detached \in [Nodes -> Seq(Ids)]
  BY <1>0, <1>3
<1> HIDE DEF q
<1>6. \A x \in Nodes : x # q => n \notin Kids(x)
  BY <1>1 DEF TIInv, Unique
<1>7. \A x \in Nodes : NoDup(detached[x]) /\ Range(detached[x]) = Kids(x) \ {n}
  BY <1>3, <1>4, <1>6 DEF TIInv, Unique, Kids
<1> HIDE DEF detached
<1>8. /\ Insert(detached[p], i, n) \in Seq(Ids)
      /\ Range(Insert(detached[p], i, n)) = Range(detached[p]) \cup {n}
      /\ NoDup(Insert(detached[p], i, n))
  BY <1>0, <1>5, <1>7, InsertHolds
<1>9. \A x \in Nodes : kids'[x] = IF x = p THEN Insert(detached[p], i, n) ELSE detached[x]
  BY <1>2, <1>5
<1>10. kids' \in [Nodes -> Seq(Ids)]
  BY <1>2, <1>5, <1>8
<1> QED
  BY <1>7, <1>8, <1>9, <1>10 DEF ListsOK, Kids

LEMMA InsertHeadingShape ==
  ASSUME TIInv, NEW above \in InTree, NEW k \in Fresh, IsNewId(k),
         kids' = [kids EXCEPT ![Parent(above)][Index(above)] = k, ![k] = <<above>>]
  PROVE  /\ ListsOK'
         /\ \A x \in Nodes : Kids(x)' =
              IF x = Parent(above) THEN (Kids(x) \ {above}) \cup {k}
              ELSE IF x = k THEN {above} ELSE Kids(x)
         /\ k # Parent(above)
<1> DEFINE q == Parent(above)
<1>0. TreeTypeOK /\ kids \in [Nodes -> Seq(Ids)]
  BY DEF TIInv, TreeTypeOK
<1>1. /\ q \in Nodes /\ above \in Kids(q) /\ Index(above) \in 1..Len(kids[q])
      /\ kids[q][Index(above)] = above /\ above \in Ids
  BY <1>0, ParentIs
<1>2. k \in Ids /\ k \in Nodes /\ k \notin InTree /\ Kids(k) = {} /\ k # q
  BY <1>1, FreshIsNew DEF Nodes
<1> HIDE DEF q
<1> DEFINE s == [kids[q] EXCEPT ![Index(above)] = k]
<1>3. /\ s \in Seq(Ids)
      /\ Range(s) = (Kids(q) \ {above}) \cup {k}
      /\ NoDup(s)
  <2>1. k \notin Range(kids[q])
    BY <1>1, <1>2, InTreeIs DEF Kids
  <2> QED
    BY <1>0, <1>1, <1>2, <2>1, ReplaceHolds DEF TIInv, Unique, Kids
<1>4. <<above>> \in Seq(Ids) /\ Range(<<above>>) = {above} /\ NoDup(<<above>>)
  <2>1. <<above>> \in Seq(Ids) /\ Len(<<above>>) = 1 /\ <<above>>[1] = above
    BY <1>1
  <2>2. Range(<<above>>) = {<<above>>[i] : i \in 1..1} /\ DOMAIN <<above>> = 1..1
    BY <2>1, RangeIs
  <2> QED
    BY <2>1, <2>2 DEF NoDup
<1>5. kids' = [[kids EXCEPT ![q] = s] EXCEPT ![k] = <<above>>]
  BY DEF q
<1> HIDE DEF s
<1>6. /\ \A x \in Nodes : kids'[x] = IF x = k THEN <<above>> ELSE IF x = q THEN s ELSE kids[x]
      /\ kids' \in [Nodes -> Seq(Ids)]
  BY <1>0, <1>1, <1>2, <1>3, <1>4, <1>5
<1>7. ListsOK'
  BY <1>3, <1>4, <1>6 DEF ListsOK, TIInv, Unique
<1>8. \A x \in Nodes : Kids(x)' =
        IF x = q THEN (Kids(x) \ {above}) \cup {k} ELSE IF x = k THEN {above} ELSE Kids(x)
  BY <1>2, <1>3, <1>4, <1>6 DEF Kids
<1> QED
  BY <1>2, <1>7, <1>8 DEF q

\* A leaf is added: by AddProse anywhere in a list, by Include at its end.
LEMMA AddLeafShape ==
  ASSUME TIInv, NEW p \in Nodes, NEW n \in Ids, n \notin InTree, NEW s,
         \/ s = Append(kids[p], n)
         \/ \E i \in Int : s = Insert(kids[p], i, n),
         kids' = [kids EXCEPT ![p] = s]
  PROVE  /\ ListsOK'
         /\ \A x \in Nodes : Kids(x)' = Kids(x) \cup (IF x = p THEN {n} ELSE {})
<1>0. kids \in [Nodes -> Seq(Ids)] /\ NoDup(kids[p])
  BY DEF TIInv, TreeTypeOK, Unique
<1>1. n \notin Range(kids[p])
  BY InTreeIs DEF Kids
<1>2. s \in Seq(Ids) /\ Range(s) = Kids(p) \cup {n} /\ NoDup(s)
  <2>1. CASE s = Append(kids[p], n)
    BY <1>0, <1>1, <2>1, AppendHolds DEF Kids
  <2>2. ASSUME NEW i \in Int, s = Insert(kids[p], i, n)
        PROVE  s \in Seq(Ids) /\ Range(s) = Kids(p) \cup {n} /\ NoDup(s)
    BY <1>0, <1>1, <2>2, InsertHolds DEF Kids
  <2> QED
    BY <2>1, <2>2
<1>3. /\ \A x \in Nodes : kids'[x] = IF x = p THEN s ELSE kids[x]
      /\ kids' \in [Nodes -> Seq(Ids)]
  BY <1>0, <1>2
<1> QED
  BY <1>2, <1>3 DEF ListsOK, TIInv, Unique, Kids

LEMMA ExcludeShape ==
  ASSUME TIInv, NEW r \in InTree, kids' = Promoted(r)
  PROVE  /\ ListsOK'
         /\ r # Parent(r)
         /\ \A x \in Nodes : Kids(x)' =
              IF x = r THEN {}
              ELSE IF x = Parent(r) THEN (Kids(x) \ {r}) \cup Kids(r)
              ELSE Kids(x)
<1> DEFINE p == Parent(r)
           i == Index(r)
<1>0. TreeTypeOK /\ kids \in [Nodes -> Seq(Ids)]
  BY DEF TIInv, TreeTypeOK
<1>1. /\ p \in Nodes /\ r \in Kids(p) /\ i \in 1..Len(kids[p]) /\ kids[p][i] = r
      /\ r \in Ids /\ r \in Nodes
  BY <1>0, ParentIs DEF Nodes
<1>2. r # p
  <2>1. {r} \in SUBSET Ids /\ {r} # {}
    BY <1>1
  <2>2. \E n \in {r} : \A x \in {r} : n \notin Kids(x)
    BY <2>1 DEF TIInv, Grounded
  <2> QED
    BY <1>1, <2>2
<1> DEFINE s == Spliced(kids[p], i - 1, kids[r], i + 1)
<1>3. kids' = [[kids EXCEPT ![p] = s] EXCEPT ![r] = <<>>]
  BY DEF Promoted, Spliced
<1> HIDE DEF p, i
<1>4. s \in Seq(Ids) /\ Range(s) = (Kids(p) \ {r}) \cup Kids(r) /\ NoDup(s)
  <2>1. /\ kids[p] \in Seq(Ids) /\ kids[r] \in Seq(Ids)
        /\ NoDup(kids[p]) /\ NoDup(kids[r])
        /\ Range(kids[r]) \cap Range(kids[p]) = {}
    BY <1>0, <1>1, <1>2 DEF TIInv, Unique, Kids
  <2> QED
    BY <1>1, <2>1, PromoteHolds DEF Kids
<1> HIDE DEF s
<1>5. <<>> \in Seq(Ids) /\ Range(<<>>) = {} /\ NoDup(<<>>)
  <2>1. <<>> \in Seq(Ids) /\ DOMAIN <<>> = {}
    OBVIOUS
  <2> QED
    BY <2>1, RangeIs DEF NoDup
<1>6. /\ \A x \in Nodes : kids'[x] = IF x = r THEN <<>> ELSE IF x = p THEN s ELSE kids[x]
      /\ kids' \in [Nodes -> Seq(Ids)]
  BY <1>0, <1>1, <1>3, <1>4, <1>5
<1>7. ListsOK'
  BY <1>4, <1>5, <1>6 DEF ListsOK, TIInv, Unique
<1>8. \A x \in Nodes : Kids(x)' =
        IF x = r THEN {} ELSE IF x = p THEN (Kids(x) \ {r}) \cup Kids(r) ELSE Kids(x)
  BY <1>4, <1>5, <1>6 DEF Kids
<1> QED
  BY <1>2, <1>7, <1>8 DEF p

-----------------------------------------------------------------------------
(* Every operation keeps the invariant. *)

\* What a list of no children is, after a step.
LEMMA LeafAfter ==
  ASSUME ListsOK', NEW n \in Nodes
  PROVE  kids'[n] = <<>> <=> Kids(n)' = {}
<1>1. kids'[n] \in Seq(Ids)
  BY DEF ListsOK
<1> QED
  BY <1>1, RangeIs DEF Kids

LEMMA MoveKeeps ==
  ASSUME TIInv, NEW n \in Ids, NEW p \in Nodes, NEW i \in Int, Move(n, p, i)
  PROVE  TIInv'
<1>1. /\ ListsOK'
      /\ \A x \in Nodes : Kids(x)' = (Kids(x) \ {n}) \cup (IF x = p THEN {n} ELSE {})
  BY MoveShape
<1>2. n \in InTree /\ CanHold(p) /\ p # n /\ p \notin Below(n)
      /\ UNCHANGED <<kind, text, excluded, former, next>>
  BY DEF Move, CanMove
<1>3. InTree' = InTree
  <2>1. \A m : m \in InTree' <=> \E x \in Nodes : m \in Kids(x)'
    BY DEF InTree, Kids
  <2>2. n \in InTree'
    BY <1>1, <2>1
  <2>3. \A m : m # n => (m \in InTree' <=> m \in InTree)
    <3>1. \A m : m # n => \A x \in Nodes : m \in Kids(x)' <=> m \in Kids(x)
      BY <1>1
    <3> QED
      BY <2>1, <3>1, InTreeIs
  <2> QED
    BY <1>2, <2>2, <2>3
<1>4. TreeTypeOK'
  BY <1>1, <1>2 DEF TIInv, TreeTypeOK, ListsOK
<1>5. Unique'
  BY <1>1 DEF Unique, TIInv, ListsOK
<1>6. Grounded'
  <2> SUFFICES ASSUME NEW S \in SUBSET Ids, S # {},
                      \A m \in S : \E x \in S : m \in Kids(x)'
               PROVE  FALSE
    BY DEF Grounded
  <2>0. S \subseteq Nodes /\ Ids \subseteq Nodes /\ Root \notin Ids
    BY TreeAssumption DEF Nodes
  <2>1. CASE n \notin S
    <3>1. \A m \in S : \E x \in S : m \in Kids(x)
      BY <1>1, <2>0, <2>1
    <3> QED
      BY <3>1 DEF TIInv, Grounded
  <2>2. CASE n \in S
    <3>1. p \in S
      <4>1. PICK x \in S : n \in Kids(x)'
        BY <2>2
      <4> QED
        BY <1>1, <2>0, <4>1
    <3>2. PICK T \in SUBSET Ids :
            Kids(n) \subseteq T /\ (\A s \in T : Kids(s) \subseteq T) /\ p \notin T
      <4>1. p \in Ids
        BY <3>1
      <4> QED
        BY <1>2, <4>1 DEF Below, Kids
    <3> DEFINE U == S \ (T \cup {n})
    <3>3. U \in SUBSET Ids /\ p \in U
      BY <1>2, <3>1, <3>2
    <3>4. ASSUME NEW m \in U PROVE \E x \in U : m \in Kids(x)
      <4>1. PICK x \in S : m \in Kids(x)'
        OBVIOUS
      <4>2. m \in Kids(x)
        BY <1>1, <2>0, <4>1
      <4>3. x \notin T /\ x # n
        BY <3>2, <4>2
      <4> QED
        BY <4>2, <4>3
    <3> QED
      BY <3>3, <3>4 DEF TIInv, Grounded
  <2> QED
    BY <2>1, <2>2
<1>7. ASSUME NEW x \in Nodes, Kids(x)' # {}
      PROVE  x = Root \/ (x \in InTree /\ kind[x] # "prose")
  <2>1. CASE x = p
    BY <1>2, <2>1 DEF CanHold
  <2>2. CASE x # p
    BY <1>1, <1>7, <2>2, HolderCanHold
  <2> QED
    BY <2>1, <2>2
<1>8. ASSUME NEW x \in Ids, kids'[x] # <<>> PROVE x \in InTree /\ kind[x] # "prose"
  <2>1. x \in Nodes /\ x # Root
    BY TreeAssumption DEF Nodes
  <2> QED
    BY <1>1, <1>7, <1>8, <2>1, LeafAfter
<1>9. InTree \subseteq Ids
  BY ParentIs DEF TIInv
<1>10. ProseIsLeaf' /\ NothingLost'
  BY <1>2, <1>3, <1>8, <1>9 DEF TIInv, ProseIsLeaf, NothingLost
<1>11. Made' /\ FormerCanHold'
  BY <1>2, <1>3 DEF TIInv, Made, FormerCanHold
<1> QED
  BY <1>4, <1>5, <1>6, <1>10, <1>11 DEF TIInv

\* A leaf put under a node of the tree leaves it grounded.
LEMMA LeafKeepsGrounded ==
  ASSUME TIInv, NEW p \in Nodes, NEW n \in Ids, p # n, Kids(n) = {},
         \A x \in Nodes : Kids(x)' = Kids(x) \cup (IF x = p THEN {n} ELSE {})
  PROVE  Grounded'
<1> SUFFICES ASSUME NEW S \in SUBSET Ids, S # {},
                    \A m \in S : \E x \in S : m \in Kids(x)'
             PROVE  FALSE
  BY DEF Grounded
<1>0. S \subseteq Nodes /\ n \in Nodes
  BY DEF Nodes
<1>1. Kids(n)' = {}
  BY <1>0
<1> DEFINE U == S \ {n}
<1>2. U # {}
  <2> SUFFICES ASSUME S = {n} PROVE FALSE
    OBVIOUS
  <2> QED
    BY <1>1
<1>3. ASSUME NEW m \in U PROVE \E x \in U : m \in Kids(x)
  <2>1. PICK x \in S : m \in Kids(x)'
    OBVIOUS
  <2> QED
    BY <1>0, <1>1, <2>1
<1> QED
  BY <1>2, <1>3 DEF TIInv, Grounded

LEMMA AddProseKeeps ==
  ASSUME TIInv, NEW p \in Nodes, NEW i \in Int, NEW t \in Texts, AddProse(p, i, t)
  PROVE  TIInv'
<1>0. PICK k \in Fresh : Make(k, "prose", t) /\ kids' = [kids EXCEPT ![p] = Insert(@, i, k)]
  BY DEF AddProse
<1>1. /\ IsNewId(k) /\ next' = k + 1 /\ UNCHANGED <<excluded, former>>
      /\ kind' = [kind EXCEPT ![k] = "prose"] /\ text' = [text EXCEPT ![k] = t]
      /\ CanHold(p)
  BY <1>0 DEF Make, AddProse
<1>2. /\ k \in Ids /\ k # Root /\ k \notin InTree /\ Kids(k) = {} /\ kids[k] = <<>>
      /\ k \notin Requirements /\ k \notin Shipped
      /\ \A r \in Requirements : former[r] # k
      /\ \A r \in Requirements :
           former[r] # Root => former[r] \in Shipped \/ former[r] < k + 1
      /\ \A n \in InTree : n # k /\ (n \in Shipped \/ n < k + 1)
      /\ k + 1 \in 1..(MaxFresh + 1) /\ next <= k
      /\ {j \in Fresh : j < k + 1} \ Shipped \subseteq InTree \cup {k}
  BY <1>1, FreshIsNew
<1>3. /\ ListsOK'
      /\ \A x \in Nodes : Kids(x)' = Kids(x) \cup (IF x = p THEN {k} ELSE {})
  BY <1>0, <1>2, AddLeafShape
<1>4. InTree' = InTree \cup {k}
  <2>1. \A m : m \in InTree' <=> \E x \in Nodes : m \in Kids(x)'
    BY DEF InTree, Kids
  <2> QED
    BY <1>3, <2>1, InTreeIs
<1>5. p # k
  BY <1>1, <1>2 DEF CanHold
<1>6. TreeTypeOK'
  BY <1>1, <1>2, <1>3 DEF TIInv, TreeTypeOK, ListsOK, Kinds
<1>7. Unique'
  BY <1>2, <1>3, InTreeIs DEF Unique, TIInv, ListsOK
<1>8. Grounded'
  BY <1>2, <1>3, <1>5, LeafKeepsGrounded
<1>9. ASSUME NEW x \in Ids, kids'[x] # <<>> PROVE x \in InTree /\ kind'[x] # "prose"
  <2>1. x \in Nodes /\ x # Root
    BY TreeAssumption DEF Nodes
  <2>2. Kids(x)' # {}
    BY <1>3, <1>9, <2>1, LeafAfter
  <2>3. x # k
    BY <1>2, <1>3, <1>5, <2>1, <2>2
  <2>4. x \in InTree /\ kind[x] # "prose"
    <3>1. CASE x = p
      BY <1>1, <2>1, <3>1 DEF CanHold
    <3>2. CASE x # p
      BY <1>3, <2>1, <2>2, <3>2, HolderCanHold
    <3> QED
      BY <3>1, <3>2
  <2> QED
    BY <1>1, <2>3, <2>4 DEF TIInv, TreeTypeOK
<1>10. InTree \subseteq Ids
  BY ParentIs DEF TIInv
<1>11. ProseIsLeaf' /\ NothingLost'
  BY <1>1, <1>2, <1>4, <1>9, <1>10 DEF TIInv, ProseIsLeaf, NothingLost
<1>12. Made'
  BY <1>1, <1>2, <1>4 DEF TIInv, Made, Fresh
<1>13. FormerCanHold'
  <2> SUFFICES ASSUME NEW r \in Requirements, former[r] # Root
               PROVE  kind'[former[r]] # "prose" /\ (former[r] \in Shipped \/ former[r] < next')
    BY <1>1 DEF FormerCanHold
  <2>1. former[r] \in Ids /\ former[r] # k
    BY <1>2 DEF TIInv, TreeTypeOK, Nodes
  <2>2. kind'[former[r]] = kind[former[r]]
    BY <1>1, <2>1 DEF TIInv, TreeTypeOK
  <2> QED
    BY <1>1, <1>2, <2>2 DEF TIInv, FormerCanHold
<1> QED
  BY <1>6, <1>7, <1>8, <1>11, <1>12, <1>13 DEF TIInv

LEMMA InsertHeadingKeeps ==
  ASSUME TIInv, NEW above \in Ids, NEW t \in Texts, InsertHeading(above, t)
  PROVE  TIInv'
<1> DEFINE q == Parent(above)
<1>0. PICK k \in Fresh :
        /\ Make(k, "heading", t)
        /\ kids' = [kids EXCEPT ![q][Index(above)] = k, ![k] = <<above>>]
  BY DEF InsertHeading
<1>1. /\ IsNewId(k) /\ next' = k + 1 /\ UNCHANGED <<excluded, former>>
      /\ kind' = [kind EXCEPT ![k] = "heading"] /\ text' = [text EXCEPT ![k] = t]
      /\ above \in InTree
  BY <1>0 DEF Make, InsertHeading
<1>2. /\ k \in Ids /\ k # Root /\ k \notin InTree /\ Kids(k) = {} /\ kids[k] = <<>>
      /\ k \notin Requirements /\ k \notin Shipped
      /\ \A r \in Requirements : former[r] # k
      /\ \A r \in Requirements :
           former[r] # Root => former[r] \in Shipped \/ former[r] < k + 1
      /\ \A n \in InTree : n # k /\ (n \in Shipped \/ n < k + 1)
      /\ k + 1 \in 1..(MaxFresh + 1) /\ next <= k
      /\ {j \in Fresh : j < k + 1} \ Shipped \subseteq InTree \cup {k}
  BY <1>1, FreshIsNew
<1>3. /\ ListsOK'
      /\ \A x \in Nodes : Kids(x)' =
           IF x = q THEN (Kids(x) \ {above}) \cup {k}
           ELSE IF x = k THEN {above} ELSE Kids(x)
      /\ k # q
  BY <1>0, <1>1, InsertHeadingShape
<1>4. q \in Nodes /\ above \in Kids(q) /\ above # k
  BY <1>1, <1>2, ParentIs DEF TIInv
<1> HIDE DEF q
<1>5. \A x \in Nodes : x # q => above \notin Kids(x)
  BY <1>4 DEF TIInv, Unique
<1>6. InTree' = InTree \cup {k}
  <2>1. \A m : m \in InTree' <=> \E x \in Nodes : m \in Kids(x)'
    BY DEF InTree, Kids
  <2>2. k \in InTree' /\ above \in InTree'
    BY <1>2, <1>3, <1>4, <2>1 DEF Nodes
  <2>3. \A m : m # k /\ m # above => (m \in InTree' <=> m \in InTree)
    <3>1. \A m : m # k /\ m # above => \A x \in Nodes : m \in Kids(x)' <=> m \in Kids(x)
      BY <1>2, <1>3
    <3> QED
      BY <2>1, <3>1, InTreeIs
  <2> QED
    BY <1>1, <2>2, <2>3
<1>7. TreeTypeOK'
  BY <1>1, <1>2, <1>3 DEF TIInv, TreeTypeOK, ListsOK, Kinds
<1>8. Unique'
  <2>1. \A x \in Nodes : k \notin Kids(x)
    BY <1>2, InTreeIs
  <2> QED
    BY <1>3, <1>4, <1>5, <2>1 DEF Unique, TIInv, ListsOK
<1>9. Grounded'
  <2> SUFFICES ASSUME NEW S \in SUBSET Ids, S # {},
                      \A m \in S : \E x \in S : m \in Kids(x)'
               PROVE  FALSE
    BY DEF Grounded
  <2>0. S \subseteq Nodes /\ k \in Nodes
    BY <1>2 DEF Nodes
  <2> DEFINE U == S \ {k}
  <2>1. U # {}
    BY <1>3, <1>4, <2>0
  <2>2. ASSUME NEW m \in U PROVE \E x \in U : m \in Kids(x)
    <3>1. PICK x \in S : m \in Kids(x)'
      OBVIOUS
    <3>2. CASE x = k
      <4>1. m = above
        BY <1>3, <2>0, <3>1, <3>2
      <4>2. PICK y \in S : k \in Kids(y)'
        BY <3>2
      <4>3. y = q
        BY <1>2, <1>3, <1>4, <2>0, <4>2, InTreeIs
      <4> QED
        BY <1>3, <1>4, <4>1, <4>3
    <3>3. CASE x # k
      BY <1>3, <2>0, <3>1, <3>3
    <3> QED
      BY <3>2, <3>3
  <2> QED
    BY <2>1, <2>2 DEF TIInv, Grounded
<1>10. ASSUME NEW x \in Ids, kids'[x] # <<>>
       PROVE  (x \in InTree \/ x = k) /\ kind'[x] # "prose"
  <2>1. x \in Nodes /\ x # Root
    BY TreeAssumption DEF Nodes
  <2>2. Kids(x)' # {}
    BY <1>3, <1>10, <2>1, LeafAfter
  <2>3. CASE x = k
    BY <1>1, <2>3 DEF TIInv, TreeTypeOK
  <2>4. CASE x # k
    <3>1. Kids(x) # {}
      BY <1>3, <1>4, <2>1, <2>2, <2>4
    <3>2. x \in InTree /\ kind[x] # "prose"
      BY <2>1, <3>1, HolderCanHold
    <3> QED
      BY <1>1, <2>4, <3>2 DEF TIInv, TreeTypeOK
  <2> QED
    BY <2>3, <2>4
<1>11. InTree \subseteq Ids
  BY ParentIs DEF TIInv
<1>12. ProseIsLeaf' /\ NothingLost'
  BY <1>1, <1>2, <1>6, <1>10, <1>11 DEF TIInv, ProseIsLeaf, NothingLost
<1>13. Made'
  BY <1>1, <1>2, <1>6 DEF TIInv, Made, Fresh
<1>14. FormerCanHold'
  <2> SUFFICES ASSUME NEW r \in Requirements, former[r] # Root
               PROVE  kind'[former[r]] # "prose" /\ (former[r] \in Shipped \/ former[r] < next')
    BY <1>1 DEF FormerCanHold
  <2>1. former[r] \in Ids /\ former[r] # k
    BY <1>2 DEF TIInv, TreeTypeOK, Nodes
  <2>2. kind'[former[r]] = kind[former[r]]
    BY <1>1, <2>1 DEF TIInv, TreeTypeOK
  <2> QED
    BY <1>1, <1>2, <2>2 DEF TIInv, FormerCanHold
<1> QED
  BY <1>7, <1>8, <1>9, <1>12, <1>13, <1>14 DEF TIInv

LEMMA IncludeKeeps ==
  ASSUME TIInv, NEW r \in Requirements, Include(r)
  PROVE  TIInv'
<1> DEFINE p == IF former[r] \in InTree THEN former[r] ELSE Root
<1>1. /\ r \in excluded /\ kids' = [kids EXCEPT ![p] = Append(@, r)]
      /\ excluded' = excluded \ {r} /\ former' = [former EXCEPT ![r] = Root]
      /\ UNCHANGED <<kind, text, next>>
  BY DEF Include
<1>2. /\ r \in Ids /\ r \in Shipped /\ r \notin InTree /\ kids[r] = <<>> /\ Kids(r) = {}
  BY <1>1, KidsIs DEF TIInv, NothingLost, Requirements, Ids, Nodes
<1>3. p \in Nodes /\ p # r /\ (p = Root \/ (p \in InTree /\ kind[p] # "prose"))
  BY <1>2, ParentIs, TreeAssumption DEF TIInv, FormerCanHold, Nodes
<1> HIDE DEF p
<1>4. /\ ListsOK'
      /\ \A x \in Nodes : Kids(x)' = Kids(x) \cup (IF x = p THEN {r} ELSE {})
  BY <1>1, <1>2, <1>3, AddLeafShape
<1>5. InTree' = InTree \cup {r}
  <2>1. \A m : m \in InTree' <=> \E x \in Nodes : m \in Kids(x)'
    BY DEF InTree, Kids
  <2> QED
    BY <1>3, <1>4, <2>1, InTreeIs
<1>6. TreeTypeOK'
  BY <1>1, <1>4 DEF TIInv, TreeTypeOK, ListsOK, Nodes
<1>7. Unique'
  BY <1>2, <1>4, InTreeIs DEF Unique, TIInv, ListsOK
<1>8. Grounded'
  BY <1>2, <1>3, <1>4, LeafKeepsGrounded
<1>9. ASSUME NEW x \in Ids, kids'[x] # <<>> PROVE x \in InTree /\ kind[x] # "prose"
  <2>1. x \in Nodes /\ x # Root
    BY TreeAssumption DEF Nodes
  <2>2. Kids(x)' # {}
    BY <1>4, <1>9, <2>1, LeafAfter
  <2>3. CASE x = p
    BY <1>3, <2>1, <2>3
  <2>4. CASE x # p
    BY <1>4, <2>1, <2>2, <2>4, HolderCanHold
  <2> QED
    BY <2>3, <2>4
<1>10. InTree \subseteq Ids
  BY ParentIs DEF TIInv
<1>11. ProseIsLeaf' /\ NothingLost'
  BY <1>1, <1>2, <1>5, <1>9, <1>10 DEF TIInv, ProseIsLeaf, NothingLost
<1>12. Made' /\ FormerCanHold'
  BY <1>1, <1>2, <1>5 DEF TIInv, Made, FormerCanHold, TreeTypeOK
<1> QED
  BY <1>6, <1>7, <1>8, <1>11, <1>12 DEF TIInv

LEMMA ExcludeKeeps ==
  ASSUME TIInv, NEW r \in Requirements, Exclude(r)
  PROVE  TIInv'
<1>0. r \in InTree /\ kids' = Promoted(r)
  BY DEF Exclude
<1> PICK p \in Nodes : p = Parent(r)
  BY <1>0, ParentIs DEF TIInv
<1>1. /\ excluded' = excluded \cup {r} /\ former' = [former EXCEPT ![r] = p]
      /\ UNCHANGED <<kind, text, next>>
  BY DEF Exclude
<1>2. /\ ListsOK'
      /\ r # p
      /\ \A x \in Nodes : Kids(x)' =
           IF x = r THEN {} ELSE IF x = p THEN (Kids(x) \ {r}) \cup Kids(r) ELSE Kids(x)
  BY <1>0, ExcludeShape
<1>3. r \in Kids(p) /\ r \in Ids /\ r \in Nodes
  BY <1>0, ParentIs DEF TIInv, Nodes
<1>4. \A x \in Nodes : x # p => r \notin Kids(x)
  BY <1>3 DEF TIInv, Unique
<1>5. p = Root \/ (p \in InTree /\ kind[p] # "prose")
  BY <1>3, HolderCanHold
<1>6. InTree' = InTree \ {r}
  <2>1. \A m : m \in InTree' <=> \E x \in Nodes : m \in Kids(x)'
    BY DEF InTree, Kids
  <2>2. r \notin InTree'
    BY <1>2, <1>3, <1>4, <2>1
  <2>3. ASSUME NEW m, m # r, m \in InTree PROVE m \in InTree'
    <3>1. PICK x \in Nodes : m \in Kids(x)
      BY <2>3, InTreeIs
    <3>2. CASE x = r
      BY <1>2, <1>3, <2>1, <3>1, <3>2
    <3>3. CASE x # r
      BY <1>2, <2>1, <2>3, <3>1, <3>3
    <3> QED
      BY <3>2, <3>3
  <2>4. ASSUME NEW m, m \in InTree' PROVE m \in InTree
    BY <1>2, <1>3, <2>1, <2>4, InTreeIs
  <2> QED
    BY <2>2, <2>3, <2>4
<1>7. TreeTypeOK'
  BY <1>1, <1>2, <1>3 DEF TIInv, TreeTypeOK, ListsOK
<1>8. Unique'
  <2>1. Kids(r) \cap Kids(p) = {} /\ \A x, y \in Nodes : x # y => Kids(x) \cap Kids(y) = {}
    BY <1>2, <1>3 DEF Unique, TIInv
  <2>2. \A x \in Nodes : x # r /\ x # p => Kids(x)' = Kids(x)
    BY <1>2
  <2>3. Kids(r)' = {} /\ Kids(p)' = (Kids(p) \ {r}) \cup Kids(r)
    BY <1>2, <1>3
  <2>4. \A x \in Nodes : x # r /\ x # p => Kids(x)' \cap Kids(p)' = {}
    BY <1>3, <2>1, <2>2, <2>3
  <2>5. ASSUME NEW x \in Nodes, NEW y \in Nodes, x # y PROVE Kids(x)' \cap Kids(y)' = {}
    BY <2>1, <2>2, <2>3, <2>4, <2>5
  <2> QED
    BY <1>2, <2>5 DEF Unique, ListsOK
<1>9. Grounded'
  <2> SUFFICES ASSUME NEW S \in SUBSET Ids, S # {},
                      \A m \in S : \E x \in S : m \in Kids(x)'
               PROVE  FALSE
    BY DEF Grounded
  <2>0. S \subseteq Nodes
    BY DEF Nodes
  <2> DEFINE U == IF p \in S THEN S \cup {r} ELSE S
  <2>1. U \in SUBSET Ids /\ U # {} /\ S \subseteq U /\ (p \in S => r \in U)
    BY <1>3
  <2>2. ASSUME NEW m \in S PROVE \E x \in U : m \in Kids(x)
    <3>1. PICK x \in S : m \in Kids(x)'
      OBVIOUS
    <3> QED
      BY <1>2, <2>0, <2>1, <3>1
  <2>3. ASSUME NEW m \in U PROVE \E x \in U : m \in Kids(x)
    <3>1. CASE m \in S
      BY <2>2, <3>1
    <3>2. CASE m \notin S
      BY <1>3, <3>2
    <3> QED
      BY <3>1, <3>2
  <2> HIDE DEF U
  <2> QED
    BY <2>1, <2>3 DEF TIInv, Grounded
<1>10. ASSUME NEW x \in Ids, kids'[x] # <<>> PROVE x \in InTree \ {r} /\ kind[x] # "prose"
  <2>1. x \in Nodes /\ x # Root
    BY TreeAssumption DEF Nodes
  <2>2. Kids(x)' # {}
    BY <1>2, <1>10, <2>1, LeafAfter
  <2>3. x # r /\ Kids(x) # {}
    BY <1>2, <1>3, <2>1, <2>2
  <2> QED
    BY <2>1, <2>3, HolderCanHold
<1>11. InTree \subseteq Ids
  BY ParentIs DEF TIInv
<1>12. ProseIsLeaf' /\ NothingLost'
  BY <1>1, <1>6, <1>10, <1>11 DEF TIInv, ProseIsLeaf, NothingLost, Requirements
<1>13. Made'
  BY <1>1, <1>6 DEF TIInv, Made
<1>14. FormerCanHold'
  BY <1>1, <1>5 DEF TIInv, FormerCanHold, TreeTypeOK, Made
<1> QED
  BY <1>7, <1>8, <1>9, <1>12, <1>13, <1>14 DEF TIInv

LEMMA EditTextKeeps ==
  ASSUME TIInv, NEW n \in Ids, NEW t \in Texts, EditText(n, t)
  PROVE  TIInv'
<1>1. UNCHANGED <<kids, kind, excluded, former, next>> /\ text' = [text EXCEPT ![n] = t]
  BY DEF EditText
<1>2. InTree' = InTree /\ \A x : Kids(x)' = Kids(x)
  BY <1>1 DEF InTree, Kids
<1>3. TreeTypeOK'
  BY <1>1 DEF TIInv, TreeTypeOK
<1>4. Unique' /\ Grounded'
  BY <1>1, <1>2 DEF TIInv, Unique, Grounded
<1>5. ProseIsLeaf' /\ NothingLost' /\ Made' /\ FormerCanHold'
  BY <1>1, <1>2 DEF TIInv, ProseIsLeaf, NothingLost, Made, FormerCanHold
<1> QED
  BY <1>3, <1>4, <1>5 DEF TIInv

\* The shipped tree keeps the invariant: Init, and Reset after it.
LEMMA InitTIInv == TreeInit => TIInv
<1> SUFFICES ASSUME TreeInit PROVE TIInv
  OBVIOUS
<1>0. /\ Shipped \subseteq Ids /\ Root \notin Ids /\ Nodes = Ids \cup {Root}
      /\ Fresh \subseteq Int /\ Ids = Shipped \cup Fresh /\ 1 \in 1..(MaxFresh + 1)
      /\ ShippedKids \in [Shipped \cup {Root} -> Seq(Shipped)]
      /\ ShippedKind \in [Shipped -> Kinds]
  BY TreeAssumption DEF Ids, Nodes, Fresh
<1>1. /\ kids = [n \in Nodes |-> IF n \in Fresh \ Shipped THEN <<>> ELSE ShippedKids[n]]
      /\ kind = [n \in Ids |-> IF n \in Fresh \ Shipped THEN "heading" ELSE ShippedKind[n]]
      /\ text = [n \in Ids |-> ShippedText]
      /\ excluded = {} /\ former = [r \in Requirements |-> Root] /\ next = 1
  BY DEF TreeInit, ShippedTree
<1>2. /\ <<>> \in Seq(Ids) /\ Range(<<>>) = {} /\ DOMAIN <<>> = {}
  <2>1. <<>> \in Seq(Ids) /\ DOMAIN <<>> = {}
    OBVIOUS
  <2> QED
    BY <2>1, RangeIs
<1>3. \A n \in Shipped \cup {Root} : ShippedKids[n] \in Seq(Ids) /\ kids[n] = ShippedKids[n]
  <2>1. \A n \in Shipped \cup {Root} : ShippedKids[n] \in Seq(Shipped)
    BY <1>0
  <2>2. \A n \in Shipped \cup {Root} : ShippedKids[n] \in Seq(Ids)
    BY <1>0, <2>1, SeqMonotonic
  <2>3. \A n \in Shipped \cup {Root} : n \in Nodes /\ n \notin Fresh \ Shipped
    BY <1>0
  <2> QED
    BY <1>1, <2>2, <2>3
<1>4. \A n \in Nodes : n \notin Shipped \cup {Root} => kids[n] = <<>>
  BY <1>0, <1>1
<1>5. kids \in [Nodes -> Seq(Ids)]
  BY <1>0, <1>1, <1>2, <1>3, <1>4
<1>6. TreeTypeOK
  <2>1. kind \in [Ids -> Kinds]
    BY <1>0, <1>1 DEF Kinds
  <2>2. text \in [Ids -> Texts]
    BY <1>1, TreeAssumption
  <2>3. former \in [Requirements -> Nodes]
    BY <1>0, <1>1
  <2> QED
    BY <1>0, <1>1, <1>5, <2>1, <2>2, <2>3 DEF TreeTypeOK
<1>7. /\ \A p \in Shipped \cup {Root} : Kids(p) = Range(ShippedKids[p])
      /\ \A p \in Nodes : p \notin Shipped \cup {Root} => Kids(p) = {}
  BY <1>2, <1>3, <1>4 DEF Kids
<1>8. \A p \in Shipped \cup {Root} :
        /\ DOMAIN ShippedKids[p] = 1..Len(ShippedKids[p])
        /\ Kids(p) = {ShippedKids[p][i] : i \in 1..Len(ShippedKids[p])}
        /\ Kids(p) \subseteq Shipped
  <2>1. \A p \in Shipped \cup {Root} : ShippedKids[p] \in Seq(Shipped)
    BY <1>0
  <2> QED
    BY <1>7, <2>1, RangeIs
<1>9. Unique
  <2>1. ASSUME NEW p \in Nodes PROVE NoDup(kids[p])
    <3>1. CASE p \in Shipped \cup {Root}
      BY <1>3, <3>1, LoadAssumption DEF NoDup
    <3>2. CASE p \notin Shipped \cup {Root}
      BY <1>2, <1>4, <3>2 DEF NoDup
    <3> QED
      BY <3>1, <3>2
  <2>2. ASSUME NEW p \in Nodes, NEW q \in Nodes, p # q PROVE Kids(p) \cap Kids(q) = {}
    <3>1. CASE p \in Shipped \cup {Root} /\ q \in Shipped \cup {Root}
      BY <1>8, <2>2, <3>1, LoadAssumption
    <3>2. CASE ~(p \in Shipped \cup {Root} /\ q \in Shipped \cup {Root})
      BY <1>7, <3>2
    <3> QED
      BY <3>1, <3>2
  <2> QED
    BY <2>1, <2>2 DEF Unique
<1>10. InTree = Shipped
  <2>1. ASSUME NEW n \in Shipped PROVE n \in InTree
    <3>1. PICK p \in Shipped \cup {Root} : n \in Range(ShippedKids[p])
      BY LoadAssumption
    <3> QED
      BY <1>0, <1>7, <3>1, InTreeIs
  <2>2. ASSUME NEW n \in InTree PROVE n \in Shipped
    <3>1. PICK p \in Nodes : n \in Kids(p)
      BY InTreeIs
    <3> QED
      BY <1>7, <1>8, <3>1
  <2> QED
    BY <2>1, <2>2
<1>11. Grounded
  <2> SUFFICES ASSUME NEW S \in SUBSET Ids, S # {}, \A m \in S : \E x \in S : m \in Kids(x)
               PROVE  FALSE
    BY DEF Grounded
  <2>1. S \subseteq Nodes /\ Root \notin S
    BY <1>0
  <2>2. S \in SUBSET Shipped
    BY <1>10, <2>1, InTreeIs
  <2>3. \A m \in S : \E x \in S : m \in Range(ShippedKids[x])
    BY <1>7, <2>2
  <2> QED
    BY <2>2, <2>3, LoadAssumption
<1>12. ProseIsLeaf
  BY <1>0, <1>1, <1>3, <1>10, LoadAssumption DEF ProseIsLeaf
<1>13. NothingLost
  <2>1. {k \in Fresh : k < next} = {}
    BY <1>1, TreeAssumption DEF Fresh
  <2>2. \A n \in Ids \ InTree : kids[n] = <<>>
    BY <1>0, <1>4, <1>10
  <2> QED
    BY <1>1, <1>10, <2>1, <2>2 DEF NothingLost, Requirements
<1>14. Made /\ FormerCanHold
  BY <1>1, <1>10 DEF Made, FormerCanHold
<1> QED
  BY <1>6, <1>9, <1>11, <1>12, <1>13, <1>14 DEF TIInv

LEMMA ResetKeeps ==
  ASSUME Reset
  PROVE  TIInv'
<1>1. TreeInit'
  BY DEF Reset, TreeInit
<1> QED
  BY <1>1, InitTIInv, PTL

LEMMA NextTIInv == TIInv /\ [TreeNext]_treeVars => TIInv'
<1> SUFFICES ASSUME TIInv, [TreeNext]_treeVars PROVE TIInv'
  OBVIOUS
<1>1. CASE UNCHANGED treeVars
  BY <1>1 DEF treeVars, TIInv, TreeTypeOK, ProseIsLeaf, Unique, Kids, Grounded, NothingLost,
     Made, FormerCanHold, InTree
<1> QED
  BY <1>1, MoveKeeps, InsertHeadingKeeps, EditTextKeeps, AddProseKeeps, ExcludeKeeps,
     IncludeKeeps, ResetKeeps, TreeAssumption DEF TreeNext, Edit

LEMMA TreeSpecTIInv == TreeSpec => []TIInv
BY InitTIInv, NextTIInv, PTL DEF TreeSpec

-----------------------------------------------------------------------------
(* What the tree promises. *)

LEMMA TIInvImplies ==
  ASSUME TIInv
  PROVE  IsTree /\ NothingLost
<1>1. TreeTypeOK /\ ProseIsLeaf /\ NothingLost
  BY DEF TIInv
<1>2. ASSUME NEW p \in Nodes, NEW q \in Nodes, NEW i \in DOMAIN kids[p],
             NEW j \in DOMAIN kids[q], kids[p][i] = kids[q][j]
      PROVE  p = q /\ i = j
  <2>1. kids[p][i] \in Kids(p) /\ kids[q][j] \in Kids(q)
    BY <1>1, KidsIs
  <2>2. p = q
    BY <1>2, <2>1 DEF TIInv, Unique
  <2> QED
    BY <1>2, <2>2 DEF TIInv, Unique, NoDup
<1>3. ASSUME NEW S \in SUBSET InTree, S # {}
      PROVE  \E n \in S : Parent(n) \notin S
  <2>1. S \in SUBSET Ids
    BY <1>1, ParentIs
  <2>2. PICK n \in S : \A p \in S : n \notin Kids(p)
    BY <1>3, <2>1 DEF TIInv, Grounded
  <2>3. n \in Kids(Parent(n))
    BY <1>1, ParentIs
  <2> QED
    BY <2>2, <2>3
<1> QED
  BY <1>1, <1>2, <1>3 DEF IsTree

\* Whatever is moved, inserted, excluded, included or reset, in any order and
\* at any index, the document stays a tree whose prose has no children.
THEOREM StaysATree == TreeSpec => []IsTree
BY TreeSpecTIInv, TIInvImplies, PTL

\* No operation loses a node: a requirement is in the document or excluded,
\* and everything else that was shipped or made is in the document.
THEOREM LosesNothing == TreeSpec => []NothingLost
BY TreeSpecTIInv, TIInvImplies, PTL

-----------------------------------------------------------------------------
(* Where a numbered node hangs. *)

LEMMA NumberedParent ==
  ASSUME TIInv, NEW n \in Numbered
  PROVE  /\ n \in InTree /\ n \in Ids /\ kind[n] # "prose"
         /\ Parent(n) \in Nodes /\ n \in Kids(Parent(n))
         /\ Parent(n) = Root \/ Parent(n) \in Numbered
<1>1. n \in InTree /\ kind[n] # "prose"
  BY DEF Numbered
<1>2. Parent(n) \in Nodes /\ n \in Kids(Parent(n)) /\ n \in Ids
  BY <1>1, ParentIs DEF TIInv
<1>3. Parent(n) = Root \/ (Parent(n) \in InTree /\ kind[Parent(n)] # "prose")
  BY <1>2, HolderCanHold
<1> QED
  BY <1>1, <1>2, <1>3 DEF Numbered

\* What stands in for induction over the depth of a node.
LEMMA Topmost ==
  ASSUME TIInv, NEW S, S \subseteq Numbered, S # {}
  PROVE  \E n \in S : Parent(n) \notin S
<1>1. S \in SUBSET Ids
  BY NumberedParent
<1>2. PICK n \in S : \A p \in S : n \notin Kids(p)
  BY <1>1 DEF TIInv, Grounded
<1>3. n \in Kids(Parent(n))
  BY NumberedParent
<1> QED
  BY <1>2, <1>3

-----------------------------------------------------------------------------
(* There is one numbering. *)

\* The number of n when those above it have the numbers f.
Above(f, n) == IF Parent(n) = Root THEN <<>> ELSE f[Parent(n)]
NumberIn(f, n) == IF Parent(n) = Root THEN <<Place(n)>> ELSE Append(f[Parent(n)], Place(n))

Upward(D) == D \subseteq Numbered /\ \A n \in D : Parent(n) = Root \/ Parent(n) \in D

IsNumbering(f, D) == f = [n \in D |-> NumberIn(f, n)]

LEMMA NumberingsAgree ==
  ASSUME TIInv, NEW D, NEW E, Upward(D), Upward(E),
         NEW f, NEW g, IsNumbering(f, D), IsNumbering(g, E)
  PROVE  \A n \in D \cap E : f[n] = g[n]
<1> DEFINE S == {n \in D \cap E : f[n] # g[n]}
<1> SUFFICES ASSUME S # {} PROVE FALSE
  OBVIOUS
<1>1. PICK n \in S : Parent(n) \notin S
  BY Topmost DEF Upward
<1>2. f[n] = NumberIn(f, n) /\ g[n] = NumberIn(g, n)
  BY DEF IsNumbering
<1>3. CASE Parent(n) = Root
  BY <1>2, <1>3 DEF NumberIn
<1>4. CASE Parent(n) # Root
  <2>1. Parent(n) \in D \cap E
    BY <1>4 DEF Upward
  <2>2. f[Parent(n)] = g[Parent(n)]
    BY <1>1, <2>1
  <2> QED
    BY <1>2, <1>4, <2>2 DEF NumberIn
<1> QED
  BY <1>3, <1>4

\* The parts of the document that can be numbered together cover all of it.
LEMMA NumberingExists ==
  ASSUME TIInv
  PROVE  \E f : IsNumbering(f, Numbered)
<1> DEFINE A == {D \in SUBSET Numbered : Upward(D) /\ \E f : IsNumbering(f, D)}
           U == UNION A
           N(D) == CHOOSE f : IsNumbering(f, D)
           W(n) == CHOOSE D \in A : n \in D
           g == [n \in U |-> N(W(n))[n]]
<1>1. \A D \in A : Upward(D) /\ IsNumbering(N(D), D)
  OBVIOUS
<1>2. \A n \in U : W(n) \in A /\ n \in W(n)
  OBVIOUS
<1>3. Upward(U)
  BY <1>1 DEF Upward
<1> HIDE DEF N, W
<1>4. ASSUME NEW D \in A, NEW n \in D
      PROVE  g[n] = N(D)[n]
  <2>1. n \in U /\ W(n) \in A /\ n \in W(n)
    BY <1>2
  <2>2. N(W(n))[n] = N(D)[n]
    <3> HIDE DEF A
    <3>1. n \in W(n) \cap D
      BY <2>1
    <3> QED
      BY <1>1, <2>1, <3>1, NumberingsAgree
  <2> QED
    BY <2>1, <2>2
<1>5. \A n \in U : g[n] = NumberIn(g, n)
  <2> SUFFICES ASSUME NEW n \in U PROVE g[n] = NumberIn(g, n)
    OBVIOUS
  <2>1. PICK D \in A : n \in D
    OBVIOUS
  <2>2. g[n] = N(D)[n]
    BY <1>4, <2>1
  <2>3. N(D)[n] = NumberIn(N(D), n)
    BY <1>1, <2>1 DEF IsNumbering
  <2>4. CASE Parent(n) = Root
    BY <2>2, <2>3, <2>4 DEF NumberIn
  <2>5. CASE Parent(n) # Root
    <3>1. Parent(n) \in D
      BY <1>1, <2>1, <2>5 DEF Upward
    <3>2. g[Parent(n)] = N(D)[Parent(n)]
      BY <1>4, <3>1
    <3> HIDE DEF g
    <3> QED
      BY <2>2, <2>3, <2>5, <3>2 DEF NumberIn
  <2> QED
    BY <2>4, <2>5
<1>6. U = Numbered
  <2> SUFFICES ASSUME Numbered \ U # {} PROVE FALSE
    BY <1>3 DEF Upward
  <2>1. PICK n \in Numbered \ U : Parent(n) \notin Numbered \ U
    <3> HIDE DEF U
    <3> QED
      BY Topmost
  <2>2. Parent(n) = Root \/ Parent(n) \in U
    BY <2>1, NumberedParent
  <2> DEFINE D == U \cup {n}
             h == [m \in D |-> IF m \in U THEN g[m] ELSE NumberIn(g, n)]
  <2>3. Upward(D)
    BY <1>3, <2>2 DEF Upward
  <2>4. \A m \in U : h[m] = g[m]
    OBVIOUS
  <2>5. h[n] = NumberIn(g, n)
    OBVIOUS
  <2>6. DOMAIN h = D /\ h = [m \in D |-> h[m]]
    OBVIOUS
  <2>7. \A m \in D : Parent(m) # Root => Parent(m) \in U
    BY <1>3, <2>2 DEF Upward
  <2> HIDE DEF h, g, U
  <2>8. \A m \in D : h[m] = NumberIn(h, m)
    <3> SUFFICES ASSUME NEW m \in D PROVE h[m] = NumberIn(h, m)
      OBVIOUS
    <3>1. h[m] = NumberIn(g, m)
      BY <1>5, <2>4, <2>5
    <3>2. Parent(m) # Root => h[Parent(m)] = g[Parent(m)]
      BY <2>4, <2>7
    <3> QED
      BY <3>1, <3>2 DEF NumberIn
  <2>9. IsNumbering(h, D)
    BY <2>6, <2>8 DEF IsNumbering
  <2>10. D \in A
    BY <2>3, <2>9 DEF Upward
  <2> QED
    BY <2>1, <2>10 DEF U
<1>7. IsNumbering(g, U)
  <2>1. g = [n \in U |-> g[n]]
    OBVIOUS
  <2> HIDE DEF g, U
  <2> QED
    BY <1>5, <2>1 DEF IsNumbering
<1> QED
  BY <1>6, <1>7

LEMMA NumbersIs ==
  ASSUME TIInv
  PROVE  IsNumbering(Numbers, Numbered)
<1>1. Numbers = CHOOSE f : IsNumbering(f, Numbered)
  BY DEF Numbers, IsNumbering, NumberIn
<1> HIDE DEF Numbers
<1> QED
  BY <1>1, NumberingExists

-----------------------------------------------------------------------------
(* Places. *)

LEMMA LeastNatural ==
  ASSUME NEW S, S \subseteq Nat, S # {}
  PROVE  \E least \in S : \A n \in S : least <= n
<1> DEFINE R == {r \in Nat \X Nat : r[1] < r[2]}
<1>1. IsWellFoundedOn(R, Nat)
  BY NatLessThanWellFounded DEF OpToRel
<1>2. \A m, n \in Nat : <<m, n>> \in R <=> m < n
  OBVIOUS
<1> HIDE DEF R
<1>3. PICK least \in S : \A n \in S : ~(<<n, least>> \in R)
  BY <1>1, WFMin
<1>4. ASSUME NEW n \in S PROVE least <= n
  <2>1. n \in Nat /\ least \in Nat /\ ~(n < least)
    BY <1>2, <1>3
  <2> QED
    BY <2>1
<1> QED
  BY <1>4

LEMMA GreatestNatural ==
  ASSUME NEW b \in Nat, NEW S, S \subseteq 1..b, S # {}
  PROVE  \E greatest \in S : \A n \in S : n <= greatest
<1> DEFINE D == {b - n : n \in S}
<1>1. D \subseteq Nat /\ D # {}
  <2>1. \A n \in 1..b : b - n \in Nat
    OBVIOUS
  <2>2. D # {}
    OBVIOUS
  <2> QED
    BY <2>1, <2>2
<1>2. PICK d \in D : \A e \in D : d <= e
  <2> HIDE DEF D
  <2> QED
    BY <1>1, LeastNatural
<1>3. PICK g \in S : d = b - g
  OBVIOUS
<1>4. ASSUME NEW n \in S PROVE n <= g
  <2>1. b - n \in D
    OBVIOUS
  <2> QED
    BY <1>2, <1>3, <2>1
<1> QED
  BY <1>4

\* The numbered places of a list up to the i-th.
Places(p, i) == {j \in 1..i : kind[kids[p][j]] # "prose"}

LEMMA PlacesAre ==
  ASSUME NEW p, NEW i \in Nat
  PROVE  /\ IsFiniteSet(Places(p, i)) /\ Cardinality(Places(p, i)) \in Nat
         /\ \A j \in Places(p, i) :
              Cardinality(Places(p, i) \ {j}) = Cardinality(Places(p, i)) - 1
<1>1. IsFiniteSet(1..i)
  BY FS_Interval
<1>2. IsFiniteSet(Places(p, i))
  BY <1>1, FS_Subset DEF Places
<1> QED
  BY <1>2, FS_RemoveElement, FS_CardinalityType

\* A later place is a greater one.
LEMMA PlacesGrow ==
  ASSUME NEW p, NEW j \in Nat, NEW i \in 1..j, i < j, j \in Places(p, j)
  PROVE  Cardinality(Places(p, i)) < Cardinality(Places(p, j))
<1>1. Places(p, i) \subseteq Places(p, j) \ {j}
  BY DEF Places
<1>2. IsFiniteSet(Places(p, j) \ {j})
      /\ Cardinality(Places(p, j) \ {j}) = Cardinality(Places(p, j)) - 1
  BY PlacesAre, FS_RemoveElement
<1>3. Cardinality(Places(p, i)) <= Cardinality(Places(p, j) \ {j})
  BY <1>1, <1>2, FS_Subset
<1> QED
  BY <1>2, <1>3, PlacesAre

\* Every place but the first has one before it.
LEMMA PlaceBefore ==
  ASSUME NEW p, NEW i \in Nat, i \in Places(p, i), Cardinality(Places(p, i)) > 1
  PROVE  \E j \in Places(p, i) :
           /\ j < i
           /\ Cardinality(Places(p, j)) = Cardinality(Places(p, i)) - 1
<1> DEFINE Q == Places(p, i) \ {i}
<1>1. Cardinality(Q) = Cardinality(Places(p, i)) - 1 /\ Cardinality(Q) > 0
  BY PlacesAre
<1>2. Q # {} /\ Q \subseteq 1..i
  <2>1. Q # {}
    <3> HIDE DEF Q
    <3> QED
      BY <1>1, FS_EmptySet
  <2> QED
    BY <2>1 DEF Places
<1>3. PICK j \in Q : \A k \in Q : k <= j
  <2> HIDE DEF Q
  <2> QED
    BY <1>2, GreatestNatural
<1>4. j \in Places(p, i) /\ j < i
  BY DEF Places
<1>5. Places(p, j) = Q
  BY <1>3, <1>4 DEF Places
<1> QED
  BY <1>1, <1>4, <1>5

LEMMA PlaceIs ==
  ASSUME TIInv, NEW n \in Numbered
  PROVE  /\ Place(n) = Cardinality(Places(Parent(n), Index(n)))
         /\ Index(n) \in Places(Parent(n), Index(n)) /\ Index(n) \in Nat \ {0}
         /\ Place(n) \in Nat
<1>1. /\ Index(n) \in 1..Len(kids[Parent(n)])
      /\ kids[Parent(n)][Index(n)] = n
      /\ Len(kids[Parent(n)]) \in Nat
  BY NumberedParent, ParentIs, KidsIs DEF TIInv, TreeTypeOK
<1>2. Index(n) \in Nat \ {0}
  BY <1>1
<1>3. Index(n) \in Places(Parent(n), Index(n))
  BY <1>1, <1>2, NumberedParent DEF Places
<1> QED
  BY <1>2, <1>3, PlacesAre DEF Place, Places

\* Who stands at a numbered place of a list.
LEMMA AtPlace ==
  ASSUME TIInv, NEW p \in Nodes, NEW j \in 1..Len(kids[p]), kind[kids[p][j]] # "prose"
  PROVE  /\ kids[p][j] \in Numbered
         /\ Parent(kids[p][j]) = p /\ Index(kids[p][j]) = j
<1> DEFINE n == kids[p][j]
<1>1. n \in Kids(p)
  BY KidsIs DEF TIInv
<1>2. n \in InTree /\ n \in Numbered
  BY <1>1, InTreeIs DEF Numbered
<1>3. /\ Parent(n) \in Nodes /\ n \in Kids(Parent(n))
      /\ Index(n) \in 1..Len(kids[Parent(n)]) /\ kids[Parent(n)][Index(n)] = n
  BY <1>2, ParentIs DEF TIInv
<1>4. Parent(n) = p
  BY <1>1, <1>3 DEF TIInv, Unique
<1>5. Index(n) = j
  BY <1>3, <1>4, KidsIs DEF TIInv, Unique, NoDup
<1> QED
  BY <1>2, <1>4, <1>5

LEMMA SiblingsApart ==
  ASSUME TIInv, NEW a \in Numbered, NEW b \in Numbered,
         Parent(a) = Parent(b), Place(a) = Place(b)
  PROVE  a = b
<1>1. Index(a) \in Nat \ {0} /\ Index(b) \in Nat \ {0}
  BY PlaceIs
<1>2. ~(Index(a) < Index(b))
  BY <1>1, PlaceIs, PlacesGrow
<1>3. ~(Index(b) < Index(a))
  BY <1>1, PlaceIs, PlacesGrow
<1>4. Index(a) = Index(b)
  BY <1>1, <1>2, <1>3
<1>5. kids[Parent(a)][Index(a)] = a /\ kids[Parent(b)][Index(b)] = b
  BY NumberedParent, ParentIs DEF TIInv
<1> QED
  BY <1>4, <1>5

-----------------------------------------------------------------------------
(* The outline. *)

LEMMA AppendIs ==
  ASSUME NEW s \in Seq(Nat), NEW e \in Nat
  PROVE  /\ Append(s, e) \in Seq(Nat) /\ Len(Append(s, e)) = Len(s) + 1
         /\ Append(s, e)[Len(s) + 1] = e
         /\ SubSeq(Append(s, e), 1, Len(s)) = s
<1>1. Append(s, e) \in Seq(Nat) /\ Len(Append(s, e)) = Len(s) + 1
      /\ Append(s, e)[Len(s) + 1] = e
  BY AppendProperties
<1>2. SubSeq(Append(s, e), 1, Len(s)) = s
  BY <1>1
<1> QED
  BY <1>1, <1>2

LEMMA NumberIs ==
  ASSUME TIInv, NEW n \in Numbered
  PROVE  /\ Numbers[n] = Append(Above(Numbers, n), Place(n))
         /\ Above(Numbers, n) \in Seq(Nat) /\ Place(n) \in Nat
         /\ Numbers[n] \in Seq(Nat) /\ Len(Numbers[n]) > 0
<1>1. ASSUME NEW m \in Numbered
      PROVE  Numbers[m] = Append(Above(Numbers, m), Place(m))
  <2>1. Numbers[m] = NumberIn(Numbers, m)
    <3>1. IsNumbering(Numbers, Numbered)
      BY NumbersIs
    <3> HIDE DEF Numbers
    <3> QED
      BY <3>1 DEF IsNumbering
  <2>2. <<Place(m)>> = Append(<<>>, Place(m))
    OBVIOUS
  <2> QED
    BY <2>1, <2>2 DEF NumberIn, Above
<1> DEFINE S == {m \in Numbered : Above(Numbers, m) \notin Seq(Nat)}
<1>2. S = {}
  <2> SUFFICES ASSUME S # {} PROVE FALSE
    OBVIOUS
  <2>1. PICK m \in S : Parent(m) \notin S
    BY Topmost
  <2>2. CASE Parent(m) = Root
    BY <2>2 DEF Above
  <2>3. CASE Parent(m) # Root
    <3>1. Parent(m) \in Numbered
      BY <2>3, NumberedParent
    <3>2. Above(Numbers, Parent(m)) \in Seq(Nat) /\ Place(Parent(m)) \in Nat
      BY <2>1, <3>1, PlaceIs
    <3>3. Append(Above(Numbers, Parent(m)), Place(Parent(m))) \in Seq(Nat)
      BY <3>2, AppendIs
    <3>4. Numbers[Parent(m)] \in Seq(Nat)
      BY <1>1, <3>1, <3>3
    <3> QED
      BY <2>3, <3>4 DEF Above
  <2> QED
    BY <2>2, <2>3
<1>3. Above(Numbers, n) \in Seq(Nat) /\ Place(n) \in Nat
  BY <1>2, PlaceIs
<1>4. Append(Above(Numbers, n), Place(n)) \in Seq(Nat)
      /\ Len(Append(Above(Numbers, n), Place(n))) = Len(Above(Numbers, n)) + 1
  BY <1>3, AppendIs
<1>5. Numbers[n] = Append(Above(Numbers, n), Place(n))
  BY <1>1
<1>6. Len(Above(Numbers, n)) \in Nat
  BY <1>3
<1>7. Numbers[n] \in Seq(Nat)
  BY <1>4, <1>5
<1>8. Len(Numbers[n]) > 0
  BY <1>4, <1>5, <1>6
<1> QED
  BY <1>3, <1>5, <1>7, <1>8

\* No two nodes share a number: the topmost that did would be siblings.
LEMMA NumbersApart ==
  ASSUME TIInv
  PROVE  \A a, b \in Numbered : Numbers[a] = Numbers[b] => a = b
<1> DEFINE S == {a \in Numbered : \E b \in Numbered : Numbers[a] = Numbers[b] /\ a # b}
<1> SUFFICES ASSUME S # {} PROVE FALSE
  OBVIOUS
<1>1. PICK a \in S : Parent(a) \notin S
  BY Topmost
<1>2. PICK b \in Numbered : Numbers[a] = Numbers[b] /\ a # b
  OBVIOUS
<1>3. Above(Numbers, a) = Above(Numbers, b) /\ Place(a) = Place(b)
  <2>1. /\ Above(Numbers, a) \in Seq(Nat) /\ Place(a) \in Nat
        /\ Above(Numbers, b) \in Seq(Nat) /\ Place(b) \in Nat
        /\ Append(Above(Numbers, a), Place(a)) = Append(Above(Numbers, b), Place(b))
    BY <1>2, NumberIs
  <2> QED
    BY <2>1, AppendInjective
<1>4. Parent(a) = Parent(b)
  <2>1. CASE Parent(a) = Root \/ Parent(b) = Root
    <3>1. \A n \in Numbered : Parent(n) = Root <=> Above(Numbers, n) = <<>>
      <4> SUFFICES ASSUME NEW n \in Numbered, Parent(n) # Root
                   PROVE  Above(Numbers, n) # <<>>
        BY DEF Above
      <4>1. Len(Numbers[Parent(n)]) > 0
        BY NumberedParent, NumberIs
      <4> QED
        BY <4>1 DEF Above
    <3> QED
      BY <1>3, <2>1, <3>1
  <2>2. CASE Parent(a) # Root /\ Parent(b) # Root
    <3>1. Parent(a) \in Numbered /\ Parent(b) \in Numbered
      BY <2>2, NumberedParent
    <3>2. Numbers[Parent(a)] = Numbers[Parent(b)]
      BY <1>3, <2>2 DEF Above
    <3> QED
      BY <1>1, <3>1, <3>2
  <2> QED
    BY <2>1, <2>2
<1> QED
  BY <1>2, <1>3, <1>4, SiblingsApart

LEMMA TIInvNumbers ==
  ASSUME TIInv
  PROVE  NumbersOutline
<1>1. ASSUME NEW n \in Numbered
      PROVE  LET d == Numbers[n]
                 up == SubSeq(d, 1, Len(d) - 1)
             IN  /\ d[Len(d)] > 1 =>
                      \E m \in Numbered : Numbers[m] = Append(up, d[Len(d)] - 1)
                 /\ Len(d) > 1 => Numbers[Parent(n)] = up
  <2> DEFINE d == Numbers[n]
             up == SubSeq(d, 1, Len(d) - 1)
             p == Parent(n)
  <2>1. d[Len(d)] = Place(n) /\ up = Above(Numbers, n)
        /\ Len(d) = Len(Above(Numbers, n)) + 1
    <3> DEFINE a == Above(Numbers, n)
    <3>1. d = Append(a, Place(n)) /\ a \in Seq(Nat) /\ Place(n) \in Nat
      BY NumberIs
    <3>2. Len(d) = Len(a) + 1 /\ Len(a) \in Nat /\ Len(d) - 1 = Len(a)
      <4> HIDE DEF a, d
      <4> QED
        BY <3>1, AppendIs
    <3>3. d[Len(a) + 1] = Place(n) /\ SubSeq(d, 1, Len(a)) = a
      <4> HIDE DEF a, d
      <4> QED
        BY <3>1, AppendIs
    <3> HIDE DEF a, d
    <3> QED
      BY <3>2, <3>3 DEF a
  <2>2. Len(d) > 1 => Numbers[p] = up
    BY <2>1 DEF Above
  <2>3. ASSUME Place(n) > 1
        PROVE  \E m \in Numbered : Numbers[m] = Append(Above(Numbers, n), Place(n) - 1)
    <3> DEFINE i == Index(n)
    <3>1. i \in Nat /\ i \in Places(p, i) /\ Place(n) = Cardinality(Places(p, i))
      BY PlaceIs
    <3>2. PICK j \in Places(p, i) : j < i /\ Cardinality(Places(p, j)) = Place(n) - 1
      <4> HIDE DEF i, p
      <4> QED
        BY <2>3, <3>1, PlaceBefore
    <3>3. p \in Nodes /\ i \in 1..Len(kids[p]) /\ Len(kids[p]) \in Nat
      BY NumberedParent, ParentIs, KidsIs DEF TIInv, TreeTypeOK
    <3>4. j \in 1..Len(kids[p]) /\ kind[kids[p][j]] # "prose"
      BY <3>1, <3>2, <3>3 DEF Places
    <3> DEFINE m == kids[p][j]
    <3>5. m \in Numbered /\ Parent(m) = p /\ Index(m) = j
      BY <3>3, <3>4, AtPlace
    <3>6. Place(m) = Place(n) - 1
      BY <3>2, <3>5, PlaceIs
    <3>7. Above(Numbers, m) = Above(Numbers, n)
      BY <3>5 DEF Above
    <3> HIDE DEF m
    <3> QED
      BY <3>5, <3>6, <3>7, NumberIs
  <2> HIDE DEF d, up
  <2>4. d[Len(d)] > 1 => \E m \in Numbered : Numbers[m] = Append(up, d[Len(d)] - 1)
    BY <2>1, <2>3
  <2> QED
    BY <2>2, <2>4 DEF d, up
<1> QED
  BY <1>1, NumbersApart DEF NumbersOutline

\* Whatever was done to the document, every heading and requirement has a
\* number of its own, numbers on one level run from 1 without a gap, and each
\* extends its parent's.
THEOREM NumbersTheTree == TreeSpec => []NumbersOutline
BY TreeSpecTIInv, TIInvNumbers, PTL

-----------------------------------------------------------------------------
(* The inductive invariant of the service and a page.                        *)

\* What the service checks of a mutation leaves this to the page: where a move
\* goes, the end of the list prose goes to, and that a requirement is named.
WellFormed(a) ==
  /\ a.act = "move" => a.node \in Ids /\ a.to \in Nodes /\ a.index \in Int
  /\ a.act = "prose" /\ a.to \in Nodes => a.index \in Int
  /\ a.act = "exclude" => a.node \in Requirements
  /\ a.act \in {"move", "heading", "prose", "exclude", "include", "reset"}

Mutations ==
  \A m \in sent :
    /\ {"ask", "state"} \subseteq DOMAIN m
    /\ WellFormed(m.ask)

ServedOK ==
  /\ Open => served \in Answers
  /\ answer # None => Open /\ answer \in Readings

\* With no announcement to come, what the page has, or what its refresh has read
\* so far, is the document, unless the last refresh has failed; and only what is
\* on its way makes the markup differ from it.
Current ==
  Open /\ ~news =>
    /\ answer = None /\ ~failed => served = Document
    /\ answer = None /\ ~failed /\ sent = {} => markup = served.kids
    /\ answer # None =>
         /\ answer.tree # None => answer.tree = Snapshot
         /\ answer.excluded = excluded \ answer.unread

EInv ==
  /\ TIInv
  /\ news \in BOOLEAN
  /\ Mutations
  /\ ServedOK
  /\ Current

LEMMA SnapshotIs ==
  ASSUME TIInv
  PROVE  /\ Snapshot \in Documents /\ Snapshot # None
         /\ Document \in Answers /\ Document # NoPage
<1>1. Snapshot \in Documents /\ Document \in Answers
  BY DEF TIInv, TreeTypeOK, Snapshot, Documents, Document, Answers
<1> QED
  BY <1>1, PageAssumption

LEMMA InitEInv == Init => EInv
<1> SUFFICES ASSUME Init PROVE EInv
  OBVIOUS
<1>1. TIInv
  BY InitTIInv DEF Init
<1>2. Document \in Answers /\ Document # NoPage
  BY <1>1, SnapshotIs
<1>3. Document.kids = kids
  BY DEF Document
<1> QED
  BY <1>1, <1>2, <1>3 DEF Init, ClosedPage, EInv, Mutations, ServedOK, Current, Open

-----------------------------------------------------------------------------
(* Every step keeps it. *)

\* The page's part stands on the tree only through what it may be served.
LEMMA TreeUntouched ==
  ASSUME TIInv, UNCHANGED treeVars
  PROVE  TIInv' /\ Snapshot' = Snapshot /\ Document' = Document /\ excluded' = excluded
BY NextTIInv DEF treeVars, Snapshot, Document

\* A mutation that leaves is well formed when what it asks is.
LEMMA SendKeeps ==
  ASSUME Mutations, NEW a, WellFormed(a), Send(a)
  PROVE  Mutations' /\ sent' # {}
<1> DEFINE s == [ask |-> a, basis |-> markup, drawn |-> served, state |-> "sent"]
<1>1. {"ask", "state"} \subseteq DOMAIN s /\ s.ask = a
  OBVIOUS
<1>2. sent' = sent \cup {s}
  BY DEF Send
<1> HIDE DEF s
<1>3. ASSUME NEW m \in sent'
      PROVE  {"ask", "state"} \subseteq DOMAIN m /\ WellFormed(m.ask)
  BY <1>1, <1>2, <1>3 DEF Mutations
<1> QED
  BY <1>2, <1>3 DEF Mutations

\* So is one that is gone, or on its way back as a failure.
LEMMA BackKeeps ==
  ASSUME Mutations, NEW m \in sent,
         sent' \subseteq sent \cup {[m EXCEPT !.state = "failed"]}
  PROVE  Mutations'
<1> DEFINE f == [m EXCEPT !.state = "failed"]
<1>1. DOMAIN f = DOMAIN m /\ f.ask = m.ask
  BY DEF Mutations
<1> HIDE DEF f
<1>2. sent' \subseteq sent \cup {f}
  BY DEF f
<1>3. ASSUME NEW o \in sent'
      PROVE  {"ask", "state"} \subseteq DOMAIN o /\ WellFormed(o.ask)
  BY <1>1, <1>2, <1>3 DEF Mutations
<1> QED
  BY <1>3 DEF Mutations

\* The service's operations on its tree, whoever asks.
LEMMA PerformsKeeps ==
  ASSUME TIInv, NEW a, WellFormed(a), Performs(a)
  PROVE  TIInv'
<1>1. CASE a.act = "move"
  <2>1. Move(a.node, a.to, a.index) /\ a.node \in Ids /\ a.to \in Nodes /\ a.index \in Int
    BY <1>1 DEF Performs, WellFormed
  <2> QED
    BY <2>1, MoveKeeps
<1>2. CASE a.act = "heading"
  <2>1. PICK t \in Texts : InsertHeading(a.node, t)
    BY <1>2 DEF Performs
  <2>2. a.node \in Ids
    BY <2>1, ParentIs DEF InsertHeading, TIInv
  <2> QED
    BY <2>1, <2>2, InsertHeadingKeeps
<1>3. CASE a.act = "prose"
  <2>1. PICK t \in Texts : AddProse(a.to, a.index, t)
    BY <1>3 DEF Performs
  <2>2. a.to \in Nodes
    BY <2>1, ParentIs DEF AddProse, CanHold, Nodes, TIInv
  <2>3. a.index \in Int
    BY <1>3, <2>2 DEF WellFormed
  <2> QED
    BY <2>1, <2>2, <2>3, AddProseKeeps
<1>4. CASE a.act = "exclude"
  BY <1>4, ExcludeKeeps DEF Performs, WellFormed
<1>5. CASE a.act = "include"
  <2>1. Include(a.node)
    BY <1>5 DEF Performs
  <2>2. a.node \in Requirements
    BY <2>1 DEF Include, TIInv, TreeTypeOK
  <2> QED
    BY <2>1, <2>2, IncludeKeeps
<1>6. CASE a.act = "reset"
  BY <1>6, ResetKeeps DEF Performs
<1> QED
  BY <1>1, <1>2, <1>3, <1>4, <1>5, <1>6 DEF WellFormed

LEMMA DropKeeps ==
  ASSUME EInv, NEW n \in Ids, NEW p \in Nodes, NEW i \in 0..Cardinality(Ids), Drop(n, p, i)
  PROVE  EInv'
<1> DEFINE a == [act |-> "move", node |-> n, to |-> p, index |-> i, want |-> Dropped(n, p, i)]
<1>1. Send(a)
  BY DEF Drop
<1>2. WellFormed(a)
  BY DEF WellFormed
<1> HIDE DEF a
<1>3. Mutations' /\ sent' # {}
  BY <1>1, <1>2, SendKeeps DEF EInv
<1>4. TIInv' /\ Snapshot' = Snapshot /\ Document' = Document /\ excluded' = excluded
  BY <1>1, TreeUntouched DEF EInv, Send
<1>5. UNCHANGED <<served, news, answer, failed>>
  BY <1>1 DEF Send
<1> QED
  BY <1>3, <1>4, <1>5 DEF EInv, ServedOK, Current, Open

LEMMA PressKeeps ==
  ASSUME EInv, Press
  PROVE  EInv'
<1>1. \E a : WellFormed(a) /\ Send(a)
  <2>1. ASSUME NEW n \in Rows \ Deepest, Send([act |-> "heading", node |-> n])
        PROVE  \E a : WellFormed(a) /\ Send(a)
    <3>1. WellFormed([act |-> "heading", node |-> n])
      BY DEF WellFormed
    <3> QED
      BY <2>1, <3>1
  <2>2. ASSUME NEW p \in Lists,
               Send([act |-> "prose", to |-> p, index |-> Len(served.kids[p])])
        PROVE  \E a : WellFormed(a) /\ Send(a)
    <3>1. served.kids \in [Nodes -> Seq(Ids)]
      BY DEF Press, EInv, ServedOK, Answers
    <3>2. p \in Nodes => Len(served.kids[p]) \in Int
      BY <3>1
    <3>3. WellFormed([act |-> "prose", to |-> p, index |-> Len(served.kids[p])])
      BY <3>2 DEF WellFormed
    <3> QED
      BY <2>2, <3>3
  <2>3. ASSUME NEW r \in Rows \cap Requirements, Send([act |-> "exclude", node |-> r])
        PROVE  \E a : WellFormed(a) /\ Send(a)
    <3>1. WellFormed([act |-> "exclude", node |-> r])
      BY DEF WellFormed
    <3> QED
      BY <2>3, <3>1
  <2>4. ASSUME NEW r \in served.excluded, Send([act |-> "include", node |-> r])
        PROVE  \E a : WellFormed(a) /\ Send(a)
    <3>1. WellFormed([act |-> "include", node |-> r])
      BY DEF WellFormed
    <3> QED
      BY <2>4, <3>1
  <2>5. ASSUME Send([act |-> "reset"])
        PROVE  \E a : WellFormed(a) /\ Send(a)
    <3>1. WellFormed([act |-> "reset"])
      BY DEF WellFormed
    <3> QED
      BY <2>5, <3>1
  <2> QED
    BY <2>1, <2>2, <2>3, <2>4, <2>5 DEF Press
<1>2. PICK a : WellFormed(a) /\ Send(a)
  BY <1>1
<1>3. Mutations' /\ sent' # {}
  BY <1>2, SendKeeps DEF EInv
<1>4. TIInv' /\ Snapshot' = Snapshot /\ Document' = Document /\ excluded' = excluded
  BY <1>2, TreeUntouched DEF EInv, Send
<1>5. UNCHANGED <<served, news, answer, failed>>
  BY <1>2 DEF Send
<1> QED
  BY <1>3, <1>4, <1>5 DEF EInv, ServedOK, Current, Open

\* Whether it is applied or refused, the page still awaits a drawing after it:
\* the announcement's, or the failure's.
LEMMA ApplyKeeps ==
  ASSUME EInv, NEW m \in sent, Apply(m)
  PROVE  EInv'
<1>1. UNCHANGED <<served, markup, answer, failed>>
  BY DEF Apply, pageVars
<1>2. Mutations'
  <2>1. sent' \subseteq sent \cup {[m EXCEPT !.state = "failed"]}
    BY DEF Apply
  <2> QED
    BY <2>1, BackKeeps DEF EInv
<1>3. CASE Performs(m.ask) /\ news' = TRUE
  <2>1. TIInv'
    BY <1>3, PerformsKeeps DEF EInv, Mutations
  <2> QED
    BY <1>1, <1>2, <1>3, <2>1 DEF EInv, ServedOK, Current, Open
<1>4. CASE UNCHANGED <<treeVars, news>> /\ [m EXCEPT !.state = "failed"] \in sent'
  <2>1. TIInv' /\ Snapshot' = Snapshot /\ Document' = Document /\ excluded' = excluded
    BY <1>4, TreeUntouched DEF EInv
  <2>2. sent' # {}
    BY <1>4
  <2> QED
    BY <1>1, <1>2, <1>4, <2>1, <2>2 DEF EInv, ServedOK, Current, Open
<1> QED
  BY <1>3, <1>4 DEF Apply

LEMMA LoseKeeps ==
  ASSUME EInv, NEW m \in sent, Lose(m)
  PROVE  EInv'
<1>1. UNCHANGED <<served, markup, answer, failed, news>>
  BY DEF Lose, pageVars
<1>2. Mutations' /\ sent' # {}
  <2>1. sent' = (sent \ {m}) \cup {[m EXCEPT !.state = "failed"]}
    BY DEF Lose
  <2> QED
    BY <2>1, BackKeeps DEF EInv
<1>3. TIInv' /\ Snapshot' = Snapshot /\ Document' = Document /\ excluded' = excluded
  BY TreeUntouched DEF EInv, Lose
<1> QED
  BY <1>1, <1>2, <1>3 DEF EInv, ServedOK, Current, Open

\* The failure draws what was served, which is the document when nothing else
\* is on its way.
LEMMA FailKeeps ==
  ASSUME EInv, NEW m \in sent, Fail(m)
  PROVE  EInv'
<1>1. UNCHANGED <<served, answer, failed, news>> /\ markup' = served.kids
  BY DEF Fail
<1>2. Mutations'
  BY BackKeeps DEF EInv, Fail
<1>3. TIInv' /\ Snapshot' = Snapshot /\ Document' = Document /\ excluded' = excluded
  BY TreeUntouched DEF EInv, Fail
<1> QED
  BY <1>1, <1>2, <1>3 DEF EInv, ServedOK, Current, Open

\* A refresh that begins has read nothing, so nothing that is out of date.
LEMMA RefreshKeeps ==
  ASSUME EInv, Refresh
  PROVE  EInv'
<1> DEFINE a == [tree |-> None, unread |-> Requirements, excluded |-> {}]
<1>1. TIInv' /\ Snapshot' = Snapshot /\ Document' = Document /\ excluded' = excluded
  BY TreeUntouched DEF EInv, Refresh
<1>2. answer' = a /\ UNCHANGED <<served, sent, markup>> /\ Open /\ news' \in BOOLEAN
  BY DEF Refresh, EInv
<1>3. a \in Readings /\ a.tree = None /\ a.unread = Requirements /\ a.excluded = {}
  BY DEF Readings
<1>4. a # None
  BY <1>3, PageAssumption
<1>5. excluded \subseteq Requirements
  BY DEF EInv, TIInv, TreeTypeOK
<1> HIDE DEF a
<1> QED
  BY <1>1, <1>2, <1>3, <1>4, <1>5 DEF EInv, Mutations, ServedOK, Current, Open

LEMMA ReadTreeKeeps ==
  ASSUME EInv, ReadTree
  PROVE  EInv'
<1> DEFINE a == [answer EXCEPT !.tree = Snapshot]
<1>1. TIInv' /\ Snapshot' = Snapshot /\ Document' = Document /\ excluded' = excluded
  BY TreeUntouched DEF EInv, ReadTree
<1>2. answer' = a /\ UNCHANGED <<served, sent, markup, news, failed>> /\ answer # None
  BY DEF ReadTree
<1>3. answer \in Readings /\ Open
  BY <1>2 DEF EInv, ServedOK
<1>4. Snapshot \in Documents
  BY SnapshotIs DEF EInv
<1>5. a \in Readings /\ a.tree = Snapshot /\ a.unread = answer.unread /\ a.excluded = answer.excluded
  BY <1>3, <1>4 DEF Readings
<1>6. a # None
  BY <1>5, PageAssumption
<1> HIDE DEF a
<1> QED
  BY <1>1, <1>2, <1>3, <1>5, <1>6 DEF EInv, Mutations, ServedOK, Current, Open

LEMMA ReadIncludedKeeps ==
  ASSUME EInv, NEW r \in Requirements, ReadIncluded(r)
  PROVE  EInv'
<1> DEFINE found == IF r \in InTree THEN answer.excluded ELSE answer.excluded \cup {r}
           a == [answer EXCEPT !.unread = @ \ {r}, !.excluded = found]
<1>1. TIInv' /\ Snapshot' = Snapshot /\ Document' = Document /\ excluded' = excluded
  BY TreeUntouched DEF EInv, ReadIncluded
<1>2. answer' = a /\ UNCHANGED <<served, sent, markup, news, failed>> /\ answer # None
  BY DEF ReadIncluded
<1>3. answer \in Readings /\ Open
  BY <1>2 DEF EInv, ServedOK
<1>4. found \in SUBSET Requirements
  BY <1>3 DEF Readings
<1>5. excluded = Requirements \ InTree
  BY DEF EInv, TIInv, NothingLost
<1>6. answer.excluded = excluded \ answer.unread => found = excluded \ (answer.unread \ {r})
  BY <1>5
<1> HIDE DEF found
<1>7. a \in Readings /\ a.tree = answer.tree /\ a.unread = answer.unread \ {r} /\ a.excluded = found
  BY <1>3, <1>4 DEF Readings
<1>8. a # None
  BY <1>7, PageAssumption
<1> HIDE DEF a
<1> QED
  BY <1>1, <1>2, <1>3, <1>6, <1>7, <1>8 DEF EInv, Mutations, ServedOK, Current, Open

\* Parts read at different moments are of one document when no announcement is
\* to come, since whatever changes one of them is announced.
LEMMA RenderKeeps ==
  ASSUME EInv, Render
  PROVE  EInv'
<1> DEFINE s == [kids |-> answer.tree.kids, kind |-> answer.tree.kind, excluded |-> answer.excluded]
<1>1. TIInv' /\ Snapshot' = Snapshot /\ Document' = Document /\ excluded' = excluded
  BY TreeUntouched DEF EInv, Render
<1>2. /\ answer # None /\ answer.tree # None /\ answer.unread = {}
      /\ served' = s /\ markup' = answer.tree.kids /\ answer' = None
      /\ UNCHANGED <<sent, news>>
  BY DEF Render
<1>3. answer \in Readings /\ answer.tree \in Documents /\ Open
  BY <1>2 DEF EInv, ServedOK, Readings
<1>4. s \in Answers /\ s.kids = answer.tree.kids
  BY <1>3 DEF Answers, Documents, Readings
<1>5. answer.tree = Snapshot /\ answer.excluded = excluded => s = Document
  BY DEF Snapshot, Document
<1> HIDE DEF s
<1>6. ~news => s = Document
  BY <1>2, <1>3, <1>5 DEF EInv, Current
<1> QED
  BY <1>1, <1>2, <1>4, <1>6 DEF EInv, Mutations, ServedOK, Current, Open

LEMMA FailRefreshKeeps ==
  ASSUME EInv, FailRefresh
  PROVE  EInv'
<1>1. TIInv' /\ Snapshot' = Snapshot /\ Document' = Document /\ excluded' = excluded
  BY TreeUntouched DEF EInv, FailRefresh
<1> QED
  BY <1>1 DEF EInv, Mutations, ServedOK, Current, Open, FailRefresh

LEMMA CloseKeeps ==
  ASSUME EInv, Close
  PROVE  EInv'
<1>1. TIInv' /\ Snapshot' = Snapshot /\ Document' = Document /\ excluded' = excluded
  BY TreeUntouched DEF EInv, Close
<1> QED
  BY <1>1 DEF EInv, Mutations, ServedOK, Current, Open, Close

LEMMA OtherKeeps ==
  ASSUME EInv, Other
  PROVE  EInv'
<1>1. TIInv'
  BY NextTIInv DEF EInv, Other
<1>2. UNCHANGED <<served, markup, answer, failed, sent>>
  BY DEF Other, pageVars
<1>3. IF Open THEN news' = TRUE ELSE news' = news
  BY DEF Other
<1> QED
  BY <1>1, <1>2, <1>3 DEF EInv, Mutations, ServedOK, Current, Open

LEMMA NextEInv == EInv /\ [Next]_vars => EInv'
<1> SUFFICES ASSUME EInv, [Next]_vars PROVE EInv'
  OBVIOUS
<1>1. CASE UNCHANGED vars
  <2>1. TIInv' /\ Snapshot' = Snapshot /\ Document' = Document /\ excluded' = excluded
    BY <1>1, TreeUntouched DEF EInv, vars
  <2> QED
    BY <1>1, <2>1 DEF EInv, Mutations, ServedOK, Current, Open, vars
<1> QED
  BY <1>1, DropKeeps, PressKeeps, ApplyKeeps, LoseKeeps, FailKeeps, RefreshKeeps,
     ReadTreeKeeps, ReadIncludedKeeps, RenderKeeps, FailRefreshKeeps, CloseKeeps, OtherKeeps DEF Next

LEMMA SpecEInv == Spec => []EInv
BY InitEInv, NextEInv, PTL DEF Spec

-----------------------------------------------------------------------------
(* What a person and the other clients can rely on. *)

\* Whatever pages and programs ask of the service, in whatever order it
\* arrives, what it serves is a tree whose prose has no children, nothing
\* shipped or made since is lost, and its numbers outline it.
THEOREM ServedATree == Spec => [](IsTree /\ NothingLost /\ NumbersOutline)
<1>1. EInv => IsTree /\ NothingLost /\ NumbersOutline
  BY TIInvImplies, TIInvNumbers DEF EInv
<1> QED
  BY <1>1, SpecEInv, PTL

\* When nothing is on its way any more and the last refresh has not failed, the
\* page's markup is the document and its list what is excluded: neither a refused
\* or lost drop, nor what others did, nor a refresh that read the tree before a
\* change and the requirements after it, stays behind.
THEOREM ShowsTheDocument == Spec => []MarkupIsServed
<1>1. EInv => MarkupIsServed
  BY DEF EInv, Current, MarkupIsServed, Document
<1> QED
  BY <1>1, SpecEInv, PTL
-----------------------------------------------------------------------------
(* Where things are in any lists, not only the service's. *)

InLists(k) == UNION {Range(k[p]) : p \in Nodes}

Lone(k) ==
  /\ k \in [Nodes -> Seq(Ids)]
  /\ \A p \in Nodes : NoDup(k[p])
  /\ \A p, q \in Nodes : p # q => Range(k[p]) \cap Range(k[q]) = {}

LEMMA InListsIs == \A k, n : n \in InLists(k) <=> \E p \in Nodes : n \in Range(k[p])
BY DEF InLists

LEMMA TreeIsLone == TIInv => Lone(kids) /\ InLists(kids) = InTree
BY DEF TIInv, TreeTypeOK, Unique, Kids, Lone, InLists, InTree

LEMMA InsertIs ==
  ASSUME NEW E, NEW s \in Seq(E), NEW i \in 0..Len(s), NEW n
  PROVE  Insert(s, i, n) = InsertAt(s, i + 1, n)
<1>0. Len(s) \in Nat /\ i \in Nat /\ i <= Len(s)
  OBVIOUS
<1>1. Min({i, Len(s)}) = i
  <2>1. i \in {i, Len(s)} /\ \A y \in {i, Len(s)} : i <= y
    BY <1>0
  <2>2. Min({i, Len(s)}) \in {i, Len(s)} /\ \A y \in {i, Len(s)} : Min({i, Len(s)}) <= y
    BY <2>1, Zenon DEF Min
  <2> QED
    BY <1>0, <2>2
<1>2. Max({0, i}) = i
  <2>1. \E x \in {0, i} : \A y \in {0, i} : x >= y
    BY <1>0
  <2>2. Max({0, i}) \in {0, i} /\ \A y \in {0, i} : Max({0, i}) >= y
    BY <2>1, Zenon DEF Max
  <2> QED
    BY <1>0, <2>2
<1> QED
  BY <1>1, <1>2, Zenon DEF Insert

\* What is inserted at the end is appended.
LEMMA InsertLast ==
  ASSUME NEW E, NEW s \in Seq(E), NEW n \in E
  PROVE  Insert(s, Len(s), n) = Append(s, n)
<1>0. Len(s) \in Nat /\ Len(s) \in 0..Len(s) /\ Len(s) + 1 \in (Len(s) + 1)..(Len(s) + 1)
  OBVIOUS
<1> DEFINE w == Spliced(s, Len(s), <<n>>, Len(s) + 1)
           v == Append(s, n)
<1>1. Insert(s, Len(s), n) = w
  <2>1. Insert(s, Len(s), n) = InsertAt(s, Len(s) + 1, n)
    BY <1>0, InsertIs
  <2>2. (Len(s) + 1) - 1 = Len(s)
    BY <1>0
  <2> QED
    BY <2>1, <2>2 DEF InsertAt, Spliced
<1>2. <<n>> \in Seq(E) /\ Len(<<n>>) = 1 /\ <<n>>[1] = n
  OBVIOUS
<1>3. /\ w \in Seq(E) /\ Len(w) = Len(s) + 1
      /\ \A i \in 1..(Len(s) + 1) : w[i] = IF i <= Len(s) THEN s[i] ELSE n
  <2> DEFINE t == <<n>>
             a == Len(s)
             b == a + 1
  <2>1. t \in Seq(E) /\ Len(t) = 1 /\ t[1] = n /\ a \in Nat /\ a \in 0..Len(s) /\ b \in (a + 1)..(Len(s) + 1)
          /\ a = Len(s) /\ b = a + 1
    BY <1>0, <1>2
  <2> HIDE DEF t, a, b
  <2>2. /\ Spliced(s, a, t, b) \in Seq(E)
        /\ Len(Spliced(s, a, t, b)) = a + Len(t) + Len(s) - b + 1
        /\ \A i \in 1..(a + Len(t) + Len(s) - b + 1) :
             Spliced(s, a, t, b)[i] =
               IF i <= a THEN s[i]
               ELSE IF i <= a + Len(t) THEN t[i - a]
               ELSE s[i - a - Len(t) + b - 1]
    <3>1. t \in Seq(E) /\ a \in 0..Len(s) /\ b \in (a + 1)..(Len(s) + 1)
      BY <2>1
    <3> QED
      BY <3>1, SplicedShape
  <2>3. a + Len(t) + Len(s) - b + 1 = Len(s) + 1
    BY <2>1
  <2>4. \A i \in 1..(Len(s) + 1) : i <= a \/ (i = a + 1 /\ i - a = 1 /\ i <= a + Len(t))
    BY <2>1
  <2> QED
    BY <2>1, <2>2, <2>3, <2>4 DEF t, a, b
<1>4. /\ v \in Seq(E) /\ Len(v) = Len(s) + 1
      /\ \A i \in 1..Len(s) : v[i] = s[i]
      /\ v[Len(s) + 1] = n
  BY AppendProperties
<1> HIDE DEF w, v
<1>5. \A i \in 1..(Len(s) + 1) : w[i] = v[i]
  <2> SUFFICES ASSUME NEW i \in 1..(Len(s) + 1) PROVE w[i] = v[i]
    OBVIOUS
  <2>1. CASE i = Len(s) + 1
    <3>1. ~(i <= Len(s))
      BY <1>0, <2>1
    <3> QED
      BY <1>3, <1>4, <2>1, <3>1
  <2>2. CASE i # Len(s) + 1
    <3>1. i \in 1..Len(s) /\ i <= Len(s)
      BY <1>0, <2>2
    <3> QED
      BY <1>3, <1>4, <3>1
  <2> QED
    BY <2>1, <2>2
<1>6. w = v
  BY <1>3, <1>4, <1>5, SeqEqual
<1> QED
  BY <1>1, <1>6 DEF v

LEMMA WithoutHolds ==
  ASSUME NEW E, NEW s \in Seq(E), NoDup(s), NEW n
  PROVE  /\ Without(s, n) \in Seq(E)
         /\ Range(Without(s, n)) = Range(s) \ {n}
         /\ NoDup(Without(s, n))
<1>1. CASE n \in Range(s)
  <2> DEFINE i == CHOOSE j \in DOMAIN s : s[j] = n
  <2>1. \E j \in DOMAIN s : s[j] = n
    BY <1>1, RangeIs
  <2>2. i \in 1..Len(s) /\ s[i] = n
    BY <2>1, RangeIs
  <2>3. Without(s, n) = RemoveAt(s, i)
    BY <1>1 DEF Without
  <2> HIDE DEF i
  <2> QED
    BY <2>2, <2>3, RemoveHolds
<1>2. CASE n \notin Range(s)
  BY <1>2 DEF Without
<1> QED
  BY <1>1, <1>2

\* What a drop makes of the lists of k.
DroppedIn(k, n, p, i) ==
  [q \in Nodes |-> IF q = p THEN InsertAt(Without(k[q], n), i + 1, n) ELSE Without(k[q], n)]

LEMMA DropHolds ==
  ASSUME NEW k, Lone(k), NEW n \in InLists(k), n \in Ids, NEW p \in Nodes, NEW i \in 0..Len(Without(k[p], n))
  PROVE  Lone(DroppedIn(k, n, p, i)) /\ InLists(DroppedIn(k, n, p, i)) = InLists(k)
<1> DEFINE d == DroppedIn(k, n, p, i)
           s == Without(k[p], n)
<1>1. \A q \in Nodes : /\ Without(k[q], n) \in Seq(Ids) /\ Range(Without(k[q], n)) = Range(k[q]) \ {n}
                       /\ NoDup(Without(k[q], n))
  BY WithoutHolds DEF Lone
<1>2. s \in Seq(Ids) /\ NoDup(s) /\ n \notin Range(s) /\ Range(s) = Range(k[p]) \ {n}
  BY <1>1
<1>3. \A q \in Nodes : d[q] = IF q = p THEN InsertAt(s, i + 1, n) ELSE Without(k[q], n)
  BY DEF DroppedIn
<1>4. d = [q \in Nodes |-> d[q]]
  BY DEF DroppedIn
<1>5. i \in 0..Len(s) /\ i \in Int
  OBVIOUS
<1> HIDE DEF d, s
<1>6. InsertAt(s, i + 1, n) = Insert(s, i, n)
  BY <1>2, <1>5, InsertIs
<1>7. /\ Insert(s, i, n) \in Seq(Ids)
      /\ Range(Insert(s, i, n)) = Range(s) \cup {n}
      /\ NoDup(Insert(s, i, n))
  BY <1>2, <1>5, InsertHolds
<1>8. \A q \in Nodes : /\ d[q] \in Seq(Ids) /\ NoDup(d[q])
                       /\ Range(d[q]) = (Range(k[q]) \ {n}) \cup (IF q = p THEN {n} ELSE {})
  BY <1>1, <1>2, <1>3, <1>6, <1>7
<1>9. d \in [Nodes -> Seq(Ids)]
  BY <1>4, <1>8
<1>10. Lone(d)
  BY <1>8, <1>9 DEF Lone
<1>11. \A m : m \in InLists(d) <=> m \in InLists(k)
  <2>1. n \in InLists(d)
    BY <1>8, InListsIs
  <2>2. \A m : m # n => (m \in InLists(d) <=> m \in InLists(k))
    <3>1. \A m : m # n => \A q \in Nodes : m \in Range(d[q]) <=> m \in Range(k[q])
      BY <1>8
    <3> QED
      BY <3>1, InListsIs
  <2> QED
    BY <2>1, <2>2
<1> QED
  BY <1>10, <1>11 DEF d

-----------------------------------------------------------------------------
(* Levels.  There is one such function, and its levels are of nodes. *)

IsLevels(f, k, D) == f = [d \in 0..D |-> IF d = 0 THEN {Root} ELSE UNION {Range(k[n]) : n \in f[d - 1]}]

LEMMA LevelsExist == \A k : \A D \in Nat : \E f : IsLevels(f, k, D)
<1> SUFFICES ASSUME NEW k PROVE \A D \in Nat : \E f : IsLevels(f, k, D)
  OBVIOUS
<1> DEFINE B == {D \in Nat : ~ \E f : IsLevels(f, k, D)}
<1> SUFFICES ASSUME B # {} PROVE FALSE
  OBVIOUS
<1>1. PICK b \in B : \A D \in B : b <= D
  BY LeastNatural
<1>2. b # 0
  <2> DEFINE f == [d \in 0..0 |-> {Root}]
  <2>1. \A d \in 0..0 : d = 0
    OBVIOUS
  <2>2. f = [d \in 0..0 |-> IF d = 0 THEN {Root} ELSE UNION {Range(k[n]) : n \in f[d - 1]}]
    BY <2>1
  <2>3. IsLevels(f, k, 0)
    BY <2>2 DEF IsLevels
  <2> QED
    BY <2>3
<1>3. b - 1 \in Nat /\ ~(b <= b - 1)
  BY <1>2
<1>4. PICK f : IsLevels(f, k, b - 1)
  BY <1>1, <1>3
<1> DEFINE g == [d \in 0..b |-> IF d = b THEN UNION {Range(k[n]) : n \in f[b - 1]} ELSE f[d]]
<1>5. \A d \in 0..b : g[d] = IF d = 0 THEN {Root} ELSE UNION {Range(k[n]) : n \in g[d - 1]}
  <2> SUFFICES ASSUME NEW d \in 0..b
               PROVE  g[d] = IF d = 0 THEN {Root} ELSE UNION {Range(k[n]) : n \in g[d - 1]}
    OBVIOUS
  <2>1. d = 0 \/ (d - 1 \in 0..b /\ d - 1 # b)
    BY <1>3
  <2>2. d # 0 => g[d - 1] = f[d - 1]
    BY <2>1
  <2>3. CASE d = b
    BY <1>2, <2>2, <2>3
  <2>4. CASE d # b
    <3>1. d \in 0..(b - 1)
      BY <1>3, <2>4
    <3>2. f[d] = IF d = 0 THEN {Root} ELSE UNION {Range(k[n]) : n \in f[d - 1]}
      BY <1>4, <3>1 DEF IsLevels
    <3> QED
      BY <2>2, <2>4, <3>2
  <2> QED
    BY <2>3, <2>4
<1>6. g = [d \in 0..b |-> g[d]]
  OBVIOUS
<1> HIDE DEF g
<1>7. g = [d \in 0..b |-> IF d = 0 THEN {Root} ELSE UNION {Range(k[n]) : n \in g[d - 1]}]
  BY <1>5, <1>6
<1>8. IsLevels(g, k, b)
  BY <1>7 DEF IsLevels
<1> QED
  BY <1>8

LEMMA LevelsAre ==
  ASSUME NEW k
  PROVE  /\ Levels(k)[0] = {Root}
         /\ \A d \in 1..MaxDepth : Levels(k)[d] = UNION {Range(k[n]) : n \in Levels(k)[d - 1]}
<1>1. MaxDepth \in Nat
  BY PageAssumption
<1>2. Levels(k) = CHOOSE f : IsLevels(f, k, MaxDepth)
  BY DEF Levels, IsLevels
<1>3. IsLevels(Levels(k), k, MaxDepth)
  BY <1>1, <1>2, LevelsExist
<1> HIDE DEF Levels
<1>4. \A d \in 0..MaxDepth :
        Levels(k)[d] = IF d = 0 THEN {Root} ELSE UNION {Range(k[n]) : n \in Levels(k)[d - 1]}
  BY <1>3 DEF IsLevels
<1>5. 0 \in 0..MaxDepth /\ \A d \in 1..MaxDepth : d \in 0..MaxDepth /\ d # 0
  BY <1>1
<1> QED
  BY <1>4, <1>5

LEMMA OnLevel ==
  ASSUME NEW k, NEW d \in 1..MaxDepth
  PROVE  \A n : n \in Levels(k)[d] <=> \E y \in Levels(k)[d - 1] : n \in Range(k[y])
BY LevelsAre

LEMMA LevelsHoldNodes ==
  ASSUME NEW k, k \in [Nodes -> Seq(Ids)]
  PROVE  \A d \in 0..MaxDepth : Levels(k)[d] \subseteq Nodes
<1> DEFINE B == {d \in Nat : d \in 0..MaxDepth /\ ~(Levels(k)[d] \subseteq Nodes)}
<1>0. MaxDepth \in Nat
  BY PageAssumption
<1> SUFFICES ASSUME B # {} PROVE FALSE
  BY <1>0
<1>1. PICK b \in B : \A d \in B : b <= d
  BY LeastNatural
<1>2. b # 0
  BY LevelsAre DEF Nodes
<1>3. b - 1 \in Nat /\ b - 1 \in 0..MaxDepth /\ ~(b <= b - 1) /\ b \in 1..MaxDepth
  BY <1>0, <1>2
<1>4. Levels(k)[b - 1] \subseteq Nodes
  BY <1>1, <1>3
<1>5. \A y \in Nodes : Range(k[y]) \subseteq Nodes
  BY RangeIs DEF Nodes
<1> QED
  BY <1>3, <1>4, <1>5, OnLevel
-----------------------------------------------------------------------------
(* What was served, the markup, and what was asked of them. *)

RowsOf(s) == UNION {Levels(s.kids)[d] : d \in 1..MaxDepth}
DeepestOf(s) == Levels(s.kids)[MaxDepth]
ListsOf(s) == {Root} \cup {n \in RowsOf(s) \ DeepestOf(s) : s.kind[n] # "prose"}

Shown(s) == s \in Answers /\ Lone(s.kids)

\* The markup holds what was served, wherever it has been dropped.
Drawn(k, s) == Shown(s) /\ Lone(k) /\ InLists(k) = InLists(s.kids)

Asked(m) ==
  /\ Drawn(m.basis, m.drawn)
  /\ m.ask.act \in {"move", "heading", "prose", "exclude", "include", "reset"}
  /\ m.ask.act = "move" =>
       /\ m.ask.node \in RowsOf(m.drawn) /\ m.ask.node \in Ids
       /\ m.ask.to \in ListsOf(m.drawn) /\ m.ask.to \notin Within(m.basis, m.ask.node)
       /\ m.ask.index \in 0..Len(Without(m.basis[m.ask.to], m.ask.node))
       /\ m.ask.want = DroppedIn(m.basis, m.ask.node, m.ask.to, m.ask.index)
       /\ m.ask.want # m.basis
  /\ m.ask.act = "heading" => m.ask.node \in RowsOf(m.drawn) \ DeepestOf(m.drawn)
  /\ m.ask.act = "prose" => m.ask.to \in ListsOf(m.drawn) /\ m.ask.index = Len(m.drawn.kids[m.ask.to])
  /\ m.ask.act = "exclude" => m.ask.node \in RowsOf(m.drawn) /\ m.ask.node \in Requirements
  /\ m.ask.act = "include" => m.ask.node \in m.drawn.excluded

PageInv ==
  /\ Open => Drawn(markup, served)
  /\ answer # None /\ answer.tree # None => Lone(answer.tree.kids)
  /\ \A m \in sent : m.state = "sent" => Asked(m)

LEMMA ShownIsDrawn == \A s : Shown(s) => Drawn(s.kids, s)
BY DEF Shown, Drawn

LEMMA DocumentShown ==
  TIInv => Shown(Document) /\ Document.kids = kids /\ Snapshot.kids = kids /\ Lone(kids)
<1> SUFFICES ASSUME TIInv PROVE Shown(Document) /\ Document.kids = kids /\ Snapshot.kids = kids /\ Lone(kids)
  OBVIOUS
<1>1. Document.kids = kids /\ Snapshot.kids = kids
  BY DEF Document, Snapshot
<1> QED
  BY <1>1, SnapshotIs, TreeIsLone DEF Shown

LEMMA RowsAreIn ==
  ASSUME NEW s, Lone(s.kids)
  PROVE  /\ RowsOf(s) \subseteq InLists(s.kids) /\ RowsOf(s) \subseteq Ids
         /\ ListsOf(s) \subseteq Nodes
<1>0. MaxDepth \in Nat /\ \A d \in 1..MaxDepth : d - 1 \in 0..MaxDepth
  BY PageAssumption
<1>1. ASSUME NEW d \in 1..MaxDepth, NEW n \in Levels(s.kids)[d]
      PROVE  n \in InLists(s.kids) /\ n \in Ids
  <2>1. PICK y \in Levels(s.kids)[d - 1] : n \in Range(s.kids[y])
    BY OnLevel
  <2>2. y \in Nodes
    BY <1>0, LevelsHoldNodes DEF Lone
  <2>3. n \in Ids
    BY <2>1, <2>2, RangeIs DEF Lone
  <2> QED
    BY <2>1, <2>2, <2>3, InListsIs
<1> QED
  BY <1>1 DEF RowsOf, ListsOf, Nodes

LEMMA InitPage == Init => PageInv
<1> SUFFICES ASSUME Init PROVE PageInv
  OBVIOUS
<1>1. TIInv
  BY InitTIInv DEF Init
<1> QED
  BY <1>1, DocumentShown, ShownIsDrawn DEF Init, PageInv, ClosedPage, Open

LEMMA SendAsks ==
  ASSUME PageInv, NEW a, Send(a), Asked([ask |-> a, basis |-> markup, drawn |-> served, state |-> "sent"])
  PROVE  \A m \in sent' : m.state = "sent" => Asked(m)
BY DEF Send, PageInv

LEMMA DropPage ==
  ASSUME EInv, PageInv, NEW n \in Ids, NEW p \in Nodes, NEW i \in Nat, Drop(n, p, i)
  PROVE  PageInv'
<1> DEFINE a == [act |-> "move", node |-> n, to |-> p, index |-> i, want |-> Dropped(n, p, i)]
           m == [ask |-> a, basis |-> markup, drawn |-> served, state |-> "sent"]
<1>1. Send(a) /\ UNCHANGED <<served, answer>> /\ markup' = Dropped(n, p, i)
  BY DEF Drop, Send
<1>2. /\ Open /\ n \in Rows /\ p \in Lists \ Within(markup, n) /\ i \in 0..Len(Without(markup[p], n))
      /\ Dropped(n, p, i) # markup
  BY DEF Drop
<1>3. Drawn(markup, served)
  BY <1>2 DEF PageInv
<1>4. Dropped(n, p, i) = DroppedIn(markup, n, p, i) /\ Rows = RowsOf(served) /\ Lists = ListsOf(served)
  BY DEF Dropped, DroppedIn, Rows, RowsOf, Lists, ListsOf, Deepest, DeepestOf
<1>5. n \in InLists(markup)
  BY <1>2, <1>3, <1>4, RowsAreIn DEF Drawn, Shown
<1>6. Drawn(markup', served)
  BY <1>1, <1>2, <1>3, <1>4, <1>5, DropHolds DEF Drawn
<1>7. Asked(m)
  <2>1. /\ m.basis = markup /\ m.drawn = served /\ m.ask.act = "move" /\ m.ask.node = n /\ m.ask.to = p
        /\ m.ask.index = i /\ m.ask.want = Dropped(n, p, i)
    OBVIOUS
  <2> HIDE DEF m, a
  <2> QED
    BY <1>2, <1>3, <1>4, <2>1 DEF Asked
<1> HIDE DEF a
<1>8. \A o \in sent' : o.state = "sent" => Asked(o)
  BY <1>1, <1>7, SendAsks
<1> QED
  BY <1>1, <1>6, <1>8 DEF PageInv, Open

LEMMA PressPage ==
  ASSUME EInv, PageInv, Press
  PROVE  PageInv'
<1>1. Open /\ markup' = markup /\ Drawn(markup, served)
  BY DEF Press, PageInv
<1>2. Rows = RowsOf(served) /\ Lists = ListsOf(served) /\ Deepest = DeepestOf(served)
  BY DEF Rows, RowsOf, Lists, ListsOf, Deepest, DeepestOf
<1> DEFINE M(a) == [ask |-> a, basis |-> markup, drawn |-> served, state |-> "sent"]
<1>3. \A a : M(a).ask = a /\ M(a).basis = markup /\ M(a).drawn = served
  OBVIOUS
<1> HIDE DEF M
<1>4. \E a : Send(a) /\ Asked(M(a))
  <2>1. ASSUME NEW n \in Rows \ Deepest, Send([act |-> "heading", node |-> n])
        PROVE  \E a : Send(a) /\ Asked(M(a))
    <3>1. Asked(M([act |-> "heading", node |-> n]))
      BY <1>1, <1>2, <1>3 DEF Asked
    <3> QED
      BY <2>1, <3>1
  <2>2. ASSUME NEW p \in Lists,
               Send([act |-> "prose", to |-> p, index |-> Len(served.kids[p])])
        PROVE  \E a : Send(a) /\ Asked(M(a))
    <3>1. Asked(M([act |-> "prose", to |-> p, index |-> Len(served.kids[p])]))
      BY <1>1, <1>2, <1>3 DEF Asked
    <3> QED
      BY <2>2, <3>1
  <2>3. ASSUME NEW r \in Rows \cap Requirements, Send([act |-> "exclude", node |-> r])
        PROVE  \E a : Send(a) /\ Asked(M(a))
    <3>1. Asked(M([act |-> "exclude", node |-> r]))
      BY <1>1, <1>2, <1>3 DEF Asked
    <3> QED
      BY <2>3, <3>1
  <2>4. ASSUME NEW r \in served.excluded, Send([act |-> "include", node |-> r])
        PROVE  \E a : Send(a) /\ Asked(M(a))
    <3>1. Asked(M([act |-> "include", node |-> r]))
      BY <1>1, <1>2, <1>3 DEF Asked
    <3> QED
      BY <2>4, <3>1
  <2>5. ASSUME Send([act |-> "reset"])
        PROVE  \E a : Send(a) /\ Asked(M(a))
    <3>1. Asked(M([act |-> "reset"]))
      BY <1>1, <1>2, <1>3 DEF Asked
    <3> QED
      BY <2>5, <3>1
  <2> QED
    BY <2>1, <2>2, <2>3, <2>4, <2>5 DEF Press
<1>5. PICK a : Send(a) /\ Asked(M(a))
  BY <1>4
<1>6. \A o \in sent' : o.state = "sent" => Asked(o)
  BY <1>5, SendAsks DEF M
<1>7. UNCHANGED <<served, answer>>
  BY <1>5 DEF Send
<1> QED
  BY <1>1, <1>6, <1>7 DEF PageInv, Open

\* Nothing more has been asked.
LEMMA FewerAsked ==
  ASSUME EInv, PageInv, NEW m \in sent, sent' \subseteq sent \cup {[m EXCEPT !.state = "failed"]}
  PROVE  \A o \in sent' : o.state = "sent" => Asked(o)
<1> DEFINE f == [m EXCEPT !.state = "failed"]
<1>1. f.state = "failed"
  BY DEF EInv, Mutations
<1> HIDE DEF f
<1>2. sent' \subseteq sent \cup {f}
  BY DEF f
<1> QED
  BY <1>1, <1>2 DEF PageInv

LEMMA NextPage == EInv /\ PageInv /\ [Next]_vars => PageInv'
<1> SUFFICES ASSUME EInv, PageInv, [Next]_vars PROVE PageInv'
  OBVIOUS
<1>1. ASSUME NEW n \in Ids, NEW p \in Nodes, NEW i \in 0..Cardinality(Ids), Drop(n, p, i)
      PROVE  PageInv'
  <2>1. i \in Nat
    <3>1. i \in 0..Len(Without(markup[p], n))
      BY <1>1 DEF Drop
    <3> QED
      BY <3>1
  <2> QED
    BY <1>1, <2>1, DropPage
<1>2. CASE Press
  BY <1>2, PressPage
<1>3. ASSUME NEW m \in sent, Apply(m) \/ Lose(m) \/ Fail(m)
      PROVE  PageInv'
  <2>1. sent' \subseteq sent \cup {[m EXCEPT !.state = "failed"]}
    BY <1>3 DEF Apply, Lose, Fail
  <2>2. \A o \in sent' : o.state = "sent" => Asked(o)
    BY <2>1, FewerAsked
  <2>3. UNCHANGED <<served, answer>> /\ (markup' = markup \/ markup' = served.kids)
    BY <1>3 DEF Apply, Lose, Fail, pageVars
  <2> QED
    BY <2>2, <2>3, ShownIsDrawn DEF PageInv, Open, Drawn
<1>4. CASE Refresh \/ FailRefresh
  <2>1. UNCHANGED <<served, markup, sent>> /\ (answer' # None => answer'.tree = None)
    BY <1>4 DEF Refresh, FailRefresh
  <2> QED
    BY <2>1 DEF PageInv, Open
<1>5. CASE ReadTree
  <2>1. UNCHANGED <<served, markup, sent>> /\ answer # None /\ answer' = [answer EXCEPT !.tree = Snapshot]
    BY <1>5 DEF ReadTree
  <2>2. answer'.tree = Snapshot
    BY <2>1 DEF EInv, ServedOK, Readings
  <2> QED
    BY <2>1, <2>2, DocumentShown DEF PageInv, Open, EInv
<1>6. ASSUME NEW r \in Requirements, ReadIncluded(r)
       PROVE  PageInv'
  <2>1. UNCHANGED <<served, markup, sent>> /\ answer # None
    BY <1>6 DEF ReadIncluded
  <2>2. answer'.tree = answer.tree
    BY <1>6, <2>1 DEF ReadIncluded, EInv, ServedOK, Readings
  <2> QED
    BY <2>1, <2>2 DEF PageInv, Open
<1>7. CASE Render
  <2> DEFINE d == [kids |-> answer.tree.kids, kind |-> answer.tree.kind, excluded |-> answer.excluded]
  <2>1. /\ answer # None /\ answer.tree # None
        /\ served' = d /\ markup' = answer.tree.kids /\ answer' = None /\ sent' = sent
    BY <1>7 DEF Render
  <2>2. d \in Answers /\ d.kids = answer.tree.kids
    BY <2>1 DEF EInv, ServedOK, Readings, Documents, Answers
  <2> HIDE DEF d
  <2>3. Shown(d)
    BY <2>1, <2>2 DEF Shown, PageInv
  <2> QED
    BY <2>1, <2>2, <2>3, ShownIsDrawn DEF PageInv
<1>8. CASE Close
  BY <1>8 DEF Close, PageInv, Open
<1>9. CASE Other
  BY <1>9 DEF Other, pageVars, PageInv, Open
<1>10. CASE UNCHANGED vars
  BY <1>10 DEF vars, PageInv, Open
<1> QED
  BY <1>1, <1>2, <1>3, <1>4, <1>5, <1>6, <1>7, <1>8, <1>9, <1>10 DEF Next

LEMMA SpecPage == Spec => [](EInv /\ PageInv)
<1>1. Init => EInv /\ PageInv
  BY InitEInv, InitPage
<1>2. EInv /\ PageInv /\ [Next]_vars => (EInv /\ PageInv)'
  BY NextEInv, NextPage
<1> QED
  BY <1>1, <1>2, PTL DEF Spec
-----------------------------------------------------------------------------
(* A step of the service, when what it changes is as it was on the page. *)

\* The list an element left and the list it came to, as the page drops it.
LEMMA MoveLists ==
  ASSUME TIInv, NEW n \in Ids, NEW p \in Nodes, NEW i \in 0..Len(Without(kids[p], n)), Move(n, p, i)
  PROVE  kids' = DroppedIn(kids, n, p, i)
<1> DEFINE q == Parent(n)
           detached == [kids EXCEPT ![q] = RemoveAt(@, Index(n))]
<1>0. kids \in [Nodes -> Seq(Ids)] /\ n \in InTree /\ TreeTypeOK
  BY DEF TIInv, TreeTypeOK, Move, CanMove
<1>1. q \in Nodes /\ n \in Kids(q)
  BY <1>0, ParentIs
<1>2. kids' = [detached EXCEPT ![p] = Insert(@, i, n)]
  BY DEF Move
<1>3. Without(kids[q], n) = RemoveAt(kids[q], Index(n))
  BY <1>1 DEF Without, Index, Kids
<1> HIDE DEF q
<1>4. \A x \in Nodes : x # q => Without(kids[x], n) = kids[x]
  BY <1>1 DEF TIInv, Unique, Kids, Without
<1>5. \A x \in Nodes : detached[x] = Without(kids[x], n)
  BY <1>0, <1>1, <1>3, <1>4
<1>6. DOMAIN detached = Nodes
  BY <1>0
<1> HIDE DEF detached
<1>7. Without(kids[p], n) \in Seq(Ids)
  BY <1>0, WithoutHolds DEF TIInv, Unique
<1>8. Insert(Without(kids[p], n), i, n) = InsertAt(Without(kids[p], n), i + 1, n)
  BY <1>7, InsertIs
<1>9. kids' = [x \in Nodes |-> IF x = p THEN Insert(detached[p], i, n) ELSE detached[x]]
  BY <1>2, <1>6
<1> QED
  BY <1>5, <1>8, <1>9 DEF DroppedIn

\* The same of the two lists alone, when the rest has changed.
LEMMA TwoLists ==
  ASSUME TIInv, NEW n \in Ids, NEW p \in Nodes, NEW i \in Int, Move(n, p, i),
         NEW b, Lone(b), n \in InLists(b), i \in 0..Len(Without(b[p], n)),
         b[ListOf(b, n)] = kids[ListOf(b, n)], b[p] = kids[p]
  PROVE  /\ kids'[ListOf(b, n)] = DroppedIn(b, n, p, i)[ListOf(b, n)]
         /\ kids'[p] = DroppedIn(b, n, p, i)[p]
<1> DEFINE q == ListOf(b, n)
<1>1. q \in Nodes /\ b[q] = kids[q]
  BY InListsIs DEF ListOf
<1>2. kids' = DroppedIn(kids, n, p, i)
  BY MoveLists
<1> HIDE DEF q
<1>3. \A x \in {p, q} : DroppedIn(kids, n, p, i)[x] = DroppedIn(b, n, p, i)[x]
  BY <1>1 DEF DroppedIn
<1> QED
  BY <1>2, <1>3 DEF q

\* Nothing is its own ancestor.
LEMMA ParentOutside ==
  ASSUME TIInv, NEW n \in InTree, Parent(n) \in Within(kids, n)
  PROVE  FALSE
<1> DEFINE q == Parent(n)
           W(m) == Within(kids, m)
           C == {m \in W(n) : q \in W(m)}
<1>0. n \in Ids /\ q \in Ids /\ n \in Kids(q) /\ kids \in [Nodes -> Seq(Ids)] /\ Ids \subseteq Nodes
  BY ParentIs DEF Within, TIInv, TreeTypeOK, Nodes
<1>1. \A m \in Ids : m \in W(m) /\ W(m) \subseteq Ids
  BY DEF Within
<1>2. \A m \in Ids : \A y \in W(m) : Kids(y) \subseteq W(m)
  <2> SUFFICES ASSUME NEW m \in Ids, NEW y \in W(m), NEW x \in Kids(y) PROVE x \in W(m)
    OBVIOUS
  <2>1. x \in Ids
    BY <1>0, <1>1, KidsIs DEF TIInv
  <2> QED
    BY <2>1 DEF Within, Kids
<1>3. \A m \in Ids : \A y \in W(m) : W(y) \subseteq W(m)
  <2> SUFFICES ASSUME NEW m \in Ids, NEW y \in W(m), NEW x \in W(y) PROVE x \in W(m)
    OBVIOUS
  <2>1. W(m) \in SUBSET Ids /\ \A s \in W(m) : Range(kids[s]) \subseteq W(m)
    BY <1>1, <1>2 DEF Kids
  <2> QED
    BY <2>1 DEF Within
<1>4. ASSUME NEW m \in W(n), m # n
      PROVE  \E y \in W(n) : m \in Kids(y)
  <2> SUFFICES ASSUME \A y \in W(n) : m \notin Kids(y) PROVE FALSE
    OBVIOUS
  <2> DEFINE S == W(n) \ {m}
  <2>1. S \in SUBSET Ids /\ n \in S
    BY <1>0, <1>1, <1>4
  <2>2. \A s \in S : Range(kids[s]) \subseteq S
    BY <1>0, <1>2 DEF Kids
  <2>3. \A x \in Within(kids, n) : \A T \in SUBSET Ids :
          n \in T /\ (\A s \in T : Range(kids[s]) \subseteq T) => x \in T
    BY DEF Within
  <2> HIDE DEF S
  <2>4. m \in S
    BY <1>4, <2>1, <2>2, <2>3
  <2> QED
    BY <2>4 DEF S
<1>5. C \in SUBSET Ids /\ n \in C /\ q \in C
  BY <1>0, <1>1
<1>6. ASSUME NEW m \in C
      PROVE  \E y \in C : m \in Kids(y)
  <2>1. CASE m = n
    BY <1>0, <1>5, <2>1
  <2>2. CASE m # n
    <3>1. PICK y \in W(n) : m \in Kids(y)
      BY <1>4, <2>2
    <3>2. y \in Ids /\ m \in W(y)
      BY <1>0, <1>1, <1>2, <3>1
    <3>3. W(m) \subseteq W(y)
      BY <1>3, <3>2
    <3> QED
      BY <3>1, <3>3
  <2> QED
    BY <2>1, <2>2
<1> HIDE DEF C
<1> QED
  BY <1>5, <1>6 DEF TIInv, Grounded

\* A node that a step neither takes along nor leaves without its ancestors
\* stays on its level.
LEMMA StaysOnLevel ==
  ASSUME NEW k, k \in [Nodes -> Seq(Ids)], NEW l, NEW S,
         \A y \in Nodes : \A x \in Range(k[y]) : x \in S => y \in S /\ x \in Range(l[y])
  PROVE  \A d \in 0..MaxDepth : \A x \in Levels(k)[d] : x \in S => x \in Levels(l)[d]
<1> DEFINE Kept(d) == \A x \in Levels(k)[d] : x \in S => x \in Levels(l)[d]
           B == {d \in Nat : d \in 0..MaxDepth /\ ~Kept(d)}
<1>0. MaxDepth \in Nat
  BY PageAssumption
<1> SUFFICES ASSUME B # {} PROVE FALSE
  BY <1>0
<1>1. PICK b \in B : \A d \in B : b <= d
  BY LeastNatural
<1>2. b # 0
  BY LevelsAre
<1>3. b - 1 \in Nat /\ b - 1 \in 0..MaxDepth /\ ~(b <= b - 1) /\ b \in 1..MaxDepth
  BY <1>0, <1>2
<1>4. Kept(b - 1)
  BY <1>1, <1>3
<1>5. ASSUME NEW x \in Levels(k)[b], x \in S
      PROVE  x \in Levels(l)[b]
  <2>1. PICK y \in Levels(k)[b - 1] : x \in Range(k[y])
    BY <1>3, OnLevel
  <2>2. y \in Nodes
    BY <1>3, LevelsHoldNodes
  <2>3. y \in S /\ x \in Range(l[y])
    BY <1>5, <2>1, <2>2
  <2>4. y \in Levels(l)[b - 1]
    BY <1>4, <2>1, <2>3
  <2> QED
    BY <1>3, <2>3, <2>4, OnLevel
<1> QED
  BY <1>1, <1>5

\* What is put in a list the page has is in sight.
LEMMA PutInSight ==
  ASSUME NEW s, NEW l, NEW p \in ListsOf(s), NEW n, n \in Range(l[p]),
         \A d \in 0..MaxDepth : p \in Levels(s.kids)[d] => p \in Levels(l)[d]
  PROVE  InSight(l, n)
<1>0. MaxDepth \in Nat \ {0}
  BY PageAssumption
<1>1. PICK d \in 0..MaxDepth : d # MaxDepth /\ p \in Levels(s.kids)[d]
  <2>1. CASE p = Root
    <3>1. 0 \in 0..MaxDepth /\ 0 # MaxDepth
      BY <1>0
    <3> QED
      BY <2>1, <3>1, LevelsAre
  <2>2. CASE p # Root
    <3>1. PICK d \in 1..MaxDepth : p \in Levels(s.kids)[d]
      BY <2>2 DEF ListsOf, RowsOf
    <3>2. d # MaxDepth
      BY <2>2, <3>1 DEF ListsOf, DeepestOf
    <3>3. d \in 0..MaxDepth
      BY <1>0
    <3> QED
      BY <3>1, <3>2, <3>3
  <2> QED
    BY <2>1, <2>2
<1>2. d + 1 \in 1..MaxDepth /\ (d + 1) - 1 = d
  BY <1>0, <1>1
<1>3. p \in Levels(l)[d]
  BY <1>1
<1>4. n \in Levels(l)[d + 1]
  BY <1>2, <1>3, OnLevel
<1> QED
  BY <1>2, <1>4 DEF InSight
\* A list of the page is one the service finds.
LEMMA ListCanHold ==
  ASSUME TIInv, NEW s, Shown(s), InLists(s.kids) = InTree, s.kind = kind, NEW p \in ListsOf(s)
  PROVE  CanHold(p) /\ p \in Nodes
BY RowsAreIn DEF Shown, ListsOf, CanHold

LEMMA MovedAsShown ==
  ASSUME TIInv, NEW m, Asked(m), m.ask.act = "move", m.basis = kids, m.drawn.kind = kind,
         Performs(m.ask) \/ Refuses(m.ask)
  PROVE  /\ kids' # kids /\ kids' = m.ask.want
         /\ m.drawn.kids = kids => \A n \in Ids : n = m.ask.node \/ (n \notin InTree /\ n \in InTree') => InSight(kids', n)
<1> DEFINE n == m.ask.node
           p == m.ask.to
           i == m.ask.index
<1>1. /\ Drawn(kids, m.drawn) /\ n \in RowsOf(m.drawn) /\ n \in Ids
      /\ p \in ListsOf(m.drawn) /\ p \notin Within(kids, n)
      /\ i \in 0..Len(Without(kids[p], n))
      /\ m.ask.want = DroppedIn(kids, n, p, i) /\ m.ask.want # kids
  BY DEF Asked
<1>2. Performs(m.ask) => Move(n, p, i)
  BY DEF Performs
<1>3. Refuses(m.ask) => ~CanMove(n, p)
  BY DEF Refuses
<1>4. Shown(m.drawn) /\ InLists(m.drawn.kids) = InTree
  BY <1>1, TreeIsLone DEF Drawn
<1>5. n \in InTree /\ CanHold(p) /\ p \in Nodes
  BY <1>1, <1>4, RowsAreIn, ListCanHold DEF Shown
<1> HIDE DEF n, p, i
<1>6. p # n /\ p \notin Below(n)
  <2>1. \A x \in Below(n) : x \in Within(kids, n)
    BY DEF Below, Within
  <2>2. n \in Within(kids, n)
    BY <1>1 DEF Within
  <2> QED
    BY <1>1, <2>1, <2>2
<1>7. Move(n, p, i)
  BY <1>2, <1>3, <1>5, <1>6 DEF CanMove
<1>8. kids' = m.ask.want
  BY <1>1, <1>5, <1>7, MoveLists
<1>9. \A x \in Nodes : Kids(x)' = (Kids(x) \ {n}) \cup (IF x = p THEN {n} ELSE {})
  <2>1. i \in Int
    BY <1>1
  <2> QED
    BY <1>1, <1>5, <1>7, <2>1, MoveShape
<1>10. \A x : x \in InTree' => x \in InTree
  <2>1. \A x : x \in InTree' => \E y \in Nodes : x \in Kids(y)'
    BY DEF InTree, Kids
  <2> QED
    BY <1>5, <1>9, <2>1, InTreeIs
<1>11. m.drawn.kids = kids => InSight(kids', n)
  <2> SUFFICES ASSUME m.drawn.kids = kids PROVE InSight(kids', n)
    OBVIOUS
  <2> DEFINE S == Nodes \ Within(kids, n)
  <2>1. kids \in [Nodes -> Seq(Ids)]
    BY DEF TIInv, TreeTypeOK
  <2>2. ASSUME NEW y \in Nodes, NEW x \in Range(kids[y]), x \in S
        PROVE  y \in S /\ x \in Range(kids'[y])
    <3>1. x \in Ids /\ x # n
      BY <1>1, <2>1, <2>2, RangeIs DEF Within
    <3>2. x \in Kids(y)'
      BY <1>9, <2>2, <3>1 DEF Kids
    <3>3. y \notin Within(kids, n)
      BY <2>2, <3>1 DEF Within
    <3> QED
      BY <3>2, <3>3 DEF Kids
  <2>3. p \in S /\ n \in Range(kids'[p])
    BY <1>1, <1>5, <1>9 DEF Kids
  <2> HIDE DEF S
  <2>4. \A d \in 0..MaxDepth : p \in Levels(kids)[d] => p \in Levels(kids')[d]
    BY <2>1, <2>2, <2>3, StaysOnLevel
  <2> QED
    BY <1>1, <2>3, <2>4, PutInSight
<1> QED
  BY <1>1, <1>8, <1>10, <1>11 DEF n

LEMMA ProseAsShown ==
  ASSUME TIInv, NEW m, Asked(m), m.ask.act = "prose", m.basis = kids, m.drawn.kind = kind,
         Performs(m.ask) \/ Refuses(m.ask)
  PROVE  /\ kids' # kids
         /\ m.drawn.kids = kids =>
              /\ \E k \in Fresh : kids' = [kids EXCEPT ![m.ask.to] = Append(@, k)]
              /\ \A n \in Ids : n \notin InTree /\ n \in InTree' => InSight(kids', n)
<1> DEFINE p == m.ask.to
           i == m.ask.index
<1>1. Drawn(kids, m.drawn) /\ p \in ListsOf(m.drawn) /\ i = Len(m.drawn.kids[p])
  BY DEF Asked
<1>2. Shown(m.drawn) /\ InLists(m.drawn.kids) = InTree
  BY <1>1, TreeIsLone DEF Drawn
<1>3. CanHold(p) /\ p \in Nodes
  BY <1>1, <1>2, ListCanHold
<1>4. PICK t \in Texts : AddProse(p, i, t)
  BY <1>3 DEF Performs, Refuses
<1>5. PICK k \in Fresh : IsNewId(k) /\ kids' = [kids EXCEPT ![p] = Insert(@, i, k)]
  BY <1>4 DEF AddProse, Make
<1> HIDE DEF p, i
<1>6. k \in Ids /\ k \notin InTree
  BY <1>5, FreshIsNew
<1>7. kids \in [Nodes -> Seq(Ids)] /\ i \in Int
  BY <1>1, <1>2, <1>3 DEF TIInv, TreeTypeOK, Shown, Lone
<1>8. \A x \in Nodes : Kids(x)' = Kids(x) \cup (IF x = p THEN {k} ELSE {})
  <2> DEFINE s == Insert(kids[p], i, k)
  <2>1. kids' = [kids EXCEPT ![p] = s]
    BY <1>5
  <2> HIDE DEF s
  <2>2. \E j \in Int : s = Insert(kids[p], j, k)
    BY <1>7 DEF s
  <2> QED
    BY <1>3, <1>6, <2>1, <2>2, AddLeafShape
<1>9. kids' # kids
  <2>1. k \in Kids(p)' /\ k \notin Kids(p)
    BY <1>3, <1>6, <1>8, InTreeIs
  <2> QED
    BY <2>1 DEF Kids
<1>10. ASSUME m.drawn.kids = kids
       PROVE  /\ kids' = [kids EXCEPT ![p] = Append(@, k)]
              /\ \A n \in Ids : n \notin InTree /\ n \in InTree' => InSight(kids', n)
  <2>1. Insert(kids[p], i, k) = Append(kids[p], k)
    BY <1>1, <1>3, <1>6, <1>7, <1>10, InsertLast
  <2>2. \A x : x \in InTree' => x \in InTree \/ x = k
    <3>1. \A x : x \in InTree' => \E y \in Nodes : x \in Kids(y)'
      BY DEF InTree, Kids
    <3> QED
      BY <1>8, <3>1, InTreeIs
  <2>3. \A y \in Nodes : \A x \in Range(kids[y]) : x \in Nodes => y \in Nodes /\ x \in Range(kids'[y])
    BY <1>8 DEF Kids
  <2>4. \A d \in 0..MaxDepth : p \in Levels(kids)[d] => p \in Levels(kids')[d]
    BY <1>3, <1>7, <2>3, StaysOnLevel
  <2>5. InSight(kids', k)
    <3>1. k \in Range(kids'[p])
      BY <1>3, <1>8 DEF Kids
    <3> QED
      BY <1>1, <1>10, <2>4, <3>1, PutInSight
  <2> QED
    BY <1>5, <2>1, <2>2, <2>5
<1> QED
  BY <1>9, <1>10 DEF p

LEMMA HeadingAsShown ==
  ASSUME TIInv, NEW m, Asked(m), m.ask.act = "heading", m.basis = kids,
         Performs(m.ask) \/ Refuses(m.ask)
  PROVE  /\ kids' # kids
         /\ m.drawn.kids = kids => \A n \in Ids : n = m.ask.node \/ (n \notin InTree /\ n \in InTree') => InSight(kids', n)
<1> DEFINE n == m.ask.node
           q == Parent(n)
<1>1. Drawn(kids, m.drawn) /\ n \in RowsOf(m.drawn) /\ n \notin DeepestOf(m.drawn)
  BY DEF Asked
<1>2. n \in InTree
  BY <1>1, TreeIsLone, RowsAreIn DEF Drawn, Shown
<1>3. PICK t \in Texts : InsertHeading(n, t)
  BY <1>2 DEF Performs, Refuses
<1>4. PICK k \in Fresh : IsNewId(k) /\ kids' = [kids EXCEPT ![q][Index(n)] = k, ![k] = <<n>>]
  BY <1>3 DEF InsertHeading, Make
<1>5. k \in Ids /\ k \notin InTree /\ k \in Nodes
  BY <1>4, FreshIsNew DEF Nodes
<1>6. /\ \A x \in Nodes : Kids(x)' =
           IF x = q THEN (Kids(x) \ {n}) \cup {k} ELSE IF x = k THEN {n} ELSE Kids(x)
      /\ k # q
  BY <1>2, <1>4, InsertHeadingShape
<1>7. q \in Nodes /\ n \in Kids(q) /\ n \in Ids /\ kids \in [Nodes -> Seq(Ids)]
  BY <1>2, ParentIs DEF TIInv, TreeTypeOK
<1>8. q \notin Within(kids, n)
  BY <1>2, ParentOutside
<1> HIDE DEF n, q
<1>9. kids' # kids
  <2>1. k \in Range(kids'[q])
    BY <1>6, <1>7 DEF Kids
  <2>2. k \notin Range(kids[q])
    BY <1>5, <1>7, InTreeIs DEF Kids
  <2> QED
    BY <2>1, <2>2
<1>10. \A x : x \in InTree' => x \in InTree \/ x = k
  <2>1. \A x : x \in InTree' => \E y \in Nodes : x \in Kids(y)'
    BY DEF InTree, Kids
  <2> QED
    BY <1>2, <1>6, <2>1, InTreeIs
<1>11. ASSUME m.drawn.kids = kids
       PROVE  InSight(kids', n) /\ InSight(kids', k)
  <2> DEFINE S == Nodes \ Within(kids, n)
  <2>1. ASSUME NEW y \in Nodes, NEW x \in Range(kids[y]), x \in S
        PROVE  y \in S /\ x \in Range(kids'[y])
    <3>1. x \in Ids /\ x # n /\ x \in InTree
      BY <1>7, <2>1, RangeIs, InTreeIs DEF Within, Kids
    <3>2. y # k
      BY <1>5, <2>1, FreshIsNew, <1>4 DEF Kids
    <3>3. x \in Kids(y)'
      BY <1>6, <2>1, <3>1, <3>2 DEF Kids
    <3>4. y \notin Within(kids, n)
      BY <2>1, <3>1 DEF Within
    <3> QED
      BY <3>3, <3>4 DEF Kids
  <2>2. q \in S
    BY <1>7, <1>8
  <2> HIDE DEF S
  <2>3. \A d \in 0..MaxDepth : q \in Levels(kids)[d] => q \in Levels(kids')[d]
    BY <1>7, <2>1, <2>2, StaysOnLevel
  <2>4. MaxDepth \in Nat
    BY PageAssumption
  <2>5. PICK d \in 1..MaxDepth : n \in Levels(kids)[d]
    BY <1>1, <1>11 DEF RowsOf
  <2>6. d # MaxDepth
    BY <1>1, <1>11, <2>5 DEF DeepestOf
  <2>7. d + 1 \in 1..MaxDepth /\ (d + 1) - 1 = d /\ d - 1 \in 0..MaxDepth
    BY <2>4, <2>6
  <2>8. PICK y \in Levels(kids)[d - 1] : n \in Range(kids[y])
    BY <2>5, OnLevel
  <2>9. y = q
    <3>1. y \in Nodes
      BY <1>7, <2>7, LevelsHoldNodes
    <3> QED
      BY <1>7, <2>8, <3>1 DEF TIInv, Unique, Kids
  <2>10. q \in Levels(kids')[d - 1]
    BY <2>3, <2>7, <2>8, <2>9
  <2>11. k \in Range(kids'[q]) /\ n \in Range(kids'[k])
    BY <1>5, <1>6, <1>7 DEF Kids
  <2>12. k \in Levels(kids')[d]
    BY <2>10, <2>11, OnLevel
  <2>13. n \in Levels(kids')[d + 1]
    BY <2>7, <2>11, <2>12, OnLevel
  <2> QED
    BY <2>7, <2>12, <2>13 DEF InSight
<1> QED
  BY <1>9, <1>10, <1>11 DEF n

LEMMA ExcludedAsShown ==
  ASSUME TIInv, NEW m, Asked(m), m.ask.act = "exclude", m.basis = kids,
         Performs(m.ask) \/ Refuses(m.ask)
  PROVE  kids' # kids /\ \A n : n \in InTree' => n \in InTree
<1> DEFINE r == m.ask.node
<1>1. Drawn(kids, m.drawn) /\ r \in RowsOf(m.drawn)
  BY DEF Asked
<1>2. r \in InTree
  BY <1>1, TreeIsLone, RowsAreIn DEF Drawn, Shown
<1>3. kids' = Promoted(r)
  BY <1>2 DEF Performs, Refuses, Exclude
<1>4. /\ r # Parent(r)
      /\ \A x \in Nodes : Kids(x)' =
           IF x = r THEN {} ELSE IF x = Parent(r) THEN (Kids(x) \ {r}) \cup Kids(r) ELSE Kids(x)
  BY <1>2, <1>3, ExcludeShape
<1>5. /\ Parent(r) \in Nodes /\ r \in Kids(Parent(r)) /\ r \in Nodes
      /\ r \notin Kids(r)
  BY <1>2, ParentIs, <1>4 DEF TIInv, Nodes, Unique
<1> HIDE DEF r
<1>6. r \notin Range(kids'[Parent(r)])
  BY <1>4, <1>5 DEF Kids
<1>7. kids' # kids
  BY <1>5, <1>6 DEF Kids
<1>8. ASSUME NEW n \in InTree'
      PROVE  n \in InTree
  <2>1. \E x \in Nodes : n \in Kids(x)'
    BY DEF InTree, Kids
  <2> QED
    BY <1>4, <1>5, <2>1, InTreeIs
<1> QED
  BY <1>7, <1>8

LEMMA IncludedAsShown ==
  ASSUME TIInv, NEW m, Asked(m), m.ask.act = "include",
         m.drawn.excluded = excluded,
         Performs(m.ask) \/ Refuses(m.ask)
  PROVE  kids' # kids
<1> DEFINE r == m.ask.node
           p == IF former[r] \in InTree THEN former[r] ELSE Root
<1>1. r \in m.drawn.excluded
  BY DEF Asked
<1>2. r \in excluded /\ r \notin InTree /\ r \in Ids
  BY <1>1 DEF TIInv, NothingLost, Requirements, Ids
<1>3. kids' = [kids EXCEPT ![p] = Append(@, r)]
  BY <1>2 DEF Performs, Refuses, Include
<1>4. p \in Nodes
  BY ParentIs DEF TIInv, Nodes
<1> HIDE DEF r, p
<1>5. \A x \in Nodes : Kids(x)' = Kids(x) \cup (IF x = p THEN {r} ELSE {})
  <2> DEFINE s == Append(kids[p], r)
  <2>1. kids' = [kids EXCEPT ![p] = s]
    BY <1>3
  <2> QED
    BY <1>2, <1>4, <2>1, AddLeafShape
<1>6. r \in Range(kids'[p])
  BY <1>4, <1>5 DEF Kids
<1>7. r \notin Range(kids[p])
  BY <1>2, <1>4, InTreeIs DEF Kids
<1> QED
  BY <1>6, <1>7

\* What a person asked on a page that shows the document as it is when the
\* service applies it happens as it was shown, whatever other clients and
\* earlier answers did meanwhile.
THEOREM HappensAsShown == Spec => DoneAsShown
<1> DEFINE Step ==
      \A m \in sent : m.state = "sent" /\ Apply(m) =>
        /\ m.basis = kids /\ m.drawn.kind = kind /\ m.ask.act # "reset"
           /\ (m.ask.act = "include" => m.drawn.excluded = excluded) =>
             /\ kids' # kids
             /\ m.ask.act = "move" => kids' = m.ask.want
             /\ m.drawn.kids = kids /\ m.ask.act = "prose" =>
                  \E k \in Fresh : kids' = [kids EXCEPT ![m.ask.to] = Append(@, k)]
             /\ m.drawn.kids = kids /\ m.ask.act # "include" =>
                  \A n \in Ids :
                    \/ m.ask.act \in {"move", "heading"} /\ n = m.ask.node
                    \/ n \notin InTree /\ n \in InTree'
                    => InSight(kids', n)
        /\ m.ask.act = "move" /\ kids' # kids =>
             LET from == ListOf(m.basis, m.ask.node) IN
             m.basis[from] = kids[from] /\ m.basis[m.ask.to] = kids[m.ask.to] =>
               kids'[from] = m.ask.want[from] /\ kids'[m.ask.to] = m.ask.want[m.ask.to]
<1>1. EInv /\ PageInv => Step
  <2> SUFFICES ASSUME EInv, PageInv, NEW m \in sent, m.state = "sent", Apply(m)
               PROVE  /\ m.basis = kids /\ m.drawn.kind = kind /\ m.ask.act # "reset"
                         /\ (m.ask.act = "include" => m.drawn.excluded = excluded) =>
                           /\ kids' # kids
                           /\ m.ask.act = "move" => kids' = m.ask.want
                           /\ m.drawn.kids = kids /\ m.ask.act = "prose" =>
                                \E k \in Fresh : kids' = [kids EXCEPT ![m.ask.to] = Append(@, k)]
                           /\ m.drawn.kids = kids /\ m.ask.act # "include" =>
                                \A n \in Ids :
                                  \/ m.ask.act \in {"move", "heading"} /\ n = m.ask.node
                                  \/ n \notin InTree /\ n \in InTree'
                                  => InSight(kids', n)
                      /\ m.ask.act = "move" /\ kids' # kids =>
                           LET from == ListOf(m.basis, m.ask.node) IN
                           m.basis[from] = kids[from] /\ m.basis[m.ask.to] = kids[m.ask.to] =>
                             kids'[from] = m.ask.want[from] /\ kids'[m.ask.to] = m.ask.want[m.ask.to]
    OBVIOUS
  <2>1. TIInv /\ Asked(m) /\ (Performs(m.ask) \/ (Refuses(m.ask) /\ UNCHANGED kids))
    BY DEF Apply, EInv, PageInv, treeVars
  <2>2. ASSUME m.basis = kids, m.drawn.kind = kind, m.ask.act # "reset",
               m.ask.act = "include" => m.drawn.excluded = excluded
        PROVE  /\ kids' # kids
               /\ m.ask.act = "move" => kids' = m.ask.want
               /\ m.drawn.kids = kids /\ m.ask.act = "prose" =>
                    \E k \in Fresh : kids' = [kids EXCEPT ![m.ask.to] = Append(@, k)]
               /\ m.drawn.kids = kids /\ m.ask.act # "include" =>
                    \A n \in Ids :
                      \/ m.ask.act \in {"move", "heading"} /\ n = m.ask.node
                      \/ n \notin InTree /\ n \in InTree'
                      => InSight(kids', n)
    <3>1. CASE m.ask.act = "move"
      BY <2>1, <2>2, <3>1, MovedAsShown
    <3>2. CASE m.ask.act = "heading"
      BY <2>1, <2>2, <3>2, HeadingAsShown
    <3>3. CASE m.ask.act = "prose"
      BY <2>1, <2>2, <3>3, ProseAsShown
    <3>4. CASE m.ask.act = "exclude"
      BY <2>1, <2>2, <3>4, ExcludedAsShown
    <3>5. CASE m.ask.act = "include"
      BY <2>1, <2>2, <3>5, IncludedAsShown
    <3> QED
      BY <2>1, <2>2, <3>1, <3>2, <3>3, <3>4, <3>5 DEF Asked
  <2>3. ASSUME m.ask.act = "move", kids' # kids,
               m.basis[ListOf(m.basis, m.ask.node)] = kids[ListOf(m.basis, m.ask.node)],
               m.basis[m.ask.to] = kids[m.ask.to]
        PROVE  /\ kids'[ListOf(m.basis, m.ask.node)] = m.ask.want[ListOf(m.basis, m.ask.node)]
               /\ kids'[m.ask.to] = m.ask.want[m.ask.to]
    <3>1. Move(m.ask.node, m.ask.to, m.ask.index)
      BY <2>1, <2>3 DEF Performs
    <3>2. /\ Drawn(m.basis, m.drawn) /\ m.ask.node \in Ids /\ m.ask.node \in RowsOf(m.drawn)
          /\ m.ask.to \in ListsOf(m.drawn)
          /\ m.ask.index \in 0..Len(Without(m.basis[m.ask.to], m.ask.node))
          /\ m.ask.want = DroppedIn(m.basis, m.ask.node, m.ask.to, m.ask.index)
      BY <2>1, <2>3 DEF Asked
    <3>3. Lone(m.basis) /\ m.ask.node \in InLists(m.basis) /\ m.ask.to \in Nodes
      BY <3>2, RowsAreIn DEF Drawn, Shown
    <3>4. m.ask.index \in Int
      BY <3>2
    <3> QED
      BY <2>1, <2>3, <3>1, <3>2, <3>3, <3>4, TwoLists
  <2> QED
    BY <2>2, <2>3
<1>2. EInv /\ PageInv => [Step]_vars
  BY <1>1
<1> HIDE DEF Step
<1>3. Spec => [][Step]_vars
  BY <1>2, SpecPage, PTL
<1> QED
  BY <1>3 DEF DoneAsShown, Step

-----------------------------------------------------------------------------
(* The order of the document.  First what is under a node. *)

\* What is under n is the least set with n that is closed under the lists.
LEMMA WithinIs ==
  ASSUME NEW k, NEW n \in Ids
  PROVE  /\ n \in Within(k, n) /\ Within(k, n) \subseteq Ids
         /\ \A S \in SUBSET Ids :
              n \in S /\ (\A s \in S : Range(k[s]) \subseteq S) => Within(k, n) \subseteq S
BY DEF Within

\* The list of a node under n is under n.
LEMMA WithinClosed ==
  ASSUME NEW k, k \in [Nodes -> Seq(Ids)], NEW n \in Ids, NEW y \in Within(k, n)
  PROVE  Range(k[y]) \subseteq Within(k, n) /\ Within(k, y) \subseteq Within(k, n)
<1>0. y \in Ids /\ Within(k, n) \in SUBSET Ids
  BY WithinIs
<1>1. ASSUME NEW s \in Within(k, n) PROVE Range(k[s]) \subseteq Within(k, n)
  <2>1. s \in Nodes /\ Range(k[s]) \subseteq Ids
    BY <1>0, RangeIs DEF Nodes
  <2> QED
    BY <2>1 DEF Within
<1>2. Within(k, y) \subseteq Within(k, n)
  BY <1>0, <1>1, WithinIs
<1> QED
  BY <1>1, <1>2

\* What is under a node, itself excepted, is in the list of something under it,
\* and is under something in its list.
LEMMA WithinLast ==
  ASSUME NEW k, k \in [Nodes -> Seq(Ids)], NEW n \in Ids, NEW m \in Within(k, n), m # n
  PROVE  \E y \in Within(k, n) : m \in Range(k[y])
<1> SUFFICES ASSUME \A y \in Within(k, n) : m \notin Range(k[y]) PROVE FALSE
  OBVIOUS
<1> DEFINE S == Within(k, n) \ {m}
<1>1. S \in SUBSET Ids /\ n \in S
  BY WithinIs
<1>2. \A s \in S : Range(k[s]) \subseteq S
  BY WithinClosed
<1> QED
  BY <1>1, <1>2, WithinIs

\* What is under n is n, or is under something in its list.
LEMMA WithinFirst ==
  ASSUME NEW k, k \in [Nodes -> Seq(Ids)], NEW n \in Ids, NEW m \in Within(k, n), m # n
  PROVE  \E c \in Range(k[n]) : m \in Within(k, c)
<1>0. n \in Nodes /\ Range(k[n]) \subseteq Ids
  <2>1. n \in Nodes
    BY DEF Nodes
  <2> QED
    BY <2>1, RangeIs
<1> DEFINE S == {n} \cup UNION {Within(k, c) : c \in Range(k[n])}
<1>1. S \in SUBSET Ids
  BY <1>0, WithinIs
<1>2. ASSUME NEW s \in S PROVE Range(k[s]) \subseteq S
  <2>1. CASE s = n
    BY <1>0, <2>1, WithinIs
  <2>2. ASSUME NEW c \in Range(k[n]), s \in Within(k, c) PROVE Range(k[s]) \subseteq S
    BY <1>0, <2>2, WithinClosed
  <2> QED
    BY <2>1, <2>2
<1>3. Within(k, n) \subseteq S
  <2> HIDE DEF S
  <2>1. n \in S
    BY DEF S
  <2> QED
    BY <1>1, <1>2, <2>1, WithinIs
<1> QED
  BY <1>3

-----------------------------------------------------------------------------
\* What the recursion up the lists finds is this.

Founded(k) == \A S \in SUBSET Ids : S # {} => \E n \in S : \A p \in S : n \notin Range(k[p])

AboveIn(f, k, n) == {n} \cup UNION {f[p] : p \in {q \in Ids : n \in Range(k[q])}}

IsAbove(f, k) == f = [n \in Ids |-> AboveIn(f, k, n)]

\* In a tree the recursion upwards has one solution: the nodes each is under.
LEMMA AboveIs ==
  ASSUME NEW k, k \in [Nodes -> Seq(Ids)], Founded(k), NEW f, IsAbove(f, k)
  PROVE  \A n \in Ids : f[n] = {p \in Ids : n \in Within(k, p)}
<1> DEFINE g == [n \in Ids |-> {p \in Ids : n \in Within(k, p)}]
           S == {n \in Ids : f[n] # g[n]}
<1> SUFFICES ASSUME S # {} PROVE FALSE
  OBVIOUS
<1>1. PICK n \in S : \A p \in S : n \notin Range(k[p])
  BY DEF Founded
<1>2. f[n] = AboveIn(f, k, n)
  BY DEF IsAbove
<1>3. \A p \in Ids : n \in Range(k[p]) => f[p] = g[p]
  BY <1>1
<1>4. f[n] = {n} \cup UNION {g[p] : p \in {q \in Ids : n \in Range(k[q])}}
  <2> HIDE DEF g, S
  <2>1. {f[p] : p \in {q \in Ids : n \in Range(k[q])}} = {g[p] : p \in {q \in Ids : n \in Range(k[q])}}
    BY <1>3
  <2> QED
    BY <1>2, <2>1 DEF AboveIn
<1>5. n \in Ids
  OBVIOUS
<1>6. ASSUME NEW p \in g[n] PROVE p \in f[n]
  <2>1. p \in Ids /\ n \in Within(k, p)
    BY <1>5
  <2>2. CASE p = n
    BY <1>4, <2>2
  <2>3. CASE p # n
    <3>1. PICK y \in Within(k, p) : n \in Range(k[y])
      BY <2>1, <2>3, WithinLast
    <3>2. y \in Ids /\ p \in g[y]
      BY <2>1, WithinIs
    <3> QED
      BY <1>4, <3>1, <3>2
  <2> QED
    BY <2>2, <2>3
<1>7. ASSUME NEW p \in f[n] PROVE p \in g[n]
  <2>1. CASE p = n
    BY <1>5, <2>1, WithinIs
  <2>2. ASSUME NEW y \in Ids, n \in Range(k[y]), p \in g[y] PROVE p \in g[n]
    BY <1>5, <2>2, WithinClosed
  <2> QED
    BY <1>4, <2>1, <2>2
<1>8. f[n] = g[n]
  BY <1>6, <1>7
<1> QED
  BY <1>8

\* It has a solution in any lists.
LEMMA AboveExists ==
  ASSUME NEW k, k \in [Nodes -> Seq(Ids)]
  PROVE  \E f : IsAbove(f, k)
<1> DEFINE g == [n \in Ids |-> {p \in Ids : n \in Within(k, p)}]
<1>1. ASSUME NEW n \in Ids PROVE g[n] = AboveIn(g, k, n)
  <2>1. ASSUME NEW p \in g[n] PROVE p \in AboveIn(g, k, n)
    <3>1. p \in Ids /\ n \in Within(k, p)
      OBVIOUS
    <3>2. CASE p = n
      BY <3>2 DEF AboveIn
    <3>3. CASE p # n
      <4>1. PICK y \in Within(k, p) : n \in Range(k[y])
        BY <3>1, <3>3, WithinLast
      <4>2. y \in Ids /\ p \in g[y]
        BY <3>1, WithinIs
      <4> HIDE DEF g
      <4> QED
        BY <4>1, <4>2 DEF AboveIn
    <3> QED
      BY <3>2, <3>3
  <2>2. ASSUME NEW p \in AboveIn(g, k, n) PROVE p \in g[n]
    <3>1. CASE p = n
      BY <3>1, WithinIs
    <3>2. ASSUME NEW y \in Ids, n \in Range(k[y]), p \in g[y] PROVE p \in g[n]
      BY <3>2, WithinClosed
    <3>3. p = n \/ \E y \in Ids : n \in Range(k[y]) /\ p \in g[y]
      <4> HIDE DEF g
      <4> QED
        BY DEF AboveIn
    <3> QED
      BY <3>1, <3>2, <3>3
  <2> QED
    BY <2>1, <2>2
<1>2. g = [n \in Ids |-> g[n]]
  OBVIOUS
<1> HIDE DEF g
<1>3. IsAbove(g, k)
  BY <1>1, <1>2 DEF IsAbove
<1> QED
  BY <1>3

\* Over pairs each node with what is under it.
LEMMA OverIs ==
  ASSUME NEW k, k \in [Nodes -> Seq(Ids)], Founded(k)
  PROVE  /\ Over(k) \subseteq Ids \X Ids
         /\ \A n, m : <<n, m>> \in Over(k) <=> n \in Ids /\ m \in Within(k, n)
<1> DEFINE f == CHOOSE h : IsAbove(h, k)
<1>1. Over(k) = UNION {f[n] \X {n} : n \in Ids}
  BY DEF Over, IsAbove, AboveIn
<1>2. IsAbove(f, k)
  BY AboveExists
<1>3. \A n \in Ids : f[n] = {p \in Ids : n \in Within(k, p)}
  BY <1>2, AboveIs
<1> HIDE DEF f
<1>4. Over(k) = UNION {{p \in Ids : n \in Within(k, p)} \X {n} : n \in Ids}
  BY <1>1, <1>3
<1> QED
  BY <1>4, WithinIs

-----------------------------------------------------------------------------
(* What comes before what in a list. *)

Before(s, c, d) == \E j \in DOMAIN s : \E i \in 1..(j - 1) : s[i] = c /\ s[j] = d

\* What comes before what once a stretch of a list has been replaced.
LEMMA SplicedBefore ==
  ASSUME NEW E, NEW s \in Seq(E), NEW t \in Seq(E),
         NEW a \in 0..Len(s), NEW b \in (a + 1)..(Len(s) + 1), NEW c, NEW d
  PROVE  Before(Spliced(s, a, t, b), c, d) <=>
           \/ \E i, j \in {m \in 1..Len(s) : m <= a \/ m >= b} : i < j /\ s[i] = c /\ s[j] = d
           \/ Before(t, c, d)
           \/ (\E i \in 1..a : s[i] = c) /\ d \in Range(t)
           \/ c \in Range(t) /\ (\E j \in b..Len(s) : s[j] = d)
<1> DEFINE w == Spliced(s, a, t, b)
           n == a + Len(t) + Len(s) - b + 1
           l == Len(t)
           from(i) == IF i <= a THEN i ELSE i + a + l - b + 1
           to(i) == IF i <= a THEN i ELSE i - a - l + b - 1
<1>0. Len(s) \in Nat /\ l \in Nat /\ a \in Nat /\ b \in Nat /\ a <= Len(s) /\ a < b /\ b <= Len(s) + 1
  OBVIOUS
<1>1. /\ w \in Seq(E)
      /\ Len(w) = a + Len(t) + Len(s) - b + 1
      /\ \A i \in 1..(a + Len(t) + Len(s) - b + 1) :
           w[i] = IF i <= a THEN s[i]
                  ELSE IF i <= a + Len(t) THEN t[i - a]
                  ELSE s[i - a - Len(t) + b - 1]
  BY SplicedShape
<1>2. /\ w \in Seq(E) /\ Len(w) = n /\ n \in Nat
      /\ \A i \in 1..n : w[i] = IF i <= a THEN s[i]
                              ELSE IF i <= a + l THEN t[i - a]
                              ELSE s[i - a - l + b - 1]
  <2>1. n \in Nat
    BY <1>0
  <2> QED
    BY <1>1, <2>1
<1>3. /\ DOMAIN w = 1..n
      /\ Range(t) = {t[i] : i \in 1..l} /\ DOMAIN t = 1..l
      /\ DOMAIN s = 1..Len(s)
  BY <1>2, RangeIs
<1> HIDE DEF w
<1> DEFINE Kept == {m \in 1..Len(s) : m <= a \/ m >= b}
<1>4. ASSUME NEW i \in Kept
      PROVE  from(i) \in 1..n /\ w[from(i)] = s[i]
  <2>1. CASE i <= a
    <3>1. from(i) = i /\ i \in 1..n
      BY <1>0, <2>1
    <3> HIDE DEF from
    <3> QED
      BY <1>2, <2>1, <3>1
  <2>2. CASE ~(i <= a)
    <3> DEFINE e == from(i)
    <3>1. e \in 1..n /\ ~(e <= a) /\ ~(e <= a + l) /\ e - a - l + b - 1 = i
      BY <1>0, <2>2
    <3> HIDE DEF e
    <3>2. w[e] = s[e - a - l + b - 1]
      BY <1>2, <3>1
    <3> QED
      BY <3>1, <3>2 DEF e
  <2> QED
    BY <2>1, <2>2
<1>5. ASSUME NEW i \in 1..n, i <= a \/ i > a + l
      PROVE  to(i) \in Kept /\ w[i] = s[to(i)]
  <2>1. CASE i <= a
    <3>1. to(i) = i /\ i \in Kept
      BY <1>0, <2>1
    <3> HIDE DEF to
    <3> QED
      BY <1>2, <2>1, <3>1
  <2>2. CASE ~(i <= a)
    <3>1. to(i) = i - a - l + b - 1 /\ to(i) \in Kept /\ ~(i <= a + l)
      BY <1>0, <1>5, <2>2
    <3> HIDE DEF to
    <3> QED
      BY <1>2, <2>2, <3>1
  <2> QED
    BY <2>1, <2>2
<1>6. ASSUME NEW i \in 1..l PROVE a + i \in 1..n /\ w[a + i] = t[i]
  <2> DEFINE e == a + i
  <2>1. e \in 1..n /\ ~(e <= a) /\ e <= a + l /\ e - a = i
    BY <1>0
  <2> HIDE DEF e
  <2>2. w[e] = t[e - a]
    BY <1>2, <2>1
  <2> QED
    BY <2>1, <2>2 DEF e
<1>7. ASSUME NEW i \in 1..n, i > a, i <= a + l PROVE i - a \in 1..l /\ w[i] = t[i - a]
  <2>1. i - a \in 1..l /\ ~(i <= a)
    BY <1>0, <1>7
  <2> QED
    BY <1>2, <1>7, <2>1
<1>8. ASSUME NEW x \in 1..n, NEW y \in 1..n, x < y, w[x] = c, w[y] = d
      PROVE  Before(w, c, d)
  <2>1. x \in 1..(y - 1)
    BY <1>8
  <2> QED
    BY <1>3, <1>8, <2>1 DEF Before
<1>9. ASSUME NEW i \in Kept, NEW j \in Kept, i < j, s[i] = c, s[j] = d
      PROVE  Before(w, c, d)
  <2>1. from(i) < from(j)
    BY <1>0, <1>9
  <2> HIDE DEF from, Kept
  <2> QED
    BY <1>4, <1>8, <1>9, <2>1
<1>10. ASSUME Before(t, c, d) PROVE Before(w, c, d)
  <2>1. PICK j \in 1..l : \E i \in 1..(j - 1) : t[i] = c /\ t[j] = d
    BY <1>3, <1>10 DEF Before
  <2>2. PICK i \in 1..(j - 1) : t[i] = c /\ t[j] = d
    BY <2>1
  <2>3. i \in 1..l /\ a + i < a + j
    BY <1>0
  <2> QED
    BY <1>6, <1>8, <2>2, <2>3
<1>11. ASSUME NEW i \in 1..a, s[i] = c, d \in Range(t) PROVE Before(w, c, d)
  <2>1. PICK j \in 1..l : t[j] = d
    BY <1>3, <1>11
  <2>2. i \in 1..n /\ i <= a /\ i < a + j
    BY <1>0
  <2>3. w[i] = s[i]
    BY <1>2, <2>2
  <2> QED
    BY <1>6, <1>8, <1>11, <2>1, <2>2, <2>3
<1>12. ASSUME NEW j \in b..Len(s), s[j] = d, c \in Range(t) PROVE Before(w, c, d)
  <2>1. PICK i \in 1..l : t[i] = c
    BY <1>3, <1>12
  <2>2. j \in Kept /\ a + i < from(j)
    BY <1>0
  <2> HIDE DEF from, Kept
  <2> QED
    BY <1>4, <1>6, <1>8, <1>12, <2>1, <2>2
<1>13. ASSUME Before(w, c, d)
       PROVE  \/ \E i, j \in Kept : i < j /\ s[i] = c /\ s[j] = d
              \/ Before(t, c, d)
              \/ (\E i \in 1..a : s[i] = c) /\ d \in Range(t)
              \/ c \in Range(t) /\ (\E j \in b..Len(s) : s[j] = d)
  <2>1. PICK y \in 1..n : \E x \in 1..(y - 1) : w[x] = c /\ w[y] = d
    BY <1>3, <1>13 DEF Before
  <2>2. PICK x \in 1..(y - 1) : w[x] = c /\ w[y] = d
    BY <2>1
  <2>3. x \in 1..n /\ x < y
    BY <1>0
  <2>4. CASE (x <= a \/ x > a + l) /\ (y <= a \/ y > a + l)
    <3>1. to(x) < to(y)
      BY <1>0, <2>3, <2>4
    <3> HIDE DEF to, Kept
    <3> QED
      BY <1>5, <2>2, <2>3, <2>4, <3>1
  <2>5. CASE x > a /\ x <= a + l /\ y > a /\ y <= a + l
    <3>1. x - a \in 1..((y - a) - 1) /\ y - a \in 1..l
      BY <1>0, <2>3, <2>5
    <3>2. t[x - a] = c /\ t[y - a] = d
      BY <1>7, <2>2, <2>3, <2>5
    <3> QED
      BY <1>3, <3>1, <3>2 DEF Before
  <2>6. CASE x <= a /\ y > a /\ y <= a + l
    <3>1. x \in 1..a
      BY <1>0, <2>3, <2>6
    <3>2. s[x] = c
      BY <1>2, <2>2, <2>3, <2>6
    <3>3. y - a \in 1..l /\ t[y - a] = d
      BY <1>7, <2>2, <2>3, <2>6
    <3> QED
      BY <1>3, <3>1, <3>2, <3>3
  <2>7. CASE x > a /\ x <= a + l /\ y > a + l
    <3>1. x - a \in 1..l /\ t[x - a] = c
      BY <1>7, <2>2, <2>3, <2>7
    <3>2. to(y) \in b..Len(s) /\ s[to(y)] = d
      <4>1. to(y) \in Kept /\ s[to(y)] = d
        BY <1>5, <2>2, <2>7
      <4>2. to(y) >= b
        BY <1>0, <2>7
      <4> QED
        BY <1>0, <4>1, <4>2
    <3> HIDE DEF to
    <3> QED
      BY <1>3, <3>1, <3>2
  <2>8. \/ (x <= a \/ x > a + l) /\ (y <= a \/ y > a + l)
        \/ x > a /\ x <= a + l /\ y > a /\ y <= a + l
        \/ x <= a /\ y > a /\ y <= a + l
        \/ x > a /\ x <= a + l /\ y > a + l
    BY <1>0, <2>3
  <2> QED
    BY <2>4, <2>5, <2>6, <2>7, <2>8
<1> HIDE DEF Kept
<1>14. Before(w, c, d) <=>
         \/ \E i, j \in Kept : i < j /\ s[i] = c /\ s[j] = d
         \/ Before(t, c, d)
         \/ (\E i \in 1..a : s[i] = c) /\ d \in Range(t)
         \/ c \in Range(t) /\ (\E j \in b..Len(s) : s[j] = d)
  BY <1>9, <1>10, <1>11, <1>12, <1>13
<1> QED
  BY <1>14 DEF w, Kept

\* Cutting one out, or putting one in, leaves the others as they were.
LEMMA RemovedBefore ==
  ASSUME NEW E, NEW s \in Seq(E), NEW i \in 1..Len(s),
         NEW c, NEW d, c # s[i], d # s[i]
  PROVE  Before(RemoveAt(s, i), c, d) <=> Before(s, c, d)
<1>0. Len(s) \in Nat /\ DOMAIN s = 1..Len(s)
  BY RangeIs
<1> DEFINE t == <<>>
           a == i - 1
           b == i + 1
           Kept == {m \in 1..Len(s) : m <= a \/ m >= b}
<1>1. t \in Seq(E) /\ Range(t) = {} /\ DOMAIN t = {}
  <2>1. <<>> \in Seq(E) /\ DOMAIN <<>> = {}
    OBVIOUS
  <2> QED
    BY <2>1, RangeIs
<1>2. RemoveAt(s, i) = Spliced(s, a, t, b)
  <2>1. \A j \in 1..(i - 1) : s[j] \in E
    BY ElementOfSeq
  <2>2. SubSeq(s, 1, i - 1) \in Seq(E)
    BY <2>1, SubSeqProperties
  <2>3. SubSeq(s, 1, i - 1) \o <<>> = SubSeq(s, 1, i - 1)
    BY <2>2, ConcatEmptySeq
  <2> QED
    BY <2>3 DEF RemoveAt, Spliced
<1>3. a \in 0..Len(s) /\ b \in (a + 1)..(Len(s) + 1)
  BY <1>0
<1>4. ~Before(t, c, d)
  BY <1>1 DEF Before
<1>5. Kept = (1..Len(s)) \ {i}
  BY <1>0
<1> HIDE DEF t, a, b
<1>6. Before(Spliced(s, a, t, b), c, d) <=> \E x, y \in Kept : x < y /\ s[x] = c /\ s[y] = d
  <2>1. Before(Spliced(s, a, t, b), c, d) <=>
          \/ \E x, y \in Kept : x < y /\ s[x] = c /\ s[y] = d
          \/ Before(t, c, d)
          \/ (\E x \in 1..a : s[x] = c) /\ d \in Range(t)
          \/ c \in Range(t) /\ (\E y \in b..Len(s) : s[y] = d)
    <3>1. t \in Seq(E)
      BY <1>1
    <3> QED
      BY <1>3, <3>1, SplicedBefore
  <2> HIDE DEF Kept
  <2> QED
    BY <1>1, <1>4, <2>1
<1> HIDE DEF Kept
<1>7. (\E x, y \in Kept : x < y /\ s[x] = c /\ s[y] = d) <=> Before(s, c, d)
  BY <1>0, <1>5 DEF Before
<1> QED
  BY <1>2, <1>6, <1>7

\* An insertion replaces an empty stretch.
LEMMA InsertSplices ==
  ASSUME NEW E, NEW s \in Seq(E), NEW index \in Int, NEW n
  PROVE  \E at \in 0..Len(s) : Insert(s, index, n) = Spliced(s, at, <<n>>, at + 1)
<1> DEFINE low == Min({index, Len(s)})
           at == Max({0, low})
<1>0. Len(s) \in Nat
  OBVIOUS
<1>1. low \in Int /\ low <= Len(s)
  <2>1. \E x \in {index, Len(s)} : \A y \in {index, Len(s)} : x <= y
    BY <1>0
  <2>2. low \in {index, Len(s)} /\ \A y \in {index, Len(s)} : low <= y
    BY <2>1, Zenon DEF Min
  <2> QED
    BY <1>0, <2>2
<1>2. at \in 0..Len(s)
  <2> HIDE DEF low
  <2>1. \E x \in {0, low} : \A y \in {0, low} : x >= y
    BY <1>1
  <2>2. at \in {0, low} /\ at >= 0
    BY <1>1, <2>1 DEF Max
  <2> QED
    BY <1>0, <1>1, <2>2
<1> HIDE DEF at
<1>3. Insert(s, index, n) = InsertAt(s, at + 1, n)
  BY DEF Insert, at
<1>4. (at + 1) - 1 = at
  BY <1>2
<1>5. Insert(s, index, n) = Spliced(s, at, <<n>>, at + 1)
  BY <1>3, <1>4 DEF InsertAt, Spliced
<1> QED
  BY <1>2, <1>5

\* An insertion leaves the others as they were.
LEMMA InsertedBefore ==
  ASSUME NEW E, NEW s \in Seq(E), NEW index \in Int, NEW n \in E,
         NEW c, NEW d, c # n, d # n
  PROVE  Before(Insert(s, index, n), c, d) <=> Before(s, c, d)
<1>0. Len(s) \in Nat /\ DOMAIN s = 1..Len(s)
  BY RangeIs
<1>1. PICK a \in 0..Len(s) : Insert(s, index, n) = Spliced(s, a, <<n>>, a + 1)
  BY InsertSplices
<1> DEFINE t == <<n>>
           b == a + 1
           Kept == {m \in 1..Len(s) : m <= a \/ m >= b}
<1>2. t \in Seq(E) /\ Range(t) = {n} /\ DOMAIN t = 1..1
  <2>1. <<n>> \in Seq(E) /\ Len(<<n>>) = 1 /\ <<n>>[1] = n
    OBVIOUS
  <2>2. Range(<<n>>) = {<<n>>[i] : i \in 1..1} /\ DOMAIN <<n>> = 1..1
    BY <2>1, RangeIs
  <2> QED
    BY <2>1, <2>2
<1>3. b \in (a + 1)..(Len(s) + 1)
  BY <1>0
<1>4. Kept = 1..Len(s)
  BY <1>0
<1> HIDE DEF t, b
<1>5. ~Before(t, c, d)
  BY <1>2 DEF Before
<1>6. Before(Spliced(s, a, t, b), c, d) <=> \E x, y \in Kept : x < y /\ s[x] = c /\ s[y] = d
  BY <1>2, <1>3, <1>5, SplicedBefore
<1> HIDE DEF Kept
<1>7. (\E x, y \in Kept : x < y /\ s[x] = c /\ s[y] = d) <=> Before(s, c, d)
  BY <1>0, <1>4 DEF Before
<1> QED
  BY <1>1, <1>6, <1>7 DEF t, b

\* So does adding at the end.
LEMMA AppendedBefore ==
  ASSUME NEW E, NEW s \in Seq(E), NEW n \in E, NEW c, NEW d, c # n, d # n
  PROVE  Before(Append(s, n), c, d) <=> Before(s, c, d)
<1>1. Len(s) \in Int
  OBVIOUS
<1>2. Insert(s, Len(s), n) = Append(s, n)
  BY InsertLast
<1>3. Before(Insert(s, Len(s), n), c, d) <=> Before(s, c, d)
  BY <1>1, InsertedBefore
<1> QED
  BY <1>2, <1>3

\* What takes the place of r comes where r came, in its own order.
LEMMA PromotedBefore ==
  ASSUME NEW E, NEW s \in Seq(E), NoDup(s), NEW i \in 1..Len(s), NEW t \in Seq(E),
         NEW c, NEW d, c # s[i], d # s[i]
  PROVE  Before(Spliced(s, i - 1, t, i + 1), c, d) <=>
           \/ Before(s, c, d) \/ Before(t, c, d)
           \/ Before(s, c, s[i]) /\ d \in Range(t)
           \/ c \in Range(t) /\ Before(s, s[i], d)
<1>0. Len(s) \in Nat /\ DOMAIN s = 1..Len(s)
  BY RangeIs
<1> DEFINE a == i - 1
           b == i + 1
           Kept == {m \in 1..Len(s) : m <= a \/ m >= b}
<1>1. a \in 0..Len(s) /\ b \in (a + 1)..(Len(s) + 1)
  BY <1>0
<1>2. Kept = (1..Len(s)) \ {i}
  BY <1>0
<1>3. (\E x \in 1..a : s[x] = c) <=> Before(s, c, s[i])
  BY <1>0 DEF Before, NoDup
<1>4. (\E y \in b..Len(s) : s[y] = d) <=> Before(s, s[i], d)
  BY <1>0 DEF Before, NoDup
<1> HIDE DEF a, b
<1>5. Before(Spliced(s, a, t, b), c, d) <=>
        \/ \E x, y \in Kept : x < y /\ s[x] = c /\ s[y] = d
        \/ Before(t, c, d)
        \/ (\E x \in 1..a : s[x] = c) /\ d \in Range(t)
        \/ c \in Range(t) /\ (\E y \in b..Len(s) : s[y] = d)
  BY <1>1, SplicedBefore
<1> HIDE DEF Kept
<1>6. (\E x, y \in Kept : x < y /\ s[x] = c /\ s[y] = d) <=> Before(s, c, d)
  BY <1>0, <1>2 DEF Before
<1>7. Before(Spliced(s, a, t, b), c, d) <=>
        \/ Before(s, c, d) \/ Before(t, c, d)
        \/ Before(s, c, s[i]) /\ d \in Range(t)
        \/ c \in Range(t) /\ Before(s, s[i], d)
  BY <1>3, <1>4, <1>5, <1>6
<1> QED
  BY <1>7 DEF a, b

\* Both of two that follow each other are in the list, and differ if it has no twins.
LEMMA BeforeIn ==
  ASSUME NEW E, NEW s \in Seq(E), NEW c, NEW d, Before(s, c, d)
  PROVE  c \in Range(s) /\ d \in Range(s) /\ (NoDup(s) => c # d)
<1>0. DOMAIN s = 1..Len(s) /\ Range(s) = {s[i] : i \in 1..Len(s)} /\ Len(s) \in Nat
  BY RangeIs
<1>1. PICK j \in 1..Len(s) : \E i \in 1..(j - 1) : s[i] = c /\ s[j] = d
  BY <1>0 DEF Before
<1>2. PICK i \in 1..(j - 1) : s[i] = c /\ s[j] = d
  BY <1>1
<1>3. i \in 1..Len(s) /\ i # j
  BY <1>0
<1> QED
  BY <1>0, <1>2, <1>3 DEF NoDup

-----------------------------------------------------------------------------
(* The order, by what is under what and by who comes first in a list. *)

\* Siblings are pairs that follow each other in one list.
LEMMA SiblingsAre ==
  ASSUME NEW k, k \in [Nodes -> Seq(Ids)]
  PROVE  \A ab : ab \in Siblings(k) <=>
           \E p \in Nodes : \E c, d \in Ids : ab = <<c, d>> /\ Before(k[p], c, d)
<1> DEFINE In(p) == UNION {{<<k[p][i], k[p][j]>> : i \in 1..(j - 1)} : j \in DOMAIN k[p]}
<1>1. ASSUME NEW p \in Nodes, NEW ab
      PROVE  ab \in In(p) <=> \E c, d \in Ids : ab = <<c, d>> /\ Before(k[p], c, d)
  <2>1. k[p] \in Seq(Ids) /\ Range(k[p]) \subseteq Ids
    BY RangeIs
  <2>2. ASSUME ab \in In(p)
        PROVE  \E c, d \in Ids : ab = <<c, d>> /\ Before(k[p], c, d)
    <3>1. PICK j \in DOMAIN k[p] : ab \in {<<k[p][i], k[p][j]>> : i \in 1..(j - 1)}
      BY <2>2
    <3>2. PICK i \in 1..(j - 1) : ab = <<k[p][i], k[p][j]>>
      BY <3>1
    <3>3. Before(k[p], k[p][i], k[p][j])
      BY DEF Before
    <3>4. k[p][i] \in Ids /\ k[p][j] \in Ids
      BY <2>1, <3>3, BeforeIn
    <3> QED
      BY <3>2, <3>3, <3>4
  <2>3. ASSUME NEW c \in Ids, NEW d \in Ids, ab = <<c, d>>, Before(k[p], c, d)
        PROVE  ab \in In(p)
    BY <2>3 DEF Before
  <2> QED
    BY <2>2, <2>3
<1>2. Siblings(k) = UNION {In(p) : p \in Nodes}
  BY DEF Siblings
<1> HIDE DEF In
<1> QED
  BY <1>1, <1>2

\* A node comes before another if it is above it, or if of two siblings the first
\* is above the one and the second above the other.
LEMMA OrderIs ==
  ASSUME NEW k, k \in [Nodes -> Seq(Ids)], Founded(k)
  PROVE  \A a, b \in Ids :
           <<a, b>> \in Order(k) <=>
             \/ a # b /\ b \in Within(k, a)
             \/ \E p \in Nodes : \E c, d \in Ids :
                  Before(k[p], c, d) /\ a \in Within(k, c) /\ b \in Within(k, d)
<1> DEFINE part(n) == {m \in Ids : <<n, m>> \in Over(k)}
<1>1. Order(k) = {ab \in Over(k) : ab[1] # ab[2]}
                   \cup UNION {part(ab[1]) \X part(ab[2]) : ab \in Siblings(k)}
  BY DEF Order
<1>2. \A n \in Ids : part(n) = Within(k, n)
  BY OverIs, WithinIs
<1> HIDE DEF part
<1> SUFFICES ASSUME NEW a \in Ids, NEW b \in Ids
             PROVE  <<a, b>> \in Order(k) <=>
                      \/ a # b /\ b \in Within(k, a)
                      \/ \E p \in Nodes : \E c, d \in Ids :
                           Before(k[p], c, d) /\ a \in Within(k, c) /\ b \in Within(k, d)
  OBVIOUS
<1>3. <<a, b>> \in {ab \in Over(k) : ab[1] # ab[2]} <=> a # b /\ b \in Within(k, a)
  BY OverIs
<1>4. ASSUME NEW p \in Nodes, NEW c \in Ids, NEW d \in Ids, Before(k[p], c, d),
             a \in Within(k, c), b \in Within(k, d)
      PROVE  <<a, b>> \in UNION {part(ab[1]) \X part(ab[2]) : ab \in Siblings(k)}
  <2> DEFINE cd == <<c, d>>
  <2>1. cd \in Siblings(k)
    BY <1>4, SiblingsAre
  <2>2. cd[1] = c /\ cd[2] = d
    OBVIOUS
  <2>3. <<a, b>> \in part(cd[1]) \X part(cd[2])
    BY <1>2, <1>4, <2>2
  <2> HIDE DEF cd
  <2> QED
    BY <2>1, <2>3
<1>5. ASSUME NEW ab \in Siblings(k), <<a, b>> \in part(ab[1]) \X part(ab[2])
      PROVE  \E p \in Nodes : \E c, d \in Ids :
               Before(k[p], c, d) /\ a \in Within(k, c) /\ b \in Within(k, d)
  <2>1. PICK p \in Nodes : \E c, d \in Ids : ab = <<c, d>> /\ Before(k[p], c, d)
    BY SiblingsAre
  <2>2. PICK c \in Ids, d \in Ids : ab = <<c, d>> /\ Before(k[p], c, d)
    BY <2>1
  <2>3. a \in part(c) /\ b \in part(d)
    BY <1>5, <2>2
  <2> QED
    BY <1>2, <2>2, <2>3
<1>6. <<a, b>> \in UNION {part(ab[1]) \X part(ab[2]) : ab \in Siblings(k)} <=>
        \E p \in Nodes : \E c, d \in Ids :
          Before(k[p], c, d) /\ a \in Within(k, c) /\ b \in Within(k, d)
  BY <1>4, <1>5
<1> QED
  BY <1>1, <1>3, <1>6

\* Outside a part that nothing hangs out of, only the lists' own order counts.
LEMMA RestFollows ==
  ASSUME NEW k, k \in [Nodes -> Seq(Ids)], Founded(k),
         NEW l, l \in [Nodes -> Seq(Ids)], Founded(l),
         NEW D \in SUBSET Ids,
         \A y \in D : Range(k[y]) \subseteq D,
         \A y \in Nodes : \A c \in Ids \ D : c \in Range(k[y]) => c \in Range(l[y]),
         \A y \in Nodes : \A c, d \in Ids \ D : Before(k[y], c, d) => Before(l[y], c, d),
         NEW a \in Ids \ D, NEW b \in Ids \ D, <<a, b>> \in Order(k)
  PROVE  <<a, b>> \in Order(l)
<1>1. ASSUME NEW x \in Ids, NEW y \in Ids \ D, y \in Within(k, x)
      PROVE  y \in Within(l, x) /\ x \notin D
  <2> DEFINE S == Within(l, x) \cup D
  <2>1. S \in SUBSET Ids /\ x \in S
    BY WithinIs
  <2>2. ASSUME NEW s \in S, NEW z \in Range(k[s]) PROVE z \in S
    <3>1. CASE s \in D \/ z \in D
      BY <3>1
    <3>2. CASE s \notin D /\ z \notin D
      <4>1. s \in Ids /\ s \in Nodes /\ z \in Ids
        BY <2>1, RangeIs DEF Nodes
      <4>2. z \in Range(l[s]) /\ s \in Within(l, x)
        BY <3>2, <4>1
      <4> QED
        BY <4>2, WithinClosed
    <3> QED
      BY <3>1, <3>2
  <2>3. \A s \in S : Range(k[s]) \subseteq S
    BY <2>2
  <2> HIDE DEF S
  <2>4. y \in S
    BY <1>1, <2>1, <2>3, WithinIs
  <2>5. x \in D => Within(k, x) \subseteq D
    BY WithinIs
  <2> QED
    BY <1>1, <2>4, <2>5 DEF S
<1>2. CASE a # b /\ b \in Within(k, a)
  BY <1>1, <1>2, OrderIs
<1>3. ASSUME NEW p \in Nodes, NEW c \in Ids, NEW d \in Ids, Before(k[p], c, d),
             a \in Within(k, c), b \in Within(k, d)
      PROVE  <<a, b>> \in Order(l)
  <2>1. a \in Within(l, c) /\ c \notin D /\ b \in Within(l, d) /\ d \notin D
    BY <1>1, <1>3
  <2>2. Before(l[p], c, d)
    BY <1>3, <2>1
  <2> QED
    BY <2>1, <2>2, OrderIs
<1>4. \/ a # b /\ b \in Within(k, a)
      \/ \E p \in Nodes : \E c, d \in Ids :
           Before(k[p], c, d) /\ a \in Within(k, c) /\ b \in Within(k, d)
  BY OrderIs
<1> QED
  BY <1>2, <1>3, <1>4

\* l is k with the children of r in the place of r, which is at i of the list of p.
Promotes(k, l, p, i, r) ==
  /\ Lone(k) /\ Founded(k) /\ l \in [Nodes -> Seq(Ids)] /\ Founded(l)
  /\ p \in Nodes /\ r \in Ids /\ p # r /\ i \in 1..Len(k[p]) /\ k[p][i] = r
  /\ l[p] = Spliced(k[p], i - 1, k[r], i + 1) /\ l[r] = <<>>
  /\ \A x \in Nodes : x # p /\ x # r => l[x] = k[x]

\* A promotion leaves the order of all but what it takes out.
LEMMA PromotionAgrees ==
  ASSUME NEW k, NEW l, NEW p, NEW i, NEW r, Promotes(k, l, p, i, r),
         NEW a \in Ids \ {r}, NEW b \in Ids \ {r}
  PROVE  <<a, b>> \in Order(k) <=> <<a, b>> \in Order(l)
<1> USE DEF Promotes
<1>0. k \in [Nodes -> Seq(Ids)] /\ r \in Nodes /\ \A x \in Nodes : k[x] \in Seq(Ids) /\ NoDup(k[x])
  BY DEF Lone, Nodes
<1>1. /\ r \in Range(k[p]) /\ \A x \in Nodes : x # p => r \notin Range(k[x])
      /\ Range(k[r]) \cap Range(k[p]) = {}
  <2>1. r \in Range(k[p])
    BY <1>0, RangeIs
  <2> QED
    BY <1>0, <2>1 DEF Lone
<1>2. Range(l[p]) = (Range(k[p]) \ {r}) \cup Range(k[r])
  BY <1>0, <1>1, PromoteHolds
<1>3. Range(l[r]) = {} /\ \A c, d : ~Before(l[r], c, d)
  <2>1. <<>> \in Seq(Ids) /\ DOMAIN <<>> = {}
    OBVIOUS
  <2> QED
    BY <2>1, RangeIs DEF Before
<1>4. \A x \in Nodes : r \notin Range(l[x])
  BY <1>0, <1>1, <1>2, <1>3
<1>5. \A c, d \in Ids \ {r} :
        Before(l[p], c, d) <=>
          \/ Before(k[p], c, d) \/ Before(k[r], c, d)
          \/ Before(k[p], c, r) /\ d \in Range(k[r])
          \/ c \in Range(k[r]) /\ Before(k[p], r, d)
  BY <1>0, PromotedBefore
<1>6. \A x \in Nodes : Range(k[x]) \subseteq Ids /\ Range(l[x]) \subseteq Ids
  BY <1>0, RangeIs
<1>7. ASSUME NEW x \in Ids \ {r}, NEW y \in Within(l, x)
      PROVE  y \in Within(k, x) \ {r}
  <2> DEFINE S == Within(k, x) \ {r}
  <2>1. S \in SUBSET Ids /\ x \in S
    BY WithinIs
  <2>2. ASSUME NEW s \in S PROVE Range(l[s]) \subseteq S
    <3>1. s \in Nodes /\ s # r /\ s \in Within(k, x)
      BY <2>1 DEF Nodes
    <3>2. Range(k[s]) \subseteq Within(k, x) /\ r \notin Range(l[s])
      BY <1>0, <1>4, <3>1, WithinClosed
    <3>3. CASE s = p
      <4>1. r \in Within(k, x)
        BY <1>1, <3>2, <3>3
      <4>2. Range(k[r]) \subseteq Within(k, x)
        BY <1>0, <4>1, WithinClosed
      <4> QED
        BY <1>2, <3>2, <3>3, <4>2
    <3>4. CASE s # p
      BY <3>1, <3>2, <3>4
    <3> QED
      BY <3>3, <3>4
  <2> HIDE DEF S
  <2>3. y \in S
    BY <2>1, <2>2, WithinIs
  <2> QED
    BY <2>3 DEF S
<1>8. ASSUME NEW x \in Ids \ {r}, NEW y \in Ids \ {r}, y \in Within(k, x)
      PROVE  y \in Within(l, x)
  <2> DEFINE S == Within(l, x) \cup (IF p \in Within(l, x) THEN {r} ELSE {})
  <2>1. S \in SUBSET Ids /\ x \in S
    BY WithinIs
  <2>2. ASSUME NEW s \in S PROVE Range(k[s]) \subseteq S
    <3>1. CASE s = r
      <4>1. r \notin Within(l, x)
        BY <1>7
      <4>2. p \in Within(l, x)
        BY <3>1, <4>1
      <4>3. Range(l[p]) \subseteq Within(l, x)
        BY <4>2, WithinClosed
      <4> QED
        BY <1>2, <3>1, <4>3
    <3>2. CASE s # r
      <4>1. s \in Within(l, x) /\ s \in Nodes
        BY <2>1, <3>2 DEF Nodes
      <4>2. Range(l[s]) \subseteq Within(l, x)
        BY <4>1, WithinClosed
      <4>3. CASE s = p
        BY <1>2, <4>1, <4>2, <4>3
      <4>4. CASE s # p
        BY <3>2, <4>1, <4>2, <4>4
      <4> QED
        BY <4>3, <4>4
    <3> QED
      BY <3>1, <3>2
  <2> HIDE DEF S
  <2>3. y \in S
    BY <1>8, <2>1, <2>2, WithinIs
  <2> QED
    BY <2>3 DEF S
<1>9. ASSUME NEW y \in Ids \ {r}, y \in Within(k, r)
      PROVE  \E c \in Range(k[r]) : c \in Ids \ {r} /\ y \in Within(l, c)
  <2>1. PICK c \in Range(k[r]) : y \in Within(k, c)
    BY <1>0, <1>9, WithinFirst
  <2>2. c \in Ids \ {r}
    BY <1>0, <1>1, <1>6
  <2> QED
    BY <1>8, <2>1, <2>2
<1>10. ASSUME <<a, b>> \in Order(k) PROVE <<a, b>> \in Order(l)
  <2>1. CASE a # b /\ b \in Within(k, a)
    BY <1>8, <2>1, OrderIs
  <2>2. ASSUME NEW c \in Ids \ {r}, NEW d \in Ids \ {r}, NEW y \in Nodes,
               Before(l[y], c, d), a \in Within(l, c), b \in Within(l, d)
        PROVE  <<a, b>> \in Order(l)
    BY <2>2, OrderIs
  <2>3. ASSUME NEW y \in Nodes, NEW c \in Ids, NEW d \in Ids, Before(k[y], c, d),
               a \in Within(k, c), b \in Within(k, d)
        PROVE  <<a, b>> \in Order(l)
    <3>1. c \in Range(k[y]) /\ d \in Range(k[y]) /\ c # d
      BY <1>0, <2>3, BeforeIn
    <3>2. CASE c # r /\ d # r
      <4>1. a \in Within(l, c) /\ b \in Within(l, d)
        BY <1>8, <2>3, <3>2
      <4>2. CASE y = p \/ y = r
        <5>1. Before(l[p], c, d)
          BY <1>5, <2>3, <3>2, <4>2
        <5> QED
          BY <2>2, <3>2, <4>1, <5>1
      <4>3. CASE y # p /\ y # r
        <5>1. Before(l[y], c, d)
          BY <2>3, <4>3
        <5> QED
          BY <2>2, <3>2, <4>1, <5>1
      <4> QED
        BY <4>2, <4>3
    <3>3. CASE c = r
      <4>1. y = p /\ d # r
        BY <1>1, <3>1, <3>3
      <4>2. PICK e \in Range(k[r]) : e \in Ids \ {r} /\ a \in Within(l, e)
        BY <1>9, <2>3, <3>3
      <4>3. Before(l[p], e, d)
        BY <1>5, <2>3, <3>3, <4>1, <4>2
      <4>4. b \in Within(l, d)
        BY <1>8, <2>3, <4>1
      <4> QED
        BY <2>2, <4>1, <4>2, <4>3, <4>4
    <3>4. CASE d = r
      <4>1. y = p /\ c # r
        BY <1>1, <3>1, <3>4
      <4>2. PICK e \in Range(k[r]) : e \in Ids \ {r} /\ b \in Within(l, e)
        BY <1>9, <2>3, <3>4
      <4>3. Before(l[p], c, e)
        BY <1>5, <2>3, <3>4, <4>1, <4>2
      <4>4. a \in Within(l, c)
        BY <1>8, <2>3, <4>1
      <4> QED
        BY <2>2, <4>1, <4>2, <4>3, <4>4
    <3> QED
      BY <3>2, <3>3, <3>4
  <2> QED
    BY <1>0, <1>10, <2>1, <2>3, OrderIs
<1>11. ASSUME <<a, b>> \in Order(l) PROVE <<a, b>> \in Order(k)
  <2>1. CASE a # b /\ b \in Within(l, a)
    BY <1>0, <1>7, <2>1, OrderIs
  <2>2. ASSUME NEW c \in Ids, NEW d \in Ids, NEW y \in Nodes,
               Before(k[y], c, d), a \in Within(k, c), b \in Within(k, d)
        PROVE  <<a, b>> \in Order(k)
    BY <1>0, <2>2, OrderIs
  <2>3. ASSUME NEW y \in Nodes, NEW c \in Ids, NEW d \in Ids, Before(l[y], c, d),
               a \in Within(l, c), b \in Within(l, d)
        PROVE  <<a, b>> \in Order(k)
    <3>1. c \in Range(l[y]) /\ d \in Range(l[y]) /\ y # r
      BY <1>3, <2>3, BeforeIn
    <3>2. c # r /\ d # r
      BY <1>4, <3>1
    <3>3. a \in Within(k, c) /\ b \in Within(k, d)
      BY <1>7, <2>3, <3>2
    <3>4. CASE y # p
      <4>1. Before(k[y], c, d)
        BY <2>3, <3>1, <3>4
      <4> QED
        BY <2>2, <3>3, <4>1
    <3>5. CASE y = p /\ (Before(k[p], c, d) \/ Before(k[r], c, d))
      BY <1>0, <2>2, <3>3, <3>5
    <3>6. \A e \in Range(k[r]) : e \in Ids /\ Within(k, e) \subseteq Within(k, r)
      <4>1. r \in Within(k, r)
        BY WithinIs
      <4>2. Range(k[r]) \subseteq Within(k, r)
        BY <1>0, <4>1, WithinClosed
      <4>3. \A e \in Within(k, r) : Within(k, e) \subseteq Within(k, r)
        BY <1>0, WithinClosed
      <4> QED
        BY <1>0, <1>6, <4>2, <4>3
    <3>7. CASE y = p /\ Before(k[p], c, r) /\ d \in Range(k[r])
      <4>1. b \in Within(k, r)
        BY <3>3, <3>6, <3>7
      <4> QED
        BY <2>2, <3>3, <3>7, <4>1
    <3>8. CASE y = p /\ c \in Range(k[r]) /\ Before(k[p], r, d)
      <4>1. a \in Within(k, r)
        BY <3>3, <3>6, <3>8
      <4> QED
        BY <2>2, <3>3, <3>8, <4>1
    <3> QED
      BY <1>5, <2>3, <3>2, <3>4, <3>5, <3>7, <3>8
  <2> QED
    BY <1>11, <2>1, <2>3, OrderIs
<1> QED
  BY <1>10, <1>11

-----------------------------------------------------------------------------
(* What each operation does to the order. *)

\* What TIInv says of a tree, as far as its order needs it.
LEMMA TreeIsFounded ==
  /\ TIInv => kids \in [Nodes -> Seq(Ids)] /\ Lone(kids) /\ Founded(kids)
  /\ TIInv' => kids' \in [Nodes -> Seq(Ids)] /\ Lone(kids') /\ Founded(kids')
BY DEF TIInv, TreeTypeOK, Unique, Kids, Grounded, Lone, Founded

\* It is enough to compare the orders pair by pair.
LEMMA SameOrder ==
  ASSUME NEW k, NEW l, NEW S, \A a, b \in S : <<a, b>> \in Order(k) <=> <<a, b>> \in Order(l)
  PROVE  Order(k) \cap (S \X S) = Order(l) \cap (S \X S)
<1> DEFINE O == Order(k)
           P == Order(l)
<1> HIDE DEF O, P
<1>1. \A a, b \in S : <<a, b>> \in O <=> <<a, b>> \in P
  BY DEF O, P
<1>2. \A ab \in S \X S : ab = <<ab[1], ab[2]>> /\ ab[1] \in S /\ ab[2] \in S
  OBVIOUS
<1>3. O \cap (S \X S) = P \cap (S \X S)
  BY <1>1, <1>2
<1> QED
  BY <1>3 DEF O, P

\* A change of a list that holds n, before or after, concerns n.
LEMMA ConcernedIs ==
  ASSUME NEW p \in Nodes, NEW n, n \in Kids(p) \/ n \in Kids(p)', kids[p] # kids'[p]
  PROVE  n \in Concerned
BY DEF Concerned, Kids

\* A move leaves the lists as they were without what is moved.
LEMMA MoveBefore ==
  ASSUME TIInv, NEW n \in Ids, NEW p \in Nodes, NEW i \in Int, Move(n, p, i)
  PROVE  /\ \A x \in Nodes : x # p /\ x # Parent(n) => kids'[x] = kids[x]
         /\ \A x \in Nodes : \A c, d : c # n /\ d # n =>
              (Before(kids[x], c, d) <=> Before(kids'[x], c, d))
<1> DEFINE q == Parent(n)
           detached == [kids EXCEPT ![q] = RemoveAt(@, Index(n))]
<1>0. TreeTypeOK /\ kids \in [Nodes -> Seq(Ids)]
  BY DEF TIInv, TreeTypeOK
<1>1. q \in Nodes /\ Index(n) \in 1..Len(kids[q]) /\ kids[q][Index(n)] = n
  BY <1>0, ParentIs DEF Move, CanMove
<1>2. kids' = [detached EXCEPT ![p] = Insert(@, i, n)]
  BY DEF Move
<1>3. RemoveAt(kids[q], Index(n)) \in Seq(Ids)
  BY <1>0, <1>1, RemoveHolds DEF TIInv, Unique
<1>4. \A x \in Nodes : detached[x] = IF x = q THEN RemoveAt(kids[q], Index(n)) ELSE kids[x]
  BY <1>0, <1>1
<1>5. detached \in [Nodes -> Seq(Ids)]
  BY <1>0, <1>3
<1> HIDE DEF q
<1>6. \A c, d : c # n /\ d # n =>
        (Before(RemoveAt(kids[q], Index(n)), c, d) <=> Before(kids[q], c, d))
  <2> SUFFICES ASSUME NEW c, NEW d, c # n, d # n
               PROVE  Before(RemoveAt(kids[q], Index(n)), c, d) <=> Before(kids[q], c, d)
    OBVIOUS
  <2>1. kids[q] \in Seq(Ids)
    BY <1>0, <1>1
  <2> QED
    BY <1>1, <2>1, RemovedBefore
<1>7. \A x \in Nodes : \A c, d : c # n /\ d # n =>
        (Before(detached[x], c, d) <=> Before(kids[x], c, d))
  <2> HIDE DEF detached
  <2> QED
    BY <1>4, <1>6
<1> HIDE DEF detached
<1>8. \A x \in Nodes : kids'[x] = IF x = p THEN Insert(detached[p], i, n) ELSE detached[x]
  BY <1>2, <1>5
<1>9. \A c, d : c # n /\ d # n =>
        (Before(Insert(detached[p], i, n), c, d) <=> Before(detached[p], c, d))
  <2> SUFFICES ASSUME NEW c, NEW d, c # n, d # n
               PROVE  Before(Insert(detached[p], i, n), c, d) <=> Before(detached[p], c, d)
    OBVIOUS
  <2>1. detached[p] \in Seq(Ids)
    BY <1>5
  <2> QED
    BY <2>1, InsertedBefore
<1>10. \A x \in Nodes : x # p /\ x # q => kids'[x] = kids[x]
  BY <1>4, <1>8
<1>11. \A x \in Nodes : \A c, d : c # n /\ d # n =>
         (Before(kids[x], c, d) <=> Before(kids'[x], c, d))
  BY <1>7, <1>8, <1>9
<1> QED
  BY <1>10, <1>11 DEF q

\* Move.
LEMMA MoveLeavesRest ==
  ASSUME TIInv, TIInv', NEW n \in Ids, NEW p \in Nodes, NEW i \in Int, Move(n, p, i), kids' # kids
  PROVE  n \in Concerned /\ LeavesRest(n)
<1> DEFINE q == Parent(n)
           D == Within(kids, n)
           rest == Ids \ D
<1>0. /\ kids \in [Nodes -> Seq(Ids)] /\ Founded(kids)
      /\ kids' \in [Nodes -> Seq(Ids)] /\ Founded(kids')
  BY TreeIsFounded
<1>1. /\ n \in InTree /\ p # n /\ p \notin Below(n)
      /\ q \in Nodes /\ n \in Kids(q)
  BY ParentIs DEF Move, CanMove, TIInv
<1>2. /\ \A x \in Nodes : x # p /\ x # q => kids'[x] = kids[x]
      /\ \A x \in Nodes : \A c, d : c # n /\ d # n =>
           (Before(kids[x], c, d) <=> Before(kids'[x], c, d))
  BY MoveBefore
<1>3. \A x \in Nodes : Kids(x)' = (Kids(x) \ {n}) \cup (IF x = p THEN {n} ELSE {})
  BY MoveShape
<1>4. q \notin D
  BY <1>1, ParentOutside
<1> HIDE DEF q
<1>5. p \notin D
  <2> DEFINE S == {n} \cup Below(n)
  <2>1. S \in SUBSET Ids
    BY DEF Below
  <2>2. ASSUME NEW s \in S, NEW z \in Range(kids[s]) PROVE z \in Below(n)
    <3>1. s \in Nodes /\ z \in Ids
      BY <1>0, <2>1, <2>2, RangeIs DEF Nodes
    <3>2. CASE s = n
      BY <2>2, <3>1, <3>2 DEF Below
    <3>3. CASE s # n
      BY <2>2, <3>1, <3>3 DEF Below
    <3> QED
      BY <3>2, <3>3
  <2>3. \A s \in S : Range(kids[s]) \subseteq S
    BY <2>2
  <2>4. D \subseteq S
    <3> HIDE DEF S
    <3>1. n \in S
      BY DEF S
    <3> QED
      BY <2>1, <2>3, <3>1, WithinIs
  <2> QED
    BY <1>1, <2>4
<1>6. n \in Concerned
  <2>1. PICK x \in Nodes : kids[x] # kids'[x]
    BY <1>0
  <2>2. x = p \/ x = q
    BY <1>2, <2>1
  <2>3. n \in Kids(p)'
    BY <1>3
  <2> QED
    BY <1>1, <2>1, <2>2, <2>3, ConcernedIs
<1>7. InTree' = InTree
  <2>1. \A m : m \in InTree' <=> \E x \in Nodes : m \in Kids(x)'
    BY DEF InTree, Kids
  <2>2. n \in InTree'
    BY <1>3, <2>1
  <2>3. \A m : m # n => \A x \in Nodes : m \in Kids(x)' <=> m \in Kids(x)
    BY <1>3
  <2> QED
    BY <1>1, <2>1, <2>2, <2>3, InTreeIs
<1>8. n \in D /\ D \in SUBSET Ids /\ \A y \in D : y \in Nodes /\ Range(kids[y]) \subseteq D
  BY <1>0, WithinIs, WithinClosed DEF Nodes
<1> HIDE DEF D
<1>9. \A m \in D : kids'[m] = kids[m]
  BY <1>2, <1>4, <1>5, <1>8
<1>10. \A y \in Nodes : \A c \in Ids \ D : c \in Range(kids[y]) <=> c \in Range(kids'[y])
  BY <1>3, <1>8 DEF Kids
<1>11. \A y \in D : Range(kids'[y]) \subseteq D
  BY <1>8, <1>9
<1>12. \A y \in Nodes : \A c, d \in Ids \ D : Before(kids[y], c, d) <=> Before(kids'[y], c, d)
  BY <1>2, <1>8
<1>13. \A a, b \in rest : <<a, b>> \in Order(kids) <=> <<a, b>> \in Order(kids')
  <2> SUFFICES ASSUME NEW a \in Ids \ D, NEW b \in Ids \ D
               PROVE  <<a, b>> \in Order(kids) <=> <<a, b>> \in Order(kids')
    OBVIOUS
  <2>1. <<a, b>> \in Order(kids) => <<a, b>> \in Order(kids')
    BY <1>0, <1>8, <1>10, <1>12, RestFollows
  <2>2. <<a, b>> \in Order(kids') => <<a, b>> \in Order(kids)
    BY <1>0, <1>8, <1>10, <1>11, <1>12, RestFollows
  <2> QED
    BY <2>1, <2>2
<1> HIDE DEF rest
<1>14. Order(kids) \cap (rest \X rest) = Order(kids') \cap (rest \X rest)
  BY <1>13, SameOrder
<1> QED
  BY <1>1, <1>6, <1>7, <1>9, <1>14 DEF LeavesRest, D, rest

\* A node that was not there, or is not there any more, is all that is new.
LEMMA OneApart ==
  ASSUME NEW n \in Ids, ~(n \in InTree /\ n \in InTree'),
         \A m \in Ids \ {n} : m \in InTree <=> m \in InTree',
         \A a, b \in Ids \ {n} : <<a, b>> \in Order(kids) <=> <<a, b>> \in Order(kids')
  PROVE  LeavesRest(n)
<1> DEFINE rest == Ids \ {n}
<1>1. InTree \cap rest = InTree' \cap rest
  <2>1. \A m : m \in InTree \cap rest <=> m \in InTree' \cap rest
    OBVIOUS
  <2> HIDE DEF rest
  <2> QED
    BY <2>1
<1>2. \A a, b \in rest : <<a, b>> \in Order(kids) <=> <<a, b>> \in Order(kids')
  OBVIOUS
<1> HIDE DEF rest
<1>3. Order(kids) \cap (rest \X rest) = Order(kids') \cap (rest \X rest)
  BY <1>2, SameOrder
<1> QED
  BY <1>1, <1>3 DEF LeavesRest, rest

\* A leaf that comes: AddProse, Include.
LEMMA LeafLeavesRest ==
  ASSUME TIInv, TIInv', NEW p \in Nodes, NEW n \in Ids, n \notin InTree, n # p, NEW s,
         \/ s = Append(kids[p], n)
         \/ \E i \in Int : s = Insert(kids[p], i, n),
         kids' = [kids EXCEPT ![p] = s]
  PROVE  n \in Concerned /\ LeavesRest(n)
<1>0. /\ kids \in [Nodes -> Seq(Ids)] /\ Founded(kids)
      /\ kids' \in [Nodes -> Seq(Ids)] /\ Founded(kids')
  BY TreeIsFounded
<1>1. \A x \in Nodes : Kids(x)' = Kids(x) \cup (IF x = p THEN {n} ELSE {})
  BY AddLeafShape
<1>2. n \in Nodes /\ Kids(n) = {} /\ \A x \in Nodes : n \notin Kids(x)
  <2>1. n \in Nodes /\ kids[n] = <<>>
    BY DEF TIInv, NothingLost, Nodes
  <2> QED
    BY <2>1, InTreeIs, KidsIs DEF TIInv
<1>3. Kids(n)' = {}
  BY <1>1, <1>2
<1>4. \A c, d : c # n /\ d # n => (Before(s, c, d) <=> Before(kids[p], c, d))
  <2> SUFFICES ASSUME NEW c, NEW d, c # n, d # n PROVE Before(s, c, d) <=> Before(kids[p], c, d)
    OBVIOUS
  <2>1. kids[p] \in Seq(Ids)
    BY <1>0
  <2>2. CASE s = Append(kids[p], n)
    BY <2>1, <2>2, AppendedBefore
  <2>3. ASSUME NEW i \in Int, s = Insert(kids[p], i, n)
        PROVE  Before(s, c, d) <=> Before(kids[p], c, d)
    BY <2>1, <2>3, InsertedBefore
  <2> QED
    BY <2>2, <2>3
<1>5. \A x \in Nodes : kids'[x] = IF x = p THEN s ELSE kids[x]
  BY <1>0
<1>6. \A y \in Nodes : \A c, d \in Ids \ {n} : Before(kids[y], c, d) <=> Before(kids'[y], c, d)
  BY <1>4, <1>5
<1>7. \A y \in Nodes : \A c \in Ids \ {n} : c \in Range(kids[y]) <=> c \in Range(kids'[y])
  BY <1>1 DEF Kids
<1>8. {n} \in SUBSET Ids /\ \A y \in {n} : Range(kids[y]) \subseteq {n} /\ Range(kids'[y]) \subseteq {n}
  BY <1>2, <1>3 DEF Kids
<1>9. \A a, b \in Ids \ {n} : <<a, b>> \in Order(kids) <=> <<a, b>> \in Order(kids')
  <2> DEFINE D == {n}
  <2>1. /\ D \in SUBSET Ids
        /\ \A y \in D : Range(kids[y]) \subseteq D
        /\ \A y \in D : Range(kids'[y]) \subseteq D
        /\ \A y \in Nodes : \A c, d \in Ids \ D : Before(kids[y], c, d) <=> Before(kids'[y], c, d)
        /\ \A y \in Nodes : \A c \in Ids \ D : c \in Range(kids[y]) <=> c \in Range(kids'[y])
    BY <1>6, <1>7, <1>8
  <2> HIDE DEF D
  <2>2. \A a, b \in Ids \ D : <<a, b>> \in Order(kids) => <<a, b>> \in Order(kids')
    BY <1>0, <2>1, RestFollows
  <2>3. \A a, b \in Ids \ D : <<a, b>> \in Order(kids') => <<a, b>> \in Order(kids)
    BY <1>0, <2>1, RestFollows
  <2> QED
    BY <2>2, <2>3 DEF D
<1>10. \A m \in Ids \ {n} : m \in InTree <=> m \in InTree'
  <2>1. \A m : m \in InTree' <=> \E x \in Nodes : m \in Kids(x)'
    BY DEF InTree, Kids
  <2>2. \A m \in Ids \ {n} : \A x \in Nodes : m \in Kids(x)' <=> m \in Kids(x)
    BY <1>1
  <2> QED
    BY <2>1, <2>2, InTreeIs
<1>11. n \in Kids(p)' /\ kids[p] # kids'[p]
  BY <1>1, <1>2 DEF Kids
<1> QED
  BY <1>9, <1>10, <1>11, ConcernedIs, OneApart

\* Exclude, with the promotion of the children in place.
LEMMA ExcludeLeavesRest ==
  ASSUME TIInv, TIInv', NEW r \in InTree, kids' = Promoted(r)
  PROVE  r \in Concerned /\ LeavesRest(r)
<1>0. /\ kids \in [Nodes -> Seq(Ids)] /\ Lone(kids) /\ Founded(kids)
      /\ kids' \in [Nodes -> Seq(Ids)] /\ Founded(kids')
  BY TreeIsFounded
<1> PICK p \in Nodes : p = Parent(r)
  BY ParentIs DEF TIInv
<1> PICK i \in 1..Len(kids[p]) : i = Index(r)
  BY ParentIs DEF TIInv
<1>1. r \in Kids(p) /\ kids[p][i] = r /\ r \in Ids /\ r \in Nodes
  BY ParentIs DEF Nodes, TIInv
<1>2. /\ r # p
      /\ \A x \in Nodes : Kids(x)' =
           IF x = r THEN {} ELSE IF x = p THEN (Kids(x) \ {r}) \cup Kids(r) ELSE Kids(x)
  BY ExcludeShape
<1>3. kids' = [[kids EXCEPT ![p] = Spliced(kids[p], i - 1, kids[r], i + 1)] EXCEPT ![r] = <<>>]
  BY DEF Promoted, Spliced
<1>4. /\ kids'[p] = Spliced(kids[p], i - 1, kids[r], i + 1) /\ kids'[r] = <<>>
      /\ \A x \in Nodes : x # p /\ x # r => kids'[x] = kids[x]
  <2> DEFINE s == Spliced(kids[p], i - 1, kids[r], i + 1)
  <2>1. kids' = [[kids EXCEPT ![p] = s] EXCEPT ![r] = <<>>]
    BY <1>3
  <2> HIDE DEF s
  <2>2. kids'[p] = s /\ kids'[r] = <<>> /\ \A x \in Nodes : x # p /\ x # r => kids'[x] = kids[x]
    BY <1>0, <1>1, <1>2, <2>1
  <2> QED
    BY <2>2 DEF s
<1>5. \A a, b \in Ids \ {r} : <<a, b>> \in Order(kids) <=> <<a, b>> \in Order(kids')
  <2>1. Promotes(kids, kids', p, i, r)
    BY <1>0, <1>1, <1>2, <1>4 DEF Promotes
  <2> QED
    BY <2>1, PromotionAgrees
<1>6. \A x \in Nodes : x # p => r \notin Kids(x)
  BY <1>1 DEF TIInv, Unique
<1>7. \A m : m \in InTree' <=> \E x \in Nodes : m \in Kids(x)'
  BY DEF InTree, Kids
<1>8. r \notin InTree'
  BY <1>1, <1>2, <1>6, <1>7
<1>9. ASSUME NEW m \in Ids \ {r} PROVE m \in InTree <=> m \in InTree'
  <2>1. ASSUME NEW x \in Nodes, m \in Kids(x) PROVE \E y \in Nodes : m \in Kids(y)'
    <3>1. CASE x = r
      BY <1>1, <1>2, <2>1, <3>1
    <3>2. CASE x # r
      BY <1>2, <2>1, <3>2
    <3> QED
      BY <3>1, <3>2
  <2>2. ASSUME NEW x \in Nodes, m \in Kids(x)' PROVE \E y \in Nodes : m \in Kids(y)
    BY <1>1, <1>2, <2>2
  <2> QED
    BY <1>7, <2>1, <2>2, InTreeIs
<1>10. kids[p] # kids'[p]
  BY <1>1, <1>7, <1>8 DEF Kids
<1> QED
  BY <1>1, <1>5, <1>8, <1>9, <1>10, ConcernedIs, OneApart

\* One element taken out of a list and another put in its place.
LEMMA ReplacedShape ==
  ASSUME NEW E, NEW w \in Seq(E), NEW i \in 1..Len(w), NEW t \in Seq(E)
  PROVE  Len(t) = 1 =>
         /\ Spliced(w, i - 1, t, i + 1) \in Seq(E)
         /\ Len(Spliced(w, i - 1, t, i + 1)) = Len(w)
         /\ \A j \in 1..Len(w) : Spliced(w, i - 1, t, i + 1)[j] = IF j = i THEN t[1] ELSE w[j]
<1> DEFINE a == i - 1
           b == i + 1
           v == Spliced(w, a, t, b)
<1>0. Len(w) \in Nat /\ i \in Nat /\ i <= Len(w) /\ 1 <= i
  OBVIOUS
<1>1. a \in 0..Len(w)
  BY <1>0
<1>2. b \in (a + 1)..(Len(w) + 1)
  BY <1>0
<1>3. /\ v \in Seq(E)
      /\ Len(v) = a + Len(t) + Len(w) - b + 1
      /\ \A j \in 1..(a + Len(t) + Len(w) - b + 1) :
           v[j] = IF j <= a THEN w[j]
                  ELSE IF j <= a + Len(t) THEN t[j - a]
                  ELSE w[j - a - Len(t) + b - 1]
  <2> HIDE DEF a, b
  <2> QED
    BY <1>1, <1>2, SplicedShape
<1>4. SUFFICES ASSUME Len(t) = 1
               PROVE  /\ v \in Seq(E)
                      /\ Len(v) = Len(w)
                      /\ \A j \in 1..Len(w) : v[j] = IF j = i THEN t[1] ELSE w[j]
  OBVIOUS
<1>5. a + Len(t) + Len(w) - b + 1 = Len(w)
  BY <1>0, <1>4
<1> HIDE DEF v
<1>6. ASSUME NEW j \in 1..Len(w) PROVE v[j] = IF j = i THEN t[1] ELSE w[j]
  <2>0. v[j] = IF j <= a THEN w[j]
               ELSE IF j <= a + Len(t) THEN t[j - a]
               ELSE w[j - a - Len(t) + b - 1]
    BY <1>5, <1>3
  <2>1. j \in Int /\ i \in Int
    OBVIOUS
  <2>2. CASE j < i
    <3>1. j <= a /\ j # i
      BY <2>1, <2>2
    <3> QED
      BY <2>0, <3>1
  <2>3. CASE j = i
    <3>1. ~(j <= a) /\ j <= a + Len(t) /\ j - a = 1
      BY <1>4, <2>1, <2>3
    <3>2. v[j] = t[1]
      BY <2>0, <3>1
    <3> QED
      BY <2>3, <3>2
  <2>4. CASE j > i
    <3>1. ~(j <= a) /\ ~(j <= a + Len(t)) /\ j - a - Len(t) + b - 1 = j /\ j # i
      BY <1>4, <2>1, <2>4
    <3> QED
      BY <2>0, <3>1
  <2> QED
    BY <2>1, <2>2, <2>3, <2>4
<1>7. v \in Seq(E) /\ Len(v) = Len(w)
  BY <1>5, <1>3
<1> QED
  BY <1>6, <1>7 DEF v

\* What is replaced in a list comes back where it was.
LEMMA ReplacedBack ==
  ASSUME NEW E, NEW s \in Seq(E), NEW i \in 1..Len(s), NEW h \in E
  PROVE  s = Spliced([s EXCEPT ![i] = h], i - 1, <<s[i]>>, i + 1)
<1> DEFINE w == [s EXCEPT ![i] = h]
           t == <<s[i]>>
           v == Spliced(w, i - 1, t, i + 1)
<1>1. w \in Seq(E) /\ Len(w) = Len(s) /\ \A j \in 1..Len(s) : w[j] = IF j = i THEN h ELSE s[j]
  BY ExceptSeq
<1>2. t \in Seq(E) /\ Len(t) = 1 /\ t[1] = s[i]
  BY ElementOfSeq
<1> HIDE DEF w, t
<1>3. i \in 1..Len(w)
  BY <1>1
<1>4. /\ v \in Seq(E) /\ Len(v) = Len(w)
      /\ \A j \in 1..Len(w) : v[j] = IF j = i THEN t[1] ELSE w[j]
  <2>1. w \in Seq(E) /\ t \in Seq(E) /\ Len(t) = 1
    BY <1>1, <1>2
  <2> QED
    BY <1>3, <2>1, ReplacedShape
<1> HIDE DEF v
<1>5. \A j \in 1..Len(s) : v[j] = s[j]
  BY <1>1, <1>2, <1>4
<1>6. s = v
  BY <1>1, <1>4, <1>5, SeqEqual
<1> QED
  BY <1>6 DEF v, w, t

\* A heading put above a node is what a promotion would take out again.
LEMMA HeadingLeavesRest ==
  ASSUME TIInv, TIInv', NEW above \in InTree, NEW h \in Fresh, IsNewId(h),
         kids' = [kids EXCEPT ![Parent(above)][Index(above)] = h, ![h] = <<above>>]
  PROVE  h \in Concerned /\ LeavesRest(h)
<1>0. /\ kids \in [Nodes -> Seq(Ids)] /\ Founded(kids)
      /\ kids' \in [Nodes -> Seq(Ids)] /\ Lone(kids') /\ Founded(kids')
  BY TreeIsFounded
<1> PICK q \in Nodes : q = Parent(above)
  BY ParentIs DEF TIInv
<1> PICK s \in Seq(Ids) : s = kids[q]
  BY <1>0
<1> PICK i \in 1..Len(s) : i = Index(above)
  BY ParentIs DEF TIInv
<1> DEFINE w == [s EXCEPT ![i] = h]
           t == <<above>>
<1>1. above \in Kids(q) /\ s[i] = above /\ above \in Ids
  BY ParentIs DEF TIInv
<1>2. /\ h \in Ids /\ h \in Nodes /\ h \notin InTree /\ kids[h] = <<>>
  BY FreshIsNew DEF Nodes
<1>3. /\ \A x \in Nodes : Kids(x)' =
           IF x = q THEN (Kids(x) \ {above}) \cup {h} ELSE IF x = h THEN {above} ELSE Kids(x)
      /\ h # q
  BY InsertHeadingShape
<1>4. kids'[q] = w /\ kids'[h] = t /\ \A x \in Nodes : x # q /\ x # h => kids'[x] = kids[x]
  <2>1. kids' = [[kids EXCEPT ![q] = w] EXCEPT ![h] = t]
    OBVIOUS
  <2> HIDE DEF w, t
  <2> QED
    BY <1>0, <1>1, <1>2, <1>3, <2>1
<1>5. w \in Seq(Ids) /\ Len(w) = Len(s) /\ \A j \in 1..Len(s) : w[j] = IF j = i THEN h ELSE s[j]
  BY <1>1, <1>2, ExceptSeq
<1>6. t \in Seq(Ids) /\ Len(t) = 1 /\ t[1] = above
  BY <1>1
<1> HIDE DEF w, t
<1>7. s = Spliced(w, i - 1, t, i + 1)
  BY <1>1, <1>2, ReplacedBack DEF w, t
<1>8. \A a, b \in Ids \ {h} : <<a, b>> \in Order(kids') <=> <<a, b>> \in Order(kids)
  <2>1. Promotes(kids', kids, q, i, h)
    BY <1>0, <1>1, <1>2, <1>3, <1>4, <1>5, <1>7 DEF Promotes
  <2> QED
    BY <2>1, PromotionAgrees
<1>9. \A m : m \in InTree' <=> \E x \in Nodes : m \in Kids(x)'
  BY DEF InTree, Kids
<1>10. ASSUME NEW m \in Ids \ {h} PROVE m \in InTree <=> m \in InTree'
  <2>1. CASE m = above
    BY <1>2, <1>3, <1>9, <2>1
  <2>2. CASE m # above
    <3>1. \A x \in Nodes : x # h => (m \in Kids(x)' <=> m \in Kids(x))
      BY <1>3, <2>2
    <3>2. m \notin Kids(h)' /\ m \notin Kids(h)
      <4>1. Kids(h) = {}
        BY <1>2, KidsIs DEF TIInv
      <4> QED
        BY <1>2, <1>3, <2>2, <4>1
    <3> QED
      BY <1>2, <1>9, <3>1, <3>2, InTreeIs
  <2> QED
    BY <2>1, <2>2
<1>11. h \in Kids(q)' /\ kids[q] # kids'[q]
  <2>1. h \in Kids(q)' /\ h \notin Kids(q)
    BY <1>1, <1>2, <1>3, InTreeIs
  <2> QED
    BY <2>1 DEF Kids
<1> QED
  BY <1>1, <1>2, <1>8, <1>10, <1>11, ConcernedIs, OneApart

-----------------------------------------------------------------------------
\* Every operation but a reset.

\* Every operation, at any index.
LEMMA EditLeavesRest ==
  ASSUME TIInv, TIInv', kids' # kids,
         \/ \E n \in Ids, p \in Nodes, i \in Int : Move(n, p, i)
         \/ \E n \in Ids, t \in Texts : InsertHeading(n, t) \/ EditText(n, t)
         \/ \E p \in Nodes, i \in Int, t \in Texts : AddProse(p, i, t)
         \/ \E r \in Requirements : Exclude(r) \/ Include(r)
  PROVE  \E n \in Concerned : LeavesRest(n)
<1>1. ASSUME NEW n \in Ids, NEW p \in Nodes, NEW i \in Int, Move(n, p, i)
      PROVE  \E m \in Concerned : LeavesRest(m)
  BY <1>1, MoveLeavesRest
<1>2. ASSUME NEW n \in Ids, NEW t \in Texts, InsertHeading(n, t)
      PROVE  \E m \in Concerned : LeavesRest(m)
  <2>1. n \in InTree
    BY <1>2 DEF InsertHeading
  <2>2. PICK h \in Fresh :
          Make(h, "heading", t) /\ kids' = [kids EXCEPT ![Parent(n)][Index(n)] = h, ![h] = <<n>>]
    BY <1>2 DEF InsertHeading
  <2>3. IsNewId(h)
    BY <2>2 DEF Make
  <2> QED
    BY <2>1, <2>2, <2>3, HeadingLeavesRest
<1>3. ASSUME NEW n \in Ids, NEW t \in Texts, EditText(n, t)
      PROVE  FALSE
  BY <1>3 DEF EditText
<1>4. ASSUME NEW p \in Nodes, NEW i \in Int, NEW t \in Texts, AddProse(p, i, t)
      PROVE  \E m \in Concerned : LeavesRest(m)
  <2>1. CanHold(p)
    BY <1>4 DEF AddProse
  <2>2. PICK k \in Fresh : Make(k, "prose", t) /\ kids' = [kids EXCEPT ![p] = Insert(@, i, k)]
    BY <1>4 DEF AddProse
  <2>3. k \in Ids /\ k \notin InTree /\ k # p
    <3>1. k \in Ids /\ k \notin InTree /\ k # Root
      BY <2>2, FreshIsNew DEF Make
    <3> QED
      BY <2>1, <3>1 DEF CanHold
  <2> DEFINE s == Insert(kids[p], i, k)
  <2>4. kids' = [kids EXCEPT ![p] = s]
    BY <2>2
  <2>5. \E j \in Int : s = Insert(kids[p], j, k)
    OBVIOUS
  <2> HIDE DEF s
  <2> QED
    BY <2>3, <2>4, <2>5, LeafLeavesRest
<1>5. ASSUME NEW r \in Requirements, Exclude(r)
      PROVE  \E m \in Concerned : LeavesRest(m)
  BY <1>5, ExcludeLeavesRest DEF Exclude
<1>6. ASSUME NEW r \in Requirements, Include(r)
      PROVE  \E m \in Concerned : LeavesRest(m)
  <2> DEFINE p == IF former[r] \in InTree THEN former[r] ELSE Root
             s == Append(kids[p], r)
  <2>1. r \in excluded /\ r \notin InTree /\ r \in Ids
    BY <1>6 DEF Include, TIInv, NothingLost, Requirements, Ids
  <2>2. kids' = [kids EXCEPT ![p] = s]
    BY <1>6 DEF Include
  <2>3. p \in Nodes /\ p # r
    <3>1. \A m \in InTree : m \in Nodes
      BY ParentIs DEF TIInv, Nodes
    <3> QED
      BY <2>1, <3>1, TreeAssumption DEF Nodes
  <2>4. s = Append(kids[p], r)
    OBVIOUS
  <2> HIDE DEF s, p
  <2> QED
    BY <2>1, <2>2, <2>3, <2>4, LeafLeavesRest
<1> QED
  BY <1>1, <1>2, <1>3, <1>4, <1>5, <1>6

\* Every step of the service, the page and the programs.
LEMMA StepLeavesRest ==
  ASSUME EInv, EInv', Next, kids' # kids, kids' # ShippedTree.kids
  PROVE  \E n \in Concerned : LeavesRest(n)
<1>0. TIInv /\ TIInv'
  BY DEF EInv
<1>1. ASSUME TreeNext PROVE \E n \in Concerned : LeavesRest(n)
  <2>1. Edit
    BY <1>1 DEF TreeNext, Reset
  <2> QED
    BY <1>0, <2>1, TreeAssumption, EditLeavesRest DEF Edit
<1>2. ASSUME NEW a, WellFormed(a), Performs(a) PROVE \E n \in Concerned : LeavesRest(n)
  <2>1. CASE a.act = "move"
    <3>1. Move(a.node, a.to, a.index) /\ a.node \in Ids /\ a.to \in Nodes /\ a.index \in Int
      BY <1>2, <2>1 DEF Performs, WellFormed
    <3> QED
      BY <1>0, <3>1, EditLeavesRest
  <2>2. CASE a.act = "heading"
    <3>1. PICK t \in Texts : InsertHeading(a.node, t)
      BY <1>2, <2>2 DEF Performs
    <3>2. a.node \in Ids
      BY <1>0, <3>1, ParentIs DEF InsertHeading, TIInv
    <3> QED
      BY <1>0, <3>1, <3>2, EditLeavesRest
  <2>3. CASE a.act = "prose"
    <3>1. PICK t \in Texts : AddProse(a.to, a.index, t)
      BY <1>2, <2>3 DEF Performs
    <3>2. a.to \in Nodes
      BY <1>0, <3>1, ParentIs DEF AddProse, CanHold, Nodes, TIInv
    <3>3. a.index \in Int
      BY <1>2, <2>3, <3>2 DEF WellFormed
    <3> QED
      BY <1>0, <3>1, <3>2, <3>3, EditLeavesRest
  <2>4. CASE a.act = "exclude"
    <3>1. Exclude(a.node) /\ a.node \in Requirements
      BY <1>2, <2>4 DEF Performs, WellFormed
    <3> QED
      BY <1>0, <3>1, EditLeavesRest
  <2>5. CASE a.act = "include"
    <3>1. Include(a.node) /\ a.node \in Requirements
      BY <1>0, <1>2, <2>5 DEF Performs, Include, TIInv, TreeTypeOK
    <3> QED
      BY <1>0, <3>1, EditLeavesRest
  <2>6. CASE a.act = "reset"
    BY <1>2, <2>6 DEF Performs, Reset
  <2> QED
    BY <1>2, <2>1, <2>2, <2>3, <2>4, <2>5, <2>6 DEF WellFormed
<1>3. ASSUME NEW m \in sent, Apply(m) PROVE \E n \in Concerned : LeavesRest(n)
  <2>1. Performs(m.ask)
    BY <1>3 DEF Apply, treeVars
  <2>2. WellFormed(m.ask)
    BY DEF EInv, Mutations
  <2> QED
    BY <1>2, <2>1, <2>2
<1>4. CASE Other
  BY <1>1, <1>4 DEF Other
<1>5. ASSUME \/ \E n \in Ids, p \in Nodes, i \in 0..Cardinality(Ids) : Drop(n, p, i)
             \/ Press
             \/ \E m \in sent : Lose(m) \/ Fail(m)
             \/ Refresh \/ ReadTree \/ (\E r \in Requirements : ReadIncluded(r))
             \/ Render \/ FailRefresh \/ Close
      PROVE  UNCHANGED kids
  BY <1>5 DEF Drop, Press, Send, Lose, Fail, Refresh, ReadTree, ReadIncluded, Render, FailRefresh, Close, treeVars
<1> QED
  BY <1>3, <1>4, <1>5 DEF Next

\* Whatever is done to the document, on a page or by a program, but a reset,
\* takes one node out, puts one in, or moves one with all that is below it; the
\* rest has the nodes and the order it had.
THEOREM LeavesTheRest == Spec => RestKeepsOrder
<1> DEFINE Step ==
      kids' # kids /\ kids' # ShippedTree.kids => \E n \in Concerned : LeavesRest(n)
<1>1. EInv /\ EInv' /\ [Next]_vars => [Step]_treeVars
  BY StepLeavesRest DEF vars, treeVars
<1> HIDE DEF Step
<1>2. Spec => [][Step]_treeVars
  BY <1>1, SpecEInv, PTL DEF Spec
<1> QED
  BY <1>2 DEF RestKeepsOrder, Step

=============================================================================
