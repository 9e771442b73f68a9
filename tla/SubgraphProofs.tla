---------------------------- MODULE SubgraphProofs --------------------------
(* Of a subgraph that executes an operation: that an answer is void where the *)
(* schema says and nowhere else, and that what it says of one field is of one *)
(* model, for any operation of the three schemas and any order of its         *)
(* resolvers; and that the entities asked for are answered in their places,   *)
(* for any number of representations, types and versions.                     *)
EXTENDS Entities, Execution, FiniteSetTheorems, SequenceTheorems, TLAPS

-----------------------------------------------------------------------------
(* The schemas.  The two tables of a type agree: a field is required exactly *)
(* where its null voids the object, and is then not one that may be nil; and *)
(* a list is null once an element is, but for a list of entities.            *)

Agrees(fields, voids, lists) ==
  \A n \in DOMAIN fields :
    /\ "required" \in fields[n].is <=> n \in voids
    /\ "required" \in fields[n].is => "pointer" \notin fields[n].is
    /\ "list" \in fields[n].is /\ fields[n].of # AnyEntity => fields[n].of \in lists
    /\ fields[n].of = AnyEntity => "list" \in fields[n].is /\ fields[n].of \notin lists

Whole(s) == \A t \in DOMAIN s.fields : Agrees(s.fields[t], s.voids[t], s.lists)

LEMMA AgreesFields ==
  ASSUME NEW names, NEW of, NEW is, NEW voids, NEW lists,
         IF "required" \in is THEN names \subseteq voids /\ "pointer" \notin is
                              ELSE names \cap voids = {},
         "list" \in is /\ of # AnyEntity => of \in lists,
         of = AnyEntity => "list" \in is /\ of \notin lists
  PROVE  Agrees(Fields(names, of, is), voids, lists)
  BY DEF Agrees, Fields

LEMMA AgreesBoth ==
  ASSUME NEW f, NEW g, NEW voids, NEW lists, Agrees(f, voids, lists), Agrees(g, voids, lists)
  PROVE  Agrees(f ++ g, voids, lists)
  BY DEF Agrees, ++

LEMMA AdapterWhole == Whole(Adapter)
<1> USE AgreesFields, AgreesBoth
        DEF AdapterLists, AnyEntity, Leaf, Required, Optional, Resolved, Listed, Related
<1>1. Agrees(AdapterQuery, AdapterQueryVoids, AdapterLists)
  BY DEF AdapterQuery, AdapterQueryVoids
<1>2. Agrees(AdapterMutation, AdapterMutationVoids, AdapterLists)
  BY DEF AdapterMutation, AdapterMutationVoids
<1>3. Agrees(AdapterModel, AdapterModelVoids, AdapterLists)
  BY DEF AdapterModel, AdapterModelVoids
<1>4. Agrees(AdapterPart, AdapterPartVoids, AdapterLists)
  <2>1. Agrees(AdapterPartTexts, AdapterPartVoids, AdapterLists)
    BY DEF AdapterPartTexts, AdapterPartVoids
  <2>2. Agrees(AdapterPartRelations, AdapterPartVoids, AdapterLists)
    BY DEF AdapterPartRelations, AdapterPartVoids
  <2> QED
    BY <2>1, <2>2 DEF AdapterPart
<1>5. Agrees(AdapterAttribute, AdapterAttributeVoids, AdapterLists)
  BY DEF AdapterAttribute, AdapterAttributeVoids
<1>6. Agrees(AdapterPort, AdapterPortVoids, AdapterLists)
  BY DEF AdapterPort, AdapterPortVoids
<1>7. Agrees(AdapterConnection, AdapterConnectionVoids, AdapterLists)
  BY DEF AdapterConnection, AdapterConnectionVoids
<1>8. Agrees(AdapterRequirement, AdapterRequirementVoids, AdapterLists)
  <2>1. Agrees(AdapterRequirementTexts, AdapterRequirementVoids, AdapterLists)
    BY DEF AdapterRequirementTexts, AdapterRequirementVoids, AdapterRelationsVoid
  <2>2. Agrees(AdapterRequirementRelations, AdapterRequirementVoids, AdapterLists)
    BY DEF AdapterRequirementRelations, AdapterRequirementVoids, AdapterRelationsVoid
  <2> QED
    BY <2>1, <2>2 DEF AdapterRequirement
<1>9. Agrees(AdapterVerificationCase, AdapterVerificationCaseVoids, AdapterLists)
  BY DEF AdapterVerificationCase, AdapterVerificationCaseVoids
<1> QED
  BY <1>1, <1>2, <1>3, <1>4, <1>5, <1>6, <1>7, <1>8, <1>9 DEF Whole, Adapter

LEMMA CapacityWhole == Whole(Capacity)
<1> USE AgreesFields, AgreesBoth
        DEF CapacityLists, AnyEntity, Leaf, Required, Optional, Resolved, Listed, Related
<1>1. Agrees(CapacityQuery, CapacityQueryVoids, CapacityLists)
  BY DEF CapacityQuery, CapacityQueryVoids
<1>2. Agrees(CapacityPart, CapacityPartVoids, CapacityLists)
  BY DEF CapacityPart, CapacityPartVoids
<1>3. Agrees(CapacityAttribute, CapacityAttributeVoids, CapacityLists)
  BY DEF CapacityAttribute, CapacityAttributeVoids
<1>4. Agrees(CapacityConnection, CapacityConnectionVoids, CapacityLists)
  BY DEF CapacityConnection, CapacityConnectionVoids
<1>5. Agrees(CapacityRequirement, CapacityRequirementVoids, CapacityLists)
  BY DEF CapacityRequirement, CapacityRequirementVoids
<1>6. Agrees(CapacityVerificationCase, CapacityVerificationCaseVoids, CapacityLists)
  BY DEF CapacityVerificationCase, CapacityVerificationCaseVoids
<1> QED
  BY <1>1, <1>2, <1>3, <1>4, <1>5, <1>6 DEF Whole, Capacity

LEMMA DocumentWhole == Whole(Document)
<1> USE AgreesFields, AgreesBoth
        DEF DocumentLists, AnyEntity, Leaf, Required, Optional, Resolved, Listed, Related
<1>1. Agrees(DocumentQuery, DocumentQueryVoids, DocumentLists)
  BY DEF DocumentQuery, DocumentQueryVoids
<1>2. Agrees(DocumentMutation, DocumentMutationVoids, DocumentLists)
  BY DEF DocumentMutation, DocumentMutationVoids, TreeMutations, ListMutations
<1>3. Agrees(DocumentDocument, DocumentDocumentVoids, DocumentLists)
  BY DEF DocumentDocument, DocumentDocumentVoids
<1>4. Agrees(DocumentNode, DocumentNodeVoids, DocumentLists)
  BY DEF DocumentNode, DocumentNodeVoids
<1>5. Agrees(DocumentRequirement, DocumentRequirementVoids, DocumentLists)
  BY DEF DocumentRequirement, DocumentRequirementVoids
<1> QED
  BY <1>1, <1>2, <1>3, <1>4, <1>5 DEF Whole, Document

\* Whatever is executed, its schema is one whose tables agree.
LEMMA SchemaWhole ==
  ASSUME Executable(request)
  PROVE  Whole(Schema)
  BY AdapterWhole, CapacityWhole, DocumentWhole DEF Executable, Schema, SchemaOf

\* A query of the adapter begins with a look-up.
LEMMA QueriesLookUp ==
  ASSUME NEW n \in DOMAIN Adapter.fields["Query"]
  PROVE  n \in Lookups
  BY DEF Adapter, AdapterQuery, Fields, ++, Lookups

-----------------------------------------------------------------------------
(* Paths.  A position is a stretch of a path asked for, from its beginning.  *)

LEMMA Beginning ==
  ASSUME NEW S, NEW s \in Seq(S), NEW d \in 0..Len(s)
  PROVE  /\ SubSeq(s, 1, d) \in Seq(S) /\ Len(SubSeq(s, 1, d)) = d
         /\ \A i \in 1..d : SubSeq(s, 1, d)[i] = s[i]
         /\ \A e \in 0..d : SubSeq(SubSeq(s, 1, d), 1, e) = SubSeq(s, 1, e)
<1>1. Len(s) \in Nat /\ d \in Nat
  OBVIOUS
<1>2. \A e \in 0..Len(s) :
        /\ SubSeq(s, 1, e) \in Seq(S) /\ Len(SubSeq(s, 1, e)) = e
        /\ \A i \in 1..e : SubSeq(s, 1, e)[i] = s[i]
  <2> SUFFICES ASSUME NEW e \in 0..Len(s)
               PROVE  /\ SubSeq(s, 1, e) \in Seq(S) /\ Len(SubSeq(s, 1, e)) = e
                      /\ \A i \in 1..e : SubSeq(s, 1, e)[i] = s[i]
    OBVIOUS
  <2>1. \A i \in 1..e : s[i] \in S
    BY <1>1, ElementOfSeq
  <2> QED
    BY <2>1, <1>1, SubSeqProperties
<1> DEFINE t == SubSeq(s, 1, d)
<1>3. t \in Seq(S) /\ Len(t) = d /\ \A i \in 1..d : t[i] = s[i]
  BY <1>2
<1> HIDE DEF t
<1>4. ASSUME NEW e \in 0..d
      PROVE  SubSeq(t, 1, e) = SubSeq(s, 1, e)
  <2>1. \A i \in 1..e : t[i] \in S
    BY <1>1, <1>3, ElementOfSeq
  <2>2. /\ SubSeq(t, 1, e) \in Seq(S) /\ Len(SubSeq(t, 1, e)) = e
        /\ \A i \in 1..e : SubSeq(t, 1, e)[i] = t[i]
    BY <2>1, <1>1, SubSeqProperties
  <2>3. /\ SubSeq(s, 1, e) \in Seq(S) /\ Len(SubSeq(s, 1, e)) = e
        /\ \A i \in 1..e : SubSeq(s, 1, e)[i] = s[i]
    BY <1>1, <1>2
  <2> QED
    BY <2>2, <2>3, <1>1, <1>3, SeqEqual
<1> QED
  BY <1>3, <1>4 DEF t

\* One of the first d fields of the path is a list.
Within(path, d) == \E e \in 1..d : "list" \in FieldAt(path[e]).is

LEMMA WithinBeginning ==
  ASSUME NEW S, NEW s \in Seq(S), NEW d \in 0..Len(s), NEW e \in 0..d
  PROVE  Within(SubSeq(s, 1, d), e) <=> Within(s, e)
<1>1. \A i \in 1..d : SubSeq(s, 1, d)[i] = s[i]
  BY Beginning
<1>2. \A i \in 1..e : i \in 1..d
  OBVIOUS
<1> QED
  BY <1>1, <1>2 DEF Within

LEMMA ElementsWithin ==
  ASSUME NEW path
  PROVE  Elements(path) = IF Within(path, Len(path) - 1) THEN {1, 2} ELSE {0}
  BY DEF Elements, Within

LEMMA PositionShape ==
  ASSUME Executable(request), NEW p \in Positions
  PROVE  /\ p = [path |-> p.path, at |-> p.at]
         /\ p.path \in Seq(Steps(Schema)) /\ Len(p.path) \in Nat \ {0}
         /\ p.path[1].on = request.root
         /\ p.at \in Elements(p.path)
         /\ \E c \in Range(request.paths) :
              Len(p.path) \in 1..Len(c) /\ p.path = SubSeq(c, 1, Len(p.path))
<1>0. PICK c \in Range(request.paths) :
        \E d \in 1..Len(c) : \E a \in Elements(SubSeq(c, 1, d)) :
          p = [path |-> SubSeq(c, 1, d), at |-> a]
  BY DEF Positions
<1>1. PICK d \in 1..Len(c) :
        \E a \in Elements(SubSeq(c, 1, d)) : p = [path |-> SubSeq(c, 1, d), at |-> a]
  BY <1>0
<1>2. c \in Seq(Steps(Schema)) /\ c # <<>> /\ c[1].on = request.root
  <2>1. /\ request.paths \in Seq(Seq(Steps(Schema)) \ {<<>>})
        /\ \A r \in Range(request.paths) : r[1].on = request.root
    BY DEF Executable, Schema
  <2>2. \A i \in DOMAIN request.paths : request.paths[i] \in Seq(Steps(Schema)) \ {<<>>}
    BY <2>1
  <2> QED
    BY <2>1, <2>2 DEF Range
<1>3. Len(c) \in Nat /\ d \in Nat /\ d \in 0..Len(c) /\ d # 0
  BY <1>2
<1>4. /\ SubSeq(c, 1, d) \in Seq(Steps(Schema)) /\ Len(SubSeq(c, 1, d)) = d
      /\ SubSeq(c, 1, d)[1] = c[1]
  BY <1>2, <1>3, Beginning
<1> QED
  BY <1>1, <1>2, <1>3, <1>4

LEMMA Cut ==
  ASSUME Executable(request), NEW p \in Positions, NEW d \in 1..Len(p.path),
         NEW a \in Elements(SubSeq(p.path, 1, d))
  PROVE  [path |-> SubSeq(p.path, 1, d), at |-> a] \in Positions
<1>1. PICK c \in Range(request.paths) :
        Len(p.path) \in 1..Len(c) /\ p.path = SubSeq(c, 1, Len(p.path))
  BY PositionShape
<1>2. c \in Seq(Steps(Schema))
  <2>1. \A i \in DOMAIN request.paths : request.paths[i] \in Seq(Steps(Schema)) \ {<<>>}
    BY DEF Executable, Schema
  <2> QED
    BY <2>1 DEF Range
<1>3. Len(p.path) \in Nat /\ Len(c) \in Nat /\ Len(p.path) \in 0..Len(c) /\ d \in 0..Len(p.path)
      /\ d \in 1..Len(c)
  BY <1>1, <1>2
<1>4. SubSeq(p.path, 1, d) = SubSeq(c, 1, d)
  BY <1>1, <1>2, <1>3, Beginning
<1> DEFINE At(e) == {[path |-> SubSeq(c, 1, e), at |-> b] : b \in Elements(SubSeq(c, 1, e))}
<1>5. [path |-> SubSeq(p.path, 1, d), at |-> a] \in At(d)
  BY <1>4
<1>6. At(d) \subseteq UNION {At(e) : e \in 1..Len(c)}
  BY <1>3
<1>7. UNION {At(e) : e \in 1..Len(c)} \subseteq Positions
  BY DEF Positions
<1> QED
  BY <1>5, <1>6, <1>7
-----------------------------------------------------------------------------
(* Positions above a position.  There is one at each length.                 *)

Up(q, d) ==
  [path |-> SubSeq(q.path, 1, d), at |-> IF Within(q.path, d - 1) THEN q.at ELSE 0]

Above ==
  {e \in Positions \X Positions :
     /\ Len(e[1].path) < Len(e[2].path) /\ e[1].path = SubSeq(e[2].path, 1, Len(e[1].path))
     /\ e[1].at \in {0, e[2].at}}

LEMMA UpIsPosition ==
  ASSUME Executable(request), NEW q \in Positions, NEW d \in 1..Len(q.path)
  PROVE  /\ Up(q, d) \in Positions /\ Len(Up(q, d).path) = d
         /\ d = Len(q.path) => Up(q, d) = q
         /\ d < Len(q.path) => <<Up(q, d), q>> \in Above
         /\ \A e \in 1..d : Up(Up(q, d), e) = Up(q, e)
<1>1. /\ q = [path |-> q.path, at |-> q.at]
      /\ q.path \in Seq(Steps(Schema)) /\ Len(q.path) \in Nat \ {0}
      /\ q.at \in Elements(q.path)
  BY PositionShape
<1>2. d \in 0..Len(q.path) /\ d \in Nat /\ d - 1 \in 0..d /\ Len(q.path) \in 0..Len(q.path)
  BY <1>1
<1>3. Len(SubSeq(q.path, 1, d)) = d
  BY <1>1, <1>2, Beginning
<1>4. \A e \in 0..d : SubSeq(SubSeq(q.path, 1, d), 1, e) = SubSeq(q.path, 1, e)
  BY <1>1, <1>2, Beginning
<1>5. \A e \in 0..d : Within(SubSeq(q.path, 1, d), e) <=> Within(q.path, e)
  BY <1>1, <1>2, WithinBeginning
<1>6. \A e \in 0..(Len(q.path) - 1) : Within(q.path, e) => q.at \in {1, 2}
  <2>1. Elements(q.path) = IF Within(q.path, Len(q.path) - 1) THEN {1, 2} ELSE {0}
    BY ElementsWithin
  <2>2. \A e \in 0..(Len(q.path) - 1) : Within(q.path, e) => Within(q.path, Len(q.path) - 1)
    BY <1>1 DEF Within
  <2> QED
    BY <1>1, <2>1, <2>2
<1>7. Up(q, d).at \in Elements(SubSeq(q.path, 1, d))
  <2>1. Elements(SubSeq(q.path, 1, d)) = IF Within(q.path, d - 1) THEN {1, 2} ELSE {0}
    BY <1>2, <1>3, <1>5, ElementsWithin
  <2>2. d - 1 \in 0..(Len(q.path) - 1)
    BY <1>1, <1>2
  <2> QED
    BY <2>1, <2>2, <1>6 DEF Up
<1>8. Up(q, d) \in Positions
  BY <1>7, Cut DEF Up
<1>9. d = Len(q.path) => Up(q, d) = q
  <2> SUFFICES ASSUME d = Len(q.path) PROVE Up(q, d) = q
    OBVIOUS
  <2>1. SubSeq(q.path, 1, d) = q.path
    BY <1>1, SubSeqFull
  <2>2. ~Within(q.path, d - 1) => q.at = 0
    BY <1>1, ElementsWithin
  <2> QED
    BY <2>1, <2>2, <1>1 DEF Up
<1>10. Up(q, d).at \in {0, q.at}
  BY DEF Up
<1>11. d < Len(q.path) => <<Up(q, d), q>> \in Above
  BY <1>3, <1>8, <1>10 DEF Above, Up
<1>12. ASSUME NEW e \in 1..d
       PROVE  Up(Up(q, d), e) = Up(q, e)
  <2>1. e \in 0..d /\ e - 1 \in 0..d /\ e - 1 <= d - 1
    BY <1>2
  <2>2. Within(q.path, e - 1) => Within(q.path, d - 1)
    BY <1>2, <2>1 DEF Within
  <2>3. Up(q, d).path = SubSeq(q.path, 1, d)
    BY DEF Up
  <2>4. Within(Up(q, d).path, e - 1) <=> Within(q.path, e - 1)
    BY <1>5, <2>1, <2>3
  <2>5. SubSeq(Up(q, d).path, 1, e) = SubSeq(q.path, 1, e)
    BY <1>4, <2>1, <2>3
  <2> DEFINE a == IF Within(Up(q, d).path, e - 1) THEN Up(q, d).at ELSE 0
             b == IF Within(q.path, e - 1) THEN q.at ELSE 0
  <2>6. a = b
    BY <2>2, <2>4 DEF Up
  <2>7. Up(Up(q, d), e) = [path |-> SubSeq(Up(q, d).path, 1, e), at |-> a]
    BY DEF Up
  <2>8. Up(q, e) = [path |-> SubSeq(q.path, 1, e), at |-> b]
    BY DEF Up
  <2> HIDE DEF a, b
  <2> QED
    BY <2>5, <2>6, <2>7, <2>8
<1> QED
  BY <1>3, <1>8, <1>9, <1>11, <1>12 DEF Up

\* Whatever is above a position is the one there is at its length.
LEMMA AboveIsUp ==
  ASSUME Executable(request), NEW p, NEW q, <<p, q>> \in Above
  PROVE  /\ p \in Positions /\ q \in Positions
         /\ Len(p.path) \in 1..(Len(q.path) - 1) /\ p = Up(q, Len(p.path))
<1>1. /\ p \in Positions /\ q \in Positions
      /\ Len(p.path) < Len(q.path) /\ p.path = SubSeq(q.path, 1, Len(p.path))
      /\ p.at \in {0, q.at}
  BY DEF Above
<1>2. /\ p = [path |-> p.path, at |-> p.at] /\ Len(p.path) \in Nat \ {0}
      /\ Len(q.path) \in Nat \ {0} /\ q.path \in Seq(Steps(Schema))
      /\ p.at \in Elements(p.path)
  BY <1>1, PositionShape
<1> DEFINE n == Len(p.path)
<1>3. n \in 0..Len(q.path) /\ n - 1 \in 0..n
  BY <1>1, <1>2
<1>4. Within(p.path, n - 1) <=> Within(q.path, n - 1)
  <2>1. Within(SubSeq(q.path, 1, n), n - 1) <=> Within(q.path, n - 1)
    BY <1>2, <1>3, WithinBeginning
  <2> QED
    BY <1>1, <2>1
<1>5. p.at \in IF Within(q.path, n - 1) THEN {1, 2} ELSE {0}
  BY <1>2, <1>4, ElementsWithin
<1>6. p.at = IF Within(q.path, n - 1) THEN q.at ELSE 0
  BY <1>1, <1>5
<1> QED
  BY <1>1, <1>2, <1>6 DEF Up

LEMMA AboveTransitive ==
  ASSUME Executable(request), NEW p, NEW q, NEW r, <<p, q>> \in Above, <<q, r>> \in Above
  PROVE  <<p, r>> \in Above
<1>1. /\ p = Up(q, Len(p.path)) /\ q = Up(r, Len(q.path)) /\ q \in Positions /\ r \in Positions
      /\ Len(p.path) \in 1..(Len(q.path) - 1) /\ Len(q.path) \in 1..(Len(r.path) - 1)
  BY AboveIsUp
<1>2. Len(q.path) \in 1..Len(r.path) /\ Len(p.path) \in 1..Len(q.path)
      /\ Len(p.path) \in 1..Len(r.path) /\ Len(p.path) < Len(r.path)
  BY <1>1, PositionShape
<1>3. p = Up(r, Len(p.path))
  BY <1>1, <1>2, UpIsPosition
<1> QED
  BY <1>1, <1>2, <1>3, UpIsPosition
Parents == {e \in Positions \X Positions : Beneath(e[1], e[2])}

LEMMA ParentIsUp ==
  ASSUME Executable(request), NEW p, NEW q
  PROVE  <<p, q>> \in Parents <=>
           q \in Positions /\ Len(q.path) > 1 /\ p = Up(q, Len(q.path) - 1)
<1>1. ASSUME <<p, q>> \in Parents
      PROVE  q \in Positions /\ Len(q.path) > 1 /\ p = Up(q, Len(q.path) - 1)
  <2>1. /\ p \in Positions /\ q \in Positions
        /\ Len(q.path) > 1 /\ p.path = SubSeq(q.path, 1, Len(q.path) - 1) /\ p.at \in {0, q.at}
    BY <1>1 DEF Parents, Beneath, Front
  <2>2. q.path \in Seq(Steps(Schema)) /\ Len(q.path) \in Nat \ {0}
    BY <2>1, PositionShape
  <2>3. Len(q.path) - 1 \in 0..Len(q.path)
    BY <2>2
  <2>4. Len(p.path) = Len(q.path) - 1
    BY <2>1, <2>2, <2>3, Beginning
  <2>5. <<p, q>> \in Above
    BY <2>1, <2>2, <2>4 DEF Above
  <2> QED
    BY <2>1, <2>4, <2>5, AboveIsUp
<1>2. ASSUME q \in Positions, Len(q.path) > 1, p = Up(q, Len(q.path) - 1)
      PROVE  <<p, q>> \in Parents
  <2>1. Len(q.path) \in Nat \ {0}
    BY <1>2, PositionShape
  <2>2. Len(q.path) - 1 \in 1..Len(q.path)
    BY <1>2, <2>1
  <2>3. p \in Positions
    BY <1>2, <2>2, UpIsPosition
  <2>4. p.path = SubSeq(q.path, 1, Len(q.path) - 1) /\ p.at \in {0, q.at}
    BY <1>2 DEF Up
  <2> QED
    BY <1>2, <2>3, <2>4 DEF Parents, Beneath, Front
<1> QED
  BY <1>1, <1>2

\* There is a field selected on p on the way from p to what is below it.
LEMMA Toward ==
  ASSUME Executable(request), NEW p, NEW q, <<p, q>> \in Above
  PROVE  LET c == Up(q, Len(p.path) + 1) IN <<p, c>> \in Parents /\ (c = q \/ <<c, q>> \in Above)
<1> DEFINE n == Len(p.path)
           c == Up(q, n + 1)
<1>1. p \in Positions /\ q \in Positions /\ n \in 1..(Len(q.path) - 1) /\ p = Up(q, n)
  BY AboveIsUp
<1>2. n + 1 \in 1..Len(q.path) /\ n \in 1..(n + 1) /\ Len(q.path) \in Nat
  BY <1>1, PositionShape
<1>3. /\ c \in Positions /\ Len(c.path) = n + 1 /\ Up(c, n) = Up(q, n)
      /\ n + 1 = Len(q.path) => c = q
      /\ n + 1 < Len(q.path) => <<c, q>> \in Above
  BY <1>1, <1>2, UpIsPosition
<1>4. <<p, c>> \in Parents
  <2>1. Len(c.path) > 1 /\ Len(c.path) - 1 = n
    BY <1>1, <1>2, <1>3
  <2> QED
    BY <1>1, <1>3, <2>1, ParentIsUp
<1> QED
  BY <1>2, <1>3, <1>4

LEMMA ParentAbove ==
  ASSUME Executable(request), NEW p, NEW q, <<p, q>> \in Parents
  PROVE  <<p, q>> \in Above /\ p \in Positions /\ q \in Positions /\ Len(q.path) = Len(p.path) + 1
<1>1. q \in Positions /\ Len(q.path) > 1 /\ p = Up(q, Len(q.path) - 1)
  BY ParentIsUp
<1>2. Len(q.path) \in Nat \ {0}
  BY <1>1, PositionShape
<1>3. Len(q.path) - 1 \in 1..Len(q.path) /\ Len(q.path) - 1 < Len(q.path)
  BY <1>1, <1>2
<1> QED
  BY <1>1, <1>2, <1>3, UpIsPosition

\* What is above a position is its parent or above that.
LEMMA Upward ==
  ASSUME Executable(request), NEW c, NEW p, NEW q, <<c, q>> \in Parents, <<p, q>> \in Above
  PROVE  p = c \/ <<p, c>> \in Above
<1>1. /\ q \in Positions /\ Len(q.path) > 1 /\ c = Up(q, Len(q.path) - 1)
      /\ Len(p.path) \in 1..(Len(q.path) - 1) /\ p = Up(q, Len(p.path))
  BY ParentIsUp, AboveIsUp
<1>2. Len(q.path) \in Nat \ {0}
  BY <1>1, PositionShape
<1>3. Len(q.path) - 1 \in 1..Len(q.path)
  BY <1>1, <1>2
<1>4. c \in Positions /\ Len(c.path) = Len(q.path) - 1 /\ Up(c, Len(p.path)) = Up(q, Len(p.path))
  BY <1>1, <1>3, UpIsPosition
<1>5. Len(p.path) \in 1..Len(c.path)
  BY <1>1, <1>4
<1> QED
  BY <1>1, <1>4, <1>5, UpIsPosition

-----------------------------------------------------------------------------
(* What may not be null between two positions. *)

\* c is selected on p, must not be null, and costs p its value if it is.
Strict == {e \in Parents : Is(e[2], "required") /\ Field(e[1]).of # AnyEntity}

LEMMA UnderIsAbove ==
  ASSUME Executable(request), NEW p \in Positions, NEW q \in Positions
  PROVE  Under(p, q) <=>
           /\ <<p, q>> \in Above
           /\ \A d \in (Len(p.path) + 1)..Len(q.path) : "required" \in FieldAt(q.path[d]).is
           /\ \A d \in Len(p.path)..(Len(q.path) - 1) : FieldAt(q.path[d]).of # AnyEntity
<1>1. /\ p.path \in Seq(Steps(Schema)) /\ Len(p.path) \in Nat
      /\ q.path \in Seq(Steps(Schema)) /\ Len(q.path) \in Nat
  BY PositionShape
<1>2. SubSeq(p.path, 1, Len(p.path)) = p.path
  BY <1>1, SubSeqFull
<1>3. Len(p.path) < Len(q.path) /\ IsPrefix(p.path, q.path) <=>
        Len(p.path) < Len(q.path) /\ p.path = SubSeq(q.path, 1, Len(p.path))
  BY <1>1, <1>2 DEF IsPrefix
<1> QED
  BY <1>3 DEF Under, Above

LEMMA UnderStep ==
  ASSUME Executable(request), NEW p \in Positions, NEW q \in Positions, <<p, q>> \in Above,
         NEW c, c = Up(q, Len(p.path) + 1)
  PROVE  Under(p, q) <=> <<p, c>> \in Strict /\ (c = q \/ Under(c, q))
<1> DEFINE n == Len(p.path)
           m == Len(q.path)
<1>1. <<p, c>> \in Parents /\ (c = q \/ <<c, q>> \in Above)
  BY Toward
<1>2. c \in Positions /\ Len(c.path) = n + 1
  BY <1>1, ParentAbove
<1>3. n \in 1..(m - 1) /\ p = Up(q, n) /\ m \in Nat /\ q.path \in Seq(Steps(Schema))
  BY AboveIsUp, PositionShape
<1>4. n \in Nat /\ n + 1 \in 1..m /\ n \in 0..m /\ n + 1 \in 0..m
  BY <1>3
<1>5. Field(p) = FieldAt(q.path[n]) /\ Field(c) = FieldAt(q.path[n + 1])
  <2>1. p.path = SubSeq(q.path, 1, n)
    BY <1>3 DEF Up
  <2>2. c.path = SubSeq(q.path, 1, n + 1)
    BY DEF Up
  <2>3. p.path[n] = q.path[n]
    <3>1. \A i \in 1..n : SubSeq(q.path, 1, n)[i] = q.path[i]
      BY <1>3, <1>4, Beginning
    <3> QED
      BY <1>3, <2>1, <3>1
  <2>4. c.path[n + 1] = q.path[n + 1]
    <3>1. \A i \in 1..(n + 1) : SubSeq(q.path, 1, n + 1)[i] = q.path[i]
      BY <1>3, <1>4, Beginning
    <3> QED
      BY <1>4, <2>2, <3>1
  <2> QED
    BY <1>2, <2>3, <2>4 DEF Field, Last
<1>6. <<p, c>> \in Strict <=>
        "required" \in FieldAt(q.path[n + 1]).is /\ FieldAt(q.path[n]).of # AnyEntity
  BY <1>1, <1>5 DEF Strict, Is
<1> DEFINE Req(d) == "required" \in FieldAt(q.path[d]).is
           Let(d) == FieldAt(q.path[d]).of # AnyEntity
<1>7. Under(p, q) <=> (\A d \in (n + 1)..m : Req(d)) /\ (\A d \in n..(m - 1) : Let(d))
  BY UnderIsAbove
<1>8. CASE c = q
  <2>1. m = n + 1
    BY <1>2, <1>8
  <2>2. ((\A d \in (n + 1)..m : Req(d)) /\ (\A d \in n..(m - 1) : Let(d))) <=> Req(n + 1) /\ Let(n)
    <3> HIDE DEF Req, Let
    <3> QED
      BY <2>1, <1>4
  <2> QED
    BY <1>6, <1>7, <1>8, <2>2
<1>9. CASE c # q
  <2>1. <<c, q>> \in Above /\ n + 1 \in 1..(m - 1)
    BY <1>1, <1>2, <1>9, AboveIsUp
  <2>2. Under(c, q) <=> (\A d \in (n + 2)..m : Req(d)) /\ (\A d \in (n + 1)..(m - 1) : Let(d))
    <3>1. Len(c.path) + 1 = n + 2
      BY <1>2, <1>4
    <3> QED
      BY <1>2, <2>1, <3>1, UnderIsAbove
  <2>3. ((\A d \in (n + 1)..m : Req(d)) /\ (\A d \in n..(m - 1) : Let(d))) <=>
          /\ Req(n + 1) /\ Let(n)
          /\ (\A d \in (n + 2)..m : Req(d)) /\ (\A d \in (n + 1)..(m - 1) : Let(d))
    <3> HIDE DEF Req, Let
    <3>1. \A d \in (n + 1)..m : d = n + 1 \/ d \in (n + 2)..m
      BY <1>4, <1>3
    <3>2. \A d \in n..(m - 1) : d = n \/ d \in (n + 1)..(m - 1)
      BY <1>4, <1>3
    <3>3. /\ \A d \in (n + 2)..m : d \in (n + 1)..m
          /\ \A d \in (n + 1)..(m - 1) : d \in n..(m - 1)
          /\ n + 1 \in (n + 1)..m /\ n \in n..(m - 1)
      BY <1>4, <1>3
    <3> HIDE DEF n, m
    <3> QED
      BY <3>1, <3>2, <3>3
  <2> QED
    BY <1>6, <1>7, <1>9, <2>2, <2>3
<1> QED
  BY <1>8, <1>9
Unders == {e \in Positions \X Positions : Under(e[1], e[2])}
Musts == {q \in Positions : Is(q, "required")}
Nilable == {q \in Positions : Is(q, "pointer")}

LEMMA Fixed ==
  ASSUME request' = request
  PROVE  /\ Schema' = Schema /\ Positions' = Positions /\ Objects' = Objects
         /\ Above' = Above /\ Parents' = Parents /\ Strict' = Strict /\ Unders' = Unders
         /\ Musts' = Musts /\ Nilable' = Nilable
<1>1. Schema' = Schema
  BY DEF Schema
<1>2. \A path : Elements(path)' = Elements(path)
  BY <1>1 DEF Elements, FieldAt
<1>3. Positions' = Positions
  <2> DEFINE New(path) == {[path |-> path, at |-> e] : e \in Elements(path)'}
             Old(path) == {[path |-> path, at |-> e] : e \in Elements(path)}
             NewAll(c) == UNION {New(SubSeq(c, 1, d)) : d \in 1..Len(c)}
             OldAll(c) == UNION {Old(SubSeq(c, 1, d)) : d \in 1..Len(c)}
  <2>1. \A path : New(path) = Old(path)
    BY <1>2
  <2>2. Positions = UNION {OldAll(c) : c \in Range(request.paths)}
    BY DEF Positions
  <2>3. Positions' = UNION {NewAll(c) : c \in Range(request.paths)}
    BY DEF Positions
  <2> HIDE DEF New, Old
  <2>4. \A c : NewAll(c) = OldAll(c)
    BY <2>1
  <2> HIDE DEF NewAll, OldAll
  <2> QED
    BY <2>2, <2>3, <2>4
<1>4. Objects' = Objects
  BY <1>3 DEF Objects
<1>5. Above' = Above /\ Parents' = Parents
  BY <1>3 DEF Above, Parents
<1>6. Musts' = Musts /\ Nilable' = Nilable
  BY <1>1, <1>3 DEF Musts, Nilable, Is, Field, FieldAt
<1>7. Strict' = Strict
  BY <1>1, <1>5 DEF Strict, Is, Field, FieldAt
<1>8. Unders' = Unders
  BY <1>1, <1>3 DEF Unders, Under, FieldAt
<1> QED
  BY <1>1, <1>3, <1>4, <1>5, <1>6, <1>7, <1>8
\* The four relations, closed under one another.
LEMMA AboveShape ==
  ASSUME Executable(request)
  PROVE  /\ \A p, q : <<p, q>> \in Above => p \in Positions /\ q \in Positions /\ <<q, p>> \notin Above
         /\ \A p, q, r : <<p, q>> \in Above /\ <<q, r>> \in Above => <<p, r>> \in Above
         /\ \A p, q : <<p, q>> \in Parents => <<p, q>> \in Above
         /\ \A p, q \in Positions : Beneath(p, q) <=> <<p, q>> \in Parents
         /\ \A c, p, q : <<c, q>> \in Parents /\ <<p, q>> \in Above => p = c \/ <<p, c>> \in Above
<1>1. ASSUME NEW p, NEW q, <<p, q>> \in Above
      PROVE  p \in Positions /\ q \in Positions /\ <<q, p>> \notin Above
  <2>1. Len(p.path) \in Nat /\ Len(q.path) \in Nat
    BY <1>1, AboveIsUp, PositionShape
  <2> QED
    BY <1>1, <2>1 DEF Above
<1>2. \A p, q \in Positions : Beneath(p, q) <=> <<p, q>> \in Parents
  BY DEF Parents
<1> QED
  BY <1>1, <1>2, AboveTransitive, ParentAbove, Upward

LEMMA UnderShape ==
  ASSUME Executable(request)
  PROVE  /\ \A p, q : <<p, q>> \in Unders => <<p, q>> \in Above
         /\ \A p, c : <<p, c>> \in Strict => <<p, c>> \in Parents /\ <<p, c>> \in Unders
         /\ \A p, c, q : <<p, c>> \in Strict /\ <<c, q>> \in Unders => <<p, q>> \in Unders
         /\ \A p, q : <<p, q>> \in Unders =>
              \E c : <<p, c>> \in Strict /\ (c = q \/ <<c, q>> \in Unders)
<1>1. ASSUME NEW p, NEW q, <<p, q>> \in Unders
      PROVE  <<p, q>> \in Above /\ p \in Positions /\ q \in Positions /\ Under(p, q)
  BY <1>1, UnderIsAbove DEF Unders
<1>2. ASSUME NEW p, NEW c, <<p, c>> \in Strict
      PROVE  /\ <<p, c>> \in Parents /\ <<p, c>> \in Above
             /\ p \in Positions /\ c \in Positions /\ Len(c.path) = Len(p.path) + 1
  BY <1>2, ParentAbove DEF Strict
<1>3. ASSUME NEW p, NEW c, NEW q, <<p, c>> \in Strict, c = q \/ <<c, q>> \in Unders
      PROVE  <<p, q>> \in Unders
  <2>1. <<p, q>> \in Above /\ q \in Positions
    BY <1>1, <1>2, <1>3, AboveShape
  <2>2. c = Up(q, Len(p.path) + 1)
    <3>1. CASE c = q
      <4>1. q \in Positions /\ Len(q.path) \in Nat \ {0} /\ Len(q.path) = Len(p.path) + 1
        BY <1>2, <1>3, <3>1, PositionShape
      <4>2. Len(q.path) \in 1..Len(q.path)
        BY <4>1
      <4>3. Up(q, Len(q.path)) = q
        BY <4>1, <4>2, UpIsPosition
      <4> QED
        BY <3>1, <4>1, <4>3
    <3>2. CASE <<c, q>> \in Unders
      BY <1>1, <1>2, <1>3, <3>2, AboveIsUp
    <3> QED
      BY <1>3, <3>1, <3>2
  <2>3. c = q \/ Under(c, q)
    BY <1>1, <1>3
  <2>4. Under(p, q)
    BY <1>2, <1>3, <2>1, <2>2, <2>3, UnderStep
  <2> QED
    BY <1>2, <1>3, <2>1, <2>4 DEF Unders
<1>4. ASSUME NEW p, NEW q, <<p, q>> \in Unders
      PROVE  \E c : <<p, c>> \in Strict /\ (c = q \/ <<c, q>> \in Unders)
  <2> DEFINE c == Up(q, Len(p.path) + 1)
  <2>1. <<p, c>> \in Strict /\ (c = q \/ Under(c, q))
    BY <1>1, <1>4, UnderStep
  <2>2. c \in Positions /\ q \in Positions
    BY <1>1, <1>2, <1>4, <2>1
  <2>3. c = q \/ <<c, q>> \in Unders
    BY <2>1, <2>2 DEF Unders
  <2> QED
    BY <2>1, <2>3
<1> QED
  BY <1>1, <1>2, <1>3, <1>4

\* A field counts against its object where it must not be null, and what is
\* read in the executors' tables is what the schema says.
LEMMA TablesShape ==
  ASSUME Executable(request), NEW p \in Positions
  PROVE  /\ Last(p.path).name \in Schema.voids[Last(p.path).on] <=> p \in Musts
         /\ p \in Musts => p \notin Nilable
         /\ (Is(p, "list") => Field(p).of \in Schema.lists) <=> Field(p).of # AnyEntity
<1>1. p.path \in Seq(Steps(Schema)) /\ Len(p.path) \in Nat \ {0}
  BY PositionShape
<1>2. Last(p.path) \in Steps(Schema)
  BY <1>1, ElementOfSeq DEF Last
<1>3. /\ Last(p.path).on \in DOMAIN Schema.fields
      /\ Last(p.path).name \in DOMAIN Schema.fields[Last(p.path).on]
  BY <1>2 DEF Steps
<1>4. Agrees(Schema.fields[Last(p.path).on], Schema.voids[Last(p.path).on], Schema.lists)
  BY <1>3, SchemaWhole DEF Whole
<1>5. Field(p) = Schema.fields[Last(p.path).on][Last(p.path).name]
  BY DEF Field, FieldAt
<1> QED
  BY <1>3, <1>4, <1>5 DEF Agrees, Musts, Nilable, Is

\* What counts against the answer itself are the fields of the root.
LEMMA DataShape ==
  ASSUME Executable(request)
  PROVE  /\ \A p \in Positions : Object(p) \in Objects
         /\ \A p \in Positions : Object(p) = Data <=> Len(p.path) = 1
         /\ Data \in Objects
<1>1. ASSUME NEW p \in Positions
      PROVE  /\ Object(p) \in Objects
             /\ Object(p) = Data <=> Len(p.path) = 1
             /\ Object(p).path = SubSeq(p.path, 1, Len(p.path) - 1) /\ Object(p).at = p.at
             /\ Len(p.path) \in Nat \ {0}
  <2>1. /\ p.path \in Seq(Steps(Schema)) /\ Len(p.path) \in Nat \ {0}
        /\ p.at \in Elements(p.path)
    BY PositionShape
  <2>2. Len(Front(p.path)) = Len(p.path) - 1
    <3>1. Len(p.path) - 1 \in 0..Len(p.path)
      BY <2>1
    <3> QED
      BY <2>1, <3>1, Beginning DEF Front
  <2>3. Object(p) = Data => Len(p.path) = 1
    <3>1. Object(p) = Data => Front(p.path) = <<>>
      BY DEF Object, Data
    <3>2. Front(p.path) = <<>> => Len(Front(p.path)) = 0
      OBVIOUS
    <3> QED
      BY <2>1, <2>2, <3>1, <3>2
  <2>4. Len(p.path) = 1 => Front(p.path) = <<>> /\ p.at = 0
    <3> SUFFICES ASSUME Len(p.path) = 1 PROVE Front(p.path) = <<>> /\ p.at = 0
      OBVIOUS
    <3>1. Front(p.path) = <<>>
      BY SubSeqEmpty DEF Front
    <3>2. ~Within(p.path, 0)
      BY DEF Within
    <3>3. Len(p.path) - 1 = 0
      OBVIOUS
    <3>4. Elements(p.path) = {0}
      BY <3>2, <3>3, ElementsWithin
    <3> QED
      BY <2>1, <3>1, <3>4
  <2> QED
    BY <2>1, <2>3, <2>4 DEF Object, Data, Objects, Front
<1>2. \E p \in Positions : Len(p.path) = 1
  <2>1. /\ request.paths \in Seq(Seq(Steps(Schema)) \ {<<>>}) /\ request.paths # <<>>
    BY DEF Executable, Schema
  <2>2. 1 \in DOMAIN request.paths /\ request.paths[1] \in Seq(Steps(Schema)) \ {<<>>}
    BY <2>1
  <2> DEFINE c == request.paths[1]
             p == [path |-> SubSeq(c, 1, 1), at |-> 0]
             At(e) == {[path |-> SubSeq(c, 1, e), at |-> b] : b \in Elements(SubSeq(c, 1, e))}
  <2>3. Len(c) \in Nat \ {0} /\ c \in Range(request.paths)
    BY <2>2 DEF Range
  <2>4. Len(SubSeq(c, 1, 1)) = 1
    BY <2>2, <2>3, Beginning
  <2>5. 0 \in Elements(SubSeq(c, 1, 1))
    <3>1. ~Within(SubSeq(c, 1, 1), 0)
      BY DEF Within
    <3>2. Len(SubSeq(c, 1, 1)) - 1 = 0
      BY <2>4
    <3> QED
      BY <3>1, <3>2, ElementsWithin
  <2>6. p \in At(1)
    BY <2>5
  <2>7. At(1) \subseteq UNION {At(e) : e \in 1..Len(c)}
    <3>1. 1 \in 1..Len(c)
      BY <2>3
    <3> HIDE DEF At, c
    <3> QED
      BY <3>1
  <2>8. UNION {At(e) : e \in 1..Len(c)} \subseteq Positions
    BY <2>3 DEF Positions
  <2> QED
    BY <2>4, <2>6, <2>7, <2>8
<1> QED
  BY <1>1, <1>2
-----------------------------------------------------------------------------
(* The inductive invariant. *)

Typed ==
  /\ request \in Requests
  /\ state \in [Positions -> {"waiting", "running"} \cup Closed]
  /\ invalids \in [Objects -> Nat] /\ errors \in [Positions -> Nat]
  /\ store \in Nat \ {0} /\ pin \in Nat \ {0} /\ source \in [Positions -> Nat]
  /\ response \in {"pending", "data", "null"}

\* A field has its turn when everything above it is being executed, and
\* nothing is over before what is below it.
Opened ==
  \A e \in Above :
    /\ state[e[2]] # "waiting" => state[e[1]] \in {"running", "value", "voided"}
    /\ state[e[2]] = "running" => state[e[1]] = "running"

\* The counters say which objects are void.
Tallied ==
  \A o \in Objects :
    invalids[o] > 0 <=> \E q \in Musts : Object(q) = o /\ state[q] \in Null

\* Nothing is void without a field below it that answered null, and nothing
\* is kept that one should have voided.
Grounded ==
  \A p \in Positions :
    state[p] = "voided" => \E q \in Positions : <<p, q>> \in Unders /\ state[q] \in {"nil", "failed"}

Kept ==
  \A e \in Unders :
    state[e[2]] \in {"nil", "failed"} /\ state[e[1]] \in Closed => state[e[1]] = "voided"

Reported ==
  \A p \in Positions :
    /\ errors[p] = IF state[p] = "failed" THEN 1 ELSE 0
    /\ state[p] = "nil" => p \in Nilable

\* The answer leaves when the fields of the root are done.
Roots == {p \in Positions : Len(p.path) = 1}

Left ==
  response # "pending" =>
    /\ \A p \in Roots : state[p] \in Closed
    /\ response = "null" <=> invalids[Data] > 0

NullInv == Typed /\ Opened /\ Tallied /\ Grounded /\ Kept /\ Reported /\ Left

\* What is being executed has its model, and below a mutation that is the one
\* pinned: the others of the operation are done or have not begun.
Top(p) == [path |-> SubSeq(p.path, 1, 1), at |-> 0]

\* What was asked before p, elsewhere, is done.
InTurn(p) ==
  \A i, j \in DOMAIN request.paths :
    i < j /\ request.paths[j][1] = p.path[1] /\ request.paths[i][1] # p.path[1] =>
      state[[path |-> <<request.paths[i][1]>>, at |-> 0]] \in Closed

Sourced ==
  /\ \A p \in Positions : source[p] # 0 => state[p] # "waiting" /\ source[p] = source[Top(p)]
  /\ \A p \in Positions : state[p] = "running" => source[p] # 0
  /\ request.root = "Query" => pin = 1 /\ \A p \in Positions : source[p] \in {0, 1}
  /\ request.root = "Mutation" =>
       \A p \in Roots :
         /\ state[p] = "running" => source[p] = pin
         /\ state[p] # "waiting" => InTurn(p)

SourceInv == request.subgraph = "adapter" => Sourced
-----------------------------------------------------------------------------
(* What a step makes of the positions: one is over, or one is opened.        *)

\* A field answers, or all that was selected on it is done.
Concludes(p, s) ==
  /\ p \in Positions /\ s \in Closed /\ request' = request /\ response' = response
  /\ \/ state[p] = "waiting" /\ s \in {"value", "nil", "failed"}
     \/ state[p] = "running" /\ s \in {"value", "voided"}
  /\ \A a \in Positions : <<a, p>> \in Above => state[a] = "running"
  /\ \A q \in Positions : <<p, q>> \in Above =>
       IF state[p] = "waiting" THEN state[q] = "waiting" ELSE state[q] # "running"
  /\ state[p] = "running" =>
       /\ s = "voided" <=> Voided(p)
       /\ \A q \in Positions : <<p, q>> \in Parents => state[q] \in Closed
  /\ state' = [state EXCEPT ![p] = s]
  /\ invalids' = Counted(p, s)
  /\ errors' = IF s = "failed" THEN [errors EXCEPT ![p] = @ + 1] ELSE errors
  /\ s = "nil" => p \in Nilable

\* What is selected on a field is executed, in the elements there are.
Opens(p) ==
  /\ p \in Positions /\ request' = request /\ response' = response
  /\ state[p] = "waiting"
  /\ \A a \in Positions : <<a, p>> \in Above => state[a] = "running"
  /\ \A q \in Positions : <<p, q>> \in Above => state[q] = "waiting"
  /\ state' \in [Positions -> {"waiting", "running"} \cup Closed]
  /\ state'[p] = "running"
  /\ \A q \in Positions : q # p =>
       state'[q] = state[q] \/ (state'[q] = "absent" /\ <<p, q>> \in Parents)
  /\ UNCHANGED <<invalids, errors>>

Rests ==
  /\ UNCHANGED <<request, state, invalids, errors>>
  /\ response' = response \/ Respond

LEMMA ReadyShape ==
  ASSUME Executable(request), Opened, NEW p \in Positions, Ready(p)
  PROVE  /\ state[p] = "waiting"
         /\ \A a \in Positions : <<a, p>> \in Above => state[a] = "running"
         /\ \A q \in Positions : <<p, q>> \in Above => state[q] = "waiting"
<1>1. state[p] = "waiting" /\ \A c \in Positions : Beneath(c, p) => state[c] = "running"
  BY DEF Ready
<1>2. ASSUME NEW a \in Positions, <<a, p>> \in Above
      PROVE  state[a] = "running"
  <2>1. Len(a.path) \in 1..(Len(p.path) - 1) /\ Len(p.path) \in Nat
    BY <1>2, AboveIsUp, PositionShape
  <2>2. Len(p.path) - 1 \in 1..Len(p.path) /\ Len(p.path) > 1
    BY <2>1
  <2> DEFINE c == Up(p, Len(p.path) - 1)
  <2>3. c \in Positions /\ <<c, p>> \in Parents
    BY <2>2, UpIsPosition, ParentIsUp
  <2>4. state[c] = "running"
    BY <1>1, <2>3, AboveShape
  <2>5. a = c \/ <<a, c>> \in Above
    BY <1>2, <2>3, AboveShape
  <2> HIDE DEF c
  <2>6. <<a, c>> \in Above => (state[c] = "running" => state[a] = "running")
    BY DEF Opened
  <2> QED
    BY <2>4, <2>5, <2>6
<1>3. ASSUME NEW q \in Positions, <<p, q>> \in Above
      PROVE  state[q] = "waiting"
  <2>1. state[q] # "waiting" => state[p] \in {"running", "value", "voided"}
    BY <1>3 DEF Opened
  <2> QED
    BY <1>1, <2>1
<1> QED
  BY <1>1, <1>2, <1>3

LEMMA RunningShape ==
  ASSUME Executable(request), Opened, NEW p \in Positions, state[p] = "running",
         \A q \in Children(p) : state[q] \in Closed
  PROVE  /\ \A a \in Positions : <<a, p>> \in Above => state[a] = "running"
         /\ \A q \in Positions : <<p, q>> \in Above => state[q] # "running"
         /\ \A q \in Positions : <<p, q>> \in Parents => state[q] \in Closed
<1>1. \A q \in Positions : <<p, q>> \in Parents => state[q] \in Closed
  BY AboveShape DEF Children
<1>2. ASSUME NEW a \in Positions, <<a, p>> \in Above
      PROVE  state[a] = "running"
  BY <1>2 DEF Opened
<1>3. ASSUME NEW q \in Positions, <<p, q>> \in Above
      PROVE  state[q] # "running"
  <2> DEFINE c == Up(q, Len(p.path) + 1)
  <2>1. <<p, c>> \in Parents /\ (c = q \/ <<c, q>> \in Above)
    BY <1>3, Toward
  <2>2. c \in Positions
    BY <2>1, ParentAbove
  <2>3. state[c] \in Closed
    BY <1>1, <2>1, <2>2
  <2> HIDE DEF c
  <2>4. <<c, q>> \in Above => (state[q] = "running" => state[c] = "running")
    BY DEF Opened
  <2>5. "running" \notin Closed
    BY DEF Closed, Null
  <2> QED
    BY <2>1, <2>3, <2>4, <2>5
<1> QED
  BY <1>1, <1>2, <1>3

LEMMA Kinds ==
  ASSUME Executable(request), Typed, Opened, [ExecNext]_execVars
  PROVE  \/ \E p, s : Concludes(p, s)
         \/ \E p : Opens(p)
         \/ Rests
<1> USE DEF Closed, Null
<1>1. ASSUME NEW p \in Positions, ResolveSome(p)
      PROVE  (\E s : Concludes(p, s)) \/ Opens(p)
  <2>1. /\ state[p] = "waiting"
        /\ \A a \in Positions : <<a, p>> \in Above => state[a] = "running"
        /\ \A q \in Positions : <<p, q>> \in Above => state[q] = "waiting"
    BY <1>1, ReadyShape DEF ResolveSome
  <2>2. UNCHANGED <<request, invalids, errors, response>>
    BY <1>1 DEF ResolveSome
  <2>3. CASE Field(p).of = Leaf
    <3>1. state' = [state EXCEPT ![p] = "value"]
      BY <1>1, <2>3 DEF ResolveSome
    <3>2. Counted(p, "value") = invalids
      BY DEF Counted
    <3>3. Concludes(p, "value")
      BY <2>1, <2>2, <3>1, <3>2 DEF Concludes
    <3> QED
      BY <3>3
  <2>4. CASE Field(p).of # Leaf
    <3>1. PICK there :
            state' = [q \in Positions |->
                        IF q = p THEN "running"
                        ELSE IF Beneath(p, q) /\ q.at \notin there THEN "absent"
                        ELSE state[q]]
      BY <1>1, <2>4 DEF ResolveSome
    <3>2. state' \in [Positions -> {"waiting", "running"} \cup Closed]
      BY <3>1 DEF Typed
    <3>3. /\ state'[p] = "running"
          /\ \A q \in Positions : q # p =>
               state'[q] = state[q] \/ (state'[q] = "absent" /\ <<p, q>> \in Parents)
      BY <3>1, AboveShape
    <3>4. Opens(p)
      BY <2>1, <2>2, <3>2, <3>3 DEF Opens
    <3> QED
      BY <3>4
  <2> QED
    BY <2>3, <2>4
<1>2. ASSUME NEW p \in Positions, ResolveNil(p)
      PROVE  Concludes(p, "nil")
  <2>1. /\ state[p] = "waiting"
        /\ \A a \in Positions : <<a, p>> \in Above => state[a] = "running"
        /\ \A q \in Positions : <<p, q>> \in Above => state[q] = "waiting"
    BY <1>2, ReadyShape DEF ResolveNil
  <2>2. /\ UNCHANGED <<request, errors, response>> /\ state' = [state EXCEPT ![p] = "nil"]
        /\ invalids' = Counted(p, "nil") /\ p \in Nilable
    BY <1>2 DEF ResolveNil, Nilable
  <2> QED
    BY <2>1, <2>2 DEF Concludes
<1>3. ASSUME NEW p \in Positions, ResolveFails(p)
      PROVE  Concludes(p, "failed")
  <2>1. /\ state[p] = "waiting"
        /\ \A a \in Positions : <<a, p>> \in Above => state[a] = "running"
        /\ \A q \in Positions : <<p, q>> \in Above => state[q] = "waiting"
    BY <1>3, ReadyShape DEF ResolveFails
  <2>2. /\ UNCHANGED <<request, response>> /\ state' = [state EXCEPT ![p] = "failed"]
        /\ errors' = [errors EXCEPT ![p] = @ + 1] /\ invalids' = Counted(p, "failed")
    BY <1>3 DEF ResolveFails
  <2> QED
    BY <2>1, <2>2 DEF Concludes
<1>4. ASSUME NEW p \in Positions, Compose(p)
      PROVE  \E s : Concludes(p, s)
  <2> DEFINE s == IF Voided(p) THEN "voided" ELSE "value"
  <2>1. /\ state[p] = "running" /\ \A q \in Children(p) : state[q] \in Closed
        /\ state' = [state EXCEPT ![p] = s] /\ invalids' = Counted(p, s)
        /\ UNCHANGED <<request, errors, response>>
    BY <1>4 DEF Compose
  <2>2. /\ \A a \in Positions : <<a, p>> \in Above => state[a] = "running"
        /\ \A q \in Positions : <<p, q>> \in Above => state[q] # "running"
        /\ \A q \in Positions : <<p, q>> \in Parents => state[q] \in Closed
    BY <2>1, RunningShape
  <2>3. s \in {"value", "voided"} /\ (s = "voided" <=> Voided(p))
    OBVIOUS
  <2> HIDE DEF s
  <2>4. Concludes(p, s)
    BY <2>1, <2>2, <2>3 DEF Concludes
  <2> QED
    BY <2>4
<1>5. ASSUME Respond \/ ChangeModel \/ UNCHANGED execVars
      PROVE  Rests
  BY <1>5 DEF Respond, ChangeModel, execVars, Rests
<1> QED
  BY <1>1, <1>2, <1>3, <1>4, <1>5 DEF ExecNext
-----------------------------------------------------------------------------
(* Each part is kept.                                                        *)

LEMMA ConcludesState ==
  ASSUME Executable(request), Typed, NEW p, NEW s, Concludes(p, s)
  PROVE  /\ p \in Positions /\ state'[p] = s /\ s \in Closed /\ s \notin {"waiting", "running", "absent"}
         /\ state[p] \in {"waiting", "running"}
         /\ \A q \in Positions : q # p => state'[q] = state[q]
         /\ Positions' = Positions /\ Above' = Above /\ Unders' = Unders /\ Musts' = Musts
         /\ Nilable' = Nilable /\ Objects' = Objects
  BY Fixed DEF Concludes, Typed

LEMMA OpensState ==
  ASSUME Executable(request), Typed, Opened, NEW p, Opens(p)
  PROVE  /\ p \in Positions /\ state'[p] = "running"
         /\ \A q \in Positions :
              state'[q] = state[q] \/ (state[q] = "waiting" /\ state'[q] \in {"running", "absent"})
         /\ \A q \in Positions : state'[q] \in {"nil", "failed", "voided"} <=>
              state[q] \in {"nil", "failed", "voided"}
         /\ \A q \in Positions : state'[q] \notin {"running", "absent"} => state'[q] = state[q]
         /\ Positions' = Positions /\ Above' = Above /\ Unders' = Unders /\ Musts' = Musts
         /\ Nilable' = Nilable /\ Objects' = Objects
<1>1. /\ Positions' = Positions /\ Above' = Above /\ Unders' = Unders /\ Musts' = Musts
      /\ Nilable' = Nilable /\ Objects' = Objects
  BY Fixed DEF Opens
<1>2. p \in Positions /\ state'[p] = "running" /\ state[p] = "waiting"
  BY DEF Opens
<1>3. ASSUME NEW q \in Positions
      PROVE  state'[q] = state[q] \/ (state[q] = "waiting" /\ state'[q] \in {"running", "absent"})
  <2>1. CASE q = p
    BY <1>2, <2>1
  <2>2. CASE q # p
    <3>1. state'[q] = state[q] \/ (state'[q] = "absent" /\ <<p, q>> \in Parents)
      BY <2>2 DEF Opens
    <3>2. <<p, q>> \in Parents => state[q] = "waiting"
      BY AboveShape DEF Opens
    <3> QED
      BY <3>1, <3>2
  <2> QED
    BY <2>1, <2>2
<1> QED
  BY <1>1, <1>2, <1>3

LEMMA OpenedKept ==
  ASSUME Executable(request), Typed, Opened, [ExecNext]_execVars
  PROVE  Opened'
<1>1. ASSUME NEW p, NEW s, Concludes(p, s)
      PROVE  Opened'
  <2> SUFFICES ASSUME NEW a \in Positions, NEW q \in Positions, <<a, q>> \in Above
               PROVE  /\ state'[q] # "waiting" => state'[a] \in {"running", "value", "voided"}
                      /\ state'[q] = "running" => state'[a] = "running"
    BY <1>1, ConcludesState DEF Opened, Above
  <2>1. /\ state[q] # "waiting" => state[a] \in {"running", "value", "voided"}
        /\ state[q] = "running" => state[a] = "running"
    BY DEF Opened
  <2>2. a # q
    BY AboveShape
  <2>3. /\ p \in Positions /\ state'[p] = s
        /\ s \notin {"waiting", "running", "absent"}
        /\ \A r \in Positions : r # p => state'[r] = state[r]
    BY <1>1, ConcludesState
  <2>4. CASE a = p
    <3>1. IF state[p] = "waiting" THEN state[q] = "waiting" ELSE state[q] # "running"
      BY <1>1, <2>4 DEF Concludes
    <3>2. state[p] # "waiting" => s \in {"value", "voided"}
      BY <1>1 DEF Concludes
    <3> QED
      BY <2>1, <2>2, <2>3, <2>4, <3>1, <3>2
  <2>5. CASE q = p
    <3>1. state[a] = "running"
      BY <1>1, <2>5 DEF Concludes
    <3> QED
      BY <2>2, <2>3, <2>5, <3>1
  <2>6. CASE a # p /\ q # p
    BY <2>1, <2>3, <2>6
  <2> QED
    BY <2>4, <2>5, <2>6
<1>2. ASSUME NEW p, Opens(p)
      PROVE  Opened'
  <2> SUFFICES ASSUME NEW a \in Positions, NEW q \in Positions, <<a, q>> \in Above
               PROVE  /\ state'[q] # "waiting" => state'[a] \in {"running", "value", "voided"}
                      /\ state'[q] = "running" => state'[a] = "running"
    BY <1>2, OpensState DEF Opened, Above
  <2>1. /\ state[q] # "waiting" => state[a] \in {"running", "value", "voided"}
        /\ state[q] = "running" => state[a] = "running"
        /\ state[a] # "waiting" => state'[a] = state[a]
    BY <1>2, OpensState DEF Opened
  <2>2. CASE state'[q] = state[q]
    BY <2>1, <2>2
  <2>3. CASE state'[q] # state[q]
    <3>1. a = p \/ state[a] = "running"
      <4>1. q = p \/ <<p, q>> \in Parents
        BY <1>2, <2>3 DEF Opens
      <4>2. CASE q = p
        BY <1>2, <4>2 DEF Opens
      <4>3. CASE <<p, q>> \in Parents
        <5>1. a = p \/ <<a, p>> \in Above
          BY <4>3, AboveShape
        <5> QED
          BY <1>2, <5>1 DEF Opens
      <4> QED
        BY <4>1, <4>2, <4>3
    <3>2. state'[p] = "running"
      BY <1>2, OpensState
    <3> QED
      BY <2>1, <3>1, <3>2
  <2> QED
    BY <2>2, <2>3
<1>3. ASSUME Rests
      PROVE  Opened'
  BY <1>3, Fixed DEF Rests, Opened
<1> QED
  BY <1>1, <1>2, <1>3, Kinds

LEMMA CountedIs ==
  ASSUME Executable(request), Typed, NEW p \in Positions, NEW s
  PROVE  /\ Counted(p, s) \in [Objects -> Nat]
         /\ \A o \in Objects :
              Counted(p, s)[o] =
                IF s \in Null /\ p \in Musts /\ o = Object(p) THEN invalids[o] + 1 ELSE invalids[o]
<1>1. Object(p) \in Objects
  BY DataShape
<1>2. Last(p.path).name \in Schema.voids[Last(p.path).on] <=> p \in Musts
  BY TablesShape
<1> QED
  BY <1>1, <1>2 DEF Counted, Typed

LEMMA TalliedKept ==
  ASSUME Executable(request), Typed, Opened, Tallied, [ExecNext]_execVars
  PROVE  Tallied'
<1>1. ASSUME NEW p, NEW s, Concludes(p, s)
      PROVE  Tallied'
  <2>1. /\ p \in Positions /\ state'[p] = s /\ state[p] \notin Null
        /\ \A q \in Positions : q # p => state'[q] = state[q]
        /\ Musts' = Musts /\ Objects' = Objects
    BY <1>1, ConcludesState DEF Null
  <2>2. \A o \in Objects :
          invalids'[o] =
            IF s \in Null /\ p \in Musts /\ o = Object(p) THEN invalids[o] + 1 ELSE invalids[o]
    BY <1>1, <2>1, CountedIs DEF Concludes
  <2> SUFFICES ASSUME NEW o \in Objects
               PROVE  invalids'[o] > 0 <=> \E q \in Musts : Object(q) = o /\ state'[q] \in Null
    BY <2>1 DEF Tallied
  <2>3. invalids[o] \in Nat /\ (invalids[o] > 0 <=> \E q \in Musts : Object(q) = o /\ state[q] \in Null)
    BY DEF Tallied, Typed
  <2>4. Musts \subseteq Positions
    BY DEF Musts
  <2>5. CASE s \in Null /\ p \in Musts /\ o = Object(p)
    BY <2>1, <2>2, <2>3, <2>5
  <2>6. CASE ~(s \in Null /\ p \in Musts /\ o = Object(p))
    <3>1. invalids'[o] = invalids[o]
      BY <2>2, <2>6
    <3>2. \A q \in Musts : Object(q) = o => (state'[q] \in Null <=> state[q] \in Null)
      BY <2>1, <2>4, <2>6
    <3> QED
      BY <2>3, <3>1, <3>2
  <2> QED
    BY <2>5, <2>6
<1>2. ASSUME NEW p, Opens(p)
      PROVE  Tallied'
  <2>1. /\ Musts' = Musts /\ Objects' = Objects
        /\ \A q \in Positions : state'[q] \in Null <=> state[q] \in Null
    BY <1>2, OpensState DEF Null
  <2>2. invalids' = invalids
    BY <1>2 DEF Opens
  <2>3. \A q \in Musts : state'[q] \in Null <=> state[q] \in Null
    BY <2>1 DEF Musts
  <2> QED
    BY <2>1, <2>2, <2>3 DEF Tallied
<1>3. ASSUME Rests
      PROVE  Tallied'
  BY <1>3, Fixed DEF Rests, Tallied
<1> QED
  BY <1>1, <1>2, <1>3, Kinds

LEMMA VoidedIs ==
  ASSUME Executable(request), Tallied, NEW p \in Positions
  PROVE  Voided(p) <=> \E c \in Positions : <<p, c>> \in Strict /\ state[c] \in Null
<1>1. (Is(p, "list") => Field(p).of \in Schema.lists) <=> Field(p).of # AnyEntity
  BY TablesShape
<1>2. ASSUME Voided(p)
      PROVE  \E c \in Positions : <<p, c>> \in Strict /\ state[c] \in Null
  <2>1. PICK o \in Objects : o.path = p.path /\ p.at \in {0, o.at} /\ invalids[o] > 0
    BY <1>2 DEF Voided
  <2>2. Field(p).of # AnyEntity
    BY <1>1, <1>2 DEF Voided
  <2>3. PICK c \in Musts : Object(c) = o /\ state[c] \in Null
    BY <2>1 DEF Tallied
  <2>4. c \in Positions /\ Is(c, "required") /\ Front(c.path) = p.path /\ p.at \in {0, c.at}
    BY <2>1, <2>3 DEF Musts, Object
  <2>5. Len(c.path) > 1
    <3>1. Len(p.path) \in Nat \ {0} /\ Len(c.path) \in Nat \ {0} /\ c.path \in Seq(Steps(Schema))
      BY <2>4, PositionShape
    <3>2. Len(c.path) - 1 \in 0..Len(c.path)
      BY <3>1
    <3>3. Len(Front(c.path)) = Len(c.path) - 1
      BY <3>1, <3>2, Beginning DEF Front
    <3>4. Len(p.path) = Len(c.path) - 1
      BY <2>4, <3>3
    <3>5. \A m, n \in Nat \ {0} : m = n - 1 => n > 1
      OBVIOUS
    <3> QED
      BY <3>1, <3>4, <3>5
  <2>6. <<p, c>> \in Strict
    BY <2>2, <2>4, <2>5 DEF Strict, Parents, Beneath
  <2> QED
    BY <2>3, <2>4, <2>6
<1>3. ASSUME NEW c \in Positions, <<p, c>> \in Strict, state[c] \in Null
      PROVE  Voided(p)
  <2>1. /\ Front(c.path) = p.path /\ p.at \in {0, c.at}
        /\ c \in Musts /\ Field(p).of # AnyEntity
    BY <1>3 DEF Strict, Parents, Beneath, Musts
  <2>2. Object(c) \in Objects /\ Object(c).path = p.path /\ p.at \in {0, Object(c).at}
    BY <2>1, DataShape DEF Object
  <2>3. invalids[Object(c)] > 0
    BY <1>3, <2>1, <2>2 DEF Tallied
  <2> QED
    BY <1>1, <2>1, <2>2, <2>3 DEF Voided
<1> QED
  BY <1>2, <1>3
LEMMA GroundedKept ==
  ASSUME Executable(request), Typed, Opened, Tallied, Grounded, [ExecNext]_execVars
  PROVE  Grounded'
<1>1. ASSUME NEW p, NEW s, Concludes(p, s)
      PROVE  Grounded'
  <2>1. /\ p \in Positions /\ state'[p] = s /\ state[p] \in {"waiting", "running"}
        /\ \A q \in Positions : q # p => state'[q] = state[q]
        /\ Positions' = Positions /\ Unders' = Unders
    BY <1>1, ConcludesState
  <2> SUFFICES ASSUME NEW r \in Positions, state'[r] = "voided"
               PROVE  \E q \in Positions : <<r, q>> \in Unders /\ state'[q] \in {"nil", "failed"}
    BY <2>1 DEF Grounded
  <2>2. \A q \in Positions : state[q] \in {"nil", "failed"} => state'[q] = state[q]
    BY <2>1
  <2>3. \A q \in Positions :
          state[q] = "voided" =>
            \E u \in Positions : <<q, u>> \in Unders /\ state[u] \in {"nil", "failed"}
    BY DEF Grounded
  <2>4. CASE r # p
    BY <2>1, <2>2, <2>3, <2>4
  <2>5. CASE r = p
    <3>1. Voided(p)
      BY <1>1, <2>1, <2>5 DEF Concludes
    <3>2. PICK c \in Positions : <<p, c>> \in Strict /\ state[c] \in Null
      BY <2>1, <3>1, VoidedIs
    <3>3. <<p, c>> \in Unders /\ \A u : <<c, u>> \in Unders => <<p, u>> \in Unders
      BY <3>2, UnderShape
    <3>4. CASE state[c] \in {"nil", "failed"}
      BY <2>2, <2>5, <3>3, <3>4
    <3>5. CASE state[c] = "voided"
      BY <2>2, <2>3, <2>5, <3>3, <3>5
    <3> QED
      BY <3>2, <3>4, <3>5 DEF Null
  <2> QED
    BY <2>4, <2>5
<1>2. ASSUME NEW p, Opens(p)
      PROVE  Grounded'
  <2>1. /\ Positions' = Positions /\ Unders' = Unders
        /\ \A q \in Positions : state'[q] \notin {"running", "absent"} => state'[q] = state[q]
        /\ \A q \in Positions : state'[q] \in {"nil", "failed", "voided"} <=>
             state[q] \in {"nil", "failed", "voided"}
    BY <1>2, OpensState
  <2>2. \A q \in Positions : state[q] \in {"nil", "failed"} => state'[q] = state[q]
    BY <2>1
  <2> SUFFICES ASSUME NEW r \in Positions, state'[r] = "voided"
               PROVE  \E q \in Positions : <<r, q>> \in Unders /\ state'[q] \in {"nil", "failed"}
    BY <2>1 DEF Grounded
  <2>3. state[r] = "voided"
    BY <2>1
  <2> QED
    BY <2>2, <2>3 DEF Grounded
<1>3. ASSUME Rests
      PROVE  Grounded'
  BY <1>3, Fixed DEF Rests, Grounded
<1> QED
  BY <1>1, <1>2, <1>3, Kinds

LEMMA KeptKept ==
  ASSUME Executable(request), Typed, Opened, Tallied, Kept, [ExecNext]_execVars
  PROVE  Kept'
<1>1. ASSUME NEW p, NEW s, Concludes(p, s)
      PROVE  Kept'
  <2>1. /\ p \in Positions /\ state'[p] = s /\ s \notin {"waiting", "running", "absent"}
        /\ \A q \in Positions : q # p => state'[q] = state[q]
        /\ Positions' = Positions /\ Unders' = Unders
    BY <1>1, ConcludesState
  <2> SUFFICES ASSUME NEW r \in Positions, NEW q \in Positions, <<r, q>> \in Unders,
                      state'[q] \in {"nil", "failed"}, state'[r] \in Closed
               PROVE  state'[r] = "voided"
    BY <2>1 DEF Kept, Unders
  <2>2. <<r, q>> \in Above /\ r # q
    BY UnderShape, AboveShape
  <2>3. CASE r = p
    <3>1. state[q] \in {"nil", "failed"}
      BY <2>1, <2>2, <2>3
    <3>2. state[p] = "running"
      BY <1>1, <2>2, <2>3, <3>1 DEF Concludes
    <3>3. PICK c : <<p, c>> \in Strict /\ (c = q \/ <<c, q>> \in Unders)
      BY <2>3, UnderShape
    <3>4. <<p, c>> \in Parents /\ c \in Positions
      BY <3>3, UnderShape, AboveShape
    <3>5. state[c] \in Closed
      BY <1>1, <3>2, <3>4 DEF Concludes
    <3>6. state[c] \in Null
      BY <3>1, <3>3, <3>5 DEF Kept, Null
    <3>7. Voided(p)
      BY <2>1, <3>3, <3>4, <3>6, VoidedIs
    <3> QED
      BY <1>1, <2>1, <2>3, <3>2, <3>7 DEF Concludes
  <2>4. CASE q = p
    <3>1. state[r] = "running"
      BY <1>1, <2>2, <2>4 DEF Concludes
    <3>2. state'[r] = "running"
      BY <2>1, <2>2, <2>4, <3>1
    <3> QED
      BY <3>2 DEF Closed, Null
  <2>5. CASE r # p /\ q # p
    BY <2>1, <2>5 DEF Kept
  <2> QED
    BY <2>3, <2>4, <2>5
<1>2. ASSUME NEW p, Opens(p)
      PROVE  Kept'
  <2>1. /\ Positions' = Positions /\ Unders' = Unders
        /\ \A q \in Positions : state'[q] \notin {"running", "absent"} => state'[q] = state[q]
        /\ \A q \in Positions :
              state'[q] = state[q] \/ (state[q] = "waiting" /\ state'[q] \in {"running", "absent"})
    BY <1>2, OpensState
  <2> SUFFICES ASSUME NEW r \in Positions, NEW q \in Positions, <<r, q>> \in Unders,
                      state'[q] \in {"nil", "failed"}, state'[r] \in Closed
               PROVE  state'[r] = "voided"
    BY <2>1 DEF Kept, Unders
  <2>2. state[q] \in {"nil", "failed"}
    BY <2>1
  <2>3. state[r] # "waiting"
    BY <2>2, UnderShape DEF Opened
  <2>4. state'[r] = state[r]
    BY <2>1, <2>3
  <2> QED
    BY <2>2, <2>4 DEF Kept
<1>3. ASSUME Rests
      PROVE  Kept'
  BY <1>3, Fixed DEF Rests, Kept
<1> QED
  BY <1>1, <1>2, <1>3, Kinds

LEMMA ReportedKept ==
  ASSUME Executable(request), Typed, Opened, Reported, [ExecNext]_execVars
  PROVE  Reported'
<1>1. ASSUME NEW p, NEW s, Concludes(p, s)
      PROVE  Reported'
  <2>1. /\ p \in Positions /\ state'[p] = s /\ state[p] \in {"waiting", "running"}
        /\ \A q \in Positions : q # p => state'[q] = state[q]
        /\ Positions' = Positions /\ Nilable' = Nilable
    BY <1>1, ConcludesState
  <2>2. /\ errors' = IF s = "failed" THEN [errors EXCEPT ![p] = @ + 1] ELSE errors
        /\ s = "nil" => p \in Nilable
    BY <1>1 DEF Concludes
  <2>3. errors[p] = 0
    BY <2>1 DEF Reported
  <2>4. \A q \in Positions : errors'[q] = IF q = p /\ s = "failed" THEN 1 ELSE errors[q]
    BY <2>1, <2>2, <2>3 DEF Typed
  <2> QED
    BY <2>1, <2>2, <2>3, <2>4 DEF Reported
<1>2. ASSUME NEW p, Opens(p)
      PROVE  Reported'
  <2>1. /\ Positions' = Positions /\ Nilable' = Nilable
        /\ \A q \in Positions : state'[q] \notin {"running", "absent"} => state'[q] = state[q]
        /\ \A q \in Positions :
              state'[q] = state[q] \/ (state[q] = "waiting" /\ state'[q] \in {"running", "absent"})
    BY <1>2, OpensState
  <2>2. errors' = errors
    BY <1>2 DEF Opens
  <2> QED
    BY <2>1, <2>2 DEF Reported
<1>3. ASSUME Rests
      PROVE  Reported'
  BY <1>3, Fixed DEF Rests, Reported
<1> QED
  BY <1>1, <1>2, <1>3, Kinds

LEMMA LeftKept ==
  ASSUME Executable(request), Typed, Opened, Left, [ExecNext]_execVars
  PROVE  Left'
<1>0. "waiting" \notin Closed /\ "running" \notin Closed
  BY DEF Closed, Null
<1>1. ASSUME NEW p, NEW s, Concludes(p, s)
      PROVE  Left'
  <2>1. /\ p \in Positions /\ state[p] \in {"waiting", "running"}
        /\ \A q \in Positions : q # p => state'[q] = state[q]
        /\ Positions' = Positions /\ response' = response /\ invalids' = Counted(p, s)
    BY <1>1, ConcludesState DEF Concludes
  <2>2. Roots' = Roots
    BY <2>1 DEF Roots
  <2> SUFFICES ASSUME response # "pending"
               PROVE  /\ \A r \in Roots : state'[r] \in Closed
                      /\ response = "null" <=> invalids'[Data] > 0
    BY <2>1, <2>2 DEF Left
  <2>3. p \notin Roots
    BY <1>0, <2>1 DEF Left
  <2>4. Object(p) # Data /\ Data \in Objects
    BY <2>1, <2>3, DataShape DEF Roots
  <2>5. invalids'[Data] = invalids[Data]
    BY <2>1, <2>4, CountedIs
  <2> QED
    BY <2>1, <2>3, <2>5 DEF Left, Roots
<1>2. ASSUME NEW p, Opens(p)
      PROVE  Left'
  <2>1. /\ Positions' = Positions
        /\ \A q \in Positions :
              state'[q] = state[q] \/ (state[q] = "waiting" /\ state'[q] \in {"running", "absent"})
    BY <1>2, OpensState
  <2>2. response' = response /\ invalids' = invalids
    BY <1>2 DEF Opens
  <2>3. Roots' = Roots
    BY <2>1 DEF Roots
  <2>4. response # "pending" => \A r \in Roots : state'[r] = state[r]
    BY <1>0, <2>1 DEF Left, Roots
  <2> QED
    BY <2>2, <2>3, <2>4 DEF Left
<1>3. ASSUME Rests
      PROVE  Left'
  <2>1. Positions' = Positions /\ state' = state /\ invalids' = invalids
    BY <1>3, Fixed DEF Rests
  <2>2. Roots' = Roots
    BY <2>1 DEF Roots
  <2>3. CASE response' = response
    BY <2>1, <2>2, <2>3 DEF Left
  <2>4. CASE Respond
    <3>1. \A p \in Roots : state[p] \in Closed
      BY <2>4 DEF Respond, Roots
    <3>2. response' = IF invalids[Data] > 0 THEN "null" ELSE "data"
      BY <2>4 DEF Respond
    <3> QED
      BY <2>1, <2>2, <3>1, <3>2 DEF Left
  <2> QED
    BY <1>3, <2>3, <2>4 DEF Rests
<1> QED
  BY <1>1, <1>2, <1>3, Kinds
-----------------------------------------------------------------------------
(* The model an answer is taken from.                                        *)

LEMMA TopIs ==
  ASSUME Executable(request), NEW p \in Positions
  PROVE  /\ Top(p) \in Roots
         /\ p \in Roots => Top(p) = p
         /\ p \notin Roots => <<Top(p), p>> \in Above
         /\ \A c : <<c, p>> \in Parents => p \notin Roots /\ Top(c) = Top(p)
         /\ p \notin Roots => \E c \in Positions : <<c, p>> \in Parents
<1>1. Len(p.path) \in Nat \ {0} /\ p.path \in Seq(Steps(Schema))
  BY PositionShape
<1>2. 1 \in 1..Len(p.path) /\ (p \in Roots <=> Len(p.path) = 1)
  BY <1>1 DEF Roots
<1>0. Len(p.path) # 1 =>
        1 < Len(p.path) /\ Len(p.path) > 1 /\ Len(p.path) - 1 \in 1..Len(p.path)
  <2>1. \A n \in Nat \ {0} : n # 1 => 1 < n /\ n > 1 /\ n - 1 \in 1..n
    OBVIOUS
  <2> QED
    BY <1>1, <2>1
<1>3. ~Within(p.path, 0)
  BY DEF Within
<1>4. Top(p) = Up(p, 1)
  <2>1. 1 - 1 = 0
    OBVIOUS
  <2> QED
    BY <1>3, <2>1 DEF Top, Up
<1>5. Top(p) \in Roots /\ (p \in Roots => Top(p) = p) /\ (p \notin Roots => <<Top(p), p>> \in Above)
  <2>1. /\ Up(p, 1) \in Positions /\ Len(Up(p, 1).path) = 1
        /\ 1 = Len(p.path) => Up(p, 1) = p
        /\ 1 < Len(p.path) => <<Up(p, 1), p>> \in Above
    BY <1>2, UpIsPosition
  <2>2. Up(p, 1) \in Roots
    BY <2>1 DEF Roots
  <2> QED
    BY <1>0, <1>2, <1>4, <2>1, <2>2
<1>6. ASSUME NEW c, <<c, p>> \in Parents
      PROVE  p \notin Roots /\ Top(c) = Top(p)
  <2>1. Len(p.path) > 1 /\ c = Up(p, Len(p.path) - 1)
    BY <1>6, ParentIsUp
  <2>2. Len(p.path) - 1 \in 0..Len(p.path) /\ 1 \in 0..(Len(p.path) - 1)
    BY <1>1, <2>1
  <2>3. SubSeq(SubSeq(p.path, 1, Len(p.path) - 1), 1, 1) = SubSeq(p.path, 1, 1)
    BY <1>1, <2>2, Beginning
  <2> QED
    BY <2>1, <2>3 DEF Roots, Top, Up
<1>7. p \notin Roots => \E c \in Positions : <<c, p>> \in Parents
  <2> SUFFICES ASSUME p \notin Roots PROVE \E c \in Positions : <<c, p>> \in Parents
    OBVIOUS
  <2>1. Len(p.path) > 1 /\ Len(p.path) - 1 \in 1..Len(p.path)
    BY <1>0, <1>2
  <2>2. Up(p, Len(p.path) - 1) \in Positions
    BY <2>1, UpIsPosition
  <2>3. <<Up(p, Len(p.path) - 1), p>> \in Parents
    BY <2>1, ParentIsUp
  <2> QED
    BY <2>2, <2>3
<1> QED
  BY <1>5, <1>6, <1>7

\* A field of the root is at the beginning of a path.
LEMMA RootIs ==
  ASSUME Executable(request), NEW p \in Roots
  PROVE  \E i \in DOMAIN request.paths :
           p.path[1] = request.paths[i][1] /\ p = [path |-> <<request.paths[i][1]>>, at |-> 0]
<1>1. p \in Positions /\ Len(p.path) = 1
  BY DEF Roots
<1>2. PICK c \in Range(request.paths) : 1 \in 1..Len(c) /\ p.path = SubSeq(c, 1, 1)
  BY <1>1, PositionShape
<1>3. PICK i \in DOMAIN request.paths : c = request.paths[i]
  BY DEF Range
<1>4. c \in Seq(Steps(Schema))
  <2>1. \A n \in DOMAIN request.paths : request.paths[n] \in Seq(Steps(Schema)) \ {<<>>}
    BY DEF Executable, Schema
  <2> QED
    BY <1>3, <2>1
<1>5. SubSeq(c, 1, 1)[1] = c[1] /\ Len(SubSeq(c, 1, 1)) = 1 /\ SubSeq(c, 1, 1) \in Seq(Steps(Schema))
  <2>1. Len(c) \in Nat /\ 1 \in 0..Len(c)
    BY <1>2, <1>4
  <2> QED
    BY <1>4, <2>1, Beginning
<1>6. SubSeq(c, 1, 1) = <<c[1]>>
  <2>1. c[1] \in Steps(Schema)
    BY <1>2, <1>4, ElementOfSeq
  <2>2. <<c[1]>> \in Seq(Steps(Schema)) /\ Len(<<c[1]>>) = 1 /\ <<c[1]>>[1] = c[1]
    BY <2>1
  <2>3. \A n \in 1..1 : SubSeq(c, 1, 1)[n] = <<c[1]>>[n]
    BY <1>5, <2>2
  <2> DEFINE u == SubSeq(c, 1, 1)
             w == <<c[1]>>
  <2>4. /\ u \in Seq(Steps(Schema)) /\ w \in Seq(Steps(Schema)) /\ Len(u) = Len(w)
        /\ \A n \in 1..Len(u) : u[n] = w[n]
    BY <1>5, <2>2, <2>3
  <2> HIDE DEF u, w
  <2>5. u = w
    BY <2>4, SeqEqual
  <2> QED
    BY <2>5 DEF u, w
<1>7. p = [path |-> p.path, at |-> p.at] /\ p.at = 0
  BY <1>1, PositionShape, DataShape DEF Object, Data
<1> QED
  BY <1>2, <1>3, <1>5, <1>6, <1>7

\* Of two fields of a mutation one is over before the other begins.
LEMMA OneAtATime ==
  ASSUME Executable(request), NEW p \in Roots, NEW q \in Roots, p # q, InTurn(p), InTurn(q)
  PROVE  state[p] \in Closed \/ state[q] \in Closed
<1>1. PICK i \in DOMAIN request.paths :
        p.path[1] = request.paths[i][1] /\ p = [path |-> <<request.paths[i][1]>>, at |-> 0]
  BY RootIs
<1>2. PICK j \in DOMAIN request.paths :
        q.path[1] = request.paths[j][1] /\ q = [path |-> <<request.paths[j][1]>>, at |-> 0]
  BY RootIs
<1>3. request.paths[i][1] # request.paths[j][1]
  BY <1>1, <1>2
<1>4. i \in Nat /\ j \in Nat /\ i # j
  <2>1. request.paths \in Seq(Seq(Steps(Schema)) \ {<<>>})
    BY DEF Executable, Schema
  <2> QED
    BY <1>3, <2>1
<1>5. i < j => state[p] \in Closed
  BY <1>1, <1>2, <1>3 DEF InTurn
<1>6. j < i => state[q] \in Closed
  BY <1>1, <1>2, <1>3 DEF InTurn
<1> QED
  BY <1>4, <1>5, <1>6

LEMMA ReadyInTurn ==
  ASSUME request.root = "Mutation", NEW p \in Roots, Ready(p)
  PROVE  InTurn(p)
  BY DEF Ready, InTurn, Roots

\* A resolver answers from one model, v.
Takes(p, v) ==
  /\ p \in Positions /\ state[p] = "waiting" /\ request' = request
  /\ \A a \in Positions : <<a, p>> \in Above => state[a] = "running"
  /\ \A q \in Positions : <<p, q>> \in Above => state[q] = "waiting"
  /\ state'[p] \in {"running", "value", "nil"}
  /\ \A q \in Positions : q # p =>
       state'[q] = state[q] \/ (state[q] = "waiting" /\ state'[q] = "absent" /\ q \notin Roots)
  /\ v \in Nat \ {0} /\ source' = [source EXCEPT ![p] = v]
  /\ p \notin Roots => v = source[Top(p)]
  /\ request.root = "Query" => v = 1 /\ pin' = pin
  /\ request.root = "Mutation" => pin' = IF p \in Roots THEN v ELSE pin
  /\ request.root = "Mutation" /\ p \in Roots => InTurn(p)

\* Nothing is taken: what changes is over.
Passes ==
  /\ UNCHANGED <<request, source, pin>>
  /\ \A q \in Positions :
       \/ state'[q] = state[q]
       \/ /\ state[q] \notin Closed /\ state'[q] \in Closed
          /\ state[q] = "waiting" /\ request.root = "Mutation" /\ q \in Roots => InTurn(q)
LEMMA Pinned ==
  ASSUME Executable(request), request.subgraph = "adapter", Typed, Opened, Sourced,
         NEW p \in Positions, Ready(p), Take(p)
  PROVE  \E v \in Nat \ {0} :
           /\ source' = [source EXCEPT ![p] = v] /\ store' \in Nat \ {0}
           /\ p \notin Roots => v = source[Top(p)]
           /\ request.root = "Query" => v = 1 /\ pin' = pin
           /\ request.root = "Mutation" => pin' = IF p \in Roots THEN v ELSE pin
<1>1. request.root \in {"Query", "Mutation"} /\ (Mutates(p) <=> request.root = "Mutation" /\ p \in Roots)
  BY DEF Executable, Mutates, Roots
<1>2. IF Mutates(p) THEN Advance(p) ELSE Read(p)
  BY DEF Take
<1>3. CASE Mutates(p)
  <2>1. /\ source' = [source EXCEPT ![p] = store + 1]
        /\ pin' = store + 1 /\ store' = store + 1
    BY <1>2, <1>3 DEF Advance
  <2>2. store + 1 \in Nat \ {0}
    BY DEF Typed
  <2> QED
    BY <1>1, <1>3, <2>1, <2>2
<1>4. CASE ~Mutates(p)
  <2> DEFINE c == CHOOSE q \in Positions : Beneath(q, p)
             v == IF Last(p.path).name \in Lookups THEN pin ELSE source[c]
  <2>1. source' = [source EXCEPT ![p] = v] /\ UNCHANGED <<store, pin>>
    BY <1>2, <1>4 DEF Read
  <2>2. CASE p \in Roots
    <3>1. request.root = "Query"
      BY <1>1, <1>4, <2>2
    <3>2. Last(p.path).name \in Lookups
      <4>1. p.path[1].on = "Query" /\ Len(p.path) = 1 /\ p.path \in Seq(Steps(Schema))
        BY <2>2, <3>1, PositionShape DEF Roots
      <4>2. p.path[1] \in Steps(Schema) /\ Last(p.path) = p.path[1]
        BY <4>1, ElementOfSeq DEF Last
      <4>3. Schema = Adapter
        BY DEF Schema, SchemaOf
      <4>4. p.path[1].name \in DOMAIN Adapter.fields["Query"]
        BY <4>1, <4>2, <4>3 DEF Steps
      <4> QED
        BY <4>2, <4>4, QueriesLookUp
    <3>3. v = 1 /\ pin = 1
      BY <3>1, <3>2 DEF Sourced
    <3> HIDE DEF v, c
    <3> QED
      BY <2>1, <2>2, <3>1, <3>3 DEF Typed
  <2>3. CASE p \notin Roots
    <3>1. c \in Positions /\ Beneath(c, p)
      BY <2>3, TopIs, AboveShape
    <3>2. state[c] = "running" /\ Top(c) = Top(p) /\ Top(p) \in Roots /\ Top(p) \in Positions
      BY <3>1, TopIs, AboveShape DEF Ready, Roots
    <3>3. state[Top(p)] = "running"
      BY <2>3, <3>2, TopIs, ReadyShape
    <3>4. source[c] # 0 /\ source[c] = source[Top(p)] /\ source[Top(p)] # 0
      BY <3>1, <3>2, <3>3 DEF Sourced
    <3>5. request.root = "Query" => source[Top(p)] = 1 /\ pin = 1
      BY <3>2, <3>4 DEF Sourced
    <3>6. request.root = "Mutation" => source[Top(p)] = pin
      BY <3>2, <3>3 DEF Sourced
    <3>7. v = source[Top(p)] /\ v \in Nat \ {0}
      BY <1>1, <3>2, <3>4, <3>5, <3>6 DEF Typed
    <3> HIDE DEF v, c
    <3> QED
      BY <1>1, <2>1, <2>3, <3>5, <3>7 DEF Typed
  <2> QED
    BY <2>2, <2>3
<1> QED
  BY <1>3, <1>4

LEMMA SourceKinds ==
  ASSUME Executable(request), request.subgraph = "adapter", Typed, Opened, Sourced,
         [ExecNext]_execVars
  PROVE  (\E p, v : Takes(p, v)) \/ Passes
<1>0. /\ "waiting" \notin Closed /\ "running" \notin Closed /\ "failed" \in Closed
      /\ "value" \in Closed /\ "voided" \in Closed
  BY DEF Closed, Null
<1>1. ASSUME NEW p \in Positions, ResolveSome(p) \/ ResolveNil(p)
      PROVE  \E v : Takes(p, v)
  <2>1. Ready(p) /\ Take(p) /\ request' = request
    BY <1>1 DEF ResolveSome, ResolveNil
  <2>2. /\ state[p] = "waiting"
        /\ \A a \in Positions : <<a, p>> \in Above => state[a] = "running"
        /\ \A q \in Positions : <<p, q>> \in Above => state[q] = "waiting"
    BY <2>1, ReadyShape
  <2>3. PICK v \in Nat \ {0} :
          /\ source' = [source EXCEPT ![p] = v]
          /\ p \notin Roots => v = source[Top(p)]
          /\ request.root = "Query" => v = 1 /\ pin' = pin
          /\ request.root = "Mutation" => pin' = IF p \in Roots THEN v ELSE pin
    BY <2>1, Pinned
  <2>4. /\ state'[p] \in {"running", "value", "nil"}
        /\ \A q \in Positions : q # p =>
             state'[q] = state[q] \/ (state[q] = "waiting" /\ state'[q] = "absent" /\ q \notin Roots)
    <3>1. CASE ResolveNil(p)
      BY <3>1 DEF ResolveNil, Typed
    <3>2. CASE ResolveSome(p) /\ Field(p).of = Leaf
      BY <3>2 DEF ResolveSome, Typed
    <3>3. CASE ResolveSome(p) /\ Field(p).of # Leaf
      <4>1. PICK there :
              state' = [q \in Positions |->
                          IF q = p THEN "running"
                          ELSE IF Beneath(p, q) /\ q.at \notin there THEN "absent"
                          ELSE state[q]]
        BY <3>3 DEF ResolveSome
      <4>2. ASSUME NEW q \in Positions, Beneath(p, q)
            PROVE  state[q] = "waiting" /\ q \notin Roots
        BY <2>2, <4>2, AboveShape, TopIs
      <4> QED
        BY <4>1, <4>2
    <3> QED
      BY <1>1, <3>1, <3>2, <3>3
  <2>5. request.root = "Mutation" /\ p \in Roots => InTurn(p)
    BY <2>1, ReadyInTurn
  <2> QED
    BY <2>1, <2>2, <2>3, <2>4, <2>5 DEF Takes
<1>2. ASSUME NEW p \in Positions, ResolveFails(p)
      PROVE  Passes
  <2>1. Ready(p) /\ state' = [state EXCEPT ![p] = "failed"] /\ UNCHANGED <<request, source, pin>>
    BY <1>2 DEF ResolveFails
  <2>2. state[p] = "waiting"
    BY <2>1 DEF Ready
  <2>3. request.root = "Mutation" /\ p \in Roots => InTurn(p)
    BY <2>1, ReadyInTurn
  <2> QED
    BY <1>0, <2>1, <2>2, <2>3 DEF Passes, Typed
<1>3. ASSUME NEW p \in Positions, Compose(p)
      PROVE  Passes
  <2>1. /\ state[p] = "running" /\ UNCHANGED <<request, source, pin>>
        /\ state' = [state EXCEPT ![p] = IF Voided(p) THEN "voided" ELSE "value"]
    BY <1>3 DEF Compose
  <2> QED
    BY <1>0, <2>1 DEF Passes, Typed
<1>4. ASSUME Respond \/ ChangeModel \/ UNCHANGED execVars
      PROVE  Passes
  BY <1>4 DEF Respond, ChangeModel, execVars, Passes
<1> QED
  BY <1>1, <1>2, <1>3, <1>4 DEF ExecNext
LEMMA RootAt ==
  ASSUME Executable(request), NEW i \in DOMAIN request.paths
  PROVE  [path |-> <<request.paths[i][1]>>, at |-> 0] \in Positions
<1> DEFINE c == request.paths[i]
           At(e) == {[path |-> SubSeq(c, 1, e), at |-> b] : b \in Elements(SubSeq(c, 1, e))}
<1>1. c \in Seq(Steps(Schema)) /\ c # <<>> /\ c \in Range(request.paths)
  <2>1. \A n \in DOMAIN request.paths : request.paths[n] \in Seq(Steps(Schema)) \ {<<>>}
    BY DEF Executable, Schema
  <2> QED
    BY <2>1 DEF Range
<1> HIDE DEF c
<1>2. 1 \in 1..Len(c) /\ 1 \in 0..Len(c)
  BY <1>1
<1>3. /\ SubSeq(c, 1, 1) \in Seq(Steps(Schema)) /\ Len(SubSeq(c, 1, 1)) = 1
      /\ SubSeq(c, 1, 1)[1] = c[1] /\ c[1] \in Steps(Schema)
  BY <1>1, <1>2, Beginning, ElementOfSeq
<1> DEFINE u == SubSeq(c, 1, 1)
           w == <<c[1]>>
<1>4. u = w
  <2>1. /\ u \in Seq(Steps(Schema)) /\ w \in Seq(Steps(Schema)) /\ Len(u) = Len(w)
        /\ \A n \in 1..Len(u) : u[n] = w[n]
    BY <1>3
  <2> HIDE DEF u, w
  <2> QED
    BY <2>1, SeqEqual
<1>5. Elements(u) = {0}
  <2>1. ~Within(u, 0)
    BY DEF Within
  <2>2. Len(u) - 1 = 0
    BY <1>3
  <2> QED
    BY <2>1, <2>2, ElementsWithin
<1>6. [path |-> w, at |-> 0] \in At(1)
  BY <1>4, <1>5
<1>7. At(1) \subseteq UNION {At(e) : e \in 1..Len(c)}
  <2> HIDE DEF At
  <2> QED
    BY <1>2
<1>8. UNION {At(e) : e \in 1..Len(c)} \subseteq Positions
  BY <1>1 DEF Positions
<1> QED
  BY <1>6, <1>7, <1>8 DEF c

LEMMA SourcedKept ==
  ASSUME Executable(request), request.subgraph = "adapter", Typed, Opened, Sourced,
         [ExecNext]_execVars
  PROVE  Sourced'
<1>0. /\ "waiting" \notin Closed /\ "running" \notin Closed
      /\ request.root \in {"Query", "Mutation"}
  BY DEF Closed, Null, Executable
<1>1. \A p \in Positions : Top(p) \in Roots /\ Top(p) \in Positions /\ (p \in Roots => Top(p) = p)
  BY TopIs DEF Roots
<1>2. Roots \subseteq Positions
  BY DEF Roots
<1>3. ASSUME request' = request,
             \A q \in Positions : state[q] \in Closed => state'[q] \in Closed,
             NEW p, InTurn(p)
      PROVE  InTurn(p)'
  BY <1>3, RootAt DEF InTurn
<1>4. ASSUME NEW p, NEW v, Takes(p, v)
      PROVE  Sourced'
  <2>1. /\ p \in Positions /\ state[p] = "waiting" /\ request' = request
        /\ state'[p] \in {"running", "value", "nil"} /\ v \in Nat \ {0}
        /\ \A q \in Positions : q # p => source'[q] = source[q]
        /\ source'[p] = v
    BY <1>4 DEF Takes, Typed
  <2>2. \A q \in Positions : q # p =>
          state'[q] = state[q] \/ (state[q] = "waiting" /\ state'[q] = "absent" /\ q \notin Roots)
    BY <1>4 DEF Takes
  <2>3. Positions' = Positions /\ Roots' = Roots
    BY <2>1, Fixed DEF Roots
  <2>4. ASSUME NEW q \in Positions, source'[q] # 0
        PROVE  state'[q] # "waiting" /\ source'[q] = source'[Top(q)]
    <3>1. CASE q = p
      <4>1. p \in Roots => Top(q) = p
        BY <1>1, <3>1
      <4>2. p \notin Roots => Top(q) # p /\ v = source[Top(q)]
        BY <1>1, <1>4, <3>1 DEF Takes
      <4> QED
        BY <1>1, <2>1, <3>1, <4>1, <4>2
    <3>2. CASE q # p
      <4>1. source[q] # 0 /\ state[q] # "waiting" /\ source[q] = source[Top(q)]
        BY <2>1, <2>4, <3>2 DEF Sourced
      <4>2. Top(q) # p
        <5>1. Top(q) = p => <<p, q>> \in Above
          BY <1>1, <3>2, TopIs
        <5> QED
          BY <1>4, <4>1, <5>1 DEF Takes
      <4> QED
        BY <1>1, <2>1, <2>2, <3>2, <4>1, <4>2
    <3> QED
      BY <3>1, <3>2
  <2>5. ASSUME NEW q \in Positions, state'[q] = "running"
        PROVE  source'[q] # 0
    BY <2>1, <2>2, <2>5 DEF Sourced
  <2>6. ASSUME request.root = "Query"
        PROVE  pin' = 1 /\ \A q \in Positions : source'[q] \in {0, 1}
    BY <1>4, <2>1, <2>6 DEF Takes, Sourced
  <2>7. ASSUME request.root = "Mutation", NEW q \in Roots
        PROVE  /\ state'[q] = "running" => source'[q] = pin'
               /\ state'[q] # "waiting" => InTurn(q)'
    <3>1. \A r \in Positions : state[r] \in Closed => state'[r] \in Closed
      BY <1>0, <2>1, <2>2
    <3>2. pin' = IF p \in Roots THEN v ELSE pin
      BY <1>4, <2>7 DEF Takes
    <3>3. CASE q = p
      BY <1>3, <1>4, <2>1, <2>7, <3>1, <3>2, <3>3 DEF Takes
    <3>4. CASE q # p
      <4>1. state'[q] = state[q]
        BY <1>2, <2>2, <3>4
      <4>2. state[q] # "waiting" => InTurn(q)
        BY <2>7 DEF Sourced
      <4>3. state[q] = "running" => p \notin Roots
        <5>1. p \in Roots => InTurn(p)
          BY <1>4, <2>7 DEF Takes
        <5> QED
          BY <1>0, <2>1, <3>4, <4>2, <5>1, OneAtATime
      <4>4. state[q] = "running" => source[q] = pin
        BY <2>7 DEF Sourced
      <4> QED
        BY <1>2, <1>3, <2>1, <3>1, <3>2, <3>4, <4>1, <4>2, <4>3, <4>4
    <3> QED
      BY <3>3, <3>4
  <2> QED
    BY <2>1, <2>3, <2>4, <2>5, <2>6, <2>7 DEF Sourced
<1>5. ASSUME Passes
      PROVE  Sourced'
  <2>1. UNCHANGED <<request, source, pin>>
    BY <1>5 DEF Passes
  <2>2. \A q \in Positions :
          \/ state'[q] = state[q]
          \/ /\ state[q] \notin Closed /\ state'[q] \in Closed
             /\ state[q] = "waiting" /\ request.root = "Mutation" /\ q \in Roots => InTurn(q)
    BY <1>5 DEF Passes
  <2>3. Positions' = Positions /\ Roots' = Roots
    BY <2>1, Fixed DEF Roots
  <2>4. \A q \in Positions : source[q] # 0 => state'[q] # "waiting" /\ source[q] = source[Top(q)]
    BY <1>0, <2>2 DEF Sourced
  <2>5. \A q \in Positions : state'[q] = "running" => source[q] # 0
    BY <1>0, <2>2 DEF Sourced
  <2>6. ASSUME request.root = "Mutation", NEW q \in Roots
        PROVE  /\ state'[q] = "running" => source[q] = pin
               /\ state'[q] # "waiting" => InTurn(q)'
    <3>1. \A r \in Positions : state[r] \in Closed => state'[r] \in Closed
      BY <2>2
    <3>2. state'[q] = "running" => state[q] = "running"
      BY <1>0, <1>2, <2>2
    <3>3. state[q] # "waiting" => InTurn(q)
      BY <2>6 DEF Sourced
    <3>4. state'[q] # "waiting" => InTurn(q)
      BY <1>2, <2>2, <2>6, <3>3
    <3>5. InTurn(q) => InTurn(q)'
      BY <1>3, <2>1, <3>1
    <3> QED
      BY <2>6, <3>2, <3>4, <3>5 DEF Sourced
  <2>7. request.root = "Query" => pin = 1 /\ \A q \in Positions : source[q] \in {0, 1}
    BY DEF Sourced
  <2> QED
    BY <2>1, <2>3, <2>4, <2>5, <2>6, <2>7 DEF Sourced
<1> QED
  BY <1>4, <1>5, SourceKinds
LEMMA ModelKept ==
  ASSUME Executable(request), Typed, Opened, SourceInv, [ExecNext]_execVars
  PROVE  store' \in Nat \ {0} /\ pin' \in Nat \ {0} /\ source' \in [Positions -> Nat]
<1>1. ASSUME NEW p \in Positions, Ready(p), Take(p)
      PROVE  store' \in Nat \ {0} /\ pin' \in Nat \ {0} /\ source' \in [Positions -> Nat]
  <2>1. CASE request.subgraph # "adapter"
    BY <1>1, <2>1 DEF Take, Typed
  <2>2. CASE request.subgraph = "adapter"
    <3>1. Sourced /\ request.root \in {"Query", "Mutation"}
      BY <2>2 DEF SourceInv, Executable
    <3>2. PICK v \in Nat \ {0} :
            /\ source' = [source EXCEPT ![p] = v] /\ store' \in Nat \ {0}
            /\ request.root = "Query" => pin' = pin
            /\ request.root = "Mutation" => pin' = IF p \in Roots THEN v ELSE pin
      BY <1>1, <2>2, <3>1, Pinned
    <3> QED
      BY <3>1, <3>2 DEF Typed
  <2> QED
    BY <2>1, <2>2
<1>2. ASSUME NEW p \in Positions, ResolveSome(p) \/ ResolveNil(p)
      PROVE  Ready(p) /\ Take(p)
  BY <1>2 DEF ResolveSome, ResolveNil
<1>3. ASSUME NEW p \in Positions, ResolveFails(p) \/ Compose(p)
      PROVE  UNCHANGED <<store, pin, source>>
  BY <1>3 DEF ResolveFails, Compose
<1>4. ASSUME ChangeModel
      PROVE  store' \in Nat \ {0} /\ UNCHANGED <<pin, source>>
  BY <1>4 DEF ChangeModel, Typed
<1>5. ASSUME Respond \/ UNCHANGED execVars
      PROVE  UNCHANGED <<store, pin, source>>
  BY <1>5 DEF Respond, execVars
<1>6. UNCHANGED <<store, pin, source>> =>
        store' \in Nat \ {0} /\ pin' \in Nat \ {0} /\ source' \in [Positions -> Nat]
  BY DEF Typed
<1>7. pin \in Nat \ {0} /\ source \in [Positions -> Nat]
  BY DEF Typed
<1> QED
  BY <1>1, <1>2, <1>3, <1>4, <1>5, <1>6, <1>7 DEF ExecNext

LEMMA TypedKept ==
  ASSUME Executable(request), Typed, Opened, SourceInv, [ExecNext]_execVars
  PROVE  Typed'
<1>1. store' \in Nat \ {0} /\ pin' \in Nat \ {0} /\ source' \in [Positions -> Nat]
  BY ModelKept
<1>2. ASSUME NEW p, NEW s, Concludes(p, s)
      PROVE  Typed'
  <2>1. /\ p \in Positions /\ s \in Closed /\ Positions' = Positions /\ Objects' = Objects
        /\ request' = request /\ response' = response
    BY <1>2, ConcludesState DEF Concludes
  <2>2. state' \in [Positions -> {"waiting", "running"} \cup Closed]
    BY <1>2, <2>1 DEF Concludes, Typed
  <2>3. invalids' \in [Objects -> Nat]
    BY <1>2, <2>1, CountedIs DEF Concludes
  <2>4. errors' \in [Positions -> Nat]
    BY <1>2, <2>1 DEF Concludes, Typed
  <2>5. Closed' = Closed
    BY DEF Closed, Null
  <2> QED
    BY <1>1, <2>1, <2>2, <2>3, <2>4, <2>5 DEF Typed
<1>3. ASSUME NEW p, Opens(p)
      PROVE  Typed'
  <2>1. /\ Positions' = Positions /\ Objects' = Objects
        /\ state' \in [Positions -> {"waiting", "running"} \cup Closed]
        /\ UNCHANGED <<request, response, invalids, errors>>
    BY <1>3, OpensState DEF Opens
  <2> QED
    BY <1>1, <2>1 DEF Typed, Closed, Null
<1>4. ASSUME Rests
      PROVE  Typed'
  <2>1. /\ Positions' = Positions /\ Objects' = Objects
        /\ UNCHANGED <<request, state, invalids, errors>>
    BY <1>4, Fixed DEF Rests
  <2>2. response' \in {"pending", "data", "null"}
    BY <1>4 DEF Rests, Respond, Typed
  <2> QED
    BY <1>1, <2>1, <2>2 DEF Typed, Closed, Null
<1> QED
  BY <1>2, <1>3, <1>4, Kinds
-----------------------------------------------------------------------------
(* The invariant, of any operations that are executable. *)

ExecInv == Executable(request) /\ NullInv /\ SourceInv

LEMMA Begun ==
  ASSUME \A r \in Requests : Executable(r), ExecInit
  PROVE  ExecInv
<1>1. /\ request \in Requests /\ Executable(request)
      /\ state = [p \in Positions |-> "waiting"] /\ invalids = [o \in Objects |-> 0]
      /\ errors = [p \in Positions |-> 0] /\ store = 1 /\ pin = 1
      /\ source = [p \in Positions |-> 0] /\ response = "pending"
  BY DEF ExecInit
<1>2. "waiting" \notin Closed /\ "waiting" \notin Null
  BY DEF Closed, Null
<1>3. Typed
  BY <1>1 DEF Typed
<1>4. Opened
  BY <1>1, AboveShape DEF Opened, Above
<1>5. Tallied
  BY <1>1, <1>2 DEF Tallied, Musts
<1>6. Grounded /\ Kept /\ Reported /\ Left
  BY <1>1, <1>2 DEF Grounded, Kept, Unders, Reported, Left
<1>7. Sourced
  BY <1>1 DEF Sourced, Roots
<1> QED
  BY <1>1, <1>3, <1>4, <1>5, <1>6, <1>7 DEF ExecInv, NullInv, SourceInv

LEMMA Continued ==
  ASSUME ExecInv, [ExecNext]_execVars
  PROVE  ExecInv'
<1>1. /\ Executable(request) /\ Typed /\ Opened /\ Tallied /\ Grounded /\ Kept /\ Reported /\ Left
      /\ SourceInv
  BY DEF ExecInv, NullInv
<1>2. request' = request
  BY Kinds, <1>1 DEF Concludes, Opens, Rests
<1>3. Executable(request)'
  BY <1>1, <1>2
<1>4. Typed' /\ Opened' /\ Tallied'
  BY <1>1, TypedKept, OpenedKept, TalliedKept
<1>5. Grounded' /\ Kept'
  BY <1>1, GroundedKept, KeptKept
<1>6. Reported' /\ Left'
  BY <1>1, ReportedKept, LeftKept
<1>7. SourceInv'
  <2>1. request.subgraph = "adapter" => Sourced'
    BY <1>1, SourcedKept DEF SourceInv
  <2> QED
    BY <1>2, <2>1 DEF SourceInv
<1> QED
  BY <1>3, <1>4, <1>5, <1>6, <1>7 DEF ExecInv, NullInv

LEMMA ExecInvariant ==
  ASSUME \A r \in Requests : Executable(r)
  PROVE  ExecSpec => []ExecInv
<1>1. ExecInit => ExecInv
  BY Begun
<1>2. ExecInv /\ [ExecNext]_execVars => ExecInv'
  BY Continued
<1> QED
  BY <1>1, <1>2, PTL DEF ExecSpec

LEMMA NullsStopThen ==
  ASSUME ExecInv
  PROVE  NullsStop
<1>1. /\ Executable(request) /\ Typed /\ Opened /\ Tallied /\ Grounded /\ Kept /\ Reported /\ Left
  BY DEF ExecInv, NullInv
<1> SUFFICES ASSUME response # "pending" PROVE NullsStop
  BY DEF NullsStop
<1>2. (\A p \in Roots : state[p] \in Closed) /\ (response = "null" <=> invalids[Data] > 0)
  BY <1>1 DEF Left
<1>3. ASSUME NEW p \in Positions
      PROVE  /\ state[p] = "voided" <=>
                  \E q \in Positions : Under(p, q) /\ state[q] \in {"nil", "failed"}
             /\ errors[p] = IF state[p] = "failed" THEN 1 ELSE 0
  <2>1. state[p] = "voided" =>
          \E q \in Positions : Under(p, q) /\ state[q] \in {"nil", "failed"}
    BY <1>1 DEF Grounded, Unders
  <2>2. ASSUME NEW q \in Positions, Under(p, q), state[q] \in {"nil", "failed"}
        PROVE  state[p] = "voided"
    <3>1. <<p, q>> \in Unders /\ <<p, q>> \in Above
      BY <1>1, <2>2, UnderShape DEF Unders
    <3>2. state[p] \in {"running", "value", "voided"}
      BY <1>1, <2>2, <3>1 DEF Opened
    <3>3. state[p] # "running"
      <4>1. CASE p \in Roots
        BY <1>2, <4>1 DEF Closed, Null
      <4>2. CASE p \notin Roots
        <5>1. <<Top(p), p>> \in Above /\ state[Top(p)] \in Closed
          BY <1>1, <1>2, <4>2, TopIs
        <5>2. state[p] = "running" => state[Top(p)] = "running"
          BY <1>1, <5>1 DEF Opened
        <5> QED
          BY <5>1, <5>2 DEF Closed, Null
      <4> QED
        BY <4>1, <4>2
    <3>4. state[p] \in Closed
      BY <3>2, <3>3 DEF Closed, Null
    <3> QED
      BY <1>1, <2>2, <3>1, <3>4 DEF Kept
  <2> QED
    BY <1>1, <2>1, <2>2 DEF Reported
<1>4. response = "null" <=>
         \E p \in Positions :
           Len(p.path) = 1 /\ Is(p, "required") /\ state[p] \in {"failed", "voided"}
  <2>1. invalids[Data] > 0 <=> \E q \in Musts : Object(q) = Data /\ state[q] \in Null
    BY <1>1, DataShape DEF Tallied
  <2>2. ASSUME NEW q \in Positions
        PROVE  q \in Musts /\ Object(q) = Data /\ state[q] \in Null <=>
                 Len(q.path) = 1 /\ Is(q, "required") /\ state[q] \in {"failed", "voided"}
    <3>1. Object(q) = Data <=> Len(q.path) = 1
      BY <1>1, DataShape
    <3>2. q \in Musts => state[q] # "nil"
      BY <1>1, TablesShape DEF Reported
    <3> QED
      BY <3>1, <3>2 DEF Musts, Null
  <2> QED
    BY <1>2, <2>1, <2>2 DEF Musts
<1> QED
  BY <1>3, <1>4 DEF NullsStop

LEMMA OneModelThen ==
  ASSUME ExecInv
  PROVE  OneModelPerField
<1>1. Executable(request) /\ SourceInv
  BY DEF ExecInv
<1> SUFFICES ASSUME request.subgraph = "adapter", NEW p \in Positions, source[p] # 0
             PROVE  /\ source[p] = source[Top(p)]
                    /\ request.root = "Query" => source[p] = 1
  BY DEF OneModelPerField, Top
<1> QED
  BY <1>1 DEF SourceInv, Sourced

\* A failure costs what the schema says it costs and no more: when an answer
\* leaves, a place is null only for something below it that is and must not
\* be, every such place is, and each failure is reported once.  (The counts of
\* Invalids and the nulls they make in the executors of generated.go.)
THEOREM NullsStopWhereTheSchemaSays ==
  ASSUME \A r \in Requests : Executable(r)
  PROVE  ExecSpec => []NullsStop
<1>1. ExecInv => NullsStop
  BY NullsStopThen
<1> QED
  BY <1>1, ExecInvariant, PTL

\* SR-22: whatever other operations change meanwhile, an answer of the adapter
\* is taken from the model of the beginning, and what is selected on one of
\* several mutations from the model that mutation made.
THEOREM EachFieldReadsOneModel ==
  ASSUME \A r \in Requests : Executable(r)
  PROVE  ExecSpec => []OneModelPerField
<1>1. ExecInv => OneModelPerField
  BY OneModelThen
<1> QED
  BY <1>1, ExecInvariant, PTL

\* Both, which is what the generated code promises of an answer.
THEOREM AnswersAreAsDeclared ==
  ASSUME \A r \in Requests : Executable(r)
  PROVE  ExecSpec => []AnsweredAsDeclared
<1>1. ExecInv => AnsweredAsDeclared
  BY NullsStopThen, OneModelThen DEF AnsweredAsDeclared
<1> QED
  BY <1>1, ExecInvariant, PTL

-----------------------------------------------------------------------------
(* The entities of one field. *)

USE EntitiesAssumption

\* The counters are cardinalities of finite sets.
LEMMA RunningFinite ==
    ASSUME TypeOK, NEW t \in TypeNames
    PROVE  IsFiniteSet(Running(t)) /\ IsFiniteSet(group[t])
<1>1. IsFiniteSet(1 .. N)
    BY FS_Interval
<1>2. group[t] \subseteq 1 .. N
    BY DEF TypeOK, Places
<1>. QED
    BY <1>1, <1>2, FS_Subset DEF Running

LEMMA UnfinishedFinite == IsFiniteSet(Unfinished) /\ IsFiniteSet(Groups)
<1>1. IsFiniteSet(TypeNames)
    BY FS_Singleton, FS_Union DEF TypeNames
<1>. QED
    BY <1>1, FS_Subset DEF Unfinished, Groups

\* The null entity is the element of no type.
LEMMA NoneIsNoEntity == None \notin Entity
    BY DEF None, Entity

\* What a subgraph finds is the element asked for, at the version it reads.
LEMMA FindsWhatWasAsked ==
    ASSUME TypeOK, NEW i \in Places, rep[i].type # NoType
    PROVE  /\ Find(rep[i]) \in Entity \cup {None}
           /\ Find(rep[i]) = None \/ Fits(Find(rep[i]), i)
<1>. DEFINE r == rep[i]
<1>1. r \in Representation /\ subgraph \in Subgraphs /\ version \in Nat
      /\ pinned \in Nat /\ pinned <= version
    BY DEF TypeOK
<1>2. Keyed(r) => r.id \in Ids
    BY <1>1 DEF Keyed, Representation
<1>3. ASSUME NEW v \in Nat, r.type \in Types, Keyed(r)
      PROVE  Answered(r, v) \in Entity /\ Answered(r, v).type = r.type
             /\ Answered(r, v).id = r.id /\ Answered(r, v).version = v
    BY <1>2, <1>3 DEF Answered, Entity
<1>4. CASE subgraph = "adapter"
  <2>1. Find(r) = AdapterFinds(r)
    BY <1>4 DEF Find
  <2>2. Resolves("adapter") = Types
    BY DEF Resolves
  <2>. QED
    BY <1>1, <1>3, <1>4, <2>1, <2>2 DEF AdapterFinds, Fits
<1>5. CASE subgraph = "document"
  <2>1. Find(r) = DocumentFinds(r)
    BY <1>5 DEF Find
  <2>2. Resolves("document") \subseteq Types
    BY DEF Resolves
  <2>. QED
    BY <1>1, <1>3, <1>5, <2>1, <2>2 DEF DocumentFinds, Fits
<1>6. CASE subgraph = "capacity"
  <2>1. Find(r) = CapacityFinds(r)
    BY <1>6 DEF Find
  <2>2. Resolves("capacity") \subseteq Types
    BY DEF Resolves
  <2>. QED
    BY <1>1, <1>3, <1>6, <2>1, <2>2 DEF CapacityFinds, Fits
<1>. QED
    BY <1>1, <1>4, <1>5, <1>6 DEF Subgraphs

\* Nothing has been looked at, nothing runs.
LEMMA InitIInv == Init => IInv
<1> SUFFICES ASSUME Init PROVE IInv
  OBVIOUS
<1> USE DEF Init
<1>1. TypeOK
  BY DEF TypeOK
<1>2. GroupsByType
  BY DEF GroupsByType
<1>3. StartsInOrder
  BY DEF StartsInOrder
<1>4. WorkersOfGroups
  BY DEF WorkersOfGroups, Representation
<1>5. Settles
  BY DEF Settles, Places
<1>6. CountersCount
  BY DEF CountersCount
<1> QED
  BY <1>1, <1>2, <1>3, <1>4, <1>5, <1>6 DEF IInv

\* One more place joins its group, or is reported for having no type.
LEMMA GroupIInv == IInv /\ Group => IInv'
<1> SUFFICES ASSUME IInv, Group PROVE IInv'
  OBVIOUS
<1> USE DEF IInv
<1>1. next \in Places /\ next' = next + 1 /\ caller = "grouping"
      /\ caller' = "grouping" /\ started' = started /\ worker' = worker
      /\ list' = list /\ found' = found /\ rep' = rep /\ inner' = inner
      /\ outer' = outer /\ version' = version /\ pinned' = pinned
      /\ subgraph' = subgraph /\ rep[next] \in Representation
  BY DEF Group, TypeOK, Places
<1>2. TypeOK'
  <2>1. next' \in 1 .. N + 1
    BY <1>1 DEF Places
  <2>2. CASE rep[next].type = NoType
    <3>1. group' = group /\ reported' \in [Places -> Nat]
      BY <1>1, <2>2 DEF Group, TypeOK
    <3>. QED
      BY <1>1, <2>1, <3>1 DEF TypeOK
  <2>3. CASE rep[next].type # NoType
    <3>1. reported' = reported
      BY <1>1, <2>3 DEF Group
    <3>2. group' \in [TypeNames -> SUBSET Places]
      BY <1>1, <2>3 DEF Group, TypeOK
    <3>. QED
      BY <1>1, <2>1, <3>1, <3>2 DEF TypeOK
  <2>. QED
    BY <2>2, <2>3
<1>3. GroupsByType'
  <2>1. group' = [t \in TypeNames |->
                    IF t = rep[next].type THEN group[t] \cup {next} ELSE group[t]]
    <3>. group \in [TypeNames -> SUBSET Places]
      BY DEF TypeOK
    <3>1. CASE rep[next].type = NoType
      <4>1. group' = group
        BY <3>1 DEF Group
      <4>2. rep[next].type \notin TypeNames
        BY <3>1 DEF TypeNames, NoType, OtherType
      <4>3. group = [t \in TypeNames |-> group[t]]
        OBVIOUS
      <4>4. \A t \in TypeNames : t # rep[next].type
        BY <4>2
      <4>. QED
        BY <4>1, <4>3, <4>4
    <3>2. CASE rep[next].type # NoType
      BY <1>1, <3>2 DEF Group, TypeOK, Representation
    <3>. QED
      BY <3>1, <3>2
  <2>2. ASSUME NEW t \in TypeNames
        PROVE  {i \in 1 .. next' - 1 : rep'[i].type = t} =
               IF t = rep[next].type THEN group[t] \cup {next} ELSE group[t]
    BY <1>1, <2>2 DEF GroupsByType, TypeOK, Places
  <2>. QED
    BY <2>1, <2>2 DEF GroupsByType
<1>4. StartsInOrder'
  BY <1>1 DEF StartsInOrder
<1>5. WorkersOfGroups'
  BY <1>1 DEF WorkersOfGroups
<1>6. Settles'
  <2>1. ASSUME NEW i \in Places
        PROVE  worker[i] = "none"
    BY <1>1, <2>1 DEF WorkersOfGroups, StartsInOrder, TypeOK, Representation
  <2>2. ASSUME NEW i \in Places
        PROVE  reported'[i] =
                 IF i < next' /\ rep'[i].type = NoType THEN 1 ELSE 0
    <3>1. reported[i] = IF i < next /\ rep[i].type = NoType THEN 1 ELSE 0
      BY <2>1, <2>2 DEF Settles
    <3>2. reported'[i] = IF i = next /\ rep[next].type = NoType
                         THEN reported[i] + 1 ELSE reported[i]
      BY <1>1, <2>2 DEF Group, TypeOK
    <3>. QED
      BY <1>1, <2>2, <3>1, <3>2 DEF Places, TypeOK
  <2>. QED
    BY <1>1, <2>1, <2>2 DEF Settles
<1>7. CountersCount'
  BY <1>1 DEF CountersCount, StartsInOrder
<1> QED
  BY <1>2, <1>3, <1>4, <1>5, <1>6, <1>7

\* The counter of the groups is their number.
LEMMA DispatchIInv == IInv /\ Dispatch => IInv'
<1> SUFFICES ASSUME IInv, Dispatch PROVE IInv'
  OBVIOUS
<1> USE DEF IInv, Dispatch
<1>1. Groups' = Groups
  BY DEF Groups
<1>2. TypeOK'
  BY UnfinishedFinite, FS_CardinalityType DEF TypeOK
<1>3. GroupsByType' /\ StartsInOrder' /\ WorkersOfGroups'
  BY <1>1 DEF GroupsByType, StartsInOrder, WorkersOfGroups
<1>4. Settles'
  BY DEF Settles, Fits
<1>5. CountersCount'
  <2>1. Unfinished' = Groups
    BY <1>1 DEF Unfinished, StartsInOrder, Groups
  <2>2. \A t \in TypeNames : Running(t)' = Running(t)
    BY DEF Running
  <2>. QED
    BY <2>1, <2>2 DEF CountersCount
<1> QED
  BY <1>2, <1>3, <1>4, <1>5

\* A group counts its places and every one of them gets its goroutine.
LEMMA StartGroupIInv ==
  ASSUME IInv, NEW t \in TypeNames, StartGroup(t)
  PROVE  IInv'
<1> USE DEF IInv, StartGroup
<1>1. Groups' = Groups
  BY DEF Groups
<1>2. \A i \in Places : worker[i] = "none" \/ i \notin group[t]
  BY DEF WorkersOfGroups, GroupsByType, TypeOK
<1>3. TypeOK'
  BY RunningFinite, FS_CardinalityType DEF TypeOK
<1>4. GroupsByType' /\ StartsInOrder'
  BY <1>1 DEF GroupsByType, StartsInOrder, TypeOK
<1>5. WorkersOfGroups'
  <2>1. \A i \in Places : i \in group[t] <=> rep[i].type = t
    BY DEF GroupsByType, StartsInOrder, Places
  <2>2. t # NoType
    BY DEF TypeNames, NoType, OtherType
  <2>. QED
    BY <2>1, <2>2 DEF WorkersOfGroups, TypeOK, Representation
<1>6. Settles'
  BY <1>2 DEF Settles, Fits, TypeOK
<1>7. CountersCount'
  <2>1. Running(t)' = group[t]
    BY DEF Running, TypeOK
  <2>2. ASSUME NEW u \in TypeNames, u # t
        PROVE  Running(u)' = Running(u)
    <3>1. group[u] \subseteq Places /\ group[u] \cap group[t] = {}
      BY <2>2 DEF GroupsByType, TypeOK
    <3>. QED
      BY <3>1 DEF Running
  <2>3. Unfinished' = Unfinished
    BY <1>1 DEF Unfinished, Groups, TypeOK
  <2>4. inner'[t] = Cardinality(group[t]) /\ started'[t] = "yes"
        /\ \A u \in TypeNames : u # t => inner'[u] = inner[u] /\ started'[u] = started[u]
    BY DEF TypeOK
  <2>. QED
    BY <2>1, <2>2, <2>3, <2>4 DEF CountersCount
<1> QED
  BY <1>3, <1>4, <1>5, <1>6, <1>7

\* The goroutine holds what FindsWhatWasAsked says of it.
LEMMA ResolveIInv ==
  ASSUME IInv, NEW i \in Places, Resolve(i)
  PROVE  IInv'
<1> USE DEF IInv, Resolve
<1>1. Groups' = Groups /\ Unfinished' = Unfinished
  BY DEF Groups, Unfinished
<1>2. rep[i].type # NoType
  BY DEF WorkersOfGroups
<1>3. Find(rep[i]) \in Entity \cup {None} /\ (Find(rep[i]) = None \/ Fits(Find(rep[i]), i))
  BY <1>2, FindsWhatWasAsked
<1>4. TypeOK'
  BY <1>3 DEF TypeOK
<1>5. GroupsByType' /\ StartsInOrder' /\ WorkersOfGroups'
  BY <1>1 DEF GroupsByType, StartsInOrder, WorkersOfGroups, TypeOK
<1>6. Settles'
  BY <1>3 DEF Settles, Fits, TypeOK
<1>7. CountersCount'
  <2>1. \A u \in TypeNames : Running(u)' = Running(u)
    BY DEF Running, TypeOK
  <2>. QED
    BY <1>1, <2>1 DEF CountersCount
<1> QED
  BY <1>4, <1>5, <1>6, <1>7

\* The answer or the error of a place, and of no other, is settled.
LEMMA WriteIInv ==
  ASSUME IInv, NEW i \in Places, Write(i)
  PROVE  IInv'
<1> USE DEF IInv, Write
<1>1. Groups' = Groups /\ Unfinished' = Unfinished
  BY DEF Groups, Unfinished
<1>2. rep[i].type # NoType
  BY DEF WorkersOfGroups
<1>3. list[i] = None /\ reported[i] = 0
  BY <1>2 DEF Settles
<1>4. TypeOK'
  BY <1>3 DEF TypeOK
<1>5. GroupsByType' /\ StartsInOrder' /\ WorkersOfGroups'
  BY <1>1 DEF GroupsByType, StartsInOrder, WorkersOfGroups, TypeOK
<1>6. Settles'
  <2>1. CASE found[i] = None
    BY <1>3, <2>1 DEF Settles, Fits, TypeOK
  <2>2. CASE found[i] # None
    BY <1>3, <2>2 DEF Settles, Fits, TypeOK
  <2>. QED
    BY <2>1, <2>2
<1>7. CountersCount'
  <2>1. \A u \in TypeNames : Running(u)' = Running(u)
    BY DEF Running, TypeOK
  <2>. QED
    BY <1>1, <2>1 DEF CountersCount
<1> QED
  BY <1>4, <1>5, <1>6, <1>7

\* One goroutine less runs, and the counter says so.
LEMMA DoneIInv ==
  ASSUME IInv, NEW i \in Places, Done(i)
  PROVE  IInv'
<1> USE DEF IInv, Done
<1> DEFINE t == rep[i].type
<1>1. Groups' = Groups /\ Unfinished' = Unfinished
  BY DEF Groups, Unfinished
<1>2. t \in TypeNames /\ started[t] # "no"
  BY DEF WorkersOfGroups, TypeOK, Representation
<1>3. i \in group[t]
  BY <1>2 DEF StartsInOrder, GroupsByType, Places
<1>4. inner[t] = Cardinality(Running(t)) /\ i \in Running(t)
  BY <1>2, <1>3 DEF CountersCount, Running
<1>5. Running(t)' = Running(t) \ {i}
  BY <1>2 DEF Running, TypeOK
<1>6. Cardinality(Running(t)') = inner[t] - 1 /\ inner[t] - 1 \in Nat
  <2>1. IsFiniteSet(Running(t))
    BY <1>2, RunningFinite
  <2>2. Cardinality(Running(t) \ {i}) = inner[t] - 1
    <3>1. Cardinality(Running(t) \ {i}) =
            IF i \in Running(t) THEN Cardinality(Running(t)) - 1 ELSE Cardinality(Running(t))
      BY <2>1, FS_RemoveElement
    <3>. QED
      BY <1>4, <3>1
  <2>3. Cardinality(Running(t) \ {i}) \in Nat
    BY <2>1, FS_RemoveElement, FS_CardinalityType
  <2>. QED
    BY <1>5, <2>2, <2>3
<1>7. ASSUME NEW u \in TypeNames, u # t
      PROVE  Running(u)' = Running(u)
  BY <1>7 DEF Running, GroupsByType, TypeOK
<1>8. started[t] # "done"
  BY <1>2, <1>4, RunningFinite, FS_EmptySet DEF CountersCount
<1>9. TypeOK'
  BY <1>2, <1>6 DEF TypeOK
<1>10. GroupsByType' /\ StartsInOrder' /\ WorkersOfGroups'
  BY <1>1 DEF GroupsByType, StartsInOrder, WorkersOfGroups, TypeOK
<1>11. Settles'
  BY DEF Settles, Fits, TypeOK
<1>12. CountersCount'
  <2>1. inner'[t] = inner[t] - 1
        /\ \A u \in TypeNames : u # t => inner'[u] = inner[u]
    BY <1>2 DEF TypeOK
  <2>. QED
    BY <1>1, <1>6, <1>7, <1>8, <2>1 DEF CountersCount
<1> QED
  BY <1>9, <1>10, <1>11, <1>12

\* One group less is unfinished, and the counter says so.
LEMMA GroupDoneIInv ==
  ASSUME IInv, NEW t \in TypeNames, GroupDone(t)
  PROVE  IInv'
<1> USE DEF IInv, GroupDone
<1>1. Groups' = Groups /\ t \in Unfinished /\ caller # "grouping"
  BY DEF Groups, Unfinished, StartsInOrder
<1>2. Unfinished' = Unfinished \ {t}
  BY <1>1 DEF Unfinished, Groups, TypeOK
<1>3. Cardinality(Unfinished') = outer - 1 /\ outer - 1 \in Nat
  <2>1. Cardinality(Unfinished \ {t}) = outer - 1
    BY <1>1, UnfinishedFinite, FS_RemoveElement DEF CountersCount
  <2>2. Cardinality(Unfinished \ {t}) \in Nat
    BY UnfinishedFinite, FS_RemoveElement, FS_CardinalityType
  <2>. QED
    BY <1>2, <2>1, <2>2
<1>4. caller # "returned"
  BY <1>1, UnfinishedFinite, FS_EmptySet DEF CountersCount
<1>5. TypeOK'
  BY <1>3 DEF TypeOK
<1>6. GroupsByType' /\ StartsInOrder' /\ WorkersOfGroups'
  BY <1>1 DEF GroupsByType, StartsInOrder, WorkersOfGroups, TypeOK, Representation
<1>7. Settles'
  BY DEF Settles, Fits
<1>8. CountersCount'
  <2>1. \A u \in TypeNames : Running(u)' = Running(u)
    BY DEF Running
  <2>2. \A u \in TypeNames : started'[u] = IF u = t THEN "done" ELSE started[u]
    BY DEF TypeOK
  <2>. QED
    BY <1>1, <1>3, <1>4, <2>1, <2>2 DEF CountersCount
<1> QED
  BY <1>5, <1>6, <1>7, <1>8

\* Returning and a change elsewhere move a flag and a version.
LEMMA ReturnIInv == IInv /\ Return => IInv'
<1> SUFFICES ASSUME IInv, Return PROVE IInv'
  OBVIOUS
<1> USE DEF IInv, Return
<1>1. Groups' = Groups /\ Unfinished' = Unfinished
      /\ \A u \in TypeNames : Running(u)' = Running(u)
  BY DEF Groups, Unfinished, Running
<1>2. TypeOK' /\ Settles'
  BY DEF TypeOK, Settles, Fits
<1>3. GroupsByType' /\ StartsInOrder' /\ WorkersOfGroups'
  BY <1>1 DEF GroupsByType, StartsInOrder, WorkersOfGroups
<1>4. CountersCount'
  BY <1>1 DEF CountersCount
<1> QED
  BY <1>2, <1>3, <1>4

LEMMA ChangeIInv == IInv /\ Change => IInv'
<1> SUFFICES ASSUME IInv, Change PROVE IInv'
  OBVIOUS
<1> USE DEF IInv, Change
<1>1. Groups' = Groups /\ Unfinished' = Unfinished
      /\ \A u \in TypeNames : Running(u)' = Running(u)
  BY DEF Groups, Unfinished, Running
<1>2. TypeOK'
  BY DEF TypeOK
<1>3. GroupsByType' /\ StartsInOrder' /\ WorkersOfGroups' /\ CountersCount'
  BY <1>1 DEF GroupsByType, StartsInOrder, WorkersOfGroups, CountersCount
<1>4. Settles'
  <2>1. \A e, i : Fits(e, i) => Fits(e, i)'
    BY DEF Fits, TypeOK
  <2>. QED
    BY <2>1 DEF Settles
<1> QED
  BY <1>2, <1>3, <1>4

\* The inductive invariant of the dispatch holds in every reachable state:
\* the WaitGroups count exactly who has not ended, and every place is settled
\* by its own goroutine and no other.
THEOREM Invariant == Spec => []IInv
<1>1. IInv /\ [Next]_vars => IInv'
  <2> SUFFICES ASSUME IInv, [Next]_vars PROVE IInv'
    OBVIOUS
  <2>1. CASE UNCHANGED vars
    BY <2>1 DEF IInv, vars, TypeOK, GroupsByType, StartsInOrder, WorkersOfGroups,
                Settles, CountersCount, Groups, Running, Unfinished, Fits
  <2>2. CASE Over
    BY <2>1, <2>2 DEF Over
  <2>. QED
    BY <2>1, <2>2, GroupIInv, DispatchIInv, ResolveIInv, WriteIInv, DoneIInv,
       StartGroupIInv, GroupDoneIInv, ReturnIInv, ChangeIInv DEF Next
<1>. QED
  BY <1>1, InitIInv, PTL DEF Spec

\* AnswersInPlace of _entities: for any number of representations, types and
\* changes meanwhile, an answered field has at each place the answer of that
\* representation, or a null and one error.
THEOREM AnsweredInPlace == Spec => []AnswersInPlace
<1>1. IInv => AnswersInPlace
  <2> SUFFICES ASSUME IInv, caller = "returned", NEW i \in Places
               PROVE  \/ list[i] = None /\ reported[i] = 1
                      \/ list[i] # None /\ reported[i] = 0 /\ Fits(list[i], i)
    BY DEF AnswersInPlace
  <2> USE DEF IInv
  <2>1. CASE rep[i].type = NoType
    <3>1. i < next
      BY DEF StartsInOrder, Places, TypeOK
    <3>2. worker[i] = "none"
      BY <2>1 DEF WorkersOfGroups
    <3>. QED
      BY <2>1, <3>1, <3>2 DEF Settles
  <2>2. CASE rep[i].type # NoType
    <3> DEFINE t == rep[i].type
    <3>1. t \in TypeNames
      BY <2>2 DEF TypeOK, Representation
    <3>2. i \in group[t]
      BY <3>1 DEF GroupsByType, StartsInOrder, Places
    <3>3. Unfinished = {}
      BY UnfinishedFinite, FS_EmptySet DEF CountersCount
    <3>4. started[t] = "done"
      BY <3>1, <3>2, <3>3 DEF Unfinished, Groups
    <3>5. Running(t) = {}
      BY <3>1, <3>4, RunningFinite, FS_EmptySet DEF CountersCount
    <3>6. worker[i] = "done"
      BY <3>2, <3>5 DEF Running
    <3>. QED
      BY <3>6 DEF Settles
  <2>. QED
    BY <2>1, <2>2
<1>. QED
  BY <1>1, Invariant, PTL
=============================================================================
