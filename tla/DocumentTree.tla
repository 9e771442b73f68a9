---------------------------- MODULE DocumentTree ----------------------------
(***************************************************************************)
(* The document's ordered tree (examples/pipeline/document/tree), with the *)
(* reset of the service that owns it.                                      *)
(*                                                                         *)
(* A node is named by its id; the hidden root is Root.  kids[n] is the     *)
(* ordered list of n's children, empty for a node that is not in the tree. *)
(* A shipped id is a model value, the id "n<k>" the program makes is the   *)
(* number k.  A requirement is named by the one shipped node that carries  *)
(* it.  A refused operation changes nothing and is not a step.             *)
(*                                                                         *)
(* The code finds a node by walking the tree for its id, and newID only    *)
(* looks at the tree: no requirement of the document, which may be out of  *)
(* the tree, has an id of the form "n<k>" (TreeAssumption).  Other shipped *)
(* nodes may.                                                              *)
(***************************************************************************)
EXTENDS Integers, SequencesExt

CONSTANTS
  Root,         \* the hidden node the top level hangs off
  Shipped,      \* ids of the shipped document
  ShippedKids,  \* its ordered structure, over Shipped and Root
  ShippedKind,  \* its kinds
  Texts,        \* texts of headings and prose
  ShippedText,  \* the text every shipped node is taken to have
  MaxFresh,     \* bound: ids made by the program are 1..MaxFresh
  Indices       \* the indices clients ask for

Fresh == 1..MaxFresh
Ids == Shipped \cup Fresh
Nodes == Ids \cup {Root}
Kinds == {"heading", "prose", "requirement"}
Requirements == {r \in Shipped : ShippedKind[r] = "requirement"}

ASSUME TreeAssumption ==
  /\ MaxFresh \in Nat
  /\ Indices \subseteq Int
  /\ Root \notin Ids
  /\ ShippedKids \in [Shipped \cup {Root} -> Seq(Shipped)]
  /\ ShippedKind \in [Shipped -> Kinds]
  /\ ShippedText \in Texts
  /\ Requirements \cap Fresh = {}

\* What Load's check lets through: every id once, prose without children; and
\* what is written as nested lists hangs off its root.
ASSUME LoadAssumption ==
  /\ \A p, q \in Shipped \cup {Root} :
       \A i \in DOMAIN ShippedKids[p], j \in DOMAIN ShippedKids[q] :
         ShippedKids[p][i] = ShippedKids[q][j] => p = q /\ i = j
  /\ Shipped \subseteq UNION {Range(ShippedKids[p]) : p \in Shipped \cup {Root}}
  /\ \A n \in Shipped : ShippedKind[n] = "prose" => ShippedKids[n] = <<>>
  /\ \A S \in SUBSET Shipped :
       S # {} => \E n \in S : \A p \in S : n \notin Range(ShippedKids[p])

VARIABLES
  kids,         \* Node.Children
  kind,         \* Node.Kind
  text,         \* Node.Text
  excluded,     \* the requirements taken out of the document
  former,       \* former[r]: the parent an excluded r had, else Root
  next          \* the id counter

treeVars == <<kids, kind, text, excluded, former, next>>

InTree == UNION {Range(kids[p]) : p \in Nodes}

TreeTypeOK ==
  /\ kids \in [Nodes -> Seq(Ids)]
  /\ kind \in [Ids -> Kinds]
  /\ text \in [Ids -> Texts]
  /\ excluded \in SUBSET Requirements
  /\ former \in [Requirements -> Nodes]
  /\ next \in 1..(MaxFresh + 1)

\* Load: the shipped tree, nothing excluded, ids counted from n1.  A node the
\* program has not made yet is given the kind and text it never shows.
ShippedTree ==
  [kids |-> [n \in Nodes |-> IF n \in Fresh \ Shipped THEN <<>> ELSE ShippedKids[n]],
   kind |-> [n \in Ids |-> IF n \in Fresh \ Shipped THEN "heading" ELSE ShippedKind[n]],
   text |-> [n \in Ids |-> ShippedText]]

TreeInit ==
  /\ kids = ShippedTree.kids
  /\ kind = ShippedTree.kind
  /\ text = ShippedTree.text
  /\ excluded = {}
  /\ former = [r \in Requirements |-> Root]
  /\ next = 1

-----------------------------------------------------------------------------
(* Looking at the tree. *)

Parent(n) == CHOOSE p \in Nodes : n \in Range(kids[p])

Index(n) == CHOOSE i \in DOMAIN kids[Parent(n)] : kids[Parent(n)][i] = n

\* contains: whatever every set holding n and closed under children holds.
Below(n) ==
  {m \in Ids : \A S \in SUBSET Ids :
     Range(kids[n]) \subseteq S /\ (\A s \in S : Range(kids[s]) \subseteq S)
       => m \in S}

\* parentFor refuses an unknown node and a prose node.
CanHold(p) == p = Root \/ (p \in InTree /\ kind[p] # "prose")

\* newID: the first "n<k>" from the counter on that no node of the tree has.
IsNewId(k) ==
  /\ k >= next
  /\ k \notin InTree
  /\ \A j \in next..(k - 1) : j \in InTree

\* insert: the index counts from 0 and is clamped to the list.
Insert(s, index, n) == InsertAt(s, Max({0, Min({index, Len(s)})}) + 1, n)

-----------------------------------------------------------------------------
(* The operations. *)

\* Seeded fault: a node may be moved under itself.
CanMoveAnywhere(n, p) == n \in InTree /\ CanHold(p)

\* A known node may go under a known one that is not itself nor below it.
CanMove(n, p) ==
  /\ n \in InTree
  /\ CanHold(p)
  /\ p # n
  /\ p \notin Below(n)

\* The index counts in the list the node has already been taken out of.
Move(n, p, i) ==
  LET detached == [kids EXCEPT ![Parent(n)] = RemoveAt(@, Index(n))] IN
  /\ CanMove(n, p)
  /\ kids' = [detached EXCEPT ![p] = Insert(@, i, n)]
  /\ UNCHANGED <<kind, text, excluded, former, next>>

\* A node the program makes.
Make(k, knd, t) ==
  /\ IsNewId(k)
  /\ next' = k + 1
  /\ kind' = [kind EXCEPT ![k] = knd]
  /\ text' = [text EXCEPT ![k] = t]
  /\ UNCHANGED <<excluded, former>>

InsertHeading(above, t) ==
  /\ above \in InTree
  /\ \E k \in Fresh :
       /\ Make(k, "heading", t)
       /\ kids' = [kids EXCEPT ![Parent(above)][Index(above)] = k, ![k] = <<above>>]

AddProse(p, index, t) ==
  /\ CanHold(p)
  /\ \E k \in Fresh :
       /\ Make(k, "prose", t)
       /\ kids' = [kids EXCEPT ![p] = Insert(@, index, k)]

EditText(n, t) ==
  /\ n \in InTree
  /\ kind[n] # "requirement"
  /\ text' = [text EXCEPT ![n] = t]
  /\ UNCHANGED <<kids, kind, excluded, former, next>>

\* Seeded fault: the children go with their parent.
PromotedNone(r) == [kids EXCEPT ![Parent(r)] = RemoveAt(@, Index(r)), ![r] = <<>>]

\* Seeded fault: the children go to the end of the list.
PromotedLast(r) ==
  [kids EXCEPT ![Parent(r)] = RemoveAt(@, Index(r)) \o kids[r], ![r] = <<>>]

\* The children take their parent's place, in order.
Promoted(r) ==
  LET p == Parent(r)
      i == Index(r)
  IN  [kids EXCEPT ![p] = SubSeq(@, 1, i - 1) \o kids[r] \o SubSeq(@, i + 1, Len(@)),
                   ![r] = <<>>]

Exclude(r) ==
  /\ r \in InTree
  /\ kids' = Promoted(r)
  /\ excluded' = excluded \cup {r}
  /\ former' = [former EXCEPT ![r] = Parent(r)]
  /\ UNCHANGED <<kind, text, next>>

\* Last child of the former parent, or of the root when that is gone.
Include(r) ==
  LET p == IF former[r] \in InTree THEN former[r] ELSE Root IN
  /\ r \in excluded
  /\ kids' = [kids EXCEPT ![p] = Append(@, r)]
  /\ excluded' = excluded \ {r}
  /\ former' = [former EXCEPT ![r] = Root]
  /\ UNCHANGED <<kind, text, next>>

\* Service.reset: the shipped tree is loaded again in place of this one.
Reset ==
  /\ kids' = ShippedTree.kids
  /\ kind' = ShippedTree.kind
  /\ text' = ShippedTree.text
  /\ excluded' = {}
  /\ former' = [r \in Requirements |-> Root]
  /\ next' = 1

Edit ==
  \/ \E n \in Ids, p \in Nodes, i \in Indices : Move(n, p, i)
  \/ \E n \in Ids, t \in Texts : InsertHeading(n, t) \/ EditText(n, t)
  \/ \E p \in Nodes, i \in Indices, t \in Texts : AddProse(p, i, t)
  \/ \E r \in Requirements : Exclude(r) \/ Include(r)

TreeNext == Edit \/ Reset

TreeSpec == TreeInit /\ [][TreeNext]_treeVars

-----------------------------------------------------------------------------
(* Numbering. *)

Numbered == {n \in InTree : kind[n] # "prose"}

\* Seeded fault: prose takes a number.
PlaceOfAny(n) == Index(n)

\* The node's place among its siblings, prose not counted.
Place(n) ==
  Cardinality({j \in 1..Index(n) : kind[kids[Parent(n)][j]] # "prose"})

\* Numbers: the dotted decimal of every heading and requirement.
Numbers ==
  LET number[n \in Numbered] ==
        IF Parent(n) = Root THEN <<Place(n)>>
        ELSE Append(number[Parent(n)], Place(n))
  IN  number

-----------------------------------------------------------------------------
(* What must hold. *)

ProseIsLeaf == \A n \in InTree : kind[n] = "prose" => kids[n] = <<>>

\* The operations keep it a tree: a node sits in one place only, and no set
\* of nodes hangs in the air, its parents all within itself, so that the
\* walks of the code (locate, number, contains) end; and a prose node never
\* gets a child (ErrProseParent), by way of a former parent, a heading inserted
\* above it or a clamped index either.
IsTree ==
  /\ TreeTypeOK
  /\ ProseIsLeaf
  /\ \A p, q \in Nodes : \A i \in DOMAIN kids[p], j \in DOMAIN kids[q] :
       kids[p][i] = kids[q][j] => p = q /\ i = j
  /\ \A S \in SUBSET InTree :
       S # {} => \E n \in S : Parent(n) \notin S

\* Nothing is lost: every shipped requirement is in the tree or excluded and
\* never both, every other shipped node and every node made since the reset
\* is in the tree, and what is not in the tree has no children of its own.
NothingLost ==
  /\ excluded = Requirements \ InTree
  /\ Shipped \ Requirements \subseteq InTree
  /\ {k \in Fresh : k < next} \ Shipped \subseteq InTree
  /\ \A n \in Ids \ InTree : kids[n] = <<>>

\* The numbers outline the document: no two nodes share one, siblings count
\* from 1 without a gap, and a child's number extends its parent's.
NumbersOutline ==
  /\ \A a, b \in Numbered : Numbers[a] = Numbers[b] => a = b
  /\ \A n \in Numbered :
       LET d == Numbers[n]
           up == SubSeq(d, 1, Len(d) - 1)
       IN  /\ d[Len(d)] > 1 =>
                \E m \in Numbered : Numbers[m] = Append(up, d[Len(d)] - 1)
           /\ Len(d) > 1 => Numbers[Parent(n)] = up
=============================================================================
