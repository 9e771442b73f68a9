----------------------------- MODULE ModelLinks -----------------------------
(***************************************************************************)
(* What build makes of the names in a source (adapter/model): identifiers, *)
(* definitions and their bases, the parts and ports a part ends up with,   *)
(* and the references between elements.  The source is the package's       *)
(* declarations in order; it grows by one anywhere.  A definition, a part  *)
(* or a requirement is a record that holds the names the source writes.    *)
(* Values, limits and comparisons are ModelBuild's; positions of refusals  *)
(* and texts are left out.                                                 *)
(***************************************************************************)
EXTENDS Integers, Sequences, FiniteSets, SequencesExt, TLC

CONSTANTS
  Declarations,  \* what may be declared
  Prelude,       \* what every source declares
  MaxLength,     \* bound on the declarations of a source
  None

VARIABLE source

Package == <<"package">>

Of(s, kind) == SelectSeq(s, LAMBDA d : d.kind = kind)

-----------------------------------------------------------------------------
(* Definitions, attributes and ports. *)

\* The map of definitions: a later one replaces an earlier one of its name.
Def(s, kind, name) ==
  LET named == SelectSeq(Of(s, kind), LAMBDA d : d.name = name)
  IN  IF named = <<>> THEN None ELSE Last(named)

Refusal == [kind |-> "refusal"]

\* defChain: most specific first.
RECURSIVE DefChain(_, _, _)
DefChain(s, name, seen) ==
  IF name = None THEN <<>>
  ELSE IF Def(s, "partDef", name) = None \/ name \in seen THEN <<Refusal>>
  ELSE <<Def(s, "partDef", name)>> \o DefChain(s, Def(s, "partDef", name).base, seen \cup {name})

Typed(s, part) == Refusal \notin Range(DefChain(s, part.type, {}))

\* What the definitions say, base first, then the usage.
Inherit(s, part, field) ==
  FoldLeft(LAMBDA had, d : d[field] \o had, part[field], DefChain(s, part.type, {}))

Slots(s, part) == Inherit(s, part, "attributes")
Ports(s, part) == Inherit(s, part, "ports")

\* slot: a redefinition needs its declaration before it, a declaration must be
\* the first of its name.
SlotsFit(slots) ==
  \A i \in DOMAIN slots :
    slots[i].redefines <=> \E j \in 1..(i - 1) : slots[j].name = slots[i].name /\ ~slots[j].redefines

\* port and portDirection.
PortsFit(s, ports) ==
  /\ \A i, j \in DOMAIN ports : ports[i].name = ports[j].name => i = j
  /\ \A i \in DOMAIN ports : Def(s, "portDef", ports[i].type) # None

Direction(s, port) ==
  LET items == Range(Def(s, "portDef", port.type).items)
  IN  IF Cardinality(items) = 1 THEN CHOOSE d \in items : TRUE ELSE "inout"

-----------------------------------------------------------------------------
(* Parts and names. *)

\* part: a usage, its children after it, each with the part it is in.
NodeOf(part, above) ==
  [part |-> part, above |-> above,
   qualified |-> Append(IF above = None THEN Package ELSE above.qualified, part.name)]

RECURSIVE NodesUnder(_, _)
NodesUnder(parts, above) ==
  FoldLeft(LAMBDA nodes, p : nodes \o <<NodeOf(p, above)>> \o NodesUnder(p.parts, NodeOf(p, above)),
           <<>>, parts)

Nodes(s) == NodesUnder(Of(s, "part"), None)

\* id: the short name, else the qualified name, which the package begins.
IdOf(usage, qualified) == IF usage.short = None THEN qualified ELSE <<usage.short>>
Id(node) == IdOf(node.part, node.qualified)
IdHere(usage) == IdOf(usage, Append(Package, usage.name))

MapSeq(seq, op(_)) == [i \in DOMAIN seq |-> op(seq[i])]

Ids(s) ==
  MapSeq(Nodes(s), Id) \o MapSeq(Of(s, "requirement"), IdHere) \o MapSeq(Of(s, "verification"), IdHere)

Child(node, name) ==
  LET named == SelectSeq(node.part.parts, LAMBDA p : p.name = name)
  IN  IF named = <<>> THEN None ELSE NodeOf(named[1], node)

Top(s, name) ==
  LET named == SelectSeq(Of(s, "part"), LAMBDA p : p.name = name)
  IN  IF named = <<>> THEN None ELSE NodeOf(named[1], None)

RECURSIVE Outward(_, _, _)
Outward(s, node, name) ==
  IF node = None THEN Top(s, name)
  ELSE IF Child(node, name) # None THEN Child(node, name)
  ELSE Outward(s, node.above, name)

Walk(node, names) == FoldLeft(LAMBDA n, name : IF n = None THEN None ELSE Child(n, name), node, names)

\* Seeded fault: the package is looked at before the scopes.
FindPartFromTop(s, chain, scope) ==
  Walk(IF Top(s, Head(chain)) # None THEN Top(s, Head(chain)) ELSE Outward(s, scope, Head(chain)), Tail(chain))

FindPart(s, chain, scope) == Walk(Outward(s, scope, Head(chain)), Tail(chain))

FindReq(s, chain) ==
  LET named == SelectSeq(Of(s, "requirement"), LAMBDA r : chain = <<r.name>>)
  IN  IF named = <<>> THEN None ELSE named[1]

-----------------------------------------------------------------------------
(* References. *)

Satisfactions(s) ==
  {[requirement |-> FindReq(s, n.part.satisfies[i].requirement),
    by |-> FindPart(s, n.part.satisfies[i].by, n)] :
     <<n, i>> \in UNION {{m} \X DOMAIN m.part.satisfies : m \in Range(Nodes(s))}}

\* portEnd: a child of the part that connects, and one of its ports.
PortOf(s, owner, end) ==
  IF Child(owner, end.part) = None THEN None
  ELSE LET ports == SelectSeq(Ports(s, Child(owner, end.part).part), LAMBDA p : p.name = end.port)
       IN  IF ports = <<>> THEN None ELSE ports[1]

Joins(s, owner, end, direction) ==
  PortOf(s, owner, end) # None /\ Direction(s, PortOf(s, owner, end)) = direction

Connects(s, owner) ==
  LET ends == owner.part.connects
  IN  /\ \A i \in DOMAIN ends : Joins(s, owner, ends[i].from, "out") /\ Joins(s, owner, ends[i].to, "in")
      /\ \A i, j \in DOMAIN ends : ends[i] = ends[j] => i = j

Derivations(s) ==
  {[original |-> FindReq(s, d.original), derived |-> FindReq(s, d.derives[i])] :
     <<d, i>> \in UNION {{e} \X DOMAIN e.derives : e \in Range(Of(s, "derivation"))}}

\* The definition's objective counts as well as the usage's.
Objectives(s, case) ==
  {o \in {case.verifies} \cup (IF case.type = None THEN {} ELSE {Def(s, "verificationDef", case.type).verifies}) :
     o # None}

\* constraint: the usage's, else its definition's; checkQuantity: the part the
\* chain leads to from the subject.
Constraint(s, r) ==
  IF r.constraint # None \/ r.type = None THEN r.constraint ELSE Def(s, "requirementDef", r.type).constraint

Owner(s, r) ==
  IF r.subject = None \/ Constraint(s, r) = None THEN None
  ELSE Walk(FindPart(s, r.subject, None), Constraint(s, r).through)

Declares(s, node, attribute) == \E slot \in Range(Slots(s, node.part)) : slot.name = attribute

-----------------------------------------------------------------------------
(* build: what is refused, and what the model says otherwise. *)

NamesDiffer(usages) == \A i, j \in DOMAIN usages : usages[i].name = usages[j].name => i = j

UniqueParts(s) == NamesDiffer(Of(s, "part"))

\* Seeded fault: identifiers are compared within one kind of element.
UniqueIdsOfParts(s) == IsInjective(MapSeq(Nodes(s), Id))

UniqueIds(s) == IsInjective(Ids(s))

PartBuilds(s, node) ==
  /\ Typed(s, node.part)
  /\ SlotsFit(Slots(s, node.part))
  /\ PortsFit(s, Ports(s, node.part))

RequirementBuilds(s, r) ==
  /\ r.type # None => Def(s, "requirementDef", r.type) # None
  /\ Owner(s, r) # None
  /\ Declares(s, Owner(s, r), Constraint(s, r).quantity)

CaseBuilds(s, case) ==
  /\ case.type # None => Def(s, "verificationDef", case.type) # None
  /\ \A o \in Objectives(s, case) : FindReq(s, o) # None

Accepts(s) ==
  LET nodes == Range(Nodes(s))
  IN  /\ \A n \in nodes : PartBuilds(s, n)
      /\ UniqueIds(s)
      /\ UniqueParts(s)
      /\ NamesDiffer(Of(s, "requirement"))
      /\ \A n \in nodes : Connects(s, n)
      /\ \A l \in Satisfactions(s) : l.requirement # None /\ l.by # None
      /\ \A l \in Derivations(s) : l.original # None /\ l.derived # None
      /\ \A r \in Range(Of(s, "requirement")) : RequirementBuilds(s, r)
      /\ \A v \in Range(Of(s, "verification")) : CaseBuilds(s, v)

\* The relations the model serves, by identifier.
Links(s) ==
  {<<"part of", Id(n), Id(n.above)>> : n \in {m \in Range(Nodes(s)) : m.above # None}}
  \cup {<<"satisfies", Id(l.by), IdHere(l.requirement)>> : l \in Satisfactions(s)}
  \cup {<<"derives", IdHere(l.original), IdHere(l.derived)>> : l \in Derivations(s)}
  \cup {<<"subject", IdHere(r), Id(Owner(s, r))>> : r \in Range(Of(s, "requirement"))}
  \cup {<<"verifies", IdHere(v), IdHere(FindReq(s, o))>> :
           <<v, o>> \in UNION {{c} \X Objectives(s, c) : c \in Range(Of(s, "verification"))}}
  \cup {<<"connects", Id(Child(n, n.part.connects[i].from.part)), Id(Child(n, n.part.connects[i].to.part))>> :
           <<n, i>> \in UNION {{m} \X DOMAIN m.part.connects : m \in Range(Nodes(s))}}

-----------------------------------------------------------------------------
Init == source = Prelude

Declare(d, at) == source' = InsertAt(source, at, d)

Next ==
  /\ Len(source) < MaxLength
  /\ \E d \in Declarations : \E at \in 1..(Len(source) + 1) : Declare(d, at)

Spec == Init /\ [][Next]_source

-----------------------------------------------------------------------------
(* What must hold. *)

Kind(s, id) ==
  {"part" : n \in {m \in Range(Nodes(s)) : Id(m) = id}}
  \cup {u.kind : u \in {v \in Range(Of(s, "requirement")) \cup Range(Of(s, "verification")) : IdHere(v) = id}}

Ends == [x \in {"part of", "connects"} |-> <<"part", "part">>]
        @@ ("satisfies" :> <<"part", "requirement">>) @@ ("derives" :> <<"requirement", "requirement">>)
        @@ ("subject" :> <<"requirement", "part">>) @@ ("verifies" :> <<"verification", "requirement">>)

\* What an accepted source says is served whole: every identifier a relation
\* ends in is answered by one element, of the kind it is looked up among, so
\* that no field of the projection fails (collect, projection.go:80-90), and a
\* flow follows the ports it was connected by.
RelationsAnswer ==
  Accepts(source) =>
    /\ \A l \in Links(source) : Kind(source, l[2]) = {Ends[l[1]][1]} /\ Kind(source, l[3]) = {Ends[l[1]][2]}
    /\ \A n \in Range(Nodes(source)) : \A i \in DOMAIN n.part.connects :
         LET flow == n.part.connects[i]
         IN  /\ Direction(source, PortOf(source, n, flow.from)) = "out"
             /\ Direction(source, PortOf(source, n, flow.to)) = "in"

\* d replaces e: two definitions of one kind and name, d the later.
Replaces(d, e) ==
  /\ d.kind \in {"partDef", "portDef", "requirementDef", "verificationDef"}
  /\ e.kind = d.kind /\ e.name = d.name

\* The declarations that count, the last one first.
InForceReversed(s) ==
  FoldLeft(LAMBDA had, d : <<d>> \o SelectSeq(had, LAMBDA e : ~Replaces(d, e)), <<>>, s)

Meaning(s) == IF Accepts(s) THEN Links(s) ELSE None

\* What a source says does not hang on the order of its declarations, but that
\* of two definitions of one kind and name the later counts: build takes it
\* without a word (build.go:84-95).  Without those that are replaced, and read
\* from its end, it is the same model.  Nor does it hang on what else is
\* declared: while it stays acceptable and nothing in force is replaced, no
\* reference comes to mean another element because one of that name is
\* declared further out.
LinksAreStable ==
  [][source' # source =>
       LET now == Meaning(source)
           then == Meaning(source')
       IN  /\ Meaning(InForceReversed(source')) = then
           /\ now # None /\ then # None
              /\ Range(InForceReversed(source)) \subseteq Range(InForceReversed(source'))
                => now \subseteq then]_source
=============================================================================
