------------------------------ MODULE Verdict -------------------------------
(***************************************************************************)
(* Verdict and Analyse (capacity/flow/verdict.go) on the outcome of a      *)
(* Rollup, and what the resolvers hand them (capacity/resolver.go): two    *)
(* answers about one part that come by two ways and have to agree.         *)
(* A reason is the record of its template and what fills it in; wording,   *)
(* and the order of the names, are left out.                               *)
(***************************************************************************)
EXTENDS Rollup

CONSTANTS
  Limits,       \* limits of requirements
  None          \* no limit, or no attribute

ASSUME LimitAssumption == Limits \subseteq Int /\ None \notin Limits

Comparisons == {"", "GE", "GT", "LE", "LT", "EQ"}

\* A requirement as the router delivers it.  Of the quantity and the
\* verification case it only matters what they are compared with.
Requirements ==
  [quantity : {"", "configured", "other"}, comparison : Comparisons,
   limit : Limits \cup {None}, case : BOOLEAN]

\* A subject has the children of the Rollup or is a leaf, whose attribute is
\* None where it has no such attribute and Missing where that has no value.
Wholes == {s \in [leaf : {FALSE}] : Child # <<>>}
Subjects == Wholes \cup [leaf : {TRUE}, attribute : Values \cup {None}]

Given(subject) == subject.attribute # None /\ ~Bad(subject.attribute)

\* Part.capacity: Missing for nil.
Analyse(subject) ==
  CASE ~subject.leaf /\ pc = "done" -> flow
    [] subject.leaf /\ Given(subject) -> subject.attribute
    [] OTHER -> Missing

\* Seeded fault: at least is more than.
HoldsStrictly(v, comparison, limit) ==
  CASE comparison \in {"GE", "GT"} -> v > limit
    [] comparison = "LE" -> v <= limit
    [] comparison = "LT" -> v < limit
    [] comparison = "EQ" -> v = limit

Holds(v, comparison, limit) ==
  CASE comparison = "GE" -> v >= limit
    [] comparison = "GT" -> v > limit
    [] comparison = "LE" -> v <= limit
    [] comparison = "LT" -> v < limit
    [] comparison = "EQ" -> v = limit

Judge(v, req) == IF Holds(v, req.comparison, req.limit) THEN "PASS" ELSE "FAIL"

Says(kind, template, names) == [kind |-> kind, template |-> template, names |-> names]
Inconclusive(template) == Says("INCONCLUSIVE", template, {})

\* Why a value cannot be compared, or "".
Incomparable(req) ==
  CASE req.limit = None -> "no limit"
    [] req.limit # None /\ req.comparison = "" -> "no comparison"
    [] OTHER -> ""

\* Seeded fault: no capacity is taken for no path.
TemplateByFlow == IF flow > 0 THEN "limited by" ELSE "no path"

Template == IF Cut # {} THEN "limited by" ELSE "no path"

\* The subject has children.
Whole(req) ==
  CASE pc = "faulty" -> Says("ERROR", "value", {Child[Min(Faulty)]})
    [] pc \in {"no entry", "no exit"} -> Inconclusive(pc)
    [] pc = "done" /\ Incomparable(req) # "" -> Inconclusive(Incomparable(req))
    [] pc = "done" /\ Incomparable(req) = "" ->
         Says(Judge(flow, req), Template, Cut)

\* The subject is a leaf.
Leaf(req, subject) ==
  CASE subject.attribute = None -> Inconclusive("no children")
    [] subject.attribute # None /\ ~Given(subject) -> Says("ERROR", "value", {"subject"})
    [] Given(subject) ->
         IF Incomparable(req) # "" THEN Inconclusive(Incomparable(req))
         ELSE Says(Judge(subject.attribute, req), "leaf", {})

Verdict(req, subject) ==
  CASE req.quantity = "" -> Inconclusive("no quantity")
    [] req.quantity = "other" -> Inconclusive(IF req.case THEN "no service runs" ELSE "no service computes")
    [] req.quantity = "configured" ->
         IF subject.leaf THEN Leaf(req, subject) ELSE Whole(req)

-----------------------------------------------------------------------------
(* What must hold of every requirement on the subject. *)

Judged(said) == said.kind \in {"PASS", "FAIL"}

\* Part.capacity and the verdict agree: a comparable requirement on the
\* quantity is judged exactly when the part has a capacity, and against that
\* number; otherwise it is never PASS or FAIL.
VerdictFollowsCapacity ==
  ~Working =>
    \A req \in Requirements, subject \in Subjects :
      LET said == Verdict(req, subject)
          number == Analyse(subject)
      IN  /\ Judged(said) <=> /\ req.quantity = "configured"
                              /\ req.limit # None /\ req.comparison # ""
                              /\ number # Missing
          /\ Judged(said) /\ req.comparison = "GE" =>
               (said.kind = "PASS" <=> \A n \in 0..req.limit : n <= number)

ErrorsNameTheChild ==
  ~Working =>
    \A req \in Requirements, subject \in Wholes :
      LET said == Verdict(req, subject)
      IN  said.kind = "ERROR" <=>
            /\ req.quantity = "configured"
            /\ \E c \in Children : Bad(value[c]) /\ said.names = {c}

LimitIsNamed ==
  pc = "done" =>
    \A req \in Requirements, subject \in Wholes :
      LET said == Verdict(req, subject)
          apart == \A c \in Children : ~OnTheWay(c)
      IN  Judged(said) =>
            /\ said.template = "no path" => apart /\ said.names = {}
            /\ said.template = "limited by" =>
                 /\ said.names # {}
                 /\ apart => \A c \in said.names : value[c] = 0

\* The reason names the culprit.  An ERROR is only ever about the quantity asked
\* for, and names a child whose value is bad, whatever else is wrong with the
\* requirement or the wiring (README, rule 2); a judged subject with children
\* is said to have no path only when no child lies between an entry and an
\* exit, and what is named in its stead is then of value 0.
ReasonNamesTheCulprit == ErrorsNameTheChild /\ LimitIsNamed
=============================================================================
