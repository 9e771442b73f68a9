----------------------------- MODULE ModelBuild -----------------------------
(***************************************************************************)
(* Building a model from its source (adapter/model): which usage binds     *)
(* each attribute, the evaluation of bound expressions, memoised and       *)
(* guarded against cycles, the flag that says a value may be edited, and   *)
(* the edit, which patches one literal and builds everything anew.         *)
(*                                                                         *)
(* The source is data: owner o's binding of name n is source[<<o, n>>].    *)
(* Names are taken to be declared; what build refuses of the wiring, ports *)
(* and duplicate names is left out.  A literal is known by its binding     *)
(* instead of its span.  A constraint is the binding of the name           *)
(* "require", whose other operand is a literal or the requirement's limit. *)
(* Numbers are whole: a division is its quotient.                          *)
(***************************************************************************)
EXTENDS Integers, Sequences, FiniteSets, SequencesExt

CONSTANTS
  Parts, Reqs,  \* the usages, disjoint
  PartNames,    \* the attributes of a part
  Owners,       \* of each usage: its definitions, base first, then itself
  Subject,      \* the part a requirement is about
  Sources,      \* the sources to be tried
  Shipped,      \* the number every literal has in them
  Requested,    \* the numbers edits ask for
  Order,        \* the projected values as they are built: limits, then parts
  MaxEdits,     \* bound on the edits tried
  None

ReqNames == {"limit", "require"}
Usages == Parts \cup Reqs
Slots == (Parts \X PartNames) \cup (Reqs \X ReqNames)
Projected == ToSet(Order)
Bindings == (UNION {ToSet(Owners[u]) : u \in Usages}) \X (PartNames \cup ReqNames)

\* What a binding may be: not there or without a value, a literal, a chain, or
\* a quotient of two chains.
Nothing == [op |-> "nothing", of |-> <<>>]
Literal == [op |-> "literal", of |-> <<>>]
Chain(ref) == [op |-> "chain", of |-> <<ref>>]
Ratio(ref, by) == [op |-> "ratio", of |-> <<ref, by>>]

ASSUME BuildAssumption ==
  /\ Parts \cap Reqs = {} /\ "require" \notin PartNames
  /\ Projected = (Parts \X PartNames) \cup (Reqs \X {"require"})
  /\ Shipped \in Nat
  /\ Requested \subseteq Int /\ MaxEdits \in Nat
  /\ Order \in Seq(Projected) /\ IsFiniteSet(Slots)
  /\ None \notin Int \cup Bindings

VARIABLES
  source,       \* the expressions, the same from load to restart
  text,         \* the number each literal has in the text being built
  pc, agenda, stack, values,    \* the build
  served,       \* the model installed, None before the first
  asked,        \* the edit being built, None at load
  refused,      \* the text last refused, or None
  edits

vars == <<source, text, pc, agenda, stack, values, served, asked, refused, edits>>

-----------------------------------------------------------------------------
(* Slots and their bindings. *)

\* The binding that holds: the last, from the base definition to the usage
\* itself, that carries a value.  None when nothing binds the slot.
BindOf(slot) ==
  LET owners == Owners[slot[1]]
      valued == {i \in DOMAIN owners : source[<<owners[i], slot[2]>>].op # "nothing"}
  IN  IF valued = {} THEN None ELSE <<owners[Max(valued)], slot[2]>>

Expr(slot) == IF BindOf(slot) = None THEN Nothing ELSE source[BindOf(slot)]

\* The slot a name stands for, in the scope of the usage that owns it.
Resolve(slot, ref) ==
  CASE ref[1] = "own" -> <<slot[1], ref[2]>>
    [] ref[1] = "subject" -> <<Subject[slot[1]], ref[2]>>
    [] OTHER -> ref

\* What the names a source declares may stand for, and what it may bind: a
\* constraint has a literal or an attribute of its requirement for a limit.
Attributes == (Parts \X PartNames) \cup (Reqs \X {"limit"})

Allowed(slot, e) ==
  \/ e \in {Nothing, Literal}
  \/ slot[2] = "require" /\ e = Chain(<<"own", "limit">>)
  \/ slot[2] # "require" /\ e = Chain(e.of[1]) /\ Resolve(slot, e.of[1]) \in Attributes
  \/ /\ slot[2] # "require" /\ e = Ratio(e.of[1], e.of[2])
     /\ Resolve(slot, e.of[1]) \in Attributes /\ Resolve(slot, e.of[2]) \in Attributes

ASSUME SourceAssumption ==
  /\ Owners \in [Usages -> Seq(UNION {ToSet(Owners[u]) : u \in Usages})]
  /\ \A s \in Sources, slot \in Slots : \A o \in ToSet(Owners[slot[1]]) :
       Allowed(slot, s[<<o, slot[2]>>])

\* Where the value of a projected slot is taken from: a limit from the
\* constraint itself or from the attribute it names.
Origin(slot) ==
  IF slot[2] = "require" /\ Expr(slot).op = "chain" THEN Resolve(slot, Expr(slot).of[1]) ELSE slot

Carries(slot) == Expr(Origin(slot)).op = "literal"
LiteralOf(slot) == BindOf(Origin(slot))

\* Seeded fault: a literal several values share is taken for any one's own.
EditableShared == {p \in Projected : Carries(p)}

\* exclusive: the values whose literal no other projected value carries.
Editable ==
  {p \in Projected : Carries(p) /\ \A q \in Projected : Carries(q) /\ LiteralOf(q) = LiteralOf(p) => q = p}

-----------------------------------------------------------------------------
(* Evaluation. *)

\* Seeded fault: a definition's binding is evaluated once for all its usages.
KeyUnscoped(slot) == <<BindOf(slot), None>>

Key(slot) == <<BindOf(slot), slot[1]>>

Memo(slot) == Key(slot) \in DOMAIN values

Busy == {Key(stack[i].slot) : i \in DOMAIN stack}

Start(numbers) ==
  /\ pc' = "building"
  /\ text' = numbers
  /\ agenda' = Order
  /\ stack' = <<>>
  /\ values' = <<>>

Texts == [{b \in Bindings : source[b].op = "literal"} -> {Shipped} \cup Requested]

Init ==
  /\ source \in Sources
  /\ text = [b \in {c \in Bindings : source[c].op = "literal"} |-> Shipped]
  /\ pc = "building"
  /\ agenda = Order
  /\ stack = <<>>
  /\ values = <<>>
  /\ served = None
  /\ asked = None
  /\ refused = None
  /\ edits = 0

\* A panic with a syntax error ends the build: no model at load, and the one
\* installed stays when it is an edit's.
Fail ==
  /\ pc' = IF served = None THEN "no model" ELSE "served"
  /\ refused' = text
  /\ text' = IF served = None THEN text ELSE served.text
  /\ agenda' = <<>>
  /\ stack' = <<>>
  /\ values' = <<>>
  /\ asked' = None
  /\ UNCHANGED <<source, served, edits>>

Push(slot) == stack' = Append(stack, [slot |-> slot, read |-> <<>>])

\* The next projected value.  A limit that is a literal is read off at once,
\* an attribute without a value has none, a limit without one is refused.
Project ==
  /\ pc = "building" /\ stack = <<>> /\ agenda # <<>>
  /\ LET slot == Origin(Head(agenda))
         limit == slot[1] \in Reqs
     IN  IF limit /\ BindOf(slot) = None THEN Fail
         ELSE /\ agenda' = Tail(agenda)
              /\ IF BindOf(slot) = None \/ Memo(slot) \/ (limit /\ Carries(slot))
                   THEN UNCHANGED stack
                   ELSE Push(slot)
              /\ UNCHANGED <<source, text, pc, values, served, asked, refused, edits>>

Top == Last(stack)

\* chainValue: the next operand, from the memo or by a call of its own.
Descend ==
  /\ pc = "building" /\ stack # <<>>
  /\ Len(Top.read) < Len(Expr(Top.slot).of)
  /\ LET slot == Resolve(Top.slot, Expr(Top.slot).of[Len(Top.read) + 1])
     IN  IF BindOf(slot) = None THEN Fail
         ELSE IF Memo(slot) THEN
           /\ stack' = [stack EXCEPT ![Len(stack)].read = Append(@, values[Key(slot)])]
           /\ UNCHANGED <<source, text, pc, agenda, values, served, asked, refused, edits>>
         ELSE IF Key(slot) \in Busy THEN Fail
         ELSE /\ Push(slot)
              /\ UNCHANGED <<source, text, pc, agenda, values, served, asked, refused, edits>>

\* What expr makes of the operands read; None for a division by zero.
Computed(slot, read) ==
  LET e == Expr(slot)
  IN  CASE e.op = "literal" -> text[BindOf(slot)]
        [] e.op = "chain" -> read[1]
        [] e.op = "ratio" -> IF read[2] = 0 THEN None ELSE read[1] \div read[2]

\* eval returns, and remembers.
Ascend ==
  /\ pc = "building" /\ stack # <<>>
  /\ Len(Top.read) = Len(Expr(Top.slot).of)
  /\ LET number == Computed(Top.slot, Top.read)
         key == Key(Top.slot)
     IN  IF number = None THEN Fail
         ELSE /\ values' = [k \in DOMAIN values \cup {key} |-> IF k = key THEN number ELSE values[k]]
              /\ stack' = Front(stack)
              /\ UNCHANGED <<source, text, pc, agenda, served, asked, refused, edits>>

\* The value projected for a slot, None for one without.
ValueOf(slot) ==
  LET from == Origin(slot)
  IN  CASE BindOf(from) = None -> None
        [] from[1] \in Reqs /\ Carries(slot) -> text[LiteralOf(slot)]
        [] OTHER -> values[Key(from)]

Serve ==
  /\ pc = "building" /\ stack = <<>> /\ agenda = <<>>
  /\ served' = [text |-> text, value |-> [p \in Projected |-> ValueOf(p)], editable |-> Editable]
  /\ pc' = "served"
  /\ UNCHANGED <<source, text, agenda, stack, values, asked, refused, edits>>

\* SetAttribute and SetLimit: refused without a trace, or the literal is
\* patched and the text parsed again.
SetLiteral(slot, v) ==
  /\ pc = "served"
  /\ edits < MaxEdits
  /\ edits' = edits + 1
  /\ IF slot \in served.editable /\ v >= 0
       THEN /\ asked' = [slot |-> slot, value |-> v]
            /\ Start([served.text EXCEPT ![LiteralOf(slot)] = v])
       ELSE UNCHANGED <<text, pc, agenda, stack, values, asked>>
  /\ UNCHANGED <<source, served, refused>>

Next ==
  \/ Project \/ Descend \/ Ascend \/ Serve
  \/ \E p \in Projected, v \in Requested : SetLiteral(p, v)

Spec == Init /\ [][Next]_vars

-----------------------------------------------------------------------------
(* The definition to check against. *)

\* What can be known of the slots, with the numbers in t, from those known.
KnownFrom(t, known) ==
  [s \in Slots |->
     LET e == Expr(s)
         operands == [i \in DOMAIN e.of |-> known[Resolve(s, e.of[i])]]
     IN  CASE e.op = "nothing" \/ None \in {operands[i] : i \in DOMAIN e.of} -> None
           [] e.op = "literal" -> t[BindOf(s)]
           [] e.op = "chain" -> operands[1]
           [] OTHER -> IF operands[2] = 0 THEN None ELSE operands[1] \div operands[2]]

\* What the slots mean with the numbers in t: what is known of them after as
\* many steps as there are slots.
Meaning(t) ==
  LET known[k \in 0..Cardinality(Slots)] ==
        IF k = 0 THEN [s \in Slots |-> None] ELSE KnownFrom(t, known[k - 1])
  IN  known[Cardinality(Slots)]

\* All that has to have a meaning has one.
Meaningful(t) ==
  LET meaning == Meaning(t)
  IN  \A p \in Projected : meaning[p] # None \/ (p[1] \in Parts /\ Expr(p) = Nothing)

-----------------------------------------------------------------------------
(* What must hold. *)

\* Evaluation never enters a binding it is in the middle of, so that its calls
\* are no deeper than there are bindings and a cycle ends as a refusal.
TypeOK ==
  /\ text \in Texts
  /\ pc \in {"building", "served", "no model"}
  /\ Len(stack) <= Cardinality(Slots)
  /\ \A i \in DOMAIN stack : stack[i].slot \in Slots
  /\ DOMAIN values \subseteq (Bindings \X (Usages \cup {None}))
  /\ served # None => served.text \in Texts /\ served.editable \subseteq Projected
  /\ edits \in 0..MaxEdits

\* Whatever order the bindings are met in and whoever else reads them, each
\* usage is served the value its own scope gives the expression; and a text is
\* refused exactly when a value cannot be had: a cycle, an unbound operand, a
\* division by zero, not merely because two values read a third.
BuildsWhatItMeans ==
  /\ TypeOK
  /\ pc = "served" =>
       /\ Meaningful(served.text)
       /\ LET meaning == Meaning(served.text) IN \A p \in Projected : served.value[p] = meaning[p]
  /\ refused # None => ~Meaningful(refused)

\* An accepted edit gives the value asked for to the slot asked for, and all
\* else it moves is computed: never a second literal the client did not name,
\* however definitions are shared (exclusive, SR-24).
EditMovesOneLiteral ==
  [][served' # served /\ served # None =>
       /\ served'.value[asked.slot] = asked.value
       /\ \A p \in Projected \ {asked.slot} :
            served'.value[p] # served.value[p] => Expr(Origin(p)).op \in {"chain", "ratio"}]_vars
=============================================================================
