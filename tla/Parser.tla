------------------------------- MODULE Parser -------------------------------
(***************************************************************************)
(* The recursive-descent parser of the adapter (adapter/syntax), over all  *)
(* texts: stack is the call stack, top first, each entry a word to expect  *)
(* or a function with what is left of it to do; the tokens come one at a   *)
(* time, when the parser looks at them, from what remains of the text.     *)
(* A token is its kind, and its spelling where the parser compares it:     *)
(* "ident" and "quoted" are any other identifier and quoted name, "other"  *)
(* a reserved word no construct uses.  The tree built is left out, but for *)
(* what later steps of the parser ask of it.                               *)
(***************************************************************************)
EXTENDS Notation

CONSTANTS
  Starts,      \* of "Text" and "Anything": what the notation allows, any tokens
  MaxText,     \* bound on the nesting of a text of the notation
  MaxDepth     \* bound on the nesting of any tokens

VARIABLES
  text,        \* what remains to be read
  ahead,       \* the tokens looked at and not consumed
  stack,
  noted,       \* what parseConnect and parseDerivation found and will check
  verdict,     \* "none" until Parse returns
  writing      \* "Text", "Anything", or "Closing": it completes what is open

vars == <<text, ahead, stack, noted, verdict, writing>>

-----------------------------------------------------------------------------
(* Tokens and the cursor. *)

Idents == {"ident", "original", "derive", "derivation"}
Named == Idents \cup {"quoted", "quoted def"}
Keywords == {"package", "doc", "private", "public", "import", "attribute", "item", "port", "abstract",
             "part", "def", "requirement", "verification", "redefines", "connect", "satisfy", "to", "by",
             "in", "out", "inout", "subject", "require", "constraint", "objective", "verify",
             "connection", "end", "other"}
Tokens == Keywords \cup Puncts \cup Named \cup {"number", "string", "comment"}
Words == Tokens \cup {"eof", "name"}

T == IF ahead = <<>> THEN "none" ELSE ahead[1]
U == IF Len(ahead) < 2 THEN "none" ELSE ahead[2]

IsArrow == T = "-" /\ U = ">"
SaysDef == U \in {"def", "quoted def"}   \* the spelling is compared, not the kind

Fits(word) == IF word = "name" THEN T \in Named ELSE T = word

\* next: the end of the file is never passed.
Passed == IF T = "eof" THEN ahead ELSE Tail(ahead)

\* Seeded fault: the end of the file is skipped like a comment.
SkipsTheEnd == T \in {"comment", "eof"}

Skips == T = "comment"

Accept(word, then, otherwise) == IF T = word THEN <<word>> \o then ELSE otherwise

-----------------------------------------------------------------------------
(* The functions: what each does next, given the tokens ahead. *)

\* Seeded fault: :: is taken for part of the name whatever follows it.
NameReadsGreedy == [
  shortName     |-> Accept("<", <<"name", ">">>, <<>>),
  qualifiedName |-> <<"name", "moreNames">>,
  moreNames     |-> Accept("::", <<"name", "moreNames">>, <<>>),
  type          |-> Accept(":", <<"qualifiedName">>, <<>>),
  base          |-> Accept(":>", <<"qualifiedName">>, <<>>),
  parseDoc      |-> <<"doc", "comment">> ]

NameReads == [
  shortName     |-> Accept("<", <<"name", ">">>, <<>>),
  qualifiedName |-> <<"name", "moreNames">>,
  moreNames     |-> IF T = "::" /\ U \notin Puncts THEN <<"::", "name", "moreNames">> ELSE <<>>,
  type          |-> Accept(":", <<"qualifiedName">>, <<>>),
  base          |-> Accept(":>", <<"qualifiedName">>, <<>>),
  parseDoc      |-> <<"doc", "comment">> ]

PackageReads == [
  parsePackage |-> <<"package", "shortName", "name", "{", "inPackage", "}">>,
  parseImport  |-> Accept("private", <<"importPath">>, Accept("public", <<"importPath">>, <<"importPath">>)),
  importPath   |-> <<"import", "qualifiedName", "importAll", ";">>,
  importAll    |-> Accept("::", <<"*">>, <<>>),
  parseItemDef |-> <<"item", "def", "shortName", "name", ";">> ]

PartReads == [
  parsePartDef   |-> Accept("abstract", <<"partDef">>, <<"partDef">>),
  partDef        |-> <<"part", "def", "shortName", "name", "base", "partDefEnd">>,
  partDefEnd     |-> Accept("{", <<"inPartDef", "}">>, <<";">>),
  parsePartUsage |-> <<"part", "shortName", "name", "type", "partUsageEnd">>,
  partUsageEnd   |-> Accept("{", <<"inPart", "}">>, <<";">>) ]

AttributeReads == [
  parseAttribute |-> <<"attribute", "attributeRest">>,
  attributeRest  |-> Accept(":>>", <<"slot">>, Accept("redefines", <<"slot">>, <<"shortName", "slot">>)),
  slot           |-> <<"name", "type", "value", "slotEnd">>,
  value          |-> Accept("=", <<"parseExpr">>, <<>>),
  slotEnd        |-> Accept("{", <<"inAttribute", "}">>, <<";">>) ]

PortReads == [
  parsePortDef      |-> <<"port", "def", "shortName", "name", "portDefEnd">>,
  portDefEnd        |-> Accept(";", <<>>, <<"{", "inPortDef", "}">>),
  parseDirectedItem |-> <<T, "item", "name", "type", ";">>,
  parsePortUsage    |-> <<"port", "shortName", "name", ":", "qualifiedName", ";">> ]

\* An end counts its names: two are wanted, and that is checked when both ends
\* have been read.
ConnectReads == [
  parseConnect |-> <<"connect", "end1", "to", "end1", "checkEnds", ";">>,
  end1         |-> <<"name", "end2">>,
  end2         |-> Accept(".", <<"name", "end3">>, <<"noteEnd">>),
  end3         |-> Accept(".", <<"name", "parseMore", "noteEnd">>, <<>>),
  parseSatisfy |-> <<"satisfy", "parseChain", "by", "parseChain", ";">> ]

RequirementReads == [
  parseRequirementDef   |-> <<"requirement", "def", "shortName", "name", "base", "{", "inRequirement", "}">>,
  parseRequirementUsage |-> <<"requirement", "shortName", "name", "type", "{", "inRequirement", "}">>,
  parseSubject    |-> <<"subject", "subjectName", ";">>,
  subjectName     |-> Accept(":>>", <<"name", "=", "parseChain">>, <<"name", "subjectValue">>),
  subjectValue    |-> Accept(":>", <<"parseChain">>, <<":", "qualifiedName">>),
  parseConstraint |-> <<"require", "constraint", "{", "parseOperand", "parseComparison", "parseOperand", "}">> ]

VerificationReads == [
  parseVerificationDef   |-> <<"verification", "def", "shortName", "name", "{", "inVerification", "}">>,
  parseVerificationUsage |-> <<"verification", "shortName", "name", "type", "{", "inVerification", "}">>,
  parseObjective         |-> <<"objective", "{", "verify", "parseChain", ";", "}">> ]

DerivationReads == [
  parseDerivation |-> <<"#", "derivation", "connection", "{", "inDerivation", "}", "countEnds">>,
  parseEnd        |-> <<"end", "#", "noteKind", "::>", "parseChain", ";", "checkKind">> ]

ExprReads == [
  parseExpr    |-> <<"parseTerm", "moreTerms">>,
  moreTerms    |-> IF T \in {"+", "-"} /\ ~IsArrow THEN <<T, "parseTerm", "moreTerms">> ELSE <<>>,
  parseTerm    |-> <<"parsePrimary", "moreFactors">>,
  moreFactors  |-> IF T \in {"*", "/"} THEN <<T, "parsePrimary", "moreFactors">> ELSE <<>>,
  parsePrimary |-> CASE T \in {"number", "-"} -> <<"parseLiteral">>
                     [] T \in Named -> <<"parseChain">>
                     [] OTHER -> <<"(", "parseExpr", ")">>,
  parseLiteral |-> Accept("-", <<"number", "unit">>, <<"number", "unit">>),
  unit         |-> Accept("[", <<"qualifiedName", "]">>, <<>>),
  parseChain   |-> <<"name", "parseMore">>,
  parseMore    |-> Accept(".", <<"name", "parseMore">>, <<>>),
  parseOperand |-> IF T \in {"number", "-"} THEN <<"parseLiteral">> ELSE <<"parseChain">>,
  parseComparison |-> IF T \in {">=", ">", "<"} THEN <<T>> ELSE <<">=">> ]

Reads == NameReads @@ PackageReads @@ PartReads @@ AttributeReads @@ PortReads @@ ConnectReads
           @@ RequirementReads @@ VerificationReads @@ DerivationReads @@ ExprReads
-----------------------------------------------------------------------------
(* The bodies: the function each first token of a member leads to. *)

InPackage == [
  doc |-> "parseDoc", private |-> "parseImport", public |-> "parseImport", import |-> "parseImport",
  attribute |-> "parseAttribute", item |-> "parseItemDef", port |-> "parsePortDef",
  abstract |-> "parsePartDef",
  part |-> IF SaysDef THEN "parsePartDef" ELSE "parsePartUsage",
  requirement |-> IF SaysDef THEN "parseRequirementDef" ELSE "parseRequirementUsage",
  verification |-> IF SaysDef THEN "parseVerificationDef" ELSE "parseVerificationUsage" ]
  @@ ("#" :> "parseDerivation")

InPartDef == [
  doc |-> "parseDoc", attribute |-> "parseAttribute", port |-> "parsePortUsage", part |-> "parsePartUsage" ]

InPart == InPartDef @@ [connect |-> "parseConnect", satisfy |-> "parseSatisfy"]

InAttribute == [attribute |-> "parseAttribute", redefines |-> "attributeRest"] @@ (":>>" :> "attributeRest")

InPortDef == [d \in {"in", "out", "inout"} |-> "parseDirectedItem"] @@ [doc |-> "parseDoc"]

InRequirement == [
  doc |-> "parseDoc", subject |-> "parseSubject", attribute |-> "parseAttribute", require |-> "parseConstraint" ]

InVerification == [doc |-> "parseDoc", subject |-> "parseSubject", objective |-> "parseObjective"]

InDerivation == [end |-> "parseEnd"]

Members == [
  inPackage |-> InPackage, inPartDef |-> InPartDef, inPart |-> InPart, inAttribute |-> InAttribute,
  inPortDef |-> InPortDef, inRequirement |-> InRequirement, inVerification |-> InVerification,
  inDerivation |-> InDerivation ]

\* The loops that stop at the end of the file too: the others leave it to what
\* refuses a token that is no member.
StopsAtEOF == {"inPackage", "inPartDef", "inPart", "inAttribute"}

\* What once lets a body hold one of.
Singular == {"doc", "subject", "require", "objective"}

-----------------------------------------------------------------------------
(* The steps. *)

Do(symbols) == [i \in DOMAIN symbols |-> [sym |-> symbols[i], had |-> {}]]

Init ==
  /\ writing \in Starts
  /\ text = Do(<<writing>>)
  /\ ahead = <<>>
  /\ stack = Do(<<"parsePackage", "eof">>)
  /\ noted = {}
  /\ verdict = "none"

Refuse(where) ==
  /\ verdict' = where
  /\ text' = <<>>
  /\ ahead' = <<>>
  /\ stack' = <<>>
  /\ UNCHANGED <<noted, writing>>

Top == Head(stack).sym
Checks == {"noteEnd", "checkEnds", "checkKind", "countEnds"}

LooksTwice ==
  \/ Top = "moreNames" /\ T = "::"
  \/ Top = "moreTerms" /\ T = "-"
  \/ Top = "inPackage" /\ T \in {"part", "requirement", "verification"}

Looks ==
  /\ verdict = "none"
  /\ stack # <<>> /\ Top \notin Checks
  /\ ahead = <<>> \/ (LooksTwice /\ Len(ahead) = 1)

Ready == verdict = "none" /\ stack # <<>> /\ ~Looks

\* accept, expect, name: one token consumed.
Take ==
  /\ Ready /\ Top \in Words
  /\ IF Fits(Top)
     THEN /\ ahead' = Passed
          /\ stack' = Tail(stack)
          /\ UNCHANGED <<text, noted, verdict, writing>>
     ELSE Refuse("refused here")

Call ==
  /\ Ready /\ Top \in DOMAIN Reads
  /\ stack' = Do(Reads[Top]) \o Tail(stack)
  /\ UNCHANGED <<text, ahead, noted, verdict, writing>>

\* A body: its end, a comment, a member, or a token that has no place in it.
Loop ==
  /\ Ready /\ Top \in DOMAIN Members
  /\ IF T = "}" \/ (T = "eof" /\ Top \in StopsAtEOF)
     THEN stack' = Tail(stack) /\ UNCHANGED <<text, ahead, noted, verdict, writing>>
     ELSE IF Skips
     THEN ahead' = Passed /\ UNCHANGED <<text, stack, noted, verdict, writing>>
     ELSE IF T \in DOMAIN Members[Top] /\ T \notin Head(stack).had
     THEN /\ stack' = Do(<<Members[Top][T]>>)
                        \o <<[Head(stack) EXCEPT !.had = @ \cup ({T} \cap Singular)]>> \o Tail(stack)
          /\ UNCHANGED <<text, ahead, noted, verdict, writing>>
     ELSE Refuse("refused here")

\* The ends of a connect: a bad one is refused once both have been read.
CheckEnds ==
  /\ Ready
  /\ \/ /\ Top = "noteEnd"
        /\ noted' = noted \cup {"bad end"}
        /\ stack' = Tail(stack)
        /\ UNCHANGED <<text, ahead, verdict, writing>>
     \/ /\ Top = "checkEnds"
        /\ IF "bad end" \in noted
           THEN Refuse("refused further back")
           ELSE stack' = Tail(stack) /\ UNCHANGED <<text, ahead, noted, verdict, writing>>

\* The ends of a derivation: the kind is read first and looked at after the
\* chain, how many there are of each when the body is closed.
NoteKind ==
  /\ Ready /\ Top = "noteKind"
  /\ IF T \in Idents
     THEN /\ noted' = noted \cup {IF T \in {"original", "derive"} THEN T \o " read" ELSE "unknown read"}
          /\ ahead' = Passed
          /\ stack' = Tail(stack)
          /\ UNCHANGED <<text, verdict, writing>>
     ELSE Refuse("refused here")

CheckKind ==
  /\ Ready /\ Top = "checkKind"
  /\ IF "unknown read" \in noted
     THEN Refuse("refused further back")
     ELSE /\ noted' = (noted \ {"original read", "derive read"})
                        \cup (IF "derive read" \in noted THEN {"derive"}
                              ELSE IF "original" \in noted THEN {"second original"} ELSE {"original"})
          /\ stack' = Tail(stack)
          /\ UNCHANGED <<text, ahead, verdict, writing>>

\* Seeded fault: off by one, a single original is refused.
CountEndsOffByOne ==
  /\ Ready /\ Top = "countEnds"
  /\ IF "second original" \in noted /\ "derive" \in noted
     THEN /\ noted' = {}
          /\ stack' = Tail(stack)
          /\ UNCHANGED <<text, ahead, verdict, writing>>
     ELSE Refuse("refused further back")

CountEnds ==
  /\ Ready /\ Top = "countEnds"
  /\ IF "original" \in noted /\ "second original" \notin noted /\ "derive" \in noted
     THEN /\ noted' = {}
          /\ stack' = Tail(stack)
          /\ UNCHANGED <<text, ahead, verdict, writing>>
     ELSE Refuse("refused further back")

Accepted ==
  /\ verdict = "none" /\ stack = <<>>
  /\ verdict' = "accepted"
  /\ UNCHANGED <<text, ahead, stack, noted, writing>>

-----------------------------------------------------------------------------
(* The text. *)

\* The next token of the shortest text that closes all that is open.
RECURSIVE Wanted(_)
Wanted(s) ==
  LET top == Head(s).sym
  IN  CASE top = "name" \/ top = "parsePrimary" -> "ident"
        [] top = "end2" -> "."
        [] top = "noteKind" -> IF "original" \in noted THEN "derive" ELSE "original"
        [] top = "inDerivation" /\ ~({"original", "derive"} \subseteq noted) -> "end"
        [] top \in DOMAIN Members -> "}"
        [] top \in Words -> top
        [] top \in Checks -> Wanted(Tail(s))
        [] OTHER -> Wanted(Do(Reads[top]) \o Tail(s))

Write ==
  /\ Looks
  /\ UNCHANGED <<stack, noted, verdict, writing>>
  /\ LET node == Head(text)
     IN  \/ /\ node.sym \in Words
            /\ ahead' = Append(ahead, node.sym)
            /\ text' = Tail(text)
         \/ /\ node.sym \in DOMAIN Forms \cup DOMAIN Holds
            /\ \E form \in WrittenAs(node) :
                 /\ Len(form) + Len(text) <= MaxText
                 /\ text' = form \o Tail(text)
            /\ UNCHANGED ahead
         \/ /\ node.sym = "Anything"
            /\ \E t \in Tokens \cup {"eof"} :
                 /\ t \in {"{", "("} => Len(stack) <= MaxDepth
                 /\ ahead' = Append(ahead, t)
                 /\ text' = IF t = "eof" THEN <<>> ELSE text
         \/ /\ node.sym = "Closing"
            /\ ahead' = Append(ahead, Wanted(stack))
            /\ UNCHANGED text

Close ==
  /\ writing = "Anything"
  /\ Looks /\ ahead = <<>>
  /\ text' = Do(<<"Closing">>)
  /\ writing' = "Closing"
  /\ UNCHANGED <<ahead, stack, noted, verdict>>

Next ==
  \/ Take \/ Call \/ Loop
  \/ CheckEnds \/ NoteKind \/ CheckKind \/ CountEnds
  \/ Accepted
  \/ Write \/ Close

Spec == Init /\ [][Next]_vars /\ WF_vars(Next)

-----------------------------------------------------------------------------
Refused == verdict \in {"refused here", "refused further back"}

\* What has been read can no longer be part of an accepted text, and the parser
\* has yet to say so.
Doomed ==
  \/ noted \cap {"bad end", "unknown read", "second original"} # {}
  \/ {"original", "original read"} \subseteq noted

\* A usage in a package whose name is 'def', in quotes: the parser has begun to
\* read a definition and finds the name where it expects the keyword.
NamedDef == Top = "def" /\ T = "quoted def"

\* Every text of the notation is accepted: the lookahead, the optional parts and
\* the ends of the loops never turn one away (parser.go:202-620, expr.go:8-94).
\* The one exception is a part, requirement or verification that a package uses
\* under the quoted name 'def': that name has the spelling of the keyword, which
\* is all parsePackage compares (parser.go:216, 220, 224), and is refused.
AcceptsTheNotation ==
  [][writing = "Text" =>
       /\ Refused' => Refused \/ NamedDef
       /\ text' = <<>> => ~Looks']_vars

\* Whatever the parser has read without refusing it begins an accepted text,
\* but for what parseConnect and parseDerivation check late: a refusal is not
\* put off, and no body is entered that cannot be left.
CanBeCompleted == writing = "Closing" /\ ~Doomed => ~Refused

\* Parse returns on every text that ends, in the four loops too that do not
\* look for its end (parser.go:386, 478, 562, 614).
ParseReturns == (writing = "Closing" \/ T = "eof" \/ U = "eof") ~> verdict # "none"
=============================================================================
