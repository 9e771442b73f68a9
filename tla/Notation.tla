------------------------------ MODULE Notation ------------------------------
(***************************************************************************)
(* The notation the parser is to accept, written as a grammar of the texts *)
(* the tree of adapter/syntax/ast.go has a place for: the reference the    *)
(* Parser module is compared with.  A form is a sequence of words (tokens, *)
(* in lower case or punctuation) and of nodes (in upper case).  A node     *)
(* whose name begins with "In" is a body: any number of its members, a     *)
(* singular one at most once, a needed one at least once.                  *)
(***************************************************************************)
EXTENDS Integers, Sequences, FiniteSets, TLC

CONSTANT NameTokens   \* the tokens names are written with

Puncts == {"{", "}", "(", ")", "[", "]", ";", ":", "=", ".", ",", "<", ">", "+", "-", "*", "/",
           "#", "::", ":>", ":>>", "::>", ">="}

Some == {<<>>}
Option(form) == {<<>>, form}

Names == [
  Name   |-> {<<n>> : n \in NameTokens},
  Short  |-> Option(<<"<", "Name", ">">>),
  Path   |-> {<<"Name">>, <<"Name", "::", "Path">>},
  Chain  |-> {<<"Name">>, <<"Name", ".", "Chain">>},
  Typed  |-> Option(<<":", "Path">>),
  Base   |-> Option(<<":>", "Path">>),
  Doc    |-> {<<"doc", "comment">>},
  Remark |-> {<<"comment">>} ]

Declarations == [
  Text    |-> {<<"Package", "eof">>},
  Package |-> {<<"package", "Short", "Name", "{", "InPackage", "}">>},
  Import  |-> {v \o <<"import", "Path">> \o all \o <<";">> :
                 v \in Some \cup {<<"private">>, <<"public">>}, all \in Option(<<"::", "*">>)},
  ItemDef |-> {<<"item", "def", "Short", "Name", ";">>},
  PortDef |-> {<<"port", "def", "Short", "Name", ";">>,
               <<"port", "def", "Short", "Name", "{", "InPortDef", "}">>},
  Item    |-> {<<d, "item", "Name", "Typed", ";">> : d \in {"in", "out", "inout"}},
  Port    |-> {<<"port", "Short", "Name", ":", "Path", ";">>},
  PartDef |-> {a \o <<"part", "def", "Short", "Name", "Base">> \o body :
                 a \in Option(<<"abstract">>), body \in {<<";">>, <<"{", "InPartDef", "}">>}},
  Part    |-> {<<"part", "Short", "Name", "Typed">> \o body :
                 body \in {<<";">>, <<"{", "InPart", "}">>}},
  Connect |-> {<<"connect", "Name", ".", "Name", "to", "Name", ".", "Name", ";">>},
  Satisfy |-> {<<"satisfy", "Chain", "by", "Chain", ";">>} ]

Attributes == [
  Attribute |-> {<<"attribute", "Slot">>},
  Binding   |-> {<<r, "Name", "Typed", "Bound", "SlotEnd">> : r \in {":>>", "redefines"}},
  Slot      |-> {<<r, "Name", "Typed", "Bound", "SlotEnd">> : r \in {":>>", "redefines", "Short"}},
  SlotEnd   |-> {<<";">>, <<"{", "InAttribute", "}">>},
  Bound     |-> Option(<<"=", "Expression">>),
  Expression |-> {<<"Operand">>} \cup {<<"Operand", op, "Expression">> : op \in {"+", "-", "*", "/"}},
  Operand   |-> {<<"Literal">>, <<"Chain">>, <<"(", "Expression", ")">>},
  Literal   |-> {sign \o <<"number">> \o unit :
                   sign \in Option(<<"-">>), unit \in Option(<<"[", "Path", "]">>)} ]

Requirements == [
  RequirementDef |-> {<<"requirement", "def", "Short", "Name", "Base", "{", "InRequirement", "}">>},
  Requirement    |-> {<<"requirement", "Short", "Name", "Typed", "{", "InRequirement", "}">>},
  Subject        |-> {<<"subject", "Name", ":", "Path", ";">>,
                      <<"subject", ":>>", "Name", "=", "Chain", ";">>,
                      <<"subject", "Name", ":>", "Chain", ";">>},
  Constraint     |-> {<<"require", "constraint", "{", "Side", c, "Side", "}">> : c \in {">=", ">", "<"}},
  Side           |-> {<<"Literal">>, <<"Chain">>},
  VerificationDef |-> {<<"verification", "def", "Short", "Name", "{", "InVerification", "}">>},
  Verification   |-> {<<"verification", "Short", "Name", "Typed", "{", "InVerification", "}">>},
  Objective      |-> {<<"objective", "{", "verify", "Chain", ";", "}">>},
  Derivation     |-> {<<"#", "derivation", "connection", "{", "InDerivation", "}">>},
  Original       |-> {<<"end", "#", "original", "::>", "Chain", ";">>},
  Derive         |-> {<<"end", "#", "derive", "::>", "Chain", ";">>} ]

Forms == Names @@ Declarations @@ Attributes @@ Requirements

Holds == [
  InPackage      |-> {"Remark", "Doc", "Import", "Attribute", "ItemDef", "PortDef", "PartDef", "Part",
                      "RequirementDef", "Requirement", "VerificationDef", "Verification", "Derivation"},
  InPortDef      |-> {"Remark", "Doc", "Item"},
  InPartDef      |-> {"Remark", "Doc", "Attribute", "Port", "Part"},
  InPart         |-> {"Remark", "Doc", "Attribute", "Port", "Part", "Connect", "Satisfy"},
  InAttribute    |-> {"Remark", "Attribute", "Binding"},
  InRequirement  |-> {"Remark", "Doc", "Subject", "Attribute", "Constraint"},
  InVerification |-> {"Remark", "Doc", "Subject", "Objective"},
  InDerivation   |-> {"Remark", "Original", "Derive"} ]

AtMostOnce == {"Doc", "Subject", "Constraint", "Objective", "Original"}
AtLeastOnce(body) == IF body = "InDerivation" THEN {"Original", "Derive"} ELSE {}

\* What a node may be written as, node.had the members a body has had.
WrittenAs(node) ==
  IF node.sym \in DOMAIN Forms
  THEN {[i \in DOMAIN form |-> [sym |-> form[i], had |-> {}]] : form \in Forms[node.sym]}
  ELSE (IF AtLeastOnce(node.sym) \subseteq node.had THEN Some ELSE {})
       \cup {<<[sym |-> m, had |-> {}],
               [node EXCEPT !.had = @ \cup ({m} \cap (AtMostOnce \cup AtLeastOnce(node.sym)))]>> :
               m \in {n \in Holds[node.sym] : n \notin AtMostOnce \/ n \notin node.had}}
=============================================================================
