------------------------------ MODULE MCParser ------------------------------
(* Parser, and Expression and Lexer beside it: where no text is written, an   *)
(* expression is tried instead, or a text of characters.                      *)
EXTENDS Parser

CONSTANTS Alphabet, MaxTokens

VARIABLES toks, src

\* Comments and notes, numbers, strings and names, operators, and all together.
Texts ==
  {[of |-> {"/", "*", "\n", "a"}, upTo |-> 7],
   [of |-> {"1", ".", "e", "-", "a"}, upTo |-> 6],
   [of |-> {"\"", "'", "\\", "\n", "a"}, upTo |-> 6],
   [of |-> {":", ">", "=", "/", "~", " "}, upTo |-> 5],
   [of |-> {"/", "*", "\n", "a", "e", "1", ".", "-", "'", "\"", "\\", ":", "~"}, upTo |-> 4]}

Tree == INSTANCE Expression
Cut == INSTANCE Lexer

MCInit == Init /\ Tree!Init /\ Cut!Init

MCNext ==
  \/ Next /\ UNCHANGED <<toks, src>>
  \/ writing = "Nothing" /\ src = <<>> /\ Tree!Append1 /\ UNCHANGED <<vars, src>>
  \/ writing = "Nothing" /\ toks = <<>> /\ Cut!Type /\ UNCHANGED <<vars, toks>>

MCSpec == MCInit /\ [][MCNext]_<<vars, toks, src>> /\ WF_vars(Next)

\* An expression is read into the one tree that yields its tokens and respects
\* rank and grouping, and an arrow ends it (expr.go:7-84; see Expression); and
\* its tokens are cut from the text as they are spelled (lexer.go:9-127).
ReadsAsWritten == writing = "Nothing" => Tree!ReadsAsWritten /\ Cut!CutsAsSpelled
=============================================================================
