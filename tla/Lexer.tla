-------------------------------- MODULE Lexer --------------------------------
(***************************************************************************)
(* The tokens a text is cut into (adapter/syntax/lexer.go), for every text *)
(* up to a length.  Some characters stand for their kind: "a" for letters  *)
(* other than e, "1" for digits, "-" for signs, "~" for what the notation  *)
(* does not have.  Of the operators that are the same to the code a few    *)
(* are kept, with all that start alike.  That a number is too large, and   *)
(* that a word is a keyword, are left out.                                 *)
(***************************************************************************)
EXTENDS Integers, Sequences, FiniteSets, SequencesExt

CONSTANT Texts   \* [of, upTo]: the characters tried together, and a bound on
                 \* the length of a text of them

VARIABLE src

End == Len(src) + 1

\* The characters from a place on, one, and up to another.
From(i) == SubSeq(src, i, Len(src))
At(i) == IF i < End THEN src[i] ELSE "end"
Begins(word, i) == IsPrefix(word, From(i))

\* In the order of the table.
Operators ==
  <<<<":", ":", ">">>, <<":", ">", ">">>, <<":", ">">>, <<":", ":">>, <<">", "=">>,
    <<":">>, <<"=">>, <<".">>, <<">">>, <<"-">>, <<"*">>, <<"/">>>>
Blanks == {" ", "\n"}
Letters == {"a", "e"}
Digits == {"1"}

\* The first place from i on that is one of these, and the end where none is.
FirstOf(places, i) == Min({j \in places : i <= j} \cup {End})

\* What was read from i up to but not including at: "skip" is dropped.
Reads(kind, i, at) == [kind |-> kind, from |-> i, at |-> at]
Fails(i) == Reads("error", i, End)

-----------------------------------------------------------------------------
(* The lexer. *)

\* A comment or a note, which ends with the first end there is.
ScanTo(kind, i, open) ==
  LET close == FirstOf({j \in DOMAIN src : Begins(<<"*", "/">>, j)}, i + open)
  IN  IF close >= End THEN Fails(i) ELSE Reads(kind, i, close + 2)

\* The first place from i on where none of these characters is.
Past(i, characters) == FirstOf({j \in DOMAIN src : src[j] \notin characters}, i)

ScanExponent(i) ==
  LET digits == IF At(i + 1) = "-" THEN i + 2 ELSE i + 1
  IN  IF At(i) = "e" /\ At(digits) \in Digits THEN Past(digits, Digits) ELSE i

\* Seeded fault: a point belongs to the number before it.
ScanNumberGreedy(i) ==
  LET whole == Past(i, Digits)
  IN  ScanExponent(IF At(whole) = "." THEN Past(whole + 1, Digits) ELSE whole)

ScanNumber(i) ==
  LET whole == Past(i, Digits)
  IN  ScanExponent(IF At(whole) = "." /\ At(whole + 1) \in Digits
                   THEN Past(whole + 1, Digits) ELSE whole)

ScanName(i) ==
  LET close == FirstOf({j \in DOMAIN src : src[j] \in {"'", "\n"}}, i + 1)
  IN  IF At(close) = "'" THEN Reads("name", i, close + 1) ELSE Fails(i)

\* A backslash takes the next character with it, whatever that is.
ScanString(i) ==
  LET after[j \in 1..(End + 1)] ==
        IF j >= End \/ src[j] \in {"\"", "\n"} THEN j
        ELSE after[IF src[j] = "\\" THEN j + 2 ELSE j + 1]
      close == after[i + 1]
  IN  IF At(close) = "\"" THEN Reads("string", i, close + 1) ELSE Fails(i)

\* The first of the table that matches.
MatchOperator(i) ==
  LET matches == {k \in DOMAIN Operators : Begins(Operators[k], i)}
  IN  IF matches = {} THEN Fails(i)
      ELSE Reads("operator", i, i + Len(Operators[Min(matches)]))

LexOne(i) ==
  CASE At(i) \in Blanks -> Reads("skip", i, i + 1)
    [] Begins(<<"/", "/", "*">>, i) -> ScanTo("skip", i, 3)
    [] Begins(<<"/", "/">>, i) /\ At(i + 2) # "*" ->
         Reads("skip", i, FirstOf({j \in DOMAIN src : src[j] = "\n"}, i))
    [] Begins(<<"/", "*">>, i) -> ScanTo("comment", i, 2)
    [] At(i) \in Letters -> Reads("word", i, Past(i, Letters \cup Digits))
    [] At(i) \in Digits -> Reads("number", i, ScanNumber(i))
    [] At(i) = "'" -> ScanName(i)
    [] At(i) = "\"" -> ScanString(i)
    [] OTHER -> MatchOperator(i)

\* All that is read from i on, an error last.
Lex ==
  LET from[i \in 1..(End + 1)] ==
        IF i >= End THEN <<>>
        ELSE LET read == LexOne(i)
             IN  <<read>> \o (IF read.kind = "error" THEN <<>> ELSE from[read.at])
  IN  from[1]

-----------------------------------------------------------------------------
(* The reference: what each kind of token is, and that the longest is taken. *)

Word(i, at) == SubSeq(src, i, at - 1)
Spells(i, at, kind) ==
  LET w == Word(i, at)
      n == Len(w)
      closes == {j \in 1..(n - 1) : w[j] = "*" /\ w[j + 1] = "/"}
      escaped == {j \in 2..n : Cardinality({k \in 1..(j - 1) :
                                 \A m \in k..(j - 1) : w[m] = "\\"}) % 2 = 1}
      digits(a, b) == a <= b /\ \A k \in a..b : w[k] = "1"
      decimal(b) == digits(1, b) \/ \E p \in 2..(b - 1) : w[p] = "." /\ digits(1, p - 1) /\ digits(p + 1, b)
  IN  CASE kind = "skip" ->
             \/ n = 1 /\ w[1] \in Blanks
             \/ IsPrefix(<<"/", "/", "*">>, w) /\ closes \ {1, 2, 3} = {n - 1}
             \/ /\ IsPrefix(<<"/", "/">>, w) /\ (n > 2 => w[3] # "*")
                /\ "\n" \notin Range(w) /\ (n = 2 => At(at) # "*")
        [] kind = "comment" -> IsPrefix(<<"/", "*">>, w) /\ closes \ {1, 2} = {n - 1}
        [] kind = "word" -> w[1] \in Letters /\ Range(w) \subseteq Letters \cup Digits
        [] kind = "number" ->
             \/ decimal(n)
             \/ \E p \in 2..(n - 1) : w[p] = "e" /\ decimal(p - 1)
                  /\ (digits(p + 1, n) \/ (w[p + 1] = "-" /\ digits(p + 2, n)))
        [] kind = "name" -> n > 1 /\ {k \in 1..n : w[k] = "'"} = {1, n} /\ "\n" \notin Range(w)
        [] kind = "string" ->
             /\ n > 1 /\ w[1] = "\"" /\ w[n] = "\"" /\ n \notin escaped
             /\ \A k \in 2..(n - 1) : w[k] \in {"\"", "\n"} => k \in escaped
        [] kind = "operator" -> w \in Range(Operators)

Kinds == {"skip", "comment", "word", "number", "name", "string", "operator"}

\* The lexemes that begin at i.
Lexemes(i) ==
  {Reads(kind, i, at) : <<kind, at>> \in
     {x \in Kinds \X ((i + 1)..End) : Spells(i, x[2], x[1])}}

\* A slash that opens a comment is not an operator.
Opens(i) == Begins(<<"/", "/">>, i) \/ Begins(<<"/", "*">>, i)
Longest(i) ==
  LET all == {l \in Lexemes(i) : l.kind = "operator" => ~Opens(i)}
  IN  {l \in all : \A m \in all : m.at <= l.at}

-----------------------------------------------------------------------------
Init == src = <<>>
Type ==
  \E t \in Texts : \E c \in t.of :
    /\ Range(src) \subseteq t.of /\ Len(src) < t.upTo
    /\ src' = Append(src, c)
Spec == Init /\ [][Type]_src

\* What is read covers the text without a gap, each piece is the longest that
\* can be spelled from where it begins, and a text is refused exactly where
\* nothing can: "the longest match wins" (lexer.go:9-10).
CutsAsSpelled ==
  LET lexed == Lex IN
    /\ \A k \in DOMAIN lexed :
         /\ lexed[k].from = IF k = 1 THEN 1 ELSE lexed[k - 1].at
         /\ Longest(lexed[k].from) = IF lexed[k].kind = "error" THEN {} ELSE {lexed[k]}
    /\ src # <<>> => lexed # <<>> /\ Last(lexed).at = End
=============================================================================
