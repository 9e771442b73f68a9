------------------------------ MODULE MCEditing -----------------------------
(* Values of Editing's constants for TLC. *)
EXTENDS Editing

CONSTANTS A, A1, B, t1, t2

\* Prose on top, its id "n1"; a requirement with a derived one; a heading.
MCShipped == {1, A, A1, B}
MCShippedKids ==
  [n \in MCShipped \cup {Root} |->
     CASE n = Root -> <<1, A, B>> [] n = A -> <<A1>> [] OTHER -> <<>>]
MCShippedKind ==
  [n \in MCShipped |-> CASE n = 1 -> "prose" [] n = B -> "heading" [] OTHER -> "requirement"]

\* Before the first, after the first, past the end.
MCIndices == {-1, 1, 9}

=============================================================================
