----------------------------- MODULE MCRollup ------------------------------
(* Children, values and wirings for Rollup and Verdict. *)
EXTENDS Verdict

CONSTANTS A, B, C, D, Elsewhere

Four == <<A, B, C, D>>

\* Every wiring of four children that runs one way: fan-out, fan-in, branches
\* that cross, children left alone.
OneWay ==
  SUBSET {<<Four[w[1]], Four[w[2]]>> : w \in {x \in (1..4) \X (1..4) : x[1] < x[2]}}

\* Every wiring of three, cycles and a child wired to itself or to a part that
\* is not a child included.
AnyWay ==
  SUBSET ((({A, B, C} \X {A, B, C}) \ {<<B, B>>, <<C, C>>}) \cup {<<A, Elsewhere>>})

MCValues == {Missing, -1, 0, 1, 2}

\* Of four in two groups, with what loops in either and what may join them.
Apart == SUBSET {<<A, B>>, <<B, B>>, <<B, C>>, <<C, C>>, <<C, D>>}

\* Of the wirings of three the fourth child is left alone.
Odd == {v \in [{A, B, C, D} -> {Missing, -1, 0, 2}] : v[D] = 0}
MCInputs ==
  [value : [{A, B, C, D} -> {0, 1, 2}], wires : OneWay] \cup [value : Odd, wires : AnyWay]
  \cup [value : [{A, B, C, D} -> {0, 2}], wires : Apart]
=============================================================================
