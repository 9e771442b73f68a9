---------------------------- MODULE MCModelStore ----------------------------
(* Values of ModelStore's constants for TLC. *)
EXTENDS ModelStore, Integers

CONSTANTS capacity, divisor, derived    \* three literals

MCLiterals == {capacity, divisor, derived}

\* -1 stands for what SR-25 refuses; derived is a literal two values share.
MCRequested == {-1, 0, 1}
MCValues == {0, 1}

\* Some expression divides by divisor.
MCTexts == {t \in [MCLiterals -> MCValues] : t[divisor] # 0}
MCShipped == [l \in MCLiterals |-> 1]
=============================================================================
