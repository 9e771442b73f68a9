--------------------------- MODULE MCModelBuild ----------------------------
(* Two parts of one specialized definition, two requirements of another. *)
EXTENDS ModelBuild

CONSTANTS a, b, r, q, Base, Special, Demand

MCParts == {a, b}
MCReqs == {r, q}
MCNames == {"x", "y"}
MCOwners ==
  [u \in {a, b, r, q} |->
     CASE u = a -> <<Base, Special, a>>
       [] u = b -> <<Base, b>>
       [] OTHER -> <<Demand, u>>]
MCSubject == [u \in {r, q} |-> IF u = r THEN a ELSE b]
MCOrder ==
  <<<<r, "require">>, <<q, "require">>, <<a, "x">>, <<a, "y">>, <<b, "x">>, <<b, "y">>>>

MCRequested == {-1, 0, 4}

Own(n) == Chain(<<"own", n>>)

\* Every choice of what each place in the source holds; all else is nothing.
Bound ==
  [base_x : {Nothing, Literal},
   base_y : {Own("x"), Literal, Ratio(<<"own", "x">>, <<b, "x">>)},
   special_x : {Nothing, Literal, Chain(<<b, "y">>)},
   a_y : {Nothing, Literal, Chain(<<r, "limit">>)},
   b_x : {Nothing, Literal, Chain(<<a, "y">>)},
   demand_limit : {Nothing, Literal, Chain(<<"subject", "x">>)},
   demand_require : {Literal, Own("limit")},
   q_limit : {Nothing, Literal}]

MCSources ==
  {[bound \in Bindings |->
      CASE bound = <<Base, "x">> -> c.base_x
        [] bound = <<Base, "y">> -> c.base_y
        [] bound = <<Special, "x">> -> c.special_x
        [] bound = <<a, "y">> -> c.a_y
        [] bound = <<b, "x">> -> c.b_x
        [] bound = <<Demand, "limit">> -> c.demand_limit
        [] bound = <<Demand, "require">> -> c.demand_require
        [] bound = <<q, "limit">> -> c.q_limit
        [] OTHER -> Nothing] : c \in Bound}
=============================================================================
