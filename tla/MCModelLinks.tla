---------------------------- MODULE MCModelLinks ----------------------------
(* Declarations for ModelLinks.  The prelude has every relation.  What is     *)
(* declared besides has parts of one name at different depths, a name that is *)
(* a part's and a requirement's, one short name twice, connections the wrong  *)
(* way round, and second definitions of each kind, on which hangs what the    *)
(* source says or whether it is accepted.                                     *)
EXTENDS ModelLinks

Attr(name) == [name |-> name, redefines |-> FALSE]
Redef(name) == [name |-> name, redefines |-> TRUE]
Port(name, type) == [name |-> name, type |-> type]
End(part, port) == [part |-> part, port |-> port]

PartDef(name, base, attributes, ports, parts) ==
  [kind |-> "partDef", name |-> name, base |-> base, attributes |-> attributes, ports |-> ports, parts |-> parts]
PartOf(name, short, type, parts, connects, satisfies) ==
  [kind |-> "part", name |-> name, short |-> short, type |-> type, attributes |-> <<>>, ports |-> <<>>,
   parts |-> parts, connects |-> connects, satisfies |-> satisfies]
Req(name, short, type, subject, constraint) ==
  [kind |-> "requirement", name |-> name, short |-> short, type |-> type, subject |-> subject,
   constraint |-> constraint]

In == [kind |-> "portDef", name |-> "In", items |-> <<"in">>]
Out == [kind |-> "portDef", name |-> "Out", items |-> <<"out">>]
Server == PartDef("Server", None, <<Attr("q")>>, <<Port("i", "In"), Port("o", "Out")>>, <<>>)
Q == [through |-> <<>>, quantity |-> "q"]

Fast == PartDef("Fast", "Server", <<Redef("q")>>, <<>>, <<>>)
Speed == [kind |-> "requirementDef", name |-> "Speed", constraint |-> [through |-> <<"b">>, quantity |-> "q"]]
Box ==
  PartOf("box", None, None, <<PartOf("a", None, "Server", <<>>, <<>>, <<>>),
                              PartOf("b", None, "Fast", <<>>, <<>>, <<>>)>>,
         <<[from |-> End("a", "o"), to |-> End("b", "i")]>>,
         <<[requirement |-> <<"r">>, by |-> <<"a">>]>>)
R == Req("r", None, "Speed", <<"box">>, None)
S == Req("s", "S", None, <<"box", "a">>, Q)
Check == [kind |-> "verificationDef", name |-> "Check", verifies |-> <<"s">>]
Case == [kind |-> "verification", name |-> "v", short |-> None, type |-> "Check", verifies |-> <<"r">>]
Derives == [kind |-> "derivation", original |-> <<"r">>, derives |-> <<<<"s">>>>]

Full == <<In, Out, Server, Fast, Speed, Box, R, S, Check, Case, Derives>>

A == PartOf("a", None, "Server", <<>>, <<>>, <<>>)
Short == PartOf("a", "S", "Server", <<>>, <<>>, <<>>)
Outer == PartOf("b", None, None, <<A>>, <<>>, <<[requirement |-> <<"s">>, by |-> <<"a">>]>>)
Reversed ==
  PartOf("c", None, "Server", <<PartOf("a", "T", "Server", <<>>, <<>>, <<>>)>>,
         <<[from |-> End("a", "i"), to |-> End("a", "o")]>>, <<>>)
Deep == Req("a", None, None, <<"box">>, [through |-> <<"a">>, quantity |-> "q"])
Further == [kind |-> "derivation", original |-> <<"s">>, derives |-> <<<<"r">>, <<"s">>>>]
Recheck == [kind |-> "verificationDef", name |-> "Check", verifies |-> <<"r">>]
Respeed == [kind |-> "requirementDef", name |-> "Speed", constraint |-> [through |-> <<"a">>, quantity |-> "q"]]
Twice == PartDef("Fast", "Server", <<>>, <<Port("i", "In")>>, <<>>)
Wide == [kind |-> "portDef", name |-> "In", items |-> <<"in", "out">>]

More == {A, Short, Outer, Reversed, Deep, Further, Recheck, Respeed, Twice, Wide}
=============================================================================
