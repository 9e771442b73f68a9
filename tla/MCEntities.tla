----------------------------- MODULE MCEntities -----------------------------
(* Three representations of two types, for each subgraph; and Execution        *)
(* beside it: where nothing is asked with representations, an operation is     *)
(* executed instead.                                                           *)
EXTENDS Entities, Execution

MCTypes == {"Part", "Requirement"}
MCIds == {"p", "r"}
MCKnown == [t \in MCTypes |-> IF t = "Part" THEN {"p"} ELSE {"r"}]

\* Only representations that differ to the code: what is not looked at is
\* left at one value.
Distinct ==
    \A i \in Places :
        LET r == rep[i] IN
        /\ r.type \notin MCTypes => r.id = "p" /\ r.fits
        /\ r.id \notin {"p", "r"} => r.fits
        /\ ~r.fits => subgraph = "capacity"

-----------------------------------------------------------------------------
(* The operations executed. *)

On(s, t) == {[on |-> t, name |-> n] : n \in DOMAIN s.fields[t]}
Of(s, f) == s.fields[f.on][f.name].of
Selected(s, f) ==
    UNION {On(s, t) : t \in IF Of(s, f) = AnyEntity THEN s.entities ELSE {Of(s, f)}}
Leaves(s, f) == {g \in Selected(s, f) : Of(s, g) = Leaf}
Inner(s, f) == Selected(s, f) \ Leaves(s, f)

\* A leaf that may be nil or fail.
Open(s, f) ==
    {g \in Leaves(s, f) : s.fields[g.on][g.name].is \cap {"pointer", "resolver"} # {}}

\* Two of them, the order of no account.
Two(fields) == {<<CHOOSE g \in t : TRUE, CHOOSE g \in t : g # CHOOSE h \in t : TRUE>> :
                  t \in kSubset(2, fields)}

\* Every leaf two or three steps down, and there every two that may be null.
Asked(s, root) ==
    UNION {{<<<<f, g>>>> : g \in Leaves(s, f)}
           \cup {<<<<f, g>>, <<f, h>>>> : <<g, h>> \in Two(Open(s, f))}
           \cup UNION {{<<<<f, g, h>>>> : h \in Leaves(s, g)}
                       \cup {<<<<f, g, h>>, <<f, g, i>>>> : <<h, i>> \in Two(Open(s, g))} :
                       g \in Inner(s, f)} : f \in On(s, root)}

\* A relation beside another below a list of a list.
F(t, n) == [on |-> t, name |-> n]
Deep ==
    LET parts == <<F("Query", "model"), F("Model", "parts")>>
        entities == <<F("Query", "_entities")>> IN
    {<<parts \o <<F("Part", "satisfies"), F("Requirement", "text")>>,
       parts \o <<F("Part", "doc")>>>>,
     <<entities \o <<F("Requirement", "satisfiedBy"), F("Part", "id")>>,
       entities \o <<F("Requirement", "verifiedBy"), F("VerificationCase", "id")>>>>,
     <<entities \o <<F("Part", "id")>>, <<F("Query", "part"), F("Part", "name")>>>>}

\* Mutations one after the other, what is selected on each looked up.
Twice ==
    LET lift == <<F("Mutation", "setAttribute"), F("Part", "satisfies"), F("Requirement", "id")>>
        limit == <<F("Mutation", "setLimit"), F("Requirement", "subject"), F("Part", "id")>>
        reset == <<F("Mutation", "resetModel"), F("Model", "version")>> IN
    {<<lift, limit>>, <<limit, reset>>, <<reset, lift>>}

Edits ==
    {<<<<F("Mutation", "moveNode"), F("Document", "version")>>,
       <<F("Mutation", "addProse"), F("Document", "nodes"), F("Node", "text")>>>>}

Ask(subs, root, paths) == [subgraph : {subs}, root : {root}, paths : paths]
Idle == [subgraph |-> "adapter", root |-> "none", paths |-> <<>>]

MCRequests ==
    UNION {{Idle},
           Ask("adapter", "Query", Asked(Adapter, "Query") \cup Deep),
           Ask("adapter", "Mutation", Asked(Adapter, "Mutation") \cup Twice),
           Ask("capacity", "Query", Asked(Capacity, "Query")),
           Ask("document", "Query", Asked(Document, "Query")),
           Ask("document", "Mutation", Asked(Document, "Mutation") \cup Edits)}

ASSUME MCRequestsAreExecutable == \A r \in MCRequests \ {Idle} : Executable(r)


-----------------------------------------------------------------------------
One == [i \in Places |-> [type |-> "Part", id |-> "p", fits |-> TRUE]]

MCInit ==
    /\ ExecInit
    /\ request # Idle => subgraph = "adapter" /\ rep = One
    /\ Init
    /\ Distinct

\* The operation has been answered.
Responded == response # "pending" /\ UNCHANGED <<vars, execVars>>

MCNext ==
    \/ request = Idle /\ Next /\ UNCHANGED execVars
    \/ request # Idle /\ ExecNext /\ UNCHANGED vars
    \/ request # Idle /\ Responded

MCSpec == MCInit /\ [][MCNext]_<<vars, execVars>>
=============================================================================
