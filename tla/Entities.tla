------------------------------ MODULE Entities ------------------------------
(***************************************************************************)
(* One _entities field in a subgraph: the router sends representations,    *)
(* the subgraph groups them by type, resolves each in a goroutine of its   *)
(* own, and answers with one list.  The adapter reads the model pinned to  *)
(* the operation, the document service its tree at the moment it has the   *)
(* lock, the capacity service nothing but the representation.              *)
(***************************************************************************)
EXTENDS Integers, FiniteSets

CONSTANTS
    N,           \* the number of representations in the field
    Types,       \* the types the schemas declare
    Ids,         \* identifiers
    Known,       \* Known[t]: the ids of the model's elements of type t
    MaxVersion   \* bound: the highest version reached while the field runs

Places == 1 .. N

Subgraphs == {"adapter", "document", "capacity"}

\* What a representation may have where its type, its id or the fields the
\* capacity service requires should be.
NoType == "no type"
OtherType == "type of another subgraph"
NoId == "no id"
NullId == "null"
BadId == "not an id"
None == [type |-> NoType, id |-> NoId, version |-> 0]   \* a null in the list

ASSUME EntitiesAssumption ==
    /\ N \in Nat
    /\ IsFiniteSet(Types)
    /\ Known \in [Types -> SUBSET Ids]
    /\ NoType \notin Types /\ OtherType \notin Types
    /\ {NoId, NullId, BadId} \cap Ids = {}
    /\ MaxVersion \in Nat

TypeNames == Types \cup {OtherType}

Representation ==
    [type : TypeNames \cup {NoType}, id : Ids \cup {NoId, NullId, BadId},
     fits : BOOLEAN]

Entity == [type : Types, id : Ids, version : Nat]

\* The types a subgraph can resolve.
Resolves(s) ==
    CASE s = "adapter" -> Types
      [] s = "document" -> Types \cap {"Requirement"}
      [] s = "capacity" -> Types \cap {"Part", "Requirement"}

VARIABLES
    subgraph,   \* which subgraph this is
    rep,        \* the representations
    version,    \* the version of what the subgraph holds
    pinned,     \* the version when the operation began
    caller,     \* where __resolve_entities is
    group,      \* group[t]: the places of the representations of type t
    next,       \* the place buildRepresentationGroups has come to
    outer,      \* the counter of the WaitGroup of the groups
    inner,      \* inner[t]: the counter of the WaitGroup of group t
    started,    \* started[t]: group t has started its goroutines
    worker,     \* worker[i]: where the goroutine of representation i is
    found,      \* found[i]: what it holds, an entity or an error
    list,       \* the answer
    reported    \* reported[i]: errors reported of representation i

vars == <<subgraph, rep, version, pinned, caller, group, next, outer,
          inner, started, worker, found, list, reported>>

TypeOK ==
    /\ subgraph \in Subgraphs
    /\ rep \in [Places -> Representation]
    /\ version \in Nat /\ pinned \in Nat /\ pinned <= version
    /\ caller \in {"grouping", "waiting", "returned"}
    /\ group \in [TypeNames -> SUBSET Places]
    /\ next \in 1 .. N + 1
    /\ outer \in Nat
    /\ inner \in [TypeNames -> Nat]
    /\ started \in [TypeNames -> {"no", "yes", "done"}]
    /\ worker \in [Places -> {"none", "resolving", "holding", "leaving", "done"}]
    /\ found \in [Places -> Entity \cup {None}]
    /\ list \in [Places -> Entity \cup {None}]
    /\ reported \in [Places -> Nat]

Init ==
    /\ subgraph \in Subgraphs
    /\ rep \in [Places -> Representation]
    /\ version = 1 /\ pinned = 1
    /\ caller = "grouping"
    /\ group = [t \in TypeNames |-> {}]
    /\ next = 1
    /\ outer = 0
    /\ inner = [t \in TypeNames |-> 0]
    /\ started = [t \in TypeNames |-> "no"]
    /\ worker = [i \in Places |-> "none"]
    /\ found = [i \in Places |-> None]
    /\ list = [i \in Places |-> None]
    /\ reported = [i \in Places |-> 0]

-----------------------------------------------------------------------------
\* A representation without a type is reported and skipped, any other one
\* joins the group of its type.
Group ==
    /\ caller = "grouping" /\ next <= N
    /\ next' = next + 1
    /\ LET r == rep[next] IN
         IF r.type = NoType
         THEN reported' = [reported EXCEPT ![next] = @ + 1] /\ group' = group
         ELSE group' = [group EXCEPT ![r.type] = @ \cup {next}] /\ reported' = reported
    /\ UNCHANGED <<subgraph, rep, version, pinned, caller, outer, inner,
                   started, worker, found, list>>

Groups == {t \in TypeNames : group[t] # {}}

\* The groups are handed out, each to a goroutine: a single one runs in the
\* caller, which is the same to everyone else, and none returns at once.
Dispatch ==
    /\ caller = "grouping" /\ next = N + 1
    /\ caller' = "waiting"
    /\ outer' = Cardinality(Groups)
    /\ UNCHANGED <<subgraph, rep, version, pinned, group, next, inner,
                   started, worker, found, list, reported>>

\* A group counts its representations and starts a goroutine for each.
StartGroup(t) ==
    /\ caller = "waiting" /\ t \in Groups /\ started[t] = "no"
    /\ started' = [started EXCEPT ![t] = "yes"]
    /\ inner' = [inner EXCEPT ![t] = Cardinality(group[t])]
    /\ worker' = [i \in Places |-> IF i \in group[t] THEN "resolving" ELSE worker[i]]
    /\ UNCHANGED <<subgraph, rep, version, pinned, caller, group, next,
                   outer, found, list, reported>>

\* What the subgraph makes of a representation, its own state being at v.
Answered(r, v) == [type |-> r.type, id |-> r.id, version |-> v]

Keyed(r) == r.id \notin {NoId, NullId, BadId}

AdapterFinds(r) ==
    IF r.type \in Resolves("adapter") /\ Keyed(r) /\ r.id \in Known[r.type]
    THEN Answered(r, pinned)
    ELSE None

\* Any id is answered, with its place in the tree or without one.
DocumentFinds(r) ==
    IF r.type \in Resolves("document") /\ Keyed(r) THEN Answered(r, version) ELSE None

\* The rest of the representation is read into the entity.
CapacityFinds(r) ==
    IF r.type \in Resolves("capacity") /\ Keyed(r) /\ r.fits THEN Answered(r, pinned) ELSE None

Find(r) ==
    CASE subgraph = "adapter" -> AdapterFinds(r)
      [] subgraph = "document" -> DocumentFinds(r)
      [] subgraph = "capacity" -> CapacityFinds(r)

Resolve(i) ==
    /\ worker[i] = "resolving"
    /\ worker' = [worker EXCEPT ![i] = "holding"]
    /\ found' = [found EXCEPT ![i] = Find(rep[i])]
    /\ UNCHANGED <<subgraph, rep, version, pinned, caller, group, next,
                   outer, inner, started, list, reported>>

\* Seeded fault: the place in the group for the place in the list.
WriteByRank(i) ==
    LET rank == Cardinality({j \in group[rep[i].type] : j <= i}) IN
    /\ worker[i] = "holding"
    /\ worker' = [worker EXCEPT ![i] = "leaving"]
    /\ IF found[i] = None
       THEN reported' = [reported EXCEPT ![i] = @ + 1] /\ list' = list
       ELSE list' = [list EXCEPT ![rank] = found[i]] /\ reported' = reported
    /\ UNCHANGED <<subgraph, rep, version, pinned, caller, group, next,
                   outer, inner, started, found>>

\* The entity goes where its representation was, an error to the response.
Write(i) ==
    /\ worker[i] = "holding"
    /\ worker' = [worker EXCEPT ![i] = "leaving"]
    /\ IF found[i] = None
       THEN reported' = [reported EXCEPT ![i] = @ + 1] /\ list' = list
       ELSE list' = [list EXCEPT ![i] = found[i]] /\ reported' = reported
    /\ UNCHANGED <<subgraph, rep, version, pinned, caller, group, next,
                   outer, inner, started, found>>

Done(i) ==
    /\ worker[i] = "leaving"
    /\ worker' = [worker EXCEPT ![i] = "done"]
    /\ inner' = [inner EXCEPT ![rep[i].type] = @ - 1]
    /\ UNCHANGED <<subgraph, rep, version, pinned, caller, group, next,
                   outer, started, found, list, reported>>

GroupDone(t) ==
    /\ started[t] = "yes" /\ inner[t] = 0
    /\ started' = [started EXCEPT ![t] = "done"]
    /\ outer' = outer - 1
    /\ UNCHANGED <<subgraph, rep, version, pinned, caller, group, next,
                   inner, worker, found, list, reported>>

Return ==
    /\ caller = "waiting" /\ outer = 0
    /\ caller' = "returned"
    /\ UNCHANGED <<subgraph, rep, version, pinned, group, next, outer,
                   inner, started, worker, found, list, reported>>

\* Another operation changes what the subgraph holds.
Change ==
    /\ version < MaxVersion
    /\ version' = version + 1
    /\ UNCHANGED <<subgraph, rep, pinned, caller, group, next, outer,
                   inner, started, worker, found, list, reported>>

\* The field has been answered.
Over == caller = "returned" /\ UNCHANGED vars

Next ==
    \/ Group
    \/ Dispatch
    \/ \E i \in Places : Resolve(i) \/ Write(i) \/ Done(i)
    \/ \E t \in TypeNames : StartGroup(t) \/ GroupDone(t)
    \/ Return
    \/ Change
    \/ Over

Spec == Init /\ [][Next]_vars

-----------------------------------------------------------------------------
\* An entity that may stand in the list for representation i: the element
\* asked for, as it was at some moment of the operation, and in the adapter
\* as it was when the operation began.
Fits(e, i) ==
    /\ e.type = rep[i].type /\ e.id = rep[i].id
    /\ e.version \in pinned .. version
    /\ subgraph = "adapter" => e.version = pinned

\* The router merges the list by position.  When the field has been answered
\* every representation has its own answer at its own place, or a null and
\* exactly one error, whatever order the goroutines of federation.go ran in
\* and whatever was changed meanwhile; no goroutine writes afterwards.
AnswersInPlace ==
    caller = "returned" =>
        \A i \in Places :
            \/ list[i] = None /\ reported[i] = 1
            \/ list[i] # None /\ reported[i] = 0 /\ Fits(list[i], i)

-----------------------------------------------------------------------------
(* The inductive invariant *)

\* A group holds the places of its type that were come to.
GroupsByType ==
    group = [t \in TypeNames |-> {i \in 1 .. next - 1 : rep[i].type = t}]

\* Nothing starts before every place was come to, and only groups start.
StartsInOrder ==
    /\ caller # "grouping" => next = N + 1
    /\ caller = "grouping" => \A t \in TypeNames : started[t] = "no"
    /\ \A t \in TypeNames : started[t] # "no" => t \in Groups

\* A goroutine runs exactly for the places of a group that has started.
WorkersOfGroups ==
    \A i \in Places :
        worker[i] = "none" <=>
            rep[i].type = NoType \/ started[rep[i].type] = "no"

\* What is known of a representation at each place of its goroutine.
Settles ==
    \A i \in Places :
        /\ worker[i] \in {"none", "resolving", "holding"} =>
              /\ list[i] = None
              /\ reported[i] = IF i < next /\ rep[i].type = NoType THEN 1 ELSE 0
        /\ worker[i] = "holding" => found[i] = None \/ Fits(found[i], i)
        /\ worker[i] \in {"leaving", "done"} =>
              \/ list[i] = None /\ reported[i] = 1
              \/ list[i] # None /\ reported[i] = 0 /\ Fits(list[i], i)

\* The counters count who has not ended.
Running(t) == {i \in group[t] : worker[i] # "done"}
Unfinished == {t \in Groups : started[t] # "done"}

CountersCount ==
    /\ \A t \in TypeNames : started[t] # "no" => inner[t] = Cardinality(Running(t))
    /\ \A t \in TypeNames : started[t] = "done" => inner[t] = 0
    /\ caller # "grouping" => outer = Cardinality(Unfinished)
    /\ caller = "returned" => outer = 0

IInv ==
    /\ TypeOK
    /\ GroupsByType
    /\ StartsInOrder
    /\ WorkersOfGroups
    /\ Settles
    /\ CountersCount
=============================================================================
