----------------------------- MODULE Execution ------------------------------
(***************************************************************************)
(* One operation in one subgraph: the generated code calls the resolvers   *)
(* of the fields selected, in goroutines where it may, and composes the    *)
(* answer from the leaves upwards.  A null where the schema has none voids *)
(* the object or list it is in, and so on up to a place that may be null.  *)
(*                                                                         *)
(* A field in the answer is at a position: the path of fields down to it,  *)
(* and, below a list, the element it is in.  Two elements are followed     *)
(* below the first list of a path, one below the next.                     *)
(*                                                                         *)
(* A field that a struct holds and a resolver that cannot fail answer in   *)
(* one step; what a resolver does inside is ModelStore's and Entities'.    *)
(***************************************************************************)
EXTENDS Schemas, Naturals, SequencesExt

CONSTANTS
  Requests,     \* the operations to execute
  MaxStore      \* bound: the versions other operations may reach

VARIABLES
  request,      \* [subgraph, root, paths]: paths is a sequence of sequences
                \* of [on, name], the type a field is selected on and its name
  state,        \* what has become of each position
  invalids,     \* Invalids: per object, the nulls that void it
  errors,       \* per position, the errors reported at it
  store,        \* the version of the model in the store
  pin,          \* of the model pinned to the operation
  source,       \* per position, the model its answer was taken from
  response      \* "pending", "data" or "null"

execVars == <<request, state, invalids, errors, store, pin, source, response>>

-----------------------------------------------------------------------------
(* The shape of the answer. *)

SchemaOf(r) ==
  CASE r.subgraph = "adapter" -> Adapter
    [] r.subgraph = "capacity" -> Capacity
    [] r.subgraph = "document" -> Document

Schema == SchemaOf(request)

\* What the library executes at all: an operation of fields that their types
\* have, the first of each path on the root.
Steps(s) == UNION {[on : {t}, name : DOMAIN s.fields[t]] : t \in DOMAIN s.fields}
Executable(r) ==
  /\ r.subgraph \in {"adapter", "capacity", "document"} /\ r.root \in {"Query", "Mutation"}
  /\ r.paths \in Seq(Seq(Steps(SchemaOf(r))) \ {<<>>}) /\ r.paths # <<>>
  /\ \A c \in Range(r.paths) : c[1].on = r.root

FieldAt(step) == Schema.fields[step.on][step.name]
Field(p) == FieldAt(Last(p.path))
Is(p, what) == what \in Field(p).is

\* The elements in which a path is followed; 0 stands for no list above.
Elements(path) ==
  IF \E d \in 1..(Len(path) - 1) : "list" \in FieldAt(path[d]).is THEN {1, 2} ELSE {0}

Positions ==
  UNION {UNION {{[path |-> SubSeq(c, 1, d), at |-> e] : e \in Elements(SubSeq(c, 1, d))} :
                  d \in 1..Len(c)} : c \in Range(request.paths)}

\* The object a field is selected on, which for a field of the root is data.
Object(p) == [path |-> Front(p.path), at |-> p.at]
Data == [path |-> <<>>, at |-> 0]
Objects == {Object(p) : p \in Positions}

\* q is selected on what p answers.
Beneath(p, q) ==
  /\ Len(q.path) > 1 /\ Front(q.path) = p.path
  /\ p.at \in {0, q.at}
Children(p) == {q \in Positions : Beneath(p, q)}

Null == {"nil", "failed", "voided"}
Closed == Null \cup {"value", "absent"}

ExecInit ==
  /\ request \in Requests
  /\ state = [p \in Positions |-> "waiting"]
  /\ invalids = [o \in Objects |-> 0]
  /\ errors = [p \in Positions |-> 0]
  /\ store = 1 /\ pin = 1
  /\ source = [p \in Positions |-> 0]
  /\ response = "pending"

-----------------------------------------------------------------------------
(* One field. *)

\* A field runs when the object it is selected on is executed; the fields of
\* a mutation one after the other, all others in any order.
Ready(p) ==
  /\ state[p] = "waiting"
  /\ \A q \in Positions : Beneath(q, p) => state[q] = "running"
  /\ request.root = "Mutation" /\ Len(p.path) = 1 =>
       \A i, j \in DOMAIN request.paths :
         i < j /\ request.paths[j][1] = p.path[1] /\ request.paths[i][1] # p.path[1] =>
           state[[path |-> <<request.paths[i][1]>>, at |-> 0]] \in Closed

\* A null counts against the object it is in, if the executor says so.
Counted(p, s) ==
  IF s \in Null /\ Last(p.path).name \in Schema.voids[Last(p.path).on]
  THEN [invalids EXCEPT ![Object(p)] = @ + 1]
  ELSE invalids

\* The resolvers that look something up in the pinned model.
Lookups ==
  {"model", "part", "requirement", "_entities", "satisfies", "subject", "derivedFrom",
   "derives", "satisfiedBy", "verifiedBy", "verifies"}

Mutates(p) == request.root = "Mutation" /\ Len(p.path) = 1

\* A mutation of the adapter installs a model and pins it to the operation.
Advance(p) ==
  /\ store' = store + 1
  /\ pin' = store'
  /\ source' = [source EXCEPT ![p] = store']

\* Everything else is read from the pinned model, or from the object.
Read(p) ==
  /\ source' = [source EXCEPT ![p] =
       IF Last(p.path).name \in Lookups THEN pin
       ELSE source[CHOOSE q \in Positions : Beneath(q, p)]]
  /\ UNCHANGED <<store, pin>>

Take(p) ==
  IF request.subgraph # "adapter" THEN UNCHANGED <<store, pin, source>>
  ELSE IF Mutates(p) THEN Advance(p) ELSE Read(p)

\* The resolver has something: a leaf is done, anything else is executed
\* further, but for entities that could not be resolved.
ResolveSome(p) ==
  /\ Ready(p)
  /\ Take(p)
  /\ IF Field(p).of = Leaf
       THEN state' = [state EXCEPT ![p] = "value"]
       ELSE \E there \in (IF Field(p).of = AnyEntity THEN SUBSET {1, 2} ELSE {{0, 1, 2}}) :
              state' = [q \in Positions |->
                          IF q = p THEN "running"
                          ELSE IF Beneath(p, q) /\ q.at \notin there THEN "absent"
                          ELSE state[q]]
  /\ UNCHANGED <<request, invalids, errors, response>>

\* The resolver has nothing, which such a field may answer.
ResolveNil(p) ==
  /\ Ready(p) /\ Is(p, "pointer")
  /\ Take(p)
  /\ state' = [state EXCEPT ![p] = "nil"]
  /\ invalids' = Counted(p, "nil")
  /\ UNCHANGED <<request, errors, response>>

\* The resolver returns an error or panics.
ResolveFails(p) ==
  /\ Ready(p) /\ Is(p, "resolver")
  /\ state' = [state EXCEPT ![p] = "failed"]
  /\ errors' = [errors EXCEPT ![p] = @ + 1]
  /\ invalids' = Counted(p, "failed")
  /\ UNCHANGED <<request, store, pin, source, response>>

\* What was executed under p is null: the object, or an element of a list
\* whose elements must not be.
Voided(p) ==
  \E o \in Objects :
    /\ o.path = p.path /\ p.at \in {0, o.at}
    /\ invalids[o] > 0
    /\ Is(p, "list") => Field(p).of \in Schema.lists

\* All fields selected under p are done.
Compose(p) ==
  /\ state[p] = "running"
  /\ \A q \in Children(p) : state[q] \in Closed
  /\ LET s == IF Voided(p) THEN "voided" ELSE "value" IN
       /\ state' = [state EXCEPT ![p] = s]
       /\ invalids' = Counted(p, s)
  /\ UNCHANGED <<request, errors, store, pin, source, response>>

\* Exec: the answer leaves.
Respond ==
  /\ response = "pending"
  /\ \A p \in Positions : Len(p.path) = 1 => state[p] \in Closed
  /\ response' = IF invalids[Data] > 0 THEN "null" ELSE "data"
  /\ UNCHANGED <<request, state, invalids, errors, store, pin, source>>

\* Another operation changes the model.
ChangeModel ==
  /\ request.subgraph = "adapter" /\ response = "pending" /\ store < MaxStore
  /\ store' = store + 1
  /\ UNCHANGED <<request, state, invalids, errors, pin, source, response>>

ExecNext ==
  \/ \E p \in Positions : ResolveSome(p) \/ ResolveNil(p) \/ ResolveFails(p) \/ Compose(p)
  \/ Respond
  \/ ChangeModel

ExecSpec == ExecInit /\ [][ExecNext]_execVars

-----------------------------------------------------------------------------
(* What must hold. *)

\* q is below p, and nothing from q up to p may be null but p itself.
Under(p, q) ==
  /\ Len(p.path) < Len(q.path) /\ IsPrefix(p.path, q.path) /\ p.at \in {0, q.at}
  /\ \A d \in (Len(p.path) + 1)..Len(q.path) : "required" \in FieldAt(q.path[d]).is
  /\ \A d \in Len(p.path)..(Len(q.path) - 1) : FieldAt(q.path[d]).of # AnyEntity

\* A failure costs what the schema says it costs and no more: a place is null
\* only for something below it that is and must not be, every such place is,
\* and each failure is reported once.  So one entity that fails leaves the
\* others their answers, while under model it may leave nothing.
NullsStop ==
  response # "pending" =>
    /\ \A p \in Positions :
         /\ state[p] = "voided" <=>
              \E q \in Positions : Under(p, q) /\ state[q] \in {"nil", "failed"}
         /\ errors[p] = IF state[p] = "failed" THEN 1 ELSE 0
    /\ response = "null" <=>
         \E p \in Positions :
           Len(p.path) = 1 /\ Is(p, "required") /\ state[p] \in {"failed", "voided"}

\* SR-22: whatever is changed meanwhile, an answer of the adapter is taken
\* from one model, that of the beginning; and when an operation makes several
\* mutations, what is selected on each is taken from the model it made.
OneModelPerField ==
  request.subgraph = "adapter" =>
    \A p \in Positions : source[p] # 0 =>
      /\ source[p] = source[[path |-> SubSeq(p.path, 1, 1), at |-> 0]]
      /\ request.root = "Query" => source[p] = 1

\* What the generated code promises of an answer.
AnsweredAsDeclared == NullsStop /\ OneModelPerField
=============================================================================
