------------------------------- MODULE Rollup -------------------------------
(***************************************************************************)
(* Rollup (capacity/flow/flow.go): the capacity of a wiring as a maximum   *)
(* flow by Dinic's algorithm, and the source-side minimum cut.             *)
(*                                                                         *)
(* A behaviour is one call, for any children, values and wires.  The       *)
(* network, the search for faulty values and the entries and exits are     *)
(* operators on the input; maxFlow is a state machine whose path is the    *)
(* stack of dfs calls.  The order of the adjacency lists, the order the    *)
(* wires were given in, is left open: dfs may try any admissible arc.      *)
(* Capacities are natural numbers, so eps is zero, and two arcs between    *)
(* the same two vertices are one.                                          *)
(***************************************************************************)
EXTENDS Integers, FiniteSets, Sequences, FiniteSetsExt, SequencesExt

CONSTANTS
  Child,        \* the children in the order they are delivered
  Values,       \* the values a child may have, Missing among them perhaps
  Missing,      \* no value
  Inputs,       \* what is tried: records of values and wires, pairs of ids
  Unlimited     \* the capacity of a connection, math.Inf

Children == ToSet(Child)

ASSUME InputAssumption ==
  /\ Child \in Seq(Children)
  /\ Missing \notin Int
  /\ Values \ {Missing} \subseteq Int
  /\ \A input \in Inputs : /\ input.value \in [Children -> Values]
                           /\ \A w \in input.wires : w = <<w[1], w[2]>>
  /\ Unlimited \in Nat \ {0}
  /\ \A v \in Values \ {Missing} : v * Len(Child) < Unlimited

VARIABLES value, wires, pc, cap, level, dead, path, flow

vars == <<value, wires, pc, cap, level, dead, path, flow>>

-----------------------------------------------------------------------------
(* The input. *)

\* Wires to anything but a child are skipped.
Wire == {w \in wires : w[1] \in Children /\ w[2] \in Children}
HasIn(c) == \E w \in Wire : w[2] = c
HasOut(c) == \E w \in Wire : w[1] = c

Entry == {c \in Children : ~HasIn(c) /\ HasOut(c)}
Exit == {c \in Children : ~HasOut(c) /\ HasIn(c)}

\* Values are judged for every child, connected or not, in their order.
Bad(v) == v = Missing \/ v < 0
Faulty == {i \in DOMAIN Child : Bad(value[Child[i]])}

In(c) == <<c, "in">>
Out(c) == <<c, "out">>
Source == <<"source", "">>
Sink == <<"sink", "">>

Linked(c) == HasIn(c) \/ HasOut(c)

\* g.add: the arcs with their capacities.
Ends == {<<Source, In(c)>> : c \in Entry} \cup {<<Out(c), Sink>> : c \in Exit}
Wired == {<<Out(w[1]), In(w[2])>> : w \in Wire}
Own == {<<In(c), Out(c)>> : c \in {d \in Children : Linked(d)}}

Forward == [a \in Ends \cup Wired \cup Own |-> IF a \in Own THEN value[a[1][1]] ELSE Unlimited]

Back(a) == <<a[2], a[1]>>

Network ==
  LET forward == Forward
      arcs == DOMAIN forward
  IN  [a \in arcs \cup {Back(b) : b \in arcs} |-> IF a \in arcs THEN forward[a] ELSE 0]

Vertices == {Source, Sink} \cup {In(c) : c \in Children} \cup {Out(c) : c \in Children}

-----------------------------------------------------------------------------
(* maxFlow. *)

Open(a) == cap[a] > 0

Unsearched == [v \in Vertices |-> IF v = Source THEN 0 ELSE -1]

Outcome ==
  CASE Child = <<>> -> "no children"
    [] Child # <<>> /\ Faulty # {} -> "faulty"
    [] Child # <<>> /\ Faulty = {} ->
         IF Entry = {} THEN "no entry" ELSE IF Exit = {} THEN "no exit" ELSE "bfs"

Init ==
  /\ \E input \in Inputs : value = input.value /\ wires = input.wires
  /\ pc = Outcome
  /\ cap = IF pc = "bfs" THEN Network ELSE <<>>
  /\ level = Unsearched
  /\ dead = {}
  /\ path = <<>>
  /\ flow = 0

\* A round of the breadth-first search: all that is one open arc further.
\* With nothing further, a phase begins, or the sink is out of reach.
Depth == Max({level[v] : v \in Vertices})
Further == {a[2] : a \in {b \in DOMAIN cap : Open(b) /\ level[b[1]] = Depth /\ level[b[2]] < 0}}

Bfs ==
  /\ pc = "bfs"
  /\ IF Further # {}
       THEN /\ level' = [v \in Vertices |-> IF v \in Further THEN Depth + 1 ELSE level[v]]
            /\ UNCHANGED <<pc, path>>
       ELSE /\ IF level[Sink] >= 0
                 THEN pc' = "dfs" /\ path' = <<Source>>
                 ELSE pc' = "done" /\ UNCHANGED path
            /\ UNCHANGED level
  /\ UNCHANGED <<value, wires, cap, dead, flow>>

Admissible(a) == Open(a) /\ level[a[2]] = level[a[1]] + 1 /\ a \notin dead

Top == Last(path)
Onward == {a \in DOMAIN cap : a[1] = Top /\ Admissible(a)}

\* dfs calls itself along an admissible arc.
Advance ==
  /\ pc = "dfs"
  /\ Top # Sink
  /\ \E a \in Onward : path' = Append(path, a[2])
  /\ UNCHANGED <<value, wires, pc, cap, level, dead, flow>>

\* Seeded fault: next does not move on.
RetreatUnmarked ==
  /\ pc = "dfs"
  /\ Top # Sink
  /\ Onward = {}
  /\ IF path = <<Source>>
       THEN pc' = "bfs" /\ level' = Unsearched /\ path' = <<>>
       ELSE path' = Front(path) /\ UNCHANGED <<pc, level>>
  /\ UNCHANGED <<value, wires, cap, dead, flow>>

\* dfs returns 0: the caller's next moves on, or the phase is over.
Retreat ==
  /\ pc = "dfs"
  /\ Top # Sink
  /\ Onward = {}
  /\ IF path = <<Source>>
       THEN pc' = "bfs" /\ level' = Unsearched /\ dead' = {} /\ path' = <<>>
       ELSE /\ dead' = dead \cup {<<path[Len(path) - 1], Top>>}
            /\ path' = Front(path)
            /\ UNCHANGED <<pc, level>>
  /\ UNCHANGED <<value, wires, cap, flow>>

Arcs == {<<path[i], path[i + 1]>> : i \in 1..(Len(path) - 1)}

Less(c, d) == IF c = Unlimited THEN Unlimited ELSE c - d
More(c, d) == IF c = Unlimited THEN Unlimited ELSE c + d

Pushed(d) ==
  [a \in DOMAIN cap |->
     IF a \in Arcs THEN Less(cap[a], d)
     ELSE IF Back(a) \in Arcs THEN More(cap[a], d)
     ELSE cap[a]]

\* The sink is reached and d comes back through every call.
Augment ==
  /\ pc = "dfs"
  /\ Top = Sink
  /\ LET d == Min({cap[a] : a \in Arcs}) IN cap' = Pushed(d) /\ flow' = flow + d
  /\ path' = <<Source>>
  /\ UNCHANGED <<value, wires, pc, level, dead>>

Next == Bfs \/ Advance \/ Retreat \/ Augment
Spec == Init /\ [][Next]_vars
FairSpec == Spec /\ WF_vars(Next)

\* What is within n of the arcs, one after another, of the vertices in V.
Spread(V, arcs, n) ==
  LET within[k \in 0..n] ==
        IF k = 0 THEN V
        ELSE LET near == within[k - 1] IN near \cup {a[2] : a \in {b \in arcs : b[1] \in near}}
  IN  within[n]

ReachOf(V) == Spread(V, {a \in DOMAIN cap : Open(a)}, Cardinality(Vertices))

\* Seeded fault: the cut nearest the exits.
CutNearestExit ==
  LET drains == {v \in Vertices : Sink \in ReachOf({v})}
  IN  {c \in Children : In(c) \notin drains /\ Out(c) \in drains}

\* What a call that found a number returns.
Cut == LET reach == ReachOf({Source}) IN {c \in Children : In(c) \in reach /\ Out(c) \notin reach}

-----------------------------------------------------------------------------
(* The definition to check against, on the wiring itself. *)

\* What flows from the entries past everything but the children in C.
Past(C) == Spread(Entry \ C, {w \in Wire : w[2] \notin C}, Len(Child))

\* The children of C that it meets.
Met(C) == LET past == Past(C) IN C \cap (Entry \cup {w[2] : w \in {x \in Wire : x[1] \in past}})

Separates(C) == Past(C) \cap Exit = {}
Weight(C) == SumFunctionOnSet(value, C)
Cheapest ==
  LET cuts == {C \in SUBSET Children : Separates(C)}
  IN  {C \in cuts : \A D \in cuts : Weight(C) <= Weight(D)}

\* What leads to an exit, against the wires.
Onto == Spread(Exit, {<<w[2], w[1]>> : w \in Wire}, Len(Child))

OnTheWay(c) == c \in Past({}) /\ c \in Onto

-----------------------------------------------------------------------------
(* What must hold. *)

Working == pc \in {"bfs", "dfs"}
TypeOK ==
  /\ value \in [Children -> Values]
  /\ pc \in {"no children", "faulty", "no entry", "no exit", "bfs", "dfs", "done"}
  /\ flow \in Nat
  /\ \A a \in DOMAIN cap : cap[a] \in 0..Unlimited
  /\ level \in [Vertices -> -1..Cardinality(Vertices)]
  /\ dead \subseteq DOMAIN cap
  /\ pc = "dfs" => path # <<>> /\ path[1] = Source
  /\ pc # "dfs" => path = <<>>

\* What the residual arcs say is a flow at every step of the algorithm, of
\* the value counted so far: each child passes on what it is given and no more
\* than its value.  A child wired to itself keeps no such books.
Carried(a) == cap[Back(a)]
FlowInto(v, arcs) == MapThenSumSet(Carried, {a \in arcs : a[2] = v})
FlowFrom(v, arcs) == MapThenSumSet(Carried, {a \in arcs : a[1] = v})

FlowConserved ==
  /\ TypeOK
  /\ pc \in {"bfs", "dfs", "done"} =>
       LET arcs == DOMAIN Forward
       IN  /\ FlowFrom(Source, arcs) = flow
           /\ \A c \in Children : <<c, c>> \notin wires =>
                /\ \A v \in {In(c), Out(c)} : FlowInto(v, arcs) = FlowFrom(v, arcs)
                /\ Linked(c) => Carried(<<In(c), Out(c)>>) <= value[c]

\* The capacity is the least total value of any children whose removal
\* separates every entry from every exit (README, "What is computed"); and,
\* whatever order the paths were found in, the cut reported is the one such
\* set that lets the least of the wiring be reached from the entries, as much
\* of it as is reached (README, "The bottleneck").
CapacityIsNearestCut ==
  pc = "done" =>
    \E C \in Cheapest :
      /\ flow = Weight(C)
      /\ Cut = Met(C)
      /\ \A D \in Cheapest : Past(C) \subseteq Past(D)

\* Without the children of the cut nothing leads from an entry to an exit.
CutSeparates == pc = "done" => Separates(Cut)

\* The network at every step, and the answer at the end.
FlowAndCut == FlowConserved /\ CapacityIsNearestCut /\ CutSeparates

\* A call returns, whatever the wiring, cycles included.
Returns == <>~Working

\* README: a child "the flow cannot reach from an entry or leave by an exit, is
\* left out and named in no reason".
LeftOutIsUnnamed == pc = "done" => \A c \in Cut : OnTheWay(c)
=============================================================================
