------------------------------ MODULE Editing -------------------------------
(***************************************************************************)
(* A person editing the document: the page of document/app.js on one side, *)
(* the document service with everyone else's operations on the other.      *)
(*                                                                         *)
(* The page draws the tree it was last served, down to MaxDepth levels.    *)
(* What a person does there is sent as a mutation that names nodes and     *)
(* indexes of the markup; the service applies it to the tree as it is by   *)
(* then, or refuses it.  A drop also moves the element in the markup, and  *)
(* only an answer of the service draws the markup again.                   *)
(*                                                                         *)
(* A drag is one step, its drop, since nothing draws the markup under it   *)
(* (LiveApp!DragOwnsMarkup).  Streams that are lost are LiveApp's too:     *)
(* here an announcement reaches the page.  A refresh reads the tree at one *)
(* moment and, of each requirement, whether the document has it, at a      *)
(* moment of its own; it may fail, and then nothing asks again.  Texts do  *)
(* not bear on where things are, and the page's editing of them is left    *)
(* out.                                                                    *)
(***************************************************************************)
EXTENDS DocumentTree

CONSTANTS
  MaxDepth,     \* MAX_DEPTH: the levels a page draws
  MaxActs,      \* bound: what is done while the page is open, by anyone
  NoPage,       \* in place of what is served: the page is closed
  None          \* no refresh under way, or its tree not read

\* What snapshot can make of a tree.
Documents == [kids : [Nodes -> Seq(Ids)], kind : [Ids -> Kinds]]

\* What a refresh has read: the tree, or None, and the requirements found out
\* of the document among those asked after.
Readings ==
  [tree : Documents \cup {None}, unread : SUBSET Requirements, excluded : SUBSET Requirements]

\* What it hands to render, the tree and the list of excluded requirements.
Answers == [kids : [Nodes -> Seq(Ids)], kind : [Ids -> Kinds], excluded : SUBSET Requirements]

ASSUME PageAssumption ==
  NoPage \notin Answers /\ None \notin Documents \cup Readings /\ MaxDepth \in Nat \ {0}

VARIABLES
  served,       \* the answer the page was last served, or NoPage
  markup,       \* its lists as the markup has them
  sent,         \* mutations on their way, and failures on their way back
  news,         \* an announcement is on its way to the page
  answer,       \* what the page's newest refresh has read, or None
  failed,       \* the refresh that ended last failed
  left          \* how much of MaxActs is left

pageVars == <<served, markup, answer, failed>>
vars == <<treeVars, served, markup, sent, news, answer, failed, left>>

\* snapshot: what the service makes of its tree for a query.
Snapshot == [kids |-> kids, kind |-> kind]

\* The document and the list of what is excluded, as they are.
Document == [kids |-> kids, kind |-> kind, excluded |-> excluded]

Open == served # NoPage

ClosedPage == served = NoPage /\ markup = NoPage

\* A page that has been served the document, or none.
Init ==
  /\ TreeInit
  /\ \/ served = Document /\ markup = kids
     \/ ClosedPage
  /\ answer = None
  /\ failed = FALSE
  /\ sent = {}
  /\ news = FALSE
  /\ left = MaxActs

Act == left > 0 /\ left' = left - 1

-----------------------------------------------------------------------------
(* What the page draws. *)

\* Where every node of a tree is, Root being at 0.
Levels(k) ==
  LET level[d \in 0..MaxDepth] ==
        IF d = 0 THEN {Root} ELSE UNION {Range(k[n]) : n \in level[d - 1]}
  IN  level

\* childLevels: the rows, each drawn as its depth was when it was served.
Rows == UNION {Levels(served.kids)[d] : d \in 1..MaxDepth}
Deepest == Levels(served.kids)[MaxDepth]

\* Seeded fault: every row that is not prose has a list and takes prose.
ListsAtAnyDepth == {Root} \cup {n \in Rows : served.kind[n] # "prose"}

\* The lists of the markup; they take drops, and prose by a button.
Lists == {Root} \cup {n \in Rows \ Deepest : served.kind[n] # "prose"}

\* A list without the element of n.
Without(s, n) == IF n \in Range(s) THEN RemoveAt(s, CHOOSE i \in DOMAIN s : s[i] = n) ELSE s

\* The markup with the element of n at place i of the list of p, from 0.
Dropped(n, p, i) ==
  [q \in Nodes |-> IF q = p THEN InsertAt(Without(markup[q], n), i + 1, n) ELSE Without(markup[q], n)]

\* What the lists of k have under n, itself included.
Within(k, n) ==
  {m \in Ids : \A S \in SUBSET Ids :
     n \in S /\ (\A s \in S : Range(k[s]) \subseteq S) => m \in S}

-----------------------------------------------------------------------------
(* What a person does on the page. *)

\* mutate: what is asked leaves, and the page awaits it.  basis and drawn are
\* history: the markup it was made on, and what had been served.
Send(m) ==
  /\ sent' = sent \cup {[ask |-> m, basis |-> markup, drawn |-> served, state |-> "sent"]}
  /\ UNCHANGED <<treeVars, served, news, answer, failed>>

\* onEnd: the index is that of the item in the list it landed in.
Drop(n, p, i) ==
  /\ Open /\ Act
  /\ n \in Rows /\ p \in Lists
  /\ i \in 0..Len(Without(markup[p], n))
  /\ p \notin Within(markup, n)
  /\ Dropped(n, p, i) # markup
  /\ markup' = Dropped(n, p, i)
  /\ Send([act |-> "move", node |-> n, to |-> p, index |-> i, want |-> Dropped(n, p, i)])

\* onClick, one act per kind of button.
Press ==
  /\ Open /\ Act
  /\ UNCHANGED markup
  /\ \/ \E n \in Rows \ Deepest : Send([act |-> "heading", node |-> n])
     \/ \E p \in Lists :
          Send([act |-> "prose", to |-> p, index |-> Len(served.kids[p])])
     \/ \E r \in Rows \cap Requirements : Send([act |-> "exclude", node |-> r])
     \/ \E r \in served.excluded : Send([act |-> "include", node |-> r])
     \/ Send([act |-> "reset"])

\* Seeded fault: a refusal is only told.
FailToldOnly(m) ==
  /\ m.state = "failed"
  /\ sent' = sent \ {m}
  /\ UNCHANGED <<treeVars, pageVars, news, left>>

\* mutate's catch: what was served is drawn again.
Fail(m) ==
  /\ m.state = "failed"
  /\ sent' = sent \ {m}
  /\ markup' = served.kids
  /\ UNCHANGED <<treeVars, served, news, answer, failed, left>>

\* refresh, on an announcement or because the page is looked at again; what an
\* earlier one still brings is unwelcome.
Refresh ==
  /\ Open
  /\ \/ news /\ news' = FALSE /\ UNCHANGED left
     \/ Act /\ UNCHANGED news
  /\ answer' = [tree |-> None, unread |-> Requirements, excluded |-> {}]
  /\ UNCHANGED <<treeVars, served, markup, sent, failed>>

\* Query.document.
ReadTree ==
  /\ answer # None /\ answer.tree = None
  /\ answer' = [answer EXCEPT !.tree = Snapshot]
  /\ UNCHANGED <<treeVars, served, markup, sent, news, failed, left>>

\* requirement: each entity is looked up on its own, in any order.
ReadIncluded(r) ==
  /\ answer # None /\ r \in answer.unread
  /\ answer' = [answer EXCEPT !.unread = @ \ {r},
                             !.excluded = IF r \in InTree THEN @ ELSE @ \cup {r}]
  /\ UNCHANGED <<treeVars, served, markup, sent, news, failed, left>>

Render ==
  /\ answer # None /\ answer.tree # None /\ answer.unread = {}
  /\ served' = [kids |-> answer.tree.kids, kind |-> answer.tree.kind, excluded |-> answer.excluded]
  /\ markup' = answer.tree.kids
  /\ answer' = None /\ failed' = FALSE
  /\ UNCHANGED <<treeVars, sent, news, left>>

\* refresh's catch: the error is told, and what was drawn stays.
FailRefresh ==
  /\ answer # None
  /\ answer' = None /\ failed' = TRUE
  /\ UNCHANGED <<treeVars, served, markup, sent, news, left>>

Close ==
  /\ Open /\ left = 0 /\ sent = {} /\ ~news /\ answer = None
  /\ served' = NoPage /\ markup' = NoPage /\ failed' = FALSE /\ left' = MaxActs
  /\ UNCHANGED <<treeVars, sent, news, answer>>

-----------------------------------------------------------------------------
(* What the service does. *)

\* The resolvers of the document service, each with its operation.
Performs(m) ==
  CASE m.act = "move" -> Move(m.node, m.to, m.index)
    [] m.act = "heading" -> \E t \in Texts : InsertHeading(m.node, t)
    [] m.act = "prose" -> \E t \in Texts : AddProse(m.to, m.index, t)
    [] m.act = "exclude" -> Exclude(m.node)
    [] m.act = "include" -> Include(m.node)
    [] m.act = "reset" -> Reset

Refuses(m) ==
  CASE m.act = "move" -> ~CanMove(m.node, m.to)
    [] m.act = "prose" -> ~CanHold(m.to)
    [] m.act = "include" -> m.node \notin excluded
    [] m.act = "reset" -> FALSE
    [] OTHER -> m.node \notin InTree

\* apply: what is accepted is announced; the page does nothing with the
\* answer unless it is lost, which the page takes for a failure.
Apply(m) ==
  /\ m.state = "sent"
  /\ \/ /\ Performs(m.ask)
        /\ news' = TRUE
        /\ \/ sent' = sent \ {m}
           \/ sent' = (sent \ {m}) \cup {[m EXCEPT !.state = "failed"]}
     \/ /\ Refuses(m.ask)
        /\ sent' = (sent \ {m}) \cup {[m EXCEPT !.state = "failed"]}
        /\ UNCHANGED <<treeVars, news>>
  /\ UNCHANGED <<pageVars, left>>

\* The mutation never arrives.
Lose(m) ==
  /\ m.state = "sent"
  /\ sent' = (sent \ {m}) \cup {[m EXCEPT !.state = "failed"]}
  /\ UNCHANGED <<treeVars, pageVars, news, left>>

\* An operation of another client, which may be any program.
Other ==
  /\ IF Open THEN Act /\ news' = TRUE ELSE UNCHANGED <<news, left>>
  /\ TreeNext
  /\ UNCHANGED <<pageVars, sent>>

Next ==
  \/ \E n \in Ids, p \in Nodes, i \in 0..Cardinality(Ids) : Drop(n, p, i)
  \/ Press
  \/ \E m \in sent : Apply(m) \/ Lose(m) \/ Fail(m)
  \/ Refresh \/ ReadTree \/ (\E r \in Requirements : ReadIncluded(r))
  \/ Render \/ FailRefresh
  \/ Close
  \/ Other

Spec == Init /\ [][Next]_vars

-----------------------------------------------------------------------------
(* What must hold. *)

ListOf(k, n) == CHOOSE p \in Nodes : n \in Range(k[p])

InSight(k, n) == \E d \in 1..MaxDepth : n \in Levels(k)[d]

\* What a person does on a page that shows the document as it still is when
\* the service applies it, and the list of what is excluded when something is put
\* back from it, happens as shown: it is not refused, a dropped
\* element is where the markup has it, and, unless an earlier drop had not
\* been drawn afresh yet, new prose ends its list, and a row that was moved, or
\* that got a heading above it, is in sight, as is a node that was made (a
\* requirement put back need not be: its former parent may be too deep).  A
\* drop is as shown, too, when others have changed other lists than the two it
\* concerns, unless it is refused.
DoneAsShown ==
  [][\A m \in sent : m.state = "sent" /\ Apply(m) =>
       /\ m.basis = kids /\ m.drawn.kind = kind /\ m.ask.act # "reset"
          /\ (m.ask.act = "include" => m.drawn.excluded = excluded) =>
            /\ kids' # kids
            /\ m.ask.act = "move" => kids' = m.ask.want
            /\ m.drawn.kids = kids /\ m.ask.act = "prose" =>
                 \E k \in Fresh : kids' = [kids EXCEPT ![m.ask.to] = Append(@, k)]
            /\ m.drawn.kids = kids /\ m.ask.act # "include" =>
                 \A n \in Ids :
                   \/ m.ask.act \in {"move", "heading"} /\ n = m.ask.node
                   \/ n \notin InTree /\ n \in InTree'
                   => InSight(kids', n)
       /\ m.ask.act = "move" /\ kids' # kids =>
            LET from == ListOf(m.basis, m.ask.node) IN
            m.basis[from] = kids[from] /\ m.basis[m.ask.to] = kids[m.ask.to] =>
              kids'[from] = m.ask.want[from] /\ kids'[m.ask.to] = m.ask.want[m.ask.to]
    ]_vars

\* Two in one list, the first before the second.
Siblings(k) ==
  UNION {UNION {{<<k[p][i], k[p][j]>> : i \in 1..(j - 1)} : j \in DOMAIN k[p]} : p \in Nodes}

\* <<n, m>>: n is above m in the lists of k, or is m.
Over(k) ==
  LET above[n \in Ids] == {n} \cup UNION {above[p] : p \in {q \in Ids : n \in Range(k[q])}}
  IN  UNION {above[n] \X {n} : n \in Ids}

\* The order of the document, from top to bottom: a node comes before what is
\* below it, and with all that before what comes after it in its list.
Order(k) ==
  LET over == Over(k)
      part(n) == {m \in Ids : <<n, m>> \in over}
  IN  {ab \in over : ab[1] # ab[2]}
        \cup UNION {part(ab[1]) \X part(ab[2]) : ab \in Siblings(k)}

\* The nodes in the lists a step changes.
Concerned ==
  UNION {Range(kids[p]) \cup Range(kids'[p]) : p \in {q \in Nodes : kids[q] # kids'[q]}}

\* A step brings n, takes it away, or moves it with all that is below it, which
\* stays as it is; the document has the same other nodes in the same order.
LeavesRest(n) ==
  LET moves == n \in InTree /\ n \in InTree'
      rest == Ids \ (IF moves THEN Within(kids, n) ELSE {n})
  IN  /\ InTree \cap rest = InTree' \cap rest
      /\ Order(kids) \cap (rest \X rest) = Order(kids') \cap (rest \X rest)
      /\ moves => \A m \in Within(kids, n) : kids'[m] = kids[m]

\* An editorial operation disturbs what it names and nothing else (Move,
\* InsertHeading, AddProse, Exclude and its promotion in place, Include).  A
\* step back to the shipped structure may be a reset and is exempt.
RestKeepsOrder ==
  [][kids' # kids /\ kids' # ShippedTree.kids =>
       \E n \in Concerned : LeavesRest(n)]_treeVars

\* Once nothing is on its way the markup is the document and the list is what is
\* excluded, unless the last refresh has failed: a drop that was refused, lost, or
\* overtaken by others leaves nothing behind, nor does an answer whose parts were
\* read before and after a change.
MarkupIsServed ==
  Open /\ sent = {} /\ ~news /\ answer = None /\ ~failed =>
    served = Document /\ markup = kids
=============================================================================
