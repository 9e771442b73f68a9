------------------------------ MODULE LiveApp -------------------------------
(***************************************************************************)
(* A page that follows the graph live: subscribe and query of graphql.js,  *)
(* and refresh, render and the drag handlers of document/app.js.  The      *)
(* viewer is the same page with one source and nothing to drag.            *)
(*                                                                         *)
(* Each source announces its changes on a stream of its own.  A stream     *)
(* carries an announcement only once it is registered with the source; it  *)
(* can end, hang before it answers, or fall silent without a close.  A     *)
(* refresh is a query the router answers with several fetches from every   *)
(* source, each at the version the source has at that moment, so an answer *)
(* is a row of versions for every source; answers come in any order or not *)
(* at all.                                                                 *)
(***************************************************************************)
EXTENDS Naturals, FiniteSets, Sequences

CONSTANTS
  Sources,        \* whatever has a version: the model, the document
  Fetches,        \* fetches from one source that an answer takes
  MaxVersion,     \* the bounds: versions of a source,
  MaxDrops,       \*   streams lost,
  MaxFailures,    \*   queries failed,
  MaxWakes,       \*   times the page becomes visible again,
  MaxDrags,       \*   drags
  None            \* no answer yet, or none held back

ASSUME SourceAssumption == IsFiniteSet(Sources) /\ Fetches \in Nat \ {0}
ASSUME BoundAssumption ==
  /\ MaxVersion \in Nat \ {0}
  /\ MaxDrops \in Nat /\ MaxFailures \in Nat /\ MaxWakes \in Nat /\ MaxDrags \in Nat

VARIABLES
  version,      \* version[s]: the version source s is at
  link,         \* link[s]: the page's stream from s
  news,         \* news[s]: announcements on their way to the page
  generation,   \* refreshes so far
  asked,        \* asked[g]: what refresh g has fetched; running refreshes only
  served,       \* the answer last accepted, or None
  painted,      \* the answer the markup shows, or None
  pending,      \* the answer a drag holds back, or None
  dragging,     \* a drag owns the markup
  flushDue,     \* the timer set by a drop
  missed,       \* history: sources of whose change no later refresh knows
  spent         \* how much of each bound is used up

streamVars == <<link, news>>
pageVars == <<served, painted, pending>>
dragVars == <<dragging, flushDue>>
vars == <<version, link, news, generation, asked, served, painted, pending,
          dragging, flushDue, missed, spent>>

Version == 1..MaxVersion
Answer == [Sources -> [1..Fetches -> Version]]

ASSUME NoneAssumption == None \notin Answer

\* "connecting": asked for, not registered; "hung": it will never be; "open":
\* registered; "silent": dead without a close; "backoff": ended, retry due.
Link == {"connecting", "hung", "open", "silent", "backoff"}
Down == {"hung", "silent", "backoff"}

Bounds == [drops |-> MaxDrops, failures |-> MaxFailures, wakes |-> MaxWakes, drags |-> MaxDrags]
Spend(what) == spent[what] < Bounds[what] /\ spent' = [spent EXCEPT ![what] = @ + 1]

TypeOK ==
  /\ version \in [Sources -> Version]
  /\ link \in [Sources -> Link]
  /\ news \in [Sources -> Nat]
  /\ generation \in Nat
  /\ DOMAIN asked \subseteq 1..generation
  /\ \A g \in DOMAIN asked :
       /\ asked[g] \in [Sources -> Seq(Version)]
       /\ \A s \in Sources : Len(asked[g][s]) <= Fetches
  /\ {served, painted, pending} \subseteq Answer \cup {None}
  /\ dragging \in BOOLEAN /\ flushDue \in BOOLEAN
  /\ missed \subseteq Sources
  /\ \A b \in DOMAIN Bounds : spent[b] \in 0..Bounds[b]

Nothing == [s \in Sources |-> <<>>]

\* The page subscribes and refreshes as it starts.
Init ==
  /\ version = [s \in Sources |-> 1]
  /\ link = [s \in Sources |-> "connecting"]
  /\ news = [s \in Sources |-> 0]
  /\ generation = 1
  /\ asked = [g \in {1} |-> Nothing]
  /\ served = None /\ painted = None /\ pending = None
  /\ dragging = FALSE /\ flushDue = FALSE
  /\ missed = {}
  /\ spent = [b \in DOMAIN Bounds |-> 0]

-----------------------------------------------------------------------------
(* The sources and the streams. *)

\* A mutation is accepted, anyone's.  An announcement replaces the one before
\* it unless that has already left the source's one-slot channel.
Publish(s) ==
  /\ version[s] < MaxVersion
  /\ version' = [version EXCEPT ![s] = @ + 1]
  /\ IF link[s] = "open"
       THEN /\ \E n \in {news[s], news[s] + 1} : n > 0 /\ news' = [news EXCEPT ![s] = n]
            /\ UNCHANGED missed
       ELSE missed' = missed \cup {s} /\ UNCHANGED news
  /\ UNCHANGED <<link, generation, asked, pageVars, dragVars, spent>>

Register(s) ==
  /\ link[s] = "connecting"
  /\ link' = [link EXCEPT ![s] = "open"]
  /\ UNCHANGED <<version, news, generation, asked, pageVars, dragVars, missed, spent>>

\* The stream ends, is refused or dies, and what was on its way is lost.
Lose(s) ==
  /\ Spend("drops")
  /\ \/ link[s] \in {"connecting", "open"} /\ link' = [link EXCEPT ![s] = "backoff"]
     \/ link[s] = "connecting" /\ link' = [link EXCEPT ![s] = "hung"]
     \/ link[s] = "open" /\ link' = [link EXCEPT ![s] = "silent"]
  /\ news' = [news EXCEPT ![s] = 0]
  /\ missed' = IF news[s] > 0 THEN missed \cup {s} ELSE missed
  /\ UNCHANGED <<version, generation, asked, pageVars, dragVars>>

\* Seeded fault: the watchdog is armed by the first frame, not the request.
WatchdogOnFrames(s) ==
  /\ link[s] = "silent"
  /\ link' = [link EXCEPT ![s] = "backoff"]
  /\ UNCHANGED <<version, news, generation, asked, pageVars, dragVars, missed, spent>>

\* Too long without a frame: the request is aborted.
Watchdog(s) ==
  /\ link[s] \in {"hung", "silent"}
  /\ link' = [link EXCEPT ![s] = "backoff"]
  /\ UNCHANGED <<version, news, generation, asked, pageVars, dragVars, missed, spent>>

\* The sleep is over and the loop asks again.  It does not refresh.
Retry(s) ==
  /\ link[s] = "backoff"
  /\ link' = [link EXCEPT ![s] = "connecting"]
  /\ UNCHANGED <<version, news, generation, asked, pageVars, dragVars, missed, spent>>

-----------------------------------------------------------------------------
(* Refreshing. *)

Refresh ==
  /\ generation' = generation + 1
  /\ asked' = [g \in DOMAIN asked \cup {generation + 1} |->
                 IF g \in DOMAIN asked THEN asked[g] ELSE Nothing]
  /\ missed' = {}

\* onEvent: an announcement is read and the page refreshes.
Deliver(s) ==
  /\ link[s] = "open"
  /\ news[s] > 0
  /\ news' = [news EXCEPT ![s] = @ - 1]
  /\ Refresh
  /\ UNCHANGED <<version, link, pageVars, dragVars, spent>>

\* visibilitychange.
Wake ==
  /\ Spend("wakes")
  /\ Refresh
  /\ UNCHANGED <<version, streamVars, pageVars, dragVars>>

\* The router fetches from one source for refresh g.
Fetch(g, s) ==
  /\ g \in DOMAIN asked
  /\ Len(asked[g][s]) < Fetches
  /\ asked' = [asked EXCEPT ![g][s] = Append(@, version[s])]
  /\ UNCHANGED <<version, streamVars, generation, pageVars, dragVars, missed, spent>>

Without(g) == [h \in DOMAIN asked \ {g} |-> asked[h]]

\* Seeded fault: a drag does not hold the answer back.
RenderAlways(data) ==
  /\ served' = data
  /\ pending' = None
  /\ painted' = data

Render(data) ==
  /\ served' = data
  /\ IF dragging
       THEN pending' = data /\ UNCHANGED painted
       ELSE pending' = None /\ painted' = data

\* Seeded fault: an answer is shown whenever it comes.
CurrentAny(g) == g \in DOMAIN asked

\* mine === generation.
Current(g) == g = generation

Answered(g) ==
  /\ g \in DOMAIN asked
  /\ \A s \in Sources : Len(asked[g][s]) = Fetches
  /\ asked' = Without(g)
  /\ IF Current(g) THEN Render(asked[g]) ELSE UNCHANGED pageVars
  /\ UNCHANGED <<version, streamVars, generation, dragVars, missed, spent>>

\* Only the newest refresh owns up to having failed; either way no retry.
Failed(g) ==
  /\ g \in DOMAIN asked
  /\ Spend("failures")
  /\ asked' = Without(g)
  /\ missed' = IF Current(g) THEN Sources ELSE missed
  /\ UNCHANGED <<version, streamVars, generation, pageVars, dragVars>>

\* A mutation of this page is refused: what was served last is drawn again.
Refused ==
  /\ served # None
  /\ Render(served)
  /\ UNCHANGED <<version, streamVars, generation, asked, dragVars, missed, spent>>

-----------------------------------------------------------------------------
(* Dragging. *)

OnStart ==
  /\ ~dragging
  /\ painted # None
  /\ Spend("drags")
  /\ dragging' = TRUE
  /\ UNCHANGED <<version, streamVars, generation, asked, pageVars, flushDue, missed>>

\* Whether the mutation it sends is accepted or refused is Publish or Refused.
OnEnd ==
  /\ dragging
  /\ dragging' = FALSE
  /\ flushDue' = TRUE
  /\ UNCHANGED <<version, streamVars, generation, asked, pageVars, missed, spent>>

\* Seeded fault: the answer held back is dropped with the drag.
FlushDrops ==
  /\ flushDue
  /\ flushDue' = FALSE
  /\ pending' = None
  /\ UNCHANGED <<version, streamVars, generation, asked, served, painted, dragging, missed, spent>>

Flush ==
  /\ flushDue
  /\ flushDue' = FALSE
  /\ IF pending # None THEN Render(pending) ELSE UNCHANGED pageVars
  /\ UNCHANGED <<version, streamVars, generation, asked, dragging, missed, spent>>

-----------------------------------------------------------------------------
Running == DOMAIN asked

Next ==
  \/ \E s \in Sources :
       Publish(s) \/ Register(s) \/ Lose(s) \/ Watchdog(s) \/ Retry(s) \/ Deliver(s)
  \/ \E g \in Running : (\E s \in Sources : Fetch(g, s)) \/ Answered(g) \/ Failed(g)
  \/ Wake \/ Refused \/ OnStart \/ OnEnd \/ Flush

Spec == Init /\ [][Next]_vars

\* The page's own timers and callbacks run, the router works through a query
\* it was given, a stream asked for is registered, and a person lets go in the
\* end.  Nothing obliges anyone to publish, to look or to drag.
Fairness ==
  /\ \A s \in Sources :
       WF_vars(Register(s)) /\ WF_vars(Watchdog(s)) /\ WF_vars(Retry(s)) /\ WF_vars(Deliver(s))
  /\ WF_vars(\E g \in Running : (\E s \in Sources : Fetch(g, s)) \/ Answered(g))
  /\ WF_vars(OnEnd) /\ WF_vars(Flush)

FairSpec == Spec /\ Fairness

-----------------------------------------------------------------------------
(* What must hold. *)

\* Every version in answer b is at least every version in answer a.
NotBehind(b, a) ==
  \A s \in Sources : \A i, j \in 1..Fetches : a[s][i] <= b[s][j]

\* The page never goes back: whatever order answers come in, and however a
\* drag, its drop and a refusal fall between them, no part of a source is
\* ever drawn older than it was drawn before (the generation in refresh).
NeverGoesBack ==
  [][painted # None => NotBehind(painted', painted) \/ painted' = painted]_vars

\* The markup under a drag is not replaced before the drop, so the index a
\* drop reads is one of the tree the person was looking at.
DragOwnsMarkup == [][dragging => painted' = painted]_vars

\* The page comes to show each source at its latest version, every part of it
\* at the same one, unless an announcement was lost with its stream or the
\* newest refresh failed.
Shows(s) == painted # None /\ \A i \in 1..Fetches : painted[s][i] = version[s]
FollowsWhatItHears == \A s \in Sources : <>[](Shows(s) \/ s \in missed)

\* A stream that is lost, in whichever way, is asked for again and comes back.
StreamsComeBack == \A s \in Sources : link[s] \in Down ~> link[s] = "open"

\* SR-39 as it is worded: the page reflects every change, without a reload.
ReflectsEveryChange ==
  \A s \in Sources : \A v \in Version :
    version[s] = v ~> painted # None /\ \A i \in 1..Fetches : painted[s][i] >= v

-----------------------------------------------------------------------------
(* The inductive invariant behind NeverGoesBack. *)

\* What was fetched, and what was served last, is no newer than its source,
\* and whatever the newest refresh has fetched, if it is still running, is no
\* older than what was served.
FetchedIsPast ==
  \A g \in DOMAIN asked : \A s \in Sources : \A j \in 1..Len(asked[g][s]) :
    asked[g][s][j] <= version[s]

ServedIsPast == served # None =>
  \A s \in Sources : \A i \in 1..Fetches : served[s][i] <= version[s]

NewestIsAhead == served # None /\ generation \in DOMAIN asked =>
  \A s \in Sources : \A i \in 1..Fetches : \A j \in 1..Len(asked[generation][s]) :
    served[s][i] <= asked[generation][s][j]

\* The markup shows nothing newer than what was served last, and a drag holds
\* back exactly that.
PaintedIsServed == painted # None =>
  served # None /\ (painted = served \/ NotBehind(served, painted))
PendingIsServed == pending # None => pending = served

IInv ==
  /\ TypeOK
  /\ FetchedIsPast
  /\ ServedIsPast
  /\ NewestIsAhead
  /\ PaintedIsServed
  /\ PendingIsServed
=============================================================================
