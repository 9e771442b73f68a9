----------------------------- MODULE ModelStore -----------------------------
(***************************************************************************)
(* The adapter's store (adapter/projection): the shipped model, the        *)
(* current one, the version counter and the version-event subscribers,     *)
(* all behind one mutex.                                                   *)
(*                                                                         *)
(* A model is an object on the heap and goroutines hold pointers to it, so *)
(* heap is a sequence of models and a pointer is an index into it.  The    *)
(* object install() writes Version into is the one the caller allocated;   *)
(* a reader dereferences its pinned pointer without the lock.  The model's *)
(* text is abstracted to the values of its literals.                       *)
(*                                                                         *)
(* What needs the mutex is one atomic step where nothing inside it can be  *)
(* observed, and several where it can: notify() empties and fills each     *)
(* one-slot channel while the subscriber at the other end reads without    *)
(* the lock.                                                               *)
(***************************************************************************)
EXTENDS Naturals, Sequences

CONSTANTS
  Ops,          \* GraphQL operations in flight (one goroutine each)
  Subs,         \* subscriptions
  Literals,     \* the number literals of the model's text
  Editable,     \* those exactly one projected value carries
  Requested,    \* the numbers clients ask for
  Values,       \* the finite, non-negative ones among them
  Texts,        \* the texts model.Parse accepts
  Shipped,      \* the text of the shipped file
  MaxVersion    \* bound on the version counter

ASSUME ConstantsAssumption ==
  /\ MaxVersion \in Nat \ {0}
  /\ Editable \subseteq Literals
  /\ Values \subseteq Requested
  /\ Texts \subseteq [Literals -> Values]
  /\ Shipped \in Texts
  /\ Ops \cap Subs = {}

\* Nobody: the mutex is free.  Model values and strings never mix in TLC, so
\* the holder is a set of at most one goroutine.
Nobody == {}

Empty == 0      \* a channel with nothing in it; versions start at 1

VARIABLES
  mu,           \* the holders of Store.mu
  heap,         \* the models allocated so far; heap[1] is the parsed file
  current,      \* Store.current, a pointer
  version,      \* Store.version
  subs,         \* Store.subs, the registered channels
  slot,         \* slot[s]: what the channel of s holds
  closed,       \* closed[s]: the channel of s is closed
  feed,         \* feed[s]: "new", "open", "leaving" (ctx ended) or "ended"
  told,         \* history: the last version s was told of, from registration on
  pc,           \* pc[o]: where operation o is
  pin,          \* pin[o]: the model pinned to o (snapshot.model)
  made,         \* made[o]: the model o's mutation returned
  todo,         \* todo[o]: channels notify has not reached yet
  at,           \* at[o]: the channel notify is filling, as a set
  answer        \* history: the model o's answer must be read from

storeVars == <<heap, current, version>>
chanVars == <<subs, slot, closed, feed, told>>
opVars == <<pc, pin, made, todo, at, answer>>
vars == <<mu, heap, current, version, subs, slot, closed, feed, told,
          pc, pin, made, todo, at, answer>>

Model == [text: [Literals -> Values], version: 1..MaxVersion]

TypeOK ==
  /\ mu \in SUBSET (Ops \cup Subs)
  /\ heap \in Seq(Model)
  /\ current \in 1..Len(heap)
  /\ version \in 1..MaxVersion
  /\ subs \in SUBSET Subs
  /\ slot \in [Subs -> 0..MaxVersion]
  /\ closed \in [Subs -> BOOLEAN]
  /\ feed \in [Subs -> {"new", "open", "leaving", "ended"}]
  /\ told \in [Subs -> 0..MaxVersion]
  /\ pc \in [Ops -> {"idle", "pinned", "notify", "send", "returned", "panic"}]
  /\ pin \in [Ops -> 1..Len(heap)]
  /\ made \in [Ops -> 1..Len(heap)]
  /\ todo \in [Ops -> SUBSET Subs]
  /\ at \in [Ops -> SUBSET Subs]
  /\ answer \in [Ops -> Model]

Init ==
  /\ mu = Nobody
  /\ heap = <<[text |-> Shipped, version |-> 1]>>
  /\ current = 1
  /\ version = 1
  /\ subs = {}
  /\ slot = [s \in Subs |-> Empty]
  /\ closed = [s \in Subs |-> FALSE]
  /\ feed = [s \in Subs |-> "new"]
  /\ told = [s \in Subs |-> 0]
  /\ pc = [o \in Ops |-> "idle"]
  /\ pin = [o \in Ops |-> 1]
  /\ made = [o \in Ops |-> 1]
  /\ todo = [o \in Ops |-> {}]
  /\ at = [o \in Ops |-> {}]
  /\ answer = [o \in Ops |-> heap[1]]

-----------------------------------------------------------------------------
(* The pure edit: Model.SetAttribute, SetLimit, setLiteral and patch. *)

Patched(text, l, v) == [text EXCEPT ![l] = v]

\* Seeded fault: the editable check is forgotten.
AcceptedAnywhere(text, l, v) == v \in Values /\ Patched(text, l, v) \in Texts

\* Refused: not an editable literal, not a finite non-negative number, or a
\* text that no longer parses (a literal an expression divides by, set to 0).
Accepted(text, l, v) ==
  /\ l \in Editable
  /\ v \in Values
  /\ Patched(text, l, v) \in Texts

-----------------------------------------------------------------------------
(* Operations. *)

\* AroundOperations pins Store.Current() before any resolver runs.
Begin(o) ==
  /\ pc[o] = "idle"
  /\ mu = Nobody
  /\ pc' = [pc EXCEPT ![o] = "pinned"]
  /\ pin' = [pin EXCEPT ![o] = current]
  /\ answer' = [answer EXCEPT ![o] = heap[current]]
  /\ UNCHANGED <<mu, storeVars, chanVars, made, todo, at>>

\* The answer is marshalled and the operation's context dies.
Finish(o) ==
  /\ pc[o] = "pinned"
  /\ pc' = [pc EXCEPT ![o] = "idle"]
  /\ UNCHANGED <<mu, storeVars, chanVars, pin, made, todo, at, answer>>

\* install: numbers the freshly allocated model and makes it current.  The
\* caller keeps the mutex and enters notify.
Install(o, text) ==
  LET next == [text |-> text, version |-> version + 1] IN
  /\ version < MaxVersion
  /\ version' = version + 1
  /\ heap' = Append(heap, next)
  /\ current' = Len(heap) + 1
  /\ made' = [made EXCEPT ![o] = Len(heap) + 1]
  /\ answer' = [answer EXCEPT ![o] = next]

\* A mutation that is accepted holds the mutex from here to Return.
Enter(o) ==
  /\ pc[o] = "pinned"
  /\ mu = Nobody
  /\ mu' = {o}
  /\ pc' = [pc EXCEPT ![o] = "notify"]
  /\ todo' = [todo EXCEPT ![o] = subs]
  /\ UNCHANGED <<chanVars, pin, at>>

\* SetAttribute and SetLimit: the literal is patched in the model that is
\* current under the lock, whatever the operation pinned.
SetLiteral(o, l, v) ==
  /\ Accepted(heap[current].text, l, v)
  /\ Enter(o)
  /\ Install(o, Patched(heap[current].text, l, v))

\* A refused edit takes and releases the lock; the operation ends in an error.
Refuse(o, l, v) ==
  /\ pc[o] = "pinned"
  /\ mu = Nobody
  /\ ~Accepted(heap[current].text, l, v)
  /\ pc' = [pc EXCEPT ![o] = "idle"]
  /\ UNCHANGED <<mu, storeVars, chanVars, pin, made, todo, at, answer>>

\* Seeded fault: the copy keeps the version it was shipped with.
ResetUnnumbered(o) ==
  /\ Enter(o)
  /\ version < MaxVersion
  /\ version' = version + 1
  /\ heap' = Append(heap, heap[1])
  /\ current' = Len(heap) + 1
  /\ made' = [made EXCEPT ![o] = Len(heap) + 1]
  /\ answer' = [answer EXCEPT ![o] = heap[1]]

\* Seeded fault: a reset starts the counter again.
ResetCounter(o) ==
  /\ Enter(o)
  /\ version' = 1
  /\ heap' = Append(heap, heap[1])
  /\ current' = Len(heap) + 1
  /\ made' = [made EXCEPT ![o] = Len(heap) + 1]
  /\ answer' = [answer EXCEPT ![o] = heap[1]]

\* Reset: a copy of the shipped model under the next version.
Reset(o) ==
  /\ Enter(o)
  /\ Install(o, heap[1].text)

\* Seeded fault: a subscriber with an unread version is skipped.
DrainDropsNewest(o, s) ==
  /\ pc[o] = "notify"
  /\ s \in todo[o]
  /\ pc' = [pc EXCEPT ![o] = IF slot[s] = Empty THEN "send" ELSE "notify"]
  /\ todo' = [todo EXCEPT ![o] = @ \ {s}]
  /\ at' = [at EXCEPT ![o] = IF slot[s] = Empty THEN {s} ELSE {}]
  /\ UNCHANGED <<mu, storeVars, chanVars, pin, made, answer>>

\* notify, first half: take out what the subscriber has not read.
Drain(o, s) ==
  /\ pc[o] = "notify"
  /\ s \in todo[o]
  /\ pc' = [pc EXCEPT ![o] = "send"]
  /\ todo' = [todo EXCEPT ![o] = @ \ {s}]
  /\ at' = [at EXCEPT ![o] = {s}]
  /\ slot' = [slot EXCEPT ![s] = Empty]
  /\ UNCHANGED <<mu, storeVars, subs, closed, feed, told, pin, made, answer>>

\* notify, second half: the send blocks on a full channel and panics on a
\* closed one.
Send(o, s) ==
  /\ pc[o] = "send"
  /\ s \in at[o]
  /\ closed[s] \/ slot[s] = Empty
  /\ pc' = [pc EXCEPT ![o] = IF closed[s] THEN "panic" ELSE "notify"]
  /\ slot' = [slot EXCEPT ![s] = IF closed[s] THEN @ ELSE version]
  /\ at' = [at EXCEPT ![o] = {}]
  /\ UNCHANGED <<mu, storeVars, subs, closed, feed, told, pin, made, todo, answer>>

\* Seeded fault: Unlock is missing.
ReturnLocked(o) ==
  /\ pc[o] = "notify"
  /\ todo[o] = {}
  /\ pc' = [pc EXCEPT ![o] = "returned"]
  /\ UNCHANGED <<mu, storeVars, chanVars, pin, made, todo, at, answer>>

\* The store call returns and the deferred Unlock runs.
Return(o) ==
  /\ pc[o] = "notify"
  /\ todo[o] = {}
  /\ mu' = mu \ {o}
  /\ pc' = [pc EXCEPT ![o] = "returned"]
  /\ UNCHANGED <<storeVars, chanVars, pin, made, todo, at, answer>>

\* Seeded fault: the resolver asks the store for the current model instead.
AdvanceToCurrent(o) ==
  /\ pc[o] = "returned"
  /\ pc' = [pc EXCEPT ![o] = "pinned"]
  /\ pin' = [pin EXCEPT ![o] = current]
  /\ UNCHANGED <<mu, storeVars, chanVars, made, todo, at, answer>>

\* advance: the resolver re-pins the operation to the model it produced.
Advance(o) ==
  /\ pc[o] = "returned"
  /\ pc' = [pc EXCEPT ![o] = "pinned"]
  /\ pin' = [pin EXCEPT ![o] = made[o]]
  /\ UNCHANGED <<mu, storeVars, chanVars, made, todo, at, answer>>

-----------------------------------------------------------------------------
(* Subscriptions. *)

\* Subscribe: the channel is registered, nothing is sent on it.
Subscribe(s) ==
  /\ feed[s] = "new"
  /\ mu = Nobody
  /\ subs' = subs \cup {s}
  /\ feed' = [feed EXCEPT ![s] = "open"]
  /\ told' = [told EXCEPT ![s] = version]
  /\ UNCHANGED <<mu, storeVars, slot, closed, opVars>>

\* The subscriber's context ends; needs no lock.
Leave(s) ==
  /\ feed[s] = "open"
  /\ feed' = [feed EXCEPT ![s] = "leaving"]
  /\ UNCHANGED <<mu, storeVars, subs, slot, closed, told, opVars>>

\* Seeded fault: the channel is closed without the mutex.
UnregisterUnlocked(s) ==
  /\ feed[s] = "leaving"
  /\ subs' = subs \ {s}
  /\ closed' = [closed EXCEPT ![s] = TRUE]
  /\ feed' = [feed EXCEPT ![s] = "ended"]
  /\ UNCHANGED <<mu, storeVars, slot, told, opVars>>

\* The goroutine Subscribe started: unregister and close under the lock.
Unregister(s) ==
  /\ feed[s] = "leaving"
  /\ mu = Nobody
  /\ subs' = subs \ {s}
  /\ closed' = [closed EXCEPT ![s] = TRUE]
  /\ feed' = [feed EXCEPT ![s] = "ended"]
  /\ UNCHANGED <<mu, storeVars, slot, told, opVars>>

\* The transport's goroutine reads the channel, with no lock.
Receive(s) ==
  /\ slot[s] # Empty
  /\ told' = [told EXCEPT ![s] = slot[s]]
  /\ slot' = [slot EXCEPT ![s] = Empty]
  /\ UNCHANGED <<mu, storeVars, subs, closed, feed, opVars>>

-----------------------------------------------------------------------------
Operation(o) ==
  \/ Begin(o) \/ Finish(o) \/ Reset(o) \/ Return(o) \/ Advance(o)
  \/ \E l \in Literals, v \in Requested : SetLiteral(o, l, v) \/ Refuse(o, l, v)
  \/ \E s \in Subs : Drain(o, s) \/ Send(o, s)

Subscription(s) == Subscribe(s) \/ Leave(s) \/ Unregister(s) \/ Receive(s)

Next == (\E o \in Ops : Operation(o)) \/ (\E s \in Subs : Subscription(s))

Spec == Init /\ [][Next]_vars

\* Goroutines inside the store keep running; sync.Mutex is starvation-free,
\* so a goroutine that waits for it gets it; the transport reads its channel
\* while its client is there.  Nobody has to start an operation or leave.
Fairness ==
  /\ \A o \in Ops : WF_vars(Return(o)) /\ WF_vars(Advance(o))
  /\ \A o \in Ops : WF_vars(\E s \in Subs : Drain(o, s) \/ Send(o, s))
  /\ \A s \in Subs :
       SF_vars(Unregister(s)) /\ WF_vars(feed[s] = "open" /\ Receive(s))

FairSpec == Spec /\ Fairness

-----------------------------------------------------------------------------
(* What must hold. *)

NoPanic == \A o \in Ops : pc[o] # "panic"

SendNeverBlocks ==
  \A o \in Ops : pc[o] = "send" => \A s \in at[o] : slot[s] = Empty

\* Publishing neither dies nor waits: no version is ever sent on a closed
\* channel, which would take the process down, and whenever notify is about to
\* send the slot is free, although the reader empties it without the lock
\* (broadcast.go).
PublisherNeverStops == NoPanic /\ SendNeverBlocks

\* One operation never mixes two versions (SR-22), and a mutation answers
\* from the model it installed, not from one a later mutation installed:
\* the model behind an operation's pin is, field by field, the one it pinned.
PinnedModelUnchanged ==
  \A o \in Ops : pc[o] = "pinned" => heap[pin[o]] = answer[o]

\* A version number names one model for good, resets included, and the
\* counter is the current model's: a client that compares numbers is never
\* shown two models under one of them (C-92).
VersionNamesModel ==
  /\ \A p, q \in 1..Len(heap) : heap[p].version = heap[q].version => p = q
  /\ heap[current].version = version

\* However many edits and resets follow each other, every model ever served
\* parses and differs from the shipped one at editable literals only, so a
\* value no client may set never moves (SR-24).
OnlyEditableLiteralsMove ==
  \A p \in 1..Len(heap) :
    /\ heap[p].text \in Texts
    /\ \A l \in Literals \ Editable : heap[p].text[l] = Shipped[l]

-----------------------------------------------------------------------------
(* The strengthening that makes the invariants above inductive. *)

\* Only the goroutine inside the mutex is in notify.
Exclusive ==
  /\ \A o \in Ops : pc[o] \in {"notify", "send"} <=> o \in mu
  /\ \A a, b \in mu : a = b

Publishing(o) == pc[o] \in {"notify", "send"}

\* The registered channels are those of the subscriptions not yet ended, a
\* channel is closed once its subscription has, and notify works through
\* channels that were registered when it took the mutex.
Registered ==
  /\ subs = {s \in Subs : feed[s] \in {"open", "leaving"}}
  /\ \A s \in Subs : closed[s] <=> feed[s] = "ended"
  /\ \A o \in Ops :
       /\ Publishing(o) => todo[o] \cup at[o] \subseteq subs
       /\ \A s, t \in at[o] : s = t
       /\ pc[o] # "send" => at[o] = {}
       /\ at[o] \cap todo[o] = {}

\* What a channel holds is news to its subscriber, and the version being
\* published is news to every channel notify has still to fill.
Fresh ==
  /\ \A s \in Subs :
       /\ told[s] <= version
       /\ slot[s] <= version
       /\ slot[s] # Empty => told[s] < slot[s]
       /\ feed[s] = "new" => slot[s] = Empty
  /\ \A o \in Ops : Publishing(o) =>
       \A s \in todo[o] \cup at[o] : told[s] < version /\ slot[s] < version

\* Models are allocated and numbered in step, one per install.
Numbered ==
  /\ version = Len(heap)
  /\ current = version
  /\ \A p \in 1..Len(heap) : heap[p].version = p

\* The model an operation made is its answer until it pins it.
MadeUnchanged ==
  \A o \in Ops :
    Publishing(o) \/ pc[o] = "returned" => heap[made[o]] = answer[o]

IInv ==
  /\ TypeOK
  /\ Exclusive
  /\ NoPanic
  /\ SendNeverBlocks
  /\ Registered
  /\ Fresh
  /\ Numbered
  /\ PinnedModelUnchanged
  /\ MadeUnchanged
  /\ OnlyEditableLiteralsMove

-----------------------------------------------------------------------------
\* The store implements the version feed; a subscription whose context has
\* ended is open until its goroutine gets the mutex.
Feed == INSTANCE VersionFeed WITH
  feed <- [s \in Subs |-> IF feed[s] = "leaving" THEN "open" ELSE feed[s]]

ImplementsFeed == Feed!Spec

\* A subscriber that stays is eventually told the latest version, although
\* the slot holds one value and unread ones are dropped (AD-0014, SR-26).
CaughtUp ==
  \A s \in Subs :
    (feed[s] = "open" /\ told[s] < version)
      ~> (told[s] = version \/ feed[s] # "open")

\* A client that goes away is forgotten: its channel is unregistered and
\* closed, however busy the mutex is.
LeaverReleased == \A s \in Subs : feed[s] = "leaving" ~> feed[s] = "ended"
=============================================================================
