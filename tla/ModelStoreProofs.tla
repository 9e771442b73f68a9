-------------------------- MODULE ModelStoreProofs --------------------------
(***************************************************************************)
(* Proofs about ModelStore, for every value of its constants: the          *)
(* invariant IInv, what follows from it, and that the store implements     *)
(* VersionFeed.  One lemma per action, one step per conjunct of IInv.      *)
(***************************************************************************)
EXTENDS ModelStore, TLAPS

\* The store a parsed file starts with satisfies the invariant.
LEMMA InitIInv == Init => IInv
<1> SUFFICES ASSUME Init PROVE IInv
  OBVIOUS
<1> USE ConstantsAssumption DEF Init
<1>1. TypeOK
  BY DEF TypeOK, Model, Nobody, Empty
<1>2. Exclusive /\ NoPanic /\ SendNeverBlocks
  BY DEF Exclusive, NoPanic, SendNeverBlocks, Nobody
<1>3. Registered /\ Fresh
  BY DEF Registered, Fresh, Publishing, Empty
<1>4. Numbered /\ PinnedModelUnchanged /\ MadeUnchanged
  BY DEF Numbered, PinnedModelUnchanged, MadeUnchanged, Publishing
<1>5. OnlyEditableLiteralsMove
  BY DEF OnlyEditableLiteralsMove
<1> QED
  BY <1>1, <1>2, <1>3, <1>4, <1>5 DEF IInv

\* The pin is the current model and so is the answer.
LEMMA BeginIInv ==
  ASSUME IInv, NEW o \in Ops, Begin(o)
  PROVE  IInv'
<1> USE ConstantsAssumption DEF IInv, Begin, storeVars, chanVars, opVars
<1>1. TypeOK'
  BY DEF TypeOK, Nobody, Empty
<1>2. Exclusive'
  BY DEF TypeOK, Exclusive, Nobody
<1>3. NoPanic'
  BY DEF TypeOK, NoPanic
<1>4. SendNeverBlocks'
  BY DEF TypeOK, SendNeverBlocks, Empty, Nobody
<1>5. Registered'
  BY DEF TypeOK, Registered, Publishing
<1>6. Fresh'
  BY DEF TypeOK, Fresh, Publishing, Empty
<1>7. Numbered'
  BY DEF TypeOK, Numbered
<1>8. PinnedModelUnchanged'
  BY DEF TypeOK, PinnedModelUnchanged
<1>9. MadeUnchanged'
  BY DEF TypeOK, MadeUnchanged, Publishing
<1>10. OnlyEditableLiteralsMove'
  BY DEF TypeOK, OnlyEditableLiteralsMove
<1> QED
  BY <1>1, <1>2, <1>3, <1>4, <1>5, <1>6, <1>7, <1>8, <1>9, <1>10 DEF IInv

\* Only the program counter moves.
LEMMA FinishIInv ==
  ASSUME IInv, NEW o \in Ops, Finish(o)
  PROVE  IInv'
<1> USE ConstantsAssumption DEF IInv, Finish, storeVars, chanVars, opVars
<1>1. TypeOK'
  BY DEF TypeOK, Nobody, Empty
<1>2. Exclusive'
  BY DEF TypeOK, Exclusive, Nobody
<1>3. NoPanic'
  BY DEF TypeOK, NoPanic
<1>4. SendNeverBlocks'
  BY DEF TypeOK, SendNeverBlocks, Empty, Nobody
<1>5. Registered'
  BY DEF TypeOK, Registered, Publishing
<1>6. Fresh'
  BY DEF TypeOK, Fresh, Publishing, Empty
<1>7. Numbered'
  BY DEF TypeOK, Numbered
<1>8. PinnedModelUnchanged'
  BY DEF TypeOK, PinnedModelUnchanged
<1>9. MadeUnchanged'
  BY DEF TypeOK, MadeUnchanged, Publishing
<1>10. OnlyEditableLiteralsMove'
  BY DEF TypeOK, OnlyEditableLiteralsMove
<1> QED
  BY <1>1, <1>2, <1>3, <1>4, <1>5, <1>6, <1>7, <1>8, <1>9, <1>10 DEF IInv

\* The mutex goes back; the model made is still unpinned.
LEMMA ReturnIInv ==
  ASSUME IInv, NEW o \in Ops, Return(o)
  PROVE  IInv'
<1> USE ConstantsAssumption DEF IInv, Return, storeVars, chanVars, opVars
<1>1. TypeOK'
  BY DEF TypeOK, Nobody, Empty
<1>2. Exclusive'
  BY DEF TypeOK, Exclusive, Nobody
<1>3. NoPanic'
  BY DEF TypeOK, NoPanic
<1>4. SendNeverBlocks'
  BY DEF TypeOK, SendNeverBlocks, Empty, Nobody
<1>5. Registered'
  BY DEF TypeOK, Registered, Publishing
<1>6. Fresh'
  BY DEF TypeOK, Fresh, Publishing, Empty
<1>7. Numbered'
  BY DEF TypeOK, Numbered
<1>8. PinnedModelUnchanged'
  BY DEF TypeOK, PinnedModelUnchanged
<1>9. MadeUnchanged'
  BY DEF TypeOK, MadeUnchanged, Publishing
<1>10. OnlyEditableLiteralsMove'
  BY DEF TypeOK, OnlyEditableLiteralsMove
<1> QED
  BY <1>1, <1>2, <1>3, <1>4, <1>5, <1>6, <1>7, <1>8, <1>9, <1>10 DEF IInv

\* The pin becomes the model made, which MadeUnchanged says is the answer.
LEMMA AdvanceIInv ==
  ASSUME IInv, NEW o \in Ops, Advance(o)
  PROVE  IInv'
<1> USE ConstantsAssumption DEF IInv, Advance, storeVars, chanVars, opVars
<1>1. TypeOK'
  BY DEF TypeOK, Nobody, Empty
<1>2. Exclusive'
  BY DEF TypeOK, Exclusive, Nobody
<1>3. NoPanic'
  BY DEF TypeOK, NoPanic
<1>4. SendNeverBlocks'
  BY DEF TypeOK, SendNeverBlocks, Empty, Nobody
<1>5. Registered'
  BY DEF TypeOK, Registered, Publishing
<1>6. Fresh'
  BY DEF TypeOK, Fresh, Publishing, Empty
<1>7. Numbered'
  BY DEF TypeOK, Numbered
<1>8. PinnedModelUnchanged'
  BY DEF TypeOK, PinnedModelUnchanged, MadeUnchanged
<1>9. MadeUnchanged'
  BY DEF TypeOK, MadeUnchanged, Publishing
<1>10. OnlyEditableLiteralsMove'
  BY DEF TypeOK, OnlyEditableLiteralsMove
<1> QED
  BY <1>1, <1>2, <1>3, <1>4, <1>5, <1>6, <1>7, <1>8, <1>9, <1>10 DEF IInv

\* A refusal changes no model, channel or version.
LEMMA RefuseIInv ==
  ASSUME IInv, NEW o \in Ops, NEW l \in Literals, NEW v \in Requested, Refuse(o, l, v)
  PROVE  IInv'
<1> USE ConstantsAssumption DEF IInv, Refuse, storeVars, chanVars, opVars
<1>1. TypeOK'
  BY DEF TypeOK, Nobody, Empty
<1>2. Exclusive'
  BY DEF TypeOK, Exclusive, Nobody
<1>3. NoPanic'
  BY DEF TypeOK, NoPanic
<1>4. SendNeverBlocks'
  BY DEF TypeOK, SendNeverBlocks, Empty, Nobody
<1>5. Registered'
  BY DEF TypeOK, Registered, Publishing
<1>6. Fresh'
  BY DEF TypeOK, Fresh, Publishing, Empty
<1>7. Numbered'
  BY DEF TypeOK, Numbered
<1>8. PinnedModelUnchanged'
  BY DEF TypeOK, PinnedModelUnchanged
<1>9. MadeUnchanged'
  BY DEF TypeOK, MadeUnchanged, Publishing
<1>10. OnlyEditableLiteralsMove'
  BY DEF TypeOK, OnlyEditableLiteralsMove
<1> QED
  BY <1>1, <1>2, <1>3, <1>4, <1>5, <1>6, <1>7, <1>8, <1>9, <1>10 DEF IInv

\* An emptied slot is ready for the send.
LEMMA DrainIInv ==
  ASSUME IInv, NEW o \in Ops, NEW s \in Subs, Drain(o, s)
  PROVE  IInv'
<1> USE ConstantsAssumption DEF IInv, Drain, storeVars, chanVars, opVars
<1>1. TypeOK'
  BY DEF TypeOK, Nobody, Empty
<1>2. Exclusive'
  BY DEF TypeOK, Exclusive, Nobody
<1>3. NoPanic'
  BY DEF TypeOK, NoPanic
<1>4. SendNeverBlocks'
  BY DEF TypeOK, SendNeverBlocks, Empty, Nobody
<1>5. Registered'
  BY DEF TypeOK, Registered, Publishing
<1>6. Fresh'
  BY DEF TypeOK, Fresh, Publishing, Empty
<1>7. Numbered'
  BY DEF TypeOK, Numbered
<1>8. PinnedModelUnchanged'
  BY DEF TypeOK, PinnedModelUnchanged
<1>9. MadeUnchanged'
  BY DEF TypeOK, MadeUnchanged, Publishing
<1>10. OnlyEditableLiteralsMove'
  BY DEF TypeOK, OnlyEditableLiteralsMove
<1> QED
  BY <1>1, <1>2, <1>3, <1>4, <1>5, <1>6, <1>7, <1>8, <1>9, <1>10 DEF IInv

\* Registered says the channel is open, Fresh that the version is news to it.
LEMMA SendIInv ==
  ASSUME IInv, NEW o \in Ops, NEW s \in Subs, Send(o, s)
  PROVE  IInv'
<1> USE ConstantsAssumption DEF IInv, Send, storeVars, chanVars, opVars
<1>0. s \in subs /\ ~closed[s]
  BY DEF TypeOK, Registered, Publishing
<1>1. TypeOK'
  BY <1>0 DEF TypeOK, Nobody, Empty
<1>2. Exclusive'
  BY <1>0 DEF TypeOK, Exclusive, Nobody
<1>3. NoPanic'
  BY <1>0 DEF TypeOK, NoPanic
<1>4. SendNeverBlocks'
  BY <1>0 DEF TypeOK, SendNeverBlocks, Empty, Nobody, Exclusive
<1>5. Registered'
  BY <1>0 DEF TypeOK, Registered, Publishing, Exclusive
<1>6. Fresh'
  BY <1>0 DEF TypeOK, Fresh, Publishing, Empty, Registered, Exclusive
<1>7. Numbered'
  BY <1>0 DEF TypeOK, Numbered
<1>8. PinnedModelUnchanged'
  BY <1>0 DEF TypeOK, PinnedModelUnchanged
<1>9. MadeUnchanged'
  BY <1>0 DEF TypeOK, MadeUnchanged, Publishing
<1>10. OnlyEditableLiteralsMove'
  BY <1>0 DEF TypeOK, OnlyEditableLiteralsMove
<1> QED
  BY <1>1, <1>2, <1>3, <1>4, <1>5, <1>6, <1>7, <1>8, <1>9, <1>10 DEF IInv

\* The mutex is free, so no notify is under way that would miss the channel.
LEMMA SubscribeIInv ==
  ASSUME IInv, NEW s \in Subs, Subscribe(s)
  PROVE  IInv'
<1> USE ConstantsAssumption DEF IInv, Subscribe, storeVars, chanVars, opVars
<1>1. TypeOK'
  BY DEF TypeOK, Nobody, Empty
<1>2. Exclusive'
  BY DEF TypeOK, Exclusive, Nobody
<1>3. NoPanic'
  BY DEF TypeOK, NoPanic
<1>4. SendNeverBlocks'
  BY DEF TypeOK, SendNeverBlocks, Empty, Nobody
<1>5. Registered'
  BY DEF TypeOK, Registered, Publishing
<1>6. Fresh'
  BY DEF TypeOK, Fresh, Publishing, Empty, Exclusive, Nobody
<1>7. Numbered'
  BY DEF TypeOK, Numbered
<1>8. PinnedModelUnchanged'
  BY DEF TypeOK, PinnedModelUnchanged
<1>9. MadeUnchanged'
  BY DEF TypeOK, MadeUnchanged, Publishing
<1>10. OnlyEditableLiteralsMove'
  BY DEF TypeOK, OnlyEditableLiteralsMove
<1> QED
  BY <1>1, <1>2, <1>3, <1>4, <1>5, <1>6, <1>7, <1>8, <1>9, <1>10 DEF IInv

\* The channel stays registered until the goroutine has the mutex.
LEMMA LeaveIInv ==
  ASSUME IInv, NEW s \in Subs, Leave(s)
  PROVE  IInv'
<1> USE ConstantsAssumption DEF IInv, Leave, storeVars, chanVars, opVars
<1>1. TypeOK'
  BY DEF TypeOK, Nobody, Empty
<1>2. Exclusive'
  BY DEF TypeOK, Exclusive, Nobody
<1>3. NoPanic'
  BY DEF TypeOK, NoPanic
<1>4. SendNeverBlocks'
  BY DEF TypeOK, SendNeverBlocks, Empty, Nobody
<1>5. Registered'
  BY DEF TypeOK, Registered, Publishing
<1>6. Fresh'
  BY DEF TypeOK, Fresh, Publishing, Empty
<1>7. Numbered'
  BY DEF TypeOK, Numbered
<1>8. PinnedModelUnchanged'
  BY DEF TypeOK, PinnedModelUnchanged
<1>9. MadeUnchanged'
  BY DEF TypeOK, MadeUnchanged, Publishing
<1>10. OnlyEditableLiteralsMove'
  BY DEF TypeOK, OnlyEditableLiteralsMove
<1> QED
  BY <1>1, <1>2, <1>3, <1>4, <1>5, <1>6, <1>7, <1>8, <1>9, <1>10 DEF IInv

\* The mutex is free, so no notify holds the channel being closed.
LEMMA UnregisterIInv ==
  ASSUME IInv, NEW s \in Subs, Unregister(s)
  PROVE  IInv'
<1> USE ConstantsAssumption DEF IInv, Unregister, storeVars, chanVars, opVars
<1>1. TypeOK'
  BY DEF TypeOK, Nobody, Empty
<1>2. Exclusive'
  BY DEF TypeOK, Exclusive, Nobody
<1>3. NoPanic'
  BY DEF TypeOK, NoPanic
<1>4. SendNeverBlocks'
  BY DEF TypeOK, SendNeverBlocks, Empty, Nobody
<1>5. Registered'
  BY DEF TypeOK, Registered, Publishing, Exclusive, Nobody
<1>6. Fresh'
  BY DEF TypeOK, Fresh, Publishing, Empty
<1>7. Numbered'
  BY DEF TypeOK, Numbered
<1>8. PinnedModelUnchanged'
  BY DEF TypeOK, PinnedModelUnchanged
<1>9. MadeUnchanged'
  BY DEF TypeOK, MadeUnchanged, Publishing
<1>10. OnlyEditableLiteralsMove'
  BY DEF TypeOK, OnlyEditableLiteralsMove
<1> QED
  BY <1>1, <1>2, <1>3, <1>4, <1>5, <1>6, <1>7, <1>8, <1>9, <1>10 DEF IInv

\* Fresh says what is read is news.
LEMMA ReceiveIInv ==
  ASSUME IInv, NEW s \in Subs, Receive(s)
  PROVE  IInv'
<1> USE ConstantsAssumption DEF IInv, Receive, storeVars, chanVars, opVars
<1>1. TypeOK'
  BY DEF TypeOK, Nobody, Empty
<1>2. Exclusive'
  BY DEF TypeOK, Exclusive, Nobody
<1>3. NoPanic'
  BY DEF TypeOK, NoPanic
<1>4. SendNeverBlocks'
  BY DEF TypeOK, SendNeverBlocks, Empty, Nobody
<1>5. Registered'
  BY DEF TypeOK, Registered, Publishing
<1>6. Fresh'
  BY DEF TypeOK, Fresh, Publishing, Empty
<1>7. Numbered'
  BY DEF TypeOK, Numbered
<1>8. PinnedModelUnchanged'
  BY DEF TypeOK, PinnedModelUnchanged
<1>9. MadeUnchanged'
  BY DEF TypeOK, MadeUnchanged, Publishing
<1>10. OnlyEditableLiteralsMove'
  BY DEF TypeOK, OnlyEditableLiteralsMove
<1> QED
  BY <1>1, <1>2, <1>3, <1>4, <1>5, <1>6, <1>7, <1>8, <1>9, <1>10 DEF IInv

-----------------------------------------------------------------------------
(* The two mutations share everything but the text they install. *)

\* A text the store may come to hold, given what it holds now.
Servable(text) ==
  /\ text \in Texts
  /\ \A l \in Literals \ Editable : text[l] = Shipped[l]

\* Patching an editable literal of a served text gives a servable one.
LEMMA PatchedServable ==
  ASSUME NEW text, Servable(text), NEW l \in Literals, NEW v,
         Accepted(text, l, v)
  PROVE  Servable(Patched(text, l, v))
BY ConstantsAssumption DEF Servable, Accepted, Patched

\* The new model goes to the end of the heap and gets the next number;
\* every model that was there is where and what it was.
LEMMA InstallHeap ==
  ASSUME IInv, NEW o \in Ops, NEW text, Servable(text), Install(o, text)
  PROVE  LET next == [text |-> text, version |-> version + 1] IN
         /\ next \in Model
         /\ heap' \in Seq(Model)
         /\ Len(heap') = Len(heap) + 1
         /\ heap'[Len(heap) + 1] = next
         /\ \A p \in 1..Len(heap) : heap'[p] = heap[p]
         /\ version' \in 1..MaxVersion
<1> DEFINE next == [text |-> text, version |-> version + 1]
<1> USE ConstantsAssumption DEF IInv, TypeOK
<1>1. next \in Model
  BY DEF Install, Servable, Model
<1>2. heap \in Seq(Model) /\ heap' = Append(heap, next)
  BY DEF Install
<1> QED
  BY <1>1, <1>2 DEF Install

\* A mutation that takes the mutex and installs a servable text keeps IInv.
LEMMA InstallIInv ==
  ASSUME IInv, NEW o \in Ops, NEW text, Servable(text),
         Enter(o), Install(o, text)
  PROVE  IInv'
<1> DEFINE next == [text |-> text, version |-> version + 1]
<1> USE ConstantsAssumption DEF IInv, Enter, chanVars
<1>0. /\ next \in Model
      /\ heap' \in Seq(Model)
      /\ Len(heap') = Len(heap) + 1
      /\ heap'[Len(heap) + 1] = next
      /\ \A p \in 1..Len(heap) : heap'[p] = heap[p]
      /\ version' = version + 1
      /\ version' \in 1..MaxVersion
      /\ current' = Len(heap) + 1
      /\ made' = [made EXCEPT ![o] = Len(heap) + 1]
      /\ answer' = [answer EXCEPT ![o] = next]
  BY InstallHeap DEF Install
<1>00. Len(heap) \in Nat
  BY DEF TypeOK
<1> HIDE DEF next
<1>1. TypeOK'
  BY <1>0, <1>00 DEF TypeOK
<1>2. Exclusive'
  BY DEF TypeOK, Exclusive, Nobody
<1>3. NoPanic'
  BY DEF TypeOK, NoPanic
<1>4. SendNeverBlocks'
  BY DEF TypeOK, SendNeverBlocks
<1>5. Registered'
  BY DEF TypeOK, Registered, Exclusive, Publishing, Nobody
<1>6. Fresh'
  BY <1>0 DEF TypeOK, Fresh, Exclusive, Publishing, Empty, Nobody
<1>7. Numbered'
  <2>1. next.version = Len(heap) + 1
    BY DEF Numbered, next
  <2>2. ASSUME NEW p \in 1..Len(heap') PROVE heap'[p].version = p
    <3>1. CASE p \in 1..Len(heap)
      BY <1>0, <3>1 DEF Numbered
    <3>2. CASE p = Len(heap) + 1
      BY <1>0, <2>1, <3>2
    <3> QED
      BY <1>0, <1>00, <3>1, <3>2
  <2> QED
    BY <1>0, <1>00, <2>1, <2>2 DEF Numbered
<1>8. PinnedModelUnchanged'
  BY <1>0, <1>00 DEF TypeOK, PinnedModelUnchanged
<1>9. MadeUnchanged'
  BY <1>0, <1>00 DEF TypeOK, MadeUnchanged, Exclusive, Publishing, Nobody
<1>10. OnlyEditableLiteralsMove'
  <2>1. Servable(next.text)
    BY DEF next
  <2>2. ASSUME NEW p \in 1..Len(heap') PROVE Servable(heap'[p].text)
    <3>1. CASE p \in 1..Len(heap)
      BY <1>0, <3>1 DEF OnlyEditableLiteralsMove, Servable
    <3>2. CASE p = Len(heap) + 1
      BY <1>0, <2>1, <3>2
    <3> QED
      BY <1>0, <1>00, <3>1, <3>2
  <2> QED
    BY <2>2 DEF OnlyEditableLiteralsMove, Servable
<1> QED
  BY <1>1, <1>2, <1>3, <1>4, <1>5, <1>6, <1>7, <1>8, <1>9, <1>10 DEF IInv

\* SetAttribute and SetLimit install a patch of the current text.
LEMMA SetLiteralIInv ==
  ASSUME IInv, NEW o \in Ops, NEW l \in Literals, NEW v, SetLiteral(o, l, v)
  PROVE  IInv'
<1>1. Servable(heap[current].text)
  BY DEF IInv, TypeOK, OnlyEditableLiteralsMove, Servable
<1>2. Servable(Patched(heap[current].text, l, v))
  BY <1>1, PatchedServable DEF SetLiteral
<1> QED
  BY <1>2, InstallIInv DEF SetLiteral

\* Reset installs the text of the parsed file, the first of the heap.
LEMMA ResetIInv ==
  ASSUME IInv, NEW o \in Ops, Reset(o)
  PROVE  IInv'
<1>1. Servable(heap[1].text)
  BY DEF IInv, TypeOK, OnlyEditableLiteralsMove, Servable
<1> QED
  BY <1>1, InstallIInv DEF Reset

-----------------------------------------------------------------------------
\* The invariant is kept by every step of the store and its subscribers.
LEMMA NextIInv == IInv /\ [Next]_vars => IInv'
<1> SUFFICES ASSUME IInv, [Next]_vars PROVE IInv'
  OBVIOUS
<1>1. ASSUME NEW o \in Ops, Operation(o) PROVE IInv'
  BY <1>1, BeginIInv, FinishIInv, ResetIInv, ReturnIInv, AdvanceIInv,
     SetLiteralIInv, RefuseIInv, DrainIInv, SendIInv DEF Operation
<1>2. ASSUME NEW s \in Subs, Subscription(s) PROVE IInv'
  BY <1>2, SubscribeIInv, LeaveIInv, UnregisterIInv, ReceiveIInv
     DEF Subscription
<1>3. CASE UNCHANGED vars
  BY <1>3 DEF IInv, vars, TypeOK, Exclusive, NoPanic, SendNeverBlocks,
     Registered, Fresh, Numbered, PinnedModelUnchanged, MadeUnchanged,
     OnlyEditableLiteralsMove, Publishing
<1> QED
  BY <1>1, <1>2, <1>3 DEF Next

\* IInv holds in every reachable state, whatever the constants.
THEOREM Invariant == Spec => []IInv
BY InitIInv, NextIInv, PTL DEF Spec

\* Type correctness.
THEOREM TypeCorrect == Spec => []TypeOK
<1>1. IInv => TypeOK
  BY DEF IInv
<1> QED
  BY <1>1, Invariant, PTL

\* The process never dies of a send on a closed channel and a publisher never
\* waits for a subscriber, for any number of operations and subscribers.
THEOREM PublisherSafe == Spec => []PublisherNeverStops
<1>1. IInv => PublisherNeverStops
  BY DEF IInv, PublisherNeverStops
<1> QED
  BY <1>1, Invariant, PTL

\* One operation reads one model, and a mutation its own (SR-22).
THEOREM OneVersionPerOperation == Spec => []PinnedModelUnchanged
<1>1. IInv => PinnedModelUnchanged
  BY DEF IInv
<1> QED
  BY <1>1, Invariant, PTL

\* No two models ever share a version, across any run of edits and resets.
THEOREM VersionsNameModels == Spec => []VersionNamesModel
<1>1. IInv => VersionNamesModel
  BY DEF IInv, TypeOK, Numbered, VersionNamesModel
<1> QED
  BY <1>1, Invariant, PTL

\* No run of edits and resets moves a literal that is not editable (SR-24).
THEOREM EditsStayInBounds == Spec => []OnlyEditableLiteralsMove
<1>1. IInv => OnlyEditableLiteralsMove
  BY DEF IInv
<1> QED
  BY <1>1, Invariant, PTL

-----------------------------------------------------------------------------
(* Refinement. *)

\* feed as VersionFeed sees it.
AbsFeed == [s \in Subs |-> IF feed[s] = "leaving" THEN "open" ELSE feed[s]]

\* Every step of the store is a step of the version feed or leaves it alone.
LEMMA FeedStep ==
  ASSUME IInv, IInv', [Next]_vars
  PROVE  [Feed!Next]_(Feed!vars)
<1> USE DEF AbsFeed
<1>1. ASSUME NEW o \in Ops, Operation(o) PROVE [Feed!Next]_(Feed!vars)
  <2>1. CASE version' = version
    BY <1>1, <2>1 DEF Operation, Begin, Finish, Reset, Return, Advance,
       SetLiteral, Refuse, Drain, Send, Enter, Install, storeVars, chanVars,
       Feed!vars
  <2>2. CASE version' # version
    <3>1. version < MaxVersion /\ version' = version + 1 /\ UNCHANGED <<feed, told>>
      BY <1>1, <2>2 DEF Operation, Begin, Finish, Reset, Return, Advance,
         SetLiteral, Refuse, Drain, Send, Enter, Install, storeVars, chanVars
    <3> QED
      BY <3>1 DEF Feed!Next, Feed!Publish
  <2> QED
    BY <2>1, <2>2
<1>2. ASSUME NEW s \in Subs, Subscription(s) PROVE [Feed!Next]_(Feed!vars)
  <2> USE DEF IInv, TypeOK, Registered, Fresh, storeVars
  <2>1. CASE Subscribe(s)
    <3>1. AbsFeed' = [AbsFeed EXCEPT ![s] = "open"]
      BY <2>1 DEF Subscribe
    <3>2. Feed!Open(s)
      BY <2>1, <3>1 DEF Subscribe, Feed!Open
    <3> QED
      BY <3>2 DEF Feed!Next
  <2>2. CASE Leave(s)
    BY <2>2 DEF Leave, Feed!vars
  <2>3. CASE Unregister(s)
    <3>1. AbsFeed' = [AbsFeed EXCEPT ![s] = "ended"]
      BY <2>3 DEF Unregister
    <3>2. Feed!End(s)
      BY <2>3, <3>1 DEF Unregister, Feed!End
    <3> QED
      BY <3>2 DEF Feed!Next
  <2>4. CASE Receive(s)
    <3>1. slot[s] \in 1..MaxVersion
      BY <2>4 DEF Receive, Empty
    <3>2. Feed!Tell(s, slot[s])
      BY <2>4, <3>1 DEF Receive, Empty, Feed!Tell
    <3> QED
      BY <3>1, <3>2 DEF Feed!Next
  <2> QED
    BY <1>2, <2>1, <2>2, <2>3, <2>4 DEF Subscription
<1>3. CASE UNCHANGED vars
  BY <1>3 DEF vars, Feed!vars
<1> QED
  BY <1>1, <1>2, <1>3 DEF Next

\* The store implements the version feed: subscribers are told of published
\* versions only, in increasing order, each at most once.
THEOREM Refinement == Spec => ImplementsFeed
<1>1. Init => Feed!Init
  BY DEF Init, Feed!Init
<1>2. IInv /\ IInv' /\ [Next]_vars => [Feed!Next]_(Feed!vars)
  BY FeedStep
<1> QED
  BY <1>1, <1>2, Invariant, PTL DEF Spec, ImplementsFeed, Feed!Spec

=============================================================================
