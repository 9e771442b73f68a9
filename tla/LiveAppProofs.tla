--------------------------- MODULE LiveAppProofs ----------------------------
(* That the page never goes back and never redraws under a drag, for any     *)
(* number of sources, fetches, versions, refreshes, drags and failures.      *)
EXTENDS LiveApp, TLAPS

LEMMA NothingFetched ==
  /\ Nothing \in [Sources -> Seq(Version)]
  /\ \A s \in Sources : Nothing[s] = <<>> /\ Len(Nothing[s]) <= Fetches
<1>1. <<>> \in Seq(Version) /\ Len(<<>>) = 0
  OBVIOUS
<1>. QED
  BY <1>1, SourceAssumption DEF Nothing

LEMMA InitIInv == Init => IInv
<1> SUFFICES ASSUME Init PROVE IInv
  OBVIOUS
<1> USE SourceAssumption, BoundAssumption DEF Init
<1>1. TypeOK
  <2>1. 1 \in Version /\ {served, painted, pending} \subseteq Answer \cup {None}
    BY DEF Version
  <2>2. /\ DOMAIN asked \subseteq 1..generation
    OBVIOUS
  <2>3. ASSUME NEW g \in DOMAIN asked
        PROVE  /\ asked[g] \in [Sources -> Seq(Version)]
               /\ \A s \in Sources : Len(asked[g][s]) <= Fetches
    <3>1. asked[g] = Nothing
      OBVIOUS
    <3>. QED
      BY <3>1, NothingFetched
  <2>4. \A b \in DOMAIN Bounds : spent[b] \in 0..Bounds[b]
    BY DEF Bounds
  <2>. QED
    BY <2>1, <2>2, <2>3, <2>4 DEF TypeOK, Link
<1>2. FetchedIsPast
  <2>1. \A g \in DOMAIN asked : asked[g] = Nothing
    OBVIOUS
  <2>. QED
    BY <2>1, NothingFetched DEF FetchedIsPast
<1>3. ServedIsPast /\ NewestIsAhead /\ PaintedIsServed /\ PendingIsServed
  BY DEF ServedIsPast, NewestIsAhead, PaintedIsServed, PendingIsServed
<1> QED
  BY <1>1, <1>2, <1>3 DEF IInv

\* A part of TypeOK that most steps leave alone.
SpentOK == \A b \in DOMAIN Bounds : spent[b] \in 0..Bounds[b]

LEMMA Spending ==
  ASSUME TypeOK, NEW what \in DOMAIN Bounds, Spend(what)
  PROVE  SpentOK'
BY BoundAssumption DEF TypeOK, Spend, SpentOK, Bounds

\* A step that only moves streams, history and bounds keeps the page's part.
LEMMA StreamStep ==
  ASSUME IInv, TypeOK',
         UNCHANGED <<generation, asked, pageVars>>,
         \A s \in Sources : version'[s] >= version[s]
  PROVE  IInv'
<1> USE DEF IInv, pageVars
<1>1. ServedIsPast'
  <2> SUFFICES ASSUME served # None, NEW s \in Sources, NEW i \in 1..Fetches
               PROVE  served[s][i] <= version'[s]
    BY DEF ServedIsPast
  <2>1. served[s][i] \in Version /\ version[s] \in Version /\ version'[s] \in Version
    BY DEF TypeOK, Answer
  <2>2. served[s][i] <= version[s]
    BY DEF ServedIsPast
  <2>. QED
    BY <2>1, <2>2, BoundAssumption DEF Version
<1>2. FetchedIsPast'
  <2> SUFFICES ASSUME NEW g \in DOMAIN asked, NEW s \in Sources,
                      NEW j \in 1..Len(asked[g][s])
               PROVE  asked[g][s][j] <= version'[s]
    BY DEF FetchedIsPast
  <2>1. asked[g][s] \in Seq(Version) /\ version[s] \in Version /\ version'[s] \in Version
    BY DEF TypeOK
  <2>2. asked[g][s][j] \in Version
    BY <2>1
  <2>3. asked[g][s][j] <= version[s]
    BY DEF FetchedIsPast
  <2>. QED
    BY <2>1, <2>2, <2>3, BoundAssumption DEF Version
<1>3. NewestIsAhead' /\ PaintedIsServed' /\ PendingIsServed'
  BY DEF NewestIsAhead, PaintedIsServed, PendingIsServed, NotBehind
<1> QED
  BY <1>1, <1>2, <1>3

LEMMA StreamsIInv ==
  ASSUME IInv, NEW s \in Sources,
         Publish(s) \/ Register(s) \/ Lose(s) \/ Watchdog(s) \/ Retry(s)
  PROVE  IInv'
<1> USE DEF IInv
<1>1. \A t \in Sources : version'[t] \in Version /\ version'[t] >= version[t]
  <2> SUFFICES ASSUME NEW t \in Sources
               PROVE  version'[t] \in Version /\ version'[t] >= version[t]
    OBVIOUS
  <2>. version \in [Sources -> Version] /\ version[t] \in Version /\ version[t] \in Nat
    BY BoundAssumption DEF TypeOK, Version
  <2>1. CASE Publish(s)
    <3>1. version[s] < MaxVersion /\ version[s] \in 1..MaxVersion
          /\ version' = [version EXCEPT ![s] = version[s] + 1]
      BY <2>1 DEF Publish, Version
    <3>2. version[s] + 1 \in Version /\ version[s] + 1 >= version[s]
      BY <3>1, BoundAssumption DEF Version
    <3>3. version'[t] = IF t = s THEN version[s] + 1 ELSE version[t]
      BY <3>1
    <3>. QED
      BY <3>2, <3>3
  <2>2. CASE Register(s) \/ Lose(s) \/ Watchdog(s) \/ Retry(s)
    <3>1. version' = version
      BY <2>2 DEF Register, Lose, Watchdog, Retry
    <3>. QED
      BY <3>1
  <2>. QED
    BY <2>1, <2>2
<1>2. UNCHANGED <<generation, asked, pageVars, dragVars>>
  BY DEF Publish, Register, Lose, Watchdog, Retry
<1>3. CASE Publish(s)
  <2>1. version' \in [Sources -> Version] /\ news' \in [Sources -> Nat]
        /\ missed' \subseteq Sources /\ link' = link /\ spent' = spent
    BY <1>1, <1>3 DEF Publish, TypeOK
  <2>2. TypeOK'
    BY <1>2, <2>1 DEF TypeOK, pageVars, dragVars
  <2>. QED
    BY <1>1, <1>2, <2>2, StreamStep
<1>4. CASE Lose(s)
  <2>1. version' = version /\ news' \in [Sources -> Nat]
        /\ missed' \subseteq Sources /\ link' \in [Sources -> Link]
    BY <1>4 DEF Lose, TypeOK, Link
  <2>2. SpentOK'
    BY <1>4, Spending DEF Lose, Bounds
  <2>3. TypeOK'
    BY <1>2, <2>1, <2>2 DEF TypeOK, pageVars, dragVars, SpentOK
  <2>. QED
    BY <1>1, <1>2, <2>3, StreamStep
<1>5. CASE Register(s) \/ Watchdog(s) \/ Retry(s)
  <2>1. version' = version /\ news' = news /\ missed' = missed /\ spent' = spent
        /\ link' \in [Sources -> Link]
    BY <1>5 DEF Register, Watchdog, Retry, TypeOK, Link
  <2>2. TypeOK'
    BY <1>2, <2>1 DEF TypeOK, pageVars, dragVars
  <2>. QED
    BY <1>1, <1>2, <2>2, StreamStep
<1> QED
  BY <1>3, <1>4, <1>5

\* Refresh: a new query with nothing fetched is the newest, and running.
LEMMA RefreshIInv ==
  ASSUME IInv, Refresh, SpentOK',
         UNCHANGED <<version, link, pageVars, dragVars>>,
         news' \in [Sources -> Nat]
  PROVE  IInv'
<1> USE DEF IInv, pageVars, dragVars
<1> DEFINE fresh == generation + 1
<1>1. generation \in Nat /\ fresh \in Nat /\ fresh \notin DOMAIN asked
      /\ generation' = fresh
  BY DEF TypeOK, Refresh
<1>2. asked' = [g \in DOMAIN asked \cup {fresh} |->
                  IF g \in DOMAIN asked THEN asked[g] ELSE Nothing]
  BY DEF Refresh
<1>3. asked'[fresh] = Nothing
  BY <1>1, <1>2
<1>4. ASSUME NEW g \in DOMAIN asked'
      PROVE  /\ g \in 1..generation' /\ asked'[g] \in [Sources -> Seq(Version)]
             /\ \A s \in Sources : Len(asked'[g][s]) <= Fetches
  <2>1. CASE g \in DOMAIN asked
    BY <1>1, <1>2, <2>1 DEF TypeOK
  <2>2. CASE g = fresh
    BY <1>1, <1>3, <2>2, NothingFetched
  <2>. QED
    BY <1>2, <2>1, <2>2
<1>5. TypeOK'
  <2>1. missed' = {}
    BY DEF Refresh
  <2>. QED
    BY <1>1, <1>4, <2>1 DEF TypeOK, SpentOK
<1>6. ServedIsPast' /\ PaintedIsServed' /\ PendingIsServed'
  BY DEF ServedIsPast, PaintedIsServed, PendingIsServed, NotBehind
<1>7. NewestIsAhead'
  BY <1>1, <1>3, NothingFetched DEF NewestIsAhead
<1>8. FetchedIsPast'
  BY <1>1, <1>2, NothingFetched DEF FetchedIsPast
<1> QED
  BY <1>5, <1>6, <1>7, <1>8

LEMMA DeliverIInv ==
  ASSUME IInv, NEW s \in Sources, Deliver(s)
  PROVE  IInv'
<1>1. news' \in [Sources -> Nat] /\ SpentOK'
  BY DEF IInv, TypeOK, Deliver, SpentOK, Bounds
<1>. QED
  BY <1>1, RefreshIInv DEF Deliver

LEMMA WakeIInv == IInv /\ Wake => IInv'
<1> SUFFICES ASSUME IInv, Wake PROVE IInv'
  OBVIOUS
<1>1. SpentOK'
  BY Spending DEF IInv, Wake, Bounds
<1>2. news' \in [Sources -> Nat]
  BY DEF IInv, TypeOK, Wake, streamVars
<1>. QED
  BY <1>1, <1>2, RefreshIInv DEF Wake, streamVars

\* A fetch is at the version of its source, which nothing served is past.
LEMMA FetchIInv ==
  ASSUME IInv, NEW g \in Running, NEW s \in Sources, Fetch(g, s)
  PROVE  IInv'
<1> USE DEF IInv, Running, pageVars, dragVars, streamVars
<1>1. /\ g \in DOMAIN asked /\ asked[g][s] \in Seq(Version) /\ version[s] \in Version
      /\ Len(asked[g][s]) < Fetches /\ asked[g] \in [Sources -> Seq(Version)]
  BY DEF TypeOK, Fetch
<1>2. DOMAIN asked' = DOMAIN asked
      /\ \A h \in DOMAIN asked : h # g => asked'[h] = asked[h]
  BY DEF Fetch
<1>3. asked'[g] = [asked[g] EXCEPT ![s] = Append(asked[g][s], version[s])]
      /\ \A t \in Sources : asked'[g][t] =
            IF t = s THEN Append(asked[g][s], version[s]) ELSE asked[g][t]
  BY <1>1 DEF Fetch
<1>4. /\ Append(asked[g][s], version[s]) \in Seq(Version)
      /\ Len(Append(asked[g][s], version[s])) = Len(asked[g][s]) + 1
      /\ \A j \in 1..Len(asked[g][s]) + 1 :
            Append(asked[g][s], version[s])[j] =
              IF j <= Len(asked[g][s]) THEN asked[g][s][j] ELSE version[s]
  BY <1>1
<1>5. TypeOK'
  <2>1. ASSUME NEW h \in DOMAIN asked'
        PROVE  /\ asked'[h] \in [Sources -> Seq(Version)]
               /\ \A t \in Sources : Len(asked'[h][t]) <= Fetches
    <3>1. /\ asked[h] \in [Sources -> Seq(Version)]
          /\ \A t \in Sources : Len(asked[h][t]) <= Fetches
      BY <1>2 DEF TypeOK
    <3>2. CASE h = g
      <4>1. asked'[g] \in [Sources -> Seq(Version)]
        BY <1>1, <1>3, <1>4
      <4>2. Len(asked[g][s]) \in Nat
        BY <1>1
      <4>3. ASSUME NEW t \in Sources
            PROVE  Len(asked'[g][t]) <= Fetches
        <5>1. CASE t = s
          BY <1>1, <1>3, <1>4, <4>2, <5>1, SourceAssumption
        <5>2. CASE t # s
          BY <1>3, <3>1, <3>2, <5>2
        <5>. QED
          BY <5>1, <5>2
      <4>. QED
        BY <3>2, <4>1, <4>3
    <3>3. CASE h # g
      BY <1>2, <3>1, <3>3
    <3>. QED
      BY <3>2, <3>3
  <2>3. UNCHANGED <<version, link, news, generation, served, painted, pending,
                    dragging, flushDue, missed, spent>>
    BY DEF Fetch
  <2>. QED
    BY <1>2, <2>1, <2>3 DEF TypeOK
<1>6. ServedIsPast' /\ PaintedIsServed' /\ PendingIsServed'
  BY DEF Fetch, ServedIsPast, PaintedIsServed, PendingIsServed, NotBehind
<1>7. NewestIsAhead'
  <2> SUFFICES ASSUME served # None, generation \in DOMAIN asked,
                      NEW t \in Sources, NEW i \in 1..Fetches,
                      NEW j \in 1..Len(asked'[generation][t])
               PROVE  served[t][i] <= asked'[generation][t][j]
    BY <1>2 DEF NewestIsAhead, Fetch
  <2>1. \A k \in 1..Len(asked[generation][t]) : served[t][i] <= asked[generation][t][k]
    BY DEF NewestIsAhead
  <2>2. CASE generation = g /\ t = s
    <3>1. j \in 1..Len(asked[g][s]) + 1
          /\ asked'[generation][t][j] =
                IF j <= Len(asked[g][s]) THEN asked[g][s][j] ELSE version[s]
      BY <1>3, <1>4, <2>2
    <3>2. served[t][i] <= version[s]
      BY <2>2 DEF ServedIsPast
    <3>. QED
      BY <1>1, <2>1, <2>2, <3>1, <3>2
  <2>3. CASE ~(generation = g /\ t = s)
    <3>1. asked'[generation][t] = asked[generation][t]
      BY <1>2, <1>3, <2>3
    <3>. QED
      BY <2>1, <3>1
  <2>. QED
    BY <2>2, <2>3
<1>8. FetchedIsPast'
  <2> SUFFICES ASSUME NEW h \in DOMAIN asked, NEW t \in Sources,
                      NEW j \in 1..Len(asked'[h][t])
               PROVE  asked'[h][t][j] <= version[t]
    BY <1>2 DEF FetchedIsPast, Fetch
  <2>1. \A k \in 1..Len(asked[h][t]) : asked[h][t][k] <= version[t]
    BY DEF FetchedIsPast
  <2>2. CASE h = g /\ t = s
    <3>1. j \in 1..Len(asked[g][s]) + 1
          /\ asked'[h][t][j] =
                IF j <= Len(asked[g][s]) THEN asked[g][s][j] ELSE version[s]
      BY <1>3, <1>4, <2>2
    <3>2. version[s] <= version[s] /\ Len(asked[g][s]) \in Nat
      BY <1>1, BoundAssumption DEF Version
    <3>. QED
      BY <2>1, <2>2, <3>1, <3>2
  <2>3. CASE ~(h = g /\ t = s)
    <3>1. asked'[h][t] = asked[h][t]
      BY <1>2, <1>3, <2>3
    <3>. QED
      BY <2>1, <3>1
  <2>. QED
    BY <2>2, <2>3
<1> QED
  BY <1>5, <1>6, <1>7, <1>8

LEMMA NotBehindTransitive ==
  ASSUME NEW a \in Answer, NEW b \in Answer, NEW c \in Answer,
         NotBehind(b, a), NotBehind(c, b)
  PROVE  NotBehind(c, a)
<1> SUFFICES ASSUME NEW s \in Sources, NEW i \in 1..Fetches, NEW j \in 1..Fetches
             PROVE  a[s][i] <= c[s][j]
  BY DEF NotBehind
<1>1. a[s][i] <= b[s][i] /\ b[s][i] <= c[s][j]
  BY DEF NotBehind
<1>2. a[s][i] \in Nat /\ b[s][i] \in Nat /\ c[s][j] \in Nat
  <2>1. \A d \in Answer : d[s] \in [1..Fetches -> Version]
    BY DEF Answer
  <2>2. \A d \in Answer : \A k \in 1..Fetches : d[s][k] \in Version
    BY <2>1
  <2>. QED
    BY <2>2, BoundAssumption DEF Version
<1>. QED
  BY <1>1, <1>2

\* Rendering an answer no older than the one served before moves the markup
\* forward or not at all, and not at all under a drag.
LEMMA RenderForward ==
  ASSUME IInv, NEW data \in Answer, Render(data),
         served # None => data = served \/ NotBehind(data, served)
  PROVE  /\ {served', painted', pending'} \subseteq Answer \cup {None}
         /\ served' = data
         /\ PaintedIsServed' /\ PendingIsServed'
         /\ painted # None => NotBehind(painted', painted) \/ painted' = painted
         /\ dragging => painted' = painted
<1> USE DEF IInv, Render
<1>1. data # None /\ painted \in Answer \cup {None} /\ served \in Answer \cup {None}
  BY NoneAssumption DEF TypeOK
<1>2. painted # None => data = painted \/ NotBehind(data, painted)
  <2> SUFFICES ASSUME painted # None PROVE data = painted \/ NotBehind(data, painted)
    OBVIOUS
  <2>1. served # None /\ (painted = served \/ NotBehind(served, painted))
    BY DEF PaintedIsServed
  <2>. QED
    BY <1>1, <2>1, NotBehindTransitive
<1>3. CASE dragging
  BY <1>1, <1>2, <1>3 DEF PaintedIsServed, PendingIsServed, NotBehind
<1>4. CASE ~dragging
  BY <1>1, <1>2, <1>4 DEF PaintedIsServed, PendingIsServed, NotBehind
<1>. QED
  BY <1>1, <1>2, <1>3, <1>4

\* An accepted answer is that of the newest refresh: nothing served is past it.
LEMMA AcceptedIsAhead ==
  ASSUME IInv, generation \in DOMAIN asked,
         \A s \in Sources : Len(asked[generation][s]) = Fetches
  PROVE  /\ asked[generation] \in Answer
         /\ served # None => NotBehind(asked[generation], served)
<1> USE DEF IInv
<1>1. asked[generation] \in Answer
  <2>1. \A s \in Sources : asked[generation][s] \in [1..Fetches -> Version]
    BY DEF TypeOK
  <2>. QED
    BY <2>1 DEF TypeOK, Answer
<1>2. served # None => NotBehind(asked[generation], served)
  BY DEF NewestIsAhead, NotBehind
<1>. QED
  BY <1>1, <1>2
\* A refresh that is answered or fails runs no more; an answer that is not of
\* the newest is dropped.
LEMMA AnsweredIInv ==
  ASSUME IInv, NEW g \in Running, Answered(g) \/ Failed(g)
  PROVE  /\ IInv'
         /\ painted # None => NotBehind(painted', painted) \/ painted' = painted
         /\ dragging => painted' = painted
<1> USE DEF IInv, Running, streamVars, dragVars
<1>1. /\ DOMAIN asked' = DOMAIN asked \ {g}
      /\ \A h \in DOMAIN asked' : asked'[h] = asked[h]
      /\ UNCHANGED <<version, link, news, generation, dragging, flushDue>>
  BY DEF Answered, Failed, Without
<1>2. SpentOK' /\ missed' \subseteq Sources
  <2>1. CASE Answered(g)
    BY <2>1 DEF Answered, TypeOK, SpentOK, Bounds
  <2>2. CASE Failed(g)
    BY <2>2, Spending DEF Failed, TypeOK, Bounds
  <2>. QED
    BY <2>1, <2>2
<1>3. CASE Answered(g) /\ Current(g)
  <2>1. g = generation /\ asked[generation] \in Answer
        /\ (served # None => NotBehind(asked[generation], served))
    BY <1>3, AcceptedIsAhead DEF Answered, Current
  <2>2. Render(asked[generation])
    BY <1>3, <2>1 DEF Answered
  <2>3. /\ {served', painted', pending'} \subseteq Answer \cup {None}
        /\ served' = asked[generation] /\ PaintedIsServed' /\ PendingIsServed'
        /\ painted # None => NotBehind(painted', painted) \/ painted' = painted
        /\ dragging => painted' = painted
    BY <2>1, <2>2, RenderForward
  <2>4. TypeOK'
    BY <1>1, <1>2, <2>3 DEF TypeOK, SpentOK
  <2>5. ServedIsPast'
    BY <1>1, <1>3, <2>1, <2>3 DEF ServedIsPast, FetchedIsPast, Answered
  <2>6. NewestIsAhead' /\ FetchedIsPast'
    BY <1>1, <2>1 DEF NewestIsAhead, FetchedIsPast
  <2>. QED
    BY <2>3, <2>4, <2>5, <2>6
<1>4. CASE Failed(g) \/ ~Current(g)
  <2>1. UNCHANGED pageVars
    BY <1>4 DEF Answered, Failed
  <2>2. TypeOK'
    BY <1>1, <1>2, <2>1 DEF TypeOK, SpentOK, pageVars
  <2>3. ServedIsPast' /\ NewestIsAhead' /\ PaintedIsServed' /\ PendingIsServed'
        /\ FetchedIsPast'
    BY <1>1, <2>1 DEF FetchedIsPast, ServedIsPast, NewestIsAhead, PaintedIsServed, PendingIsServed,
                      NotBehind, pageVars
  <2>. QED
    BY <2>1, <2>2, <2>3 DEF pageVars
<1>. QED
  BY <1>3, <1>4
\* A refusal and the timer of a drop draw what was served last.
LEMMA RedrawIInv ==
  ASSUME IInv, Refused \/ Flush
  PROVE  /\ IInv'
         /\ painted # None => NotBehind(painted', painted) \/ painted' = painted
         /\ dragging => painted' = painted
<1> USE DEF IInv
<1>1. /\ UNCHANGED <<version, link, news, generation, asked, dragging, missed, spent>>
      /\ flushDue' \in BOOLEAN
  BY DEF Refused, Flush, streamVars, dragVars, TypeOK
<1>2. UNCHANGED pageVars \/ (served \in Answer /\ Render(served))
  BY DEF Refused, Flush, PendingIsServed, TypeOK
<1>3. /\ {served', painted', pending'} \subseteq Answer \cup {None}
      /\ served' = served /\ PaintedIsServed' /\ PendingIsServed'
      /\ painted # None => NotBehind(painted', painted) \/ painted' = painted
      /\ dragging => painted' = painted
  <2>1. CASE UNCHANGED pageVars
    BY <2>1 DEF pageVars, TypeOK, PaintedIsServed, PendingIsServed, NotBehind
  <2>2. CASE served \in Answer /\ Render(served)
    BY <2>2, RenderForward
  <2>. QED
    BY <1>2, <2>1, <2>2
<1>4. TypeOK'
  BY <1>1, <1>3 DEF TypeOK
<1>5. ServedIsPast' /\ NewestIsAhead' /\ FetchedIsPast'
  BY <1>1, <1>3 DEF ServedIsPast, NewestIsAhead, FetchedIsPast
<1>. QED
  BY <1>3, <1>4, <1>5

LEMMA DragIInv == IInv /\ (OnStart \/ OnEnd) => IInv'
<1> SUFFICES ASSUME IInv, OnStart \/ OnEnd PROVE IInv'
  OBVIOUS
<1>1. /\ UNCHANGED <<version, streamVars, generation, asked, pageVars, missed>>
      /\ dragging' \in BOOLEAN /\ flushDue' \in BOOLEAN
  BY DEF OnStart, OnEnd, IInv, TypeOK
<1>2. SpentOK'
  <2>1. CASE OnStart
    BY <2>1, Spending DEF OnStart, IInv, Bounds
  <2>2. CASE OnEnd
    BY <2>2 DEF OnEnd, IInv, TypeOK, SpentOK, Bounds
  <2>. QED
    BY <2>1, <2>2
<1>3. TypeOK'
  BY <1>1, <1>2 DEF IInv, TypeOK, SpentOK, streamVars, pageVars
<1>4. \A s \in Sources : version'[s] >= version[s]
  BY <1>1, BoundAssumption DEF IInv, TypeOK, Version
<1>. QED
  BY <1>1, <1>3, <1>4, StreamStep

\* One step of the page, whichever it is.
LEMMA StepIInv ==
  ASSUME IInv, [Next]_vars
  PROVE  /\ IInv'
         /\ painted # None => NotBehind(painted', painted) \/ painted' = painted
         /\ dragging => painted' = painted
<1>1. CASE UNCHANGED vars
  BY <1>1 DEF vars, IInv, TypeOK, FetchedIsPast, ServedIsPast, NewestIsAhead,
              PaintedIsServed, PendingIsServed, NotBehind
<1>2. CASE \E s \in Sources :
             Publish(s) \/ Register(s) \/ Lose(s) \/ Watchdog(s) \/ Retry(s)
  BY <1>2, StreamsIInv DEF Publish, Register, Lose, Watchdog, Retry, pageVars
<1>3. CASE \E s \in Sources : Deliver(s)
  BY <1>3, DeliverIInv DEF Deliver, pageVars
<1>4. CASE Wake
  BY <1>4, WakeIInv DEF Wake, pageVars
<1>5. CASE \E g \in Running : \E s \in Sources : Fetch(g, s)
  BY <1>5, FetchIInv DEF Fetch, pageVars
<1>6. CASE \E g \in Running : Answered(g) \/ Failed(g)
  BY <1>6, AnsweredIInv
<1>7. CASE Refused \/ Flush
  BY <1>7, RedrawIInv
<1>8. CASE OnStart \/ OnEnd
  BY <1>8, DragIInv DEF OnStart, OnEnd, pageVars
<1>. QED
  BY <1>1, <1>2, <1>3, <1>4, <1>5, <1>6, <1>7, <1>8 DEF Next

\* What was fetched, served, held back and painted keep their order in every
\* reachable state of the page.
THEOREM PageInvariant == Spec => []IInv
<1>1. IInv /\ [Next]_vars => IInv'
  BY StepIInv
<1>. QED
  BY <1>1, InitIInv, PTL DEF Spec

\* NeverGoesBack of refresh and render: no part of a source is drawn older
\* than it was, in whatever order any number of answers come.
THEOREM PageNeverGoesBack == Spec => NeverGoesBack
<1>1. IInv /\ [Next]_vars =>
        [painted # None => NotBehind(painted', painted) \/ painted' = painted]_vars
  BY StepIInv
<1>. QED
  BY <1>1, PageInvariant, PTL DEF Spec, NeverGoesBack

\* DragOwnsMarkup of render: nothing replaces the markup under a drag.
THEOREM PageHoldsStill == Spec => DragOwnsMarkup
<1>1. IInv /\ [Next]_vars => [dragging => painted' = painted]_vars
  BY StepIInv
<1>. QED
  BY <1>1, PageInvariant, PTL DEF Spec, DragOwnsMarkup
=============================================================================
