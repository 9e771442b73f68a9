-------------------------- MODULE SupervisorProofs --------------------------
(* That serve leaves nothing running, stops in order and in time, and says   *)
(* why it ended, and that the exit status of the command does, whichever     *)
(* component fails, whenever the context ends and whatever runs beside it.   *)
EXTENDS Command, FiniteSetTheorems, SequenceTheorems, TLAPS

-----------------------------------------------------------------------------
(* The inductive invariant of the supervisor. *)

\* Where all three subgraphs have been started and none has been stopped.
Standing == {"launch", "waitRouter", "ui", "serving", "stopWeb", "stopRouter",
             "grace", "killing"}

\* How far the subgraphs have come, by where run is.
SubgraphsByPc ==
  /\ pc \in {"load", "listen", "wait"} => \A c \in Subgraphs : srv[c] # "stopped"
  /\ pc = "load" => cur = 1 /\ \A i \in 1..3 : ~Started(i)
  /\ pc = "listen" => \A i \in 1..3 : Started(i) <=> i < cur
  /\ pc = "wait" => \A i \in 1..3 : Started(i) <=> i <= cur
  /\ pc \in Standing => \A i \in 1..3 : Started(i)
  /\ pc = "returned" => \A i \in 1..3 : ~Started(i)

UiByPc ==
  /\ pc \in {"serving", "stopWeb"} => srv["ui"] \in {"up", "broken"}
  /\ pc \notin {"serving", "stopWeb"} => srv["ui"] \in {"none", "stopped"}
  /\ pc \in {"load", "listen", "wait", "launch", "waitRouter", "ui"} => srv["ui"] = "none"

\* The router runs between its launch and its stop, and its exit is read once.
RouterByPc ==
  /\ pc \in {"load", "listen", "wait", "launch"} => router = "none"
  /\ pc \in Standing \ {"launch"} => router # "none"
  /\ pc \in {"unwind", "returned"} => router \in {"none", "reaped"}
  /\ exited \/ gone => router = "reaped"
  /\ termed => pc \in {"grace", "killing", "unwind", "returned"}

\* Every server reports at most once, and only after it broke.
Reports ==
  /\ \A i \in DOMAIN failed :
       failed[i] \notin unsent /\ srv[failed[i]] \in {"broken", "stopped"}
  /\ \A i, j \in DOMAIN failed : failed[i] = failed[j] => i = j
  /\ \A c \in unsent : srv[c] \in {"broken", "stopped"}

\* What has been stopped, and what stopping it may have taken.
Drained == {c \in Servers : srv[c] = "stopped"}

Spending ==
  spent <= ServerStop * Cardinality(Drained)
             + (IF pc \in {"killing", "unwind", "returned"} THEN RouterStop ELSE 0)

\* Whatever ends run early has a cause.
Causes ==
  /\ failed # <<>> \/ unsent # {} => fault
  /\ router \in {"dead", "reaped"} => fault \/ termed
  /\ result = "nil" => ctx
  /\ result = "error" => fault \/ (ctx /\ srv["ui"] = "none")
  /\ result = "none" <=>
       pc \notin {"stopWeb", "stopRouter", "grace", "killing", "unwind", "returned"}

IInv ==
  /\ TypeOK
  /\ SubgraphsByPc
  /\ UiByPc
  /\ RouterByPc
  /\ Reports
  /\ Spending
  /\ Causes

-----------------------------------------------------------------------------
(* The inductive invariant of the command. *)

CommandIInv ==
  /\ CommandTypeOK
  /\ IInv
  /\ status = -1 <=> place # "exited"
  /\ place \in {"dispatch", "flags"} => lone = "none" /\ pc = "load"
  /\ lone \in {"broken", "reported"} => fault
  /\ lone = "stopped" => ctx
  /\ StatusSaysWhy
-----------------------------------------------------------------------------
(* The three steps, for the supervisor. *)

LEMMA TheServers ==
  /\ Servers = {"adapter", "capacity", "document", "ui"}
  /\ Subgraphs = {"adapter", "capacity", "document"}
  /\ Subgraph[1] = "adapter" /\ Subgraph[2] = "capacity" /\ Subgraph[3] = "document"
<1>1. 1..3 = {1, 2, 3}
  OBVIOUS
<1>2. Subgraphs = {Subgraph[1], Subgraph[2], Subgraph[3]}
  BY <1>1, Zenon DEF Subgraphs
<1> QED
  BY <1>2 DEF Servers, Subgraph

LEMMA DrainedIsFinite ==
  /\ IsFiniteSet(Drained) /\ Cardinality(Drained) \in 0..4
  /\ IsFiniteSet(Servers) /\ Cardinality(Servers) = 4
<1>1. IsFiniteSet(Servers) /\ Cardinality(Servers) = 4
  <2>1. IsFiniteSet({"adapter"}) /\ Cardinality({"adapter"}) = 1
    BY FS_Singleton
  <2>2. IsFiniteSet({"adapter", "capacity"}) /\ Cardinality({"adapter", "capacity"}) = 2
    <3>1. {"adapter", "capacity"} = {"adapter"} \cup {"capacity"} /\ "capacity" \notin {"adapter"}
      OBVIOUS
    <3> QED
      BY <2>1, <3>1, FS_AddElement
  <2>3. IsFiniteSet(Subgraphs) /\ Cardinality(Subgraphs) = 3
    <3>1. /\ Subgraphs = {"adapter", "capacity"} \cup {"document"}
          /\ "document" \notin {"adapter", "capacity"}
      BY TheServers
    <3> QED
      BY <2>2, <3>1, FS_AddElement
  <2>4. Servers = Subgraphs \cup {"ui"} /\ "ui" \notin Subgraphs
    BY TheServers DEF Servers
  <2> QED
    BY <2>3, <2>4, FS_AddElement
<1>2. Drained \subseteq Servers
  BY DEF Drained
<1>3. IsFiniteSet(Drained) /\ Cardinality(Drained) <= 4
  BY <1>1, <1>2, FS_Subset
<1> QED
  BY <1>1, <1>3, FS_CardinalityType

\* A server that is stopped is one more drained, within the limit.
LEMMA Stopping ==
  ASSUME TypeOK, NEW c \in Servers, srv[c] # "stopped", StopServer(c)
  PROVE  /\ Cardinality(Drained') = Cardinality(Drained) + 1
         /\ spent' \in Nat /\ spent' <= spent + ServerStop
         /\ srv' = [srv EXCEPT ![c] = "stopped"]
<1>1. Drained' = Drained \cup {c} /\ c \notin Drained
  BY DEF TypeOK, StopServer, Drained
<1>2. Cardinality(Drained') = Cardinality(Drained) + 1
  BY <1>1, DrainedIsFinite, FS_AddElement
<1>3. spent' \in Nat /\ spent' <= spent + ServerStop
  BY DEF TypeOK, StopServer, DrainCost, ServerStop
<1> QED
  BY <1>2, <1>3 DEF StopServer

\* Any other change of a server leaves the count alone.
LEMMA NotStopping ==
  ASSUME TypeOK, \A c \in Servers : srv'[c] = "stopped" <=> srv[c] = "stopped"
  PROVE  Drained' = Drained
BY DEF Drained

LEMMA InitIInv == Init => IInv
<1> SUFFICES ASSUME Init PROVE IInv
  OBVIOUS
<1>1. TypeOK
  <2>1. <<>> \in Seq(Servers) /\ Len(<<>>) <= FailedCapacity
    BY DEF FailedCapacity
  <2>2. srv \in [Servers -> {"none", "up", "broken", "stopped"}]
    BY DEF Init
  <2>3. failed \in Seq(Servers) /\ Len(failed) <= FailedCapacity
    BY <2>1 DEF Init
  <2>4. pc \in PCs /\ cur \in 1..3 /\ unsent \in SUBSET Servers /\ spent \in Nat
    BY DEF Init, PCs
  <2> QED
    BY <2>2, <2>3, <2>4 DEF Init, TypeOK
<1>2. \A c \in Servers : srv[c] = "none"
  BY DEF Init
<1>3. SubgraphsByPc /\ UiByPc
  BY <1>2, TheServers DEF Init, SubgraphsByPc, UiByPc, Started, Standing
<1>4. RouterByPc /\ Reports /\ Causes
  BY DEF Init, RouterByPc, Reports, Causes, Standing
<1>5. Spending
  BY DrainedIsFinite DEF Init, Spending, ServerStop
<1> QED
  BY <1>1, <1>3, <1>4, <1>5 DEF IInv

LEMMA NextIInv == IInv /\ [Next]_vars => IInv'
<1> SUFFICES ASSUME IInv, [Next]_vars PROVE IInv'
  OBVIOUS
<1> USE TheServers, DrainedIsFinite
    DEF IInv, TypeOK, SubgraphsByPc, UiByPc, RouterByPc, Reports, Spending, Causes,
        Started, Standing, PCs, serverVars, routerVars, Unwinding, FailedCapacity,
        ServerStop, RouterStop
<1>s. ASSUME \A c \in Servers : srv'[c] = "stopped" <=> srv[c] = "stopped"
      PROVE  Drained' = Drained
  BY <1>s, NotStopping
<1>1. CASE Load
  <2>1. Drained' = Drained
    BY <1>s, <1>1 DEF Load
  <2>2. TypeOK'
    BY <1>1, <2>1 DEF Load
  <2>3. SubgraphsByPc' /\ UiByPc' /\ RouterByPc'
    BY <1>1, <2>1 DEF Load
  <2>4. Reports' /\ Spending' /\ Causes'
    BY <1>1, <2>1 DEF Load
  <2> QED
    BY <2>2, <2>3, <2>4
<1>2. CASE Listen
  <2>0. /\ Subgraph[cur] \in Subgraphs /\ srv[Subgraph[cur]] = "none"
        /\ \A c \in Subgraphs : c = Subgraph[cur] \/ srv'[c] = srv[c]
        /\ srv'[Subgraph[cur]] \in {"none", "up"} /\ srv'["ui"] = srv["ui"]
    BY <1>2 DEF Listen
  <2>1. Drained' = Drained
    BY <1>s, <1>2, <2>0 DEF Listen
  <2>2. TypeOK'
    BY <1>2, <2>1 DEF Listen
  <2>3. SubgraphsByPc' /\ UiByPc' /\ RouterByPc'
    BY <1>2, <2>1 DEF Listen
  <2>4. Reports' /\ Spending' /\ Causes'
    BY <1>2, <2>1 DEF Listen
  <2> QED
    BY <2>2, <2>3, <2>4
<1>3. CASE Ready
  <2>1. Drained' = Drained
    BY <1>s, <1>3 DEF Ready
  <2> QED
    BY <1>3, <2>1 DEF Ready
<1>4. CASE WaitCtx
  <2>1. Drained' = Drained
    BY <1>s, <1>4 DEF WaitCtx
  <2> QED
    BY <1>4, <2>1 DEF WaitCtx
<1>5. CASE WaitFailed
  <2>1. Drained' = Drained
    BY <1>s, <1>5 DEF WaitFailed
  <2> QED
    BY <1>5, <2>1 DEF WaitFailed
<1>6. CASE WaitTimeout
  <2>1. Drained' = Drained
    BY <1>s, <1>6 DEF WaitTimeout
  <2> QED
    BY <1>6, <2>1 DEF WaitTimeout
<1>7. CASE Launch
  <2>1. Drained' = Drained
    BY <1>s, <1>7 DEF Launch
  <2>2. TypeOK'
    BY <1>7, <2>1 DEF Launch
  <2>3. SubgraphsByPc' /\ UiByPc' /\ RouterByPc'
    BY <1>7, <2>1 DEF Launch
  <2>4. Reports' /\ Spending' /\ Causes'
    BY <1>7, <2>1 DEF Launch
  <2> QED
    BY <2>2, <2>3, <2>4
<1>8. CASE RouterReady
  <2>1. Drained' = Drained
    BY <1>s, <1>8 DEF RouterReady
  <2> QED
    BY <1>8, <2>1 DEF RouterReady
<1>9. CASE RouterWaitExited
  <2>1. Drained' = Drained
    BY <1>s, <1>9 DEF RouterWaitExited
  <2>2. TypeOK'
    BY <1>9, <2>1 DEF RouterWaitExited
  <2>3. SubgraphsByPc' /\ UiByPc' /\ RouterByPc'
    BY <1>9, <2>1 DEF RouterWaitExited
  <2>4. Reports' /\ Spending' /\ Causes'
    BY <1>9, <2>1 DEF RouterWaitExited
  <2> QED
    BY <2>2, <2>3, <2>4
<1>10. CASE RouterWaitGivesUp
  <2>1. Drained' = Drained
    BY <1>s, <1>10 DEF RouterWaitGivesUp
  <2> QED
    BY <1>10, <2>1 DEF RouterWaitGivesUp
<1>11. CASE StartUI
  <2>1. Drained' = Drained
    BY <1>s, <1>11 DEF StartUI
  <2>2. TypeOK'
    BY <1>11, <2>1 DEF StartUI
  <2>3. SubgraphsByPc' /\ UiByPc' /\ RouterByPc'
    BY <1>11, <2>1 DEF StartUI
  <2>4. Reports' /\ Spending' /\ Causes'
    BY <1>11, <2>1 DEF StartUI
  <2> QED
    BY <2>2, <2>3, <2>4
<1>12. CASE ServeCtx
  <2>1. Drained' = Drained
    BY <1>s, <1>12 DEF ServeCtx
  <2> QED
    BY <1>12, <2>1 DEF ServeCtx
<1>13. CASE ServeFailed
  <2>1. Drained' = Drained
    BY <1>s, <1>13 DEF ServeFailed
  <2> QED
    BY <1>13, <2>1 DEF ServeFailed
<1>14. CASE ServeExited
  <2>1. Drained' = Drained
    BY <1>s, <1>14 DEF ServeExited
  <2> QED
    BY <1>14, <2>1 DEF ServeExited
<1>15. CASE Terminate
  <2>1. Drained' = Drained
    BY <1>s, <1>15 DEF Terminate
  <2> QED
    BY <1>15, <2>1 DEF Terminate
<1>16. CASE GraceExited
  <2>1. Drained' = Drained
    BY <1>s, <1>16 DEF GraceExited
  <2>2. spent' \in Nat
    BY <1>16 DEF GraceExited
  <2>3. TypeOK'
    BY <1>16, <2>1, <2>2 DEF GraceExited
  <2>4. SubgraphsByPc' /\ UiByPc' /\ RouterByPc'
    BY <1>16, <2>1, <2>2 DEF GraceExited
  <2>5. Reports' /\ Spending' /\ Causes'
    BY <1>16, <2>1, <2>2 DEF GraceExited
  <2> QED
    BY <2>3, <2>4, <2>5
<1>17. CASE GraceOver
  <2>1. Drained' = Drained
    BY <1>s, <1>17 DEF GraceOver
  <2> QED
    BY <1>17, <2>1 DEF GraceOver
<1>18. CASE Killed
  <2>1. Drained' = Drained
    BY <1>s, <1>18 DEF Killed
  <2> QED
    BY <1>18, <2>1 DEF Killed
<1>19. CASE CtxEnds
  <2>1. Drained' = Drained
    BY <1>s, <1>19 DEF CtxEnds
  <2> QED
    BY <1>19, <2>1 DEF CtxEnds
<1>20. CASE RouterExits
  <2>1. Drained' = Drained
    BY <1>s, <1>20 DEF RouterExits
  <2> QED
    BY <1>20, <2>1 DEF RouterExits
<1>21. CASE Reap
  <2>1. Drained' = Drained
    BY <1>s, <1>21 DEF Reap
  <2> QED
    BY <1>21, <2>1 DEF Reap
<1>22. CASE StopWeb
  <2>1. StopServer("ui") /\ srv["ui"] # "stopped"
    BY <1>22 DEF StopWeb
  <2>2. /\ Cardinality(Drained') = Cardinality(Drained) + 1
        /\ spent' \in Nat /\ spent' <= spent + ServerStop
        /\ srv' = [srv EXCEPT !["ui"] = "stopped"]
    BY <2>1, Stopping
  <2> QED
    BY <1>22, <2>2 DEF StopWeb
<1>23. CASE Unwind
  <2>1. CASE \A i \in 1..3 : ~Started(i)
    <3>1. UNCHANGED srv
      BY <1>23, <2>1 DEF Unwind
    <3>2. Drained' = Drained
      BY <1>s, <3>1
    <3> QED
      BY <1>23, <2>1, <3>1, <3>2 DEF Unwind
  <2>2. ASSUME NEW i \in 1..3, Started(i), StopServer(Subgraph[i]), pc' = pc
        PROVE  IInv'
    <3>1. Subgraph[i] \in Subgraphs /\ Subgraph[i] # "ui" /\ srv[Subgraph[i]] # "stopped"
      BY <2>2
    <3>2. /\ Cardinality(Drained') = Cardinality(Drained) + 1
          /\ spent' \in Nat /\ spent' <= spent + ServerStop
          /\ srv' = [srv EXCEPT ![Subgraph[i]] = "stopped"]
      BY <2>2, <3>1, Stopping
    <3> HIDE DEF StopServer
    <3> QED
      BY <1>23, <2>2, <3>1, <3>2 DEF Unwind
  <2> QED
    BY <1>23, <2>1, <2>2 DEF Unwind
<1>24. ASSUME NEW c \in Servers, Break(c) PROVE IInv'
  <2>1. Drained' = Drained
    BY <1>s, <1>24 DEF Break
  <2> QED
    BY <1>24, <2>1 DEF Break
<1>25. ASSUME NEW c \in Servers, Report(c) PROVE IInv'
  <2>1. Drained' = Drained
    BY <1>s, <1>25 DEF Report
  <2> QED
    BY <1>25, <2>1 DEF Report
<1>26. CASE UNCHANGED vars
  <2>1. Drained' = Drained
    BY <1>s, <1>26 DEF vars
  <2> QED
    BY <1>26, <2>1 DEF vars
<1> QED
  <2> HIDE DEF IInv
  <2> QED
    BY <1>1, <1>2, <1>3, <1>4, <1>5, <1>6, <1>7, <1>8, <1>9, <1>10, <1>11, <1>12, <1>13,
       <1>14, <1>15, <1>16, <1>17, <1>18, <1>19, <1>20, <1>21, <1>22, <1>23, <1>24,
       <1>25, <1>26 DEF Next, Run

-----------------------------------------------------------------------------
(* What the supervisor promises. *)

\* Four servers and four places: a report that is still to come finds room.
LEMMA RoomToReport ==
  ASSUME TypeOK, Reports, unsent # {}
  PROVE  Len(failed) < FailedCapacity
<1>0. Len(failed) \in 0..4 /\ DOMAIN failed = 1..Len(failed)
  <2>1. failed \in Seq(Servers) /\ Len(failed) <= 4
    BY DEF TypeOK, FailedCapacity
  <2>2. Len(failed) \in Nat /\ DOMAIN failed = 1..Len(failed)
    BY <2>1, LenProperties
  <2> QED
    BY <2>1, <2>2
<1> SUFFICES ASSUME Len(failed) = 4 PROVE FALSE
  BY <1>0 DEF FailedCapacity
<1>1. PICK c \in Servers : c \in unsent
  BY DEF TypeOK
<1>2. DOMAIN failed = {1, 2, 3, 4} /\ \A i \in {1, 2, 3, 4} : failed[i] \in Servers \ {c}
  <2>1. DOMAIN failed = {1, 2, 3, 4}
    BY <1>0
  <2>2. \A i \in DOMAIN failed : failed[i] \in Servers
    BY <1>0, ElementOfSeq DEF TypeOK
  <2> QED
    BY <1>1, <2>1, <2>2 DEF Reports
<1> QED
  BY <1>2, TheServers DEF Reports

LEMMA IInvImplies ==
  ASSUME IInv
  PROVE  /\ NothingLeftRunning
         /\ DependenciesOutlive
         /\ ResultSaysWhy
         /\ spent <= 4 * ServerStop + RouterStop
<1> USE TheServers DEF IInv
<1>1. NothingLeftRunning
  BY RoomToReport DEF TypeOK, NothingLeftRunning, SubgraphsByPc, UiByPc, RouterByPc, Started
<1>2. DependenciesOutlive
  BY DEF DependenciesOutlive, TypeOK, SubgraphsByPc, UiByPc, RouterByPc, Started, Standing, PCs
<1>3. ResultSaysWhy
  BY DEF ResultSaysWhy, Causes, TypeOK
<1>4. spent <= 4 * ServerStop + RouterStop
  BY DrainedIsFinite DEF Spending, TypeOK, ServerStop, RouterStop
<1> QED
  BY <1>1, <1>2, <1>3, <1>4

LEMMA SpecIInv == Spec => []IInv
BY InitIInv, NextIInv, PTL DEF Spec

\* serve stops every server it started and waits for the router it launched,
\* and no goroutine of its servers blocks on the channel failed.
THEOREM LeavesNothingRunning == Spec => []NothingLeftRunning
BY SpecIInv, IInvImplies, PTL

\* The router outlives the UI server, and the subgraphs outlive the router.
THEOREM StopsInOrder == Spec => []DependenciesOutlive
BY SpecIInv, IInvImplies, PTL

\* What serve returns says why it ended.
THEOREM ReturnsTheCause == Spec => []ResultSaysWhy
BY SpecIInv, IInvImplies, PTL

-----------------------------------------------------------------------------
(* The command. *)

\* A step of the command is one of the supervisor, or of a server of its own,
\* or leaves all of the supervisor's state alone.
LEMMA SupervisorSteps ==
  ASSUME IInv, [CommandNext]_allVars
  PROVE  IInv'
<1>1. CASE [Next]_vars
  BY <1>1, NextIInv
<1>2. CASE BreakAlone
  <2>1. [Next]_vars \/ (fault' /\ UNCHANGED <<pc, cur, serverVars, routerVars, ctx, result, spent>>)
    BY <1>2 DEF BreakAlone, vars, serverVars, routerVars
  <2>2. ASSUME fault', UNCHANGED <<pc, cur, serverVars, routerVars, ctx, result, spent>>
        PROVE  IInv'
    <3>1. TypeOK' /\ UNCHANGED srv /\ UNCHANGED spent /\ UNCHANGED pc
      BY <2>2 DEF IInv, TypeOK, serverVars, routerVars
    <3>2. Spending'
      BY <3>1 DEF IInv, Spending, Drained
    <3>3. SubgraphsByPc' /\ UiByPc' /\ RouterByPc' /\ Reports' /\ Causes'
      BY <2>2 DEF IInv, SubgraphsByPc, UiByPc, RouterByPc, Reports, Causes, Started,
                  serverVars, routerVars
    <3> QED
      BY <3>1, <3>2, <3>3 DEF IInv
  <2> QED
    BY <2>1, <2>2, NextIInv
<1> QED
  BY <1>1, <1>2 DEF CommandNext, allVars, Signalled, Dispatch, ParseFlags, Serve, ServeReturns,
     RouterActs, ServerBreaks, ServerReports, CannotServe, ListenAlone, StopAlone, FailAlone,
     HealthStarts, ProbeRouter, ProbeViewer, ProbeFails, HealthAlone, Next

LEMMA InitCommandIInv == CommandInit => CommandIInv
<1> SUFFICES ASSUME CommandInit PROVE CommandIInv
  OBVIOUS
<1>1. IInv /\ pc = "load" /\ result = "none"
  BY InitIInv DEF CommandInit, Init
<1> QED
  BY <1>1 DEF CommandInit, CommandIInv, CommandTypeOK, IInv, StatusSaysWhy, ResultSaysWhy

LEMMA NextCommandIInv == CommandIInv /\ [CommandNext]_allVars => CommandIInv'
<1> SUFFICES ASSUME CommandIInv, [CommandNext]_allVars PROVE CommandIInv'
  OBVIOUS
<1>1. IInv' /\ TypeOK' /\ ResultSaysWhy'
  <2>1. IInv'
    BY SupervisorSteps DEF CommandIInv
  <2> QED
    BY <2>1 DEF IInv, Causes, ResultSaysWhy, TypeOK
<1>0. ASSUME Run \/ CtxEnds \/ RouterExits \/ Reap
               \/ \E c \in Servers : Break(c) \/ Report(c)
      PROVE  (ctx => ctx') /\ (fault => fault') /\ (Run \/ UNCHANGED pc)
  <2>0. ctx \in BOOLEAN /\ fault \in BOOLEAN
    BY DEF CommandIInv, IInv, TypeOK
  <2> USE <2>0 DEF serverVars, routerVars, Unwinding
  <2>1. ASSUME Run PROVE (ctx => ctx') /\ (fault => fault')
    BY <2>1 DEF Run, Load, Listen, Ready, WaitCtx, WaitFailed, WaitTimeout, Launch, RouterReady,
       RouterWaitExited, RouterWaitGivesUp, StartUI, ServeCtx, ServeFailed, ServeExited,
       StopWeb, Terminate, GraceExited, GraceOver, Killed, Unwind
  <2> QED
    BY <1>0, <2>1 DEF CtxEnds, RouterExits, Reap, Break, Report
<1> USE <1>1
    DEF CommandIInv, CommandTypeOK, StatusSaysWhy, vars, commandVars, healthVars, Exit, ExitWith
<1>2. CASE Signalled
  <2>1. (ctx => ctx') /\ (fault => fault') /\ UNCHANGED pc /\ status = -1
    BY <1>0, <1>2 DEF Signalled, CtxEnds
  <2> QED
    BY <1>2, <2>1 DEF Signalled
<1>3. CASE Dispatch
  BY <1>3 DEF Dispatch
<1>4. CASE ParseFlags
  BY <1>4 DEF ParseFlags
<1>5. CASE Serve
  BY <1>0, <1>5 DEF Serve, Serving
<1>6. CASE ServeReturns
  <2>1. result = "error" \/ ctx
    BY <1>6 DEF ServeReturns, IInv, Causes, TypeOK
  <2> QED
    BY <1>6, <2>1, TheServers DEF ServeReturns, Serving, Alone
<1>7. CASE RouterActs
  <2>1. (ctx => ctx') /\ (fault => fault') /\ UNCHANGED pc /\ status = -1
    BY <1>0, <1>7 DEF RouterActs, RouterExits, Reap
  <2> QED
    BY <1>7, <2>1 DEF RouterActs
<1>8. CASE ServerBreaks
  <2>1. (ctx => ctx') /\ (fault => fault') /\ UNCHANGED pc /\ status = -1
    BY <1>0, <1>8 DEF ServerBreaks, Break
  <2> QED
    BY <1>8, <2>1 DEF ServerBreaks
<1>9. CASE ServerReports
  <2>1. (ctx => ctx') /\ (fault => fault') /\ UNCHANGED pc /\ status = -1
    BY <1>0, <1>9 DEF ServerReports, Report
  <2> QED
    BY <1>9, <2>1 DEF ServerReports
<1>10. CASE CannotServe
  BY <1>10 DEF CannotServe
<1>11. CASE ListenAlone
  BY <1>11 DEF ListenAlone, RunsAlone, Alone
<1>12. CASE BreakAlone
  BY <1>12 DEF BreakAlone
<1>13. CASE StopAlone
  BY <1>13 DEF StopAlone
<1>14. CASE FailAlone
  BY <1>14 DEF FailAlone
<1>15. CASE HealthStarts
  BY <1>15 DEF HealthStarts
<1>16. CASE ProbeRouter
  BY <1>16 DEF ProbeRouter
<1>17. CASE ProbeViewer
  <2>1. Whole
    BY <1>17, TheServers DEF ProbeViewer, Whole, IInv, TypeOK, PCs, SubgraphsByPc, UiByPc,
       RouterByPc, Started, Standing
  <2>2. stood' = TRUE
    BY <1>17, <2>1 DEF ProbeViewer
  <2> HIDE DEF Whole
  <2> QED
    BY <1>17, <2>2 DEF ProbeViewer
<1>18. CASE ProbeFails
  BY <1>18 DEF ProbeFails
<1>19. CASE HealthAlone
  BY <1>19, TheServers DEF HealthAlone, Alone
<1>20. CASE UNCHANGED allVars
  BY <1>20 DEF allVars
<1> QED
  BY <1>2, <1>3, <1>4, <1>5, <1>6, <1>7, <1>8, <1>9, <1>10, <1>11, <1>12, <1>13,
     <1>14, <1>15, <1>16, <1>17, <1>18, <1>19, <1>20 DEF CommandNext

LEMMA CommandSpecIInv == CommandSpec => [](IInv /\ StatusSaysWhy)
<1>1. CommandIInv => IInv /\ StatusSaysWhy
  BY DEF CommandIInv
<1> QED
  BY <1>1, InitCommandIInv, NextCommandIInv, PTL DEF CommandSpec

\* A command's exit status says why it ended, and a health check that passes
\* that the demo stood whole.
THEOREM ExitsWithTheCause == CommandSpec => []StatusSaysWhy
BY CommandSpecIInv, PTL

\* In the binary, with its signals, flags and health check around it, serve
\* keeps what it promises by itself.
THEOREM ServeInTheBinary ==
  CommandSpec => [](NothingLeftRunning /\ DependenciesOutlive /\ ResultSaysWhy)
BY CommandSpecIInv, IInvImplies, PTL

\* Four drains and one grace are all the time that stopping ever takes, so it
\* fits any container's grace that they fit.
THEOREM StopsInTime ==
  ASSUME 4 * ServerStop + RouterStop <= ContainerGrace
  PROVE  (Spec => []StopFitsGrace) /\ (CommandSpec => []StopFitsGrace)
<1>1. IInv => StopFitsGrace
  <2> SUFFICES ASSUME IInv PROVE StopFitsGrace
    OBVIOUS
  <2>1. spent <= 4 * ServerStop + RouterStop /\ spent \in Nat
    BY IInvImplies DEF IInv, TypeOK
  <2> QED
    BY <2>1, GraceAssumption DEF StopFitsGrace, ServerStop, RouterStop
<1> QED
  BY <1>1, SpecIInv, CommandSpecIInv, PTL
=============================================================================
