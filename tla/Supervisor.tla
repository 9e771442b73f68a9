----------------------------- MODULE Supervisor -----------------------------
(***************************************************************************)
(* supervisor.run (cmd/sysml-federation/serve.go): three subgraph servers, *)
(* the router child and the UI server are started one after the other,     *)
(* each one waited for; then run sits in a select until the context ends   *)
(* or a component fails, and stops everything in reverse order.            *)
(*                                                                         *)
(* Around run, each server's goroutine may report a failure, the router    *)
(* may exit at any moment, its Wait goroutine reports that once, and the   *)
(* context may end at any point, start-up included.  Time enters twice:    *)
(* a wait may run into its timeout, and spent adds up the seconds that     *)
(* stopping is allowed to take.                                            *)
(***************************************************************************)
EXTENDS Naturals, FiniteSets, Sequences

CONSTANT ContainerGrace     \* seconds a container stop allows

ASSUME GraceAssumption == ContainerGrace \in Nat

\* The subgraphs in starting order; the UI server comes last of all.
Subgraph == <<"adapter", "capacity", "document">>
Subgraphs == {Subgraph[i] : i \in 1..3}
Servers == Subgraphs \cup {"ui"}

FailedCapacity == 4     \* make(chan error, 4)
ServerStop == 1         \* serverStopTimeout, in seconds
RouterStop == 5         \* routerStopTimeout

\* Seeded fault: the drain every stop had before it was cut to a second.
LongDrain == 5

\* The longest a server's stop takes.
DrainCost == ServerStop

VARIABLES
  pc,           \* where run is
  cur,          \* the subgraph being started
  srv,          \* srv[c]: "none", "up", "broken" or "stopped"
  unsent,       \* servers whose goroutine has still to report
  failed,       \* the channel failed
  router,       \* "none", "running", "dead" or "reaped"
  exited,       \* the channel exited holds the router's exit
  clean,        \* the router's exit status was 0
  termed,       \* SIGTERM was sent
  killed,       \* SIGKILL was sent
  gone,         \* routerGone, or the exit was read before a stop
  ctx,          \* the context has ended
  result,       \* run's error: "none" yet, "nil" or "error"
  fault,        \* history: something went wrong that nobody asked for
  spent         \* seconds spent stopping

serverVars == <<srv, unsent, failed>>
routerVars == <<router, exited, clean, termed, killed, gone>>
vars == <<pc, cur, srv, unsent, failed, router, exited, clean, termed, killed,
          gone, ctx, result, fault, spent>>

PCs == {"load", "listen", "wait", "launch", "waitRouter", "ui", "serving",
        "stopWeb", "stopRouter", "grace", "killing", "unwind", "returned"}

TypeOK ==
  /\ pc \in PCs
  /\ cur \in 1..3
  /\ srv \in [Servers -> {"none", "up", "broken", "stopped"}]
  /\ unsent \in SUBSET Servers
  /\ failed \in Seq(Servers) /\ Len(failed) <= FailedCapacity
  /\ router \in {"none", "running", "dead", "reaped"}
  /\ exited \in BOOLEAN /\ clean \in BOOLEAN
  /\ termed \in BOOLEAN /\ killed \in BOOLEAN /\ gone \in BOOLEAN
  /\ ctx \in BOOLEAN /\ fault \in BOOLEAN
  /\ result \in {"none", "nil", "error"}
  /\ spent \in Nat

Init ==
  /\ pc = "load"
  /\ cur = 1
  /\ srv = [c \in Servers |-> "none"]
  /\ unsent = {}
  /\ failed = <<>>
  /\ router = "none"
  /\ exited = FALSE /\ clean = FALSE
  /\ termed = FALSE /\ killed = FALSE /\ gone = FALSE
  /\ ctx = FALSE
  /\ result = "none"
  /\ fault = FALSE
  /\ spent = 0

-----------------------------------------------------------------------------
(* Around run. *)

\* The signal that ends the context.
CtxEnds ==
  /\ ~ctx
  /\ pc # "returned"
  /\ ctx' = TRUE
  /\ UNCHANGED <<pc, cur, serverVars, routerVars, result, fault, spent>>

\* Serve returns an error other than ErrServerClosed.
Break(c) ==
  /\ srv[c] = "up"
  /\ srv' = [srv EXCEPT ![c] = "broken"]
  /\ unsent' = unsent \cup {c}
  /\ fault' = TRUE
  /\ UNCHANGED <<pc, cur, failed, routerVars, ctx, result, spent>>

\* The goroutine's send on failed, which blocks on a full channel.
Report(c) ==
  /\ c \in unsent
  /\ Len(failed) < FailedCapacity
  /\ unsent' = unsent \ {c}
  /\ failed' = Append(failed, c)
  /\ UNCHANGED <<pc, cur, srv, routerVars, ctx, result, fault, spent>>

\* The router ends: of itself, after SIGTERM, or killed.
RouterExits ==
  /\ router = "running"
  /\ router' = "dead"
  /\ clean' \in {TRUE, FALSE}
  /\ fault' = (fault \/ ~termed)
  /\ UNCHANGED <<pc, cur, serverVars, exited, termed, killed, gone, ctx, result, spent>>

\* router.Wait returns and its goroutine fills the one-slot channel.
Reap ==
  /\ router = "dead"
  /\ router' = "reaped"
  /\ exited' = TRUE
  /\ UNCHANGED <<pc, cur, serverVars, clean, termed, killed, gone, ctx, result, fault, spent>>

-----------------------------------------------------------------------------
(* Starting. *)

Unwinding(err) == pc' = "unwind" /\ result' = err

Load ==
  /\ pc = "load"
  /\ \/ pc' = "listen" /\ UNCHANGED <<result, fault>>
     \/ Unwinding("error") /\ fault' = TRUE
  /\ UNCHANGED <<cur, serverVars, routerVars, ctx, spent>>

Listen ==
  /\ pc = "listen"
  /\ \/ /\ pc' = "wait"
        /\ srv' = [srv EXCEPT ![Subgraph[cur]] = "up"]
        /\ UNCHANGED <<result, fault>>
     \/ Unwinding("error") /\ fault' = TRUE /\ UNCHANGED srv
  /\ UNCHANGED <<cur, unsent, failed, routerVars, ctx, spent>>

\* answers() polls with the context, so nothing is ready once it has ended.
Ready ==
  /\ pc = "wait"
  /\ srv[Subgraph[cur]] = "up"
  /\ ~ctx
  /\ pc' = IF cur = 3 THEN "launch" ELSE "listen"
  /\ cur' = IF cur = 3 THEN cur ELSE cur + 1
  /\ UNCHANGED <<serverVars, routerVars, ctx, result, fault, spent>>

WaitCtx ==
  /\ pc = "wait"
  /\ ctx
  /\ Unwinding("error")
  /\ UNCHANGED <<cur, serverVars, routerVars, ctx, fault, spent>>

\* Any server's report ends the wait, whichever one is being waited for.
WaitFailed ==
  /\ pc = "wait"
  /\ failed # <<>>
  /\ failed' = Tail(failed)
  /\ Unwinding("error")
  /\ UNCHANGED <<cur, srv, unsent, routerVars, ctx, fault, spent>>

WaitTimeout ==
  /\ pc = "wait"
  /\ Unwinding("error")
  /\ fault' = TRUE
  /\ UNCHANGED <<cur, serverVars, routerVars, ctx, spent>>

Launch ==
  /\ pc = "launch"
  /\ \/ pc' = "waitRouter" /\ router' = "running" /\ UNCHANGED <<result, fault>>
     \/ Unwinding("error") /\ fault' = TRUE /\ UNCHANGED router
  /\ UNCHANGED <<cur, serverVars, exited, clean, termed, killed, gone, ctx, spent>>

RouterReady ==
  /\ pc = "waitRouter"
  /\ router = "running"
  /\ ~ctx
  /\ pc' = "ui"
  /\ UNCHANGED <<cur, serverVars, routerVars, ctx, result, fault, spent>>

\* Seeded fault: the router is stopped even when its exit was read already.
RouterWaitExitedStops ==
  /\ pc = "waitRouter"
  /\ exited
  /\ exited' = FALSE
  /\ gone' = TRUE
  /\ pc' = "stopRouter"
  /\ result' = "error"
  /\ UNCHANGED <<cur, serverVars, router, clean, termed, killed, ctx, fault, spent>>

\* errExited: the exit has been read, so the router is not stopped again.
RouterWaitExited ==
  /\ pc = "waitRouter"
  /\ exited
  /\ exited' = FALSE
  /\ gone' = TRUE
  /\ Unwinding("error")
  /\ UNCHANGED <<cur, serverVars, router, clean, termed, killed, ctx, fault, spent>>

\* Seeded fault: a wait given up leaves the router running.
RouterWaitAbandoned ==
  /\ pc = "waitRouter"
  /\ pc' = "unwind"
  /\ result' = "error"
  /\ fault' = (fault \/ ~ctx)
  /\ UNCHANGED <<cur, serverVars, routerVars, ctx, spent>>

\* The context ends or the timeout expires.
RouterWaitGivesUp ==
  /\ pc = "waitRouter"
  /\ pc' = "stopRouter"
  /\ result' = "error"
  /\ fault' = (fault \/ ~ctx)
  /\ UNCHANGED <<cur, serverVars, routerVars, ctx, spent>>

\* The handler is built and the UI server listens, or the router is stopped.
StartUI ==
  /\ pc = "ui"
  /\ \/ pc' = "serving" /\ srv' = [srv EXCEPT !["ui"] = "up"] /\ UNCHANGED <<result, fault>>
     \/ pc' = "stopRouter" /\ result' = "error" /\ fault' = TRUE /\ UNCHANGED srv
  /\ UNCHANGED <<cur, unsent, failed, routerVars, ctx, spent>>

-----------------------------------------------------------------------------
(* Serving: the three cases of the select. *)

ServeCtx ==
  /\ pc = "serving"
  /\ ctx
  /\ pc' = "stopWeb"
  /\ result' = "nil"
  /\ UNCHANGED <<cur, serverVars, routerVars, ctx, fault, spent>>

ServeFailed ==
  /\ pc = "serving"
  /\ failed # <<>>
  /\ failed' = Tail(failed)
  /\ pc' = "stopWeb"
  /\ result' = "error"
  /\ UNCHANGED <<cur, srv, unsent, routerVars, ctx, fault, spent>>

\* Seeded fault: a clean exit of the router is no failure.
ServeExitedClean ==
  /\ pc = "serving"
  /\ exited
  /\ exited' = FALSE
  /\ gone' = TRUE
  /\ pc' = "stopWeb"
  /\ result' = IF clean THEN "nil" ELSE "error"
  /\ UNCHANGED <<cur, serverVars, router, clean, termed, killed, ctx, fault, spent>>

\* exitStatus: a clean exit of a child meant to run forever is a failure too.
ServeExited ==
  /\ pc = "serving"
  /\ exited
  /\ exited' = FALSE
  /\ gone' = TRUE
  /\ pc' = "stopWeb"
  /\ result' = "error"
  /\ UNCHANGED <<cur, serverVars, router, clean, termed, killed, ctx, fault, spent>>

-----------------------------------------------------------------------------
(* Stopping. *)

\* Shutdown drains within the limit, else Close.
StopServer(c) ==
  /\ srv' = [srv EXCEPT ![c] = "stopped"]
  /\ \E t \in {0, DrainCost} : spent' = spent + t

\* Seeded fault: the subgraphs go before the router.
StopWebThenSubgraphs ==
  /\ pc = "stopWeb"
  /\ StopServer("ui")
  /\ pc' = "unwind"
  /\ UNCHANGED <<cur, unsent, failed, routerVars, ctx, result, fault>>

StopWeb ==
  /\ pc = "stopWeb"
  /\ StopServer("ui")
  /\ pc' = IF gone THEN "unwind" ELSE "stopRouter"
  /\ UNCHANGED <<cur, unsent, failed, routerVars, ctx, result, fault>>

Terminate ==
  /\ pc = "stopRouter"
  /\ pc' = "grace"
  /\ termed' = TRUE
  /\ UNCHANGED <<cur, serverVars, router, exited, clean, killed, gone, ctx, result, fault, spent>>

\* The exit comes within the grace.
GraceExited ==
  /\ pc = "grace"
  /\ exited
  /\ exited' = FALSE
  /\ pc' = "unwind"
  /\ \E t \in {0, RouterStop} : spent' = spent + t
  /\ UNCHANGED <<cur, serverVars, router, clean, termed, killed, gone, ctx, result, fault>>

GraceOver ==
  /\ pc = "grace"
  /\ pc' = "killing"
  /\ killed' = TRUE
  /\ spent' = spent + RouterStop
  /\ UNCHANGED <<cur, serverVars, router, exited, clean, termed, gone, ctx, result, fault>>

Killed ==
  /\ pc = "killing"
  /\ exited
  /\ exited' = FALSE
  /\ pc' = "unwind"
  /\ UNCHANGED <<cur, serverVars, router, clean, termed, killed, gone, ctx, result, fault, spent>>

\* The deferred loop, one server a step, last started first.
Started(i) == srv[Subgraph[i]] \in {"up", "broken"}

Unwind ==
  /\ pc = "unwind"
  /\ \/ \E i \in 1..3 :
          /\ Started(i)
          /\ \A j \in (i + 1)..3 : ~Started(j)
          /\ StopServer(Subgraph[i])
          /\ UNCHANGED pc
     \/ /\ \A i \in 1..3 : ~Started(i)
        /\ pc' = "returned"
        /\ UNCHANGED <<srv, spent>>
  /\ UNCHANGED <<cur, unsent, failed, routerVars, ctx, result, fault>>

-----------------------------------------------------------------------------
Run ==
  \/ Load \/ Listen \/ Ready \/ WaitCtx \/ WaitFailed \/ WaitTimeout
  \/ Launch \/ RouterReady \/ RouterWaitExited \/ RouterWaitGivesUp \/ StartUI
  \/ ServeCtx \/ ServeFailed \/ ServeExited
  \/ StopWeb \/ Terminate \/ GraceExited \/ GraceOver \/ Killed \/ Unwind

Next ==
  \/ Run
  \/ CtxEnds
  \/ \E c \in Servers : Break(c) \/ Report(c)
  \/ RouterExits
  \/ Reap

Spec == Init /\ [][Next]_vars

-----------------------------------------------------------------------------
(* What must hold. *)

\* run leaves nothing behind, at whichever step it gave up: every server it
\* started is stopped, the router, if it ran, is dead and waited for, and no
\* server's goroutine ever blocks on a report that nobody will read.
NothingLeftRunning ==
  /\ TypeOK
  /\ unsent # {} => Len(failed) < FailedCapacity
  /\ pc = "returned" =>
       /\ \A c \in Servers : srv[c] \in {"none", "stopped"}
       /\ router \in {"none", "reaped"}

\* Whatever stands on something else is up only while that is: the UI server
\* on a router nobody has asked to stop, the router on all three subgraphs.
DependenciesOutlive ==
  /\ srv["ui"] = "up" => router # "none" /\ ~termed
  /\ router = "running" => \A c \in Subgraphs : srv[c] \in {"up", "broken"}

\* Stopping, from any point and with every limit run into, fits the time a
\* container stop allows (TestStopBudgetFitsAContainerGrace).
StopFitsGrace == spent <= ContainerGrace

\* What run returns says why it ended: nil only when it was asked to, never
\* because a component ended, the router's exit status 0 included; an error
\* with nothing at fault only when it was asked to while it was starting
\* (waitFor returns ctx.Err, whatever the comment on serve.go:67 says of nil).
ResultSaysWhy ==
  pc = "returned" =>
    IF result = "nil" THEN ctx ELSE fault \/ (ctx /\ srv["ui"] = "none")
=============================================================================
