------------------------------ MODULE Command ------------------------------
(***************************************************************************)
(* The binary (cmd/sysml-federation): run of main.go picks a subcommand    *)
(* and turns its outcome into an exit status.  serve is the Supervisor;    *)
(* each of the others runs one server alone until the context ends or the  *)
(* server fails.  A second process of the same binary, healthcheck, is     *)
(* what the container judges the first one by.                             *)
(*                                                                         *)
(* A server that runs alone has a channel of its own for its one report.   *)
(***************************************************************************)
EXTENDS Supervisor, Integers

Alone == Servers
Commands == Alone \cup {"serve", "healthcheck", "help", "unknown"}

VARIABLES
  command,      \* the subcommand named
  lone,         \* the server run alone: "reported" is its failure in the channel
  place,        \* where run of main.go is
  status,       \* the exit status, or -1 before there is one
  health,       \* where the healthcheck beside it is that began last
  stood         \* history: the demo stood whole as its last probe was answered

healthVars == <<health, stood>>
commandVars == <<command, lone, place, status, healthVars>>
allVars == <<vars, commandVars>>

CommandTypeOK ==
  /\ TypeOK
  /\ command \in Commands
  /\ lone \in {"none", "up", "broken", "reported", "stopped"}
  /\ place \in {"dispatch", "flags", "running", "exited"}
  /\ status \in {-1, 0, 1, 2}
  /\ health \in {"none", "router", "viewer", "passed", "failed"}
  /\ stood \in BOOLEAN

CommandInit ==
  /\ Init
  /\ command \in Commands
  /\ lone = "none"
  /\ place = "dispatch"
  /\ status = -1
  /\ health = "none"
  /\ stood = FALSE

Exit(s) == place' = "exited" /\ status' = s

\* An error of a subcommand is status 1, none at all status 0.
ExitWith(err) == Exit(IF err THEN 1 ELSE 0)

\* main: signals are heard before anything else is done.
Signalled == place # "exited" /\ CtxEnds /\ UNCHANGED commandVars

Dispatch ==
  /\ place = "dispatch"
  /\ CASE command = "help" -> Exit(0)
       [] command = "unknown" -> Exit(2)
       [] OTHER -> place' = "flags" /\ UNCHANGED status
  /\ UNCHANGED <<vars, command, lone, healthVars>>

\* Flags asked for help, were refused, or are fine; healthcheck has none.
ParseFlags ==
  /\ place = "flags"
  /\ \/ place' = "running" /\ UNCHANGED status
     \/ command # "healthcheck" /\ ExitWith(FALSE)
     \/ ExitWith(TRUE)
  /\ UNCHANGED <<vars, command, lone, healthVars>>

-----------------------------------------------------------------------------
(* serve. *)

Serving == command = "serve" /\ place = "running"

Serve == Serving /\ Run /\ UNCHANGED commandVars

ServeReturns ==
  /\ Serving
  /\ pc = "returned"
  /\ ExitWith(result = "error")
  /\ UNCHANGED <<vars, command, lone, healthVars>>

\* The router and its Wait goroutine.
RouterActs == place # "exited" /\ (RouterExits \/ Reap) /\ UNCHANGED commandVars

ServerBreaks == \E c \in Servers : Break(c) /\ place # "exited" /\ UNCHANGED commandVars
ServerReports == \E c \in Servers : Report(c) /\ place # "exited" /\ UNCHANGED commandVars

-----------------------------------------------------------------------------
(* One server alone: serveOne. *)

RunsAlone == command \in Alone /\ place = "running"

\* What it serves cannot be loaded (a model, a document, the UI's files), or
\* the address is taken.
CannotServe ==
  /\ RunsAlone /\ lone = "none"
  /\ ExitWith(TRUE)
  /\ UNCHANGED <<vars, command, lone, healthVars>>

ListenAlone ==
  /\ RunsAlone /\ lone = "none"
  /\ lone' = "up"
  /\ UNCHANGED <<vars, command, place, status, healthVars>>

\* Serve returns an error, and then reports it.
BreakAlone ==
  /\ RunsAlone
  /\ \/ lone = "up" /\ lone' = "broken" /\ fault' = TRUE
     \/ lone = "broken" /\ lone' = "reported" /\ UNCHANGED fault
  /\ UNCHANGED <<pc, cur, serverVars, routerVars, ctx, result, spent,
                 command, place, status, healthVars>>

\* The context has ended: the server is stopped, and that is no error.
StopAlone ==
  /\ RunsAlone /\ lone \in {"up", "broken", "reported"}
  /\ ctx
  /\ lone' = "stopped"
  /\ ExitWith(FALSE)
  /\ UNCHANGED <<vars, command, healthVars>>

\* Seeded fault: a server that failed is taken for one that was stopped.
FailAloneQuietly ==
  /\ RunsAlone /\ lone = "reported"
  /\ ExitWith(FALSE)
  /\ UNCHANGED <<vars, command, lone, healthVars>>

\* Its failure is the command's; nothing is left to stop.
FailAlone ==
  /\ RunsAlone /\ lone = "reported"
  /\ ExitWith(TRUE)
  /\ UNCHANGED <<vars, command, lone, healthVars>>

-----------------------------------------------------------------------------
(* healthcheck: two probes, one after the other. *)

\* Every part of the demo has been started and none has been told to stop.
Whole ==
  /\ \A c \in Servers : srv[c] \in {"up", "broken"}
  /\ router # "none" /\ ~termed

\* The container runs it beside serve, over and over, one at a time.
HealthStarts ==
  /\ health \in {"none", "passed", "failed"}
  /\ Serving
  /\ health' = "router" /\ stood' = FALSE
  /\ UNCHANGED <<vars, command, lone, place, status>>

ProbeRouter ==
  /\ health = "router"
  /\ router = "running"
  /\ health' = "viewer"
  /\ UNCHANGED <<vars, command, lone, place, status, stood>>

\* Seeded fault: the router alone is probed.
ProbeNothingMore ==
  /\ health = "viewer"
  /\ place # "exited"
  /\ health' = "passed"
  /\ stood' = Whole
  /\ UNCHANGED <<vars, command, lone, place, status>>

ProbeViewer ==
  /\ health = "viewer"
  /\ srv["ui"] = "up"
  /\ place # "exited"
  /\ health' = "passed"
  /\ stood' = Whole
  /\ UNCHANGED <<vars, command, lone, place, status>>

\* A probe is refused, answers something else, or takes three seconds.
ProbeFails ==
  /\ health \in {"router", "viewer"}
  /\ health' = "failed"
  /\ UNCHANGED <<vars, command, lone, place, status, stood>>

\* The same command on its own, where nothing it could probe is running.
HealthAlone ==
  /\ command = "healthcheck"
  /\ place = "running"
  /\ ExitWith(TRUE)
  /\ UNCHANGED <<vars, command, lone, healthVars>>

-----------------------------------------------------------------------------
CommandNext ==
  \/ Signalled
  \/ Dispatch \/ ParseFlags
  \/ Serve \/ ServeReturns \/ RouterActs \/ ServerBreaks \/ ServerReports
  \/ CannotServe \/ ListenAlone \/ BreakAlone \/ StopAlone \/ FailAlone
  \/ HealthStarts \/ ProbeRouter \/ ProbeViewer \/ ProbeFails \/ HealthAlone

CommandSpec == CommandInit /\ [][CommandNext]_allVars

\* run and the goroutines it started are scheduled; a killed process dies.
\* Nothing obliges a healthy component to fail or anyone to end the context.
CommandFairness ==
  /\ WF_allVars(Dispatch) /\ WF_allVars(ParseFlags)
  /\ WF_allVars(Serve) /\ WF_allVars(ServeReturns)
  /\ \A c \in Servers :
       WF_allVars(Report(c) /\ place # "exited" /\ UNCHANGED commandVars)
  /\ WF_allVars(killed /\ RouterExits /\ UNCHANGED commandVars)
  /\ WF_allVars(Reap /\ UNCHANGED commandVars)
  /\ WF_allVars(CannotServe \/ ListenAlone)
  /\ WF_allVars(lone = "broken" /\ BreakAlone)
  /\ WF_allVars(StopAlone) /\ WF_allVars(FailAlone)
  /\ WF_allVars(HealthAlone)

FairCommand == CommandSpec /\ CommandFairness

-----------------------------------------------------------------------------
(* What must hold. *)

\* An exit status says why it ended.  Of a command that serves, 0 says that
\* it was asked to stop or to explain itself, and 1, with nothing at fault
\* but the flags, that serve was asked to while it was starting (ResultSaysWhy);
\* a healthcheck that passes says that the demo was whole when its second
\* probe was answered, although the first one may be out of date by then.
StatusSaysWhy ==
  /\ CommandTypeOK
  /\ ResultSaysWhy
  /\ command \in Alone /\ status = 0 => lone = "none" \/ ctx
  /\ command \in Alone /\ status = 1 => lone = "none" \/ fault
  /\ command = "serve" /\ status = 0 => pc = "load" \/ ctx
  /\ health = "passed" => stood

\* Once the context has ended or a component has failed, the process exits:
\* no wait, no full channel and no router deaf to SIGTERM keeps it.
ExitsInTheEnd == (ctx \/ fault) ~> place = "exited"
=============================================================================
