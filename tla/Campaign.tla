------------------------------ MODULE Campaign ------------------------------
(***************************************************************************)
(* A run of the experiment (run.go, browse.go, results.go, Client.Chat):   *)
(* sittings that put questions to the server and write each reply down,    *)
(* each of which may be stopped, fail or crash, and may take up the file   *)
(* of an earlier one.  A sitting reads the code and the hashed inputs of   *)
(* its own day.                                                            *)
(***************************************************************************)
EXTENDS Browsing

CONSTANTS
  Inputs,          \* the tests, model and settings a file is bound to
  Codes,           \* the code the tools read, which is not
  Servers,         \* ways a server may answer
  Reply(_, _, _),  \* what a server replies to a text in a browse
  MaxAttempts,     \* posts of one question (3 in the code)
  MaxSittings      \* bound on the sittings

ASSUME CampaignAssumption == MaxAttempts \in Nat \ {0}

VARIABLES
  pc,        \* what the sitting does next
  sitting,   \* its inputs, code and server, and the code of the file it resumes
  previous,  \* the replies of the file it resumes
  phase,     \* tests, incident, probes or repeats
  todo,      \* the browses of the phase still to make
  base,      \* Runner.base: each test's first browse
  browse,    \* the locals of the browse under way
  attempt,   \* posts made of the question under way
  got,       \* the reply to write down
  file,      \* the results file, and the code it was written with
  disk,      \* the files of the sittings that are over
  given      \* history: every reply the server gave, with its question

vars == <<pc, sitting, previous, phase, todo, base, browse, attempt, got, file, disk, given>>
working == <<phase, todo, base, browse>>
asking == <<attempt, got>>
kept == <<sitting, previous>>

NoFile == [inputs |-> None, code |-> None, lines |-> <<>>, torn |-> FALSE, complete |-> FALSE]
NoBrowse == [job |-> None, n |-> 1, view |-> FALSE, last |-> None, shown |-> <<>>, done |-> FALSE]

\* previousCalls: a file is read to its end, a broken line refuses it, and so
\* does a header of other inputs.
Resumable(f, inputs) == ~f.torn /\ f.inputs = inputs

Replies(f) == {l \in Range(f.lines) : l.outcome = "reply"}

-----------------------------------------------------------------------------
(* The sitting. *)

Init ==
  /\ pc = "idle" /\ sitting \in [inputs : Inputs, code : Codes, server : Servers, from : {None}]
  /\ previous = {} /\ file = NoFile /\ disk = <<>> /\ given = {}
  /\ phase = 0 /\ todo = <<>> /\ browse = NoBrowse /\ base = [t \in Range(Tests) |-> Unmade]
  /\ attempt = 0 /\ got = None

Start ==
  /\ pc = "idle" /\ Len(disk) < MaxSittings
  /\ \E resumed \in {NoFile} \cup Range(disk) :
       /\ sitting' \in [inputs : Inputs, code : Codes, server : Servers, from : {resumed.code}]
       /\ resumed # NoFile => Resumable(resumed, sitting'.inputs)
       /\ previous' = Replies(resumed)
  /\ file' = NoFile
  /\ pc' = "header"
  /\ UNCHANGED <<working, asking, disk, given>>

WriteHeader ==
  /\ pc = "header"
  /\ file' = [file EXCEPT !.inputs = sitting.inputs, !.code = sitting.code]
  /\ pc' = "job"
  /\ UNCHANGED <<kept, working, asking, disk, given>>

NextPhase ==
  /\ pc = "job" /\ todo = <<>> /\ phase < 4
  /\ phase' = phase + 1
  /\ todo' = <<TestJobs, IncidentJobs, ProbeJobs(base), RepeatJobs>>[phase']
  /\ UNCHANGED <<pc, kept, base, browse, asking, file, disk, given>>

Forgets ==
  /\ phase' = 0 /\ todo' = <<>> /\ browse' = NoBrowse
  /\ base' = [t \in Range(Tests) |-> Unmade]
  /\ attempt' = 0 /\ got' = None

\* The process ends and the file stays as it is.
Leaves(f) ==
  /\ file' = f
  /\ disk' = Append(disk, f)
  /\ pc' = "idle"
  /\ Forgets
  /\ UNCHANGED <<kept, given>>

\* The file is read again and a summary of it added, either of which may fail.
Finish ==
  /\ pc = "job" /\ todo = <<>> /\ phase = 4
  /\ \/ Leaves([file EXCEPT !.complete = TRUE])
     \/ Leaves([file EXCEPT !.torn = TRUE])
     \/ Leaves(file)

Note ==
  /\ pc = "job" /\ todo # <<>> /\ Noted(Head(todo))
  /\ file' = [file EXCEPT !.lines = Append(@, Line(Key(Head(todo), 0), None, None, "note"))]
  /\ todo' = Tail(todo)
  /\ UNCHANGED <<pc, kept, phase, base, browse, asking, disk, given>>

Begin ==
  /\ pc = "job" /\ todo # <<>> /\ ~Noted(Head(todo))
  /\ browse' = [NoBrowse EXCEPT !.job = Head(todo)]
  /\ todo' = Tail(todo)
  /\ pc' = "ask"
  /\ UNCHANGED <<kept, phase, base, asking, file, disk, given>>

-----------------------------------------------------------------------------
(* A question. *)

Final == browse.done \/ browse.n > Budget(browse.job)

AskedKey == Key(browse.job, IF Final THEN 0 ELSE browse.n)
AskedText == Text(browse.job, IF Final THEN 0 ELSE Budget(browse.job) - browse.n + 1, browse.view, browse.last)

\* Seeded fault: an earlier reply serves, however its question read.
AnsweredAnyhow == {l \in previous : l.key = AskedKey}

Answered == {l \in previous : l.key = AskedKey /\ l.text = AskedText}

\* Seeded fault: final answers are asked for again.
ReusedSteps == {l \in Answered : l.key.n # 0}

Reused == Answered

Reuse ==
  /\ pc = "ask" /\ Reused # {}
  /\ got' \in {l.reply : l \in Reused}
  /\ pc' = "write"
  /\ UNCHANGED <<kept, working, attempt, file, disk, given>>

Post ==
  /\ pc = "ask" /\ Reused = {}
  /\ attempt' = 1
  /\ pc' = "wait"
  /\ UNCHANGED <<kept, working, got, file, disk, given>>

Hear ==
  /\ pc = "wait"
  /\ got' = Reply(sitting.server, browse.job, AskedText)
  /\ given' = given \cup {Line(AskedKey, AskedText, got', "reply")}
  /\ pc' = "write"
  /\ UNCHANGED <<kept, working, attempt, file, disk>>

\* The connection fails, before the server has answered or after: nobody hears.
Lose ==
  /\ pc = "wait" /\ attempt < MaxAttempts
  /\ pc' = "backoff"
  /\ UNCHANGED <<kept, working, asking, file, disk, given>>

\* Seeded fault: the attempts are not counted.
RetryForEver ==
  /\ pc = "backoff"
  /\ pc' = "wait"
  /\ UNCHANGED <<kept, working, asking, file, disk, given>>

Retry ==
  /\ pc = "backoff"
  /\ attempt' = attempt + 1
  /\ pc' = "wait"
  /\ UNCHANGED <<kept, working, got, file, disk, given>>

\* The server answers with an error, or the last attempt is lost: the line
\* holds no reply, and the sitting stops whether it could be written or not.
Fail ==
  /\ pc = "wait"
  /\ \/ Leaves([file EXCEPT !.lines = Append(@, Line(AskedKey, AskedText, None, "error"))])
     \/ Leaves([file EXCEPT !.torn = TRUE])

\* The operator's interrupt ends the wait and the pause before another post.
Interrupt ==
  /\ pc \in {"wait", "backoff"}
  /\ Leaves(file)

Step(b) ==
  [b EXCEPT !.n = @ + 1, !.view = Viewed(@, got),
            !.last = [reply |-> got, answer |-> Answer(b.job, got, sitting.code)],
            !.shown = Append(@, Answer(b.job, got, sitting.code)),
            !.done = got # Junk /\ got.tool = "done"]

\* The step is taken or the answer read, and the line written.
Write ==
  /\ pc = "write"
  /\ file' = [file EXCEPT !.lines = Append(@, Line(AskedKey, AskedText, got, "reply"))]
  /\ IF Final
     THEN /\ base' = IF browse.job.probe = "base"
                     THEN [base EXCEPT ![browse.job.test] = Browse(got, browse.shown)] ELSE base
          /\ browse' = NoBrowse
          /\ pc' = "job"
     ELSE browse' = Step(browse) /\ pc' = "ask" /\ UNCHANGED base
  /\ attempt' = 0 /\ got' = None
  /\ UNCHANGED <<kept, phase, todo, disk, given>>

\* The disk is full: part of a line is written, and the sitting stops.
WriteFails ==
  /\ \/ pc \in {"header", "write"}
     \/ pc = "job" /\ todo # <<>> /\ Noted(Head(todo))
  /\ Leaves([file EXCEPT !.torn = TRUE])

\* The process is killed; each line was flushed as it was written.
Crash ==
  /\ pc # "idle"
  /\ Leaves(file)

-----------------------------------------------------------------------------
Go == WriteHeader \/ NextPhase \/ Finish \/ Note \/ Begin \/ Reuse \/ Post \/ Retry \/ Write

\* Ten minutes without an answer are a failed post.
Posted == Hear \/ Lose \/ Fail

Next == Start \/ Go \/ Posted \/ Interrupt \/ WriteFails \/ Crash

Spec == Init /\ [][Next]_vars
FairSpec == Spec /\ WF_vars(Go) /\ WF_vars(Posted)

-----------------------------------------------------------------------------
(* What must hold. *)

\* Whatever was stopped, resumed, or changed in the code meanwhile, the file
\* in hand is the account of one run: its lines call for one another from the
\* beginning, each reply was given to the question it stands beside, nothing
\* is asked after an error, and a complete file lacks nothing.
AsOneRun ==
  INSTANCE Transcript WITH lines <- file.lines, complete <- file.complete, code <- sitting.code
ReadsAsOneRun == AsOneRun!Spec

\* "A resumed run asks no question the earlier file answered"
\* (system-stories.sysml): a question that goes out is in no line of this file
\* and has no reply in the resumed one, to the same text; and every post of it
\* after the first follows one that was lost.
AsksOnlyWhatIsMissing ==
  pc = "wait" =>
    /\ \A l \in Range(file.lines) : l.key # AskedKey
    /\ \A l \in previous : l.key = AskedKey => l.text # AskedText
    /\ attempt \in 1..MaxAttempts

\* A sitting comes to an end, whatever the server replies.
SittingEnds == pc # "idle" ~> pc = "idle"

\* Resumed with the code it was written with, a file is taken over whole
\* before the server is asked: an interrupt or a failure, which both come while
\* it is asked, leaves every reply so far in the file they name (main.go:
\* "every reply so far is in").
CarriesOverFirst ==
  pc \in {"wait", "backoff"} /\ sitting.from = sitting.code => previous \subseteq Replies(file)
=============================================================================
