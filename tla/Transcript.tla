----------------------------- MODULE Transcript -----------------------------
(***************************************************************************)
(* What a results file of the experiment promises whoever reads it: it is  *)
(* the account of one run from its beginning, whatever was stopped and     *)
(* resumed on the way.  The lines alone say which question is next and how *)
(* it reads, and each reply is one the server gave to that very question.  *)
(***************************************************************************)
EXTENDS Browsing

CONSTANT Codes     \* the states of the code the tools may read

VARIABLES
  lines,           \* the questions and replies, in order
  complete,        \* the run went to its end
  code,            \* the code this run reads
  given            \* every reply the server has given, with its question

vars == <<lines, complete, code, given>>

End == Line(None, None, None, "end")

Keys == {l.key : l \in Range(lines)}
ReplyTo(key) == (CHOOSE l \in Range(lines) : l.key = key).reply

\* The steps of a browse so far.
Taken(job) == LET keys == Keys IN Min({n \in 0..Budget(job) : Key(job, n + 1) \notin keys})
Said(job) == [i \in 1..Taken(job) |-> ReplyTo(Key(job, i))]

\* What its tools answer them, as the code is now.
Shown(job, said) == [i \in DOMAIN said |-> Answer(job, said[i], code)]

\* The first browse of each test.
Base ==
  [t \in Range(Tests) |->
     LET job == Job("base", t, None, None)
     IN  IF Key(job, 0) \in Keys THEN Browse(ReplyTo(Key(job, 0)), Shown(job, Said(job))) ELSE Unmade]

\* The browses without an end, of which the first of the first phase is due;
\* the probes are chosen when the tests and the incident are through.
Phases == <<TestJobs, IncidentJobs, ProbeJobs(Base), RepeatJobs>>
Open(jobs) == LET keys == Keys IN {i \in DOMAIN jobs : Key(jobs[i], 0) \notin keys}
Unended == LET phases == Phases IN {k \in 1..4 : Open(phases[k]) # {}}
Due == LET jobs == Phases[Min(Unended)] IN jobs[Min(Open(jobs))]

Edits(reply, how) == reply # Junk /\ reply.edit = how
Exposed(said) ==
  \E i \in DOMAIN said :
    Edits(said[i], "expose") /\ \A j \in DOMAIN said : j > i => ~Edits(said[j], "prune")

Failed == lines # <<>> /\ Last(lines).outcome = "error"

\* The question the lines call for, or a note, or nothing more.
Called ==
  LET job == Due
      n == Taken(job)
      said == Said(job)
      over == n = Budget(job) \/ \E i \in DOMAIN said : said[i] # Junk /\ said[i].tool = "done"
      last == IF n = 0 THEN None ELSE [reply |-> said[n], answer |-> Answer(job, said[n], code)]
  IN  IF Failed \/ Unended = {} THEN End
      ELSE IF Noted(job) THEN Line(Key(job, 0), None, None, "note")
      ELSE Line(Key(job, IF over THEN 0 ELSE n + 1),
                Text(job, IF over THEN 0 ELSE Budget(job) - n, Exposed(said), last),
                None, "reply")

-----------------------------------------------------------------------------
Init == lines = <<>> /\ complete = FALSE /\ code \in Codes /\ given = {}

\* The server may answer anything.
Give ==
  /\ UNCHANGED <<lines, complete, code>>
  /\ \E l \in given' \ given : given' = given \cup {[Called EXCEPT !.reply = l.reply]}
  /\ Called # End

\* A reply is written down, or a note, or that none came.
Add ==
  /\ UNCHANGED <<complete, code, given>>
  /\ lines # lines'
  /\ LET called == Called
         heard == {l \in given : l.key = called.key /\ l.text = called.text}
     IN  /\ called # End
         /\ \E l \in IF called.outcome = "note" THEN {called} ELSE heard \cup {[called EXCEPT !.outcome = "error"]} :
              lines' = Append(lines, l)

Complete ==
  /\ complete' = TRUE
  /\ UNCHANGED <<lines, code, given>>
  /\ Called = End /\ ~Failed

Anew == lines' = <<>> /\ complete' = FALSE /\ code' \in Codes /\ UNCHANGED given

Next == Give \/ Add \/ Complete \/ Anew

Spec == Init /\ [][Next]_vars
=============================================================================
