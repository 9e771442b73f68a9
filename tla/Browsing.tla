------------------------------ MODULE Browsing ------------------------------
(***************************************************************************)
(* What the experiment asks a language model (experiments/llm-resolution): *)
(* the browses of a run, and the text of a question.                       *)
(*                                                                         *)
(* A reply to a step is a record of the tool it calls and of what it does  *)
(* to the view; Junk is a reply that is not the step asked for.  A final   *)
(* reply says whether it links a requirement, and cites words.  A text is  *)
(* a record of what it is made of.                                         *)
(***************************************************************************)
EXTENDS Integers, Sequences, SequencesExt

CONSTANTS
  Tests,           \* the tests of the run, in order
  Variants,        \* the browses of the incident: their name, report and model
  Probes,          \* the probes on a sampled test, in order
  Asks(_, _),      \* those that a reply's cited words, and the answers its
                   \* browse was shown, leave something to ask for (probes.go)
  Stride,          \* every which test is sampled (4 in the code)
  BudgetTest,      \* the tool calls of a browse (8 and 20)
  BudgetIncident,
  Junk, None

ASSUME BrowsingAssumption ==
  /\ Tests \in Seq(Range(Tests)) /\ Variants \in Seq(Range(Variants)) /\ Probes \in Seq(Range(Probes))
  /\ IsInjective(Tests) /\ IsInjective(Variants) /\ IsInjective(Probes)
  /\ {"base", "incident", "repeat"} \cap Range(Probes) = {}
  /\ Stride \in Nat \ {0}
  /\ BudgetTest \in Nat /\ BudgetIncident \in Nat

Job(probe, test, variant, base) == [probe |-> probe, test |-> test, variant |-> variant, base |-> base]

EveryOther(s) == [i \in 1..((Len(s) + Stride - 1) \div Stride) |-> s[(i - 1) * Stride + 1]]

TestJobs == [i \in DOMAIN Tests |-> Job("base", Tests[i], None, None)]
IncidentJobs == [i \in DOMAIN Variants |-> Job("incident", None, Variants[i], None)]
RepeatJobs == [i \in DOMAIN EveryOther(Tests) |-> Job("repeat", EveryOther(Tests)[i], None, None)]

\* What a browse ends with, the reply and every answer its tools gave; Unmade
\* while it has not been made.
Browse(reply, shown) == [reply |-> reply, shown |-> shown]
Unmade == Browse(Junk, <<>>)

\* base is the first browse of each test; those with a link are counted, and
\* every Stride-th of them is probed.
Linked(base) == {i \in DOMAIN Tests : base[Tests[i]].reply # Junk /\ base[Tests[i]].reply.links}
Before(i, base) == Cardinality({j \in Linked(base) : j < i})

Sample(base) ==
  [n \in 1..((Cardinality(Linked(base)) + Stride - 1) \div Stride) |->
     Tests[CHOOSE i \in Linked(base) : Before(i, base) = (n - 1) * Stride]]

\* Every probe on a test of the sample before any on the next.
ProbeJobs(base) ==
  LET sample == Sample(base)
  IN  [n \in 1..(Len(sample) * Len(Probes)) |->
         LET test == sample[((n - 1) \div Len(Probes)) + 1]
         IN  Job(Probes[((n - 1) % Len(Probes)) + 1], test, None, base[test])]

\* A probe with nothing to change leaves a note and asks nothing.
Noted(job) == job.probe \in Range(Probes) /\ job.probe \notin Asks(job.base.reply, job.base.shown)

Budget(job) == IF job.probe = "incident" THEN BudgetIncident ELSE BudgetTest

\* A probe's task and what its tools delete hang on the words its base cited,
\* and on which of them, and how many, its tools had shown.
Task(job) ==
  IF job.probe = "incident" THEN job.variant.report
  ELSE IF job.probe \in Range(Probes) THEN <<job.probe, job.test, job.base>> ELSE <<job.test>>

\* What a tool call is answered, from the code as it is and from the model the
\* variant leaves.
ToolAnswer(job, code) ==
  [code |-> code, from |-> IF job.probe = "incident" THEN job.variant.model ELSE Task(job)]

Answer(job, reply, code) ==
  IF reply = Junk \/ reply.tool = "done" THEN reply ELSE ToolAnswer(job, code)

\* Step and FinalQuestion: the task, the view, the calls left and the last call
\* with its answer, and nothing older.
Text(job, left, view, last) == [task |-> Task(job), left |-> left, view |-> view, last |-> last]

\* What a reply does to the view.
Viewed(view, reply) ==
  IF reply = Junk THEN view
  ELSE CASE reply.edit = "expose" -> TRUE [] reply.edit = "prune" -> FALSE [] OTHER -> view

\* The place of a question in a run; 0 stands for the final one.
Key(job, n) == [probe |-> job.probe, test |-> job.test, variant |-> job.variant, n |-> n]

Line(key, text, reply, outcome) == [key |-> key, text |-> text, reply |-> reply, outcome |-> outcome]
=============================================================================
