--------------------------- MODULE CampaignProofs ---------------------------
(* That no question of a run is asked twice, nor asked when the file it      *)
(* resumes answers it, that a file resumed with the code it was written with *)
(* is taken over whole before the server is asked, and that the file in hand *)
(* reads as the account of one run: for any tests, variants, probes, budgets *)
(* and servers, and any number of sittings.                                  *)
EXTENDS Campaign, FiniteSetTheorems, SequenceTheorems, TLAPS

-----------------------------------------------------------------------------
(* The browses of a phase.  Each has a place of its own, by which the lines  *)
(* of the file know it.                                                      *)

Place(x) == [probe |-> x.probe, test |-> x.test, variant |-> x.variant]

Kind == <<{"base"}, {"incident"}, Range(Probes), {"repeat"}>>

Apart(jobs) == \A i, j \in DOMAIN jobs : Place(jobs[i]) = Place(jobs[j]) => i = j

LEMMA KindsDiffer ==
  /\ \A k, m \in 1..4 : k # m => Kind[k] \cap Kind[m] = {}
  /\ "base" \notin Range(Probes)
  BY BrowsingAssumption DEF Kind

\* Of finitely many numbers there is one with n below it.
LEMMA Ranked ==
  ASSUME NEW L, L \subseteq Nat, IsFiniteSet(L), NEW n \in Nat, n < Cardinality(L)
  PROVE  \E i \in L : Cardinality({j \in L : j < i}) = n
<1> DEFINE Low(i) == {j \in L : j < i}
           R == 0..(Cardinality(L) - 1)
           f == [i \in L |-> Cardinality(Low(i))]
<1>1. Cardinality(L) \in Nat /\ Cardinality(L) \in Int /\ Cardinality(L) - 1 \in Int
  BY FS_CardinalityType
<1>2. ASSUME NEW i \in L
      PROVE  IsFiniteSet(Low(i)) /\ Cardinality(Low(i)) \in R
  <2>1. IsFiniteSet(L \ {i}) /\ Cardinality(L \ {i}) = Cardinality(L) - 1
    BY FS_RemoveElement
  <2>2. Low(i) \in SUBSET (L \ {i})
    OBVIOUS
  <2>3. IsFiniteSet(Low(i)) /\ Cardinality(Low(i)) <= Cardinality(L) - 1
    BY <2>1, <2>2, FS_Subset
  <2>4. Cardinality(Low(i)) \in Nat
    BY <2>3, FS_CardinalityType
  <2> QED
    BY <1>1, <2>3, <2>4
<1>3. ASSUME NEW i \in L, NEW k \in L, i < k
      PROVE  Cardinality(Low(i)) < Cardinality(Low(k))
  <2>1. Low(i) \cup {i} \in SUBSET Low(k)
    <3>1. ASSUME NEW j \in L, j < i
          PROVE  j < k
      <4>1. i \in Nat /\ j \in Nat /\ k \in Nat
        OBVIOUS
      <4> QED
        BY <1>3, <3>1, <4>1
    <3> QED
      BY <1>3, <3>1
  <2>2. i \notin Low(i)
    OBVIOUS
  <2>3. IsFiniteSet(Low(i)) /\ IsFiniteSet(Low(k))
    BY <1>2
  <2> HIDE DEF Low
  <2>4. Cardinality(Low(i) \cup {i}) = Cardinality(Low(i)) + 1
    BY <2>2, <2>3, FS_AddElement
  <2>5. Cardinality(Low(i) \cup {i}) <= Cardinality(Low(k))
    BY <2>1, <2>3, FS_Subset
  <2>6. Cardinality(Low(i)) \in Nat /\ Cardinality(Low(k)) \in Nat
    BY <2>3, FS_CardinalityType
  <2> QED
    BY <2>4, <2>5, <2>6
<1> HIDE DEF Low
<1>4. f \in [L -> R] /\ \A i, k \in L : f[i] = f[k] => i = k
  <2>1. f \in [L -> R]
    BY <1>2
  <2>2. ASSUME NEW i \in L, NEW k \in L, i # k
        PROVE  f[i] # f[k]
    <3>1. i < k \/ k < i
      BY <2>2
    <3>2. f[i] \in Nat /\ f[k] \in Nat
      BY <1>2
    <3> QED
      BY <1>3, <3>1, <3>2
  <2> QED
    BY <2>1, <2>2
<1>5. f \in Injection(L, R)
  BY <1>4 DEF Injection, IsInjective
<1>6. IsFiniteSet(R) /\ Cardinality(R) = Cardinality(L)
  <2>1. 0 \in Int
    OBVIOUS
  <2>2. IsFiniteSet(R) /\ Cardinality(R) = IF 0 > Cardinality(L) - 1 THEN 0 ELSE Cardinality(L) - 1 - 0 + 1
    BY <1>1, <2>1, FS_Interval
  <2> QED
    BY <1>1, <2>2
<1> HIDE DEF R, f
<1>7. f \in Surjection(L, R)
  BY <1>5, <1>6, FS_Injection
<1>8. n \in R
  BY <1>1 DEF R
<1>9. PICK i \in L : f[i] = n
  BY <1>7, <1>8 DEF Surjection
<1> QED
  BY <1>9 DEF f, Low

\* A place of two kinds is known by its number.
LEMMA Rows ==
  ASSUME NEW k \in Nat \ {0}, NEW m \in Nat
  PROVE  /\ \A n \in 1..(m * k) : ((n - 1) \div k) + 1 \in 1..m /\ ((n - 1) % k) + 1 \in 1..k
         /\ \A n, l \in 1..(m * k) :
              (n - 1) \div k = (l - 1) \div k /\ (n - 1) % k = (l - 1) % k => n = l
  OBVIOUS

LEMMA Strided ==
  /\ \A i, j \in Nat : i * Stride = j * Stride => i = j
  /\ \A i, n \in Nat : i \in 1..((n + Stride - 1) \div Stride) => (i - 1) * Stride < n
<1>1. Stride \in Nat \ {0}
  BY BrowsingAssumption
<1>2. ASSUME NEW d \in Nat \ {0}, NEW i \in Nat, NEW j \in Nat, i * d = j * d
      PROVE  i = j
  BY <1>2
<1>3. ASSUME NEW d \in Nat \ {0}, NEW i \in Nat, NEW n \in Nat, i \in 1..((n + d - 1) \div d)
      PROVE  (i - 1) * d < n
  BY <1>3
<1> QED
  BY <1>1, <1>2, <1>3

LEMMA JobsAre ==
  /\ TestJobs \in Seq(Range(TestJobs)) /\ IncidentJobs \in Seq(Range(IncidentJobs))
  /\ RepeatJobs \in Seq(Range(RepeatJobs))
  /\ \A i \in DOMAIN TestJobs : TestJobs[i].probe = "base"
  /\ \A i \in DOMAIN IncidentJobs : IncidentJobs[i].probe = "incident"
  /\ \A i \in DOMAIN RepeatJobs : RepeatJobs[i].probe = "repeat"
  /\ Apart(TestJobs) /\ Apart(IncidentJobs) /\ Apart(RepeatJobs)
<1>1. TestJobs \in Seq(Range(TestJobs)) /\ Apart(TestJobs) /\ \A i \in DOMAIN TestJobs : TestJobs[i].probe = "base"
  BY BrowsingAssumption DEF TestJobs, Job, Apart, Place, IsInjective, Range
<1>2. /\ IncidentJobs \in Seq(Range(IncidentJobs)) /\ Apart(IncidentJobs)
      /\ \A i \in DOMAIN IncidentJobs : IncidentJobs[i].probe = "incident"
  BY BrowsingAssumption DEF IncidentJobs, Job, Apart, Place, IsInjective, Range
<1> DEFINE n == (Len(Tests) + Stride - 1) \div Stride
<1>3. Len(Tests) \in Nat /\ Stride \in Nat \ {0} /\ n \in Nat
  BY BrowsingAssumption
<1>4. EveryOther(Tests) = [i \in 1..n |-> Tests[(i - 1) * Stride + 1]]
  BY DEF EveryOther
<1> HIDE DEF n
<1>5. DOMAIN RepeatJobs = 1..n /\ \A i \in 1..n : RepeatJobs[i] = Job("repeat", Tests[(i - 1) * Stride + 1], None, None)
  BY <1>4 DEF RepeatJobs
<1>6. RepeatJobs \in Seq(Range(RepeatJobs))
  <2> DEFINE J(i) == Job("repeat", Tests[(i - 1) * Stride + 1], None, None)
  <2>1. RepeatJobs = [i \in 1..n |-> J(i)]
    BY <1>4 DEF RepeatJobs
  <2> HIDE DEF J
  <2>2. \A i \in 1..n : J(i) \in Range(RepeatJobs)
    BY <2>1 DEF Range
  <2> QED
    BY <1>3, <2>1, <2>2
<1>7. Apart(RepeatJobs)
  <2> SUFFICES ASSUME NEW i \in 1..n, NEW j \in 1..n, Place(RepeatJobs[i]) = Place(RepeatJobs[j])
               PROVE  i = j
    BY <1>5 DEF Apart
  <2>1. Tests[(i - 1) * Stride + 1] = Tests[(j - 1) * Stride + 1]
    BY <1>5 DEF Place, Job
  <2>2. (i - 1) * Stride < Len(Tests) /\ (j - 1) * Stride < Len(Tests)
    BY <1>3, Strided DEF n
  <2>3. \A m \in Nat \ {0} : (i - 1) * m \in Nat /\ (j - 1) * m \in Nat
    BY <1>3
  <2>4. (i - 1) * Stride + 1 \in DOMAIN Tests /\ (j - 1) * Stride + 1 \in DOMAIN Tests
    BY <1>3, <2>2, <2>3, BrowsingAssumption
  <2>5. (i - 1) * Stride + 1 = (j - 1) * Stride + 1
    BY <2>1, <2>4, BrowsingAssumption DEF IsInjective
  <2>6. (i - 1) * Stride = (j - 1) * Stride /\ i - 1 \in Nat /\ j - 1 \in Nat
    BY <1>3, <2>3, <2>5
  <2>7. i - 1 = j - 1
    BY <2>6, Strided
  <2> QED
    BY <1>3, <2>7
<1> QED
  BY <1>1, <1>2, <1>5, <1>6, <1>7 DEF Job

\* The probes of a test are on a test each, and a test is sampled once.
LEMMA SampleIs ==
  ASSUME NEW b
  PROVE  /\ Sample(b) \in Seq(Range(Tests)) /\ Len(Sample(b)) \in Nat
         /\ \A i, j \in DOMAIN Sample(b) : Sample(b)[i] = Sample(b)[j] => i = j
<1> DEFINE L == Linked(b)
           n == (Cardinality(L) + Stride - 1) \div Stride
           Pick(i) == CHOOSE m \in L : Before(m, b) = (i - 1) * Stride
<1>1. L \subseteq DOMAIN Tests /\ DOMAIN Tests = 1..Len(Tests) /\ Len(Tests) \in Nat
  BY BrowsingAssumption DEF Linked
<1>2. L \subseteq Nat /\ IsFiniteSet(L) /\ Cardinality(L) \in Nat
  <2>1. 1 \in Int /\ Len(Tests) \in Int
    BY <1>1
  <2>2. IsFiniteSet(1..Len(Tests))
    BY <2>1, FS_Interval
  <2>3. IsFiniteSet(L)
    BY <1>1, <2>2, FS_Subset
  <2> QED
    BY <1>1, <2>3, FS_CardinalityType
<1>3. Stride \in Nat \ {0} /\ n \in Nat
  BY <1>2, BrowsingAssumption
<1>4. Sample(b) = [i \in 1..n |-> Tests[Pick(i)]]
  BY DEF Sample
<1>5. \A m : Before(m, b) = Cardinality({j \in L : j < m})
  BY DEF Before
<1>6. \A i \in Nat : i \in 1..n => (i - 1) * Stride < Cardinality(L)
  BY <1>2, <1>3, Strided
<1> HIDE DEF n, L
<1>7. ASSUME NEW i \in 1..n
      PROVE  Pick(i) \in L /\ Before(Pick(i), b) = (i - 1) * Stride
  <2>1. i \in Nat \ {0} /\ i - 1 \in Nat
    BY <1>3
  <2>2. (i - 1) * Stride \in Nat
    BY <1>3, <2>1
  <2>3. (i - 1) * Stride < Cardinality(L)
    BY <1>6, <2>1
  <2>4. ASSUME NEW c \in Nat, c < Cardinality(L)
        PROVE  \E m \in L : Before(m, b) = c
    <3>1. \E m \in L : Cardinality({j \in L : j < m}) = c
      BY <1>2, <2>4, Ranked
    <3> QED
      BY <1>5, <3>1
  <2> QED
    BY <2>2, <2>3, <2>4
<1> HIDE DEF Pick
<1>8. \A i \in 1..n : Pick(i) \in DOMAIN Tests
  BY <1>1, <1>7
<1>9. Sample(b) \in Seq(Range(Tests)) /\ DOMAIN Sample(b) = 1..n
  BY <1>3, <1>4, <1>8 DEF Range
<1>10. ASSUME NEW i \in 1..n, NEW j \in 1..n, Sample(b)[i] = Sample(b)[j]
       PROVE  i = j
  <2>1. Pick(i) = Pick(j)
    BY <1>4, <1>8, <1>10, BrowsingAssumption DEF IsInjective
  <2>2. (i - 1) * Stride = (j - 1) * Stride /\ i - 1 \in Nat /\ j - 1 \in Nat
    BY <1>3, <1>7, <2>1
  <2>3. i - 1 = j - 1
    BY <2>2, Strided
  <2> QED
    BY <1>3, <2>3
<1> QED
  BY <1>9, <1>10

LEMMA ProbeJobsAre ==
  ASSUME NEW b
  PROVE  /\ ProbeJobs(b) \in Seq(Range(ProbeJobs(b))) /\ Apart(ProbeJobs(b))
         /\ \A i \in DOMAIN ProbeJobs(b) : ProbeJobs(b)[i].probe \in Range(Probes)
<1> DEFINE s == Sample(b)
           k == Len(Probes)
           m == Len(s)
           T(n) == s[((n - 1) \div k) + 1]
           P(n) == Probes[((n - 1) % k) + 1]
           J(n) == Job(P(n), T(n), None, b[T(n)])
<1>1. ProbeJobs(b) = [n \in 1..(m * k) |-> J(n)]
  BY DEF ProbeJobs
<1>2. k \in Nat /\ m \in Nat /\ DOMAIN Probes = 1..k /\ DOMAIN s = 1..m
  BY BrowsingAssumption, SampleIs
<1>3. \A i, j \in 1..m : s[i] = s[j] => i = j
  BY <1>2, SampleIs
<1> HIDE DEF s, m
<1>4. k = 0 => 1..(m * k) = {}
  BY <1>2
<1>5. ASSUME NEW n \in 1..(m * k)
      PROVE  ((n - 1) \div k) + 1 \in 1..m /\ ((n - 1) % k) + 1 \in 1..k
  BY <1>2, <1>4, Rows
<1>6. ASSUME NEW n \in 1..(m * k), NEW l \in 1..(m * k), T(n) = T(l), P(n) = P(l)
      PROVE  n = l
  <2>1. ((n - 1) \div k) + 1 = ((l - 1) \div k) + 1
    BY <1>3, <1>5, <1>6
  <2>2. ((n - 1) % k) + 1 = ((l - 1) % k) + 1
    BY <1>2, <1>5, <1>6, BrowsingAssumption DEF IsInjective
  <2>3. k \in Nat \ {0}
    BY <1>2, <1>4
  <2>4. (n - 1) \div k \in Int /\ (l - 1) \div k \in Int /\ (n - 1) % k \in Int /\ (l - 1) % k \in Int
    BY <1>2, <2>3
  <2>5. (n - 1) \div k = (l - 1) \div k /\ (n - 1) % k = (l - 1) % k
    BY <2>1, <2>2, <2>4
  <2> QED
    BY <1>2, <2>3, <2>5, Rows
<1>7. \A n \in 1..(m * k) : P(n) \in Range(Probes)
  BY <1>2, <1>5 DEF Range
<1> HIDE DEF T, P
<1>8. \A n : J(n).probe = P(n) /\ J(n).test = T(n)
  BY DEF Job
<1> HIDE DEF J
<1>9. m * k \in Nat
  BY <1>2
<1>10. ProbeJobs(b) \in Seq(Range(ProbeJobs(b)))
  <2>1. \A n \in 1..(m * k) : J(n) \in Range(ProbeJobs(b))
    BY <1>1 DEF Range
  <2> QED
    BY <1>1, <1>9, <2>1
<1>11. Apart(ProbeJobs(b))
  BY <1>1, <1>6, <1>8 DEF Apart, Place
<1> QED
  BY <1>1, <1>7, <1>8, <1>10, <1>11

\* The browses of phase k.
Jobs(k, b) == <<TestJobs, IncidentJobs, ProbeJobs(b), RepeatJobs>>[k]

LEMMA PhaseJobs ==
  ASSUME NEW k \in 1..4, NEW b
  PROVE  /\ Jobs(k, b) \in Seq(Range(Jobs(k, b))) /\ Apart(Jobs(k, b))
         /\ \A i \in DOMAIN Jobs(k, b) : Jobs(k, b)[i].probe \in Kind[k]
<1>1. CASE k = 1
  BY <1>1, JobsAre DEF Jobs, Kind
<1>2. CASE k = 2
  BY <1>2, JobsAre DEF Jobs, Kind
<1>3. CASE k = 3
  BY <1>3, ProbeJobsAre DEF Jobs, Kind
<1>4. CASE k = 4
  BY <1>4, JobsAre DEF Jobs, Kind
<1> QED
  BY <1>1, <1>2, <1>3, <1>4

-----------------------------------------------------------------------------
(* The inductive invariant: what has been asked. *)

LinesApart(lines) == \A i, j \in DOMAIN lines : lines[i].key = lines[j].key => i = j

FileOK(f) ==
  /\ DOMAIN f = {"inputs", "code", "lines", "torn", "complete"}
  /\ f.lines \in Seq(Range(f.lines))
  /\ LinesApart(f.lines)

Underway == pc \in {"ask", "wait", "backoff", "write"}

\* A sitting that has written no header has done nothing.
Ordered ==
  /\ pc \in {"idle", "header", "job", "ask", "wait", "backoff", "write"}
  /\ phase \in 0..4
  /\ todo \in Seq(Range(todo)) /\ Apart(todo)
  /\ \A i \in DOMAIN todo : phase # 0 /\ todo[i].probe \in Kind[phase]
  /\ FileOK(file)
  /\ pc \in {"idle", "header"} =>
       phase = 0 /\ todo = <<>> /\ browse = NoBrowse /\ base = [t \in Range(Tests) |-> Unmade]
  /\ pc = "header" => file = NoFile

\* A line is of this phase or an earlier one, and of no browse still to make.
Told ==
  pc # "idle" =>
    \A l \in Range(file.lines) :
      /\ \E k \in 1..phase : l.key.probe \in Kind[k]
      /\ \A i \in DOMAIN todo : Place(l.key) # Place(todo[i])

\* The lines of the browse under way are of its steps so far.
Stepping ==
  Underway =>
    /\ phase # 0 /\ browse.job.probe \in Kind[phase] /\ browse.n \in Nat \ {0}
    /\ DOMAIN browse = {"job", "n", "view", "last", "shown", "done"}
    /\ \A i \in DOMAIN todo : Place(browse.job) # Place(todo[i])
    /\ \A l \in Range(file.lines) : Place(l.key) = Place(browse.job) => l.key.n \in 1..(browse.n - 1)

Trying ==
  /\ pc \in {"wait", "backoff"} => attempt \in 1..MaxAttempts /\ Reused = {}
  /\ pc = "backoff" => attempt < MaxAttempts

AskInv == Ordered /\ Told /\ Stepping /\ Trying

-----------------------------------------------------------------------------
(* It is kept. *)

LEMMA AppendIs ==
  ASSUME NEW s, s \in Seq(Range(s)), NEW e
  PROVE  /\ Append(s, e) \in Seq(Range(Append(s, e)))
         /\ Range(Append(s, e)) = Range(s) \cup {e}
         /\ Len(s) \in Nat /\ Len(Append(s, e)) = Len(s) + 1
         /\ Append(s, e)[Len(s) + 1] = e
         /\ \A i \in 1..Len(s) : Append(s, e)[i] = s[i]
<1> DEFINE t == Append(s, e)
<1>1. t \in Seq(Range(s) \cup {e}) /\ Len(s) \in Nat /\ Len(t) = Len(s) + 1
  OBVIOUS
<1>2. t[Len(s) + 1] = e /\ \A i \in 1..Len(s) : t[i] = s[i]
  OBVIOUS
<1>3. DOMAIN t = 1..(Len(s) + 1) /\ DOMAIN s = 1..Len(s)
  BY <1>1
<1> HIDE DEF t
<1>4. Range(t) = Range(s) \cup {e}
  BY <1>1, <1>2, <1>3 DEF Range
<1> QED
  BY <1>1, <1>2, <1>4 DEF t

LEMMA TailIs ==
  ASSUME NEW s, s \in Seq(Range(s)), s # <<>>
  PROVE  /\ Tail(s) \in Seq(Range(Tail(s)))
         /\ Len(s) \in Nat \ {0} /\ DOMAIN s = 1..Len(s) /\ Head(s) = s[1]
         /\ DOMAIN Tail(s) = 1..(Len(s) - 1)
         /\ \A i \in 1..(Len(s) - 1) : Tail(s)[i] = s[i + 1]
<1> DEFINE t == Tail(s)
<1>1. t \in Seq(Range(s)) /\ Len(s) \in Nat \ {0} /\ Len(t) = Len(s) - 1
  OBVIOUS
<1>2. DOMAIN t = 1..(Len(s) - 1) /\ \A i \in 1..(Len(s) - 1) : t[i] = s[i + 1]
  OBVIOUS
<1> HIDE DEF t
<1>3. t \in Seq(Range(t))
  <2>1. \A i \in 1..Len(t) : t[i] \in Range(t)
    BY <1>1, <1>2 DEF Range
  <2> QED
    BY <1>1, <2>1
<1> QED
  BY <1>1, <1>2, <1>3 DEF t

\* What is left of the browses to make, after the first.
LEMMA RestIs ==
  ASSUME NEW s, s \in Seq(Range(s)), s # <<>>, Apart(s)
  PROVE  /\ Tail(s) \in Seq(Range(Tail(s))) /\ Apart(Tail(s))
         /\ \A i \in DOMAIN Tail(s) : \E j \in DOMAIN s : Tail(s)[i] = s[j]
         /\ 1 \in DOMAIN s /\ Head(s) = s[1]
         /\ \A i \in DOMAIN Tail(s) : Place(Head(s)) # Place(Tail(s)[i])
<1>1. /\ Len(s) \in Nat \ {0} /\ DOMAIN s = 1..Len(s) /\ Head(s) = s[1]
      /\ DOMAIN Tail(s) = 1..(Len(s) - 1) /\ \A i \in 1..(Len(s) - 1) : Tail(s)[i] = s[i + 1]
      /\ Tail(s) \in Seq(Range(Tail(s)))
  BY TailIs
<1>2. \A i \in 1..(Len(s) - 1) : i + 1 \in 1..Len(s) /\ i + 1 # 1
  BY <1>1
<1>3. Apart(Tail(s))
  BY <1>1, <1>2 DEF Apart
<1> QED
  BY <1>1, <1>2, <1>3 DEF Apart

LEMMA LineAdded ==
  ASSUME NEW f, FileOK(f), NEW l, \A m \in Range(f.lines) : m.key # l.key
  PROVE  /\ FileOK([f EXCEPT !.lines = Append(@, l)])
         /\ [f EXCEPT !.lines = Append(@, l)].lines = Append(f.lines, l)
         /\ Range(Append(f.lines, l)) = Range(f.lines) \cup {l}
<1> DEFINE s == f.lines
           t == Append(s, l)
<1>1. s \in Seq(Range(s)) /\ LinesApart(s) /\ DOMAIN f = {"inputs", "code", "lines", "torn", "complete"}
  BY DEF FileOK
<1>2. [f EXCEPT !.lines = Append(@, l)] = [f EXCEPT !.lines = t]
  OBVIOUS
<1>3. /\ t \in Seq(Range(t)) /\ Range(t) = Range(s) \cup {l}
      /\ Len(s) \in Nat /\ Len(t) = Len(s) + 1 /\ t[Len(s) + 1] = l
      /\ \A i \in 1..Len(s) : t[i] = s[i]
  BY <1>1, AppendIs
<1>4. DOMAIN t = 1..(Len(s) + 1) /\ DOMAIN s = 1..Len(s)
  BY <1>1, <1>3
<1> HIDE DEF t
<1>5. \A m \in Range(s) : m.key # l.key
  OBVIOUS
<1> HIDE DEF s
<1>6. \A i \in 1..Len(s) : s[i] \in Range(s)
  BY <1>4 DEF Range
<1>7. LinesApart(t)
  <2> SUFFICES ASSUME NEW i \in 1..(Len(s) + 1), NEW j \in 1..(Len(s) + 1), t[i].key = t[j].key
               PROVE  i = j
    BY <1>4 DEF LinesApart
  <2>1. CASE i \in 1..Len(s) /\ j \in 1..Len(s)
    BY <1>1, <1>3, <1>4, <2>1 DEF LinesApart
  <2>2. CASE i \in 1..Len(s) /\ j = Len(s) + 1
    BY <1>3, <1>5, <1>6, <2>2
  <2>3. CASE i = Len(s) + 1 /\ j \in 1..Len(s)
    BY <1>3, <1>5, <1>6, <2>3
  <2>4. CASE i = Len(s) + 1 /\ j = Len(s) + 1
    BY <2>4
  <2> QED
    BY <1>3, <2>1, <2>2, <2>3, <2>4
<1>8. [f EXCEPT !.lines = t].lines = t /\ DOMAIN [f EXCEPT !.lines = t] = DOMAIN f
  BY <1>1
<1> QED
  BY <1>1, <1>2, <1>3, <1>7, <1>8 DEF FileOK, s, t

LEMMA FileStays ==
  ASSUME NEW f, FileOK(f)
  PROVE  /\ FileOK([f EXCEPT !.torn = TRUE]) /\ [f EXCEPT !.torn = TRUE].lines = f.lines
         /\ FileOK([f EXCEPT !.complete = TRUE]) /\ [f EXCEPT !.complete = TRUE].lines = f.lines
         /\ [f EXCEPT !.torn = TRUE].code = f.code /\ [f EXCEPT !.complete = TRUE].code = f.code
  BY DEF FileOK

LEMMA NoFileOK == FileOK(NoFile) /\ NoFile.lines = <<>> /\ NoFile.code = None
<1>1. <<>> \in Seq(Range(<<>>)) /\ LinesApart(<<>>)
  BY DEF LinesApart
<1> QED
  BY <1>1 DEF FileOK, NoFile

\* What is asked next stands in no line.
LEMMA AskedAnew ==
  ASSUME Ordered, Told, Stepping, Underway
  PROVE  /\ \A l \in Range(file.lines) : l.key # AskedKey
         /\ Place(AskedKey) = Place(browse.job)
         /\ AskedKey.probe = browse.job.probe
         /\ ~Final => AskedKey.n = browse.n
<1>1. /\ AskedKey.n = IF Final THEN 0 ELSE browse.n
      /\ Place(AskedKey) = Place(browse.job) /\ AskedKey.probe = browse.job.probe
  BY DEF AskedKey, Key, Place
<1>2. ASSUME NEW l \in Range(file.lines), l.key = AskedKey
      PROVE  FALSE
  <2>1. l.key.n \in 1..(browse.n - 1) /\ browse.n \in Nat \ {0}
    BY <1>1, <1>2 DEF Stepping
  <2>2. l.key.n = 0 \/ l.key.n = browse.n
    BY <1>1, <1>2
  <2> QED
    BY <2>1, <2>2
<1> QED
  BY <1>1, <1>2

LEMMA InitAsk == Init => AskInv
<1> SUFFICES ASSUME Init PROVE AskInv
  OBVIOUS
<1>1. <<>> \in Seq(Range(<<>>)) /\ Apart(<<>>)
  BY DEF Apart
<1> QED
  BY <1>1, NoFileOK DEF Init, AskInv, Ordered, Told, Stepping, Trying, Underway

LEMMA LeavesAsk ==
  ASSUME NEW f, FileOK(f), Leaves(f)
  PROVE  AskInv'
<1>1. /\ file' = f /\ pc' = "idle" /\ phase' = 0 /\ todo' = <<>> /\ browse' = NoBrowse
      /\ base' = [t \in Range(Tests) |-> Unmade]
  BY DEF Leaves, Forgets
<1>2. <<>> \in Seq(Range(<<>>)) /\ Apart(<<>>)
  BY DEF Apart
<1>3. Ordered'
  BY <1>1, <1>2 DEF Ordered
<1> QED
  BY <1>1, <1>3 DEF AskInv, Told, Stepping, Trying, Underway

\* Nothing has moved that the lines are compared with.
LEMMA NothingMoved ==
  ASSUME AskInv, UNCHANGED <<sitting, previous, phase, todo, base, browse, file>>,
         Underway, Underway', Trying'
  PROVE  AskInv'
<1>1. Ordered'
  BY DEF AskInv, Ordered, Underway, Apart, FileOK, LinesApart
<1>2. Told'
  BY DEF AskInv, Told, Underway
<1>3. Stepping'
  BY DEF AskInv, Stepping
<1> QED
  BY <1>1, <1>2, <1>3 DEF AskInv

LEMMA StartAsk ==
  ASSUME AskInv, Start
  PROVE  AskInv'
<1>1. /\ pc' = "header" /\ file' = NoFile /\ UNCHANGED <<phase, todo, base, browse>> /\ pc = "idle"
  BY DEF Start, working
<1>2. Ordered'
  BY <1>1, NoFileOK DEF AskInv, Ordered, Apart
<1>3. Told'
  BY <1>1, NoFileOK DEF Told, Range
<1> QED
  BY <1>1, <1>2, <1>3 DEF AskInv, Stepping, Trying, Underway

LEMMA HeaderAsk ==
  ASSUME AskInv, WriteHeader
  PROVE  AskInv'
<1>0. /\ pc = "header" /\ pc' = "job" /\ UNCHANGED <<phase, todo, base, browse>> /\ file = NoFile
      /\ file' = [file EXCEPT !.inputs = sitting.inputs, !.code = sitting.code]
  BY DEF WriteHeader, working, AskInv, Ordered
<1>1. FileOK(file') /\ file'.lines = <<>>
  <2>1. FileOK(file) /\ file.lines = <<>>
    BY <1>0, NoFileOK
  <2>2. DOMAIN file' = DOMAIN file /\ file'.lines = file.lines
    BY <1>0, <2>1 DEF FileOK
  <2> QED
    BY <2>1, <2>2 DEF FileOK
<1>2. Ordered'
  BY <1>0, <1>1 DEF AskInv, Ordered, Apart
<1>3. Told'
  BY <1>0, <1>1 DEF Told, Range
<1> QED
  BY <1>0, <1>2, <1>3 DEF AskInv, Stepping, Trying, Underway

LEMMA NextPhaseAsk ==
  ASSUME AskInv, NextPhase
  PROVE  AskInv'
<1>1. /\ pc = "job" /\ pc' = pc /\ phase < 4 /\ phase' = phase + 1 /\ phase \in 0..4
      /\ todo' = <<TestJobs, IncidentJobs, ProbeJobs(base), RepeatJobs>>[phase'] /\ file' = file
  BY DEF NextPhase, AskInv, Ordered
<1>2. phase' \in 1..4 /\ todo' = Jobs(phase', base)
  BY <1>1 DEF Jobs
<1>3. /\ todo' \in Seq(Range(todo')) /\ Apart(todo')
      /\ \A i \in DOMAIN todo' : todo'[i].probe \in Kind[phase']
  BY <1>2, PhaseJobs
<1>4. Ordered'
  BY <1>1, <1>2, <1>3 DEF AskInv, Ordered
<1>5. Told'
  <2> SUFFICES ASSUME NEW l \in Range(file.lines)
               PROVE  /\ \E k \in 1..phase' : l.key.probe \in Kind[k]
                      /\ \A i \in DOMAIN todo' : Place(l.key) # Place(todo'[i])
    BY <1>1 DEF Told
  <2>1. PICK k \in 1..phase : l.key.probe \in Kind[k]
    BY <1>1 DEF AskInv, Told
  <2>2. k \in 1..phase' /\ k \in 1..4 /\ k # phase'
    BY <1>1
  <2>3. ASSUME NEW i \in DOMAIN todo', Place(l.key) = Place(todo'[i])
        PROVE  FALSE
    <3>1. l.key.probe = todo'[i].probe
      BY <2>3 DEF Place
    <3> QED
      BY <1>2, <1>3, <2>1, <2>2, <3>1, KindsDiffer
  <2> QED
    BY <2>1, <2>2, <2>3
<1> QED
  BY <1>1, <1>4, <1>5 DEF AskInv, Stepping, Trying, Underway

LEMMA NoteAsk ==
  ASSUME AskInv, Note
  PROVE  AskInv'
<1> DEFINE job == Head(todo)
           l == Line(Key(job, 0), None, None, "note")
<1>1. /\ pc = "job" /\ pc' = pc /\ todo # <<>> /\ todo' = Tail(todo) /\ UNCHANGED <<phase, base, browse>>
      /\ file' = [file EXCEPT !.lines = Append(@, l)]
      /\ todo \in Seq(Range(todo)) /\ Apart(todo) /\ FileOK(file) /\ phase \in 0..4
  BY DEF Note, AskInv, Ordered
<1>2. /\ Tail(todo) \in Seq(Range(Tail(todo))) /\ Apart(Tail(todo))
      /\ \A i \in DOMAIN Tail(todo) : \E j \in DOMAIN todo : Tail(todo)[i] = todo[j]
      /\ 1 \in DOMAIN todo /\ job = todo[1]
      /\ \A i \in DOMAIN Tail(todo) : Place(job) # Place(Tail(todo)[i])
  BY <1>1, RestIs
<1>3. Place(l.key) = Place(job) /\ l.key.probe = job.probe
  BY DEF Line, Key, Place
<1> HIDE DEF l, job
<1>4. phase \in 1..4 /\ job.probe \in Kind[phase]
  BY <1>1, <1>2 DEF AskInv, Ordered
<1>5. \A m \in Range(file.lines) : m.key # l.key
  BY <1>1, <1>2, <1>3 DEF AskInv, Told, Place
<1>6. FileOK(file') /\ Range(file'.lines) = Range(file.lines) \cup {l}
  BY <1>1, <1>5, LineAdded
<1>7. Ordered'
  BY <1>1, <1>2, <1>4, <1>6 DEF AskInv, Ordered
<1>8. Told'
  <2> SUFFICES ASSUME NEW m \in Range(file.lines) \cup {l}
               PROVE  /\ \E k \in 1..phase : m.key.probe \in Kind[k]
                      /\ \A i \in DOMAIN Tail(todo) : Place(m.key) # Place(Tail(todo)[i])
    BY <1>1, <1>6 DEF Told
  <2>1. CASE m = l
    <3>1. phase \in 1..phase /\ m.key.probe \in Kind[phase]
      BY <1>3, <1>4, <2>1
    <3> QED
      BY <1>2, <1>3, <2>1, <3>1
  <2>2. CASE m \in Range(file.lines)
    BY <1>1, <1>2, <2>2 DEF AskInv, Told
  <2> QED
    BY <2>1, <2>2
<1> QED
  BY <1>1, <1>7, <1>8 DEF AskInv, Stepping, Trying, Underway

LEMMA BeginAsk ==
  ASSUME AskInv, Begin
  PROVE  AskInv'
<1> DEFINE job == Head(todo)
<1>1. /\ pc = "job" /\ pc' = "ask" /\ todo # <<>> /\ todo' = Tail(todo) /\ UNCHANGED <<phase, base, file>>
      /\ browse' = [NoBrowse EXCEPT !.job = job]
      /\ todo \in Seq(Range(todo)) /\ Apart(todo) /\ phase \in 0..4
  BY DEF Begin, AskInv, Ordered
<1>2. /\ Tail(todo) \in Seq(Range(Tail(todo))) /\ Apart(Tail(todo))
      /\ \A i \in DOMAIN Tail(todo) : \E j \in DOMAIN todo : Tail(todo)[i] = todo[j]
      /\ 1 \in DOMAIN todo /\ job = todo[1]
      /\ \A i \in DOMAIN Tail(todo) : Place(job) # Place(Tail(todo)[i])
  BY <1>1, RestIs
<1>3. browse'.job = job /\ browse'.n = 1 /\ DOMAIN browse' = {"job", "n", "view", "last", "shown", "done"}
  BY <1>1 DEF NoBrowse
<1> HIDE DEF job
<1>4. phase # 0 /\ job.probe \in Kind[phase]
  BY <1>1, <1>2 DEF AskInv, Ordered
<1>5. \A m \in Range(file.lines) : Place(m.key) # Place(job)
  BY <1>1, <1>2 DEF AskInv, Told
<1>6. Ordered'
  BY <1>1, <1>2 DEF AskInv, Ordered, FileOK, LinesApart
<1>7. Told'
  BY <1>1, <1>2 DEF AskInv, Told
<1>8. Stepping'
  BY <1>1, <1>2, <1>3, <1>4, <1>5 DEF Stepping
<1> QED
  BY <1>1, <1>6, <1>7, <1>8 DEF AskInv, Trying

LEMMA WriteAsk ==
  ASSUME AskInv, Write
  PROVE  AskInv'
<1> DEFINE l == Line(AskedKey, AskedText, got, "reply")
<1>1. /\ pc = "write" /\ file' = [file EXCEPT !.lines = Append(@, l)] /\ UNCHANGED <<phase, todo>>
      /\ IF Final THEN browse' = NoBrowse /\ pc' = "job"
                  ELSE browse' = Step(browse) /\ pc' = "ask" /\ base' = base
      /\ FileOK(file) /\ phase \in 0..4
  BY DEF Write, AskInv, Ordered
<1>2. l.key = AskedKey
  BY DEF Line
<1> HIDE DEF l
<1>3. /\ \A m \in Range(file.lines) : m.key # l.key
      /\ Place(l.key) = Place(browse.job) /\ l.key.probe = browse.job.probe
      /\ ~Final => l.key.n = browse.n
  BY <1>1, <1>2, AskedAnew DEF AskInv, Underway
<1>4. FileOK(file') /\ Range(file'.lines) = Range(file.lines) \cup {l}
  BY <1>1, <1>3, LineAdded
<1>5. /\ phase # 0 /\ browse.job.probe \in Kind[phase] /\ browse.n \in Nat \ {0}
      /\ DOMAIN browse = {"job", "n", "view", "last", "shown", "done"}
      /\ \A i \in DOMAIN todo : Place(browse.job) # Place(todo[i])
      /\ \A m \in Range(file.lines) : Place(m.key) = Place(browse.job) => m.key.n \in 1..(browse.n - 1)
  BY <1>1 DEF AskInv, Stepping, Underway
<1>6. Ordered'
  BY <1>1, <1>4 DEF AskInv, Ordered, Apart
<1>7. Told'
  <2> SUFFICES ASSUME NEW m \in Range(file.lines) \cup {l}
               PROVE  /\ \E k \in 1..phase : m.key.probe \in Kind[k]
                      /\ \A i \in DOMAIN todo : Place(m.key) # Place(todo[i])
    BY <1>1, <1>4 DEF Told
  <2>1. CASE m = l
    <3>1. phase \in 1..phase
      BY <1>1, <1>5
    <3> QED
      BY <1>3, <1>5, <2>1, <3>1
  <2>2. CASE m \in Range(file.lines)
    BY <1>1, <2>2 DEF AskInv, Told
  <2> QED
    BY <2>1, <2>2
<1>8. Stepping'
  <2>1. CASE Final
    BY <1>1, <2>1 DEF Stepping, Underway
  <2>2. CASE ~Final
    <3>1. /\ browse'.job = browse.job /\ browse'.n = browse.n + 1
          /\ DOMAIN browse' = {"job", "n", "view", "last", "shown", "done"}
      BY <1>1, <1>5, <2>2 DEF Step
    <3>2. ASSUME NEW m \in Range(file.lines) \cup {l}, Place(m.key) = Place(browse.job)
          PROVE  m.key.n \in 1..(browse.n + 1 - 1)
      <4>1. CASE m = l
        BY <1>3, <1>5, <2>2, <4>1
      <4>2. CASE m \in Range(file.lines)
        <5>1. m.key.n \in 1..(browse.n - 1)
          BY <1>5, <3>2, <4>2
        <5> QED
          BY <1>5, <5>1
      <4> QED
        BY <4>1, <4>2
    <3> QED
      BY <1>1, <1>4, <1>5, <3>1, <3>2 DEF Stepping
  <2> QED
    BY <2>1, <2>2
<1> QED
  BY <1>1, <1>6, <1>7, <1>8 DEF AskInv, Trying
LEMMA FinishAsk ==
  ASSUME AskInv, Finish
  PROVE  AskInv'
<1>1. /\ FileOK(file)
      /\ \/ Leaves([file EXCEPT !.complete = TRUE])
         \/ Leaves([file EXCEPT !.torn = TRUE])
         \/ Leaves(file)
  BY DEF Finish, AskInv, Ordered
<1> QED
  BY <1>1, FileStays, LeavesAsk

LEMMA ReuseAsk ==
  ASSUME AskInv, Reuse
  PROVE  AskInv'
<1>1. UNCHANGED <<sitting, previous, phase, todo, base, browse, file>> /\ pc = "ask" /\ pc' = "write"
  BY DEF Reuse, working, kept
<1> QED
  BY <1>1, NothingMoved DEF Underway, Trying

LEMMA WaitAsk ==
  ASSUME AskInv, Post \/ Hear \/ Lose \/ Retry
  PROVE  AskInv'
<1>1. /\ UNCHANGED <<sitting, previous, phase, todo, base, browse, file>>
      /\ pc \in {"ask", "wait", "backoff"} /\ pc' \in {"wait", "backoff", "write"}
  BY DEF Post, Hear, Lose, Retry, working, kept, asking
<1>2. Reused' = Reused
  BY <1>1 DEF Reused, Answered, AskedKey, AskedText, Final
<1>3. Trying'
  <2>1. CASE Post
    BY <1>2, <2>1, CampaignAssumption DEF Post, Trying
  <2>2. CASE Hear
    BY <2>2 DEF Hear, Trying
  <2>3. CASE Lose
    BY <1>2, <2>3 DEF Lose, Trying, AskInv, asking
  <2>4. CASE Retry
    <3>1. attempt \in 1..MaxAttempts /\ attempt < MaxAttempts /\ attempt' = attempt + 1 /\ Reused = {}
      BY <2>4 DEF Retry, Trying, AskInv
    <3>2. attempt' \in 1..MaxAttempts
      BY <3>1, CampaignAssumption
    <3> QED
      BY <1>2, <2>4, <3>1, <3>2 DEF Retry, Trying
  <2> QED
    BY <2>1, <2>2, <2>3, <2>4
<1> QED
  BY <1>1, <1>3, NothingMoved DEF Underway

LEMMA StopsAsk ==
  ASSUME AskInv, Fail \/ Interrupt \/ WriteFails \/ Crash
  PROVE  AskInv'
<1>1. FileOK(file)
  BY DEF AskInv, Ordered
<1>2. CASE Fail
  <2> DEFINE l == Line(AskedKey, AskedText, None, "error")
  <2>1. CASE Leaves([file EXCEPT !.lines = Append(@, l)])
    <3>1. l.key = AskedKey
      BY DEF Line
    <3>2. \A m \in Range(file.lines) : m.key # AskedKey
      BY <1>2, AskedAnew DEF Fail, AskInv, Underway
    <3> HIDE DEF l
    <3>3. FileOK([file EXCEPT !.lines = Append(@, l)])
      BY <1>1, <3>1, <3>2, LineAdded
    <3> QED
      BY <2>1, <3>3, LeavesAsk
  <2>2. CASE Leaves([file EXCEPT !.torn = TRUE])
    BY <1>1, <2>2, FileStays, LeavesAsk
  <2> QED
    BY <1>2, <2>1, <2>2 DEF Fail
<1>3. CASE Interrupt
  BY <1>1, <1>3, LeavesAsk DEF Interrupt
<1>4. CASE WriteFails
  BY <1>1, <1>4, FileStays, LeavesAsk DEF WriteFails
<1>5. CASE Crash
  BY <1>1, <1>5, LeavesAsk DEF Crash
<1> QED
  BY <1>2, <1>3, <1>4, <1>5

LEMMA NextAsk == AskInv /\ [Next]_vars => AskInv'
<1> SUFFICES ASSUME AskInv, [Next]_vars PROVE AskInv'
  OBVIOUS
<1>1. CASE Start
  BY <1>1, StartAsk
<1>2. CASE WriteHeader
  BY <1>2, HeaderAsk
<1>3. CASE NextPhase
  BY <1>3, NextPhaseAsk
<1>4. CASE Finish
  BY <1>4, FinishAsk
<1>5. CASE Note
  BY <1>5, NoteAsk
<1>6. CASE Begin
  BY <1>6, BeginAsk
<1>7. CASE Reuse
  BY <1>7, ReuseAsk
<1>8. CASE Post \/ Hear \/ Lose \/ Retry
  BY <1>8, WaitAsk
<1>9. CASE Write
  BY <1>9, WriteAsk
<1>10. CASE Fail \/ Interrupt \/ WriteFails \/ Crash
  BY <1>10, StopsAsk
<1>11. CASE UNCHANGED vars
  <2>1. UNCHANGED <<pc, sitting, previous, phase, todo, base, browse, attempt, file>>
    BY <1>11 DEF vars, working, asking, kept
  <2>2. Reused' = Reused
    BY <2>1 DEF Reused, Answered, AskedKey, AskedText, Final
  <2>3. Ordered'
    BY <2>1 DEF AskInv, Ordered, Apart, FileOK, LinesApart
  <2>4. Told' /\ Stepping' /\ Trying'
    BY <2>1, <2>2 DEF AskInv, Told, Stepping, Trying, Underway
  <2> QED
    BY <2>3, <2>4 DEF AskInv
<1> QED
  BY <1>1, <1>2, <1>3, <1>4, <1>5, <1>6, <1>7, <1>8, <1>9, <1>10, <1>11 DEF Next, Go, Posted

LEMMA SpecAsk == Spec => []AskInv
  BY InitAsk, NextAsk, PTL DEF Spec

\* A question goes out only when no line of the file is its answer and the file
\* resumed holds no reply to the same text, and at most MaxAttempts times.
THEOREM AsksNothingTwice == Spec => []AsksOnlyWhatIsMissing
<1>1. AskInv => AsksOnlyWhatIsMissing
  <2> SUFFICES ASSUME AskInv, pc = "wait"
               PROVE  /\ \A l \in Range(file.lines) : l.key # AskedKey
                      /\ \A l \in previous : l.key = AskedKey => l.text # AskedText
                      /\ attempt \in 1..MaxAttempts
    BY DEF AsksOnlyWhatIsMissing
  <2>1. \A l \in Range(file.lines) : l.key # AskedKey
    BY AskedAnew DEF AskInv, Underway
  <2>2. Reused = {} /\ attempt \in 1..MaxAttempts
    BY DEF AskInv, Trying
  <2> QED
    BY <2>1, <2>2 DEF Reused, Answered
<1> QED
  BY <1>1, SpecAsk, PTL
-----------------------------------------------------------------------------
(* A run as it is told: the states of the runner, one line after another,    *)
(* each the successor of the one before it.  What comes next is settled by   *)
(* the state, and where a question is put, by the reply and the code.        *)

Now == [phase |-> phase, todo |-> todo, base |-> base, browse |-> browse, lines |-> file.lines,
        at |-> IF pc \in {"header", "job"} THEN "job" ELSE "ask"]

AtFirst == [phase |-> 0, todo |-> <<>>, base |-> [t \in Range(Tests) |-> Unmade], browse |-> NoBrowse,
            lines |-> <<>>, at |-> "job"]

FinalIn(w) == w.browse.done \/ w.browse.n > Budget(w.browse.job)
KeyIn(w) == Key(w.browse.job, IF FinalIn(w) THEN 0 ELSE w.browse.n)
TextIn(w) ==
  Text(w.browse.job, IF FinalIn(w) THEN 0 ELSE Budget(w.browse.job) - w.browse.n + 1, w.browse.view, w.browse.last)
LineIn(w, g) == Line(KeyIn(w), TextIn(w), g, "reply")

StepIn(b, g, code) ==
  [b EXCEPT !.n = @ + 1, !.view = Viewed(@, g),
            !.last = [reply |-> g, answer |-> Answer(b.job, g, code)],
            !.shown = Append(@, Answer(b.job, g, code)),
            !.done = g # Junk /\ g.tool = "done"]

\* After the reply g to the question of w.
Written(w, g, code) ==
  [phase |-> w.phase, todo |-> w.todo,
   base |-> IF FinalIn(w) /\ w.browse.job.probe = "base"
            THEN [w.base EXCEPT ![w.browse.job.test] = Browse(g, w.browse.shown)] ELSE w.base,
   browse |-> IF FinalIn(w) THEN NoBrowse ELSE StepIn(w.browse, g, code),
   lines |-> Append(w.lines, LineIn(w, g)),
   at |-> IF FinalIn(w) THEN "job" ELSE "ask"]

\* Between two browses.
After(w) ==
  IF w.todo = <<>>
  THEN [phase |-> w.phase + 1, todo |-> Jobs(w.phase + 1, w.base), base |-> w.base, browse |-> w.browse,
        lines |-> w.lines, at |-> "job"]
  ELSE IF Noted(Head(w.todo))
  THEN [phase |-> w.phase, todo |-> Tail(w.todo), base |-> w.base, browse |-> w.browse,
        lines |-> Append(w.lines, Line(Key(Head(w.todo), 0), None, None, "note")), at |-> "job"]
  ELSE [phase |-> w.phase, todo |-> Tail(w.todo), base |-> w.base,
        browse |-> [NoBrowse EXCEPT !.job = Head(w.todo)], lines |-> w.lines, at |-> "ask"]

Move(w, x, code) ==
  IF w.at = "job" THEN (w.todo # <<>> \/ w.phase < 4) /\ x = After(w) ELSE \E g : x = Written(w, g, code)

Telling(t, code) ==
  /\ t \in Seq(Range(t)) /\ Len(t) \in Nat \ {0}
  /\ t[1] = AtFirst
  /\ \A i \in 1..(Len(t) - 1) : Move(t[i], t[i + 1], code)
  /\ \A i, j \in 1..Len(t) : i <= j => Range(t[i].lines) \subseteq Range(t[j].lines)

TheLines(t) == t[Len(t)].lines

\* A file holds what was told, and perhaps the error it ended with.
Holds(f, lines) == f.lines = lines \/ \E l : l.outcome = "error" /\ f.lines = Append(lines, l)

OnRecord(f) ==
  \E t : /\ Telling(t, f.code) /\ TheLines(t) \in Seq(Range(TheLines(t))) /\ LinesApart(TheLines(t))
         /\ Holds(f, TheLines(t))

\* The run in hand has a telling, and so has each file of an earlier one.
Traced ==
  /\ pc # "idle" => \E t : Telling(t, sitting.code) /\ t[Len(t)] = Now
  /\ pc \notin {"idle", "header"} => file.code = sitting.code
  /\ disk \in Seq(Range(disk)) /\ \A i \in DOMAIN disk : OnRecord(disk[i])

\* With the code of the file it resumes, a sitting tells the same run again, as
\* far as that went, before it puts a question.
Behind(t) ==
  \E m \in 1..(Len(t) - 1) :
    /\ t[m] = Now /\ pc \notin {"wait", "backoff"}
    /\ pc = "write" => t[m + 1] = Written(Now, got, sitting.code)

Follows ==
  pc # "idle" /\ sitting.from = sitting.code =>
    \E t : /\ Telling(t, sitting.code) /\ LinesApart(TheLines(t))
           /\ previous = {l \in Range(TheLines(t)) : l.outcome = "reply"}
           /\ Behind(t) \/ Range(TheLines(t)) \subseteq Range(file.lines)

CarryInv == AskInv /\ Traced /\ Follows

-----------------------------------------------------------------------------
(* And it is kept. *)

LEMMA Begun == \A code : Telling(<<AtFirst>>, code)
<1> SUFFICES ASSUME NEW code PROVE Telling(<<AtFirst>>, code)
  OBVIOUS
<1> DEFINE t == <<AtFirst>>
<1>1. Len(t) = 1 /\ t[1] = AtFirst /\ DOMAIN t = 1..1
  OBVIOUS
<1>2. t \in Seq(Range(t))
  BY <1>1 DEF Range
<1> HIDE DEF t
<1>3. Telling(t, code)
  BY <1>1, <1>2 DEF Telling
<1> QED
  BY <1>3 DEF t

LEMMA ToldOn ==
  ASSUME NEW t, NEW code, Telling(t, code), NEW x,
         Move(t[Len(t)], x, code), Range(t[Len(t)].lines) \subseteq Range(x.lines)
  PROVE  Telling(Append(t, x), code) /\ Append(t, x)[Len(Append(t, x))] = x
<1> DEFINE u == Append(t, x)
<1>1. /\ u \in Seq(Range(u)) /\ Len(t) \in Nat \ {0} /\ Len(u) = Len(t) + 1
      /\ u[Len(t) + 1] = x /\ \A i \in 1..Len(t) : u[i] = t[i]
  BY AppendIs DEF Telling
<1> HIDE DEF u
<1>2. u[1] = AtFirst
  BY <1>1 DEF Telling
<1>3. ASSUME NEW i \in 1..(Len(u) - 1)
      PROVE  Move(u[i], u[i + 1], code)
  <2>1. CASE i = Len(t)
    BY <1>1, <2>1
  <2>2. CASE i # Len(t)
    <3>1. i \in 1..(Len(t) - 1) /\ i \in 1..Len(t) /\ i + 1 \in 1..Len(t)
      BY <1>1, <2>2
    <3> QED
      BY <1>1, <3>1 DEF Telling
  <2> QED
    BY <2>1, <2>2
<1>4. ASSUME NEW i \in 1..Len(u), NEW j \in 1..Len(u), i <= j
      PROVE  Range(u[i].lines) \subseteq Range(u[j].lines)
  <2>1. CASE j \in 1..Len(t)
    <3>1. i \in 1..Len(t)
      BY <1>1, <1>4, <2>1
    <3> QED
      BY <1>1, <1>4, <2>1, <3>1 DEF Telling
  <2>2. CASE j = Len(u) /\ i = Len(u)
    BY <2>2
  <2>3. CASE j = Len(u) /\ i \in 1..Len(t)
    <3>1. Len(t) \in 1..Len(t) /\ i <= Len(t)
      BY <1>1, <2>3
    <3>2. Range(t[i].lines) \subseteq Range(t[Len(t)].lines)
      BY <2>3, <3>1 DEF Telling
    <3> QED
      BY <1>1, <2>3, <3>2
  <2> QED
    BY <1>1, <2>1, <2>2, <2>3
<1>5. u \in Seq(Range(u)) /\ Len(u) \in Nat \ {0}
  BY <1>1
<1>6. Telling(u, code)
  BY <1>2, <1>3, <1>4, <1>5 DEF Telling
<1> QED
  BY <1>1, <1>6 DEF u

\* One way on.
MovesOn ==
  /\ Move(Now, Now', sitting.code)
  /\ \A y : Move(Now, y, sitting.code) /\ (pc = "write" => y = Written(Now, got, sitting.code)) => y = Now'
  /\ Range(file.lines) \subseteq Range(file'.lines)

LEMMA Successors ==
  ASSUME AskInv, NextPhase \/ Note \/ Begin \/ Write
  PROVE  MovesOn /\ pc' \in {"job", "ask"} /\ file'.code = file.code
                 /\ UNCHANGED <<sitting, previous, disk>> /\ pc \notin {"idle", "header"}
<1> USE DEF MovesOn
<1>1. FileOK(file)
  BY DEF AskInv, Ordered
<1>2. \A l : Range(Append(file.lines, l)) = Range(file.lines) \cup {l}
  BY <1>1, AppendIs DEF FileOK
<1>3. CASE NextPhase
  <2>1. /\ pc = "job" /\ pc' = "job" /\ todo = <<>> /\ phase < 4 /\ phase' = phase + 1
        /\ todo' = Jobs(phase + 1, base) /\ UNCHANGED <<base, browse, file, sitting, previous, disk>>
    BY <1>3 DEF NextPhase, Jobs, kept
  <2>2. Now' = After(Now) /\ Now.at = "job" /\ Now.phase < 4
    BY <2>1 DEF Now, After
  <2> QED
    BY <2>1, <2>2 DEF Move
<1>4. CASE Note
  <2>1. /\ pc = "job" /\ pc' = "job" /\ todo # <<>> /\ Noted(Head(todo)) /\ todo' = Tail(todo)
        /\ UNCHANGED <<phase, base, browse, sitting, previous, disk>>
        /\ file' = [file EXCEPT !.lines = Append(@, Line(Key(Head(todo), 0), None, None, "note"))]
    BY <1>4 DEF Note, kept
  <2>2. file'.lines = Append(file.lines, Line(Key(Head(todo), 0), None, None, "note")) /\ file'.code = file.code
    BY <1>1, <2>1 DEF FileOK
  <2>3. Now' = After(Now) /\ Now.at = "job" /\ Now.todo # <<>>
    BY <2>1, <2>2 DEF Now, After
  <2> QED
    BY <1>2, <2>1, <2>2, <2>3 DEF Move
<1>5. CASE Begin
  <2>1. /\ pc = "job" /\ pc' = "ask" /\ todo # <<>> /\ ~Noted(Head(todo)) /\ todo' = Tail(todo)
        /\ browse' = [NoBrowse EXCEPT !.job = Head(todo)]
        /\ UNCHANGED <<phase, base, file, sitting, previous, disk>>
    BY <1>5 DEF Begin, kept
  <2>2. Now' = After(Now) /\ Now.at = "job" /\ Now.todo # <<>>
    BY <2>1 DEF Now, After
  <2> QED
    BY <2>1, <2>2 DEF Move
<1>6. CASE Write
  <2>1. /\ pc = "write" /\ UNCHANGED <<phase, todo, sitting, previous, disk>>
        /\ file' = [file EXCEPT !.lines = Append(@, Line(AskedKey, AskedText, got, "reply"))]
        /\ base' = IF Final /\ browse.job.probe = "base"
                   THEN [base EXCEPT ![browse.job.test] = Browse(got, browse.shown)] ELSE base
        /\ browse' = IF Final THEN NoBrowse ELSE Step(browse)
        /\ pc' = IF Final THEN "job" ELSE "ask"
    BY <1>6 DEF Write, kept
  <2>2. file'.lines = Append(file.lines, Line(AskedKey, AskedText, got, "reply")) /\ file'.code = file.code
    BY <1>1, <2>1 DEF FileOK
  <2>3. Now.at = "ask" /\ Now.browse = browse /\ Now.lines = file.lines
    BY <2>1 DEF Now
  <2>4. /\ FinalIn(Now) = Final /\ LineIn(Now, got) = Line(AskedKey, AskedText, got, "reply")
        /\ StepIn(Now.browse, got, sitting.code) = Step(browse)
    BY <2>3 DEF FinalIn, Final, LineIn, KeyIn, TextIn, AskedKey, AskedText, StepIn, Step
  <2>5. Now' = Written(Now, got, sitting.code)
    BY <2>1, <2>2, <2>4 DEF Now, Written
  <2> QED
    BY <1>2, <2>1, <2>2, <2>3, <2>5 DEF Move
<1> QED
  BY <1>3, <1>4, <1>5, <1>6

LEMMA MovedCarry ==
  ASSUME CarryInv, NextPhase \/ Note \/ Begin \/ Write
  PROVE  Traced' /\ Follows'
<1>1. /\ MovesOn /\ pc' \in {"job", "ask"} /\ file'.code = file.code
      /\ UNCHANGED <<sitting, previous, disk>> /\ pc \notin {"idle", "header"}
  BY Successors DEF CarryInv
<1>2. Traced'
  <2>1. PICK t : Telling(t, sitting.code) /\ t[Len(t)] = Now
    BY <1>1 DEF CarryInv, Traced
  <2>2. Range(Now.lines) \subseteq Range(Now'.lines)
    BY <1>1 DEF MovesOn, Now
  <2>3. Move(t[Len(t)], Now', sitting.code)
    BY <1>1, <2>1 DEF MovesOn
  <2>4. Telling(Append(t, Now'), sitting.code) /\ Append(t, Now')[Len(Append(t, Now'))] = Now'
    BY <2>1, <2>2, <2>3, ToldOn
  <2> QED
    BY <1>1, <2>4 DEF CarryInv, Traced
<1>3. Follows'
  <2> SUFFICES ASSUME sitting.from = sitting.code
               PROVE  \E t : /\ Telling(t, sitting.code) /\ LinesApart(TheLines(t))
                             /\ previous = {l \in Range(TheLines(t)) : l.outcome = "reply"}
                             /\ Behind(t)' \/ Range(TheLines(t)) \subseteq Range(file'.lines)
    BY <1>1 DEF Follows, TheLines
  <2>1. PICK t : /\ Telling(t, sitting.code) /\ LinesApart(TheLines(t))
                 /\ previous = {l \in Range(TheLines(t)) : l.outcome = "reply"}
                 /\ Behind(t) \/ Range(TheLines(t)) \subseteq Range(file.lines)
    BY <1>1 DEF CarryInv, Follows
  <2>2. CASE Range(TheLines(t)) \subseteq Range(file.lines)
    BY <1>1, <2>1, <2>2 DEF MovesOn
  <2>3. CASE Behind(t)
    <3>1. PICK m \in 1..(Len(t) - 1) :
                 t[m] = Now /\ (pc = "write" => t[m + 1] = Written(Now, got, sitting.code))
      BY <2>3 DEF Behind
    <3>2. Len(t) \in Nat \ {0} /\ Move(t[m], t[m + 1], sitting.code)
      BY <2>1 DEF Telling
    <3>3. t[m + 1] = Now'
      BY <1>1, <3>1, <3>2 DEF MovesOn
    <3>4. CASE m + 1 = Len(t)
      <4>1. TheLines(t) = file'.lines
        BY <3>3, <3>4 DEF TheLines, Now
      <4> QED
        BY <2>1, <4>1
    <3>5. CASE m + 1 # Len(t)
      <4>1. m + 1 \in 1..(Len(t) - 1)
        BY <3>2, <3>5
      <4>2. Behind(t)'
        BY <1>1, <3>3, <4>1 DEF Behind
      <4> QED
        BY <2>1, <4>2
    <3> QED
      BY <3>4, <3>5
  <2> QED
    BY <2>1, <2>2, <2>3
<1> QED
  BY <1>2, <1>3
\* The runner stays where it is.
LEMMA StandsStill ==
  ASSUME CarryInv, UNCHANGED <<sitting, previous, phase, todo, base, browse, disk>>,
         pc # "idle", pc' # "idle", Now' = Now, Range(file.lines) \subseteq Range(file'.lines),
         pc' # "header" => file'.code = sitting.code,
         \A t : Telling(t, sitting.code) /\ LinesApart(TheLines(t)) /\ Behind(t) 
                  /\ previous = {l \in Range(TheLines(t)) : l.outcome = "reply"} => Behind(t)'
  PROVE  Traced' /\ Follows'
<1>1. Traced'
  BY DEF CarryInv, Traced
<1>2. Follows'
  <2> SUFFICES ASSUME sitting.from = sitting.code
               PROVE  \E t : /\ Telling(t, sitting.code) /\ LinesApart(TheLines(t))
                             /\ previous = {l \in Range(TheLines(t)) : l.outcome = "reply"}
                             /\ Behind(t)' \/ Range(TheLines(t)) \subseteq Range(file'.lines)
    BY DEF Follows, TheLines
  <2>1. PICK t : /\ Telling(t, sitting.code) /\ LinesApart(TheLines(t))
                 /\ previous = {l \in Range(TheLines(t)) : l.outcome = "reply"}
                 /\ Behind(t) \/ Range(TheLines(t)) \subseteq Range(file.lines)
    BY DEF CarryInv, Follows
  <2> QED
    BY <2>1
<1> QED
  BY <1>1, <1>2

\* The question next in a telling has its reply there, and no other.
LEMMA ToldReply ==
  ASSUME NEW t, NEW code, Telling(t, code), LinesApart(TheLines(t)),
         NEW m \in 1..(Len(t) - 1), t[m].at = "ask", t[m].lines \in Seq(Range(t[m].lines))
  PROVE  \E g : /\ t[m + 1] = Written(t[m], g, code)
                /\ LineIn(t[m], g) \in Range(TheLines(t))
                /\ \A l \in Range(TheLines(t)) : l.key = KeyIn(t[m]) => l = LineIn(t[m], g)
<1>1. Len(t) \in Nat \ {0} /\ m + 1 \in 1..Len(t) /\ Len(t) \in 1..Len(t) /\ m + 1 <= Len(t)
  BY DEF Telling
<1>2. PICK g : t[m + 1] = Written(t[m], g, code)
  BY DEF Telling, Move
<1>3. t[m + 1].lines = Append(t[m].lines, LineIn(t[m], g))
  BY <1>2 DEF Written
<1>4. LineIn(t[m], g) \in Range(t[m + 1].lines)
  BY <1>3, AppendIs
<1>5. LineIn(t[m], g) \in Range(TheLines(t))
  BY <1>1, <1>4 DEF Telling, TheLines
<1>6. LineIn(t[m], g).key = KeyIn(t[m])
  BY DEF LineIn, Line
<1>7. \A l \in Range(TheLines(t)) : l.key = KeyIn(t[m]) => l = LineIn(t[m], g)
  BY <1>5, <1>6 DEF LinesApart, Range
<1> QED
  BY <1>2, <1>5, <1>7

LEMMA AskedIn ==
  ASSUME Underway
  PROVE  /\ Now.at = "ask" /\ Now.lines = file.lines
         /\ KeyIn(Now) = AskedKey /\ TextIn(Now) = AskedText
<1>1. Now.at = "ask" /\ Now.browse = browse /\ Now.lines = file.lines
  BY DEF Now, Underway
<1>2. FinalIn(Now) = Final
  BY <1>1 DEF FinalIn, Final
<1> QED
  BY <1>1, <1>2 DEF KeyIn, AskedKey, TextIn, AskedText

LEMMA ReuseCarry ==
  ASSUME CarryInv, Reuse
  PROVE  Traced' /\ Follows'
<1>1. /\ pc = "ask" /\ pc' = "write" /\ UNCHANGED <<sitting, previous, phase, todo, base, browse, file, disk>>
      /\ got' \in {l.reply : l \in Reused}
  BY DEF Reuse, kept, working
<1>2. Now' = Now
  BY <1>1 DEF Now
<1>3. ASSUME NEW t, Telling(t, sitting.code), LinesApart(TheLines(t)), Behind(t),
             previous = {l \in Range(TheLines(t)) : l.outcome = "reply"}
      PROVE  Behind(t)'
  <2>1. PICK m \in 1..(Len(t) - 1) : t[m] = Now
    BY <1>3 DEF Behind
  <2>2. Now.at = "ask" /\ Now.lines = file.lines /\ KeyIn(Now) = AskedKey
    BY <1>1, AskedIn DEF Underway
  <2>3. t[m].at = "ask" /\ t[m].lines \in Seq(Range(t[m].lines))
    BY <2>1, <2>2 DEF CarryInv, AskInv, Ordered, FileOK
  <2>4. PICK g : /\ t[m + 1] = Written(t[m], g, sitting.code)
                 /\ \A l \in Range(TheLines(t)) : l.key = KeyIn(t[m]) => l = LineIn(t[m], g)
    BY <1>3, <2>3, ToldReply
  <2>5. PICK l \in Reused : got' = l.reply
    BY <1>1
  <2>6. l \in Range(TheLines(t)) /\ l.key = KeyIn(t[m])
    BY <1>3, <2>1, <2>2, <2>5 DEF Reused, Answered
  <2>7. got' = g
    BY <2>4, <2>5, <2>6 DEF LineIn, Line
  <2> QED
    BY <1>1, <1>2, <2>1, <2>4, <2>7 DEF Behind
<1>4. file.code = sitting.code
  BY <1>1 DEF CarryInv, Traced
<1> QED
  BY <1>1, <1>2, <1>3, <1>4, StandsStill

LEMMA PostCarry ==
  ASSUME CarryInv, Post
  PROVE  Traced' /\ Follows'
<1>1. /\ pc = "ask" /\ pc' = "wait" /\ UNCHANGED <<sitting, previous, phase, todo, base, browse, file, disk>>
      /\ Reused = {}
  BY DEF Post, kept, working
<1>2. Now' = Now
  BY <1>1 DEF Now
<1>3. ASSUME NEW t, Telling(t, sitting.code), LinesApart(TheLines(t)), Behind(t),
             previous = {l \in Range(TheLines(t)) : l.outcome = "reply"}
      PROVE  FALSE
  <2>1. PICK m \in 1..(Len(t) - 1) : t[m] = Now
    BY <1>3 DEF Behind
  <2>2. Now.at = "ask" /\ Now.lines = file.lines /\ KeyIn(Now) = AskedKey /\ TextIn(Now) = AskedText
    BY <1>1, AskedIn DEF Underway
  <2>3. t[m].at = "ask" /\ t[m].lines \in Seq(Range(t[m].lines))
    BY <2>1, <2>2 DEF CarryInv, AskInv, Ordered, FileOK
  <2>4. PICK g : LineIn(t[m], g) \in Range(TheLines(t))
    BY <1>3, <2>3, ToldReply
  <2>5. LineIn(t[m], g).outcome = "reply" /\ LineIn(t[m], g).key = AskedKey /\ LineIn(t[m], g).text = AskedText
    BY <2>1, <2>2 DEF LineIn, Line
  <2> QED
    BY <1>1, <1>3, <2>4, <2>5 DEF Reused, Answered
<1>4. file.code = sitting.code
  BY <1>1 DEF CarryInv, Traced
<1> QED
  BY <1>1, <1>2, <1>3, <1>4, StandsStill

LEMMA WaitCarry ==
  ASSUME CarryInv, Hear \/ Lose \/ Retry
  PROVE  Traced' /\ Follows'
<1>1. /\ pc \in {"wait", "backoff"} /\ pc' \in {"wait", "backoff", "write"}
      /\ UNCHANGED <<sitting, previous, phase, todo, base, browse, file, disk>>
  BY DEF Hear, Lose, Retry, kept, working
<1>2. Now' = Now
  BY <1>1 DEF Now
<1>3. \A t : ~Behind(t)
  BY <1>1 DEF Behind
<1>4. file.code = sitting.code
  BY <1>1 DEF CarryInv, Traced
<1> QED
  BY <1>1, <1>2, <1>3, <1>4, StandsStill

LEMMA HeaderCarry ==
  ASSUME CarryInv, WriteHeader
  PROVE  Traced' /\ Follows'
<1>1. /\ pc = "header" /\ pc' = "job" /\ UNCHANGED <<sitting, previous, phase, todo, base, browse, got, disk>>
      /\ file' = [file EXCEPT !.inputs = sitting.inputs, !.code = sitting.code] /\ FileOK(file)
  BY DEF WriteHeader, kept, working, asking, CarryInv, AskInv, Ordered
<1>2. file'.lines = file.lines /\ file'.code = sitting.code
  BY <1>1 DEF FileOK
<1>3. Now' = Now
  BY <1>1, <1>2 DEF Now
<1>4. \A t : Behind(t) => Behind(t)'
  BY <1>1, <1>3 DEF Behind
<1> QED
  BY <1>1, <1>2, <1>3, <1>4, StandsStill
LEMMA FirstIs ==
  ASSUME AskInv, pc \in {"idle", "header"}
  PROVE  /\ pc = "header" => Now = AtFirst
         /\ pc' = "header" /\ file' = NoFile /\ UNCHANGED <<phase, todo, base, browse>> => Now' = AtFirst
<1>1. phase = 0 /\ todo = <<>> /\ browse = NoBrowse /\ base = [t \in Range(Tests) |-> Unmade] /\ (pc = "header" => file = NoFile)
  BY DEF AskInv, Ordered
<1> QED
  BY <1>1, NoFileOK DEF Now, AtFirst

LEMMA EmptyOnRecord == \A f : FileOK(f) /\ f.lines = <<>> => OnRecord(f)
<1> SUFFICES ASSUME NEW f, FileOK(f), f.lines = <<>> PROVE OnRecord(f)
  OBVIOUS
<1> DEFINE t == <<AtFirst>>
<1>1. Telling(t, f.code)
  BY Begun
<1>2. TheLines(t) = <<>>
  BY DEF TheLines, AtFirst
<1> HIDE DEF t
<1>3. TheLines(t) \in Seq(Range(TheLines(t))) /\ LinesApart(TheLines(t)) /\ Holds(f, TheLines(t))
  BY <1>2 DEF FileOK, Holds
<1> QED
  BY <1>1, <1>3 DEF OnRecord

\* The replies of a file are those that were told.
LEMMA KeptReplies ==
  ASSUME NEW f, OnRecord(f)
  PROVE  \E t : /\ Telling(t, f.code) /\ LinesApart(TheLines(t))
                /\ Replies(f) = {l \in Range(TheLines(t)) : l.outcome = "reply"}
<1>1. PICK t : /\ Telling(t, f.code) /\ TheLines(t) \in Seq(Range(TheLines(t))) /\ LinesApart(TheLines(t))
               /\ Holds(f, TheLines(t))
  BY DEF OnRecord
<1>2. CASE f.lines = TheLines(t)
  BY <1>1, <1>2 DEF Replies
<1>3. ASSUME NEW e, e.outcome = "error", f.lines = Append(TheLines(t), e)
      PROVE  Replies(f) = {l \in Range(TheLines(t)) : l.outcome = "reply"}
  <2>1. Range(f.lines) = Range(TheLines(t)) \cup {e}
    BY <1>1, <1>3, AppendIs
  <2> QED
    BY <1>3, <2>1 DEF Replies
<1> QED
  BY <1>1, <1>2, <1>3 DEF Holds

LEMMA StartCarry ==
  ASSUME CarryInv, Start
  PROVE  Traced' /\ Follows'
<1>1. PICK resumed \in {NoFile} \cup Range(disk) : sitting'.from = resumed.code /\ previous' = Replies(resumed)
  BY DEF Start
<1>2. /\ pc = "idle" /\ pc' = "header" /\ file' = NoFile /\ UNCHANGED <<phase, todo, base, browse, got, disk>>
  BY DEF Start, working, asking
<1>3. Now' = AtFirst
  BY <1>2, FirstIs DEF CarryInv
<1>4. OnRecord(resumed)
  BY <1>1, NoFileOK, EmptyOnRecord DEF CarryInv, Traced, Range
<1>5. Traced'
  <2>1. Telling(<<AtFirst>>, sitting'.code) /\ <<AtFirst>>[Len(<<AtFirst>>)] = Now'
    BY <1>3, Begun
  <2> QED
    BY <1>2, <2>1 DEF CarryInv, Traced
<1>6. Follows'
  <2> SUFFICES ASSUME sitting'.from = sitting'.code
               PROVE  \E t : /\ Telling(t, sitting'.code) /\ LinesApart(TheLines(t))
                             /\ previous' = {l \in Range(TheLines(t)) : l.outcome = "reply"}
                             /\ Behind(t)' \/ Range(TheLines(t)) \subseteq Range(file'.lines)
    BY DEF Follows, TheLines
  <2>1. PICK t : /\ Telling(t, sitting'.code) /\ LinesApart(TheLines(t))
                 /\ previous' = {l \in Range(TheLines(t)) : l.outcome = "reply"}
    BY <1>1, <1>4, KeptReplies
  <2>2. Len(t) \in Nat \ {0} /\ t[1] = Now'
    BY <1>3, <2>1 DEF Telling
  <2>3. CASE Len(t) = 1
    <3>1. TheLines(t) = file'.lines
      BY <2>2, <2>3 DEF TheLines, Now
    <3> QED
      BY <2>1, <3>1
  <2>4. CASE Len(t) # 1
    <3>1. \A n \in Nat \ {0} : n # 1 => 1 \in 1..(n - 1)
      OBVIOUS
    <3>2. Len(t) \in Nat \ {0}
      BY <2>2
    <3>3. 1 \in 1..(Len(t) - 1)
      BY <2>4, <3>1, <3>2, Zenon
    <3>4. Behind(t)'
      BY <1>2, <2>2, <3>3 DEF Behind
    <3> QED
      BY <2>1, <3>4
  <2> QED
    BY <2>3, <2>4
<1> QED
  BY <1>5, <1>6

\* What a sitting leaves, however it stops, is told to where it stopped.
LEMMA LeavesCarry ==
  ASSUME CarryInv, pc # "idle", NEW f, FileOK(f), f.code = file.code, Leaves(f),
         Holds(f, file.lines), pc = "header" => f.lines = <<>>
  PROVE  Traced' /\ Follows'
<1>1. pc' = "idle" /\ disk' = Append(disk, f)
  BY DEF Leaves
<1>2. OnRecord(f)
  <2>1. CASE pc = "header"
    BY <2>1, EmptyOnRecord
  <2>2. CASE pc # "header"
    <3>1. PICK t : Telling(t, sitting.code) /\ t[Len(t)] = Now
      BY DEF CarryInv, Traced
    <3>2. TheLines(t) = file.lines
      BY <3>1 DEF TheLines, Now
    <3>3. f.code = sitting.code
      BY <2>2 DEF CarryInv, Traced
    <3>4. file.lines \in Seq(Range(file.lines)) /\ LinesApart(file.lines)
      BY DEF CarryInv, AskInv, Ordered, FileOK
    <3> QED
      BY <3>1, <3>2, <3>3, <3>4 DEF OnRecord
  <2> QED
    BY <2>1, <2>2
<1>3. /\ disk' \in Seq(Range(disk')) /\ Len(disk) \in Nat /\ Len(disk') = Len(disk) + 1
      /\ disk'[Len(disk) + 1] = f /\ \A i \in 1..Len(disk) : disk'[i] = disk[i]
  BY <1>1, AppendIs DEF CarryInv, Traced
<1>4. \A i \in DOMAIN disk' : OnRecord(disk'[i])
  <2> SUFFICES ASSUME NEW i \in 1..(Len(disk) + 1) PROVE OnRecord(disk'[i])
    BY <1>3
  <2>1. CASE i = Len(disk) + 1
    BY <1>2, <1>3, <2>1
  <2>2. CASE i \in 1..Len(disk)
    BY <1>3, <2>2 DEF CarryInv, Traced
  <2> QED
    BY <1>3, <2>1, <2>2
<1> QED
  BY <1>1, <1>3, <1>4 DEF Traced, Follows

LEMMA StopsCarry ==
  ASSUME CarryInv, Finish \/ Fail \/ Interrupt \/ WriteFails \/ Crash
  PROVE  Traced' /\ Follows'
<1>1. /\ FileOK(file) /\ pc # "idle" /\ Holds(file, file.lines)
      /\ pc = "header" => file = NoFile /\ file.lines = <<>>
  BY NoFileOK DEF CarryInv, AskInv, Ordered, Holds, Finish, Fail, Interrupt, WriteFails, Crash
<1> DEFINE torn == [file EXCEPT !.torn = TRUE]
           complete == [file EXCEPT !.complete = TRUE]
           l == Line(AskedKey, AskedText, None, "error")
           failed == [file EXCEPT !.lines = Append(@, l)]
<1>2. /\ FileOK(torn) /\ torn.lines = file.lines /\ torn.code = file.code
      /\ FileOK(complete) /\ complete.lines = file.lines /\ complete.code = file.code
  BY <1>1, FileStays
<1>3. CASE Leaves(torn)
  BY <1>1, <1>2, <1>3, LeavesCarry DEF Holds
<1>4. CASE Leaves(complete)
  BY <1>1, <1>2, <1>4, LeavesCarry DEF Holds
<1>5. CASE Leaves(file)
  BY <1>1, <1>5, LeavesCarry
<1>6. CASE pc = "wait" /\ Leaves(failed)
  <2>1. l.key = AskedKey /\ l.outcome = "error"
    BY DEF Line
  <2>2. \A m \in Range(file.lines) : m.key # AskedKey
    BY <1>6, AskedAnew DEF CarryInv, AskInv, Underway
  <2> HIDE DEF l
  <2>3. FileOK(failed) /\ failed.lines = Append(file.lines, l)
    BY <1>1, <2>1, <2>2, LineAdded
  <2>4. failed.code = file.code
    BY <1>1 DEF FileOK
  <2>5. Holds(failed, file.lines)
    BY <2>1, <2>3 DEF Holds
  <2> HIDE DEF failed
  <2> QED
    BY <1>1, <1>6, <2>3, <2>4, <2>5, LeavesCarry
<1> QED
  BY <1>3, <1>4, <1>5, <1>6 DEF Finish, Fail, Interrupt, WriteFails, Crash

LEMMA InitCarry == Init => CarryInv
<1> SUFFICES ASSUME Init PROVE CarryInv
  OBVIOUS
<1>1. <<>> \in Seq(Range(<<>>))
  OBVIOUS
<1>2. Traced /\ Follows
  BY <1>1 DEF Init, Traced, Follows
<1> QED
  BY <1>2, InitAsk DEF CarryInv

LEMMA NextCarry == CarryInv /\ [Next]_vars => CarryInv'
<1> SUFFICES ASSUME CarryInv, [Next]_vars PROVE CarryInv'
  OBVIOUS
<1>1. AskInv'
  BY NextAsk DEF CarryInv
<1>2. CASE Start
  BY <1>1, <1>2, StartCarry DEF CarryInv
<1>3. CASE WriteHeader
  BY <1>1, <1>3, HeaderCarry DEF CarryInv
<1>4. CASE NextPhase \/ Note \/ Begin \/ Write
  BY <1>1, <1>4, MovedCarry DEF CarryInv
<1>5. CASE Reuse
  BY <1>1, <1>5, ReuseCarry DEF CarryInv
<1>6. CASE Post
  BY <1>1, <1>6, PostCarry DEF CarryInv
<1>7. CASE Hear \/ Lose \/ Retry
  BY <1>1, <1>7, WaitCarry DEF CarryInv
<1>8. CASE Finish \/ Fail \/ Interrupt \/ WriteFails \/ Crash
  BY <1>1, <1>8, StopsCarry DEF CarryInv
<1>9. CASE UNCHANGED vars
  <2>1. UNCHANGED <<pc, sitting, previous, phase, todo, base, browse, got, file, disk>>
    BY <1>9 DEF vars, working, asking, kept
  <2>2. Now' = Now
    BY <2>1 DEF Now
  <2>3. \A t : Behind(t)' <=> Behind(t)
    BY <2>1, <2>2 DEF Behind
  <2>4. Traced'
    BY <2>1, <2>2 DEF CarryInv, Traced
  <2>5. Follows'
    BY <2>1, <2>3 DEF CarryInv, Follows
  <2> QED
    BY <1>1, <2>4, <2>5 DEF CarryInv
<1> QED
  BY <1>2, <1>3, <1>4, <1>5, <1>6, <1>7, <1>8, <1>9 DEF Next, Go, Posted

LEMMA SpecCarry == Spec => []CarryInv
  BY InitCarry, NextCarry, PTL DEF Spec

\* A sitting that resumes a file written with the code it reads has every reply
\* of that file in its own before it puts a question.
THEOREM TakenOverWhole == Spec => []CarriesOverFirst
<1>1. CarryInv => CarriesOverFirst
  <2> SUFFICES ASSUME CarryInv, pc \in {"wait", "backoff"}, sitting.from = sitting.code
               PROVE  previous \subseteq Replies(file)
    BY DEF CarriesOverFirst
  <2>1. PICK t : /\ previous = {l \in Range(TheLines(t)) : l.outcome = "reply"}
                 /\ Behind(t) \/ Range(TheLines(t)) \subseteq Range(file.lines)
    BY DEF CarryInv, Follows
  <2>2. Range(TheLines(t)) \subseteq Range(file.lines)
    BY <2>1 DEF Behind
  <2> QED
    BY <2>1, <2>2 DEF Replies
<1> QED
  BY <1>1, SpecCarry, PTL

-----------------------------------------------------------------------------
(* The file reads as the account of one run (Transcript).  What Transcript   *)
(* draws from the lines alone is what the runner holds in memory: the answers *)
(* of its tests, the browse that is due, and where its steps have brought it. *)

\* Transcript's copy of Browsing says the same.
LEMMA SameKeys ==
  /\ \A s : AsOneRun!Range(s) = Range(s)
  /\ \A s : AsOneRun!Last(s) = Last(s)
  /\ \A S : AsOneRun!Min(S) = Min(S)
  /\ \A p, t, v, b : AsOneRun!Job(p, t, v, b) = Job(p, t, v, b)
  /\ \A job, n : AsOneRun!Key(job, n) = Key(job, n)
  /\ \A k, t, r, o : AsOneRun!Line(k, t, r, o) = Line(k, t, r, o)
  /\ \A r, s : AsOneRun!Browse(r, s) = Browse(r, s)
  /\ AsOneRun!Unmade = Unmade
BY DEF AsOneRun!Browse, Browse, AsOneRun!Unmade, Unmade, AsOneRun!Range, Range, AsOneRun!Last, Last, AsOneRun!Min, Min, AsOneRun!Job, Job,
       AsOneRun!Key, Key, AsOneRun!Line, Line

LEMMA SameTexts ==
  /\ \A job : AsOneRun!Budget(job) = Budget(job)
  /\ \A job : AsOneRun!Noted(job) <=> Noted(job)
  /\ \A job, left, view, last : AsOneRun!Text(job, left, view, last) = Text(job, left, view, last)
  /\ \A job, reply, c : AsOneRun!Answer(job, reply, c) = Answer(job, reply, c)
BY SameKeys DEF AsOneRun!Budget, Budget, AsOneRun!Noted, Noted, AsOneRun!Text, Text, AsOneRun!Task, Task,
       AsOneRun!Answer, Answer, AsOneRun!ToolAnswer, ToolAnswer, AsOneRun!Range, Range

LEMMA SameTests ==
  /\ AsOneRun!TestJobs = TestJobs /\ AsOneRun!IncidentJobs = IncidentJobs
  /\ AsOneRun!RepeatJobs = RepeatJobs
BY DEF AsOneRun!TestJobs, TestJobs, AsOneRun!IncidentJobs, IncidentJobs, AsOneRun!RepeatJobs, RepeatJobs,
       AsOneRun!EveryOther, EveryOther, AsOneRun!Job, Job

LEMMA SameSample == \A b : AsOneRun!Sample(b) = Sample(b)
BY DEF AsOneRun!Sample, Sample, AsOneRun!Linked, Linked, AsOneRun!Before, Before,
       AsOneRun!Cardinality, Cardinality

LEMMA SameProbes == \A b : AsOneRun!ProbeJobs(b) = ProbeJobs(b)
BY SameSample DEF AsOneRun!ProbeJobs, ProbeJobs, AsOneRun!Job, Job

\* The browse has an end in the file.
Ended(job) == \E l \in Range(file.lines) : l.key = Key(job, 0)

FirstOf(t) == Job("base", t, None, None)

\* The file has n steps of the browse, to which these were the replies.
Steps(job, n, said) ==
  /\ said = [i \in 1..n |-> said[i]] /\ n \in 0..Budget(job)
  /\ \A i \in 1..n : \E l \in Range(file.lines) : l.key = Key(job, i) /\ l.reply = said[i]
  /\ \A l \in Range(file.lines) : l.key # Key(job, n + 1)

\* What the browse was shown in them.
Showed(job, n, said) == [i \in 1..n |-> Answer(job, said[i], sitting.code)]

FirstRead(t) ==
  \E n, said :
    /\ Steps(FirstOf(t), n, said)
    /\ \E l \in Range(file.lines) :
         l.key = Key(FirstOf(t), 0) /\ base[t] = Browse(l.reply, Showed(FirstOf(t), n, said))

\* base is what the lines say of each test's first browse.
BaseRead ==
  /\ DOMAIN base = Range(Tests) /\ base = [t \in Range(Tests) |-> base[t]]
  /\ \A t \in Range(Tests) : FirstRead(t) \/ (~Ended(FirstOf(t)) /\ base[t] = Unmade)

\* The browses of earlier phases have ended, and of this one all before those
\* still to make, but for the one under way.
Doing(m) ==
  LET jobs == Jobs(phase, base)
  IN  /\ m \in 0..Len(jobs) /\ Len(todo) = Len(jobs) - m
      /\ \A i \in 1..Len(todo) : todo[i] = jobs[m + i]
      /\ \A i \in 1..m : Ended(jobs[i]) \/ (Underway /\ i = m)
      /\ Underway => m >= 1 /\ browse.job = jobs[m]

Done(reply) == reply # Junk /\ reply.tool = "done"

\* The browse under way is where the replies said so far have brought it.
Saying(said) ==
  LET n == browse.n - 1
      job == browse.job
  IN  /\ said = [i \in 1..n |-> said[i]]
      /\ \A i \in 1..n : \E l \in Range(file.lines) : l.key = Key(job, i) /\ l.reply = said[i]
      /\ n <= Budget(job) /\ ~Noted(job)
      /\ browse.view = AsOneRun!Exposed(said)
      /\ browse.done = \E i \in 1..n : Done(said[i])
      /\ browse.shown = Showed(job, n, said)
      /\ browse.last = IF n = 0 THEN None
                       ELSE [reply |-> said[n], answer |-> Answer(job, said[n], sitting.code)]

\* The browses of the phases before this one have ended.
Through ==
  \A k \in 1..4 : k < phase => \A i \in DOMAIN Jobs(k, base) : Ended(Jobs(k, base)[i])

\* What the runner holds in memory is what the lines say.
AccountInv ==
  pc # "idle" =>
    /\ \A l \in Range(file.lines) : l.outcome \in {"reply", "note"}
    /\ BaseRead
    /\ Through
    /\ phase # 0 => \E m : Doing(m)
    /\ Underway => \E said : Saying(said)

\* Every reply in a file was given.
GivenInv ==
  /\ \A l \in given : l = Line(l.key, l.text, l.reply, "reply")
  /\ Replies(file) \subseteq given /\ previous \subseteq given
  /\ \A i \in DOMAIN disk : Replies(disk[i]) \subseteq given
  /\ pc = "write" => Line(AskedKey, AskedText, got, "reply") \in given

-----------------------------------------------------------------------------
(* What the lines call for.                                                  *)

LEMMA MinOf ==
  ASSUME NEW S, S \subseteq Int, NEW x \in S, \A y \in S : x <= y
  PROVE  Min(S) = x
<1>1. \A y \in S : (\A z \in S : y <= z) => y = x
  BY SMT
<1> QED
  BY <1>1 DEF Min

LEMMA ReplyToIs ==
  ASSUME FileOK(file), NEW l \in Range(file.lines)
  PROVE  l.key \in AsOneRun!Keys /\ AsOneRun!ReplyTo(l.key) = l.reply
<1>1. \A x \in Range(file.lines) : x.key = l.key => x = l
  BY DEF FileOK, LinesApart, Range
<1>2. (CHOOSE x \in Range(file.lines) : x.key = l.key) = l
  BY <1>1
<1> QED
  BY <1>2, SameKeys DEF AsOneRun!Keys, AsOneRun!ReplyTo

LEMMA EndedIs == \A job : Ended(job) <=> Key(job, 0) \in AsOneRun!Keys
BY SameKeys DEF Ended, AsOneRun!Keys

\* As far as the file goes, the browse has taken the steps said.
LEMMA TakenOf ==
  ASSUME FileOK(file), NEW job, NEW n, NEW said, Steps(job, n, said)
  PROVE  AsOneRun!Taken(job) = n /\ AsOneRun!Said(job) = said
<1> DEFINE open == {i \in 0..Budget(job) : Key(job, i + 1) \notin AsOneRun!Keys}
<1>1. Budget(job) \in Nat
  BY BrowsingAssumption DEF Budget
<1>2. n \in 0..Budget(job) /\ said = [i \in 1..n |-> said[i]]
  BY DEF Steps
<1>3. \A i \in 1..n : Key(job, i) \in AsOneRun!Keys /\ AsOneRun!ReplyTo(Key(job, i)) = said[i]
  BY ReplyToIs DEF Steps
<1>4. Key(job, n + 1) \notin AsOneRun!Keys
  BY SameKeys DEF AsOneRun!Keys, Steps
<1>5. n \in open /\ open \subseteq Int /\ \A i \in open : n <= i
  <2>1. ASSUME NEW i \in open PROVE n <= i
    <3>1. i \in 0..Budget(job) /\ Key(job, i + 1) \notin AsOneRun!Keys
      OBVIOUS
    <3>2. i + 1 \notin 1..n
      BY <1>3, <3>1
    <3> QED
      BY <1>1, <1>2, <3>1, <3>2
  <2> QED
    BY <1>1, <1>2, <1>4, <2>1
<1>6. AsOneRun!Taken(job) = Min(open)
  BY SameKeys, SameTexts DEF AsOneRun!Taken
<1>7. Min(open) = n
  <2> HIDE DEF open
  <2> QED
    BY <1>5, MinOf
<1>8. AsOneRun!Said(job) = [i \in 1..n |-> AsOneRun!ReplyTo(Key(job, i))]
  BY <1>6, <1>7, SameKeys DEF AsOneRun!Said
<1> QED
  BY <1>2, <1>3, <1>6, <1>7, <1>8

LEMMA BaseIs ==
  ASSUME FileOK(file), BaseRead
  PROVE  AsOneRun!Base = base
<1> DEFINE Read(t) == Browse(AsOneRun!ReplyTo(Key(FirstOf(t), 0)),
                             AsOneRun!Shown(FirstOf(t), AsOneRun!Said(FirstOf(t))))
<1>1. ASSUME NEW t \in Range(Tests)
      PROVE  (IF Key(FirstOf(t), 0) \in AsOneRun!Keys THEN Read(t) ELSE Unmade) = base[t]
  <2>1. CASE FirstRead(t)
    <3>1. PICK n, said : /\ Steps(FirstOf(t), n, said)
                         /\ \E l \in Range(file.lines) :
                              l.key = Key(FirstOf(t), 0) /\ base[t] = Browse(l.reply, Showed(FirstOf(t), n, said))
      BY <2>1 DEF FirstRead
    <3>2. PICK l \in Range(file.lines) :
                 l.key = Key(FirstOf(t), 0) /\ base[t] = Browse(l.reply, Showed(FirstOf(t), n, said))
      BY <3>1
    <3>3. Key(FirstOf(t), 0) \in AsOneRun!Keys /\ AsOneRun!ReplyTo(Key(FirstOf(t), 0)) = l.reply
      BY <3>2, ReplyToIs
    <3>4. AsOneRun!Said(FirstOf(t)) = said
      BY <3>1, TakenOf
    <3>5. DOMAIN said = 1..n
      BY <3>1 DEF Steps
    <3>6. AsOneRun!Shown(FirstOf(t), said) = Showed(FirstOf(t), n, said)
      BY <3>5, SameTexts DEF AsOneRun!Shown, Showed
    <3> QED
      BY <3>2, <3>3, <3>4, <3>6
  <2>2. CASE ~Ended(FirstOf(t)) /\ base[t] = Unmade
    BY <2>2, EndedIs
  <2> QED
    BY <1>1, <2>1, <2>2 DEF BaseRead
<1>2. AsOneRun!Base = [t \in Range(Tests) |-> IF Key(FirstOf(t), 0) \in AsOneRun!Keys THEN Read(t) ELSE Unmade]
  BY SameKeys DEF AsOneRun!Base, FirstOf
<1> HIDE DEF Read
<1> QED
  BY <1>1, <1>2 DEF BaseRead

LEMMA PhasesAre ==
  ASSUME FileOK(file), BaseRead, NEW k \in 1..4
  PROVE  AsOneRun!Phases[k] = Jobs(k, base)
BY BaseIs, SameTests, SameProbes DEF AsOneRun!Phases, Jobs

\* The first browse without an end is due.
LEMMA DueIs ==
  ASSUME FileOK(file), BaseRead, NEW k \in 1..4, NEW i \in DOMAIN Jobs(k, base),
         \A m \in 1..4 : m < k => \A j \in DOMAIN Jobs(m, base) : Ended(Jobs(m, base)[j]),
         \A j \in DOMAIN Jobs(k, base) : j < i => Ended(Jobs(k, base)[j]),
         ~Ended(Jobs(k, base)[i])
  PROVE  AsOneRun!Unended # {} /\ AsOneRun!Due = Jobs(k, base)[i]
<1> DEFINE jobs == Jobs(k, base)
           open == AsOneRun!Open(jobs)
<1>1. \A m \in 1..4 : AsOneRun!Phases[m] = Jobs(m, base)
  BY PhasesAre
<1>2. \A js : AsOneRun!Open(js) = {j \in DOMAIN js : ~Ended(js[j])}
  BY EndedIs, SameKeys DEF AsOneRun!Open
<1>3. AsOneRun!Unended = {m \in 1..4 : AsOneRun!Open(Jobs(m, base)) # {}}
  BY <1>1 DEF AsOneRun!Unended
<1>4. DOMAIN jobs \subseteq Int
  BY PhaseJobs
<1>5. open \subseteq Int /\ i \in open /\ \A j \in open : i <= j
  <2>1. \A j \in open : j \in DOMAIN jobs /\ ~Ended(jobs[j]) /\ ~(j < i)
    BY <1>2
  <2> QED
    BY <1>2, <1>4, <2>1
<1>6. Min(open) = i
  <2> HIDE DEF open
  <2> QED
    BY <1>5, MinOf
<1>7. k \in AsOneRun!Unended /\ AsOneRun!Unended \subseteq Int /\ \A m \in AsOneRun!Unended : k <= m
  <2>1. \A m \in AsOneRun!Unended : m \in 1..4 /\ ~(m < k)
    BY <1>2, <1>3
  <2> QED
    BY <1>3, <1>5, <2>1
<1>8. Min(AsOneRun!Unended) = k
  BY <1>7, MinOf
<1>9. AsOneRun!Due = jobs[Min(open)]
  BY <1>1, <1>8, SameKeys DEF AsOneRun!Due
<1> QED
  BY <1>6, <1>7, <1>9

LEMMA NothingDue ==
  ASSUME FileOK(file), BaseRead,
         \A m \in 1..4 : \A j \in DOMAIN Jobs(m, base) : Ended(Jobs(m, base)[j])
  PROVE  AsOneRun!Unended = {}
<1>1. \A m \in 1..4 : AsOneRun!Phases[m] = Jobs(m, base)
  BY PhasesAre
<1>2. \A m \in 1..4 : AsOneRun!Open(AsOneRun!Phases[m]) = {}
  BY <1>1, EndedIs, SameKeys DEF AsOneRun!Open
<1> QED
  BY <1>2 DEF AsOneRun!Unended

LEMMA NotFailed ==
  ASSUME FileOK(file), \A l \in Range(file.lines) : l.outcome \in {"reply", "note"}
  PROVE  ~AsOneRun!Failed
<1> SUFFICES ASSUME file.lines # <<>>, Last(file.lines).outcome = "error" PROVE FALSE
  BY SameKeys DEF AsOneRun!Failed
<1> DEFINE s == file.lines
<1>1. s \in Seq(Range(s)) /\ s # <<>>
  BY DEF FileOK
<1>2. Len(s) \in DOMAIN s
  <2> HIDE DEF s
  <2> QED
    BY <1>1
<1>3. s[Len(s)] \in Range(s) /\ Last(s) = s[Len(s)]
  BY <1>2 DEF Range, Last
<1> QED
  BY <1>3

LEMMA AccountIs ==
  ASSUME AskInv, AccountInv, pc # "idle"
  PROVE  /\ FileOK(file) /\ BaseRead /\ phase \in 0..4
         /\ \A l \in Range(file.lines) : l.outcome \in {"reply", "note"}
         /\ \A k \in 1..4 : k < phase => \A i \in DOMAIN Jobs(k, base) : Ended(Jobs(k, base)[i])
         /\ phase # 0 => \E m : Doing(m)
         /\ Underway => phase # 0 /\ \E said : Saying(said)
BY DEF AskInv, AccountInv, Through, Ordered, Stepping

\* The browse under way has no end yet.
LEMMA NotEnded ==
  ASSUME AskInv, Underway, NEW job, Place(job) = Place(browse.job)
  PROVE  ~Ended(job)
<1> SUFFICES ASSUME NEW l \in Range(file.lines), l.key = Key(job, 0) PROVE FALSE
  BY DEF Ended
<1>1. Place(l.key) = Place(browse.job) /\ l.key.n = 0
  BY DEF Key, Place
<1>2. l.key.n \in 1..(browse.n - 1)
  BY <1>1 DEF AskInv, Stepping
<1> QED
  BY <1>1, <1>2

\* The browse under way is the one due.
LEMMA DueUnderway ==
  ASSUME AskInv, AccountInv, Underway
  PROVE  AsOneRun!Unended # {} /\ AsOneRun!Due = browse.job
<1>1. pc # "idle" /\ FileOK(file) /\ BaseRead /\ phase \in 1..4
      /\ \A k \in 1..4 : k < phase => \A i \in DOMAIN Jobs(k, base) : Ended(Jobs(k, base)[i])
  BY AccountIs DEF Underway
<1>2. PICK m : Doing(m)
  BY <1>1, AccountIs
<1> DEFINE jobs == Jobs(phase, base)
<1>3. Len(jobs) \in Nat /\ DOMAIN jobs = 1..Len(jobs)
  BY <1>1, PhaseJobs
<1>4. /\ m \in 1..Len(jobs) /\ browse.job = jobs[m]
      /\ \A i \in 1..m : Ended(jobs[i]) \/ i = m
  BY <1>2, <1>3 DEF Doing
<1>5. ~Ended(browse.job)
  BY NotEnded
<1>6. \A j \in DOMAIN jobs : j < m => Ended(jobs[j])
  BY <1>3, <1>4
<1> HIDE DEF jobs
<1>7. m \in DOMAIN jobs
  BY <1>3, <1>4
<1> QED
  BY <1>1, <1>4, <1>5, <1>6, <1>7, DueIs DEF jobs

LEMMA TakenIs ==
  ASSUME AskInv, Underway, NEW said, Saying(said)
  PROVE  /\ Steps(browse.job, browse.n - 1, said) /\ browse.n - 1 \in 0..Budget(browse.job)
         /\ AsOneRun!Taken(browse.job) = browse.n - 1 /\ AsOneRun!Said(browse.job) = said
<1> DEFINE n == browse.n - 1
           job == browse.job
<1>1. Budget(job) \in Nat
  BY BrowsingAssumption DEF Budget
<1>2. browse.n \in Nat \ {0} /\ n \in 0..Budget(job)
  BY <1>1 DEF AskInv, Stepping, Saying
<1>3. ASSUME NEW l \in Range(file.lines), l.key = Key(job, n + 1)
      PROVE  FALSE
  <2>1. Place(l.key) = Place(job) /\ l.key.n = n + 1
    BY <1>3 DEF Key, Place
  <2>2. l.key.n \in 1..n
    BY <2>1 DEF AskInv, Stepping
  <2> QED
    BY <1>2, <2>1, <2>2
<1>4. Steps(job, n, said)
  <2>1. /\ said = [i \in 1..n |-> said[i]]
        /\ \A i \in 1..n : \E l \in Range(file.lines) : l.key = Key(job, i) /\ l.reply = said[i]
    BY DEF Saying
  <2> QED
    BY <1>2, <1>3, <2>1 DEF Steps
<1>5. FileOK(file)
  BY DEF AskInv, Ordered
<1> QED
  BY <1>2, <1>4, <1>5, TakenOf

\* The question that is put is the one the file calls for.
LEMMA CallsForAsked ==
  ASSUME AskInv, AccountInv, Underway
  PROVE  /\ AsOneRun!Called = Line(AskedKey, AskedText, None, "reply")
         /\ AsOneRun!Called # AsOneRun!End
<1>1. pc # "idle"
  BY DEF Underway
<1>2. PICK said : Saying(said)
  BY <1>1, AccountIs
<1>3. AsOneRun!Unended # {} /\ AsOneRun!Due = browse.job
  BY DueUnderway
<1>4. ~AsOneRun!Failed
  BY <1>1, AccountIs, NotFailed
<1> DEFINE n == browse.n - 1
           job == browse.job
           over == n = Budget(job) \/ \E i \in DOMAIN said : Done(said[i])
           last == IF n = 0 THEN None ELSE [reply |-> said[n], answer |-> Answer(job, said[n], sitting.code)]
<1>5. n \in 0..Budget(job) /\ AsOneRun!Taken(job) = n /\ AsOneRun!Said(job) = said
  BY <1>2, TakenIs
<1>6. DOMAIN said = 1..n
  BY <1>2 DEF Saying
<1>7. ~Noted(job) /\ last = browse.last /\ browse.view = AsOneRun!Exposed(said)
      /\ browse.done = \E i \in 1..n : Done(said[i])
  BY <1>2 DEF Saying
<1>8. browse.n \in Nat \ {0} /\ Budget(job) \in Nat
  BY BrowsingAssumption DEF AskInv, Stepping, Budget
<1>9. over <=> Final
  <2>1. browse.n > Budget(job) <=> n = Budget(job)
    BY <1>5, <1>8
  <2> QED
    BY <1>6, <1>7, <2>1 DEF Final
<1>10. AsOneRun!Called =
         Line(Key(job, IF over THEN 0 ELSE n + 1),
              Text(job, IF over THEN 0 ELSE Budget(job) - n, AsOneRun!Exposed(said), last), None, "reply")
  <2>1. ~(AsOneRun!Failed \/ AsOneRun!Unended = {})
    BY <1>3, <1>4
  <2>2. ~AsOneRun!Noted(job)
    BY <1>7, SameTexts
  <2> HIDE DEF n, job
  <2> QED
    BY <1>3, <1>5, <2>1, <2>2, SameKeys, SameTexts DEF AsOneRun!Called, Done, job
<1>11. n + 1 = browse.n /\ Budget(job) - n = Budget(job) - browse.n + 1
  BY <1>8
<1>12. AsOneRun!Called = Line(AskedKey, AskedText, None, "reply")
  <2> HIDE DEF over, last, n
  <2> QED
    BY <1>7, <1>9, <1>10, <1>11 DEF AskedKey, AskedText
<1> QED
  BY <1>12, SameKeys DEF AsOneRun!End, Line

\* Between two browses the file calls for the note that is left next.
LEMMA CallsForNote ==
  ASSUME AskInv, AccountInv, pc = "job", todo # <<>>
  PROVE  /\ Noted(Head(todo)) => AsOneRun!Called = Line(Key(Head(todo), 0), None, None, "note")
                                 /\ AsOneRun!Called # AsOneRun!End
         /\ AsOneRun!Due = Head(todo)
<1>1. /\ FileOK(file) /\ BaseRead /\ phase \in 0..4
      /\ \A k \in 1..4 : k < phase => \A i \in DOMAIN Jobs(k, base) : Ended(Jobs(k, base)[i])
      /\ \A l \in Range(file.lines) : l.outcome \in {"reply", "note"}
  BY AccountIs
<1>2. todo \in Seq(Range(todo)) /\ 1 \in DOMAIN todo /\ Head(todo) = todo[1] /\ Len(todo) \in Nat \ {0}
  <2>1. todo \in Seq(Range(todo)) /\ Apart(todo)
    BY DEF AskInv, Ordered
  <2> QED
    BY <2>1, RestIs, TailIs
<1>3. phase \in 1..4
  BY <1>1, <1>2 DEF AskInv, Ordered
<1>4. PICK m : Doing(m)
  BY <1>3, AccountIs
<1> DEFINE jobs == Jobs(phase, base)
<1>5. Len(jobs) \in Nat /\ DOMAIN jobs = 1..Len(jobs)
  BY <1>3, PhaseJobs
<1>6. /\ m \in 0..Len(jobs) /\ Len(todo) = Len(jobs) - m
      /\ \A i \in 1..Len(todo) : todo[i] = jobs[m + i]
      /\ \A i \in 1..m : Ended(jobs[i])
  BY <1>4 DEF Doing, Underway
<1> HIDE DEF jobs
<1>7. m + 1 \in DOMAIN jobs /\ jobs[m + 1] = Head(todo)
  <2> DEFINE n == Len(todo)
  <2>1. n \in Nat \ {0} /\ n = Len(jobs) - m /\ todo[1] = Head(todo)
        /\ \A i \in 1..n : todo[i] = jobs[m + i]
    BY <1>2, <1>6
  <2> HIDE DEF n
  <2>2. todo[1] = jobs[m + 1]
    BY <2>1
  <2>3. m + 1 \in 1..Len(jobs)
    <3> DEFINE k == Len(jobs)
    <3>1. k \in Nat /\ m \in 0..k /\ n = k - m
      BY <1>5, <1>6, <2>1
    <3> HIDE DEF k
    <3>2. m + 1 \in 1..k
      BY <2>1, <3>1
    <3> QED
      BY <3>2 DEF k
  <2> QED
    BY <1>5, <2>1, <2>2, <2>3
<1>8. ~Ended(jobs[m + 1])
  <2> SUFFICES ASSUME NEW l \in Range(file.lines), l.key = Key(todo[1], 0) PROVE FALSE
    BY <1>2, <1>7 DEF Ended
  <2>1. Place(l.key) = Place(todo[1])
    BY DEF Key, Place
  <2> QED
    BY <1>2, <2>1 DEF AskInv, Told
<1>9. \A j \in DOMAIN jobs : j < m + 1 => Ended(jobs[j])
  BY <1>5, <1>6
<1>10. AsOneRun!Unended # {} /\ AsOneRun!Due = Head(todo)
  <2>1. /\ \A k \in 1..4 : k < phase => \A i \in DOMAIN Jobs(k, base) : Ended(Jobs(k, base)[i])
        /\ \A j \in DOMAIN Jobs(phase, base) : j < m + 1 => Ended(Jobs(phase, base)[j])
        /\ ~Ended(Jobs(phase, base)[m + 1]) /\ m + 1 \in DOMAIN Jobs(phase, base)
    BY <1>1, <1>7, <1>8, <1>9 DEF jobs
  <2> QED
    BY <1>1, <1>3, <1>7, <2>1, DueIs DEF jobs
<1>11. ~AsOneRun!Failed
  BY <1>1, NotFailed
<1>12. ASSUME Noted(Head(todo))
       PROVE  AsOneRun!Called = Line(Key(Head(todo), 0), None, None, "note")
  BY <1>10, <1>11, <1>12, SameKeys, SameTexts DEF AsOneRun!Called
<1>13. Line(Key(Head(todo), 0), None, None, "note") # AsOneRun!End
  BY SameKeys DEF AsOneRun!End, Line
<1> QED
  BY <1>10, <1>12, <1>13

\* When all phases are through, the file calls for nothing more.
LEMMA CallsForNothing ==
  ASSUME AskInv, AccountInv, pc = "job", todo = <<>>, phase = 4
  PROVE  AsOneRun!Called = AsOneRun!End /\ ~AsOneRun!Failed
<1>1. /\ FileOK(file) /\ BaseRead
      /\ \A k \in 1..4 : k < phase => \A i \in DOMAIN Jobs(k, base) : Ended(Jobs(k, base)[i])
      /\ \A l \in Range(file.lines) : l.outcome \in {"reply", "note"}
  BY AccountIs
<1>2. PICK m : Doing(m)
  BY AccountIs
<1> DEFINE jobs == Jobs(4, base)
<1>3. Len(jobs) \in Nat /\ DOMAIN jobs = 1..Len(jobs)
  BY PhaseJobs
<1>4. m \in 0..Len(jobs) /\ 0 = Len(jobs) - m /\ \A i \in 1..m : Ended(jobs[i])
  <2>1. Len(<<>>) = 0
    OBVIOUS
  <2> QED
    BY <1>2, <2>1 DEF Doing, Underway
<1>5. \A i \in DOMAIN jobs : Ended(jobs[i])
  BY <1>3, <1>4
<1>6. \A k \in 1..4 : \A i \in DOMAIN Jobs(k, base) : Ended(Jobs(k, base)[i])
  BY <1>1, <1>5
<1>7. AsOneRun!Unended = {} /\ ~AsOneRun!Failed
  BY <1>1, <1>6, NothingDue, NotFailed
<1> QED
  BY <1>7 DEF AsOneRun!Called

-----------------------------------------------------------------------------
(* The runner keeps what the lines say.                                      *)

LEMMA LineGrows ==
  ASSUME FileOK(file), NEW l, file' = [file EXCEPT !.lines = Append(@, l)]
  PROVE  /\ file'.lines = Append(file.lines, l) /\ Range(file'.lines) = Range(file.lines) \cup {l}
         /\ \A job : Ended(job)' <=> Ended(job) \/ l.key = Key(job, 0)
<1>1. file'.lines = Append(file.lines, l)
  BY DEF FileOK
<1>2. Range(file'.lines) = Range(file.lines) \cup {l}
  BY <1>1, AppendIs DEF FileOK
<1> QED
  BY <1>1, <1>2 DEF Ended

\* A line of another browse, or one that ends it, is none of its steps.
LEMMA StepsStay ==
  ASSUME NEW job, NEW n, NEW said, Steps(job, n, said),
         NEW l, Range(file'.lines) = Range(file.lines) \cup {l}, l.key # Key(job, n + 1)
  PROVE  Steps(job, n, said)'
BY DEF Steps

LEMMA FirstStays ==
  ASSUME NEW t, FirstRead(t), base'[t] = base[t], sitting' = sitting,
         NEW l, Range(file'.lines) = Range(file.lines) \cup {l}, Place(l.key) # Place(FirstOf(t))
  PROVE  FirstRead(t)'
<1>1. PICK n, said : /\ Steps(FirstOf(t), n, said)
                     /\ \E x \in Range(file.lines) :
                          x.key = Key(FirstOf(t), 0) /\ base[t] = Browse(x.reply, Showed(FirstOf(t), n, said))
  BY DEF FirstRead
<1>2. l.key # Key(FirstOf(t), n + 1)
  BY DEF Key, Place
<1>3. Steps(FirstOf(t), n, said)'
  BY <1>1, <1>2, StepsStay
<1>4. Showed(FirstOf(t), n, said)' = Showed(FirstOf(t), n, said)
  BY DEF Showed
<1> QED
  BY <1>1, <1>3, <1>4 DEF FirstRead

LEMMA BaseSame ==
  ASSUME BaseRead, UNCHANGED <<sitting, base, file>>
  PROVE  BaseRead' /\ \A job : Ended(job)' <=> Ended(job)
BY DEF BaseRead, FirstRead, Steps, Showed, Ended

LEMMA BaseStays ==
  ASSUME BaseRead, base' = base, sitting' = sitting, NEW l, Range(file'.lines) = Range(file.lines) \cup {l},
         \A job : Ended(job)' <=> Ended(job) \/ l.key = Key(job, 0),
         \A t \in Range(Tests) : l.key # Key(FirstOf(t), 0),
         \A t \in Range(Tests) : Ended(FirstOf(t)) => Place(l.key) # Place(FirstOf(t))
  PROVE  BaseRead'
<1>1. DOMAIN base' = Range(Tests) /\ base' = [t \in Range(Tests) |-> base'[t]]
  BY DEF BaseRead
<1>2. ASSUME NEW t \in Range(Tests)
      PROVE  FirstRead(t)' \/ (~Ended(FirstOf(t))' /\ base'[t] = Unmade)
  <2>1. CASE FirstRead(t)
    <3>1. Ended(FirstOf(t))
      BY <2>1 DEF FirstRead, Ended
    <3> QED
      BY <2>1, <3>1, FirstStays
  <2>2. CASE ~Ended(FirstOf(t)) /\ base[t] = Unmade
    BY <2>2
  <2> QED
    BY <2>1, <2>2 DEF BaseRead
<1> QED
  BY <1>1, <1>2 DEF BaseRead

LEMMA NothingYet ==
  ASSUME phase' = 0, base' = [t \in Range(Tests) |-> Unmade], file'.lines = <<>>, ~Underway'
  PROVE  AccountInv'
<1>1. Range(file'.lines) = {}
  BY DEF Range
<1>2. BaseRead'
  <2>1. \A t : ~Ended(FirstOf(t))'
    BY <1>1 DEF Ended
  <2> QED
    BY <2>1 DEF BaseRead
<1> QED
  BY <1>1, <1>2 DEF AccountInv, Through

LEMMA BeginsAccount ==
  ASSUME AskInv, Start \/ WriteHeader
  PROVE  AccountInv'
<1>1. phase = 0 /\ base = [t \in Range(Tests) |-> Unmade] /\ (pc = "header" => file = NoFile)
  BY DEF AskInv, Ordered, Start, WriteHeader
<1>2. CASE Start
  <2>1. file' = NoFile /\ pc' = "header" /\ phase' = phase /\ base' = base
    BY <1>2 DEF Start, working
  <2> QED
    BY <1>1, <2>1, NoFileOK, NothingYet DEF Underway
<1>3. CASE WriteHeader
  <2>1. /\ file' = [NoFile EXCEPT !.inputs = sitting.inputs, !.code = sitting.code]
        /\ pc' = "job" /\ phase' = phase /\ base' = base
    BY <1>1, <1>3 DEF WriteHeader, working
  <2>2. file'.lines = <<>>
    BY <2>1 DEF NoFile
  <2> QED
    BY <1>1, <2>1, <2>2, NothingYet DEF Underway
<1> QED
  BY <1>2, <1>3

LEMMA NextPhaseAccount ==
  ASSUME AskInv, AccountInv, NextPhase
  PROVE  AccountInv'
<1>1. /\ pc = "job" /\ pc' = "job" /\ todo = <<>> /\ phase \in 0..4 /\ phase < 4 /\ phase' = phase + 1
      /\ todo' = Jobs(phase', base) /\ UNCHANGED <<base, file, sitting>>
  BY DEF NextPhase, Jobs, AskInv, Ordered, kept
<1>2. /\ BaseRead /\ \A l \in Range(file.lines) : l.outcome \in {"reply", "note"}
      /\ \A k \in 1..4 : k < phase => \A i \in DOMAIN Jobs(k, base) : Ended(Jobs(k, base)[i])
  BY <1>1, AccountIs
<1>3. ASSUME phase # 0
      PROVE  \A i \in DOMAIN Jobs(phase, base) : Ended(Jobs(phase, base)[i])
  <2>1. PICK m : Doing(m)
    BY <1>1, <1>3, AccountIs
  <2> DEFINE jobs == Jobs(phase, base)
  <2>2. phase \in 1..4
    BY <1>1, <1>3
  <2>3. Len(jobs) \in Nat /\ DOMAIN jobs = 1..Len(jobs)
    BY <2>2, PhaseJobs
  <2>4. Len(<<>>) = 0
    OBVIOUS
  <2>5. m \in 0..Len(jobs) /\ 0 = Len(jobs) - m /\ \A i \in 1..m : Ended(jobs[i])
    BY <1>1, <2>1, <2>4 DEF Doing, Underway
  <2> QED
    BY <2>3, <2>5
<1>4. BaseRead' /\ \A job : Ended(job)' <=> Ended(job)
  BY <1>1, <1>2, BaseSame
<1>5. \A k \in 1..4 : k < phase' => k < phase \/ (k = phase /\ phase # 0)
  BY <1>1
<1>6. ASSUME NEW k \in 1..4, k < phase', NEW i \in DOMAIN Jobs(k, base)
      PROVE  Ended(Jobs(k, base)[i])
  BY <1>2, <1>3, <1>5, <1>6
<1>7. \A k \in 1..4 : k < phase' => \A i \in DOMAIN Jobs(k, base') :
         \E l \in Range(file'.lines) : l.key = Key(Jobs(k, base')[i], 0)
  BY <1>1, <1>6 DEF Ended
<1>8. phase' \in 1..4
  BY <1>1
<1>9. Doing(0)'
  <2> DEFINE jobs == Jobs(phase', base)
  <2>1. Len(jobs) \in Nat
    BY <1>8, PhaseJobs
  <2>2. todo' = jobs
    BY <1>1
  <2> HIDE DEF jobs
  <2>3. /\ 0 \in 0..Len(jobs) /\ Len(todo') = Len(jobs) - 0
        /\ \A i \in 1..Len(todo') : todo'[i] = jobs[0 + i]
        /\ \A i \in 1..0 : FALSE
    BY <2>1, <2>2
  <2>4. jobs = Jobs(phase', base')
    BY <1>1 DEF jobs
  <2> QED
    BY <1>1, <2>3, <2>4 DEF Doing, Underway
<1>10. Through'
  BY <1>7 DEF Through, Ended
<1> QED
  BY <1>1, <1>2, <1>4, <1>10, <1>9 DEF AccountInv, Underway

\* One more of the phase's browses is made or under way.
LEMMA OneMore ==
  ASSUME AskInv, pc = "job", todo # <<>>, phase \in 1..4, NEW m, Doing(m)
  PROVE  LET jobs == Jobs(phase, base)
         IN  /\ m + 1 \in 1..Len(jobs) /\ jobs[m + 1] = Head(todo)
             /\ Len(Tail(todo)) = Len(jobs) - (m + 1)
             /\ \A i \in 1..Len(Tail(todo)) : Tail(todo)[i] = jobs[(m + 1) + i]
             /\ \A i \in 1..(m + 1) : Ended(jobs[i]) \/ i = m + 1
<1> DEFINE jobs == Jobs(phase, base)
           n == Len(todo)
           k == Len(jobs)
<1>1. k \in Nat
  BY PhaseJobs
<1>2. /\ n \in Nat \ {0} /\ Head(todo) = todo[1] /\ Tail(todo) \in Seq(Range(Tail(todo)))
      /\ DOMAIN Tail(todo) = 1..(n - 1) /\ \A i \in 1..(n - 1) : Tail(todo)[i] = todo[i + 1]
  BY TailIs DEF AskInv, Ordered
<1>3. Len(Tail(todo)) = n - 1
  <2>1. n - 1 \in Nat /\ DOMAIN Tail(todo) = 1..Len(Tail(todo)) /\ Len(Tail(todo)) \in Nat
    <3>1. n - 1 \in Nat
      <4> HIDE DEF n
      <4> QED
        BY <1>2
    <3> QED
      BY <1>2, <3>1
  <2>2. \A a, b \in Nat : 1..a = 1..b => a = b
    OBVIOUS
  <2> QED
    BY <1>2, <2>1, <2>2
<1>4. /\ m \in 0..k /\ n = k - m /\ \A i \in 1..n : todo[i] = jobs[m + i]
      /\ \A i \in 1..m : Ended(jobs[i])
  BY DEF Doing, Underway
<1> HIDE DEF n, k, jobs
<1>5. m + 1 \in 1..k /\ n - 1 = k - (m + 1) /\ 1 \in 1..n
  BY <1>1, <1>2, <1>4
<1>6. jobs[m + 1] = Head(todo)
  BY <1>2, <1>4, <1>5
<1>7. ASSUME NEW i \in 1..(n - 1)
      PROVE  Tail(todo)[i] = jobs[(m + 1) + i]
  <2>1. i + 1 \in 1..n /\ m + (i + 1) = (m + 1) + i
    BY <1>1, <1>2, <1>4
  <2> QED
    BY <1>2, <1>4, <2>1
<1>8. \A i \in 1..(m + 1) : Ended(jobs[i]) \/ i = m + 1
  <2>1. \A i \in 1..(m + 1) : i \in 1..m \/ i = m + 1
    BY <1>1, <1>4
  <2> QED
    BY <1>4, <2>1
<1> QED
  BY <1>3, <1>5, <1>6, <1>7, <1>8 DEF k, jobs

LEMMA ThroughStays ==
  ASSUME Through, phase' = phase, \A k \in 1..4 : k < phase => Jobs(k, base') = Jobs(k, base),
         \A job : Ended(job) => Ended(job)'
  PROVE  Through'
<1> SUFFICES ASSUME NEW k \in 1..4, k < phase, NEW i \in DOMAIN Jobs(k, base')
             PROVE  \E l \in Range(file'.lines) : l.key = Key(Jobs(k, base')[i], 0)
  BY DEF Through, Ended
<1>1. Jobs(k, base') = Jobs(k, base) /\ Ended(Jobs(k, base)[i])
  BY DEF Through
<1>2. PICK job : job = Jobs(k, base)[i]
  OBVIOUS
<1> QED
  BY <1>1, <1>2 DEF Ended

LEMMA NoteAccount ==
  ASSUME AskInv, AccountInv, Note
  PROVE  AccountInv'
<1> DEFINE job == Head(todo)
           l == Line(Key(job, 0), None, None, "note")
<1>1. /\ pc = "job" /\ pc' = "job" /\ todo # <<>> /\ todo' = Tail(todo) /\ UNCHANGED <<phase, base, sitting>>
      /\ file' = [file EXCEPT !.lines = Append(@, l)] /\ Noted(job) /\ FileOK(file)
  BY DEF Note, AskInv, Ordered, kept
<1>2. /\ BaseRead /\ Through /\ \A x \in Range(file.lines) : x.outcome \in {"reply", "note"}
  BY <1>1 DEF AccountInv
<1>3. Range(file'.lines) = Range(file.lines) \cup {l}
      /\ \A j : Ended(j)' <=> Ended(j) \/ l.key = Key(j, 0)
  <2> HIDE DEF l
  <2> QED
    BY <1>1, LineGrows
<1>4. l.key = Key(job, 0) /\ l.outcome = "note" /\ l.key.probe # "base"
  <2>1. l.key = Key(job, 0) /\ l.outcome = "note"
    BY DEF Line
  <2>2. l.key.probe = job.probe
    BY <2>1 DEF Key
  <2> QED
    BY <1>1, <2>1, <2>2, KindsDiffer DEF Noted
<1>5. \A t \in Range(Tests) : l.key # Key(FirstOf(t), 0) /\ Place(l.key) # Place(FirstOf(t))
  BY <1>4 DEF Key, FirstOf, Job, Place
<1> HIDE DEF l
<1>6. BaseRead'
  BY <1>1, <1>2, <1>3, <1>5, BaseStays
<1>7. Through'
  BY <1>1, <1>2, <1>3, ThroughStays
<1>8. \A x \in Range(file'.lines) : x.outcome \in {"reply", "note"}
  BY <1>2, <1>3, <1>4
<1>9. phase \in 1..4
  <2>1. phase \in 0..4 /\ 1 \in DOMAIN todo
    BY <1>1, RestIs DEF AskInv, Ordered
  <2> QED
    BY <2>1 DEF AskInv, Ordered
<1>10. PICK m : Doing(m)
  BY <1>1, <1>9 DEF AccountInv
<1> DEFINE jobs == Jobs(phase, base)
<1>11. /\ m + 1 \in 1..Len(jobs) /\ jobs[m + 1] = job /\ Len(Tail(todo)) = Len(jobs) - (m + 1)
       /\ \A i \in 1..Len(Tail(todo)) : Tail(todo)[i] = jobs[(m + 1) + i]
       /\ \A i \in 1..(m + 1) : Ended(jobs[i]) \/ i = m + 1
  BY <1>1, <1>9, <1>10, OneMore
<1>12. jobs = Jobs(phase', base')
  BY <1>1
<1>13. PICK js : js = jobs
  OBVIOUS
<1> HIDE DEF jobs, job
<1>14. \A i \in 1..(m + 1) : Ended(js[i])'
  BY <1>3, <1>4, <1>11, <1>13
<1>15. Len(js) \in Nat
  BY <1>9, <1>13, PhaseJobs DEF jobs
<1>16. m + 1 \in 0..Len(js)
  <2>1. m + 1 \in 1..Len(js)
    BY <1>11, <1>13
  <2> DEFINE k == Len(js)
             p == m + 1
  <2>2. k \in Nat /\ p \in 1..k
    BY <1>15, <2>1
  <2> HIDE DEF k, p
  <2>3. p \in 0..k
    BY <2>2
  <2> QED
    BY <2>3 DEF k, p
<1>17. Doing(m + 1)'
  BY <1>1, <1>11, <1>12, <1>13, <1>14, <1>16 DEF Doing, Underway, Ended
<1> QED
  BY <1>1, <1>6, <1>7, <1>8, <1>17 DEF AccountInv, Underway

LEMMA NothingSaid ==
  ASSUME NEW said, DOMAIN said = 1..0
  PROVE  AsOneRun!Exposed(said) = FALSE
BY DEF AsOneRun!Exposed

LEMMA BeginAccount ==
  ASSUME AskInv, AccountInv, Begin
  PROVE  AccountInv'
<1> DEFINE job == Head(todo)
<1>1. /\ pc = "job" /\ pc' = "ask" /\ todo # <<>> /\ todo' = Tail(todo) /\ UNCHANGED <<phase, base, file, sitting>>
      /\ browse' = [NoBrowse EXCEPT !.job = job] /\ ~Noted(job)
  BY DEF Begin, kept
<1>2. /\ BaseRead /\ Through /\ \A x \in Range(file.lines) : x.outcome \in {"reply", "note"}
  BY <1>1 DEF AccountInv
<1>3. BaseRead' /\ \A j : Ended(j)' <=> Ended(j)
  BY <1>1, <1>2, BaseSame
<1>4. Through'
  BY <1>1, <1>2, <1>3, ThroughStays
<1>5. phase \in 1..4
  <2>1. phase \in 0..4 /\ 1 \in DOMAIN todo
    BY <1>1, RestIs DEF AskInv, Ordered
  <2> QED
    BY <2>1 DEF AskInv, Ordered
<1>6. PICK m : Doing(m)
  BY <1>1, <1>5 DEF AccountInv
<1> DEFINE jobs == Jobs(phase, base)
<1>7. /\ m + 1 \in 1..Len(jobs) /\ jobs[m + 1] = job /\ Len(Tail(todo)) = Len(jobs) - (m + 1)
      /\ \A i \in 1..Len(Tail(todo)) : Tail(todo)[i] = jobs[(m + 1) + i]
      /\ \A i \in 1..(m + 1) : Ended(jobs[i]) \/ i = m + 1
  BY <1>1, <1>5, <1>6, OneMore
<1>8. jobs = Jobs(phase', base')
  BY <1>1
<1>9. PICK js : js = jobs
  OBVIOUS
<1>10. /\ browse'.job = job /\ browse'.n = 1 /\ browse'.view = FALSE /\ browse'.last = None
       /\ browse'.done = FALSE /\ browse'.shown = <<>>
  BY <1>1 DEF NoBrowse
<1> HIDE DEF jobs, job
<1>11. Len(js) \in Nat
  BY <1>5, <1>9, PhaseJobs DEF jobs
<1>12. m + 1 \in 0..Len(js) /\ m + 1 >= 1
  <2>1. m + 1 \in 1..Len(js)
    BY <1>7, <1>9
  <2> DEFINE k == Len(js)
             p == m + 1
  <2>2. k \in Nat /\ p \in 1..k
    BY <1>11, <2>1
  <2> HIDE DEF k, p
  <2>3. p \in 0..k /\ p >= 1
    BY <2>2
  <2> QED
    BY <2>3 DEF k, p
<1>13. Doing(m + 1)'
  <2>1. \A i \in 1..(m + 1) : Ended(js[i])' \/ i = m + 1
    BY <1>3, <1>7, <1>9
  <2>2. Underway'
    BY <1>1 DEF Underway
  <2> QED
    BY <1>1, <1>7, <1>8, <1>9, <1>10, <1>12, <2>1, <2>2 DEF Doing, Ended
<1>14. PICK said : said = [i \in 1..0 |-> None]
  OBVIOUS
<1>15. DOMAIN said = 1..0 /\ said = [i \in 1..0 |-> said[i]] /\ AsOneRun!Exposed(said) = FALSE /\ 1..0 = {}
  <2>1. DOMAIN said = 1..0 /\ said = [i \in 1..0 |-> said[i]] /\ 1..0 = {}
    BY <1>14
  <2>2. AsOneRun!Exposed(said) = FALSE
    BY ONLY <2>1, NothingSaid
  <2> QED
    BY <2>1, <2>2
<1>16. PICK j : j = job
  OBVIOUS
<1>17. 0 <= Budget(j) /\ ~Noted(j)
  BY <1>1, <1>16, BrowsingAssumption DEF Budget
<1>18. Saying(said)'
  <2>1. browse'.n - 1 = 0 /\ browse'.job = j
    BY <1>10, <1>16
  <2>2. browse'.view = AsOneRun!Exposed(said)
    BY <1>10, <1>15
  <2>3. ~(\E i \in 1..0 : Done(said[i]))
    BY <1>15
  <2>4. browse'.done = \E i \in 1..0 : Done(said[i])
    BY <1>10, <2>3
  <2>5. \A i \in 1..0 : \E l \in Range(file'.lines) : l.key = Key(j, i) /\ l.reply = said[i]
    BY <1>15
  <2>6. browse'.last = IF 0 = 0 THEN None ELSE [reply |-> said[0], answer |-> Answer(j, said[0], sitting'.code)]
    BY <1>10
  <2>7. browse'.shown = Showed(j, 0, said)'
    BY <1>10, <1>15 DEF Showed
  <2> QED
    BY <1>15, <1>17, <2>1, <2>2, <2>4, <2>5, <2>6, <2>7 DEF Saying
<1> QED
  BY <1>1, <1>2, <1>3, <1>4, <1>13, <1>18 DEF AccountInv

LEMMA StillAccount ==
  ASSUME AskInv, AccountInv, Reuse \/ Post \/ Hear \/ Lose \/ Retry
  PROVE  AccountInv'
<1>1. /\ UNCHANGED <<sitting, phase, todo, base, browse, file>> /\ Underway /\ Underway'
      /\ pc # "idle" /\ pc' # "idle"
  BY DEF Reuse, Post, Hear, Lose, Retry, kept, working, asking, Underway
<1>2. \A job : Ended(job)' <=> Ended(job)
  BY <1>1 DEF Ended
<1>3. BaseRead'
  BY <1>1, BaseSame DEF AccountInv
<1>4. Through'
  BY <1>1, <1>2, ThroughStays DEF AccountInv
<1>5. \A m : Doing(m) => Doing(m)'
  BY <1>1, <1>2 DEF Doing, Ended
<1>6. \A said : Saying(said) => Saying(said)'
  BY <1>1 DEF Saying, Showed
<1> QED
  BY <1>1, <1>3, <1>4, <1>5, <1>6 DEF AccountInv

LEMMA StopsAccount ==
  ASSUME Finish \/ Fail \/ Interrupt \/ WriteFails \/ Crash
  PROVE  AccountInv'
<1>1. pc' = "idle"
  BY DEF Finish, Fail, Interrupt, WriteFails, Crash, Leaves
<1> QED
  BY <1>1 DEF AccountInv

LEMMA FinalAccount ==
  ASSUME AskInv, AccountInv, Write, Final
  PROVE  AccountInv'
<1> DEFINE l == Line(AskedKey, AskedText, got, "reply")
<1>1. /\ pc = "write" /\ pc' = "job" /\ UNCHANGED <<phase, todo, sitting>> /\ FileOK(file)
      /\ file' = [file EXCEPT !.lines = Append(@, l)]
      /\ base' = IF browse.job.probe = "base"
                 THEN [base EXCEPT ![browse.job.test] = Browse(got, browse.shown)] ELSE base
  BY DEF Write, AskInv, Ordered, kept
<1>2. Underway /\ phase \in 1..4 /\ browse.job.probe \in Kind[phase]
  BY <1>1 DEF Underway, AskInv, Stepping, Ordered
<1>3. /\ BaseRead /\ Through /\ \A x \in Range(file.lines) : x.outcome \in {"reply", "note"}
  BY <1>1 DEF AccountInv
<1>4. PICK m : Doing(m)
  BY <1>1, <1>2 DEF AccountInv
<1>5. l.key = Key(browse.job, 0) /\ l.outcome = "reply" /\ l.reply = got /\ l.key.probe = browse.job.probe
  BY DEF Line, AskedKey, Key
<1>6. Range(file'.lines) = Range(file.lines) \cup {l}
      /\ \A j : Ended(j)' <=> Ended(j) \/ l.key = Key(j, 0)
  <2> HIDE DEF l
  <2> QED
    BY <1>1, LineGrows
<1> HIDE DEF l
<1> DEFINE jobs == Jobs(phase, base)
<1>7. Len(jobs) \in Nat /\ DOMAIN jobs = 1..Len(jobs)
  BY <1>2, PhaseJobs
<1>8. /\ m \in 1..Len(jobs) /\ browse.job = jobs[m] /\ m \in 0..Len(jobs) /\ Len(todo) = Len(jobs) - m
      /\ \A i \in 1..Len(todo) : todo[i] = jobs[m + i]
      /\ \A i \in 1..m : Ended(jobs[i]) \/ i = m
  BY <1>2, <1>4, <1>7 DEF Doing
<1>9. BaseRead' /\ Jobs(phase, base') = jobs /\ \A k \in 1..4 : k < phase => Jobs(k, base') = Jobs(k, base)
  <2>1. CASE browse.job.probe = "base"
    <3>1. phase = 1
      BY <1>2, <2>1, KindsDiffer DEF Kind
    <3>2. jobs = TestJobs /\ \A b : Jobs(1, b) = TestJobs
      BY <3>1 DEF Jobs
    <3>3. m \in DOMAIN Tests /\ Tests[m] \in Range(Tests) /\ browse.job = FirstOf(Tests[m])
      BY <1>7, <1>8, <3>2 DEF TestJobs, FirstOf, Range
    <3>4. browse.job.test = Tests[m]
      BY <3>3 DEF FirstOf, Job
    <3>5. /\ base' = [base EXCEPT ![Tests[m]] = Browse(got, browse.shown)] /\ DOMAIN base = Range(Tests)
          /\ base = [t \in Range(Tests) |-> base[t]]
      BY <1>1, <1>3, <2>1, <3>4 DEF BaseRead
    <3>6. /\ DOMAIN base' = Range(Tests) /\ base' = [t \in Range(Tests) |-> base'[t]]
          /\ base'[Tests[m]] = Browse(got, browse.shown)
          /\ \A t \in Range(Tests) : t # Tests[m] => base'[t] = base[t]
      BY <3>3, <3>5
    <3>7. FirstRead(Tests[m])'
      <4> DEFINE job == FirstOf(Tests[m])
      <4>1. PICK n, said : Steps(job, n, said) /\ browse.shown = Showed(job, n, said)
        <5>1. PICK said : Saying(said)
          BY <1>1, <1>2 DEF AccountInv
        <5>2. Steps(browse.job, browse.n - 1, said) /\ browse.shown = Showed(browse.job, browse.n - 1, said)
          BY <1>2, <5>1, TakenIs DEF Saying
        <5> QED
          BY <3>3, <5>2
      <4>2. l.key # Key(job, n + 1)
        <5>1. Budget(job) \in Nat
          BY BrowsingAssumption DEF Budget
        <5>2. n + 1 # 0
          BY <4>1, <5>1 DEF Steps
        <5> QED
          BY <1>5, <5>2 DEF Key
      <4>3. Steps(job, n, said)'
        BY <1>6, <4>1, <4>2, StepsStay
      <4>4. Showed(job, n, said)' = Showed(job, n, said)
        BY <1>1 DEF Showed
      <4>5. l \in Range(file'.lines) /\ l.key = Key(job, 0) /\ base'[Tests[m]] = Browse(l.reply, Showed(job, n, said)')
        BY <1>5, <1>6, <3>3, <3>6, <4>1, <4>4
      <4> QED
        BY <4>3, <4>5 DEF FirstRead
    <3>8. ASSUME NEW t \in Range(Tests), t # Tests[m]
          PROVE  FirstRead(t)' \/ (~Ended(FirstOf(t))' /\ base'[t] = Unmade)
      <4>1. l.key # Key(FirstOf(t), 0) /\ Place(l.key) # Place(FirstOf(t))
        BY <1>5, <3>4, <3>8 DEF Key, FirstOf, Job, Place
      <4>2. base'[t] = base[t]
        BY <3>6, <3>8
      <4>3. CASE FirstRead(t)
        BY <1>1, <1>6, <4>1, <4>2, <4>3, FirstStays
      <4>4. CASE ~Ended(FirstOf(t)) /\ base[t] = Unmade
        BY <1>6, <4>1, <4>2, <4>4
      <4> QED
        BY <1>3, <3>8, <4>3, <4>4 DEF BaseRead
    <3>9. BaseRead'
      BY <3>3, <3>6, <3>7, <3>8 DEF BaseRead
    <3>10. \A k \in 1..4 : ~(k < phase)
      BY <3>1
    <3> QED
      BY <3>1, <3>2, <3>9, <3>10
  <2>2. CASE browse.job.probe # "base"
    <3>1. \A t \in Range(Tests) : l.key # Key(FirstOf(t), 0) /\ Place(l.key) # Place(FirstOf(t))
      BY <1>5, <2>2 DEF Key, FirstOf, Job, Place
    <3> QED
      BY <1>1, <1>3, <1>6, <2>2, <3>1, BaseStays
  <2> QED
    BY <2>1, <2>2
<1>10. Through'
  BY <1>1, <1>3, <1>6, <1>9, ThroughStays
<1>11. \A x \in Range(file'.lines) : x.outcome \in {"reply", "note"}
  BY <1>3, <1>5, <1>6
<1>12. PICK js : js = jobs
  OBVIOUS
<1> HIDE DEF jobs
<1>13. \A i \in 1..m : Ended(js[i])'
  BY <1>5, <1>6, <1>8, <1>12
<1>14. Doing(m)'
  <2>1. ~Underway'
    BY <1>1 DEF Underway
  <2> QED
    BY <1>1, <1>8, <1>9, <1>12, <1>13, <2>1 DEF Doing, Ended
<1> QED
  BY <1>1, <1>9, <1>10, <1>11, <1>14 DEF AccountInv, Underway

\* What one more reply does to the view.
LEMMA SaidOn ==
  ASSUME NEW n \in Nat, NEW said, DOMAIN said = 1..n, NEW g, NEW more,
         more = [i \in 1..(n + 1) |-> IF i <= n THEN said[i] ELSE g]
  PROVE  /\ AsOneRun!Exposed(more) = Viewed(AsOneRun!Exposed(said), g)
         /\ (\E i \in 1..(n + 1) : Done(more[i])) <=> (\E i \in 1..n : Done(said[i])) \/ Done(g)
<1>1. /\ DOMAIN more = 1..(n + 1) /\ more[n + 1] = g /\ \A i \in 1..n : more[i] = said[i]
      /\ \A i \in 1..(n + 1) : i \in 1..n \/ i = n + 1
      /\ 1..n \subseteq 1..(n + 1) /\ n + 1 \in 1..(n + 1)
      /\ \A i \in 1..n : n + 1 > i /\ ~(i > n + 1)
      /\ ~(n + 1 > n + 1)
  OBVIOUS
<1>2. AsOneRun!Exposed(more) <=>
        \/ AsOneRun!Edits(g, "expose")
        \/ AsOneRun!Exposed(said) /\ ~AsOneRun!Edits(g, "prune")
  <2>1. ASSUME AsOneRun!Edits(g, "expose")
        PROVE  AsOneRun!Exposed(more)
    BY <1>1, <2>1 DEF AsOneRun!Exposed
  <2>2. ASSUME AsOneRun!Exposed(said), ~AsOneRun!Edits(g, "prune")
        PROVE  AsOneRun!Exposed(more)
    <3>1. PICK i \in 1..n : /\ AsOneRun!Edits(said[i], "expose")
                            /\ \A j \in 1..n : j > i => ~AsOneRun!Edits(said[j], "prune")
      BY <2>2 DEF AsOneRun!Exposed
    <3>2. \A j \in 1..(n + 1) : j > i => ~AsOneRun!Edits(more[j], "prune")
      BY <1>1, <2>2, <3>1
    <3> QED
      BY <1>1, <3>1, <3>2 DEF AsOneRun!Exposed
  <2>3. ASSUME AsOneRun!Exposed(more), ~AsOneRun!Edits(g, "expose")
        PROVE  AsOneRun!Exposed(said) /\ ~AsOneRun!Edits(g, "prune")
    <3>1. PICK i \in 1..(n + 1) : /\ AsOneRun!Edits(more[i], "expose")
                                  /\ \A j \in 1..(n + 1) : j > i => ~AsOneRun!Edits(more[j], "prune")
      BY <1>1, <2>3 DEF AsOneRun!Exposed
    <3>2. i \in 1..n
      BY <1>1, <2>3, <3>1
    <3>3. ~AsOneRun!Edits(g, "prune")
      BY <1>1, <3>1, <3>2
    <3>4. \A j \in 1..n : j > i => ~AsOneRun!Edits(said[j], "prune")
      BY <1>1, <3>1
    <3> QED
      BY <1>1, <3>1, <3>2, <3>3, <3>4 DEF AsOneRun!Exposed
  <2> QED
    BY <2>1, <2>2, <2>3
<1>3. AsOneRun!Exposed(more) \in BOOLEAN /\ AsOneRun!Exposed(said) \in BOOLEAN
  BY DEF AsOneRun!Exposed
<1>4. AsOneRun!Exposed(more) = Viewed(AsOneRun!Exposed(said), g)
  <2>1. CASE g = Junk
    BY <1>2, <1>3, <2>1 DEF AsOneRun!Edits, Viewed
  <2>2. CASE g # Junk /\ g.edit = "expose"
    BY <1>2, <1>3, <2>2 DEF AsOneRun!Edits, Viewed
  <2>3. CASE g # Junk /\ g.edit = "prune"
    BY <1>2, <1>3, <2>3 DEF AsOneRun!Edits, Viewed
  <2>4. CASE g # Junk /\ g.edit # "expose" /\ g.edit # "prune"
    BY <1>2, <1>3, <2>4 DEF AsOneRun!Edits, Viewed
  <2> QED
    BY <2>1, <2>2, <2>3, <2>4
<1>5. (\E i \in 1..(n + 1) : Done(more[i])) <=> (\E i \in 1..n : Done(said[i])) \/ Done(g)
  BY <1>1
<1> QED
  BY <1>4, <1>5

LEMMA LongerByOne ==
  ASSUME NEW k \in Nat, NEW a, a = [i \in 1..(k + 1) |-> a[i]], NEW s, s = [i \in 1..k |-> a[i]]
  PROVE  Append(s, a[k + 1]) = a
<1>1. s \in Seq(Range(a)) /\ Len(s) = k
  <2>1. \A i \in 1..k : i \in 1..(k + 1)
    OBVIOUS
  <2>2. DOMAIN a = 1..(k + 1)
    OBVIOUS
  <2>3. \A i \in 1..k : a[i] \in Range(a)
    BY <2>1, <2>2 DEF Range
  <2>4. PICK S : S = Range(a)
    OBVIOUS
  <2>5. s \in [1..k -> S] /\ DOMAIN s = 1..k
    BY <2>3, <2>4
  <2>6. s \in Seq(S)
    BY ONLY k \in Nat, <2>5, SeqDef
  <2>7. Len(s) = k
    BY ONLY k \in Nat, <2>5, <2>6, LenProperties
  <2> QED
    BY <2>4, <2>6, <2>7
<1>2. /\ Append(s, a[k + 1]) = [i \in 1..(k + 1) |-> Append(s, a[k + 1])[i]]
      /\ Append(s, a[k + 1])[k + 1] = a[k + 1]
      /\ \A i \in 1..k : Append(s, a[k + 1])[i] = s[i]
  BY <1>1
<1>3. \A i \in 1..(k + 1) : Append(s, a[k + 1])[i] = a[i]
  BY <1>2
<1> QED
  BY <1>2, <1>3

LEMMA StepAccount ==
  ASSUME AskInv, AccountInv, Write, ~Final
  PROVE  AccountInv'
<1> DEFINE l == Line(AskedKey, AskedText, got, "reply")
           n == browse.n - 1
<1>1. /\ pc = "write" /\ pc' = "ask" /\ UNCHANGED <<phase, todo, base, sitting>> /\ FileOK(file)
      /\ file' = [file EXCEPT !.lines = Append(@, l)] /\ browse' = Step(browse)
  BY DEF Write, AskInv, Ordered, kept
<1>2. Underway /\ phase \in 1..4 /\ browse.n \in Nat \ {0} /\ DOMAIN browse = {"job", "n", "view", "last", "shown", "done"}
  BY <1>1 DEF Underway, AskInv, Stepping, Ordered
<1>3. /\ BaseRead /\ Through /\ \A x \in Range(file.lines) : x.outcome \in {"reply", "note"}
  BY <1>1 DEF AccountInv
<1>4. PICK m : Doing(m)
  BY <1>1, <1>2 DEF AccountInv
<1>5. l.key = Key(browse.job, browse.n) /\ l.outcome = "reply" /\ l.reply = got
  BY DEF Line, AskedKey
<1>6. Range(file'.lines) = Range(file.lines) \cup {l}
      /\ \A j : Ended(j)' <=> Ended(j) \/ l.key = Key(j, 0)
  <2> HIDE DEF l
  <2> QED
    BY <1>1, LineGrows
<1> HIDE DEF l
<1>7. \A j : l.key # Key(j, 0)
  <2>1. l.key.n = browse.n /\ \A j : Key(j, 0).n = 0
    BY <1>5 DEF Key
  <2> QED
    BY <1>2, <2>1
<1>8. BaseRead'
  <2>1. \A t \in Range(Tests) : Ended(FirstOf(t)) => Place(l.key) # Place(FirstOf(t))
    <3>1. Place(l.key) = Place(browse.job)
      BY <1>5 DEF Key, Place
    <3> QED
      BY <1>2, <3>1, NotEnded
  <2> QED
    BY <1>1, <1>3, <1>6, <1>7, <2>1, BaseStays
<1>9. Through'
  BY <1>1, <1>3, <1>6, ThroughStays
<1>10. \A x \in Range(file'.lines) : x.outcome \in {"reply", "note"}
  BY <1>3, <1>5, <1>6
<1>11. /\ browse'.job = browse.job /\ browse'.n = browse.n + 1 /\ browse'.view = Viewed(browse.view, got)
       /\ browse'.last = [reply |-> got, answer |-> Answer(browse.job, got, sitting.code)]
       /\ browse'.done = Done(got)
       /\ browse'.shown = Append(browse.shown, Answer(browse.job, got, sitting.code))
  BY <1>1, <1>2 DEF Step, Done
<1>12. Doing(m)'
  <2>1. \A j : Ended(j)' <=> Ended(j)
    BY <1>6, <1>7
  <2>2. Underway'
    BY <1>1 DEF Underway
  <2> QED
    BY <1>1, <1>2, <1>4, <1>11, <2>1, <2>2 DEF Doing, Ended
<1>13. PICK said : Saying(said)
  BY <1>1, <1>2 DEF AccountInv
<1>14. n \in Nat /\ n + 1 = browse.n /\ browse'.n - 1 = n + 1
  BY <1>2, <1>11
<1>15. /\ said = [i \in 1..n |-> said[i]] /\ DOMAIN said = 1..n
       /\ \A i \in 1..n : \E x \in Range(file.lines) : x.key = Key(browse.job, i) /\ x.reply = said[i]
       /\ ~Noted(browse.job) /\ browse.view = AsOneRun!Exposed(said)
       /\ browse.done = \E i \in 1..n : Done(said[i])
       /\ browse.shown = [i \in 1..n |-> Answer(browse.job, said[i], sitting.code)]
  BY <1>13 DEF Saying, Showed
<1>16. browse.n <= Budget(browse.job) /\ ~browse.done
  <2>1. Budget(browse.job) \in Nat
    BY BrowsingAssumption DEF Budget
  <2> QED
    BY <1>2, <2>1 DEF Final
<1>17. PICK k, j, g : k = n /\ j = browse.job /\ g = got
  OBVIOUS
<1> HIDE DEF n
<1>18. PICK more : more = [i \in 1..(k + 1) |-> IF i <= k THEN said[i] ELSE g]
  OBVIOUS
<1>19. /\ more = [i \in 1..(k + 1) |-> more[i]] /\ more[k + 1] = g /\ \A i \in 1..k : more[i] = said[i]
       /\ \A i \in 1..(k + 1) : i \in 1..k \/ i = k + 1
  BY <1>14, <1>17, <1>18
<1>20. /\ AsOneRun!Exposed(more) = Viewed(AsOneRun!Exposed(said), g)
       /\ (\E i \in 1..(k + 1) : Done(more[i])) <=> (\E i \in 1..k : Done(said[i])) \/ Done(g)
  <2>1. k \in Nat /\ DOMAIN said = 1..k
    BY <1>14, <1>15, <1>17
  <2> QED
    BY ONLY <2>1, <1>18, SaidOn
<1>21. ~ \E i \in 1..k : Done(said[i])
  BY <1>15, <1>16, <1>17
<1>22. Done(g) \in BOOLEAN
  BY DEF Done
<1>23. browse'.done = \E i \in 1..(k + 1) : Done(more[i])
  <2>1. browse'.done = Done(g)
    BY <1>11, <1>17
  <2> QED
    BY <1>20, <1>21, <1>22, <2>1
<1>24. browse'.view = AsOneRun!Exposed(more)
  BY <1>11, <1>15, <1>17, <1>20
<1>25. \A i \in 1..(k + 1) : \E x \in Range(file'.lines) : x.key = Key(j, i) /\ x.reply = more[i]
  <2>1. ASSUME NEW i \in 1..k
        PROVE  \E x \in Range(file'.lines) : x.key = Key(j, i) /\ x.reply = more[i]
    BY <1>6, <1>15, <1>17, <1>19
  <2>2. l \in Range(file'.lines) /\ l.key = Key(j, k + 1) /\ l.reply = more[k + 1]
    BY <1>5, <1>6, <1>14, <1>17, <1>19
  <2> QED
    BY <1>19, <2>1, <2>2
<1>26. browse'.last = IF k + 1 = 0 THEN None
                      ELSE [reply |-> more[k + 1], answer |-> Answer(j, more[k + 1], sitting'.code)]
  <2>1. k + 1 # 0
    BY <1>14, <1>17
  <2> QED
    BY <1>1, <1>11, <1>17, <1>19, <2>1
<1>27. k + 1 <= Budget(j) /\ ~Noted(j) /\ browse'.job = j /\ browse'.n - 1 = k + 1
  BY <1>11, <1>14, <1>15, <1>16, <1>17
<1>28. browse'.shown = Showed(j, k + 1, more)'
  <2>1. PICK a : a = [i \in 1..(k + 1) |-> Answer(j, more[i], sitting.code)]
    OBVIOUS
  <2>2. PICK shown : shown = browse.shown
    OBVIOUS
  <2>3. shown = [i \in 1..k |-> a[i]] /\ a = [i \in 1..(k + 1) |-> a[i]] /\ k \in Nat
    <3>1. k \in Nat /\ \A i \in 1..k : more[i] = said[i]
      BY <1>14, <1>17, <1>19
    <3>2. ASSUME NEW i \in 1..k
          PROVE  i \in 1..(k + 1)
      BY ONLY <3>1, <3>2
    <3>3. \A i \in 1..k : a[i] = Answer(j, said[i], sitting.code)
      BY <2>1, <3>1, <3>2
    <3>4. shown = [i \in 1..k |-> Answer(j, said[i], sitting.code)]
      BY <1>15, <1>17, <2>2
    <3> QED
      BY <2>1, <3>1, <3>3, <3>4
  <2>4. Append(shown, a[k + 1]) = a
    BY ONLY <2>3, LongerByOne
  <2>5. browse'.shown = a
    <3>1. k + 1 \in 1..(k + 1)
      BY <1>14, <1>17
    <3>2. a[k + 1] = Answer(browse.job, got, sitting.code)
      BY <1>17, <1>19, <2>1, <3>1
    <3> QED
      BY <1>11, <2>2, <2>4, <3>2
  <2> QED
    BY <1>1, <2>1, <2>5 DEF Showed
<1>29. Saying(more)'
  BY <1>19, <1>23, <1>24, <1>25, <1>26, <1>27, <1>28 DEF Saying
<1> QED
  BY <1>1, <1>2, <1>8, <1>9, <1>10, <1>12, <1>29 DEF AccountInv

LEMMA InitAccount == Init => AccountInv
  BY DEF Init, AccountInv

LEMMA NextAccount == AskInv /\ AccountInv /\ [Next]_vars => AccountInv'
<1> SUFFICES ASSUME AskInv, AccountInv, [Next]_vars PROVE AccountInv'
  OBVIOUS
<1>1. CASE Start \/ WriteHeader
  BY <1>1, BeginsAccount
<1>2. CASE NextPhase
  BY <1>2, NextPhaseAccount
<1>3. CASE Note
  BY <1>3, NoteAccount
<1>4. CASE Begin
  BY <1>4, BeginAccount
<1>5. CASE Reuse \/ Post \/ Hear \/ Lose \/ Retry
  BY <1>5, StillAccount
<1>6. CASE Write
  BY <1>6, FinalAccount, StepAccount
<1>7. CASE Finish \/ Fail \/ Interrupt \/ WriteFails \/ Crash
  BY <1>7, StopsAccount
<1>8. CASE UNCHANGED vars
  <2>1. UNCHANGED <<pc, sitting, phase, todo, base, browse, file>>
    BY <1>8 DEF vars
  <2>2. \A job : Ended(job)' <=> Ended(job)
    BY <2>1 DEF Ended
  <2>3. pc # "idle" => BaseRead' /\ Through'
    <3>1. ASSUME pc # "idle" PROVE BaseRead'
      BY <2>1, <3>1, BaseSame DEF AccountInv
    <3>2. ASSUME pc # "idle" PROVE Through'
      BY <2>1, <2>2, <3>2, ThroughStays DEF AccountInv
    <3> QED
      BY <3>1, <3>2
  <2>4. Underway' <=> Underway
    BY <2>1 DEF Underway
  <2>5. \A m : Doing(m) => Doing(m)'
    BY <2>1, <2>2, <2>4 DEF Doing, Ended
  <2>6. \A said : Saying(said) => Saying(said)'
    BY <2>1 DEF Saying, Showed
  <2> QED
    BY <2>1, <2>3, <2>4, <2>5, <2>6 DEF AccountInv
<1> QED
  BY <1>1, <1>2, <1>3, <1>4, <1>5, <1>6, <1>7, <1>8 DEF Next, Go, Posted

-----------------------------------------------------------------------------
(* Every reply in a file was given to the question beside it.                *)

LEMMA RepliesAre ==
  ASSUME NEW f, FileOK(f), NEW l
  PROVE  /\ Replies([f EXCEPT !.lines = Append(@, l)]) \subseteq Replies(f) \cup {l}
         /\ l.outcome # "reply" => Replies([f EXCEPT !.lines = Append(@, l)]) \subseteq Replies(f)
         /\ Replies([f EXCEPT !.torn = TRUE]) = Replies(f)
         /\ Replies([f EXCEPT !.complete = TRUE]) = Replies(f)
<1>1. [f EXCEPT !.lines = Append(@, l)].lines = Append(f.lines, l)
  BY DEF FileOK
<1>2. Range(Append(f.lines, l)) = Range(f.lines) \cup {l}
  BY AppendIs DEF FileOK
<1>3. [f EXCEPT !.torn = TRUE].lines = f.lines /\ [f EXCEPT !.complete = TRUE].lines = f.lines
  BY FileStays
<1> QED
  BY <1>1, <1>2, <1>3 DEF Replies

LEMMA NoReplies == Replies(NoFile) = {}
  BY NoFileOK DEF Replies, Range

LEMMA LeavesGiven ==
  ASSUME CarryInv, GivenInv, NEW f, Leaves(f), Replies(f) \subseteq given
  PROVE  GivenInv'
<1>1. /\ file' = f /\ disk' = Append(disk, f) /\ pc' = "idle" /\ UNCHANGED <<previous, given>>
  BY DEF Leaves, kept
<1>2. \A i \in DOMAIN disk' : disk'[i] = f \/ \E j \in DOMAIN disk : disk'[i] = disk[j]
  <2>1. disk \in Seq(Range(disk))
    BY DEF CarryInv, Traced
  <2>2. Range(disk') = Range(disk) \cup {f}
    BY <1>1, <2>1, AppendIs
  <2> QED
    BY <2>2 DEF Range
<1>3. Replies(file') = Replies(f)
  BY <1>1 DEF Replies
<1>4. \A i \in DOMAIN disk' : Replies(disk'[i]) \subseteq given
  BY <1>2 DEF GivenInv
<1> QED
  BY <1>1, <1>3, <1>4 DEF GivenInv

LEMMA InitGiven == Init => GivenInv
<1> SUFFICES ASSUME Init PROVE GivenInv
  OBVIOUS
<1>1. DOMAIN <<>> = {}
  OBVIOUS
<1> QED
  BY <1>1, NoReplies DEF Init, GivenInv

LEMMA NextGiven == CarryInv /\ GivenInv /\ [Next]_vars => GivenInv'
<1> SUFFICES ASSUME CarryInv, GivenInv, [Next]_vars PROVE GivenInv'
  OBVIOUS
<1>1. FileOK(file)
  BY DEF CarryInv, AskInv, Ordered
<1> DEFINE told == Line(AskedKey, AskedText, got, "reply")
<1>2. CASE Start
  <2>1. PICK resumed \in {NoFile} \cup Range(disk) : previous' = Replies(resumed)
    BY <1>2 DEF Start
  <2>2. /\ file' = NoFile /\ pc' = "header" /\ UNCHANGED <<disk, given>>
    BY <1>2 DEF Start
  <2>3. previous' \subseteq given
    BY <2>1, NoReplies DEF GivenInv, Range
  <2> QED
    BY <2>2, <2>3, NoReplies DEF GivenInv
<1>3. CASE WriteHeader \/ NextPhase \/ Begin \/ Post \/ Lose \/ Retry
  <2>1. UNCHANGED <<previous, disk, given>> /\ pc' # "write"
    BY <1>3 DEF WriteHeader, NextPhase, Begin, Post, Lose, Retry, kept
  <2>2. file'.lines = file.lines
    BY <1>1, <1>3 DEF WriteHeader, NextPhase, Begin, Post, Lose, Retry, FileOK
  <2>3. Replies(file') = Replies(file)
    BY <2>2 DEF Replies
  <2> QED
    BY <2>1, <2>3 DEF GivenInv
<1>4. CASE Note
  <2> DEFINE l == Line(Key(Head(todo), 0), None, None, "note")
  <2>1. /\ file' = [file EXCEPT !.lines = Append(@, l)] /\ UNCHANGED <<pc, previous, disk, given>> /\ pc = "job"
    BY <1>4 DEF Note, kept
  <2>2. l.outcome # "reply"
    BY DEF Line
  <2> HIDE DEF l
  <2>3. Replies(file') \subseteq Replies(file)
    BY <1>1, <2>1, <2>2, RepliesAre
  <2> QED
    BY <2>1, <2>3 DEF GivenInv
<1>5. CASE Reuse
  <2>1. /\ UNCHANGED <<previous, disk, given, file, browse>> /\ got' \in {l.reply : l \in Reused}
    BY <1>5 DEF Reuse, kept, working
  <2>2. PICK l \in previous : l.key = AskedKey /\ l.text = AskedText /\ got' = l.reply
    BY <2>1 DEF Reused, Answered
  <2>3. l \in given /\ l = Line(l.key, l.text, l.reply, "reply")
    BY <2>2 DEF GivenInv
  <2>4. AskedKey' = AskedKey /\ AskedText' = AskedText
    BY <2>1 DEF AskedKey, AskedText, Final
  <2>5. told' \in given'
    BY <2>1, <2>2, <2>3, <2>4
  <2>6. Replies(file') = Replies(file)
    BY <2>1 DEF Replies
  <2> QED
    BY <2>1, <2>5, <2>6 DEF GivenInv
<1>6. CASE Hear
  <2>1. /\ UNCHANGED <<previous, disk, file, browse>> /\ given' = given \cup {Line(AskedKey, AskedText, got', "reply")}
    BY <1>6 DEF Hear, kept, working
  <2>2. AskedKey' = AskedKey /\ AskedText' = AskedText
    BY <2>1 DEF AskedKey, AskedText, Final
  <2>3. told' \in given' /\ given \subseteq given'
    BY <2>1, <2>2
  <2>4. \A l \in given' : l = Line(l.key, l.text, l.reply, "reply")
    BY <2>1 DEF GivenInv, Line
  <2>5. Replies(file') = Replies(file)
    BY <2>1 DEF Replies
  <2> QED
    BY <2>1, <2>3, <2>4, <2>5 DEF GivenInv
<1>7. CASE Write
  <2>1. /\ file' = [file EXCEPT !.lines = Append(@, told)] /\ UNCHANGED <<previous, disk, given>>
        /\ pc = "write" /\ pc' # "write"
    BY <1>7 DEF Write, kept
  <2>2. told \in given
    BY <2>1 DEF GivenInv
  <2> HIDE DEF told
  <2>3. Replies(file') \subseteq Replies(file) \cup {told}
    BY <1>1, <2>1, RepliesAre
  <2> QED
    BY <2>1, <2>2, <2>3 DEF GivenInv
<1>8. CASE Finish \/ Fail \/ Interrupt \/ WriteFails \/ Crash
  <2> DEFINE l == Line(AskedKey, AskedText, None, "error")
             failed == [file EXCEPT !.lines = Append(@, l)]
  <2>1. PICK f : /\ Leaves(f)
                 /\ f \in {[file EXCEPT !.complete = TRUE], failed, [file EXCEPT !.torn = TRUE], file}
    <3> HIDE DEF failed
    <3> QED
      BY <1>8 DEF Finish, Fail, Interrupt, WriteFails, Crash, failed
  <2>2. l.outcome # "reply"
    BY DEF Line
  <2> HIDE DEF l
  <2>3. Replies(f) \subseteq Replies(file)
    BY <1>1, <2>1, <2>2, RepliesAre
  <2> QED
    BY <2>1, <2>3, LeavesGiven DEF GivenInv
<1>9. CASE UNCHANGED vars
  BY <1>9 DEF vars, GivenInv, AskedKey, AskedText, Final, Replies
<1> QED
  BY <1>2, <1>3, <1>4, <1>5, <1>6, <1>7, <1>8, <1>9 DEF Next, Go, Posted

-----------------------------------------------------------------------------
(* Step by step.                                                             *)

RunInv == CarryInv /\ AccountInv /\ GivenInv

LEMMA SpecRun == Spec => []RunInv
<1>1. Init => RunInv
  BY InitCarry, InitAccount, InitGiven DEF RunInv
<1>2. RunInv /\ [Next]_vars => RunInv'
  BY NextCarry, NextAccount, NextGiven DEF RunInv, CarryInv
<1> QED
  BY <1>1, <1>2, PTL DEF Spec

\* A step that leaves lines, code and replies alone.
LEMMA Unseen ==
  ASSUME file'.lines = file.lines, file'.complete = file.complete, sitting' = sitting, given' = given
  PROVE  UNCHANGED AsOneRun!vars
BY DEF AsOneRun!vars

LEMMA InitReads == Init => AsOneRun!Init
BY DEF Init, AsOneRun!Init, NoFile

LEMMA HearGives ==
  ASSUME RunInv, Hear
  PROVE  AsOneRun!Give \/ UNCHANGED AsOneRun!vars
<1> DEFINE l == Line(AskedKey, AskedText, got', "reply")
<1>1. /\ UNCHANGED <<file, sitting>> /\ given' = given \cup {l} /\ Underway
  BY DEF Hear, kept, working, Underway
<1>2. /\ AsOneRun!Called = Line(AskedKey, AskedText, None, "reply") /\ AsOneRun!Called # AsOneRun!End
  BY <1>1, CallsForAsked DEF RunInv, CarryInv
<1>3. l = [AsOneRun!Called EXCEPT !.reply = l.reply]
  BY <1>2 DEF Line
<1> HIDE DEF l
<1>4. CASE l \in given
  BY <1>1, <1>4, Unseen
<1>5. CASE l \notin given
  <2>1. l \in given' \ given /\ given' = given \cup {[AsOneRun!Called EXCEPT !.reply = l.reply]}
    BY <1>1, <1>3, <1>5
  <2> QED
    BY <1>1, <1>2, <2>1 DEF AsOneRun!Give
<1> QED
  BY <1>4, <1>5

\* A line that the file calls for is one the run may add.
LEMMA LineAdds ==
  ASSUME FileOK(file), NEW l, file' = [file EXCEPT !.lines = Append(@, l)], UNCHANGED <<sitting, given>>,
         AsOneRun!Called # AsOneRun!End,
         \/ AsOneRun!Called.outcome = "note" /\ l = AsOneRun!Called
         \/ /\ AsOneRun!Called.outcome # "note"
            /\ \/ l \in given /\ l.key = AsOneRun!Called.key /\ l.text = AsOneRun!Called.text
               \/ l = [AsOneRun!Called EXCEPT !.outcome = "error"]
  PROVE  AsOneRun!Add
<1>1. file'.lines = Append(file.lines, l) /\ file'.complete = file.complete
  BY DEF FileOK
<1>2. file.lines # file'.lines
  <2>1. file.lines \in Seq(Range(file.lines))
    BY DEF FileOK
  <2>2. Len(file.lines) \in Nat /\ Len(Append(file.lines, l)) = Len(file.lines) + 1
    BY <2>1, AppendIs
  <2> QED
    BY <1>1, <2>2
<1> QED
  BY <1>1, <1>2 DEF AsOneRun!Add

LEMMA NoteAdds ==
  ASSUME RunInv, Note
  PROVE  AsOneRun!Add
<1> DEFINE l == Line(Key(Head(todo), 0), None, None, "note")
<1>1. /\ pc = "job" /\ todo # <<>> /\ Noted(Head(todo)) /\ UNCHANGED <<sitting, given>>
      /\ file' = [file EXCEPT !.lines = Append(@, l)] /\ FileOK(file)
  BY DEF Note, kept, RunInv, CarryInv, AskInv, Ordered
<1>2. AsOneRun!Called = l /\ AsOneRun!Called # AsOneRun!End
  BY <1>1, CallsForNote DEF RunInv, CarryInv
<1>3. l.outcome = "note"
  BY DEF Line
<1> HIDE DEF l
<1> QED
  BY <1>1, <1>2, <1>3, LineAdds

LEMMA WriteAdds ==
  ASSUME RunInv, Write
  PROVE  AsOneRun!Add
<1> DEFINE l == Line(AskedKey, AskedText, got, "reply")
<1>1. /\ pc = "write" /\ UNCHANGED <<sitting, given>> /\ Underway
      /\ file' = [file EXCEPT !.lines = Append(@, l)] /\ FileOK(file)
  BY DEF Write, kept, RunInv, CarryInv, AskInv, Ordered, Underway
<1>2. /\ AsOneRun!Called = Line(AskedKey, AskedText, None, "reply") /\ AsOneRun!Called # AsOneRun!End
  BY <1>1, CallsForAsked DEF RunInv, CarryInv
<1>3. l \in given /\ l.key = AsOneRun!Called.key /\ l.text = AsOneRun!Called.text /\ AsOneRun!Called.outcome # "note"
  <2>1. l \in given
    BY <1>1 DEF RunInv, GivenInv
  <2> QED
    BY <1>2, <2>1 DEF Line
<1> HIDE DEF l
<1> QED
  BY <1>1, <1>2, <1>3, LineAdds

LEMMA FailAdds ==
  ASSUME RunInv, Fail
  PROVE  AsOneRun!Add \/ UNCHANGED AsOneRun!vars
<1> DEFINE l == Line(AskedKey, AskedText, None, "error")
<1>1. /\ UNCHANGED <<sitting, given>> /\ Underway /\ FileOK(file)
      /\ file' = [file EXCEPT !.lines = Append(@, l)] \/ file' = [file EXCEPT !.torn = TRUE]
  BY DEF Fail, Leaves, kept, RunInv, CarryInv, AskInv, Ordered, Underway
<1>2. /\ AsOneRun!Called = Line(AskedKey, AskedText, None, "reply") /\ AsOneRun!Called # AsOneRun!End
  BY <1>1, CallsForAsked DEF RunInv, CarryInv
<1>3. l = [AsOneRun!Called EXCEPT !.outcome = "error"] /\ AsOneRun!Called.outcome # "note"
  BY <1>2 DEF Line
<1>4. CASE file' = [file EXCEPT !.torn = TRUE]
  <2>1. file'.lines = file.lines /\ file'.complete = file.complete
    BY <1>1, <1>4 DEF FileOK
  <2> QED
    BY <1>1, <2>1, Unseen
<1> HIDE DEF l
<1>5. CASE file' = [file EXCEPT !.lines = Append(@, l)]
  BY <1>1, <1>2, <1>3, <1>5, LineAdds
<1> QED
  BY <1>1, <1>4, <1>5

LEMMA FinishCompletes ==
  ASSUME RunInv, Finish
  PROVE  AsOneRun!Complete \/ UNCHANGED AsOneRun!vars
<1>1. /\ pc = "job" /\ todo = <<>> /\ phase = 4 /\ UNCHANGED <<sitting, given>> /\ FileOK(file)
      /\ file' \in {[file EXCEPT !.complete = TRUE], [file EXCEPT !.torn = TRUE], file}
  BY DEF Finish, Leaves, kept, RunInv, CarryInv, AskInv, Ordered
<1>2. CASE file' = [file EXCEPT !.complete = TRUE]
  <2>1. file'.complete = TRUE /\ file'.lines = file.lines
    BY <1>1, <1>2 DEF FileOK
  <2>2. AsOneRun!Called = AsOneRun!End /\ ~AsOneRun!Failed
    BY <1>1, CallsForNothing DEF RunInv, CarryInv
  <2> QED
    BY <1>1, <2>1, <2>2 DEF AsOneRun!Complete
<1>3. CASE file' = [file EXCEPT !.torn = TRUE] \/ file' = file
  <2>1. file'.lines = file.lines /\ file'.complete = file.complete
    BY <1>1, <1>3 DEF FileOK
  <2> QED
    BY <1>1, <2>1, Unseen
<1> QED
  BY <1>1, <1>2, <1>3

LEMMA StartsAnew ==
  ASSUME Start
  PROVE  AsOneRun!Anew
<1>1. file' = NoFile /\ given' = given /\ sitting'.code \in Codes
  BY DEF Start
<1> QED
  BY <1>1 DEF AsOneRun!Anew, NoFile

LEMMA StepReads == RunInv /\ [Next]_vars => [AsOneRun!Next]_(AsOneRun!vars)
<1> SUFFICES ASSUME RunInv, [Next]_vars PROVE AsOneRun!Next \/ UNCHANGED AsOneRun!vars
  OBVIOUS
<1>1. FileOK(file)
  BY DEF RunInv, CarryInv, AskInv, Ordered
<1>2. CASE WriteHeader \/ NextPhase \/ Begin \/ Reuse \/ Post \/ Retry \/ Lose \/ Interrupt \/ WriteFails \/ Crash
  <2>1. /\ file' = file \/ file' = [file EXCEPT !.torn = TRUE]
                        \/ file' = [file EXCEPT !.inputs = sitting.inputs, !.code = sitting.code]
        /\ UNCHANGED <<sitting, given>>
    BY <1>2 DEF WriteHeader, NextPhase, Begin, Reuse, Post, Retry, Lose, Interrupt, WriteFails, Crash, Leaves,
                kept, working, asking
  <2>2. file'.lines = file.lines /\ file'.complete = file.complete
    BY <1>1, <2>1 DEF FileOK
  <2> QED
    BY <2>1, <2>2, Unseen
<1>3. CASE UNCHANGED vars
  BY <1>3, Unseen DEF vars
<1> QED
  BY <1>2, <1>3, HearGives, NoteAdds, WriteAdds, FailAdds, FinishCompletes, StartsAnew
  DEF Next, Go, Posted, AsOneRun!Next

\* Whatever was stopped, failed or crashed on the way, and whatever was resumed
\* of an earlier file, the file in hand is the account of one run.
THEOREM FileReadsAsOneRun == Spec => ReadsAsOneRun
<1>1. RunInv /\ [Next]_vars => [AsOneRun!Next]_(AsOneRun!vars)
  BY StepReads
<1> QED
  BY InitReads, SpecRun, <1>1, PTL DEF Spec, ReadsAsOneRun, AsOneRun!Spec
=============================================================================
