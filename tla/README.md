# Verification of the SysML federation

TLA+ models, TLC runs and TLAPS proofs for `sysml-federation`: a SysML v2 file
served as one GraphQL graph by three subgraphs behind a federation router, and
two browser applications that follow it live.

Every definition is a translation of the source; `PROJECT.json` gives the lines
of each ("map"), the runs, the seeded faults that show each property can fail
("mutants"), the hazards the properties answer, and the theorems.

## Inventory

| Component | Source | State it keeps | Operations |
|---|---|---|---|
| Parser and lexer | `adapter/syntax` | none, pure | text to syntax tree, with spans |
| Model builder, evaluator, patch | `adapter/model` | none, a `Model` is immutable | parse, resolve, evaluate, `SetAttribute`, `SetLimit` |
| Model store | `adapter/projection` | shipped and current model, version, subscriber channels, one mutex | `Current`, `SetAttribute`, `SetLimit`, `Reset`, `Subscribe`; one pinned model per operation |
| Document tree | `examples/pipeline/document/tree` | ordered tree, excluded requirements, id counter | `Move`, `InsertHeading`, `AddProse`, `EditText`, `Exclude`, `Include` |
| Document service | `examples/pipeline/document` | the tree, version, subscriber channels, one mutex | the six above and reset, `document`, `requirement`, `subscribe` |
| Capacity service | `examples/pipeline/capacity` | none, pure | requirement entities to rollup and verdict |
| Flow | `examples/pipeline/capacity/flow` | none, pure | maximum flow, cut, verdict |
| Supervisor | `cmd/sysml-federation` | started servers, router process, failure channel | start in order, wait for health, stop in reverse |
| Command and health check | `main.go`, `healthcheck.go` | the subcommand, one server alone, two probes | dispatch, run, exit with a status |
| Router | external binary | composed graph | query plan, subscription relay |
| Live applications | `examples/pipeline/ui` | last answer, drag state, stream state | subscribe, refresh, mutate, render |
| Entity resolution | `federation.go`, `entity.resolvers.go` of each subgraph | one answer list per call | resolve each representation in a goroutine of its group |
| Generated GraphQL execution | `generated.go` of each subgraph | the answer of one operation, as it is composed | run a field, count a null, void an object or list |
| Experiment | `experiments/llm-resolution` | the replies of a language model, one line each in a file | put questions, retry, stop, resume, probe |

How they interact: the browser sends queries and mutations to the router, which
fetches from the adapter (model), the document service (structure) and the
capacity service (verdicts) and merges the answers. The adapter and the document
service each announce a new version to their subscribers after an accepted
mutation; the router relays both streams to the browser, and an application that
hears a version fetches again. Nothing is persisted: a restart is a reset.

What is hard in each, and what makes it correct:

- **Model store.** One mutex, but readers use the model they hold without it,
  and subscribers empty their one-slot channels while `notify` fills them.
  Correct when the publisher never blocks or panics, one operation never mixes
  two models, a version names one model for good, and the last version reaches
  everyone who stays.
- **Builder, evaluator, patch.** Bindings are inherited, shared between usages
  and may refer to each other in circles. Correct when every usage is served
  what its own scope makes of an expression, building always ends, and an edit
  moves the one literal it was asked for.
- **Document tree.** Ids, an exclusion that promotes children, an inclusion that
  falls back, indexes counted after a removal. Correct when it stays a tree,
  loses nothing, numbers as an outline, and leaves the rest in order.
- **Flow and capacity.** A search whose intermediate choices depend on the order
  of the wires and whose result must not. Correct when the number is the minimum
  cut, the cut is the one named in the document, and verdict and capacity agree.
- **Supervisor.** Five components that may fail at any moment and a context that
  may end at any moment. Correct when nothing is left running, dependants go
  first, stopping fits the container's grace, the process exits, its status says
  why, and a health check that passes has seen the demo whole.
- **Parser.** Hand-written lookahead, optional parts and loops that leave the end
  of the file to others. Correct when every text of the notation is accepted
  (one name apart, finding 4), every text comes to an end, and an expression is read
  in its only reading.
- **Names and relations.** Identifiers are names, short names or chains, looked
  up in the part, its enclosing parts and the package. Correct when what is
  accepted is served whole and a reference does not hang on the order of
  declarations, but for the later of two definitions of one name counting.
- **Entity resolution.** A goroutine for each representation, in groups, some
  answered inline. Correct when each answer stands in its own place and reads
  the one model the call began with.
- **Generated execution.** Resolvers run side by side under every object, any may
  fail, and several mutations may be in one operation. Correct when a failure
  costs what the schema says and no more, and a field's answer is of one model.
- **Experiment.** Hours of questions, any of which may fail, and a file that is
  taken up again. Correct when the file reads as one run, no question is asked
  twice for nothing, and a sitting ends.
- **Live applications.** Answers out of order, streams that end, hang or fall
  silent, drags that hold back answers. Correct when the page never goes back,
  never redraws under a drag, shows what was announced to it, and what a person
  does to it happens as it was shown, or not at all.

## Modules

| Module | Models | Checked by | Proved in |
|---|---|---|---|
| `VersionFeed` | what a subscriber may rely on (abstract) | `MCModelStore.cfg`, as `ImplementsFeed` | |
| `ModelStore` | `store.go`, `broadcast.go`, `projection.go`, the edit of `patch.go` | `MCModelStore.cfg` | `ModelStoreProofs` |
| `ModelBuild` | `build.go`, `eval.go`, `constraint.go`, `patch.go`: values | `MCModelBuild.cfg` | `BuildProofs` |
| `ModelLinks` | `build.go`, `resolve.go`, `projection.go`: names, ids, relations | `MCModelLinks.cfg` | |
| `Notation`, `Parser` | the notation as a grammar; `syntax/parser.go`, `expr.go` | `MCParser.cfg` | |
| `Expression` | `expr.go`: the tree | `MCParser.cfg` | |
| `Lexer` | `lexer.go` | `MCParser.cfg` | |
| `Entities` | `__resolve_entities` of `federation.go`, entity resolvers | `MCEntities.cfg` | `SubgraphProofs` |
| `Schemas`, `Execution` | the three `generated.go`: what they make of the schemas; one operation | `MCEntities.cfg` | `SubgraphProofs` |
| `DocumentTree` | `tree/tree.go`, `Service.reset` | `MCEditing.cfg`, through `Editing` | `EditingProofs` |
| `Editing` | `document/app.js` and `document/service.go` on top of `DocumentTree` | `MCEditing.cfg` | `EditingProofs` |
| `Rollup` | `flow/flow.go` | `MCRollup.cfg`, `RollupLeftOut.cfg` | `FlowProofs` |
| `Verdict` | `flow/verdict.go`, `resolver.go` on top of `Rollup` | `MCRollup.cfg` | `FlowProofs` |
| `Supervisor` | `serve.go` | `Command.cfg`, through `Command` | `SupervisorProofs` |
| `Command` | `main.go`, `healthcheck.go` around `Supervisor` | `Command.cfg` | `SupervisorProofs` |
| `LiveApp` | `shared/graphql.js`, `document/app.js`, with the announcements of any service and the router's fetches | `Page.cfg`, `PageMissed.cfg` | `LiveAppProofs` |
| `Browsing`, `Campaign` | the experiment's `run.go`, `browse.go`, `results.go`, `ollama.go`, `main.go` | `MCCampaign.cfg` | `CampaignProofs` |
| `Transcript` | what a reader of a results file may rely on (abstract) | `MCCampaign.cfg`, as `ReadsAsOneRun` | `CampaignProofs` |

Each `MC` module gives a module its values and is checked with the `.cfg` of its
name; `MCParser` also puts `Expression` and `Lexer` beside `Parser`, and `MCEntities`
extends both `Entities` and `Execution`: one of them runs, the others stand still.

An operator commented "Seeded fault" is not part of a specification; it is what
its neighbour becomes in a mutant.

**ModelStore.** Models are objects on a heap and goroutines hold pointers, so
`heap` is a sequence, `current` and `pin[o]` are indexes, and `install` writes
the version into the object it is handed, as the code does. The mutex is `mu`.
Everything under it is one step except `notify`, which is cut at each drain and
each send because the subscriber at the other end takes no lock. `Begin` is
`Resolver.current`'s pin, `Return` the unlock, `Advance` the re-pin after a
mutation, `Finish` the end of the operation, `Leave` and `Unregister` the end of
a context and the goroutine that closes the channel. The text of a model is
reduced to the values of its literals, and what makes a literal editable or a
text acceptable is a constant here; `ModelBuild` is where these are computed.

**ModelBuild.** A source maps an owner (a definition or a usage) and a name to
nothing, a literal, a chain or a quotient. `Project`, `Descend` and `Ascend` are
the calls of `project`, `eval`, `expr` and `chainValue` with the stack made
explicit; `values` and `Busy` are the builder's two maps; `Fail` is the panic
that `Parse` recovers. `SetLiteral` is the edit: it patches one literal and builds again,
and the model served stays when that fails. `Meaning` is the independent
definition: what can be known of every slot, in as many rounds as there are
slots, with no stack, memo or order.

**ModelLinks.** A source is the sequence of a package's declarations, and a step
declares one more, anywhere. `DefChain`, `Slots` and `Ports` are what `build`
collects along a definition's bases; `FindPart` and its neighbours look a name
up from where it stands outwards; `Accepts` is everything `build` refuses;
`Links` is the set of pairs every relation field of the projection would answer.
The four tables of definitions are keyed by name and filled in the order of the
text, so that the later of two definitions of one name takes the place of the
earlier (`InForceReversed`), while a second part of one name is refused.
Two passes over the same records: `ModelBuild` has the values, this the names.

**Notation, Parser, Expression.** `Notation` is the grammar, as the forms of each
nonterminal. `Parser` is the recursive descent with its call stack made explicit
(`stack`), the tokens it has looked at (`ahead`) and the text that is still to
come (`text`). A text is written only as far as the parser has looked, so that
every text is tried: the texts of the grammar (`writing` is "Text"), or any
tokens ("Anything") until at some point the rest becomes the shortest way to
close what is open ("Closing"). The functions are tables: `NameReads` to
`DerivationReads` say what each reads next, the `In...` operators what each body
loop does. `Expression` is `parseExpr` and its levels as recursive operators over
short sequences of tokens, against the set of all readings.

**Lexer.** `LexOne` is one turn of the loop of `Lex`, with `scanNumber` and
`matchOperator`; `Spells` says without a scan what a token of each kind is, and
`Longest` that the longest is taken.

**Entities.** `next` walks the representations and groups them; `started`,
`inner`, `outer` and `caller` are the executor's wait groups; `worker[i]` is the
goroutine or inline call of one representation, which takes what it finds,
recovers from a panic, and leaves. The document service's version may move
between any two of them; the adapter's is pinned.

**Schemas, Execution.** `Schemas` has two tables per type of each subgraph, read
off two places in the generated code: the field functions (what a field is of,
whether null is an error, whether a resolver is called) and the executors (the
fields whose null voids the object). `Execution` runs one operation over them.
A field in the answer is a position, a path of fields and, below a list, one of
two elements; `ResolveSome`, `ResolveNil` and `ResolveFails` are the three outcomes of
its function, `Compose` what the executor or the list's marshaller makes of what
was selected on it, `invalids` the counter the executors share, `Respond` the end
of `Exec`. The fields of a mutation run one after the other, every other order is
open. `pin` and `source` say of which model an answer is, so that mutations in one
operation are told apart. That a list or object that is void counts as null where
it must not be is the library's (`graphql.ResolveField`, `RequiredNull`), and so is
the dispatch of concurrent fields. Scalars, arguments, deferred fields,
introspection and empty lists are left out; a bad argument is a field that fails.

**Browsing, Campaign, Transcript.** `Browsing` has the order of the questions and
what goes into each text; replies are records of what later steps depend on (the
tool called, whether it edits the view, what the final answer links and cites). A
tool's answer is known by the code and the model it is made from. What a probe finds
to ask, and what its task and its tools leave out, hang on the final answer of the
test's first browse and on every answer its tools gave there (`Browse`, `Asks`),
which a resumed sitting computes again under the code of its own day. `Campaign`
is a process that may stop after any line: `Post`, `Hear`,
`Lose`, `Retry` are `Client.Chat`; `Reuse` takes a reply from the resumed file;
`Write` and `WriteFails` are the line writer; `Interrupt`, `Fail` and `Crash` end
a sitting, and `Finish` one that has asked everything, whether the summary is
written, cut short or not begun. `Transcript` sees only the lines of the file in
hand and says which
question they call for next: from the keys in the file, which browses have no end
and how far the one that is due has come; from the replies, its view and its last
answer. It keeps no counter, list of work or locals of a browse, as `Campaign` does.

**DocumentTree.** `kids[n]` is the ordered list of children. A node is found by
looking for the list that holds it, as `locate` does by walking. An operation
that is refused changes nothing and is not a step.

**Editing.** A page that shows the document, people who change it, and the
service between them. `served` is the tree of the page's last answer, `markup` its
lists as they are on the screen: a drop moves its element at once (`Drop`), and
the mutation is sent with the parent and the index it has there. `Press` is every
button. `Apply` performs a mutation on the tree as it is when it arrives, or the
service refuses it; `Fail` and `Lose` are a refusal told and an answer that never
arrives; `Other` is any other client. A refresh is read in parts, since the tree is
one field and whether a requirement is excluded is looked up for each of them, under
a lock of its own: `Refresh` begins it, `ReadTree` and `ReadIncluded` may have other
clients' operations between them, and `Render` draws what came together. Or it fails
(`FailRefresh`): the error is told, what was drawn stays, and `failed` remembers it.
The module extends `DocumentTree`, whose properties are checked here, under what a
page and others really send.

**Rollup, Verdict.** The network is a function from arcs to what is left of their
capacity. `Bfs` is one round of `bfs`; `Advance`, `Retreat` and `Augment` are a
call, a return of 0 and a return of flow through all calls of `dfs`; `dead` is what `next`
has moved past. The order of adjacency lists is left open, so every order the
wires could have been given in is covered. `Past`, `Cheapest` and `Met` define
the minimum cut on the wiring itself. `Verdict` puts `Verdict` and `Analyse` on
every outcome of a `Rollup`.

**Supervisor.** `pc` is the place in `run`; each early return leads to the
deferred stop. `Break` and `Report` are a server's goroutine, `RouterExits` and
`Reap` the child and its `Wait`, `CtxEnds` the signal. Time is seconds spent in
stopping and the possibility that a wait runs into its limit.

**Command.** `place` is where `run` of `main.go` is. `Serve` is any step of the
supervisor; a subcommand that runs one server keeps it in `lone`. `health` is a
second process, the container's health check, run again and again, one at a time,
whose two probes see the first at two moments; `stood` remembers whether the demo
was whole at the second.

**LiveApp.** An answer is a row of versions per source, one for each fetch the
router makes, since a query may read a service more than once. `generation`,
`served`, `pending`, `dragging` and `flushDue` are the page's variables;
`painted` is what the markup shows; `missed` is a history of changes whose
announcement was lost with a stream or whose refresh failed. The viewer is the same
machine with one source and no drags.

## Runs

| Run | Shows | Bounds | States |
|---|---|---|---|
| `store` | No panic, no blocked publisher, one model per operation, versions name models, only editable literals move; the store implements `VersionFeed`; a subscriber that stays is told the latest version, one that leaves is released | 2 operations, 2 subscriptions, 3 literals (a plain one, a divisor, one that two values share), versions to 3 | 80 thousand |
| `editing` | The document is a tree, nothing is lost, numbers are an outline, an edit leaves the rest in order; the markup is what was served, or a refusal or an answer that corrects it is on its way, or the last refresh has failed; what is done on a page that shows the tree as it is, and to put something back the list of what is excluded, happens as it was shown, in sight | 4 shipped nodes, a requirement with a derived one, a heading, and prose with an id as the program makes them, 2 made nodes, 3 indexes, a page of two levels, 2 acts while it is open | 355 thousand |
| `model_build` | What is served is what the source means, a text is refused exactly when it has no meaning, an edit moves one literal | 2 parts with a definition and its specialization, 2 requirements of one definition, 1944 sources, 2 edits to -1, 0 or 4 | 540 thousand |
| `model_links` | An accepted source is served whole: every relation ends in one element of its kind; no reference hangs on the order of declarations or on what else is declared, and of two definitions of one name the later counts | 11 declarations with every relation and up to 2 of 10 more, second definitions of each of the four kinds among them, in every place | 8 thousand |
| `parser` | Every text of the notation is accepted, but for a usage named 'def' in quotes; what is read on from can still be completed, but for the checks made late; `Parse` returns; an expression has one reading and it is the one read; a text is cut into the longest tokens, without a gap, and refused where none begins | texts of nesting up to 15 symbols, names plain or 'def' in quotes, any tokens with 8 calls open, expressions of 6 of 9 tokens, texts of 4 to 7 characters of those that meet | 1.7 million |
| `subgraph` | Every representation is answered in its place, with the element its key names at a version reached while the call ran, or is reported; a failure nulls what the schema says and nothing else, is reported once, and every answer is of one model | 3 representations, 2 types, each subgraph, 2 versions; every field of the three schemas two and three steps down, each two that may be null side by side, and some deeper; 2 elements per list, 3 versions | 1.9 million |
| `rollup` | Flow conserved at every step, capacity the minimum cut and the cut the entry-side one; verdict, capacity, error and named limit agree; calls return | every acyclic wiring of 4 children with values 0 to 2; every wiring of 3, cycles, a self-wire and a wire to a part that is not a child included, values missing, -1, 0 and 2; two groups of two that loop or are joined; all requirements | 176 thousand |
| `rollup_left_out` | finding, below | the same | |
| `supervisor` | Nothing left running and no reporter stuck, dependants stop first, the grace suffices; every subcommand exits, and its status says why | every subcommand, health checks one after another without end; the system is finite | 520 thousand |
| `page` | Never goes back, never redraws under a drag, shows what was announced; streams come back | 1 source, 2 fetches, versions to 3, 1 lost stream, 1 failed query, 2 drags, 1 wake | 600 thousand |
| `page_missed` | finding, below | 1 source, nothing fails | |
| `campaign` | The file reads as one run; no question is asked twice for nothing; a file resumed with its own code is taken over whole before anything is asked; a sitting ends | 2 sittings, 2 tests, 2 incident variants, 2 probes, 2 servers, 2 states of the code, the later of which shows a word to delete no more, 2 attempts | 290 thousand |

Why the bounds are enough to be interesting. Two operations and two subscribers
give every pairwise race of the store: publisher against publisher, against a
reader of a full slot, against a leaver; a third version is what a slot has to
drop one. Four children give branches that cross, which is where a flow sent the
wrong way has to be taken back; three with cycles and self-wires give the cases
an acyclic wiring cannot. One source is enough for `page`: the streams meet only
in the refresh, and to one source's version the announcement of another is a
page made visible again. A text of 15 symbols is a package with a body in a body
and the longest statement in it. Two sittings are a file and the one that resumes
it; the second file is read as the first was. Three representations put two in
one group and one in another. Two fields side by side are what it takes for one
to fail while another runs, two elements of a list for one to be void and not the
other. Seven characters hold a note within a comment. Two made nodes let a heading be put above a heading and
prose below it, and the shipped `n1` makes the id counter skip. In `model_build`
a definition with a specialization gives three places that may bind a name, and
two usages are what it takes to share. Two drags let the timer of one drop fire
under the next. Bounds are constants, each named in the module's header; reaching
one only stops that kind of step.

`CHECK_DEADLOCK FALSE` is set where a behaviour really ends: a rollup that has
returned, a process that has exited, a model refused at load, a page whose bounds are used
up.

### Fairness

- `ModelStore`: goroutines inside the store are scheduled (weak fairness of each
  operation's steps under the mutex). `sync.Mutex` does not starve a waiter, so
  `Unregister`, which competes for it, has strong fairness. A transport reads its
  channel while its client is there. Nobody has to begin an operation or leave.
- `Command`: `run` and its goroutines are scheduled, and a process that was
  sent SIGKILL dies. Nothing has to fail and nobody has to end the context.
- `LiveApp`: timers and callbacks of the page run, the router answers a query it
  works on unless it fails, a stream asked for is registered unless it is lost,
  and a person lets go of a drag. Nobody has to publish, look or drag.
- `Campaign`: the process runs on, and a post has an outcome, an answer, a loss or
  a failure, since the client gives up after ten minutes. Nobody has to start a
  sitting or stop one.
- `Parser`: a call runs on, and the text goes on until it ends. A text that never
  ends is no text.
- `Rollup`: a call runs on (weak fairness of `Next`).

## What is proved

`ModelStoreProofs` proves, for any finite or infinite sets of operations,
subscriptions and literals and any bound on versions:

| Theorem | States |
|---|---|
| `Invariant` | `Spec => []IInv` |
| `TypeCorrect` | type correctness |
| `PublisherSafe` | no send on a closed channel, and no publisher that waits for a subscriber |
| `OneVersionPerOperation` | an operation reads one model, a mutation its own |
| `VersionsNameModels` | no two models share a version, and the counter is the current one's |
| `EditsStayInBounds` | no run of edits and resets moves a literal that is not editable |
| `Refinement` | the store implements `VersionFeed` |

The assumptions are `ConstantsAssumption`: the shipped text is accepted, editable
literals are literals, accepted values are requested ones, the two kinds of
goroutine are distinct.

The argument. `NoPanic` is not inductive: a send is safe because the channels
`notify` still has to reach are registered (`Registered`), which holds because
unregistering takes the mutex that the publisher holds (`Exclusive`).
`SendNeverBlocks` needs the drain before each send and that nobody else fills the
slot. `VersionNamesModel` needs that models are allocated and numbered in step
(`Numbered`), and `PinnedModelUnchanged` that a mutation's own model stays what it
was from install to re-pin (`MadeUnchanged`), although `install` writes into an
object it is handed. For the refinement, a version told must be news and at most
the counter (`Fresh`). `IInv` is the conjunction; there is one lemma per action,
and under it one step per conjunct that the action can disturb. `FeedStep` maps
each step of the store to a step of the feed or a stutter: an install is a
`Publish`, a registration an `Open`, a receive a `Tell`, an unregistration an `End`.

`SubgraphProofs` proves of `Entities`, for any number of representations, any
types and ids and any model:

| Theorem | States |
|---|---|
| `Invariant` | `Spec => []IInv` |
| `AnsweredInPlace` | when the field has been answered, every representation has its own answer at its own place, or a null and exactly one error |

The argument: the wait groups' counters are the number of goroutines of a group,
and of groups, that have not ended (`CountersCount`, by the cardinality of a set
with one element fewer); so a counter at zero leaves nobody who could still write,
and who has ended has settled its own place and no other (`Settles`). Groups hold
the places of their type (`GroupsByType`), which is why the place a goroutine
writes to is the one its representation came from.

It proves of `Execution`, for every operation the three schemas allow and any order
of its resolvers:

| Theorem | States |
|---|---|
| `NullsStopWhereTheSchemaSays` | a place of the answer is null exactly where it failed or something that may not be null below it is; each failure is reported once; the answer as a whole is void exactly when a null reached it |
| `EachFieldReadsOneModel` | a query answers from the model of its beginning, and what is selected on each of several mutations from the model that one made, whatever is changed meanwhile |
| `AnswersAreAsDeclared` | both |

The hypothesis is `Executable` of every request: its paths are made of fields the
schemas declare and begin at its root. TLC evaluates it on the requests the run
lists (`MCRequestsAreExecutable`).

The argument. The code voids an object when its field function says an error and
its executor says invalid, two tables generated apart. That they agree, for every
type of the three schemas, is `AdapterWhole`, `CapacityWhole` and `DocumentWhole`,
which go through both. The positions of an answer are ordered by what lies below
what. The invariant `NullInv` then says that the counter the executors share is
above zero exactly when a child is null and must not be (`Tallied`), that a void
position has something under it that answered null (`Grounded`), on a path of fields
none of which may be null, and that nothing complete is kept above one (`Kept`):
where a null stops needs no induction on depth. `SourceInv` says that what runs reads the model pinned,
and that of several mutations those asked before have their whole answer before the
next one is taken up (`InTurn`), which is why one pin serves them all.

`LiveAppProofs` proves, for any finite set of sources, any number of fetches per
answer and any bounds:

| Theorem | States |
|---|---|
| `PageInvariant` | `Spec => []IInv` |
| `PageNeverGoesBack` | no part of a source is drawn older than it was, whatever order the answers come in |
| `PageHoldsStill` | nothing replaces the markup under a drag |

The argument is a chain of versions: what a refresh has fetched is no newer than
its source (`FetchedIsPast`), what was served no newer than what the newest
refresh has fetched (`NewestIsAhead`, because it began after the one served), what
is painted no newer than what was served (`PaintedIsServed`), and what a drag
holds back is exactly what was served (`PendingIsServed`), so that a refusal
and the timer of an old drop draw nothing old.

`BuildProofs` proves, for any finite set of attributes, any inheritance between
definitions, any sources over them and any number of edits:

| Theorem | States |
|---|---|
| `BuildIsMeaning` | each usage is served what its own scope makes of its expression; a text is refused only when a projected value has no meaning; calls are no deeper than there are attributes |
| `EditsMoveOneLiteral` | an installed edit gives the slot asked for the value asked for, and moves nothing else but computed values |

The assumptions are `BuildAssumption` (parts and requirements are distinct, each
projected value is built, numbers in the shipped text are not negative) and
`SourceAssumption`: a name stands for an attribute, which is what `ModelLinks` has
the builder refuse otherwise, and a constraint compares with a literal or an
attribute of its requirement (`constraint.go:55`).

The argument has two halves. What a source means, `Meaning`, is defined without an
order of evaluation, by steps that each know more (`StepsGrow`) and must come to
an end after as many as there are slots, since each adds a slot (`Fixpoint`). So a
value is known exactly when its operands are, and slots that need each other in a
circle have none (`CircleHasNone`). The invariant `BInv` then relates the evaluator to it: each
call on the stack was made for the next operand of the call below and has read
what its operands mean (`Calls`), what is remembered under a binding and a scope is
what the slot means (`Remembered`), and no projected value is passed over
(`Progress`). A refusal is right because the operand that has no number takes it
from every call below it, down to a projected value (`NoneToTheBottom`); meeting a
busy binding is a circle on the stack (`BusyIsRefused`). For an edit, the text
being built differs from the one installed in one literal (`Patched`), and that
literal is the edited value's alone by `Editable`.

`EditingProofs` proves, for any shipped document, any indexes and any number of
nodes made:

| Theorem | States |
|---|---|
| `StaysATree` | every operation, at any index, keeps the document a tree whose prose has no children |
| `LosesNothing` | a requirement is in the tree or excluded, everything else shipped or made is in the tree |
| `NumbersTheTree` | the numbers outline the document: first, next and nested as their nodes are |
| `ServedATree` | the three of them under what pages and other clients send, late, refused or lost |
| `ShowsTheDocument` | when nothing is on its way and the last refresh has not failed, the page's markup is the document and its list what is excluded, whatever others did between the reads of a refresh |
| `HappensAsShown` | what a person does on a page that shows the document as it still is when the service applies it (and, to put something back, the list of what is excluded) happens as the page showed it, and in sight |
| `LeavesTheRest` | every operation but a reset brings one node, takes one away or moves one with all below it, and leaves the document its other nodes in their order |

The assumptions are `TreeAssumption` and `LoadAssumption`, that the shipped document
is a tree, which `load` makes of nested declarations, and `PageAssumption`, that
no document or reading is the absence of one and a page draws a level.

The argument. That a node has one place is not enough to be a tree: nodes could
hang on each other in a circle, out of reach of the root. `TIInv` therefore says
of a tree that it is grounded: every set of nodes has one that hangs on none of
the set (`Grounded`). Every operation takes a node out of its list or puts one
in, which is one operation on lists (`Spliced`), and a node is never put below
itself, so a set without a topmost node after a step would have been one before.
Grounding is also what replaces induction on depth: that there is a numbering, and
only one, and that a child's number extends its parent's, is shown at the topmost
node where it would fail. `EInv` adds to it what holds of a page without an announcement
to come (`Current`): what it has, unless its last refresh has failed, or what its
refresh has read so far, is the document, part by part, since whatever changed
between two parts is still to be announced; and only a drop on its way makes the
markup differ.

`HappensAsShown` rests on `PageInv`: a page's markup holds the nodes it was served,
each in one place, wherever they have been dropped (`Drawn`), and a mutation on its
way asks for what such a page can ask for (`Asked`): the node is a row and the
target a list of a level that is drawn, the index is within the list without the
node, and what it wants is the markup the drop made. `Levels` is a recursive
function, so that a row stays on its level, or comes to one that is drawn, is shown
level by level (`StaysOnLevel`, `PutInSight`). The proof corrected the property. A
requirement that is put back goes to the end of its former parent, which may lie
below the levels drawn, so nothing is said of its being in sight; and that the page
shows the kinds of the document is a condition of its own, since ids begin again
after a reset and a list drawn with the same ids may be of other nodes.

`LeavesTheRest` needs the order of the document without a recursion down the tree.
`Order` is a set of pairs: a node comes before what is below it, and all below one
of two siblings before all below the other. Below is `Over`, a recursive function
up the tree, which is what the numbers have to say of it too; that it is the closure
down the tree (`Within`) holds because the tree is grounded (`OverIs`). A list with
a stretch of it replaced keeps the order of the rest (`SplicedBefore`). So a move,
whose lists stay the same without the node, changes the order of nothing outside it,
and neither does a leaf that comes (`RestFollows`). An excluded node's children
come into its place one level up: what was before what stays so, because
whoever was before or after the node was so of them (`PromotionAgrees`). A heading put
above a node is that step read backwards, since taking it out again would give the
document back (`ReplacedBack`).

`FlowProofs` proves, for any list of children, any values and wires, and whatever
admissible arc `dfs` tries next:

| Theorem | States |
|---|---|
| `TheCutSeparates` | without the children of the cut no path leads from an entry to an exit |
| `VerdictIsOfTheCapacity` | a comparable requirement is judged exactly when its subject has a capacity, and against that number |
| `ReasonIsTrue` | an error names a child whose value is bad; no path is only said where there is none, and what is named where there is none has the value 0 |
| `FindsTheNearestCut` | at every step the network carries a flow of the value counted so far; at the end that value is the least total of any children whose removal separates the entries from the exits, and the cut is the one of that total nearest to the entries |

The assumptions are `InputAssumption` (every child has a value or none, the
absence of one is no number, unlimited is more than all values together, wires are
pairs) and `LimitAssumption` (a limit is a number, the absence of one is not).

The argument. `Spread`, what can be reached in n steps, is shown to be the least
set closed under the arcs once n is the number of vertices (`SpreadWithin`,
`SpreadClosed`): a step that adds nothing is the last that could, and there are no
more vertices to add. The invariant `FlowInv` says that the breadth-first search has
seen whatever one open arc leads to from nearer than its depth (`Searched`), so
that the search that does not find the sink has seen a closed set without it
(`SearchedOut`). Connections stay unlimited (`NetInv`), hence open, hence what an
entry leads to without crossing the cut is reached, and an exit is not among it.
The calls of `dfs` stand on a walk of the network (`Walk`), which is why what it
pushes is a number the arcs have. Where no path leads to an exit, the walk never
leaves what the entries lead to (`Stays`), so nothing ever flows, and a child that
is cut has no value.

`FindsTheNearestCut` is the maximum-flow minimum-cut theorem for this algorithm.
That a sum over a finite set splits over disjoint sets and grows with its terms is
shown by induction on finite sets, put as a statement about a set of sets
(`FiniteInduction`), since the library's theorem cannot be instantiated. The
invariant `BooksInv` says that there are books (`Books`): one number for each arc,
the negative for its opposite, such that what is left of a limited arc is its
capacity less that number, and that what leaves a vertex adds up to the flow at the
source, to its negative at the sink and to nothing anywhere else. To push the flow of
a path keeps them, because the layers of the search have no gap (`Layers`) and the
walk goes one further with each call (`Ladder`): it meets no vertex twice. Books that
come out even at each vertex come out even across any set of vertices. For the side
of the source after the last search this makes the flow the total of the cut
(`CutIsWorth`); for any set of children that separates, the side it leaves makes it
no more than their total (`NoMoreThan`). The cut is the nearest because what the
source still reaches, which is what is past the cut (`PastIsReached`), is on its side
of any other set of that total (`ReachStays`).

`SupervisorProofs` proves, for any grace and at any number of failures:

| Theorem | States |
|---|---|
| `LeavesNothingRunning` | when `run` returns, every server it started was stopped and the router is gone |
| `StopsInOrder` | the web server stops before the router, the router before the subgraphs |
| `ReturnsTheCause` | what `run` returns is what made it stop |
| `ExitsWithTheCause` | the exit status of every subcommand says why it ended, for any number of health checks |
| `ServeInTheBinary` | the first three inside the command, with its signal and a health check beside it |
| `StopsInTime` | a stop fits any grace that four drains and one router's stop fit |

The hypothesis of `StopsInTime` holds of the constants in the source, 9 seconds of
10 (`GraceAssumption` says only that the container's grace is a number). The
argument: what has been started is a function of where `run` is (`SubgraphsByPc`,
`UiByPc`, `RouterByPc`), a failure is reported by exactly one of those that can
still report (`Reports`), and each stage of the stop spends its own share once
(`Spending`). `CommandIInv` adds the place of `main` and the lone server.

`CampaignProofs` proves, for any tests, variants, probes, budgets, servers and states
of the code, and any number of sittings:

| Theorem | States |
|---|---|
| `AsksNothingTwice` | a question that goes out stands in no line of the file and has no reply to the same text in the file resumed, and is posted at most `MaxAttempts` times |
| `TakenOverWhole` | a file resumed with the code it was written with is in the new file whole before the server is asked |
| `FileReadsAsOneRun` | `Campaign` implements `Transcript`: the lines of the file in hand call for one another from the beginning, whatever was stopped and resumed |

The assumptions are `BrowsingAssumption` (tests, variants and probes are lists
without repetition, no probe has the name of another phase, the stride is positive,
budgets are numbers) and `CampaignAssumption` (a question is posted at least once).

The argument. A line knows its browse by probe, test and variant: that no two
browses of a run have the same (`Apart`, `PhaseJobs`) is a fact about the order of
the questions and needs that the sample of tests repeats none, which is the ranking
of the linked tests by how many come before (`Ranked`). `AskInv` says then that the
lines are of earlier phases, of browses done, or of the steps taken so far in the one
under way. For `TakenOverWhole` a run is told as a sequence of its runner's states,
each the one successor of the state before it given the reply and the code
(`Telling`). Every file on disk has such a telling (`OnRecord`), and with the same
code a sitting that resumes it goes through the same states (`Behind`): at each
question of the telling the reply is there to reuse, so it cannot be waiting before
it has come to its end. For the refinement, `AccountInv` says that what the runner
holds in memory is what `Transcript` draws from the lines alone: its first answers
and what they were shown (`BaseRead`), which of the phase's browses have ended
(`Doing`), and where the replies so far have brought the one under way (`Saying`). So the question it puts is the one
the lines call for (`CallsForAsked`, `CallsForNote`, `CallsForNothing`), and
`GivenInv`, that every reply in a file, on disk or in hand, was given by a server to
the text beside it, makes each line one `Transcript` may add.

Where the proofs end. Liveness under fairness is out of the prover's reach: that a
publisher returns, that a subscriber is told, that the page catches up, that a
process exits, that `Parse`, `Rollup` and a sitting end stay with TLC. Induction over
data cannot be cited as a theorem of the library, so `Meaning` and `Numbers` are
reasoned about through a least counterexample, which is possible because they are
recursive functions; `Parser`, `Lexer`, `Expression` and `ModelLinks`
use recursive operators and stay with TLC. Every other safety
invariant, action property and refinement that a run checks is the statement of a
theorem.

## Findings

With a run that shows them:

1. `page_missed`: SR-39 has each application reflect every change. A page
   refreshes when it loads and when it hears an announcement (`app.js:352`), not
   when its stream is registered: a change between the two is not shown until
   another comes.
2. `rollup_left_out`: `examples/pipeline/README.md:161` says a child the flow cannot
   leave by an exit is named in no reason. The cut (`flow.go:114`) is taken over
   every child, and one of value 0 that leads to no exit is in it. Such a child
   also takes the place of "no path from entry to exit" (`verdict.go:66`), which is
   said only of an empty cut: with `A -> B -> B`, `C -> C -> D` and nothing through
   `A`, the verdict is limited by `A` where no path is. `LimitIsNamed` allows for it.

Met while modelling, and left out of the properties or allowed for in them:

3. The comment on `run` (`serve.go:67`) says it returns nil when the context ends.
   If it ends while a component is still awaited, `waitFor` (`serve.go:198`)
   returns the context's error and so does `run`. `ResultSaysWhy` says that this
   is the only such case.
4. The parser compares the spelling of the token after `part`, `requirement` or
   `verification` with `def`, not its kind (`parser.go:216`): a usage whose quoted
   name is `'def'` is taken for a definition and refused. `NameTokens` has such a
   name, and `AcceptsTheNotation` allows for this refusal (`NamedDef`) and no other;
   `token.go:2-3` makes no exception.
5. `token.go:3-4` promises the position of the first offending token. A connect
   end without its port, an unknown metadata name at the end of a derivation and a
   second original are looked at after the tokens that follow
   (`parser.go:432`, `parser.go:629`), so a later token may be named: `Doomed`,
   which `CanBeCompleted` allows for.
6. A part declared inside a part definition is accepted by the parser and read by
   nothing in the builder (`build.go:176`): no usage of the definition has it,
   although `token.go:2-3` says what is accepted is exactly what is projected.
   `ModelLinks` builds it so.
7. Until a drop is answered the page still counts and draws by its last answer:
   `data-count` (`app.js:174`) is the number of children that was served, so prose
   added right after a drop may not end its list, and a second drop may put a row
   below the last level drawn. `DoneAsShown` says neither of a page with a drop that
   is not yet drawn afresh.
8. A line cut short, as on a full disk, makes `ReadResults` refuse the whole file
   (`results.go:130`), although `results.go:15-17` says a run that stops part way
   can be resumed. `Resumable` has it as the code does. The summary of a finished run
   can be cut short as well (`main.go:173`), and then the file, which lacks nothing
   else, can neither be read nor resumed.
9. A second part or requirement of one name is refused (`build.go:99`,
   `build.go:337`), a second definition of one name is not: it replaces the first
   without a word (`build.go:84-95`), so the order of the two decides what the source
   says. `LinksAreStable` says that this is the only way in which order counts.

## What is not modelled

- Messages and the spans of nodes; of the tree the parser builds, all but
  expressions; the range of numbers. Units and floating point: the absolute `eps` of
  `flow.go:148` could tell on sums of very large or very small values.
- `newID` looks at the tree only (`tree.go:265`): ids of excluded requirements
  are assumed not to be of the form `n<k>` (`TreeAssumption`). Ids that start
  again after a reset (`service.go:76`), and a version announced by the document
  service between an answer and the next fetch (`service.go:116`), are hazards for
  a client that no property here covers. Texts typed into the page and the
  viewer's fields are left out.
- The document service's own mutex and subscribers are those of the store, which
  `ModelStore` models; `DocumentTree` has its operations and `Entities` its reads.
- Of the generated GraphQL execution, what `Execution` leaves out (above), and the
  subscription fields, whose channels are `ModelStore`'s.
- A verdict is made of one reading of a requirement and the capacity of one of its
  subject. `Verdict` computes both from the same state, so what one query shows when
  the router's two fetches met different versions (`capacity/resolver.go`) is not
  there.
- The router: a query plan is a number of fetches (`LiveApp`) and a list of
  representations (`Entities`).
- Of the experiment, the tools and their answers, the wiki read from the system
  model, word statistics, scoring and the report, which are text in and text out.
  `Campaign` takes tool answers as functions of the code and the question, so
  that a resumed sitting may find other ones, in a browse and in what a probe makes
  of it; `-quick`, which must be the same in
  both sittings, and the system message and reply format, which a resumed reply is
  not compared by, are left out.
- Trace and test support, the UI server's files and proxy, deployment and
  monitoring.

## Plan

Done, in this order: `ModelStore` with `VersionFeed` and its proofs,
`DocumentTree`, `Supervisor`, `LiveApp`, `Rollup` and `Verdict`, `ModelBuild`;
then `Parser` and `Expression`, `ModelLinks`, `Campaign` with `Transcript`,
`Entities` and its proofs, the proofs of `LiveApp`, `Editing`, `Schemas` and
`Execution`, `Lexer`, and `Command`; then the proofs of the supervisor and the
command, of the tree, its numbers and the page that shows it, of the build, and of
the verdict; then those of the execution, of the campaign and its refinement, of
what is done on a page and of what an edit leaves alone, and of the minimum cut.

To extend: a federated query that puts `Entities`, `DocumentTree` and `Rollup`
under one router with a mutation in between, composed with `LiveApp`; clients that
hold ids from before a reset.

To prove: `RelationsAnswer` of `ModelLinks`, whose lookups would first have to be written as
recursive functions.
