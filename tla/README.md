# A verification model of OmnethDB

OmnethDB is an embedded memory store for agents.  A *memory* is a versioned
record in a *space*; versions of one fact form a *lineage* with at most one live
version; memories point at each other with typed relations; everything lives in
one bbolt file, which a command line, an HTTP server, a gRPC server and an MCP
server offer to their clients.  This directory holds TLA+ modules translated
from the Go code, TLC configurations that check them on small instances, and
theorems about them checked by TLAPS.  Paths below are relative to `src/`;
`docs/` is the repository's documentation.

## 1. Inventory

| Component | State it keeps | Operations | Talks to |
|---|---|---|---|
| Write policy (`internal/policy`) | none; a policy is part of a space's configuration | normalise, resolve trust, may write, may promote | called by Remember, Revive, Recall |
| Store, write side (`internal/store/bolt`: `store`, `remember*`, `forget*`, `revive`, `space_config`, `relation_index`, `audit`, `migration`) | ten buckets of one bbolt file: `memories`, `latest`, `spaces`, `space_stats`, `relations`, `relation_refs`, `embeddings`, `spaces_config`, `audit_log`, `forget_log`; the registered embedders | EnsureSpace, UpdateSpaceConfig, Remember, RememberBatch, Forget, ForgetBatch, Revive, BeginEmbeddingMigration, MigrateEmbeddings | bbolt transactions, an embedder |
| Space index (`space_state`) | membership keys, live counters, the legacy list of ids | load, add, remove, count; conversion of the list at the first write | called by every write and by every listing |
| Store, read side (`lineage`, `inspect`, `list`, `recall`, `profile`, `candidates`, `export`, `lint`, `quality`) | none | GetLineage, GetRelated, ListMemories, Recall, GetProfile, FindCandidates, LintRemember, Export, as-of projection, diagnostics, cleanup plan, synthesis candidates, promotion suggestions | read transactions, mostly several; searches call an embedder |
| Runtime configuration (`internal/runtime`) | none; `config.toml` | load, initial configuration of a space, reconcile declared and stored | the programs |
| Interfaces (`cmd/omnethdb`, `internal/httpapi`, `internal/grpcapi`, `internal/mcp/omnethdb_tools`) | none | each command, handler, method or tool is a sequence of calls on the store | the store, the map of embedders |
| MCP server (`internal/mcp/server`) | the wire style of the session | read a message, handle it, answer | its standard streams |
| MCP proxy (`cmd/omnethdb-mcp-proxy`) | a child process, three copying goroutines, a log file | copy and log the three streams, wait for the child, exit | the client, the child |
| Embedders (`embedders/hash`) | none | text to vector | the store |

How they interact: every write is one bbolt `Update` (a single writer, whose
changes appear all at once), every read one or more `View`s (a snapshot).  The
exceptions are what makes the code hard: Remember and Recall read the
configuration in a first transaction, call the embedder outside any transaction
and act in a second one; a migration is two write transactions; a batch runs
many operations in one; Revive searches with a cursor while it holds the write
lock; reports and profiles read in several transactions; the goroutines of a
server share one map of embedders.

Hard behaviours, with the property that watches each (PROJECT.json lists them
all with their lines):

* **Ordering of legal calls.**  Updates, forgets of old and of live versions,
  promotions and revives in every order must keep a lineage one chain with one
  head (`LatestExclusive`, `LineageIsChain`, `ImplementsLineage`).
* **Redundant state.**  Membership keys, counters, the latest bucket, both
  relation buckets, both copies of a vector and the logs repeat what the records
  say (`LiveIndexAgrees`, `RelationsAgree`, `MigrationUnifiesVectors`,
  `AuditTellsHistory`); an older file has a list of ids instead
  (`ListingIsExact`, `CountsDriftOnlyByFirstTouch`).
* **Orphans.**  A derived memory must be flagged whichever of its sources is
  forgotten, in whatever order (`OrphansExact`, `ForgetsCommute`).
* **Partial failure and crashes.**  Batches are all or nothing; a migration may
  die between its transactions (`BatchAtomic`, `MigrationLocksSpace`,
  `MigrationUnifiesVectors`, `ModelChangesByMigration`).
* **Limits.**  Corpus limits are checked against incremental counters over
  layers (`RememberRespectsLimits`).
* **Search under the write lock.**  The scan of a Revive must end and must find
  the end of the chain (`ReviveMissesOnlyPastInnerVersion`,
  `AscendingReviveEnds`, and the violated `ReviveTerminates` and
  `ReviveReactivates`).
* **Unchecked input.**  Edges that a caller may send with any memory are checked
  only with some (`RelationsAgree`, `OrphansExact`).
* **Time.**  An export to a past instant rebuilds it from present records and
  timestamps, which are taken before the transaction that writes them commits; a
  difference compares two such exports part by part (`ExportShowsThePast`,
  `DiffAccountsForItself`).
* **Staleness.**  What was read before a transaction may be outdated inside it
  (`ImplementsStore`, `OneModelUntilMigrated`, and the violated `EmbeddingLock`);
  a report or a profile mixes several snapshots, and a plan is applied long after
  it was made (`PlansNameLiveTogether`, `QuietPlansAreExact`, `FactsSurvivePlans`,
  `ObservationsCountOnce`, `ProfileShowsLineagesOnce`, `LintSeesDuplicates`).
* **Configuration.**  Zeros, defaults and declared values; what apply-config may
  overwrite (`ReconcileSettles`, `DeclaredTrustCounts`,
  `ModelChangesByMigration`).
* **Shared embedders.**  The map is keyed by model id, without the dimension
  (`MisfitsShareAnID`, `UnavailableOnlyByDrift`).
* **Streams.**  Two wire styles and malformed input; a log that fails, full
  pipes, a killed proxy, a workspace that another process has open
  (`AnswersFollowRequests`, `UnreadableOnlyAfterParseError`, `OutputIsWhole`,
  `LogAccountsForTheSession`, `EveryRequestIsAnswered`, `SessionEnds`).

## 2. Modules

```
SpacePolicy        operators of internal/policy
MemoryDB           the buckets, and each operation from a database to a database
MemoryStore        the state machine: commits, batches, the scan of Revive, crashes
MemoryStoreProperties      its properties
Lineage            abstract specification of lineages
LineageRefinement  MemoryStore implements Lineage, as a property
StoreClients       MemoryStore with goroutines that prepare outside transactions
Timeline           MemoryStore beside a clock; exports to an instant and their comparison
SpaceIndex         MemoryStore with the index of a space as the code keeps it, and the
                   older program whose file is upgraded
Curation           candidates, lint, groups, plans and suggestions, as operators
Reports            SpaceIndex with readers that take several transactions, and plans
                   that wait to be applied
RuntimeConfig      config.toml against a stored configuration, as operators
Programs           handlers as sequences of calls on the store
CommandLine, HttpApi, GrpcApi, McpTools    the programs of each interface
Workspace          a file, the processes that open it, their goroutines and embedders
McpServer          the request loop of the MCP server, with its pipes
McpProxy           McpServer behind the logging proxy, with a client
MemoryStoreProofs  theorems: types, one head per lineage, history is never rewritten,
                   the scan of Revive (TLAPS)
ClientProofs       theorems: StoreClients implements MemoryStore; one model (TLAPS)
LineageProofs      theorems: lineages are chains; MemoryStore implements Lineage; logs,
                   orphan flags, relations, forgets in any order (TLAPS)
SpaceProofs        theorems: listings, limits, batches, migrations, and the index of a
                   space through its upgrade (TLAPS)
TimelineProofs     theorems: exports to the past and their comparison (TLAPS)
ReportProofs       theorems: plans, lint, profiles, curation (TLAPS)
WorkspaceProofs    theorems: embedders, models and policies of a workspace (TLAPS)
McpProofs          theorems: what an MCP session passes on, logs and answers (TLAPS)
MC*                instances for TLC
```

**The store.**  `db` is a record with one field per bucket, under the bucket's
name; a missing key is `Nil`.  `tx` is a write transaction that takes several
steps: a batch with its private copy `work`, or the scan of a Revive with its
`cursor`.  Each exported method is an action of its name.  `Remember`, `Forget`,
`EnsureSpace`, `UpdateSpaceConfig`, `BeginEmbeddingMigration` and the second
transaction of `MigrateEmbeddings` have no point at which another transaction or
an error can come between two of their writes, so each is one step, with all of
its writes.  Batches begin, take one item a step, and commit or fail; Revive
moves its cursor one step at a time; `Crash` may come at any point of a
transaction.  The early returns of an operation are its `...Allowed` predicate,
in the order-independent form of a conjunction; an operation that is refused
changes nothing.

**Goroutines.**  `client` (StoreClients) is what a goroutine holds between its
two transactions.

**Time.**  `Timeline` adds a clock that may tick between any two steps of
`MemoryStore`, the times of records and of forget entries, and `seen`: the
databases as they stood at the end of each past instant, which exports to that
instant are compared with.  A write takes its timestamp within its transaction
and commits later: a step of the store takes any instant since the step before
it, and the instants that ended in between count what it wrote among the
databases they saw (`Stamped`).  `viewed` is the database that the first of the
two exports of a comparison read.  The clock never goes back; one that does would
reorder the past, and the code has no defence against it.

**The index.**  In `MemoryStore` the membership keys and counters are simply
kept; `SpaceIndex` keeps them as `space_state.go` does, beside it: `index` has
for each space the membership `keys`, the `counts` (`Nil` while none are saved)
and the legacy `list`.  Each step of the store is conjoined with its step of the
index, in the order the code touches counters and members.  `program` says which
program has the file; the older one is not in the repository, and all that is
assumed of it is that it keeps the ids of live memories in one list.

**Reports.**  `report` is a reader: what it listed first and second, which
memories it has still to look up, and the near pairs it found.  Each of its
steps is one read transaction of the code.  `plans` are cleanup plans not yet
applied; `ApplyPlan` is the `forget-batch` somebody runs with one later.
`keepers` is a history variable, and so are `live` and `meanwhile` of a report.
Texts are members of a small set with a table of similarities; an instance
chooses the table so that near and equal texts, chains of near texts and ties
all occur.

**The workspace.**  A request is a *program*, a sequence of calls on the store
(`Programs`), and each interface is the set of programs its handlers can turn
into; a handler that refuses a request makes the empty one.  A command runs one
program in a process of its own; a server accepts programs in goroutines that
share the `registry` of embedders.  A call that embeds takes three steps: read
the configurations, look up and run the embedders, act.  Creating a space takes
two, the registration of its embedder and the transaction (`InitRegister`,
`InitCall`), and a migration four: the read of the space, the registration and
its two transactions (`MigrateRead`, `MigrateRegister`, `MigrateBegin`,
`MigrateComplete`).  bbolt's file lock
admits one process at a time.  `offered` is a history variable: every embedder
the process registered.  Memories are episodic ones with no relations here, and
a Revive continues from the end of its lineage: how it finds it is the subject of
`MemoryStore`.

**The MCP session.**  A client sends items of a few kinds, in either wire style:
a request, a tool call, a notification, what cannot be parsed (a JSON-RPC batch
is), a blank line, a stray line, a cut message.  `pipes` between processes hold
`PipeCap` items.  Each copy of the proxy reads an item into its buffer, writes it
to one side and then to the other, in the order of its `TeeReader` or
`MultiWriter`.  A log entry is three writes of a file: one that fails, or a kill,
may leave a part of the last entry (`torn`).  The main goroutine waits for the
child and then for the copies; a killed proxy closes its ends of the pipes.  A
tool call opens the workspace for itself, with no limit on how long it waits for
the file lock: `CallTool` takes its step only while no other process has it
(`fileHeld`, which `UseFile` changes at any time).

**Abstractions.**  A memory's content, name, metadata and times are left out
where nothing depends on them (`Curation` has contents, confidences, actors and
days; `Timeline` has times).  Its id, a random string, is a number: only the
order of keys in a bucket matters, and an action may pick any unused number, so
all orders occur; `Reports` hands ids out in order, since its lists are sorted by
creation.  A vector is the model that made it.  A trust level is a number of
tenths.  The audit log is a set of entries, each named by its operation and
memories.  Times to live are a matter of reads: `Timeline` gives each id an
expiry, and `Reports` lets memories expire.

**Bounds.**  `MemoryIDs` bounds how many memories are ever written; `MaxExtends`,
`MaxSources`, `MaxStray` how many ids a caller sends; `MaxBatch` the items of a
batch; `MaxPlans` and `MaxMeanwhile` the plans that wait and the commits that
come while a report is made; `MaxOpens` and `MaxRequests` the processes and the
requests of a server; `Sessions` what a client may send.  `ReviveBegin` asks for
a free id, so that a Revive of a full instance does not scan for nothing, and
reports other than plans are made where no plan waits.

**Mutated forms.**  A definition `X_y` is `X` with a plausible bug `y`.  No
specification uses it; PROJECT.json says which property notices it in place of
`X`.

## 3. Runs

| Run | Instance | What it shows |
|---|---|---|
| `lineages` | 3 memories, 2 spaces, two actors, two policies (limits 1 and 2, and roomy ones), batches of 2 | one head per lineage, counters and membership keys exact, logs complete, history never rewritten, batches atomic, relations can be walked both ways and stay in one space, no layer grows past its limit except by Revive; every commit is a step of `Lineage` |
| `forget_revive` | 4 memories, 1 space, derived memories of 2 sources, fairness | orphan flags exact, forgets commute; the scan of a Revive never forks a lineage, when it can miss, and that the write lock is released unless the cursor has to go back |
| `spaces` | 2 memories, 2 spaces, 2 models, extends edges, stray sources and edges | nothing written while a space is locked, one model afterwards in both copies; none but stray derives edges join two spaces |
| `clients` | 2 goroutines, 2 memories, 2 models | what goroutines commit is a step of `MemoryStore`; no mixture of vectors before a migration completes |
| `timeline` | 3 memories, 2 instants, batches of 2, no episodic memories | an export to an earlier instant shows the space as it was, whenever the clock ticks |
| `comparison` | as `timeline`, without batches | two exports with commits between them: a difference accounts for every change it reports |
| `reports` | 3 memories, three tables of texts, one candidate per lookup, up to 2 commits while a report is made, 2 plans | listings exact through an upgrade, counters off by at most one; reports, plans, profiles and lint tell what was so at some instant, as far as they can |
| `workspace` | 2 spaces, three models of which two share an id, 3 configuration files, 2 goroutines, 2 processes, 2 requests, 2 memories | only a migration changes a model; reapplied configurations settle but for zeros; whose embedder a vector can come from |
| `mcp` | both styles, any 2 items, or a notification, a batch or a stray line before a call and a request, pipes of one item, fairness | answers in order, readable and complete; the log accounts for the session; sessions end |
| `revive_loop`, `revive_miss` | 4 memories | violations: findings 1 and 2 below |
| `write_race` | 1 client, 2 models | violation: finding 3 |

Why the bounds are enough.  A lineage needs three versions for an inner one to be
forgotten between two others, and three ids give every order of their keys; a
fourth lets a Revive commit after such a scan, and lets a derived memory keep two
sources while one is superseded.  Limits of one and two are reached, exceeded by
one, lowered and raised by `UpdateSpaceConfig`.  Two spaces are what an edge
between spaces, and a counter of the wrong space, need; two models are what a
mixture of vectors needs.  Extends edges, and sources and edges sent with memories
that are not derived (`MaxStray`), occur in `spaces` alone, and with two memories:
that more of them in more memories do no more is proved
(`RelationsAreSymmetric`, `OrphansAreExact`).  An export depends only on which
events lie after its instant, so one past instant beside the present is enough in
`timeline`.  A cleanup group needs three texts to be a chain whose ends are not near, and two
plans to disagree on what to keep; two commits between two readings are enough
for an update and a forget.  Two spaces whose models share an id, a third model
to migrate to, and two goroutines are what a wrong embedder needs.  In `clients`
and `workspace` goroutines (and models) are interchangeable and TLC uses that
symmetry, as it does of the spaces and models of `lineages` and `spaces`; those
runs have safety properties only.  `workspace` and `mcp` do not check for
deadlock: the first stops when its bounded requests are used up, the second when
a session is over or its client silent.

**Fairness.**  `FairSpec` is weakly fair in `TxStep` alone: a write transaction
that has begun keeps being executed by its goroutine (bbolt has no preemption and
the code waits for nothing inside one).  No caller is obliged to begin anything.
`AscendingReviveEnds` claims the end of a Revive when no successor of a forgotten
version precedes it in key order, or when the first forgotten version is the end
of the lineage; finding 1 shows why.  That a batch ends is not claimed: each of
its steps takes one item more, so that a run could not find it wrong.
`ProxyFairness` is weakly fair in each copying goroutine, in the main goroutine
and in the child: the scheduler runs what can run.  Nothing obliges a client to
send or to close, a log to fail or a proxy to die; the client is assumed to read
what it is given.  A tool call is taken only while no other process has the file, and
nothing makes another process close it, so `Child` is not enabled then:
`EveryRequestIsAnswered` and `SessionEnds` are stated under the assumption that
from some time on no other process has the workspace open (`<>[]~fileHeld`).
Without it TLC finds both violated: the server waits in `bbolt.Open` for ever,
does not read its closed input and outlives a killed proxy.

**What the properties except.**  Each exception below is there because without it
TLC finds the property violated by what the code does.  Documents promise some of
what is excepted.  Three of these promises are properties of their own, each
violated in a run of its own, and the finding of that number follows; the others
are set beside the exception here.

* `ExportShowsThePast` allows an export to an instant between the timestamp of a
  write and its commit to show that write, and a batch as far as it had got: a
  record carries the time it was made, not the time its transaction committed, so
  that the same past instant exported twice may differ.  It asks for the orphan
  flag of live derived memories only: the projection also flags superseded ones
  and other kinds that were sent sources, which the store does not.
* `RememberRespectsLimits` excepts Revive, which asks for no room in the layer
  (`revive.go:65`): after a forget and a remember in the place of the forgotten
  memory, a Revive leaves the layer above its limit.  docs/ARCHITECTURE.md:599
  calls the corpus limits hard caps.
* `RelationsAgree` excepts the derives edges of a memory that is not derived,
  which are stored unchecked (`remember_batch.go:137`) and may name a memory of
  another space.  docs/ARCHITECTURE.md:28 says: "Cross-space relations are
  forbidden."
* `ReviveMissesOnlyPastInnerVersion`: the scan may skip the end of a lineage when
  an inner forgotten version comes before it (finding 2); `AscendingReviveEnds`:
  a cursor that goes back may do so for ever (finding 1).
* `OneModelUntilMigrated` ends with the first migration of a space: a Remember that
  embedded before it may commit after it (finding 3).  A Recall too may embed its
  query before a migration and read the vectors after it, for it takes two read
  transactions (`recall.go:52-67`; `PrepareRecall` and `ReadRecall`);
  docs/ARCHITECTURE.md:700 says that it runs in one and sees the old state or the
  new.
* `MisfitsShareAnID`: a command or handler registers the embedder of its space
  under the model's id, and so does a migration or init that is then refused; a
  concurrent write to a space whose model has that id and another dimension is
  embedded with it.  A request that names several such spaces embeds with the
  last.  The write does not compare the dimension with that of the space
  (`remember_batch.go:64`), which docs/ARCHITECTURE.md:773-780 says every write
  does.

Of these no document speaks:

* `CountsDriftOnlyByFirstTouch`: in a file without counters, a Forget or a Revive
  as the first write scans after it changed the members, and then counts its own
  change once more.
* `QuietPlansAreExact` and `LintSeesDuplicates` except texts with more near
  neighbours than a lookup returns: memories of other kinds, and the memory
  itself, take places among the candidates.  Lint looks at one candidate, the
  newest of those with an equal vector: only a memory of another kind that is
  newer than a static duplicate can hide it.
* `PlansNameLiveTogether` is about what a plan suggests; the diagnostics beside
  it may pair memories that never were live together.
* `ProfileShowsLineagesOnce`: a promoted lineage that is revived as episodic
  between the two readings is shown in both layers.
* `ReconcileSettles`: a new space replaces declared zeros by defaults where
  apply-config stores them, and a writers rule that allows nobody, in the space
  or once the file has changed it, reads as never set at the next one.
  `DeclaredTrustCounts`: a declared trust of zero never counts.
* `UnreadableOnlyAfterParseError`: the reply to what cannot be parsed is framed
  whatever the style of the client.  `EveryRequestIsAnswered` excepts, of a client
  of lines, the requests after a stray line, which the server takes for headers,
  and the first one after such a reply; of any client, a blank line, which ends
  the server; and a log that fails: on the way in that loses the message and ends
  the copy, on the way out it leaves a pipe nobody empties, at which the child can
  wait for ever, as `SessionEnds` says too.
* `OutputIsWhole` holds until the child is reaped; `Wait` closes the pipes, and
  what was not read then is lost.

**Findings.**

1. `revive_loop`: `loadForgottenLatestForRoot` (`revive.go:136`) searches for a
   successor with the cursor of the loop around it.  If the successor's key lies
   before that of the version at hand, the outer loop comes back to it for ever,
   in a write transaction.
2. `revive_miss`: if the successor's key lies behind, the outer loop goes on
   behind the successor and never looks at it; when it is the end of the lineage,
   the Revive fails (root, update, forget the root, forget the update, Revive).
   docs/ARCHITECTURE.md:535 and :541-543 promise that an inactive lineage can be
   reactivated.
3. `write_race`: a migration that starts and completes between the embedding of a
   Remember and its transaction leaves a vector of the old model
   (docs/ARCHITECTURE.md:32).

## 4. Proofs

Eight modules prove, for all constants that satisfy the assumptions, every
safety property that the passing runs check.  The assumptions are those of the modules,
each as TLC evaluates it on the runs:

* of the data: `IDsAssumption` (keys are natural numbers, finitely many),
  `PoliciesAssumption` (limits are integers), `AttributesAssumption` (a text is
  one of `Contents`, a confidence an integer) and `SimilarityAssumption` (a score
  is a number of hundredths, and a text is like itself by all of them);
* of `Nil`, that it is told apart from what a bucket, an index, a model, a
  configuration or a process is: `NilAssumption`, `IndexAssumption`,
  `ModelsAssumption`, `NilConfigAssumption`, `NilProcessAssumption`;
* of what a file or a command line may hold: `ConfigFilesAssumption`,
  `ApisAssumption`;
* of the limits the reports are asked for and of the bounds, that they are natural
  numbers: `LimitsAssumption`, `BoundsAssumption`, `TimeAssumption`,
  `ReportAssumption`, `PipeAssumption`; of `Sessions`, that they are sequences of
  items (`SessionsAssumption`).

| Theorem | States | Module |
|---|---|---|
| `TypeCorrect` | `Spec => []TypeOK` | `MemoryStoreProofs` |
| `LatestIsExclusive` | `Spec => []LatestExclusive` | |
| `ReviveFindsTail` | `Spec => ReviveMissesOnlyPastInnerVersion` | |
| `HistoryIsImmutable` | `Spec => HistoryImmutable` | |
| `ClientsImplementStore` | `ClientSpec => ImplementsStore` | `ClientProofs` |
| `OneModelBeforeMigration` | `ClientSpec => []OneModelUntilMigrated` | |
| `LineagesAreChains` | `Spec => []LineageIsChain` | `LineageProofs` |
| `StoreImplementsLineage` | `Spec => ImplementsLineage` | |
| `AuditTellsTheHistory` | `Spec => []AuditTellsHistory` | |
| `OrphansAreExact` | `Spec => []OrphansExact` | |
| `RelationsAreSymmetric` | `Spec => []RelationsAgree` | |
| `ForgetsCommuteAlways` | `Spec => []ForgetsCommute` | |
| `LiveIndexIsExact` | `Spec => []LiveIndexAgrees` | `SpaceProofs` |
| `LimitsAreRespected` | `Spec => RememberRespectsLimits` | |
| `BatchesAreAtomic` | `Spec => BatchAtomic` | |
| `MigrationsLock` | `Spec => MigrationLocksSpace` | |
| `MigrationsUnify` | `Spec => MigrationUnifiesVectors` | |
| `ExportsShowThePast` | `TimedSpec => []ExportShowsThePast` | `TimelineProofs` |
| `DiffsAccountForThemselves` | `TimedSpec => []DiffAccountsForItself` | |
| `ListingsAreExact` | `IndexSpec => []ListingIsExact` | `SpaceProofs` |
| `CountersDriftByOne` | `IndexSpec => []CountsDriftOnlyByFirstTouch` | |
| `ListingsStayExact` | `ReportsSpec => []ListingIsExact` | `ReportProofs` |
| `CountersStillDriftByOne` | `ReportsSpec => []CountsDriftOnlyByFirstTouch` | |
| `PlansAlwaysNameLiveTogether` | `ReportsSpec => []PlansNameLiveTogether` | |
| `FactsAlwaysSurvive` | `ReportsSpec => []FactsSurvivePlans` | |
| `LintAlwaysSeesDuplicates` | `ReportsSpec => []LintSeesDuplicates` | |
| `ProfilesShowLineagesOnce` | `ReportsSpec => []ProfileShowsLineagesOnce` | |
| `QuietPlansAreAlwaysExact` | `ReportsSpec => []QuietPlansAreExact` | |
| `ObservationsAlwaysCountOnce` | `ReportsSpec => []ObservationsCountOnce` | |
| `AlwaysUnavailableOnlyByDrift` | `WorkspaceSpec => []UnavailableOnlyByDrift` | `WorkspaceProofs` |
| `MisfitsAlwaysShareAnID` | `WorkspaceSpec => []MisfitsShareAnID` | |
| `ModelsChangeByMigration` | `WorkspaceSpec => ModelChangesByMigration` | |
| `ReconciliationSettles` | `WorkspaceSpec => ReconcileSettles` | |
| `DeclaredTrustAlwaysCounts` | `WorkspaceSpec => DeclaredTrustCounts` | |
| `OutputPassesWhole` | `ProxySpec => []OutputIsWhole` | `McpProofs` |
| `LogTellsTheSession` | `ProxySpec => []LogAccountsForTheSession` | |
| `AnswersAreReadable` | `ProxySpec => []UnreadableOnlyAfterParseError` | |
| `AnswersAreInOrder` | `ProxySpec => []AnswersFollowRequests` | |

Through `ClientsImplementStore` what holds of `Spec` holds of any number of
clients.  The proofs about the store have one shape: a predicate of a database, one lemma per
database operation (`RememberTx`, `ForgetTx`, `ReviveTx`, ...) that the operation
keeps it, the same predicate for the copy `work` a batch works on, one lemma per
group of actions, and temporal logic to join them.  The invariants, and why the
properties alone are not inductive:

**One head (`IInv`, MemoryStoreProofs).**  That an update clears the only live
version needs the root it computes to be a root, and that a Revive finds the
latest bucket empty needs what its checks read before the scan to hold at its
end.  `HeadsAgree` says that every rootID leads to a stored root, that a version
is live exactly when the latest bucket names it under its root, and that the
bucket names versions of the lineage; `ReviveChecked` that during a scan the root
is stored and has no live version; `BatchAgrees` is `HeadsAgree` of the copy.
That the cursor stays on keys needs the well-ordering of the naturals
(`LeastKey`).  For `ReviveFindsTail`, `ScanFindsTail` adds what the cursor has
passed: while the end of the lineage comes before its other forgotten versions
in key order, it is still ahead of the cursor.

**History (`HInv`, MemoryStoreProofs).**  A batch replaces the whole committed
database at once, so the copy must keep what is committed (`WorkKeepsHistory`).
That is inductive because no other writer commits meanwhile and keeping history
is reflexive and transitive.

**Clients (ClientProofs).**  A goroutine's commit is a `Remember` of the store if
what it prepared is an input the store would take: it names memories that were
stored when it read them (`PreparedKnown`), and none is ever taken out.
`OneModelUntilMigrated` is inductive together with `SpacesConfigured`: a space
with memories, or with a goroutine preparing for it, has its configuration.

**Lineages (`ChainInv`, `MoveInv`, LineageProofs).**  A lineage is a chain because
a parent has the same root and the version before (`ParentsAgree`), no two
versions have one parent (`NoFork`), the live version ends its lineage
(`EndsLive`), a lineage stays in one space (`OneSpace`) and its versions are
numbered from one without a gap (`Numbered`).  `GetLineage` sorts by version; that this is the order of parents
follows from versions being a bijection onto 1..n, by cardinality.  The store's
batches commit many operations at once where `Lineage` takes one step for each
lineage: by `WorkMovesOnce`, the copy of a batch differs from what is committed,
for each root, in nothing, in one version added, or in versions forgotten.

**Logs and relations (`LogInv`, LineageProofs).**  Each stored version has exactly one
audit entry that introduces it, and the forget log has an entry for exactly the
forgotten ones (`Logged`); the relation buckets mirror each other, hold an edge
for each source, and hold an updates edge for each parent whose child a Remember
wrote (`UpdatesAreParents`); only the derives edges nothing checks leave a space
(`EdgesKeptIn`); and a derived memory is flagged exactly when a source
is forgotten (`Linked`).  `GetRelated` to a depth is a recursive function;
that a walk and the walk back agree at every depth is proved by the least
depth at which they would not (`NoLeast`).  `ForgetsCommuteAlways` needs only
types: the database after two forgets is written down in a form in which the two
are exchangeable (`ForgottenBoth`), field by field.

**Spaces (`SpaceInv`, SpaceProofs).**  Counters equal cardinalities of sets of live
memories (`IndexAgrees`), so that an operation that touches several at once must
be followed through `FiniteSetTheorems`.  Of the copy of a batch: it keeps the
configurations and every memory of a locked space, and no layer that it made
larger exceeds its limit (`WorkKeepsSpaces`).  A batch is followed from what it was asked: of Remembers,
the copy has one memory more for each item taken, and those taken and those left
are as many as the caller sent; of Forgets, what the copy has forgotten and the ids
left are what was forgotten before and the ids the caller sent (`WorkAsAsked`).

**Time (`TimeInv`, TimelineProofs).**  For each past instant there is a database
in `seen` that both the present one and the copy of a batch have grown from
(`PastOf`), whether the timestamp of what a step wrote lies before or after that
instant: its records, forget entries and edges are the ones of that time, and
no record of it was rewritten since.  The projection then drops exactly
what came later; that it takes for the latest of a lineage the one that was
(`HighestIsEnd`) rests on `ChainInv`.  For the comparison: the
database exported first keeps a past of every instant, though another than the
one `seen` has (`PastsKept`), and the one exported second has grown from it
(`ViewedBefore`, `TwoPasts`); an entry only the later
export lists accounts for growth by counting (`GrowthIsChange`) and for loss by
the end of a lineage being unique (`LossIsChange`).

**Index (`IndexInv`, SpaceProofs).**  Whatever form the file is in, keys and
list together are the live memories; a list excludes keys and counters, so that
no reader takes the wrong form; saved counters add up to the live memories and
the drift of the operation that saved them (`AgreesWith`).  The older program
saves neither keys nor counters, and a space without configuration has no list
(`SavedByProgram`), so that creating a space saves counters of zero beside no
members.

**Reports (`ReportsInv`, `ProfileInv`, `CurationInv`, `QuietInv`, ReportProofs).**  A plan is applied by one
transaction, which forgets its ids one after the other: a fold.  The fold takes
its elements by choice, so the sets it still has to go through form a chain, and
what one forget keeps holds at every link of it, by the least number of ids for
which it would not (`OneByOne`).  So the database after a plan is as sound as
after a commit (`ForgetAllIsSound`), and its index agrees with it
(`ForgetAllAgrees`); with this the invariant of the index holds of `ReportsSpec`.
Of plans: each keeps the best of the memories it speaks of, by an order that no
commit changes (`Outranks`, `PlansSuggest`), so what a plan kept for what it
forgot outranks it (`KeepersOutrank`), and the best of any memories that plans
forgot was forgotten for a better one.  Lint: of candidates the one nothing comes
before is the first (`BestIsFirst`), which of equals is the newest, so that a
static duplicate that is not reported has a newer equal of another kind.  Profiles: that the second reading meets
every lineage of the first one again needs that a later version has a larger id
(`OrderedByAge`), which holds because the numbers of a lineage have no gap and no
key is passed over (`InSequence`), and that a lineage is derived as a whole or
not at all (`DerivedApart`).  The end of a lineage is then live, forgotten or
expired (`LineageEnds`), and between a promoted version and a live one that is
not there is a first one that is not (`LiveIsDemoted`).

Groups are what a walk along the pairs connects.  Each step of the walk adds an
id or none, so by the number of ids it has closed before it ends
(`ComponentIsClosure`), and the rest of a closed set is closed, so that two groups
that share an id are the same (`ComponentsApart`).  Curation reports group only
what they listed at first, one version of each lineage, and no commit changes
the root of a version (`CurationHolds`).  While nobody writes, the lookups a plan
has made find what they would find now (`QuietHolds`); a near duplicate that a
lookup misses has as many before it as the lookup returns, all of them near
duplicates (`NothingMissed`).  The order of the groups is total because groups
apart have different oldest ids (`GroupsOrdered`), so the number of groups ahead
of one is its place, which makes those kept as many as asked for
(`FirstAreMany`) and the largest (`FirstAreAhead`).

**Workspace (`WorkspaceInv`, WorkspaceProofs).**  What a goroutine read under one
lock must still be true enough under the next.  A space is *known* when the
registry has an embedder for its model, or the config file overrules that model
(`KnownSpaces`); in every program the calls that ensure spaces come before the
calls that embed for them (`Prepared`, a lemma about the programs of each
interface, `ProgramsStart`), and known spaces stay known, since an embedder may
be replaced but is never removed and a model is written only after it was
registered (`Effect`).  So the models a goroutine holds can be looked up
(`ModelsOK`), also when a migration replaced the model between its read and its
registration (`FoundOK`); and what it holds under another dimension was offered
to this process (`VectorsOK`).  A command has one goroutine (`OneProgram`), so
what it ensures is the very model of the space (`Focused`, `ExactSpaces`).  The
properties of steps come with the same induction (`Lawful`): that reconciling a
policy twice changes nothing (`SpaceInitAgain`) is a fact about `SpaceInit` on
every policy and every table a file can hold, which showed that the first
statement of `ReconcileSettles`, excepting only the rules muted already, was too
strong.

**MCP session (`SessionOf`, `AnsweredInv`, McpProofs).**  Every stream is a sequence
cut into what has arrived and what is on its way: what was sent is the log of the
input, what a copy is about to log and what the proxy has still to take
(`InputLogged`); while the server runs, that log is what the server took, its pipe
and the item in hand (`InputPassed`); what the server wrote is what the client
received, what the copy has in its buffer and what is in the pipe
(`OutputPassed`), and what was received is the log of the output and the item in
hand or lost with the log (`OutputLogged`).  A torn entry is the next item and the
last of its stream, for its copy has stopped or its proxy is gone (`InputTorn`,
`OutputTorn`, `TornIsLast`).  That nothing is left in a pipe when
the child is reaped (`ReapedIsOver`) is what the copies rely on after it.  For
the answers it takes the number of items that the server took: it has answered
exactly the requests among the first *t* items sent, in order, but for the answer
it is writing or the tool call it waits with (`Answered`), and *t* follows from the lengths of log, pipe and
hand (`TakenBy`).  That what a client received is a first part of what was
written then makes its answers those to its first requests.  A session of any
length, mixed kinds of items and a pipe of any size are covered; that answers
come at all is liveness and is only model-checked.

Only model-checked: liveness under fairness (`AscendingReviveEnds`,
`EveryRequestIsAnswered`, `SessionEnds`), which is out of the prover's reach; and
the three properties that a run violates.

## 5. Not modelled

* The generated stubs, the protocol files, the public Go API (type aliases),
  examples and scripts: there is no control in them.
* Parsing of TOML, flags and proxy arguments; JSON and gRPC conversions; tool
  schemas; rendering of exports, snapshots and reports.
* The page of the HTTP inspector, which only reads.
* Weights of recency and of spaces in a score, the limits on what a profile
  returns, the list of possible updates, explanations and candidate ids of the
  quality reports, GetAuditLog by time.
* The arithmetic of the hash embedder.
* The split of a blob that lint proposes and its heuristics on words, which are a
  set of noisy contents.
* An MCP client that does not read: it stops the server, the copies and itself.

## 6. Plan

1. Batches of remembers over an index that is being converted.
2. Go programs that call `UpdateSpaceConfig` with a configuration read earlier;
   no program of the repository does.
