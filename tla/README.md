# Verification project for the Network Analytics Predictive Platform

TLA+ models of the platform's stateful core, TLC configurations that check them
on small instances, and TLAPS proofs of their main theorems. Paths are relative
to the repository; line numbers are those of the modelled commit. `PROJECT.json`
maps every modelled definition to its lines.

## 1. The system and its components

The platform is a case-scoped network-analysis workbench: a Python API layer
(`apps/api`), PostgreSQL migrations (`db/migrations`), analytics
(`analytics`), and a browser workbench (`apps/web`, `packages`).

| Component | State it keeps | Operations | Interacts with |
|---|---|---|---|
| Durable jobs in memory (`apps/api/jobs`) | jobs, attempts with fencing tokens, staged outputs, publications, result heads, completion receipts, impacts, outbox, checkpoint requests | submit, claim, heartbeat, request/acknowledge cancel, stage, fail, complete and publish, record correction, outbox dispatch | workers and clients call it from any thread; outbox feeds the audit ledger |
| Durable jobs in SQL (`0002_jobs_and_staleness.sql`) | the same as tables | SQL functions under row locks, `SKIP LOCKED` claims, a reaper | concurrent transactions |
| Schema and audit ledger (`0001_initial.sql`) | cases, assertions and revisions, audit events and chain heads | triggers, row-level security | every writer |
| Identity schema (`0003_...sql`) | actors, grants, consumed credentials | replay consumption | authorization boundary |
| Authorization boundary (`apps/api/security`) | consumed credentials and nonces | derive a session | identity provider, grant store |
| RLS persistence (`apps/api/persistence`) | a pool's connections and their transaction-local context | transactions, case loading | PostgreSQL |
| Temporal assertions (`apps/api/temporal`) | append-only bitemporal revisions | append, as-of queries | projections |
| Platform service (`apps/api/service`) | projection cache | project, cache, invalidate | temporal repository, boundary |
| Object storage (`apps/api/storage/filesystem.py`) | immutable directories of objects, report manifests, retention markers | put, put_report, get_report, record_retention, retention_markers | several processes on one tree |
| Audit anchor (same file) | immutable receipt directories per stream | anchor, verify | audit checkpoints |
| S3 storage and anchor (`s3_compatible.py`) | objects created conditionally | the same | remote store |
| Demonstration bridge (`demo_security.py`, `optional_api.py`, ...) | a replay ledger | HTTP routes over a fixture | browser |
| Lineage, prioritization (`analytics`) | none | pure functions | - |
| Chart workspace (`packages/graph-renderer/chart-workspace.mjs`) | pins, expansions, a path, manual items, redactions, notes, tasks, audit log, undo and redo stacks, a snapshot | a reducer per control | handlers of `app.mjs`, `localStorage` |
| Graph layout (`layout-model.mjs`) | positions, rotation, node visuals, undo and redo stacks | drags, rotation, icons, uploads, checkpoints | handlers of `app.mjs`, the workspace's saved layouts |
| Graph search, phrases, splits (`chart-workspace.mjs`, `bloom-exploration.mjs`, `graph-model.mjs`) | none | shortest path, phrases, scenes, chronological splits | workspace, review |
| Guided workflows (`harbor-lantern.mjs`, `financial-fraud.mjs`, `dojo-karate-split.mjs`) | settings, version, journey, finding, preflight mark | settings, scenes, reset, review marks, preflight | handlers of `app.mjs` |
| Transaction import (`transaction-import.mjs`, `dataset-registry.mjs`) | draft with its provenance, preview, applied and stored import | samples, typing, preview, apply, restore | workflows, `localStorage` |
| Model gates and baselines (`packages/predictive`) | none | folds, leakage, calibration, promotion, components, label propagation | panels of `app.mjs` |
| API client (`workbench-client.mjs`) | base URL, token and actor in `localStorage` | bootstrap, login, logout | the bridge, other tabs |
| Assistant, training, scripts | none | text, floating point, static files | web application |

What is hard here, and what each component must keep right:

- **Jobs.** Any number of workers; a worker can be slow, die, or come back with a
  token that is no longer current. Leases lapse, deadlines pass, and every call reads
  its instant *before* it takes the lock. A job must have one live attempt, stay
  within its budget, publish once, under its live lease and before its cancellation;
  results form one chain; a correction reaches everything that rests on the corrected
  input; a job must end.
- **Storage.** No lock between processes, only the atomicity of one directory rename;
  a call can fail, with a cleanup, or die, without. No report may be visible before
  all it binds; what a call returned must stay true; nothing may be replaced.
- **Anchor.** List, read the tail, publish: a check-then-act over a directory. A
  receipt must verify for ever, a retry must not anchor twice.
- **Chart workspace.** Identifiers come from list lengths and repeat after a removal;
  undo restores whole versions, audit log included; snapshots come back in another
  session and another use case. Manual edges must keep their ends, a redaction must go
  with the entity it was made for, a path's nodes must stay joined, the log must tell
  of what is shown, and undo and redo must walk one timeline.
- **Layout.** Drags without checkpoints, uploads that finish after the user has gone
  on, restores and use-case switches share two stacks.
- **Review.** A passed preflight and a version number are kept beside settings that a
  dozen handlers change, each with its own list of analytical keys.
- **Import.** A provenance label travels with a draft that anything can replace; rows
  are rejected for ids that were rejected before; a failed write brings an older
  import back.
- **Search, gates.** A breadth-first search over rows in display order; label
  propagation that keeps to components; folds that must not look ahead; calibration in
  bins, of a number the manifest chooses, that must not hide the bias of the whole.
- **Client.** A bridge that was asked and fails must not be replaced silently, although
  other tabs change the stored address while the page waits.
- **Audit ledger, assertions, boundary, pool, cache, S3.** Orders of two transactions,
  a credential spent by a denied request, context left on a pooled connection, a
  cached projection of an older snapshot, stale predecessors. Not modelled yet; see
  the plan below.

## 2. Modules

| Module | Role |
|---|---|
| `DurableJobs` | the in-memory job repository, one action per method |
| `DurableJobsProperties` | its properties, the refinement, the fair specifications |
| `FencedResults` | abstract: fencing epochs and append-only result logs |
| `DurableJobsProofs` | proofs of its invariants, its action properties and the refinement |
| `ObjectStorage`, `ObjectStorageProperties` | file-system object storage and its properties |
| `ObjectStorageProofs` | its proofs |
| `AuditAnchor`, `AuditAnchorProperties` | file-system audit anchor and its properties |
| `AnchorLog` | abstract: an append-only log of checkpoints |
| `AuditAnchorProofs` | its proofs |
| `VisibleGraph` | the graph a view shows; what shortest paths are |
| `ChartWorkspace`, `ChartWorkspaceProperties` | the workspace's reducers under their handlers, and its properties |
| `WorkspaceTimeline` | abstract: a bounded timeline of versions with a cursor |
| `GraphExploration`, `ModelGates` | the path search as a machine; communities, splits, folds, calibration and promotion as operators |
| `GraphExplorationProperties` | what they must compute, by definitions that do not follow the code |
| `GraphExplorationProofs` | proofs about them |
| `ReviewSession`, `ImportDesk` | one analyst's review; the import desk |
| `Workbench`, `WorkbenchProperties` | both composed over the local storage they share, and their properties |
| `GraphLayout`, `DemoClient` | the layout with its uploads; bootstrap, login and logout |
| `Page`, `PageProperties` | both composed: loading the page takes the layout and every pending upload away |
| `DataLemmas` | lemmas about data, of values: induction over sets of numbers, functions by recursion, joined sequences, bounded undo and redo stacks |
| `ChartWorkspaceProofs`, `WorkbenchProofs`, `PageProofs` | proofs |
| `MC...` | instances for TLC, one per specification |

A definition that a comment introduces with "Fault:" is a deliberately wrong
variant of the one that follows. No specification uses it; each property is
shown to fail when some right definition is replaced by its fault.

### DurableJobs

*State.* `jobs` is `_jobs` with `_idempotency`: the pair (case, idempotency key)
opens a slot once and for ever, so the slot is the job; a slot never submitted is
"absent". `attempts[j]` is `_attempts` with `_staged`, and an attempt's index
is its token. `publications` is `_publications` in commit order and an index is
an identifier; both are fresh uuids in the code, compared for equality only.
`heads`, `receipts`, `impacts`, `outbox` are `_current_publication`,
`_completion_receipts`, `_impacts`, `_outbox`; the outbox is kept as the set of
intents, without their order or dispatch.

*Steps.* Every public method holds one lock, so a call is one action. A call
refused by validation changes nothing and is no action; a call refused because
its lease has lapsed *does* change something, the expiry it performed first, and
is `RefuseLapsed`. `Claim` and `ClaimNothing` expire every lapsed lease and fail
the overdue jobs they pass, as the loop in `claim` does. Ties by `available_at`
are resolved freely where the code uses creation order.

*Time.* Stored instants are distances from the clock; `Tick` moves them all into
the past and stops at `-Lag`, below which no call can tell them apart. There is
no bound on the clock. A call works with an instant in `-Lag .. 0`.

*Abstracted.* An output's content is one value; a dependency is a kind and a
target; metadata, uris and wording are left out, and so are `created_at` and
`published_at`, which decide nothing but ties.

### ObjectStorage

Each method is cut where another process can see a difference: the rename of an
object, the read back, the check of dependencies, the manifest's rename, its read, and
for markers the creation, the filling and the rename of the temporary directory. A
digest is the content. `Fail` is an exception (the `finally` removes the temporary
directory), `Die` is a process that ends (it stays). Temporary directories are state
only for markers, which are filled after their creation and may be left behind by a
call that dies. Tampering, JSON, key syntax and power loss are outside.

### AuditAnchor

One stream. `Scan` is the first listing of `anchor`, `ReadTail` the second,
`Publish` the rename, `Confirm` the read back; `Fail` may end a call between any
two. A receipt's directory name, sequence and checkpoint id, stands for its hash,
because names are never reused for another content (proved: a name belongs to one
receipt). Whether a deployment serializes the calls of a stream is not said by the
code, so `serial` is chosen once in `Init` and both kinds are covered.

### The browser side

JavaScript runs one handler at a time, so a handler is a step; the exceptions,
which wait for something in the middle, are cut there: the upload of a node's
image (`StartUpload`, `RefuseUpload`, `FinishUpload`), the login (`StartLogin`,
`FinishLogin`, `LoginFails`) and the bootstrap, which reads the stored address, awaits
the answer and goes by what it read (`LoadClient`, `Bootstrap`).

**ChartWorkspace.** A version is what `commitWorkspaceChange` clones: the `work` of
the workspace and the snapshot `saved` in it; `undo`, `present`, `redo` are the stacks
and what is between them; `disk` is the snapshot in `localStorage`, shared by all use
cases; `view` is the use case with its settings. Every control is `Handler(w)`
for the reducer it calls, because a handler commits whatever the reducer returns,
changed or not; typing a query (`ChartSearch`) and the audit entry of a saved AI
note amend the present version without a commit. Lists that only grow and
whose members are told apart by position are counters (annotations, comments,
notes, searches); manual ids are pairs of prefix and position, computed from
the list's length as `nextId` does, so they do repeat. A path is *any* shortest path of
`VisibleGraph`, since which one it is depends on the order of rows;
`GraphExploration` shows that the code's search returns one of them. `Snapshots`
is what earlier sessions may have stored.

**GraphExploration.** `shortestPath` step by step: `SkipRow`, `Arrive`, `Follow`,
`Dequeue`, `GiveUp` over the rows in display order. Components, label propagation,
chronological splits and, in `ModelGates`, leakage, temporal folds, calibration and
promotion are operators evaluated at the first state of a search; the algorithms do
not depend on each other's input, so an initial state varies one input at a time.
Sorting order is the order of numbers; percentages are whole numbers and rounding is
that of `Math.round`. Scores and labels of a calibration are whole percents too, its
error is kept multiplied by the number of predictions, and the four decimals to which
the code rounds the means of a bin are left out. Everything the code computes in a
loop is a recursive function (a walk's turns, a round of labels, a chunk of rows) and
no RECURSIVE operator, so that it can be reasoned about.

**ReviewSession, ImportDesk, Workbench.** `settings` holds the analytical keys (alias,
window, relation filter, infrastructure), so a change of view settings is only its
effect on the preflight mark, and applying the recommended split, which goes past
`updateSetting`, has none (`ApplyRecommendedSplit`). `DeviceRows` is the kinds of an
import's rows that name a device or a place: whether one of them is shown depends on
the relation filter and on the infrastructure setting, as for any other row. `journey`
holds the marks of the review and `findingReady`. `PreflightPasses` is what
`runPreflight` of the active workflow computes from them; checks that no state of the
program fails are left out. `ActiveCase` is `activeWorkflow`: an applied import takes
the fraud case's place. In the import, a row is an id and whether its own fields are
valid, so that acceptance (`Accepts`) keeps its dependence on earlier rows; writing
the storage may fail (`Apply`), and a reload restores what it holds (`ReloadPage`).

**GraphLayout, DemoClient, Page.** `undoLayouts`, `layout`, `redoLayouts` are
`graphView`; `uploads` are the images being read, each with the node it was started
for. `stored` is the base URL in `localStorage`, which another tab may change at any
moment (`OtherTabLogsIn`) and which a logout keeps; `asked` is the one the bootstrap
read before its await, and `transport` what it ended with, or "loading". No handler is
attached before (`Ready`). A browser always has a fetch function, so the branch
without one (`workbench-client.mjs:133-135`) is left out. A refused request, a
malformed answer and a lost connection are one outcome, since the code treats them
alike.

## 3. Runs

Every run finishes within about two minutes with two workers.

| Run | Instance | Shows |
|---|---|---|
| `jobs_lifecycle` | 2 jobs (budgets 1 and 2, two kinds), deadline 2 or none, leases of 2, retry delays 0 and 1, lag 1; 190 thousand states | lease exclusivity, budget, fenced publication, truthful outbox, cancellation fence, finality, honoured leases, start window, and the refinement `KeepsThePromise` |
| `jobs_lineage` | 3 alike jobs of one case, one result key, up to 2 dependencies each, 2 alike corrections in 2 cases; 31 thousand states after symmetry | the chain of generations, impact evidence, permanence of staleness; a correction reports exactly what rests on its input, each at the length of its shortest chain |
| `jobs_liveness` | 2 jobs, budget 2, deadline 1, lease 2; 14 thousand states | every submitted job ends |
| `storage` | 2 alike callers, 2 contents, 2 media types, one report, two markers under one id; 1.9 million states | returned values stand, manifests reconstruct, ids have one meaning, nothing is replaced |
| `anchor` | 2 alike callers, 6 checkpoints that repeat ids and sequences; 410 thousand states | receipts verify (serialized), stand, converge, chain back; the refinement `KeepsTheLog` |
| `workspace` | 2 nodes, a relationship that one of 2 views hides, a history of 1 version, 3 commits, a snapshot of an earlier session with a repeated id; 709 thousand states | manual edges keep their ends, a redaction goes with its manual entity, paths stay joined, items are audited, and the refinement `KeepsTheTimeline` |
| `exploration` | all lists of up to 3 of 7 relationships over 4 nodes with all ends; 3 anchorings; up to 12 instants; artifacts with up to 3 predictions on and off the bins' boundaries, 2 or 10 bins, and such as fail at one gate; 35 thousand states | shortest paths, termination, communities, splits, folds, and no biased artifact eligible |
| `workbench` | 3 cases, a sample, a slice and pasted rows with invalid and repeated ids, versions up to 3; 709 thousand states | preflight marks hold, versions name settings, provenance is true, rows are accounted for |
| `page` | 2 cases of one node each, a history of 1 layout, one turn of rotation, one bridge and other tabs; 535 thousand states | the layout's refinement `LayoutKeepsTheTimeline`; the bootstrap fails closed |
| `jobs_late_retry`, `workbench_reset`, `page_upload` | one job; the instances of `workbench` and `page` | one divergence each (section 6) |

*Why these bounds.* Two jobs are what a single `claim` needs to expire one,
fail another and take a third state apart; budgets 1 and 2 give a first, a last
and an only attempt, and a stale worker of the first while the second runs. Lag 1
makes a call act on an instant older than a tick already taken. Three
publications with two dependencies are the least graph in which a publication
is reached over paths of two lengths and propagation must go through two
publications. Two callers suffice for a race between any two steps of a method,
since the steps of a third change nothing those of the second do not; the
proofs drop this bound. Corrections of a second case show that a case's
staleness stays in it.

A history of one version makes every second commit drop one, which is where a bounded
stack goes wrong; `HistoryLimit` is 30 in the code, `LayoutLimit` 20, and the proofs
hold for every limit. Three commits (`MaxCommits`) add, remove and add again, and the
earlier session's snapshot holds the repeated id that more commits would be needed
for. The two views let a path lose its relationship while it is shown. Four nodes and
three relationships are the least graphs with a detour, a cycle and an unreachable
part; twelve instants exceed the largest number of slices several times over and reach
past the ten rows up to which a whole percent names a boundary exactly. The
predictions' scores lie on the boundaries of ten bins and of two, between them and
outside 0 to 100; three of them put two into one bin and one into another, where
errors could make up for each other. `MaxIterations` is 25 in the code and 2 here, so
that label propagation is also seen cut off before it settles. Three versions
(`MaxVersion`) give a preflight room to pass, be undone and pass again; an invalid row
before a valid one of the same id is the case in which the order of rows decides.
`Turns` bounds a rotation that only the stacks could tell apart.

*Symmetry* is used in runs without liveness only, over values the instance does
not tell apart. Deadlock is checked everywhere but in `exploration`, whose
search stops when it has its answer.

*Fairness.* `PolledSpec`: the clock moves, and some worker keeps polling for
every kind with a fresh instant (ADR 0009's model of workers). `FairSpec`: also,
renewals do not go on for ever. The code bounds neither a lease nor an attempt,
so without the last assumption a worker that keeps sending heartbeats keeps a
job running past its deadline. No fairness is assumed of a worker that holds a
lease: it may simply vanish. `GraphExploration` is fair to its own next step: a
JavaScript function runs until it returns. The user's controls are never fair.

## 4. What is proved

Every safety invariant, every action property and every refinement that a passing
run checks is also a theorem, for every value of the constants under the
assumptions below. Only the two liveness properties are not.

*Assumptions.* Most say what values a constant has:
`SpecAssumption`, `TimeAssumption`, `NoneAssumption`, `BoundAssumption`
(`DurableJobs`); `CheckpointAssumption`, `NoneAssumption` (`AuditAnchor`);
`PlainAssumption`, `InputAssumption`, `NoneAssumption` (`ObjectStorage`);
`WorkspaceAssumption` (`ChartWorkspace`: limits are numbers, tables are total);
`ViewAssumption`, `LabelAssumption` (`GraphExploration`); `FoldAssumption`,
`ManifestAssumption` (`GraphExplorationProperties`: predictions are finite lists);
`GateAssumption` (`ModelGates`: an unreadable instant and a missing number are told
apart from every other); `LayoutAssumption`
(`GraphLayout`). Those that say more of the program are:

- `GraphAssumption` (`VisibleGraph`): a graph has finitely many nodes, and a
  relationship two ends among them.
- `TimelineAssumption`: rows are in order of time, as `graph-model.mjs:81` sorts them.
  `SplitAssumption`: a count is at least 1 and a boundary not negative, which the
  code's `Math.max` and the controls' ranges see to; the count of 1 is among the
  choices.
- `DeskAssumption` (`ImportDesk`): samples have the fields of a draft and a known
  format. `RowsAssumption`: a text that can be read has its rows in a sequence.
- `IdAssumption` (`ChartWorkspace`): no source row bears the id of a manual entity.
  The sample data and the fraud case's accounts keep to that; an imported row whose
  account is literally called `manual-entity-1` does not, and is outside the theorems.
- `SnapshotAssumption` (`ChartWorkspaceProperties`): a snapshot of an earlier session
  was the content of a version of *its* session, with what the four invariants say of
  it. It is the induction hypothesis of an induction over sessions: the first session
  finds no snapshot, and `WorkspaceInv` shows that each leaves one such.

*Induction over data.* The library's induction theorems take an operator as a
parameter, which cannot be instantiated here. `DataLemmas` states induction for a
*set* of natural numbers instead (`Inductive`, from the least member of a set that
`NatLessThanWellFounded` gives), and what a recursive function computes for functions
with a step function (`BoundedIteration`). With these the values of recursive
functions are proved things about: paths by length, waves of a correction, walks of
a component, rounds of labels, rows of a preview, `FlattenSeq`.

**Jobs** (`DurableJobsProofs`): `TypeCorrect`, `LeaseExclusive`, `BudgetKept`,
`FencedPublication`, `OneChainPerResult`. Their inductive invariant is `IInv`, which
`IInvIsTheInvariants` shows to be the conjunction of the five invariants
themselves. None is inductive alone: a publication is the last attempt's only
because a terminal job is never claimed, which needs the lease to name the last
attempt, which needs the counter to count the attempts; and budgets hold
although `claim` never reads them, because expiry and `fail` leave no
exhausted job waiting. The proof treats each job by itself (`JobOK`, stated of
values, so that it can be asked of what a call writes) and then what is
shared, one lemma per action.

*Step by step*: `TerminalStays`, `CancellationFences`, `LeasesAreHonoured`,
`StartsAreInTheWindow`. `StepOK` says of
one job's step what all four ask; a job can only stay quiet, lose a lapsed
lease, end its attempt, be failed as overdue, or be claimed, and each action is
one of these for every job. The fence needs one more invariant, `Requested`: a
job with a pending cancellation runs or is cancelled, so no claim can take it.
`StalenessStays` needs `StaleNamed`: a stale publication names its cause.
`OutboxIsTruthful`: a step keeps the outbox truthful if the events it adds explain
what it did to every job's attempts (`Explained`) and are true when written
(`True`).

*Staleness*: `StalenessIsExplained` says what the rows of a correction look like, each
hanging from one a depth nearer; `CorrectionsReachAll` that they are all there and at
their least depth. The invariant `Evidence` adds to `ImpactEvidence` that a publication
depends on older ones only (`DependsOnOlder`): each wave in which `record_correction`
goes through the dependents lies beyond the last (`WavesRise`), so the last one is empty
(`LastWave`). The rows at depth n are what wave n has and no wave before it
(`RowsOfCorrection`), and from that `Levels` concludes that they are the dependents of
the rows at depth n - 1 that have none nearer.

*Refinement*: `RepositoryKeepsThePromise`. A call is, for the abstraction, a retreat
or a grant of an epoch for each job, a commit, or nothing, and which of them follows
from the same case split (`Retreats`, `Grants`). That a completion appends to one log
and leaves the others as they are needs generations to be exactly 1, 2, ... along a
chain (`NoGenerationSkipped`), from `HeadChain`.

**Object storage** (`ObjectStorageProofs`): `StorageTypeCorrect`, `AnswersKept`,
`ManifestsAreComplete`, `MarkersAreUnique`, `StorageIsImmutable`, for any number of
interleaved calls. `StorageInv` adds to the invariants `CallOK`, what each call
has established on its way: a call about to publish a manifest has seen all it
binds, a call that created an object finds its own description. It stays true
under the steps of others because nothing stored ever goes away (`Kept`).

**Anchor** (`AuditAnchorProofs`): `AnchorTypeCorrect`, `ReceiptsStand`,
`OneReceiptPerCheckpoint`, `ChainsReachTheStart` from `AnchorInv`, for any
number of racing callers; it adds that a name has one receipt, that a
predecessor read remains stored and older, and that a creator finds its own
receipt. `SerialAnswersVerify` adds `SerialInv`: one call at a time, and what
it has read is still the tail when it publishes. `AnchorKeepsTheLog`: with serialized
calls the anchor implements `AnchorLog`. The log is the receipts in order of their
sequence numbers, and that these put them in *one* order (`Ranked`) is itself part of
the invariant `LogInv`; a new receipt goes beyond all, so the log gets one entry at
its end (`OneMoreReceipt`), and an id not seen by the scan is not in the log
(`Unseen`).

**Timelines** (`DataLemmas`): what a commit, an undo, a redo and an
amendment do to `undo \o <<present>> \o Reverse(redo)`, stated of values, so that
the workspace and the layout, whose stacks have different limits and variables,
share one argument. Its invariant is `HistoryOK`: *both stacks together* hold
at most `Limit` versions. That each stack is short enough alone is not
inductive: the bound that undo and redo put on the stack they push to would then
drop a version, and redo after undo would not give back what was there.

**Chart workspace** (`ChartWorkspaceProofs`): `HistoryHolds`, the invariant
`HistoryOK` of the workspace; `WorkspaceImplementsTimeline`, the refinement of
`WorkspaceTimeline` by every control, from `StepKinds` (each control is a commit, an
undo, a redo, an amendment or a restart of the stacks). `WorkspaceTypeCorrect`,
`WorkspaceItemsAreAudited`, `LinksStayAnchored`, `RedactionsGoWithEntities` and
`DisplayedPathsStayConnected` all follow from `WorkspaceInv`: the content of every
version at hand, of the snapshots in them and of the one on disk is `ContentOK`. It
must be asked of all of them at once, because undo, redo and restore bring any of them
back. Of a content, `LogOK` says that an item's number is bounded by its list and has
its entry in the log of the same version, and `ChartOK` that it has its type, edges
end in points that are there, a redaction with an entity's identifier is of one it
lists, and the path's nodes are joined by its relationships, visible or not. A removal
sets an identifier free that `nextId` may give again, so an edge keeps its ends only
because the removal of an entity takes its edges and redactions along. Operations that
touch neither part share `SameLog` and `SameChart`.

**Graph algorithms** (`GraphExplorationProofs`). `SearchFindsShortest` rests on
`SearchInv`: the paths waiting are in order of length and differ by one at most, no
shorter path leads to where one of them ends (`QueueOK`), the ends of all paths no
longer than the one at hand are visited (`Covered`), and a visited node waits or has
only visited neighbours (`Expanded`). The last is what makes "no path" true.
`SearchRunsOutOfWork`: the measure `WorkLeft`, of unvisited nodes, waiting paths and
the row at hand, is a natural number that falls with every turn, given that a scan
stays within the rows (`NextOK`). It is stated as `WorkRunsOut`, which no run lists:
it is the safety part of `SearchEnds`, which TLC checks together with the fairness
that makes turns happen. `LabelsStayInComponents`: the walk that collects a component
keeps to what paths join and leaves no neighbour out (`WalkOK`, `FoundOK`), so
components are the classes of what is joined, and propagation hands labels along
relationships only (`LabelsOK`, by rounds). `SplitsLoseNothing`: the cuts of a
timeline, at a boundary or in equal chunks, rise from its first row to its last, so
the slices between them put together are the whole (`CutsAreTheWhole`), and up to ten
rows a whole percent is fine enough for the boundary to be at the largest gap
(`BoundaryAfterGap`). `NoFoldLooksAhead`: folds go forward by at least one step, and
each trains up to the instant from which it validates and no further.
`PromotionHoldsBiasBack`: every prediction that counts falls into one of the bins, so
the excesses of the bins put together are the bias of the whole (`BinsMakeTheBias`), and
the sum of their sizes, the calibration error, is no less than the size of their sum
(`GapsAddUp`).

**Workbench** (`WorkbenchProofs`): `PassedPreflightsHold`,
`VersionsNameSettings` (with `VersionIsNat`) and `ProvenanceStaysTrue` (by `DraftInv`: a
draft keeps the fields of one, so that a change of its label shows). They are
short, because each handler sets the mark, the version and the label together;
one that did not is what each of them would find. `EveryRowIsAccounted` is about the
fold over a draft's rows: after each of them, the accepted are the first valid rows of
their ids and every row so far is accepted or rejected (`KeptOK`), and every draft at
hand is one of the desk's texts (`KnownInv`).

**Page** (`PageProofs`): `LayoutImplementsTimeline` from `LayoutInv` and
the timelines of `DataLemmas`; `BootstrapFailsClosed`, from what was asked: no step of
another tab changes that, and every load of the page forgets the answer to an earlier one.

**Only model-checked.** `EventuallyTerminal` and `SearchEnds`: they are liveness under
fairness, and need ENABLED. Also the three disagreements of section 6, which are
counterexamples and no theorems.

## 5. Plan

Later work extends the project in this order:

1. `PostgresJobs`: the SQL functions with their row locks and statement order,
   against `FencedResults`.
2. `AuditTrail`: the outbox's dispatch, the ledger trigger `prepare_audit_event`,
   checkpoint requests; composed with `AuditAnchor` through `AnchorLog`.
3. `AssertionRevisions`: the bitemporal repository and trigger; the projection
   cache over it.
4. `AuthorizationBoundary`: session derivation, replay consumption, pooled
   connection context.
5. `S3Storage`: conditional creation and the anchor with a predecessor callback.
6. The column mapping of imports, the assistant's draft across use cases, and
   one page that composes workspace, review, layout and import.
7. Pure algorithms against reference definitions: lineage and prioritization.

Proofs come with each of them: the invariants of `PostgresJobs` and its
implementation of `FencedResults`; that `prepare_audit_event` keeps one chain. Of
what is modelled, a few facts that no property states yet are worth a theorem too:
that restarting a timed-out call of the storage converges, and that the review's
journey is only ever marked by a preflight of its own case.

## 6. Where documents and code disagree

| Run | The document | The code |
|---|---|---|
| `jobs_late_retry` | ADR 0009:57: retry only while the deadline permits | an expiry looks at the budget only; the SQL reaper looks at both |
| `workbench_reset` | `phase-2-product-requirements.md:182`: time windows have reset-to-recommended; `app.mjs:788`: reset restores the original analysis | the reset of the dojo benchmark gives it Harbor Lantern's window, 30 in place of 8 |
| `page_upload` | `i2-better-ai-execution-checklist.md:82`: users can assign uploaded images to nodes | an upload that ends after a switch of use case puts its image under a node the new case does not have |

Others were seen while modelling. Kept as hazards in `PROJECT.json`: a heartbeat renews
past the deadline without end; a dependent committed after a correction stays current;
two callers of the anchor can chain to one predecessor; the recursive listing of
retention markers also meets the temporary directories of dead calls; and an exported
briefing names the redacted nodes at the ends of a path's relationships
(`chart-workspace.mjs:216-220`), where `i2-better-ai-execution-checklist.md:128` wants
restricted fields hidden. A logout keeps the bridge's address
(`workbench-client.mjs:111-114`), so the next page asks the bridge again, where
`secure-hybrid-demo.md:123` speaks of a return to static training mode; the model does
as the code does.

## 7. Not modelled

Signature and JSON formats, key syntax, tampering with stored files, power loss,
rendering, text generation, floating-point training and scoring, the panel that
compares candidates with thresholds (`model-gates.mjs:332-453`), parsing of CSV
and JSON, static file serving and benchmarks. The remaining components wait for
the plan; each is listed in `PROJECT.json` with its reason.
