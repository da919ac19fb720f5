# X-Ray: a verification project

X-Ray ingests exports of an organisation's tools (Slack, Jira, GitHub, mail,
Confluence) into an immutable graph snapshot, looks for coordination gaps in
it with a few *lenses*, lets a reviewer approve *repairs* that overlay the
graph, and can load a snapshot into HydraDB, a graph database, to run the same
lenses as queries.  This directory holds TLA+ specifications of the parts of
it that keep state and of the algorithms their answers rest on, the TLC
configurations that check them on small instances, and proofs about them for
TLAPS.

    tlc -config RepairLedger_sequential.cfg MCRepairLedger.tla
    tlapm RepairLedgerProofs.tla

## The system

| Part | State | Operations | Talks to |
|---|---|---|---|
| Snapshot service (`services/snapshots.py`) | the selected snapshot (bundle, kind, name), under a lock held for one access at a time | `current`, `require`, `activate`, `import_request`, `replace_bundle` | every handler; ingest for uploads; fixtures |
| Repair ledger (`routers/api.py`) | a plain dict from (snapshot id, repair id) to a mutable entry | `get_repairs`, `decide_repair`, `verify_repair_endpoint` | snapshot service, repair analytics, write access |
| Repair analytics (`repairs.py`) | none: bundles are immutable | `propose_repairs`, `apply_approved_repairs`, `verify_repair` | the lenses |
| Coordination lenses (`analysis.py`) | a process-wide memo of derived graphs, keyed by `id(bundle)` | gap findings, faultlines, asymmetries, ghosts, what-if | bundles |
| Identity candidates (`identities.py`) | decisions, a dict keyed like the ledger | list, decide | snapshot service |
| HydraDB loader (`loader.py`) | checkpoints, a map from batch to row hash | `load` | gateway |
| HydraDB gateway (`gateway.py`, `cypher.py`) | none: every statement commits on its own | `run`, `run_batch`, one retry of a transient failure | HydraDB |
| HydraDB client of the API (`hydra.py`) | the driver | `seed_bundle`, health, distances, graph rows, phantoms | loader, gateway |
| Live lenses (`lenses.py`, `routers/api.py`) | none: an answer is composed from what its queries returned | graph, ghosts, faultlines, gaps, gap-paths, questions, each live or from the fixture | HydraDB client, lenses, questions |
| Ingest (`pipeline.py`, `sources.py`, `identity.py`, `canonicalize.py`, `derive.py`, `gaps.py`, `ids.py`) | an id registry and the nodes and edges built so far, for one run | rows to records to a bundle | adapters of file exports |
| Snapshot store (`manifest.py`) | a directory of parquet files and a manifest with digests | write, verify, read | ingest, loader |
| Runtime manager (`xray_runtime`, `scripts/setup.sh`, `scripts/teardown.sh`) | reservations in memory, a directory of secrets and manifests, compose projects | reserve, prepare, start, verify, stop, purge | Docker |
| Questions and verdicts (`questions.py`, `verdicts.py`) | none | answer a question from a bundle, or from rows; judge an answer | lenses |
| Web application (`apps/web`) | hooks: the lens shown, the import in flight | fetch, render | API |

`PROJECT.json` lists the parts, file by file, with what is modelled of each.

### What is hard about it

* **Threads.** The endpoints are synchronous functions, which FastAPI runs on a
  pool of threads.  The snapshot service locks single accesses, the ledger and
  the identity decisions are not locked at all, and a handler that reads the
  active bundle, computes for a while and writes a new bundle back holds
  nothing in between.
* **A key that outlives what it names.** The ledger is keyed by the snapshot id,
  which says nothing about the overlays on the bundle; switching snapshots
  drops the overlays and keeps the entries.
* **A store without transactions.** A load is many statements, each committed
  alone, with failures that are skipped over, retries of a statement that may
  have been committed, crashes, and checkpoints that decide what a later load
  leaves out.  Whether it is complete is judged by counting rows, one query at
  a time, while other loads write.
* **Ids that may coincide**: 63-bit digests, memos keyed by object identity,
  rows collected in a dict by key.
* **Two programs for one lens.** Each lens exists over the bundle and over rows
  that queries return, one query at a time, from a database that may be
  empty, older than the bundle, or being seeded, and any query may fail.
* **Callbacks anywhere.** A bundle that nobody holds is collected at any time, and
  the callback of its weak reference interrupts whatever runs.
* **Files written one after the other** by ingest and by the runtime manager,
  where several processes may be at work and each may die.

### What makes each part correct

* Snapshot service: name, kind and graph of the selection belong together; an
  overlay stays until the snapshot is switched.
* Ledger: nothing is overlaid and nothing is closed without an authorised
  approval; what the ledger calls closed the lens does not find; a status never
  contradicts the answer it came with.
* Repair analytics: an applied repair removes its finding, and adds to what
  there was.
* Loader: a report never claims more than the database holds; a checkpoint never
  hides a row that is missing; a load that meets no failure completes.
* Lenses: a memo never answers for another bundle, and every call returns;
  rankings, impacts and bridges agree with the shortest paths of the graph.
* Live lenses: from a database that holds the served snapshot, live and fixture
  answers are the same; an empty or failing database changes no answer; an
  answer says where it came from.
* Questions: whoever owns a module owns it in every lens.
* Ingest: two identities never share an id; what is built is a graph at every
  step; an export is refused for known reasons only; counts say what the rows
  say.
* Snapshot store: a reader never accepts what a writer left half done.
* Runtime manager: two runtimes never share the state of a graph; a secret never
  changes under the containers that run with it; every command ends.

## Modules

    Coordination          gaps, faultlines and repairs, as operators on bundles
      Snapshots           what can be selected
        SnapshotLedger    what the ledger promises: one request, one step
        RepairLedger      the program: handlers, cut at their shared accesses
          MCRepairLedger      instances
          RepairLedgerProofs  theorems, and that it keeps what SnapshotLedger promises
    LoadBatches           how rows are cut into batches
    HydraLoader           loads, checkpoints, failures, crashes
      MCHydraLoader           instances (with LoadBatches)
      HydraLoaderProofs       theorems
    SnapshotStore         a snapshot directory: writers, readers, the cache
      MCSnapshotStore         instances
      SnapshotStoreProofs     theorems
    SourceRecords         from the rows of an export to canonical records
      Ingest              from records to a validated bundle
        MCIngest              instances
        IngestProofs          theorems
    GraphRuntime          runtimes: directories, compose projects, racing commands
      MCGraphRuntime          instances
      GraphRuntimeProofs      theorems
    CommunicationAnalysis paths, centrality, bridges, impacts, as operators
      CommunicationProofs lemmas: recursions, sums, levels, shortest paths, the search
      GhostScores         ghost_scores under threads, and its memo
        MCGhostScores         instances
        GhostScoresProofs     theorems (with CommunicationProofs)
    Questions             answers from a bundle and from rows, verdicts
      LensAnswers         each lens over a bundle and over rows
                          (with CommunicationAnalysis and Coordination)
        Lenses            requests, queries, failures, seeding, labels
          MCLenses            instances
          LensesProofs        theorems

An operator named `X_Something` is `X` with a mistake in it, as a change of the
code could make it.  Nothing uses these operators; putting one in the place of
`X` shows that the run it is listed with in `PROJECT.json` notices.

### Coordination

A bundle is immutable, and what the API derives from it is its source and the
set of overlays applied to it: `[source, overlays]`.  An overlay's ids are
digests of the repair, so applying a repair twice adds nothing, and a set is
what the code has.  The lenses read three things that overlays change: phantom
nodes (relabelled when a gap is closed), COMMUNICATES edges (an owner bridge)
and OWNS edges (a backup owner, a published owner).

`faultlines` keeps the thresholds of the code: distances up to 4, weak from 3,
owners with confidence above 50 or of rank 1, an active assertion of the highest
authority instead of all other owners, the first five lines by weight and
risk.  Texts, verdicts and labels of findings are left out.  Canonical keys are
numbers where the code sorts by them.

The breadth-first search is unrolled to its four levels.  The unrolling is what
lets the operator be used in proofs, and it loses nothing: `max_len` is the
literal 4 wherever repairs are involved.

### RepairLedger

| Action | Code |
|---|---|
| `Decide` | write access, then `SnapshotService.require` |
| `ProposeFromBundle`, `ProposeFromLedger`, `RepairNotFound` | the proposal from the bundle, or remembered in the ledger, or a 404 |
| `RecordRejection` | `repair_ledger[key] = ...` for a rejection |
| `ReplaceCurrent`, `ReplaceSet` | the two lock sections of `replace_bundle` |
| `RecordApproval` | `repair_ledger[key] = ...` for an approval |
| `VerifyRequire`, `VerifyEntry`, `VerifyCheck`, `VerifyUndecided`, `VerifyWriteClosed`, `VerifyWriteStatus` | `verify_repair_endpoint`, one access each |
| `Activate`, `Import` | the write of `_set`; everything before it works on the request's own values |

A request holds what `require` returned (`seen`) until it ends.  An entry is a
mutable dict that a verification may hold after it was replaced under its key;
`entries` is therefore a heap and `ledger` maps keys to places in it.
`authorised` and `overtaken` are history: the approvals that came with the write
token, and, for each thread, what other requests have written since its own
began (`"selection"`, `"ledger"`; a request that begins while another has made
one of its two writes is overtaken from its beginning).  The 404 of `require` for a snapshot that is not active changes nothing
and is left out, and so are rejected requests in general.

`SnapshotLedger` is what the design document promises, a request being one
step.  `RepairLedger` maps to it by `BookView`, which counts an approval as
recorded once the bundle is replaced and a verification's status as written
once its first half is.  With one thread the program implements it
(`PromisedSpec`).  FastAPI serves from a pool of threads, and there it does not:
`ServedAsPromised` says what is left, that every step of a request which nobody
overtakes is a promised one, with the verdict or the overlay promised of the
graph that is active, whatever races came before and whatever runs beside it.
`OverlaysLostOnlyByOvertaken` and `MixedOnlyByOvertaken` say the same from the
other side: an overlay is lost, and name and graph come apart, in one step only,
`ReplaceSet` of an approval that read the graph before another request wrote the
selection.

### LoadBatches and HydraLoader

`LoadBatches` cuts node rows by label and edge rows by shape, sorted, in chunks,
as `_node_batches` and `_edge_batches` do.  `HydraLoader` takes the batches as
a constant with the two facts that matter (`BatchesAssumption`: they cover the
manifest, and edges come after nodes); every run gives it those of
`LoadBatches`, so TLC checks the assumption of them.

| Action | Code |
|---|---|
| `Start` | `seed_bundle` creates a loader; `load` begins |
| `SkipBatch`, `RejectCheckpoint` | a checkpoint with the same, or another, row hash |
| `Retry` | the first attempt fails transiently, and may have been committed |
| `RunBatch`, `PutCheckpoint` | the statement, then the checkpoint |
| `FailBatch` | the statement raises; the loop goes on |
| `CountNodes`, `CountEdges`, `FailQuery`, `Finish` | the queries, one for the nodes and one for each relation type, and the report |
| `Crash` | the process dies anywhere |

An edge is written by matching both of its ends, and silently not written when
one is missing: `Upsert`.  `KeepsLoader` and `DurableStore` say which of the
loader's uses is meant: `seed_bundle` uses a loader once, and the loader's
interface and tests use it again.

### SnapshotStore

| Action | Code |
|---|---|
| `StartWrite`, `OpenFile`, `CloseFile` | `write_snapshot`, the six artifacts in its order; each is truncated, then complete |
| `HashFile` | `file_sha256`, taken from what is on disk |
| `OpenManifest`, `CloseManifest` | `manifest.json`, last |
| `KillWriter` | the script is killed; the files stay as they are |
| `ReadManifest`, `CheckFile`, `RejectFile` | the first half of `read_snapshot`; the digests come sorted by name (`CheckOrder`) |
| `ReadFile`, `ReadTorn` | the second half, which opens the artifacts again in another order (`ReadOrder`) |
| `Deliver` | the validation of `CanonicalBundle`, and `snapshot_bundle` keeping the result |
| `Evict`, `Restart` | the cache of four, and the API process |

The directory, its manifest and the cache are variables; what an artifact holds
is a number, and two artifacts have the same digest exactly when they hold the
same.  `Valid` says which combinations of artifacts pass validation: rows that
refer to rows of another artifact which are not there do not.  `intact` and
`quiet` are history: no write has begun since the manifest was written, and no
write has been under way since a reader took the manifest.

### SourceRecords and Ingest

`SourceRecords` holds the pure part: how the ids of people are resolved, which
modules of a row are kept, and which records each of the four row adapters makes
of a row.  A row has one shape whatever export it comes from.  An export may also
hold canonical records, as the API's own import does (`input.facts`): these are
nodes themselves, no rows stand behind them.  `Ingest` is
`ingest_exports` from there on:

| Action | Code |
|---|---|
| `PrepareRecords`, `RefuseRecords` | `_prepare_records`: one payload per source and external id |
| `AddNode`, `RefuseNode` | `BundleBuilder.add_node`, with `IdRegistry.register` |
| `AddObservedEdges` | the edges that records state, once every node is there |
| `AddEdge`, `RefuseEdge` | `BundleBuilder.add_edge`, with `IdRegistry.register` |
| `Derive`, `RefuseDerivation` | `derive_edges`: communication, ownership, authorship, dependencies |
| `DetectGaps` | `detect_gaps`: missing parents of threads, missing steps of contracts |
| `Compose`, `RefuseBundle` | the validator of `CanonicalBundle` |

`stable_id` is a constant, so that an instance can make digests collide, which
63 bits hardly do in a test.  The builder meets records in an order of its own
(`First`): which one matters to no proof, and TLC takes one, so the runs do not
explore orders and the theorems cover all of them.  And a phantom describes whichever of its replies comes last
(`LastReplies`): evidence is visited in the order of its digests, which is any
order.  An evidence row is the record it quotes.

A person of the directory may have a manager (`input.reports`, the metadata
field `manager_external_id`).  The handle is used as it is written, past the
identity map, so a manager whom nobody lists refuses the export
(`ManagerUnknown`).  The parent of a message may be spelled out as the key of an
artifact, of any source (`FullKey`, ids that begin with "artifact:").

### GraphRuntime

| Action | Code |
|---|---|
| `Start`, `Stop`, `Setup` | `start`, `stop` of the command line or of a kept manager, `setup.sh` |
| `Reserve`, `RefuseReservation` | `reserve`, in the memory of one manager |
| `WriteFile`, `PrepareFails` | `prepare`, file by file, from `mkdir` to the manifest |
| `ComposeUp`, `ComposeUpFails`, `ComposeDown` | `docker compose`, with the environment found on disk |
| `LoadHandle`, `StopFails` | `_load_handle` and `verify` |
| `Purge`, `PurgeFails` | `shutil.rmtree`, file by file, in any order |
| `Die` | the process is killed between any two of these |

A directory is a function from its seven files to what they say, or `None`.  A
process in `Kept` keeps its manager, and so its reservations, over commands; a
command line does not.  A runtime may come with several projects: `setup.sh` brings
an environment it finds up under the project it is given itself (its own default,
or `--project`), while a stop takes down the project of the manifest.  `prepared`, `overlapped` and `contested` are history:
what a manager has reserved, whether containers were started while a stop was
under way, and whether two processes deleted one directory at a time.

### CommunicationAnalysis and GhostScores

`CommunicationAnalysis` has the path lenses as operators: the communication
graph with unresolved people as stubs, breadth-first levels, shortest paths and
the least bridge, both ways to count centrality (all pairs below the limit,
Brandes' tallies over bounded paths above it), the ranking of ghosts, and what a
removal loses.  Centrality is counted in parts of a path, `Unit` of them to one: 12 in
the runs, so that the shares of the graphs in use are whole numbers.  `GhostScores`
assumes as much of every graph a call can be about, the served one and the copies:
`Unit` divides into the number of shortest paths of any pair (`ShareAssumption`).
The code's fractions are floating-point numbers; how they round is not modelled.

`GhostScores` runs them in threads:

| Action | Code |
|---|---|
| `Ask`, `AskWithout` | `ghost_scores` of the served bundle, or of a copy made for a what-if |
| `Acquire`, `Lookup` | the first critical section of `_bundle_graph_snapshot` |
| `Build` | the graph is computed, outside of the lock |
| `Acquire`, `Store` | the second critical section |
| `ScoreCall` | the score, a pure function of the graph, as `lru_cache` relies on |
| `Return` | the call ends, and its copy is freed or becomes garbage |
| `Collect`, `Discard` | a collection in any thread at any time, and the callback `discard` |

Addresses are used again as soon as a callback has run, which is what makes
`id(bundle)` as a key a hazard.  The lock is an `RLock`: `CanEnter` lets its
holder in once more, as a callback that interrupts it needs.

### Questions, LensAnswers and Lenses

`Questions` answers a question from a bundle and from rows, and judges answers.
Which names the words of a question match is data of an instance (`names`,
`spelled`).  A question in no known form has the intent `unsupported`.  The confidence of a live
dependent is always 50, the default of a property that no DEPENDS_ON edge has;
`LiveAgrees` does not compare it with the fixture's, and compares of a dependency
question the subject, the status and the dependents.  `LensAnswers` has every lens
twice: over the bundle, and over rows, with the limits of the queries: people and
drawn calls (`PersonRows`, `CallRows`), at most `PathCount` paths from one person to
another, any of them (`ShortestPaths`), the first `RowLimit` rows about a module.
It uses `Coordination` for faultlines, one instance for each bundle.  `Lenses`
composes them:

| Action | Code |
|---|---|
| `Ask` | a request for `graph`, `ghosts`, `faultlines`, `gaps`, `gap-paths` or a question |
| `RunQuery` | one statement of the handler, against the rows that are there now |
| `QueryFails` | `HydraOperationalError`, or an offline health check |
| `Respond` | the answer: live, fixture or mixed, with its label and its status |
| `StartSeed`, `SeedNext` | `POST /system/hydra/seed`, one label or one relation at a time |

The database is a bundle-shaped record of rows that are merged by id
(`Upsert`).  It starts empty, with the served snapshot, or with an earlier one of
the same dataset.  `seen` is history: what the database was at each query of
the request.  `LiveAgrees` names where the live program promises the fixture's
answer (`Comparable`), and leaves out, each for a reason in the code: answers for a
time window, which the database does not know; bundles with unresolved people,
which the drawn graph counts before it drops them; samples; rankings of more than
ten people, of whom only some show an impact; more rows on the subject of a
question than its limit, or more paths than the distance query's; phantoms without an epoch, which only the fixture interpolates; and two
missing records in a row, of which the queries see no neighbour that is missing.

## What the runs show

| Run | Shows |
|---|---|
| `RepairLedger_sequential` | With one thread the handlers implement `SnapshotLedger`. |
| `RepairLedger_concurrent` | With two threads every overlay and every closed gap goes back to an authorised approval; an applied gap closure or bridge closes its finding; an overlay is lost, or put on another snapshot's name, only by an approval that was overtaken between its read and its write; and every request that is not overtaken does what `SnapshotLedger` promises. |
| `HydraLoader_resume` | One kept loader, two batch sizes, a durable store, up to three failures and crashes: a report adds up, and claims no more than is loaded. |
| `HydraLoader_seed` | Two concurrent requests seed two snapshots of one dataset: "complete" is true although the counts mix both. |
| `SnapshotStore_written` | Writers that are killed anywhere and readers at any time: a read that no write overlaps gives a bundle that was written, a finished snapshot can be read, and nothing is cached that does not validate. |
| `Ingest_exports` | Every export of up to three rows of a pool of fourteen, under eight settings (seven directories, two of them with a manager, and one in which modules and posts arrive as canonical records), exports of at most one row under six settings in which something is refused, and three pairs of colliding digests: ids and identities stay one to one, nodes and edges are a graph at every step, an export is refused exactly for the reasons `RefusalExplained` lists, every reply is linked once, a weight counts each message once however many rows and facts repeat it, derived owners are those who wrote, and every ingest ends. |
| `GraphRuntime_race` | A command line and a kept manager race over three runtimes, of which two name one graph, two one project, and one is set up under either of two projects, with compose failing and processes dying anywhere: one manager never aliases, files are written once, containers that run under the project of their environment find their token, and every command ends. |
| `GhostScores_graphs` | Every graph of four people and one of five up to renaming, and three graphs under two threads: the ranking is that of the shortest paths counted path by path, a person of no centrality separates nobody else, bridges are least, the memo holds nothing of a dead bundle, and every call ends. |
| `Lenses_live` | Every lens and question over three snapshots and every state of the database: live answers are the fixture's where they promise to be, an empty or failing engine changes no answer, and every lens names the same owner. |

and three runs that end in a counterexample, each against a sentence of the
repository (quoted in `PROJECT.json`):

| Run | Counterexample |
|---|---|
| `RepairLedger_lost_overlay` | Two approvals at once: the later one replaces the bundle the earlier one repaired, and an approved overlay is gone. |
| `GraphRuntime_alias` | Two command lines, each with a manager of its own, prepare two runtimes on one graph. |
| `Lenses_labels` | The distance query fails, or only the gap queries do: the fixture's findings are labelled `hydradb`. |

### Disagreements met while modelling that no run checks

Each of these follows from the code, and can be seen by stating it as an
invariant of the run named.  They are listed for whoever changes the code.

* A switch of snapshots during an approval installs the old snapshot's graph under
  the new name (`replace_bundle`); activating a snapshot again drops its overlays,
  while the ledger goes on saying "closed"; a finding that is back is answered with
  `closed: false` and the status "closed"; approving a backup owner makes that person
  the only owner that counts (`RepairLedger_sequential`, `_concurrent`).
* When a node batch fails, the edges after it match nothing and are checkpointed as
  written, and a loader that is kept never loads them (`HydraLoader_resume`).
* A re-ingest between the check of the digests and the reading of the files serves
  artifacts of two snapshots (`SnapshotStore_written`).
* Two purges of one directory: the later one deletes on in what has been prepared
  again, and a secret can be written anew under running containers
  (`GraphRuntime_race`, with a third process and five commands).
* A start that overlaps a stop leaves containers running whose secrets are purged
  (`GraphRuntime_race`).
* `setup.sh:34` brings a runtime whose `compose.env` exists up under a project of its
  own (`xray-runtime-demo`, or `--project`), and a stop takes down the project of the
  manifest (`manager.py:112-127`): the teardown `setup.sh:102` names leaves those
  containers running, and `stop --purge-local` deletes their token
  (`GraphRuntime_race`, without the condition on the project in `RunningHasItsToken`).
* Activating a snapshot again keeps the verdicts that were reached with the overlays
  it drops; `SnapshotLedger` does the same, as no document says otherwise.
* Above the limit for exact centrality an unresolved neighbour raises a `KeyError`,
  while `analysis.py:164-165` keeps such people in the graph "so path lenses do not
  crash" (`GhostScores_graphs`).
* Whether a missing parent lies at the boundary of the export depends on which of
  its replies is visited last (`Ingest_exports`).
* Two required steps of a process that are missing one after the other are joined by
  an edge from phantom to phantom (`gaps.py:307-310`), which the fixture's gaps count
  (`analysis.py:385-410`) and the database's queries, which look for phantoms next to
  artifacts (`hydra.py:418-440`), do not (`Lenses_live`, with such a bundle).
* The window of days restricts the fixture's calls but not those of the database, so
  that live ghosts and faultlines of a window are those of all time; the limit on
  drawn people is applied before unresolved ones are dropped; live gaps lose
  interpolated epochs; the live owner of a dependent module is the first OWNS edge by
  id; the distance query can run out of rows before it has reached the pairs it
  was asked for (`Lenses_live`, the cases `Comparable` leaves out).
* While the engine is being seeded, ghosts may be computed from an empty database and
  found loaded by the health check that follows; faultlines do not ask for
  health at all (`Lenses_live`).
* The verdict DISPUTED is never reached by an answer of either program: a selected
  claim always carries the status "answered" (`Lenses_live`).

### Bounds

* `MaxRequests = 4`, two threads.  The races here need two requests at a time, and
  one or two before them that put a decision or an overlay in place; four are
  enough to approve, verify, switch and decide again.
* Three sources: two of one dataset (a fixture and an upload of the same
  organisation) and one of another.  Each holds a gap, a weak faultline and a
  faultline without a path, so that all repair kinds but
  `publish_codeowners` are proposed; that kind needs a distance that is neither
  missing nor weak, and such lines are not faultlines, so the code never
  proposes it.
* `MaxProposed = 5` is the code's own.
* `MaxLoads`, `MaxFaults`: four loads with three faults on one loader; three loads
  with one fault on two.  A wrong report takes at most one failure and one
  load to leave something behind, and one to trust it.
* `MaxWrites = 2`, `MaxReads = 2`, two readers: one write to leave a snapshot, one to
  be killed over it or to race with a reader, and two readers that both miss
  the cache.  Of the three bundles the second shares some artifacts with the
  first, so that mixtures of the two validate, and the third shares none, so
  that its edges do not fit other nodes.
* Exports of up to three rows: a reply, what it answers, and a third row that
  conflicts with one of them or writes about the same module.  The pool has, for
  each adapter, the rows that interact, and every reason to refuse an export
  occurs in it.  `OwnersPerModule` is 1, so that an owner is left out.
* `MaxCommands = 3`, two processes, and three runtimes, two on one graph, two in one
  project, and one under two projects: a command to prepare, and two that race over what it left.  Two purges that contest a directory while
  a third process prepares it need three processes and five commands; there
  the guards of `FilesWrittenOnce` and `RunningHasItsToken` begin to matter, and
  the theorems cover every number of both.
* `GhostScores`: four people below `ExactBelow` and five at it, so that both ways to
  count are used; of the graphs of five those in which person 1 talks to a first
  few of the others, which are all up to renaming.  Paths of `MaxLen = 4` are the
  code's own.  Three addresses for two threads: the served bundle, and one copy each.
* `Lenses`: one request, since a request keeps nothing for the next, one failed
  query, and a database that one seed changes under the queries.  `SampleSize = 4`
  is below the five people of one snapshot, `PathCount = 1` below the shortest paths
  that two people have, and `RowLimit = 3` at the most owner records that a module of
  these snapshots has, so that every question about a module is compared.
* Batch sizes 1 and 2 over two labels and two shapes: batches of one row and
  of more, and a re-cut that moves rows to another index.

Threads and readers are interchangeable, so `RepairLedger_concurrent` and
`SnapshotStore_written` declare them a symmetry; neither checks a liveness
property, and the action properties of the first are symmetric in the threads.

Deadlock is checked for the ledger, the loader and the snapshot store, where
`Quiet` stands for a server no client talks to any more once the bounded number of
requests is used up.  The other runs switch the check off, because their programs
stop: an ingest is over, the commands and calls of the bound have been made.  What
must not stop before is said by `IngestEnds`, `CommandsEnd` and `CallsEnd`.

### Fairness

* `Ingest`: weak fairness of the whole next-state relation.  It is one process that
  runs straight-line code, and nothing but its end stops it between two stages.
* `GraphRuntime`: weak fairness of each process's `Continue`.  A process that is alive
  runs, and `docker compose` returns, with success or without.  Giving commands and
  dying are not fair: nobody has to.
* `GhostScores`: weak fairness of each thread's steps.  The operating system runs
  every thread, and a lock that is free again and again is got in the end because
  its holder leaves it after one step and asks once.  When garbage is collected is
  not up to the program, and `Collect` is not fair.

The ledger, the loader, the snapshot store and the live lenses state no fairness and
claim no liveness: their requests run straight-line code over a lock that is never
held across a call, or wait for a database this project does not model.

## What is proved

For every value of the constants that satisfies the named assumptions, any
number of threads, requests, loads, failures and crashes included.

| Theorem | In | Along |
|---|---|---|
| `TypeCorrect` | `RepairLedgerProofs` | `TypeOK` is inductive |
| `OverlaysAreAuthorised` | | `AuthorisationInv`: also the bundles that requests hold are authorised, and so is the decision a request will act on |
| `ClosedGapsWereApproved` | | `ClosureInv`: every entry is under one key only, and the writes of "closed" a request still has to do are justified already |
| `AppliedRepairsClose` | | `WellFormedInv`: the nodes an overlay names exist in its source; then a bridge makes the distance of its two owners at most 1 (`BridgedOwners`), so no faultline between them remains (`RepairCloses`) |
| `SelectionMixedOnlyByOvertaken` | | `OvertakenInv`: until another request writes the selection, the bundle a request holds is the active one, and so are the name and the kind it is about to put over it |
| `OverlaysKept` | | `OvertakenInv`, and that applying a repair keeps the overlays there are (`ApplyKeeps`) |
| `KeepsItsPromise` | | `OvertakenInv`: of a request that is not overtaken, all it has read of selection, ledger and entry is still true (`Current`), and nobody else is between two writes (`Undisturbed`), so that `BookView` shows the ledger and its own half written entry; then, action by action, what it writes is one step of `SnapshotLedger` or does not show.  With one thread nobody is ever overtaken, so this is `PromisedSpec` for every ledger.  The write of an approval is the promised replacement, that of a rejection the promised record, `VerifyWriteClosed` the promised verification, a switch the promised activation or import |
| `TypeCorrect` | `HydraLoaderProofs` | `TypeOK`, which says of a checkpoint that it belongs to a batch its snapshot is cut into |
| `NodesAreLoaded` | | `NodesInv`: every batch before the current one that did not fail has its nodes in the graph, and so has every batch that has a checkpoint |
| `ReportsAddUp` | | `AccountInv`: completed and failed batches are the ones before the index |
| `FreshLoadsAreLoaded` | | assuming no loader is used twice: `EdgesInv`, which needs `NodesInv`: as long as nothing failed, the ends of an edge are there before the edge is sent, so that it is really written |
| `TypeCorrect` | `SnapshotStoreProofs` | `Typed`: `TypeOK`, and while there is something to write, hash or check, the next index is one of the six |
| `FinishedIsReadable` | | `WriteInv`: the artifacts before the index are written, then hashed; at the end digests, files and bundle are the same |
| `QuietReadsAreWhole` | | `WriteInv`, from which a manifest that is whole is a written bundle's, and `ReaderInv`: of a quiet reader, the artifacts before the index were checked, then read, and are still what they were |
| `DirectoriesOwned` | `GraphRuntimeProofs` | `DInv`: from `mkdir` to the manifest a directory belongs to the process that prepares it, from the first deleted file to the last to the one that purges it, and no two processes own one |
| `EachFileOnce` | | `DInv`: what its owner still has to write is not there, and nobody else writes |
| `ManagerNeverAliases` | | `RInv`: whatever a manager has prepared it still holds reserved, for its project and for its graph |
| `TokenStays` | | `MInv`: environment and manifest of a directory are one writer's, so a stop takes the project down that the environment names; `TInv`: nobody purges a directory that containers of its own project run from |
| `RuntimeTypeCorrect` | | `CInv`: tokens on disk and in containers are among those drawn, and what commands have still to draw is within what was given |
| `TypeCorrect` | `IngestProofs` | `TypeOK`, with `GInv` and `StageInv`: what is queued has a label, an edge has its fields, and a row that is merged keeps both |
| `EveryReplyIsLinked` | | `StageInv`: what is queued and what is built are together what the records ask for, stage by stage, so that a bundle that is composed has exactly their edges |
| `RegistryFailsClosed` | | `RegistryOneToOne` is inductive, as `Registrable` looks an identity up both ways |
| `BuilderHoldsGraph` | | `GInv`: every node is registered under its label and key, so two nodes of one id would be one identity with two labels; rows are only merged when their labels and keys agree |
| `RefusedForAReason` | | `RefusalInv`: every registered id is the digest of a key or a link of the input (`IdsKnown`), every node and edge is of a record, up to its evidence (`NodesFound`, `EdgesFound`), and each stage has ruled out what the next ones rely on.  Lemma by lemma: a conflict of records has one of four reasons (`ConflictsExplained`); without conflicts a node and an edge are of one record each, so adding one fails for a collision or a missing end only (`NodeRefused`, `EdgeRefused`); the derivation fails for a fact that is invalid or names what nobody knows (`DerivableWhenMet`); and two derived edges have one key exactly when something is stated twice (`KeysOnce`, `TwiceShows`) |
| `MessagesCounted` | | `CountInv`: merging never changes an edge, as two rows of one id are refused, and what was derived counts the rows.  A record of somebody reached is that of one message and every message has one (`BetweenCounts`), so the sum of what they count is the number of messages, plus the facts that are none of them (`TotalOfParts`) |
| `OwnersRanked` | | `CountInv`: an artifact has one author edge, and one edge to each of its modules, so the evidence of an author is twice what he wrote (`EvidenceCounted`); the order of authors is strict and transitive, so that one of them is first (`SomeoneIsFirst`), and whoever wrote more comes before (`RankBound`) |
| `MemoNeverStale` | `GhostScoresProofs` | `MInv`: a call has a bundle that is neither garbage nor dying; a callback runs once, for a bundle no call has; and a graph that is about to be stored is that of the bundle at its address |
| `AnswersItsBundle` | | `MInv`, and that from the lookup or the build on a call's graph is the graph of its bundle: an answer ranks the people of the bundle it was asked about, under any number of threads and collections (the first half of `RankingExact`) |
| `EveryoneRankedOnce` | | of `ghost_findings`, for every finite set of people and every centrality: the order is strict and total, so the ranks map people one to one onto 1..n, and the findings list everyone once, by descending centrality and then by id |
| `LeastBridgeShown` | | `BundlesAre`: whatever bundle is at an address has a finite undirected graph.  Of every such graph (`BridgeIsLeastPath`): shortest paths are the walks that go one level further with each step (`ShortestAreGeodesics`); the queue of the search holds, after each level, the least of these to every node of the level, in the order of the keys (`Explored`), and whoever is found later is found from the first that reaches him (`ExploredFurther`) |
| `RankedByPaths` | | `SInv`: `MInv`, `LInv` and `BundlesAre`; every bundle there is the served one or a copy that a call can make, so its shares are whole (`Copied`); and only the count over bounded paths fails (`NotRaised`).  Of every finite undirected graph: the number the search counts for a node is that of the shortest paths to it (`PathsCounted`); what is passed back to a node, level by level, is the sum over the nodes beyond it of its share of their paths (`DependenciesAreShares`); and the tallies of a group that nobody leaves are the shares of the paths of all its pairs (`TalliesAreShares`).  With `EveryoneRankedOnce` and `AnswersItsBundle` that is the ranking |
| `OnlyCentralPeopleSeparate` | | `SInv`, and that a share of nothing is no path at all, as shares are whole.  Who is on no shortest path of any length is on none of the bounded ones (`NotBetweenAtAll`), and whoever is on no bounded one is on no bounded path that others need, so nobody is separated (`NobodySeparated`) and a removal costs only the pairs of the removed person (`OnlyOwnPairsLost`), which are as many as the people reached, as reaching is mutual |
| `LockIsExclusive` | | `LInv`: who is inside a critical section holds the lock, and a thread that finds the lock its own would be inside already; with `MInv`, that callers and callbacks have bundles that are there |
| `TypeCorrect` | `LensesProofs` | `DbInv`: merging rows by identity keeps one row for each, whatever snapshots are written into the database, and what is left to seed are parts of the snapshot; `RowsInv`: rows come from queries with those fields |
| `OneOwner` | | `RowsOfServed`: the rows of a query that found the served snapshot are its own.  Faultlines and questions pick the owner by two sort keys of different shape; both orders are strict and total and agree on which OWNS edge comes first, which exists as the set is finite (`OwnersAgree`) |
| `TablesAgree` | | `RowsFromServed`: rows of a query that found the served snapshot are what that query returns of the served bundle.  No limit cuts them, as nobody has as many before him as there are members; next to a phantom are artifacts only, so the two queries for its neighbours see all of them; and what a question asks for is what the analytics look up.  `LiveAgrees` for the graph, the gaps, their paths and questions |
| `FaultlinesAgree` | | `DistancesServed`: the paths of a query that found the served snapshot are among those of its graph, and all of them when they fit the limit (`AllDistances`).  Of every finite undirected graph: spreading over the people who talk gives level after level of the search (`SpreadIsLevel`), so the distance of the analytics is the level somebody is met at (`DistanceIs`); two people are as far apart from either end (`SameDistance`), and a bridge is as long (`BridgeDistance`), so it does not matter from which of the two a path was asked for, nor which one is returned.  `LiveAgrees` for the faultlines; with `TablesAgree` that leaves the ghosts to TLC |
| `FailuresFallBack` | | lens by lens, for the request that is answered: no lens gives rows when a query failed, and for the gaps a failed query leaves no live gaps |
| `EmptyEngineFallsBack` | | `NoRows`: while the engine was empty at every query, the rows of nodes are empty, and a question has not asked beyond its check for health |

The invariants as the runs state them are not inductive: a request that holds a
stale bundle, an entry that is no longer under a key, or a checkpoint of an
earlier load can break them one step later, and the strengthenings say what
is true of those.

The assumptions are `KeysAreNumbers`, `SourceAssumption`, `AssertionsAreDated`,
`CatalogAssumption`, `RequestAssumption`, `RowsAssumption`, `BatchesAssumption`,
`StoreAssumption`, `RuntimeAssumption`, `InputAssumption`, `NoneIsNobody`, `NoneIsNoLabel`,
`FullKeyAssumption` (an id that spells a key out is that of an artifact), `CountAssumption` (an export is finite and facts count whole numbers), `OwnersAssumption`
(some owner is derived, and the keys of people are ordered), `GhostAssumption`,
`UnitAssumption`, `ShareAssumption`, `LensAssumption`, `BundleAssumption`, `OwnsAssumption`, `SortAssumption` and `EndsAssumption`; TLC evaluates each of them on the
instances.  Some theorems have a hypothesis of their own.  `MemoNeverStale`,
`AnswersItsBundle`, `LockIsExclusive`, `LeastBridgeShown`, `RankedByPaths` and
`OnlyCentralPeopleSeparate` need `NoneIsNoBundle`, that a record of a bundle is not the
value that stands for no bundle.

Only model-checked: `CompleteMeansLoaded` for a kept loader, which holds on the
one-snapshot instance; with two snapshots of a dataset it is false, since a row of
the older one may make up the count for one that is missing, and no run claims it.
Liveness (`IngestEnds`, `CommandsEnd`, `CallsEnd`), which is out of the prover's
reach.  `LiveAgrees` of the ghosts: that the graph put together from the engine's
paths ranks as the communication graph does is checked on the instances.

The provers take no induction over an operator.  Where one is needed its statement is
a set: of the subsets of a finite set (`SubsetInduction`, `FiniteByStep`), or of the
numbers up to a bound (`StepByStep`), from which `RecursionByRank` gets that a recursion
that goes down by rank has a solution, whatever the graph.

## What is not modelled

* `get_repairs` changes no state.  What it may read while it iterates over the
  ledger is on the list of hazards.
* Repair ids are formed by joining keys with "|"; a key that holds a "|" itself
  is not modelled.
* Row properties, hashes (equal exactly when the rows are), timestamps, texts,
  explanations, citations, and the chain of records shown with a gap.
* Asymmetries, and the endpoints that list and decide identity candidates: they
  fill a dictionary of their own that no other part reads.
* That a centrality is divided by the number of pairs there are.  `LiveAgrees` compares
  what is divided: with somebody who talks to no one the engine's graph has fewer
  people than the fixture's, and the two show different fractions of the same count.
* The words of a question: which intent and which names they match is given.
* The limit of the gap queries, which is the number of edges of the served bundle:
  no database of the instances holds more rows than that.
* The pid files `setup.sh` leaves for the API and the web server it starts.
* For good: the adapters that parse export files, rendering (reports, the web
  application), deployment, and the offline scripts that build and evaluate
  corpora; they keep no state and interleave with nothing.

## Plan

Done, in this order: the ledger (`Coordination`, `Snapshots`, `SnapshotLedger`,
`RepairLedger`), the loader (`LoadBatches`, `HydraLoader`), the snapshot store
(`SnapshotStore`), ingest (`SourceRecords`, `Ingest`), runtimes (`GraphRuntime`), ghost
scores and their memo (`CommunicationAnalysis`, `GhostScores`), and the live lenses with
the questions (`Questions`, `LensAnswers`, `Lenses`); and proofs about each of
them.  Next, the most important first:

1. `LiveAgrees` for ghosts as a theorem: an edge is a shortest path, so the graph of
   the paths is the communication graph without those who talk to no one, and leaving
   these out changes no share of a path.
2. A module for the web application's import flow and its late answers, should its
   hooks grow beyond rendering.
3. Asymmetries, as an operator of `CommunicationAnalysis` against a reference
   definition.
