# NimbusDB in TLA+

Specifications, model-checking runs and machine-checked proofs for NimbusDB: a
distributed database made of Go services (`services/*`) and a Rust storage
engine (`services/node-agent`).  Every definition is translated from the code;
`PROJECT.json` maps each to the lines it models.

* [1. The system](#1-the-system)
* [2. The modules](#2-the-modules)
* [3. The runs](#3-the-runs)
* [4. Fairness](#4-fairness)
* [5. The proofs](#5-the-proofs)
* [6. Where the code disagrees with its documentation](#6-where-the-code-disagrees-with-its-documentation)
* [7. What is not modelled](#7-what-is-not-modelled)
* [8. Plan](#8-plan)

## 1. The system

| Component | State | Operations | Talks to | What is hard | What makes it correct |
|---|---|---|---|---|---|
| Write-ahead log (`node-agent/src/storage/wal.rs`) | log file, `next_lsn`, sync policy | `open`, `append`, `flush`, `read_all` | storage engine | torn and short writes, failing `fsync`, crashes | acknowledged records survive; LSNs increase and are not reused |
| Storage engine (`engine.rs`, `recovery.rs`, `page.rs`, `snapshot.rs`, `compaction.rs`, `hash_index.rs`, `btree_index.rs`) | memtable, two indexes, vectors, page file, free list, snapshot files | `open`, `put`, `insert_vector`, `delete`, `backup`, `restore`, `compact` | log | crash inside every operation, partial failure, idempotent replay | a durable map; indexes and free list agree with the rest |
| Vector index (`vector/hnsw.rs`) | layered graph, entry point | insert, remove, search | engine | one-way links after pruning, dangling neighbours, random levels and entry points | the entry point exists, small indexes answer exactly |
| Replication (`replication.rs`) | follower table, streams | register, remove, `replicate_record`, `process_follower_ack`, `apply_replicated_record` | followers | several callers, lost and reordered acknowledgements, timeout | a success means the followers have the record |
| Node-agent service (`node-agent/src/main.rs`) | map of engines under one mutex | one RPC per engine operation | engine | - | operations of an engine do not overlap |
| Metadata service (`metadata-service/grpc/server.go`) | tables `nodes`, `heartbeats`, `databases`, `replicas` | one transaction per RPC | everybody | writers in any order | columns of a row agree, deleted rows stay deleted |
| Health manager (`metadata-service/db/health_manager.go`) | status of nodes | a sweep every 2s | registry | decides on what it read earlier | silent nodes are found, returning nodes recover |
| Control plane (`control-plane/orchestrator.go`, `reconciliation.go`, `handlers.go`) | goroutines only | provision, reconcile, create, delete | registry, scheduler, agents | every remote call can fail, time out or come late; crash between any two | nothing stays stuck; the endpoint is where the database is |
| Regions and leader election (`metadata-service/region`, `gateway/router`, `control-plane/election`) | - | health rollup, routing, election | scheduler, gateway | three places judge the same nodes by different rules; ties and the order of candidates | the nearest live region serves; electors agree and keep what followers have |
| Scheduler (`scheduler/placement`) | cooldown of the autoscaler | placement, scaling, region fallback | registry | stale node list, decisions close together | no placement on dead or draining nodes; one decision per cooldown |
| Worker agent (`worker-node`) | databases by id and name, directories, in-memory vectors, injected failures | create, delete, drain, insert, search, heartbeats | registry, control plane, gateway | the mutex is given up before directories are removed; counters are read and written in two steps; late calls, restarts | names and ids are inverse; disk and maps agree; filters do not leak |
| Deployment controller | deployment records, one goroutine each | start, trigger rollback, drain | registry | handlers and goroutines write the same record | a failed check is not promoted |
| Gateway (`gateway/handlers`) | none | fourteen routes; create, delete, insert and search call other services | registry, worker agents | the endpoint is read before it is called; answers get lost | what was acknowledged is found; no row without a request |
| Auth (`auth-service/auth`, linked by every service) | API keys, one token bucket per client | token, key, revoke; HTTP middleware, gRPC interceptors | everybody | requests in flight while keys and windows change | limits hold around the end of a window; a revoked key stays out |
| RPC layer (interceptors, generated stubs and handlers) | - | unary calls | everybody | loss, deadlines, late handlers, role maps and copies of the generated code that must fit together | an answer means what it says |
| Service processes (the nine `main.go`) | servers, pool, background loops | start, serve, stop | operating system | signals during start, calls during stop | a signal ends the process, the pool outlives the RPCs |
| SLA monitor, capacity planner | events and outages; samples | record, report; predict | operators | events in any order; windows; degenerate regressions | downtime is counted once; percentiles cover; the line is the least-squares line |
| Observability, dashboard | metrics, web front end | - | - | - | - |

A request to create a database inserts a registry row and starts a goroutine
in the control plane.  It asks the scheduler for a node, records the node,
calls the node's worker agent and records success or failure, up to three
times.  The reconciler lists the rows every few seconds and starts another
such goroutine for rows that have no node or were not touched for 30s.  Worker
processes register and send heartbeats; the health manager turns their age into
a status that the scheduler reads.  On a node, the storage engine writes every
change to the log before it changes pages and memory; `open` replays the log.

The hazards, each at its line, are listed in `PROJECT.json`.

## 2. The modules

| Module | Models | Composition |
|---|---|---|
| `Wal` | `WalManager` | - |
| `StorageEngine` | one engine of a node agent | `EXTENDS Wal`; every engine action that writes contains the log's action |
| `DurableMap` | what the engine promises; no code of its own | instantiated by `StorageEngine` with a refinement mapping |
| `Hnsw` | the vector index of an engine | - |
| `Replication` | leader side of replication, followers as the tests drive them | - |
| `Provisioning` | control plane, registry of databases, worker agents | - |
| `NodeHealth` | registry of nodes, heartbeats, sweeps, drains, placement | - |
| `WorkerAgent` | the agent's databases: maps, mutex, directories, injected failures | - |
| `Sums` | sums and sums of products of sequences: operators only | used by `VectorStore`, `SlaMonitor` and `CapacityPlanner` |
| `VectorStore` | the agent's vectors: insert, search, filter, cosine order | `EXTENDS Sums` |
| `DataNode` | the log, the index, replication and the agent's two parts side by side; no code of its own | `EXTENDS Wal, Hnsw, Replication, WorkerAgent, VectorStore` |
| `Deployment` | deployment controller | - |
| `Regions` | regions, latencies, health rollup, routing, placement score, fallback, election: operators only | used by `Failover` and `Gateway` |
| `Failover` | a fleet over regions: verdicts change, followers lag, leaders fail over | `EXTENDS Regions` |
| `AutoScaler` | `Evaluate` and its cooldown | - |
| `SlaMonitor`, `CapacityPlanner` | the two services of these names | `EXTENDS Sums` |
| `Roles`, `Credentials` | roles; tokens, keys and buckets: operators only | used by `Access`, `Rpc` and `Gateway` |
| `Access` | the auth service's endpoints and the HTTP middleware | `EXTENDS Credentials` |
| `Messages` | the fields of every message of the generated code | used by `Rpc` |
| `Rpc` | a unary call from stub to handler and back; the calls the services are wired to make | `EXTENDS Credentials, Messages` |
| `Gateway` | the gateway's handlers, registry and workers around them | `EXTENDS Regions, Roles` |
| `Lifecycle` | the nine `main` functions | - |
| `WalProofs`, `StorageEngineProofs`, `ProvisioningProofs`, `WorkerAgentProofs` | proofs | extend the module they are about and `TLAPS`; `StorageEngineProofs` also `WalProofs` |
| `SumsProofs` | facts about sums, recursion and induction on `0..n` | extends `Sums` |
| `DataNodeProofs`, `EdgeProofs`, `FleetProofs` | proofs about `DataNode` and its parts `Replication`, `Hnsw` and `VectorStore`; about `Access`, `Rpc` and `Gateway`; about `AutoScaler`, `Failover`, `Lifecycle`, `Deployment`, `SlaMonitor` and `CapacityPlanner` | extend these modules and `TLAPS`; `DataNodeProofs` also `WalProofs` and `WorkerAgentProofs`, and it and `FleetProofs` also `SumsProofs` |
| `MC*` | instances for TLC; `MCDataNode` instantiates `DataNode`, `MCFleet` and `MCEdge` put several components in one run | extend the modules |

Conventions: a definition whose comment begins with *Mutant* or *Mutation* is a
faulty variant of the definition that follows; no specification uses it, and
`PROJECT.json` says which property notices it when it takes the place of the
original.  Bounds that have no counterpart in the code are constants called
`Max...`.  Faults a run leaves out are switched off by constants, never by
changing a definition.

**Wal.**  The file is a sequence of cells, a cell being a record or a fragment
of one.  The length of a fragment matters because `LogRecord::deserialize`
answers `EOF`, and not an error, when fewer than eight bytes are left: `open`
then does not truncate.  `synced` counts the cells that survive a power failure.
`promised` (the records whose durability was reported) and `strays` (fragments
`open` may leave in place: of short writes, and torn records below eight bytes)
are history variables.  `open` chooses the sync policy.

**StorageEngine.**  The engine runs under the node agent's mutex, so an
operation is one step; `CrashInWrite`, `CrashInBackup` and `CrashInCompact` cut
operations short.  `open` is one step up to the loop of `recover`
(`OpenEngine`), one per record of the log (`RecoverRecord`, which applies it to
the pages), and one for the rest (`OpenReturns`, which builds memtable and
indexes); `CrashInRecovery` may come between any two, and tear the page being
written.  `restore` is a sequence of puts, each of which may fail, so it
has a step per put.  Hash and B+tree index are one variable, as are
`vector_records` and the ids in the HNSW index: the code updates them together
everywhere.  A page is its type, LSN, record count and what is legible in it.

**Provisioning.**  Every remote call of `ProvisionDatabase`, of the reconciler
and of the delete handler is one step of a process with its own program counter;
between two of them anything else may happen.  A call succeeds, fails, or times
out; a create that timed out may still be done later (`LateCreate`).  A crash of
the control plane ends all goroutines.  Only the calls to agents have a deadline
in the code; any other may never return, done or not: `Hangs` ends the process
that made it, and of the reconciler, which waits for its sweep, leaves `Halted`
until a restart.  The scheduler's score is a free choice
among the nodes that it may return.  `dropped` is a history variable: databases
an agent lost, by a delete or a restart, and has not created again.

**NodeHealth.**  A sweep reads all nodes in one step and writes one node per
step.  Heartbeat ages are the three classes the code tells apart, loads whether
some percentage is above 90.  The age counts when a node's turn comes, and the
heartbeat is the one that the sweep read: `ReadAges` lets it grow older while the
row is renewed (`latest` is false by then).

**WorkerAgent.**  A handler is cut where it gives up the agent's mutex and
between its two atomic operations on a counter: `DeleteDatabase` forgets the
database under the mutex and removes the directory afterwards, `DrainNode` does
so for each id it copied at the start.  Both discard the error of `os.RemoveAll`,
so a removal may leave the directory.  `clashed` (created while a removal was
under way) and `leftover` (on disk before a restart, or after a failed removal)
are history variables that name the three ways in which disk and maps part.

**VectorStore.**  Embeddings are short integer vectors.  Two cosines are compared
by cross-multiplied squares, so the order is exact where the code rounds.

**Hnsw.**  Similarity is a table over pairs of embeddings.  Nodes may be equally
similar; they are then ranked in some order, in the code that in which the walk
met them.  The random level of an insert and the entry point after a removal (the
first key of a hash map) are free choices.  `EfConstruction` and `EfSearch` bound
how many candidates a layer's search keeps; that both exceed `M` (64 and 32
against 16 in the code) is an assumption that exactness rests on.

**Regions, Failover.**  The rules are pure functions and are translated as such:
latency order, rollup, `SelectRegion`, both guesses of a node's region, the score
in integers, the election.  Parts of a list of nodes are sets of its places, the
candidates of an election a set (their order does not matter), and the sort of
the regions is a `CHOOSE` of the sorted list, so that all of it can be reasoned
about without induction.  `Failover` moves
verdicts, applied LSNs and the leader under them.

**Gateway.**  A handler is cut at each remote call; between the parts the registry
and the workers change.  `acked` and `must` record what a search begun now has to
find.

**Access, Rpc.**  `Credentials` holds what HTTP middleware and gRPC interceptor
share.  A request passes token or key, limiter and role check in steps of its
own, so revocations and refills fall in between.  In `Rpc` a message is the set
of its fields that carry something, since proto3 sends no zero values and the
getters return zero for what did not come.  A call may be lost either way and its
caller may give up while the server goes on.

**SlaMonitor, CapacityPlanner.**  Percentages, percentiles and the regression are
computed in integers and fractions; requests come in bursts so that a report has
enough of them for p95 and p99 to differ from the maximum.

**Lifecycle.**  A `main` is a list of steps, the step from which signals are
handled, the servers whose failure is fatal, and the servers it stops, in order.
`Waiting` are the services whose RPC handlers call another process with their
caller's context: such an RPC need not end.

**Replication.**  A call copies the follower table, pushes and polls in separate
steps, as the code releases its lock between them.  The follower process is
external: it acknowledges the leader's LSN, as the tests do, while
`apply_replicated_record` returns the follower's own.

**Deployment.**  A check passes or fails by free choice; `left` counts the checks
of a rollout that are still to come.  `breached` is a history variable.

## 3. The runs

`tlc -workers 2 -config <run>.cfg <module>`; the modules are in `PROJECT.json`.

| Run | Properties | Instance and why it is enough | Shows |
|---|---|---|---|
| `DataNode` | of `Wal`: `LsnOrder`, `DurableUnlessStray`, `LsnNeverReused`; `NodeTypeOK` joins the type invariants of `Wal`, `Replication` and `WorkerAgent` | one key, three LSNs, four cells; torn records of 3 and 9 bytes and short writes of 0 and 9 lie on both sides of the eight-byte boundary; both policies; failing syncs. Three records allow a good one before and after a fragment, and a second recovery. | durability and LSN order under every fault |
| | of `Hnsw`: `IndexSound` (`EntryIndexed`, `ExactWhileSmall`) | four vectors, two of them with two embeddings and equal embeddings among them, lists of two, three candidates, two layers, five changes: the fourth insert overflows lists, so that links become one-way and a removal dangles | the index's structure, and exactness up to m + 1 vectors |
| | of `Replication`: `AllFollowersHave` | one caller, two followers that join and leave, three records, lost, late and repeated acknowledgements | a success that is not degraded is on all followers |
| | of `WorkerAgent`: `MapsInverse`, `DirsMatch`, `DrainEmpties` | two names, two ids, two handlers, one restart or injection; removals that fail | maps, disk and drains under interleaved handlers |
| | of `VectorStore`: `SearchSound` (`AlignedFirst`, `NoLeakage`) | two databases, two ids, embeddings of equal direction and other length, of other direction, and of other dimension; filters of each syntax | what a search returns |
| `EngineMap` | `ImplementsMap`, `VectorsMatch` | a plain key and a vector, two values and the empty one, three LSNs, failing writes and syncs, crashes in every write and in recovery | the engine is a durable map |
| `EnginePages` | `EngineTypeOK`, `IndexMatches`, `FreeListSound`, `ReplayTwice` | two pages, one value too big for a page, torn and failing page writes, one snapshot and restores cut short, compaction and crashes in it and in recovery | indexes follow the memtable; no page is handed out twice; replay is idempotent |
| `ProvRegistry` | `RegistryAgrees`, `ActiveIsHosted`, `NoResurrection` | one database, two nodes (one refuses every create, the other comes and goes), two provisioners, a deleter, the gateway's create and delete, one fault of any kind, a call that never returns among them. All races of the system are between actors on one row; two provisioners and a deleter are the least that contains each pair. | registry, endpoint and agents agree |
| `ProvSettles` | `GoodNodeFound`, `Settles`, `DeleteCompletes` | the same without node outages and the gateway's delete, one fault, two attempts instead of the code's three (one for the refusing node, one for the good one), fair | nothing stays in provisioning unless the reconciler hangs; deletions end; a provisioner gives up only when all nodes refuse, or as many as it has attempts |
| `Fleet` | of `NodeHealth`: `Detects`, `Recovers` | one node (nodes do not influence each other except through the overload preference of the scheduler), three faults, drains, fair. Workers always report `Healthy: true` (`worker-node/main.go`). | detection and recovery in spite of stale sweeps |
| | of `Deployment`: `BreachNotPromoted`, `TrafficAtRest`, `Ends` | two deployments at once, two checks each, a restart, rollbacks at any time, fair | outcome, traffic and status agree |
| | of `Failover`: `PlacedNoFarther`, `FailoverKeeps` | four nodes in three regions, named helpfully, misleadingly and not at all; three statuses; five hints, one upper-case, one empty and one unknown | placement is no farther than routing; an election keeps what followers have |
| | of `AutoScaler`: `CooldownHolds` | two nodes, loads on both sides of both thresholds, a cooldown of two ticks | no flapping |
| | of `SlaMonitor`: `ReportsTrue` (`DowntimeAccounted`, `LongOutageCounted`, `PercentilesCover`) | bursts of 1 and 21 requests of three latencies, one outage, two minutes, every window up to one longer | reports |
| | of `CapacityPlanner`: `PlanSound` (`LeastSquares`, `LineContinued`) | up to three samples on three days, equal days and any order included | plans |
| | of `Lifecycle`: `RpcsFinished`, `SignalStops` | all nine services, two calls in flight per server, hanging HTTP requests, fair | clean stops, held up only by an RPC that waits for another process |
| `Edge` | of `Gateway`: `RowsAccounted`, `SearchComplete` | two clients, four requests, two workers, one database and `default`, a node whose name hides its region | acknowledged vectors are found; rows are accounted for |
| | of `Access`: `BurstBound`, `RevokedStaysOut` | a user and a key, limits of one and two, two requests at once, a window of two ticks and three ticks of time: bursts on both sides of a refill happen | limits and revocation |
| | of `Rpc`: `AnswersTrue` | every call the services are wired to make, with and without its optional fields; two at a time from one client to one server, since calls meet only in a bucket (`ShareBucket`); a tick that expires tokens | answers are true |
| `WalTornTail` | violates `Durable` | torn records of 3 bytes | acknowledged records are lost |
| `EngineRestore` | violates `RestartShowsSame` | one snapshot | restore does not survive a restart |
| `ProvOrphan` | violates `NothingLeftBehind` | no faults at all | a delete racing with a provisioner leaves an orphan |
| `FailoverReroute` | violates `ReroutedToLeader` | the four nodes of `Fleet` | the gateway does not route to the new leader |
| `GatewayReroute` | violates `ReroutedOnlyWhenDown` | a node whose region the registry knows and its name does not show | a create is rerouted from a live region |

`DataNode`, `Fleet` and `Edge` hold components that share no variable, and none of
their properties is about two components.  A behaviour therefore moves only one
of them, the one that `focus` names, while the others stand still in their
initial state: the state space is the sum of the components' and not their
product, and every behaviour of every component is in it.  Their fairness is
stated for the component that moves.

`ImplementsMap` is the refinement: `DurableMap` has a store that readers see and,
for each key, the set of values a restart may show.  An acknowledged write makes
that set a singleton, a write that failed may add to it, a crash chooses from
it.  It is checked without `restore`, which breaks it (section 6), and without
compaction and page errors, which do not, for the size of the run; the proof has
them.

`DataNode`, `Fleet`, `Edge` and the `Prov` runs do not check for deadlock: once
all ids are used, all requests served and the process has exited, a component
has nothing left to do.

## 4. Fairness

* `ProvSettles`: weak fairness of each provisioner, of each delete
  handler, of the reconciler's loop and of the passing of 30s.  A goroutine takes
  its next step because its call returns: those to agents at the latest at their
  deadline (10s and 5s), the others, which have none (`orchestrator.go:47`, 66,
  105, 167, 182, `handlers.go:198`, 212, 245, `reconciliation.go:47`, 72), unless
  they hang.  A call that hangs for ever is a fault (`Hangs`), counted in
  `MaxFaults` like a crash, after which no fairness moves its process:
  `Settles` holds in spite of hanging provisioners and deletions because a later
  sweep takes over, and with an exception for the reconciler itself, which
  nobody replaces; `DeleteCompletes` promises nothing after any fault.  Requests,
  faults, late calls and node outages are not fair.
* `Fleet`, node health: weak fairness of the sweep (a ticker), of the heartbeats of
  a running worker (a ticker, calls of 3s) and of time passing for a stopped one.
  That the health manager's queries return is an assumption: it gives Postgres no
  deadline.
* `Fleet`, deployments: weak fairness of each deployment's goroutine, which waits
  for timers only: the deployed `main` passes no metadata client.  With one,
  `GetNodes` (`controller.go:142`) would have no deadline, and `Ends` would
  depend on it.
* `Fleet`, processes: weak fairness of the steps of `main` once a signal has come
  (it cancels what pool and registration wait for), of the steps of a stop (a
  timeout bounds the HTTP shutdown), and of the end of RPCs in the seven services
  whose handlers wait for nobody.  None for HTTP requests, and none for the RPCs
  of the scheduler and the metadata service, which wait for the metadata service
  and for Postgres as long as their caller does (`scheduler/grpc/server.go:35`):
  since `GracefulStop` has no limit, `SignalStops` excepts a process that such an
  RPC holds up (`HeldUp`).  Signals, failures and the arrival of calls are not
  fair.
* The other runs state no fairness: they check safety only.

## 5. The proofs

For every value of the constants, that is for any number of keys, nodes,
databases, goroutines, vectors, checks and faults.  The assumptions are the
`ASSUME`s of the modules, which say what kind of value each constant is and, in
places, what the code's settings have in common (`HnswConstants`: the candidate
lists are longer than `M`), and the hypotheses that seven theorems state, each of
which excludes a behaviour that really breaks the property:

| Hypothesis | Theorem | Without it |
|---|---|---|
| `MaxSnaps = 0`: nobody restores | `VectorsAlwaysMatch`, `EngineImplementsMap`, `RestartShowsTheSame` | `restore` logs no deletions and re-enters vectors with `put` (section 6) |
| `VecId` injective | `VectorsAlwaysMatch` | deleting a plain key drops the vector of that name (section 6) |
| `[](strays = {})`: no fragment that `open` overlooks | `EngineImplementsMap`, `RestartShowsTheSame` | acknowledged records are lost (`WalTornTail`) |
| `SyncPolicies = {"SyncPerWrite"}` | `EngineImplementsMap` | the policy `StorageEngine::open` passes; under the other an acknowledged write may be lost with the machine |
| no failing syncs and page writes | `RestartShowsTheSame` | a write that failed after its record was logged shows after a restart |
| `SingleWriter` | `SingleWriterReplicates` | acknowledgements are counted, not attributed (section 6) |
| `ValuesGiven`: no clause `key=` without a value | `FiltersNeverLeak`, `SearchesSound` | such a clause also matches vectors without the key |
| `NamesStay`: distinct names, or no deletions | `GoodNodeAlwaysFound` | a deletion frees a name on a node that refused it, and that node is not asked again |

* **`WalProofs`.**  `ValidCells` is a `CHOOSE`; `ValidIsBoundary` shows it is the
  only boundary between records and the rest, and the lemmas after it say how
  appending, cutting and stray bytes move it.  `OrderInv` adds to the type
  invariant that *all* records in the file, also those behind a fragment, are
  ordered and below `next_lsn`: `LsnOrder` speaks of the readable ones only and
  is not inductive, because a fragment may be cut away.  `WalTypeCorrect` and
  `WalLsnOrder` follow, under every fault.  `DurableInv` adds, while `strays` is
  empty, that a fragment can only be the last cell and that every promised record
  is among the synced cells; hence `WalDurability` and `WalLsnUnique`.
* **`ProvisioningProofs`.**  The type invariant is split into five parts so that a
  step is proved part by part.  `StepsOnRegistry` reduces every step of the
  system to one of five kinds of registry step, so that the remaining proofs have
  five cases and not twenty-five.  `RegistryInv` strengthens `RegistryAgrees` by
  "an id without a row has no node", which a new row needs.  `RegistryAgreement`
  and `DeletionFinal` follow.  `HostedInv` strengthens `ActiveIsHosted` by "a
  provisioner about to report success has created the database on its node";
  `CreatedKept` shows that no step forgets a creation; hence `ActiveHosted`.
  `SearchInv` says of a provisioner that it was refused on as many nodes as it
  has used up attempts, and has turned to one that has not refused yet unless
  there is none (`Searched`), and that whoever refused it still would
  (`TriedRefused`, by `RefusersKept`); hence `GoodNodeAlwaysFound`.  The proof
  corrected `GoodNodeFound`: it used to promise the good node also when the
  nodes that refuse use up the attempts.
* **`StorageEngineProofs`.**  `EngineLogIsWal` maps each engine step to a step of
  `Wal`, so that the log's theorems hold of the engine's log.  `EngineInv` is the
  log's order invariant, the types, `IndexMatches`, and `PageInv`: the free list
  is, in some order, free pages of the file without repetition.  It gives
  `EngineTyped`, `IndexesAlwaysMatch` and `FreeListAlwaysSound`.  `ReplayInv`
  says of a recovery under way that the records it is through with would change
  nothing any more: the first data page has an LSN as high as theirs, or they are
  too big for it, which the next record keeps since LSNs ascend.  Hence
  `ReplayAlwaysIdempotent`, also when the replay before was cut off.
  `VectorsInv` is `VectorsMatch` at all times, not only between operations; hence
  `VectorsAlwaysMatch`.  `EngineImplementsMap` is the refinement, action by
  action, from `EngineInv` and the log's `DurableInv`: lemmas say what a restart
  shows for a key after an append, a cut and a crash, and each engine action is
  one of the map's or a stutter.  `SameInv` says that the memtable shows what a
  replay of the log would; hence `RestartShowsTheSame`, the complement of the run
  `EngineRestore`.
* **`WorkerAgentProofs`.**  `Types` gives the handlers' records their shape.
  `MapsInverse` is inductive with it: a create that is not refused finds neither
  its name nor its id in use by another.  `DirsMatch` needs `ClashNoted`: a
  database that is registered while some handler is about to remove its
  directory is in `clashed`, so that the removal is not unnoticed; a directory
  that a failed removal leaves goes into `leftover`.
  `DrainEmpties` needs `DrainProgress`: what is no longer on a drain's list, and
  was not created since, is not registered.  Lemmas for "a handler that does not
  concern the disk", "takes a database out" and "removes a directory" reduce the
  sixteen actions to these cases.  `MapsStayInverse`, `DirectoriesAgree` and
  `DrainIsComplete` follow.  `AgentTypeCorrect` is a counting argument: a counter
  of injected failures is read and written in two steps, and what keeps it from
  being overdrawn by more than the number of handlers is `Covered`, which
  charges the amount below zero to handlers that have read it and not yet
  written it.
* **`SumsProofs`.**  What a recursive function computes for every input is
  induction, and the library's induction theorems take an operator as a parameter,
  which the provers cannot instantiate.  `UpTo` states induction with a *set* in
  its place: a set of naturals that contains 0 and is closed under successor up
  to `n` contains `0..n`; it comes from `LeastNat`, the existence of a least
  element.  `Recursion` gives the existence of functions defined by recursion on
  `0..n`, with the step as a function.  On these rest the facts about `Total` and
  `Product`: longer lists, linearity, monotony, and `CauchySchwarz`.
* **`DataNodeProofs`.**  `SingleWriterReplicates`: with one caller the last LSN is
  that of the call under way, and only followers it was pushed to can have
  acknowledged it (`PushedTo`).

  `IndexAlwaysSound`, for any similarity, levels and choices: `EntryIndexed` is
  inductive.  `ExactWhileSmall` needs `SmallOK`: while there have never been more
  than `M + 1` nodes since the index was empty, no list was cut, so on layer 0
  every node links to every other; what is reachable from any start is then
  everything (`Reach`), the candidate lists are long enough for it, and the ranking
  puts all of it in order.  An insert keeps this because it links to all of at most
  `M` nodes, all of which link back; a removal, because a node that links to
  every other is taken out of all lists.

  `FiltersNeverLeak` is the half of `SearchSound` about filters, `NearestFound`
  the other: by `CauchySchwarz` an embedding of the query's direction has the
  highest cosine there is, and one of another direction a lower one, so the sort
  cannot put the second before the first.  Together they are `SearchesSound`.
  `NodeImplementsParts` shows that a behaviour of the composition is one of each
  part, so the theorems about the parts hold of the node; `NodeTypeCorrect` uses it
  for the three type invariants.
* **`EdgeProofs`.**  `BurstBounded`: `admitted` is the list of the times at which a
  client was admitted; those since the last refill are what is missing from the
  bucket, those of the window before it are at most a bucket (`BucketBounds`).
  `RevokedNeverServed` and, from the record of a call, `AnswersAreTrue`.
  `RowsAlwaysAccounted`.  `SearchAlwaysComplete` needs that the endpoint of a
  placed database has every acknowledged vector, and that a request whose
  endpoint did not change is going there (`SearchInv`).
* **`FleetProofs`.**  `CountsAgree` relates the autoscaler's clock to the true one;
  hence `CooldownAlwaysHolds`.  `AlwaysPlacedNoFarther` compares the two walks
  over the same order of regions: a live region is always usable
  (`LiveIsUsable`), so the scheduler stops no later (`DistanceOrdered`,
  `SameOrder`).  `FailoverAlwaysKeeps` follows from the election's order.
  `LifecycleInv` says that a gRPC server is the last to be stopped and that
  without one there are no RPCs; hence `RpcsAlwaysFinished`.

  `OutcomeInv` relates the program counter of each deployment's goroutine to its
  record and to `breached`: a breached deployment's goroutine is over, a running
  one has not been breached.  `DeploymentTypeCorrect`, `BreachNeverPromoted` and
  `TrafficSettled` follow.

  `ReportsAlwaysTrue`: the invariant relates the total of the outages, the current
  one included, to the minutes of downtime; the latency at an index of the sorted
  list exists, being the least that more than so many requests do not exceed
  (`LatencyAtExists`), and the code's index is high enough for its percentage
  (`IndexCovers`).  `PlansAlwaysSound`:
  the denominator of the regression is not negative, by Cauchy-Schwarz, and zero
  only when all samples are of one day (`Areas`, `OneDay`); where it is positive
  the residuals and the weighted residuals add up to zero (`ResidualsAddUp`,
  `WeightedAddUp`), so any other line is no closer (`LineIsLeast`), and the
  prediction lies on the line (`OnTheLine`).

Model-checked only:

* the liveness properties `Settles`, `DeleteCompletes`, `Detects`, `Recovers`,
  `Ends` and `SignalStops`, since the prover handles neither fairness nor
  `ENABLED`.

Where a loop's result is needed for any number of rounds, the models define it by
a recursive function or by what characterises it, and the proofs go by a least
counterexample or by `UpTo`.

Every safety property that a passing run checks is a theorem.
The other way round, `ProvisioningTypeOK` and `DeploymentTypeOK` are proved and no
run checks them.

## 6. Where the code disagrees with its documentation

Shown by runs (findings in `PROJECT.json`):

* `WalTornTail`: a crash that leaves fewer than eight bytes of a record is not
  cleaned up; records acknowledged after the restart are lost at the next one.
* `EngineRestore`: `restore` clears memory but logs no deletions, so keys the
  snapshot lacks are back after a restart.
* `ProvOrphan`: the delete handler calls the agent of the node it read at the
  start; a provisioner that had not chosen one yet creates the database later.
* `FailoverReroute`: the gateway routes to the nearest live region, the election
  promotes the most caught-up follower; the integration test that expects them
  to be the same region has two candidates, of which the nearer one happens to
  be the more caught-up.
* `GatewayReroute`: a create guesses regions from names and ignores the region
  column that `GET /v1/regions` reports.

Met while modelling, the states being reachable in the models, without a run:

* A write that stops part-way leaves its bytes in the log, and `append` goes on
  behind them (`wal.rs:192`); `DurableUnlessStray` excludes it through `strays`.
* `restore` re-enters vectors with `put`, so they cannot be searched until the
  engine is reopened; `delete` of a plain key also drops the vector of that name.
* `compact` writes all live records to the start of one page, each over the one
  before; after `open` the indexes name page 0 for every key.  No reader uses
  the location, since `get` answers from the memtable.
* The reconciler dispatches a row without a node on every tick, although
  `reconciliation.go:71` says that touching it prevents that; a deletion that
  dies with the control plane is not resumed.
* The delete handler dials `hostname:50053`, without the suffix that the
  provisioner adds for pods, and ignores the failure.
* A sweep that read a node before its drain began overwrites `draining`;
  `drained` nodes, and nodes that never sent a heartbeat, take placements.
* With two concurrent callers of `replicate_record`, the acknowledgement of a
  later record counts for an earlier one that the follower has not received.
* A create of an id whose directory a delete is still removing loses its
  directory (`agent/server.go:141`); `DirsMatch` excludes it through `clashed`.
  The error of `os.RemoveAll` is discarded (lines 141 and 178), so a delete or a
  drain may answer success and leave the directory, which nothing removes later.
  Injected failures are counted in two steps, so one may hit several calls.
* A clause of a search filter with an operator other than `=`, `==` and `!=` is
  ignored, and "And" in mixed case joins nothing; `NoLeakage` speaks of the
  known syntax.
* The reconciler waits without a deadline for each call of a sweep
  (`reconciliation.go:47`, 72): one that never returns is the end of the sweeps
  until a restart, and a row that needs one stays in provisioning, although
  `PHASE_2.md:227-229` and the control plane's README speak of a periodic sweep.
  `Settles` names the exception (`Halted`).
* The keys of the servers' role maps begin with `/proto.`, the generated names
  with `/metadata.`, `/nodeagent.` and `/operations.`, so every RPC asks for the
  read-only default; `docs/security-audit.md:36-60` lists the maps' roles as
  enforced.  The wired callers are not ready for that: the gateway dials as
  read-only and creates records.
* All clients of the gateway share one read-only bucket at the metadata service.
  When it is empty, vector requests go to the address of the workers' service
  and reach any worker (`gateway.go:41`).
* A bucket keeps the size of the role its client was first seen with.
* A signal need not end the scheduler or the metadata service: `GracefulStop`
  (`scheduler/main.go:90`) waits for RPCs whose handlers wait without a deadline.
* Most mains only log that a listener failed, and go on.
* The SLA monitor never drops records; the planner's growth rate divides by the
  current number of nodes, which may be zero.
* A rollback triggered during a run is overwritten when the run completes; a
  failed check halts a rolling deployment without a rollback; a canary weight
  above 100 becomes the split.

## 7. What is not modelled

* About 15,200 of the repository's 21,000 lines of Go are generated from three
  `.proto` files, in several copies.  `Messages` and `Rpc` model the messages,
  stubs and handlers of the copies in use; descriptors, reflection and the
  copies under `proto/`, which nothing imports, are left out.
* Encoding of messages, TLS, name resolution, reconnection.
* Node agent: the map of engines under one mutex; the index's filter.
* Registry: clusters; `RollbackMigrations`, which nothing calls.
* Deployment controller: `main` passes no metadata client, so in the deployed
  binary `DrainNode` writes nothing; the model is of the controller with one.
* Storage: a checksum collision; failures of page writes inside `compact`.
* Provisioning: two databases of one name are a parameter (`NameOf`) that the
  listed runs do not vary.
* Cryptography: HMAC and SHA-256 are assumed to be what they should.  Rounding of
  floating point: cosines, scores, percentages and the regression are exact.
* Metrics, traces, webhooks, dashboard, deployment files.

Operations that only tests call are modelled like the others: `RevokeAPIKey`,
`ElectNewLeaderRegion`, `ScheduleNodeWithRegionFallback`, `AutoScaler.Evaluate`,
`SetHistoricalData`.

## 8. Plan

1. `Wal`, `StorageEngine`, `DurableMap`; `Provisioning`, `NodeHealth`,
   `Replication`, `Deployment`: done.
2. `Hnsw`, `WorkerAgent`, `VectorStore`, `Regions`, `Failover`, `AutoScaler`,
   `Credentials`, `Access`, `Rpc`, `Gateway`, `SlaMonitor`, `CapacityPlanner`,
   `Lifecycle`: done.
3. Proofs of all safety properties that the passing runs check, and of the
   refinement of `DurableMap`: done.
4. Next: what a weaker replication promises with several writers; snapshot files
   in `StorageEngine` related to the log; the width of `num_records`; the
   composition of the log in `StorageEngine` with `Replication`.
