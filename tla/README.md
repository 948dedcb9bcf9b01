# A verification project for relayer-engine

relayer-engine is a TypeScript framework for Wormhole relayers. An application
lists the emitters it cares about and a pipeline of middleware; the engine takes
the VAAs (signed messages) of those emitters from a spy stream, filters them,
puts them in a Redis queue and runs the pipeline on each. A second worker looks
for VAAs that the stream lost.

This directory holds TLA+ models of its core, the TLC configurations that check
them on small instances, and theorems about them that TLAPS has proved. File
names below are relative to `src/relayer/` unless they say otherwise.

Contents: 1. the system, 2. the modules, 3. runs and bounds, 4. fairness,
5. what is proved, 6. where code and documents differ, 7. what is not modelled.

## 1. The system

### Components, their state and their operations

| Component | Keeps | Operations |
| --- | --- | --- |
| `RelayerApp` (`application.ts`) | `filters`, chain routers, `alreadyFilteredCache` (LRU), the pipelines | `listen` (spy subscription), `processVaa` (filter, enqueue, emit), `pushVaaThroughPipeline`, `onVaaFromQueue`, `fetchVaa(s)`, `stop` |
| `RedisStorage` (`storage/redis-storage.ts`) | a BullMQ queue in Redis: jobs by id, attempts, locks | `addVaaToQueue`, `startWorker`, `stopWorker`, gauges |
| Missed-VAA worker (`middleware/missedVaasV3/`) | in Redis, per emitter: sorted sets `seenVaas` and `failedToRecover`, number `safeSequence` | start-up (reindex, register listeners), an endless loop of runs (`runMissedVaaCheck`, `checkForMissedVaas`), `markVaaSeen` |
| Staging area (`middleware/staging-area.middleware.ts`) | a pool of Redis connections, user keys | acquire and release per job, `withKey`, `getKeys` |
| Wallets (`middleware/wallet/`) | a queue of actions per chain, one worker per private key | `ctx.wallets.onX(f)`, the worker loop |
| Source transaction (`middleware/source-tx.middleware.ts`) | an LRU cache of hashes | fetch with retries and finality |
| Providers, token bridge (`middleware/providers.middleware.ts`, `tokenBridge.middleware.ts`) | the RPC clients, the bridge contracts and the state of Sui, built by the first jobs | attach to the context |
| Metrics (`middleware/metrics.middleware.ts`) | prometheus counters and histograms | measure one job |
| Bundle fetcher (`bundle-fetcher.helper.ts`) | collected VAAs of one transaction | fetch with retries until complete |
| HTTP and wormholescan clients, gRPC transport (`rpc/`) | nothing between calls | retries, Retry-After, fail-fast end of a call |
| Composition and helpers (`compose.middleware.ts`, `utils.ts`) | nothing | `compose`, `mapConcurrent`, `mergeDeep` |
| `StandardRelayerApp` (`application-standard.ts`) | options | which middleware is installed, in which order |
| Legacy plugins (`middleware/legacy-plugin/`) | module variables of `config.ts` | load and validate the configuration, `run`, the handler with its executor |
| Loggers, metric registries, context, environment | configuration | wiring |

### How they interact

1. `listen()` reads the spy stream and calls `processVaa` for every VAA without
   awaiting it. `processVaa` runs the filters (awaiting each), remembers those
   rejected, calls `storage.addVaaToQueue`, and emits `Added` or `Skipped`.
2. The listeners of the missed-VAA worker hear those two events and mark the
   sequence seen in Redis; nobody awaits them.
3. The queue's worker takes up to `concurrency` jobs at a time and calls
   `onVaaFromQueue`, which runs the pipeline, emits `Completed` or `Failed`, and
   updates the job's progress. BullMQ retries, counts attempts, renews locks and
   hands out stalled jobs, to any process that shares the queue.
4. The missed-VAA worker fetches missing VAAs from the guardian RPCs and the
   latest ones from wormholescan, and gives them to the same `processVaa`.
5. In the pipeline, jobs meet in Redis through the staging area and in the
   process through the wallet queues, the provider cache and the hash cache.
6. A round of the missed-VAA worker runs `mapConcurrent` over the filters, each of
   these `mapConcurrent` over its missing sequences, and each of those its calls
   over the fail-fast transport: one call that never ends holds up the round.
7. A legacy plugin is wrapped into an application of its own; its calls to the
   executor go through the wallet queues.

### What is hard

* Interleavings: `processVaa` of one VAA from several callers, listeners that
  reach Redis late, jobs on shared keys, wallets on a shared queue.
* Partial failure: ioredis pipelines resolve even when commands in them failed,
  and the code does not look at their results; `multi.exec()` returns null when
  it was aborted, and the code does not look at that either.
* Crashes: the four writes of a run of the missed-VAA worker are separate; the
  queue survives a process and the cache of filtered VAAs does not.
* Timeouts: a job whose lock expired is handed out while its pipeline still runs.
* Numbers: `0n` is falsy, the safe sequence is computed by subtracting one.
* Limits: finished jobs are trimmed, and a trimmed job id no longer makes
  `add` idempotent.

### What makes each component correct

* Missed-VAA worker: nothing is marked seen that was not taken in; below the
  safe sequence nothing is forgotten; a failed sequence stays on record until
  its VAA was taken in; a VAA the stream lost is recovered.
* Intake and queue: an accepted VAA is never dropped, is tried a bounded number
  of times and ends relayed or given up; it is relayed twice only for a cause
  outside of its pipeline, and by two runs at once only after a lost lock.
* Staging area: no stored write is lost to a concurrent one.
* Bundle fetcher: nothing of the bundle is lost, a build that resolves has all of
  it, one that rejects says why, and every build settles.
* Application: what the spy sends finds its handlers, the outcome comes last and tells of
  errors, and a lost connection is made again.
* Source transactions: no pipeline goes on with a hash older than its job;
  tries and waits are bounded.
* Wallets: a wallet runs one function at a time, every function is called once
  and in order, and every caller gets an answer.
* Rounds: every missing sequence is fetched once, with all its tries before it is
  given up, has an outcome when the check goes on, and the round ends.
* Legacy relayer: keys are those configured; a handler finds what its middleware
  promises; a workflow is done only after the actions it awaits (section 6); jobs end.
* Metrics: what they count as relayed, failed or terminal is what became of the job.

## 2. The modules

| Module | Models | Extends or instantiates |
| --- | --- | --- |
| `MissedVaas` | the missed-VAA worker with the spy, the guardians, Redis and crashes | |
| `MissedVaasProofs` | theorems about it | `MissedVaas` |
| `BoundedForEach` | abstract: a concurrent "for each" with a bound | |
| `MapConcurrent` | `mapConcurrent` of `utils.ts` | |
| `FailFastTransport` | one gRPC call of `rpc/fail-fast-grpc-transport.ts` | |
| `MissedVaaRound` | the rounds over all filters, down to the calls | `MapConcurrent`, `FailFastTransport`; `BoundedForEach` by INSTANCE |
| `FetchProofs` | theorems about `MissedVaaRound` and `BundleFetcher` | both |
| `RelayContract` | abstract: what the relayer promises for a VAA it accepted | |
| `Metrics` | what the metrics middleware counts of one pipeline run | |
| `RelayQueue` | `processVaa`, `RedisStorage`, the queue's worker, several processes; a refinement of `RelayContract` | `Metrics`; `RelayContract` by INSTANCE |
| `RelayQueueProofs` | theorems about it, the refinement included | `RelayQueue` |
| `Pipeline` | the calls of middleware in one delivery, and the router | |
| `Application` | setting up, `listen` and the spy, `processVaa` down to the outcome | `Pipeline` |
| `ApplicationProofs` | theorems about both | `Application` |
| `OptimisticStore` | abstract: transactions that count up keys and may disturb each other | |
| `StagingArea`, `StagingAreaProofs` | the connection pool and `withKey`; theorems | `OptimisticStore` by INSTANCE |
| `WalletPool` | abstract: wallets that serve the functions they are handed | |
| `WalletWorkers`, `WalletWorkersProofs` | the wallets middleware and its workers; theorems | `WalletPool` by INSTANCE |
| `BundleFetcher` | builds of one bundle, storing and restoring it | |
| `HttpClient` | GET with retries | |
| `SourceTx`, `SourceTxProofs` | the source transaction middleware over the wormholescan client; theorems about both | `HttpClient` |
| `LegacyConfig` | configuration files and environment of a legacy relayer | |
| `StandardRelayer` | the options and middleware of `StandardRelayerApp`; providers and token bridge | |
| `LegacyRelayer` | a plugin's relayer, from `run` to its calls of the executor | `StandardRelayer`, `LegacyConfig` |
| `LegacyRelayerProofs` | theorems about both | `LegacyRelayer` |
| `MC...` | constant values for TLC | the module of that name |

### MissedVaas

One filter (an emitter) of one process; runs of different filters share no key
and no local. Variables `seen`, `failed` and `safe` are the three Redis keys,
`marking` the `markVaaSeen` calls that have not reached Redis, `run` the locals
of the current run, `pc` the place of the worker between two awaits. `signed` is
what the RPCs can serve, `handled` what `processVaa` queued or skipped. One
action stands for the code between two awaits:

| Actions | Code |
| --- | --- |
| `Start`, `DropIndex`, `UpdateSeenSequences`, `RegisterEventListeners` | `worker.ts` 81-122, `storage.ts` 53-111, `check.ts` 200-264 |
| `ReadSafe`, `ReadRank`, `ReadSeen` | `storage.ts` 136-237 |
| `RecoverMissing`, `FetchMissingFails`, `ReprocessMissingFails` | one missing sequence in `check.ts` 83-143; `mapConcurrent` leaves their order open |
| `ListAhead`, `ProcessAhead`, `ProcessAheadFails`, `EndAhead` | `lookAhead`, `check.ts` 266-347 |
| `MarkFailed`, `MarkSeen`, `UnmarkFailed` | the pipelines of `storage.ts` 11-51 |
| `SaveSafe` | `worker.ts` 202-250 with `helpers.ts` 28-84 |
| `AbortRun` | a call that throws; the loop of `worker.ts` 126-169 logs it and goes on |
| `SpyDeliver`, `MarkVaaSeen`, `Sign`, `Crash` | the surroundings |

Sequences start at 0, as Wormhole counts them, because `0n` is a special value
to this code. A pipeline is one step that either happens or is lost: the
commands in it travel together. `DropIndex` is the exception, its three deletions
can fail one by one. The history variables record, for the properties only, which
sequences `processVaa` rejected inside a run (`threw`), where the scans of this
index began (`base`), and which sequences the keys in Redis lost track of (`lost`):

* the write of their failed mark was lost (`MarkFailed`);
* the index was dropped and the deletion of the failed set alone went wrong: the
  next safe sequence comes from the least failed one, the next scan from what
  the queue still has, and what lies between was scanned by nobody (`DropIndex`);
* the safe sequence could not be read and marks of seen sequences were lost
  before: the run begins at the first seen sequence above the safe one (`ReadSeen`).

A VAA that is already seen is not delivered again by `SpyDeliver`, because
nothing would change in these variables; what a second delivery does to the
queue is a matter of `RelayQueue`. Until the listeners are registered `Added` is emitted
to nobody: `handled` grows and `marking` does not.

### MissedVaaRound, MapConcurrent, FailFastTransport, BoundedForEach

`MissedVaas` takes one filter at a time and one step per missing sequence;
`MissedVaaRound` says why that is enough. The state of a `mapConcurrent` is what
no lane has taken yet (`pendingArgs`) and what each lane works on; lanes that find
nothing end. One is for the filters of a round, one per filter for its missing
sequences. Each fetch is a gRPC call after another: `Send`, then `Responds`,
`TimesOut` or `IsCutOff` as Node's events come, `CallFails` (with the tries left, or
`FetchEnds`), `CallSucceeds` and `ProcessVaa`. The Redis steps of a check are
`Scan`, `CheckFails` and `CheckSucceeds`. What is missing is a set, which a scan lists
in ascending order (`Ascending`); `MarkedSeen` says what the next round does not find
missing any more: what was processed. What could not be fetched is only recorded as
failed, and the next round fetches it again. After a check that threw, all of it is missing.

`BoundedForEach` is the contract of `mapConcurrent`: tasks go from waiting to
working to gone, each once, within the bound, and none waits while there is room.
`FetchesEachOnce` is that specification under the mapping from lanes to tasks.

### RelayQueue and RelayContract

`RelayQueue` has per process its state and its cache of filtered VAAs, per VAA
its BullMQ job (state, attempts made, stalls, lock), and the calls of
`processVaa` and the pipeline runs that are in flight. BullMQ is not in the
repository: the life cycle of a job (add is a no-op for an existing id, attempts
and backoff, locks, the stalled check, trimming) is modelled from the options
and calls in `redis-storage.ts`, and marked external. Filters, middleware and
the kind of error a pipeline throws are the application's, hence free choices.

A run awaits `job.log`, the pipeline and `job.updateProgress` (the places `log`,
`pipeline` and `progress`). Both calls of BullMQ may reject (`JobCallFails`), before and
after the pipeline. `Completed` is emitted inside the `try` of the pipeline, so that a
listener that throws has the run `rejected` after it was counted as a success
(`PipelineCompletes`, `ListenerThrew`). The history variable `excuse` collects the VAAs of which
a run went wrong outside of its pipeline, `lostLock` those of which a run lost its lock and
went on, `again` those that were relayed, trimmed and added anew.

`Metrics` is composed in: every pipeline run adds the labels that the metrics middleware
counts it under (`finishedVaas`), with the attempts as BullMQ counted them when the
job was taken.

`RelayContract` knows a VAA only as unknown, queued, running, relayed or dead,
with the tries since it was accepted. `KeepsContract` says that every step of
the queue, crash or trimming is a step of the contract under the mapping at the
end of `RelayQueue`, or none.

### Pipeline and Application

`Pipeline` has, per delivery, the stack it runs and the calls made so far: where in
the stack, by which call, awaited or not, and whether it runs, waits, goes on with
a value or an error, or ended. `CallNext`, `Return`, `Throw` and `Catch` are what a
middleware may do; `Route` is the router. `compose` nests closures, and calling
the nested ones makes the same calls as a flat sequence, so a stack is a sequence;
the handlers of an address are one place in it, below the router. A middleware that keeps the
promise of `next` and awaits it later counts as one that does not await it.

An address is written in some case, and the key of its handlers and filters is what
`encodeEmitterAddress` makes of it: lower case on all chains but Sui, where only a leading 0x
goes (`KeepsCase`, `Hex`). The spy matches bytes, the router looks up lower case (`HasHandler`).

`Application` adds the rest of `RelayerApp`: `chain`, `address` and `Use` at any
time, `Listen` with its snapshot of the filters, the loop that connects and
subscribes (`Connected`, `Subscribed`, `ConnectionFails`, `StreamEnds`), and the
steps of `processVaa` between two awaits, from `Received` to `Complete` or `Fail`.
A rejection nobody handles sets `exited`, as Node does by default. Where a listener
may throw, the model has both outcomes. With a storage the queue is only a set of
waiting deliveries, because duplicates, retries and locks are the matter of `RelayQueue`.

### StagingArea

Redis' own part, WATCH and EXEC per connection, is modelled with the keys a
connection watches and whether one was written since. Every call of `withKey`
adds one to the keys it names, so that lost writes can be counted. It reads them
with one GET per key (`ReadKey`), and other calls may store between two of these.
`OptimisticStore` is the contract: a call is a transaction that is open from its WATCH
to its EXEC, commits all of its keys in one step, from their values at that moment,
and only if no other has written one of them meanwhile. `CallsAreTransactions` is that
specification under the mapping `Transaction`. The constant
`Overlapping` says whether the calls of one job may overlap, which the interface
allows (`Promise.all`, or `withKey` inside `f`). A dropped connection, after
which Redis forgets its watches, is not modelled.

### WalletWorkers

One queue per supported chain, one worker per private key: not started, building
its toolbox, idle, busy or dead. `Execute` is a call of `ctx.wallets` by a
pipeline or by a function that is itself being run; `Dequeue` and `Settle` are
one turn of the worker loop. When `createWalletToolbox` rejects, the promise of
the worker is dropped: with Node's default the process ends, with a handler for
unhandled rejections it goes on with a dead worker, and the model has both.
Callers await one call at a time; that is a choice about the application's code.

`WalletPool` is the contract: calls wait, a wallet that is free serves the one of its
chain that has waited longest, and each ends for good. It knows neither
queues nor workers nor promises. `WorkersArePool` is that specification when the calls
that have not begun are what waits and the settled ones have ended. A dead worker is a
wallet that serves no more, which the contract allows: that calls end at all is the
matter of `CallIsSettled`.

### BundleFetcher

The three records of a fetcher are sets of keys. `FetchPending` is `build` (or
its loop after a sleep) up to the await of `Promise.all`, `FetchSucceeds` and
`FetchFails` settle one fetch of a round, `EndFetch` is what follows the await:
the VAAs got are added and the loop decides. Several calls of `build` may be
under way on one fetcher, and `AddVaaPayload` may come in between. `Serialize` and
`Deserialize` store a fetcher and make another from it; builds of the first
are then gone. The loop condition is translated as it is: `attempts` stays 0, and no
number is less than `undefined`.

### HttpClient and SourceTx

`HttpClient` has one request per job: sent, answered, waiting for its next try, or over. An
answer is good, an error status with a Retry-After header, no answer, or
malformed. `SourceTx` adds the jobs: `FromCache` or `FetchVaaHash` up to its await,
then `Found` or `Throws`. The explorer answers with the hash it has at that
moment; the answer reaches the job later, and in between `Reorganise` may have changed
the hash of a VAA that was signed before its transaction was final. The LRU
cache is kept as the hashes by VAA and the order of use.

### LegacyConfig, StandardRelayer and LegacyRelayer

`LegacyConfig` has operators on a directory (common, executor and listener files)
and the environment: `loadExecutor` mixes keys of the environment into the file's,
in either of its two forms, `transformPrivateKeys` makes a map of it,
`validatePrivateKeys` accepts or rejects. A list of keys is told by where it was
written and by what it holds. Objects are functions, and `assign` is `Object.assign`.
`IsDirectory` says what files and environment may hold. The module variables of `config.ts` that
survive a load are variables of `LegacyRelayer`, and `LoadEarlier` fills them.

`StandardRelayer` has the options after `mergeDeep` and, per job, its way through
`providers` and `tokenBridgeContracts`. Both build what they hand out when the
first jobs come; between the test whether it is there and the end of the build
other jobs come through, build it again, and a build may fail after another
succeeded. `Thrown` is BullMQ's side of a job whose pipeline throws.

`LegacyRelayer` adds the three ways to start (`RunDirectory`, `RunObject`,
`StartOwn`), the routes (`Routes` keeps, as the code does, only the last emitter
of each chain), and the handler: `ConsumeEvent`, the plugin's calls through `execute` or
`executeOn`, whose promise it awaits if it is given one, and the end of the workflow. Calls
whose promise nobody has are in `dropped` until a wallet has run them. What the
wallets do with a call is the matter of `WalletWorkers`.

## 3. Runs and bounds

| Run | Shows | States |
| --- | --- | --- |
| `MissedVaas` | type, `SeenIsHandled`, `SafeCovers`, `FailedUntilHandled` | 2.0 million |
| `MissedVaasLiveness` | `MissedRecovered` | 261,000 |
| `MissedVaasSafeSequence` | counterexample to what the repository says of the safe sequence, section 6 | |
| `MissedVaaRound` | `AllHaveOutcomes`, `GivenUpAfterAllTries`, `FetchesEachOnce`, `RoundsEnd` | 72,000 |
| `RelayQueue` | one process, two VAAs: type, `AddedIsKept`, `TriesBounded`, `RelayedTwiceHasCause`, `MetricsAgree`, `KeepsContract` | 1.4 million |
| `RelayQueueProcesses` | two processes, one VAA, forced calls: `NoOverlapWithoutLostLock`, `QueuedIsFinished` | 265,000 |
| `Application` | `SubscribedIsRouted`, `NothingRunsAfterOutcome`, `ErrorsAreToldOrCaught`, `Resubscribes` | 671,000 |
| `StagingArea` | `StoredUpdatesCount`, `CallsAreTransactions` | 68,000 |
| `WalletWorkers` | `CalledOnce`, `StartedInOrder`, `WorkersArePool`, `CallIsSettled` | 59,000 |
| `BundleFetcher` | type, `ResolvedHasAll`, `NothingLost`, `RejectedTellsWhy`, `BuildResolves` | 59,000 |
| `SourceTx` | `HashIsOfThisJob`, `RetriesBounded`, no deadlock | 1.3 million |
| `LegacyRelayer` | `ContextsComplete`, `BuiltIsKept`, `KeysAsConfigured`, `JobsEnd` | 297,000 |

The properties in words:

* `SeenIsHandled`: a sequence is in the seen set only when its VAA is in the
  queue or was skipped. A sequence seen too early is never looked for again.
* `SafeCovers`: every sequence between the place where scanning began and the
  safe sequence was taken in, or is on record as failed, or its `processVaa`
  rejected inside a run (section 6), or the keys in Redis lost track of it in one
  of the three ways listed above (`lost`).
* `FailedUntilHandled`: a failed mark disappears only after the VAA was taken
  in, or when the index is dropped at a start.
* `MissedRecovered`: once anything above sequence 0 is seen, a signed VAA of the
  scanned range is eventually taken in although the spy never delivers it.
* `NoOverlapWithoutLostLock`: a crash, a rejected `job.log` or `updateProgress` and a listener
  that throws leave no run behind; only a run that lost its lock may meet the next one.
* `AddedIsKept`, `TriesBounded`, `QueuedIsFinished`: see the comments in `RelayQueue`. The retry
  limit counts stalls apart from attempts, as BullMQ does: a job is run at most `Attempts` times
  plus once per stall.
* `RelayedTwiceHasCause`: a VAA goes through the pipeline to the end twice only if a run of it
  was cut off by a crash, lost its lock, had `job.log` or `updateProgress` reject or a
  listener of `Completed` throw, or if its job was trimmed and added again. All of these
  happen; handing out an active job or a second job for one id would be others, and do not.
* `MetricsAgree`: for a VAA none of whose runs went wrong outside of its pipeline (the same
  failures), a job that completed was counted as a success, one that failed for good was
  counted as terminal if its attempts were used up, and nothing counted as
  terminal is tried again. With such a failure they do disagree: a run whose listener throws
  is counted as a success and fails, one whose `job.log` rejects fails uncounted.
* `StoredUpdatesCount`: a key counts exactly the calls that stored it.
  `CallsAreTransactions`: all calls together behave like
  transactions each of which reads, computes and stores in one step, although
  WATCH, the GETs, `f` and EXEC are separate and connections are shared; a call's values
  are dropped only when another call wrote one of its keys meanwhile, or when its
  connection came from a job whose `f` threw and was still watching.
* `AllHaveOutcomes`: when the fetches of a filter have resolved, each of its missing
  sequences has an outcome and no call for it goes on. `GivenUpAfterAllTries`: a
  sequence counts as failed only after its last allowed call failed, never because
  `processVaa` rejected. `FetchesEachOnce`: a check
  works on each missing sequence once, within the bound, and no lane is idle while
  one waits. `RoundsEnd`: a round ends
  unless the response to one of its calls was cut off.
* `CalledOnce`, `StartedInOrder`: every function is called once and in order.
  `WorkersArePool`: with the promises taken in, queues and workers are one pool per
  chain, and a wallet runs one function at a time. `CallIsSettled`: a
  call is settled unless the process ends or it waits for ever, behind workers
  that are dead or for functions that wait for each other.
* `SubscribedIsRouted`: what the spy sends to an application that subscribed with
  filters has a router and handlers, unless it was subscribed with a Sui address with capitals,
  the one case in which it may have none. `NothingRunsAfterOutcome`: when all calls of
  `next` are awaited, none is left when `Completed` or `Failed` is emitted.
  `ErrorsAreToldOrCaught`: after `Completed` no error is lost, except by the end
  of the process; `Failed` without `Completed` means that an error came up to the
  top. `Resubscribes`: an application that listens is subscribed again.
* `NothingLost`, `ResolvedHasAll`: a VAA of the bundle is had or asked for, and
  a build resolves only with all of them. `RejectedTellsWhy`: a build rejects
  with an error for each VAA missing then. `BuildResolves`: a build that may retry
  resolves once the guardians have its VAAs.
* `HashIsOfThisJob`: the hash a pipeline goes on with is one the explorer had while
  its job ran. `RetriesBounded`: tries and waits stay within the client's settings.
  The run checks for deadlock as well: every job ends.
* `ContextsComplete`: a handler has all providers of the application and the contracts of its
  EVM chains, and a transfer of the token bridge is known as one, whoever built what
  and whatever failed meanwhile.
  `BuiltIsKept`: what was built once for all jobs never changes again, in what it holds: a
  build that ends late does put client objects of its own, for the same endpoints, in their place.
  `KeysAsConfigured`: a relayer started from a directory has a list of keys for each
  supported chain, from the environment or else from the file, whatever was loaded before.
  `JobsEnd`: jobs end unless the process does or an awaited wallet has no keys.

Bounds, and why they are enough for what they are used for:

* `MaxSeq` 3 (sequences 0 to 3) with `PageSize` 2: a missing sequence between
  two seen ones, one at each end, a gap inside the look-ahead page and one
  beyond it. The main run takes no starting
  sequence and 2 by turns, and lets every start keep or drop the index. The two
  last kinds of `lost` matter from 5 and 6 sequences on: with `MaxSeq` 4 TLC finished a run
  of `SafeCovers` (19.8 million states, longer than the runs kept here), and
  simulated 122 million states with `MaxSeq` 5 and four failures. The
  theorem `SafeSequenceCovers` (section 5) has no bound.
* `MaxFaults` 2 (1 for liveness): two failures in one run, or a failure, a
  crash and the recovery in a later run.
* `RelayQueue`: two VAAs compete for the limits on finished jobs and for the
  cache of one entry; `Attempts` 2 and one stall let a job be retried and
  stall in one life. `MaxStarts` 3 lets a trimmed job be added and relayed again; VAAs are
  interchangeable there (symmetry, which the run without liveness property allows). It is a
  bound of the model only: with `KeepCompleted` and `KeepFailed` 1 and one VAA, as in
  `RelayQueueProcesses`, a job needs at most three runs, so the bound cuts nothing
  off from the liveness property.
* `Application`: one delivery, because deliveries share nothing here but the end of the
  process; two emitters of one chain, so that a router without the right handler
  occurs, and one of Sui, whose address is written in lower case or with capitals; a middleware above or below the router; `MaxCalls` 4, so that it calls
  `next` twice. A router that would exceed the bound stays where it is.
* `MissedVaaRound`: three filters on two lanes and three leaps on two lanes, so that a
  lane takes a second argument and one finds none; two tries; one response cut off.
* `LegacyRelayer`: two jobs with two attempts, so that builds overlap, fail and are
  repeated; two calls per attempt. Configurations: all combinations of keys for two
  supported chains and a third in both forms of the file, with and without the environment's
  (they end in `refused`, for they have no spy, after their keys were checked), and one
  with all chains for the jobs.
* `StagingArea`: three jobs on two connections, so that a connection is reused
  and one job waits; two of them call `withKey` with both keys, so that one's EXEC
  may come between the other's two GETs.
* `WalletWorkers`: three calls by two pipelines on a chain with two wallets and
  one with a single wallet. A nested call to the chain with one wallet blocks it.
* `BundleFetcher`: two builds of two VAAs and a third VAA from outside, one failed fetch of a
  VAA that exists (those that do not exist may fail any number of times), one restore.
* `SourceTx`: three jobs in two middlewares with different options; two final
  VAAs against caches of one entry, so that hashes are evicted; one reorganisation; a Retry-After
  that one middleware's settings accept and the other's do not, and one that is no number.

`CHECK_DEADLOCK FALSE` stands in the configurations of systems that may stop:
the process ended, all VAAs were filtered, all calls were made.

## 4. Fairness

* `MissedVaas`: weak fairness of the worker as a whole (its loop never ends
  and every await settles) and of each pending `markVaaSeen` (the event loop
  runs what is due). Nothing is assumed of the spy or of the guardians: `Sign` and
  `SpyDeliver` may never happen. Failures are bounded, so that they end.
* `RelayQueue`: weak fairness of the worker steps: BullMQ's timers (backoff, stalled
  check) go off and a pipeline ends. No fairness for restarts or stops:
  `QueuedIsFinished` therefore has the way out that no process is up.
* `WalletWorkers`: weak fairness of every worker: its timer goes off and a
  function that awaits nothing ends, which is an assumption about application
  code.
* `Application`: weak fairness of the steps of the loop that connects: `waitForReady`
  has a deadline and a spy that is up answers. Streams may break or end at any
  time. Nothing is assumed of the spy's server or of the middleware.
* `MissedVaaRound`: weak fairness of each check (Redis and `processVaa` settle), of what is due
  of each call (it is sent, the idle timer fires, what was destroyed reports its error), and of the next round's
  timer. That an RPC answers is not assumed, nor that a cut response ever ends.
* `LegacyRelayer`: weak fairness of every job: builds and reads settle, BullMQ hands out what
  waits, a wallet that has keys settles its calls.
* `BundleFetcher`: weak fairness of every build: each fetch settles, each sleep
  ends. None of the guardians: `Sign` may never happen.

## 5. What is proved

`MissedVaasProofs` proves for every number of sequences, every page size,
starting sequence, set of filtered VAAs and number of failures:

* `TypeCorrect`: `Spec => []TypeOK`. `TypeOK` is not inductive. The code
  computes the safe sequence as one less than the least failed or missing
  sequence (`helpers.ts` 54-60), and sorted sets never hold a negative one only because what is
  missing or failed lies above a sequence that was seen. `TypeInv` adds that:
  `failed`, and `missing`, `todo` and `failedToRecover` of the run, lie within
  `1..MaxSeq`, and a look-ahead knows the sequence before the one it visits.
  The lemmas below it say what each operator returns (`MinOfSeqs`, `MaxOfSeqs`,
  `RankType`, `LeapsType`, `ScanType`, `LookAheadFromType`, `LastSafeType`).
* `SeenIsBacked`: `Spec => []SeenIsHandled`. The inductive invariant `SeenInv` adds
  that marks under way, those of listeners and those of the run, are backed too.
* `FailedStaysUntilHandled`: `Spec => FailedUntilHandled`, from `SeenInv`: the run
  removes only marks of sequences it has processed, and those are handled.
* `SafeSequenceCovers`: `Spec => []SafeCovers`, from `CoverInv`. What the keys promise between
  runs is `KeysInv`: all sequences between the place where scanning began and the safe
  one, and below each failed one, are accounted for; and a failed sequence lies below a
  signed one that a look-ahead will reach (`Looks`, `Overtaken`), or all below it
  are lost. Without the last part the safe sequence, which follows the least failed
  one, could jump over what no run has looked at. The rest says what a run has found
  out where it is: its scan comes as far as the greatest sequence seen although the
  rank was read earlier (`RankInv`), begins where nothing below is open (`ScanInv`),
  and after the look-ahead all up to its last sequence is done (`AheadInv`, `RunCovers`)
  and recorded (`MarkInv`). One lemma per step keeps it; `RunKept` says that the spy
  and the listeners cannot disturb a run.

`FetchProofs` proves of the bundle fetcher, for any number of VAAs, builds, attempts and restores,
`TypeCorrect`, `BundleIsKept`, `ResolvedIsComplete` and `RejectionIsExplained`, all
from `BundleInv`. `NothingLost` is inductive and gives `ResolvedHasAll`: a build
resolves when nothing is pending. For `RejectedTellsWhy` the invariant adds that
a build that fetches accounts for all that is pending (`PendingAccounted`): awaited
in its round, got in it, or with an error on record. Rounds of other builds can
only take away from what is pending.

Of the rounds it proves, for any list of filters, any finite sets of missing sequences, any
number of tries and both bounds on concurrency (which must not be 0: `mapConcurrent`
with no lane resolves at once and has fetched nothing):

* `ChecksAreComplete`: `RoundSpec => []AllHaveOutcomes`. The invariant `RoundInv` says of
  each `mapConcurrent` what its lanes and its list have in common (`MapOK`): no
  argument is in two lanes or in a lane and still in the list, and a lane has ended only
  when the list is empty. For the lanes of a round (`LanesInv`) it adds that exactly the
  filters in a lane are being checked, for those of a check (`FetchesInv`) that a missing
  sequence waits, is in a lane, or has its outcome, and that exactly those in a lane have a call.
  `StartedOK` and `ReturnedOK` say once, for any arguments, what starting and one
  return of `mapConcurrent` do to this; `AscendingOK` that the list of a check
  has each missing sequence once, by induction over finite sets.
* `TriedBeforeGivenUp`: `RoundSpec => GivenUpAfterAllTries`, from the same.
* `FetchesAreForEach`: `RoundSpec => FetchesEachOnce`. `Scan` opens a task set, a fetch
  that ends closes one task and takes others as far as the bound allows
  (`LanesBounded`), and every other step is none of the contract.

`ApplicationProofs` proves, for any emitters, stacks, deliveries and numbers of calls:

* `SpyDeliveriesAreRouted`: from `RoutesInv`, by which routes are never removed, the
  filters, fixed by `listen`, are among the handlers, and a key is in lower case but on a chain
  that keeps the case (`EncodedIsKey`).
* `OutcomeComesLast`: `NothingRunsAfterOutcome` is not inductive: the outcome
  depends on the first call only, and the others may be anywhere. `CallsInv` adds that
  while all calls are awaited the live ones are a chain (`Chained`): each was made
  by a live one, all but the last wait, and the first is among them. `Calling`,
  `Ending` and `Catching` say that each kind of step keeps a chain, `EndOfFirst`
  that with the first call the chain ends.
* `ErrorsAreAccountedFor`: `ErrorsAreToldOrCaught`, for pipelines that await their calls
  or not. `ErrorsInv` adds that a call waits for one awaited call at a time (`Linked`),
  that in a process that did not end every error reached the call that awaits it and is there,
  on its way up or caught above (`Told`), and that the end of the first call is
  final (`FirstKept`). `CallingTells`, `EndingTells` and `CatchingTells` keep them.

`RelayQueueProofs` proves, for any processes, VAAs, limits, attempts and failures, `TypeCorrect`,
`AddedStaysQueued`, `TriesAreBounded`, `RelayedTwiceIsExcused` and `MetricsAreRight`, all from
`IInv`, then `OverlapNeedsLostLock` and the refinement:

* `IInv` says what a lock is worth. A VAA no failure has touched (`Clean`) has at most one run,
  which holds its job, has passed the end of the pipeline exactly if the VAA was relayed,
  and was counted by then; its job is not waiting once it was relayed. For all others the
  excuse is on record. `Causes` says that what was relayed twice has one of the causes, and that
  a VAA relayed before its present job was added is one that was trimmed. `TriesLeft` gives a
  job that is to run a try. `EndedSound` says that the jobs the limits may drop are finished
  ones, each listed once, so that trimming (`EndJobEffect`) never touches a live job.
* `OverlapNeedsLostLock`: two runs of a VAA at a time, only after a lock was lost. `Clean` is
  too much for it, since crashes and failed calls break that; `SingleInv` says of every other
  VAA that its one run, if there is one, holds the job. A job changes hands only when it is not
  active, and then no run holds it (`StepKeepsSingle`).
* `QueueKeepsContract`: `Spec => KeepsContract`, that is, `RelayQueue` implements
  `RelayContract`. One lemma per kind of step says which step of the contract it is
  (`AddIsAccept`, `TakeIsBegin`, `BackIsRetry`, `FailsIsRetryOrFinish`, ...) or that it
  is none.

`StagingAreaProofs` proves `NoUpdateIsLost` and `DropsAreExplained` (`DroppedForAReason`) under the hypothesis
`~Overlapping`, without which both are false. The invariant says that a connection
serves one call at a time (`Borrowed`, `OneAtATime`), and what holds of it then
(`Serves`): it watches the call's keys, and as long as it is not dirty the call has,
of the keys it has read so far, what the store holds. `WithKeyIsTransaction` is the refinement,
under the same hypothesis: `Spec => CallsAreTransactions`. WATCH opens a transaction, which
is early exactly if the connection came dirty from another job, EXEC on a clean
connection commits it, EXEC on a dirty one aborts it for a reason on record.

`WalletWorkersProofs` proves `TypeCorrect`, `WalletsAreExclusive` (`OneFunctionPerWallet`), `CallsAreMadeOnce` and
`CallsStartInOrder` for any chains, wallets, pipelines and calls. The invariant: queues are
sorted, hold exactly the calls of their chain that have not begun, and what has begun
runs in one place, with a wallet of its chain, or is settled.
`WorkersImplementPool` is the refinement `Spec => WorkersArePool`, from the same
invariant: `ExecuteAsks`, `DequeueServes` (the head of a sorted queue has waited
longest, an idle worker's wallet serves nothing) and `SettleEnds` say
which step of the pool a step of the code is; the start of a worker is none.

`LegacyRelayerProofs` proves `HandlersHaveTheirContext` and `BuiltStays` for
any configuration, jobs, chains and plugin calls. The invariant says what the closures
of the middleware may hold (`BuiltInv`: nothing or all) and what a job
has at each place of its way (`JobInv`). `StartsWithItsKeys`: `Spec => []KeysAsConfigured`,
for any directories as `DirectoriesAssumption` describes them (a list of entries in
the array form, finitely many keys, none of them undefined). `LoadExecutorOK` says of the
two forms of the file, with and without the environment's keys, what list each chain
gets; the array form needs that the last entry of a chain exists (`SetHasMax`).

`SourceTxProofs` proves `RetriesAreBounded` for any options, headers and answers: the
invariant adds that a request that waits has a retry left, and `WaitBounded` that
backoff and Retry-After are capped. `HashesAreFresh` has the hypothesis
`FinalStays`, that the chain never moves a VAA for which `ifVAAFinalized` holds; its
invariant says that cached hashes are current, and that an answer on its way was
given during its job.

Besides `FinalStays` and `~Overlapping`, which stand in the theorems, the only assumptions
are the named ones on the constants, which TLC evaluates in the runs. Every safety
property that a passing run checks is also the statement of a theorem.

Only model-checked: the liveness properties (`MissedRecovered`, `QueuedIsFinished`,
`CallIsSettled`, `Resubscribes`, `BuildResolves`, `RoundsEnd`, `JobsEnd`), because the
prover does not handle ENABLED. Neither checked nor proved: that the LRU cache of
`SourceTx` stays within its size, which is the library's promise and which no property needs.

## 6. Where code and documents differ

Each with a run that shows it, unless noted:

* `metrics.ts:74` calls the safe sequence the largest for which all previous
  ones are processed. `MissedVaasSafeSequence`: a look-ahead VAA whose
  `processVaa` rejected is passed over. Conversely, and without a run, a sequence that failed to
  fetch and is then delivered by the spy stays in the failed set, and
  the safe sequence below it.
* `check.ts:129` promises that a VAA which was fetched and not queued is retried on the
  next run. Not when another sequence is on record as failed, for the safe sequence
  then follows that one (no run).
* `storage.ts:86`, `storage.ts:143`: the results of the three deletions are not read, and a safe
  sequence that could not be read is not missed; both may make the worker pass over
  sequences for good. They are the last two kinds of `lost` in `MissedVaas` (no run).
* `check.ts:145` looks ahead of the greatest seen sequence.
  Not when that is sequence 0 (no run).
* `worker.ts:65` calls `startingSequenceConfig` the least sequence assumed to exist. A run
  that saw nothing stores safe sequence 0, which later runs take as the lower
  end of the scan; this one has no run.
* `src/advanced-example.md:127` presents the staging area as safe under
  concurrency. `withKey` returns `f`'s value when EXEC was
  aborted, and overlapping calls of one job end each other's watch: `StoredUpdatesCount`
  fails in `StagingArea` with `Overlapping = TRUE` (no run).
* `bundle-fetcher.helper.ts:100` bounds the loop of `build` by `maxAttempts` and never
  counts: a VAA that is never signed is fetched for ever (no run). `fetchVaas` passes `undefined` over the default of ten
  attempts when its caller gives none, and then nothing is retried; the sleep
  between rounds takes `maxAttempts` for its milliseconds (no run).
* `http-client.ts:5` calls the backoff exponential; every retry waits for
  `initialDelay * 2 ** maxRetries`. An error status whose body is not JSON is not
  retried (no run).
* `source-tx.middleware.ts:130`: the first caller in the process decides endpoint and
  retries for all (no run).
* `application.ts:499` says that `attempts` counts the seconds the spy is down. It is
  reset before the subscription, which may fail at once and again (no run).
* `application.ts:503`: without filters and spy url `listen` spins without awaiting
  anything; in `Application` this is `listening = "spinning"`, where nothing else runs (no run).
* `application.ts:347`: a listener of `Completed` that throws makes the same delivery
  `Failed` as well, and its job, which was relayed and counted as a success, is retried:
  `ListenerThrew` in `RelayQueue`, and one of the causes in `RelayedTwiceHasCause`. Without a
  storage any middleware error ends the process (`Fail` in `Application`). No run of its own.
* `application.ts:597`: `address()` promises middleware "to run when we receive a VAA from that
  address" (569). A Sui address with capitals is subscribed, and what the spy sends for it ends
  in "route undefined": the exception in `SubscribedIsRouted` (no run of its own).
* `worker.ts:44` describes `concurrency`, which is never passed on: five filters at a time.
  `worker.ts:95`: every retry of the start creates a Redis pool (no run).
* `fail-fast-grpc-transport.ts:82`: a response that is cut off never ends its call, and the
  round of all filters waits for ever; `RoundsEnd` excepts exactly this (no run).
* `legacy-plugin.middleware.ts:42` empties the list of a chain for each of its filters, so only the
  last is subscribed (no run). Line 86: the executor is typed to return the promise of the
  action's result (`legacy-plugin-definition.ts:53`); `execute` on an EVM chain returns and
  awaits nothing, so that a workflow that awaits it completes while the call is still in the
  wallet's queue (`Unreturned` in `LegacyRelayer`). On other chains than these and Solana it does
  nothing (no run).
* `config.ts:337` rejects the keys its comment at 470 gives as an example; at 429 keys of the
  environment are written into the array form at the chain's index, which makes
  the configuration invalid (no run).

Smaller ones seen while modelling: `check.ts:105` says a VAA that cannot be
fetched is marked "failed and seen", and it is only marked failed;
`maxFailedQueueSize` has no effect on jobs added with the fixed
`removeOnFail: 50000` (`redis-storage.ts:164`).

## 7. What is not modelled

* `listen` called twice, and what the loop of `listen`, which never ends, does in a
  process whose worker was stopped.
* Two relayer processes running the missed-VAA worker on the same Redis
  keys. Nothing in the code coordinates them; `MissedVaas` has one.
* A staging area's connection that drops, after which Redis forgets its watches.
* `cancel()` of the transport, which no code of the repository calls, and grpc-web itself.
* Wallet management (`wallet-management.ts`): converts keys and thresholds into the options of an
  external wallet monitor and starts it.
* Metric registries, histograms, gauges, the user interface of the queue, logging, environment:
  nothing in them depends on an order of steps or feeds back into one.
* What `stop()` awaits: that `worker.close()` takes no new job and waits for the running ones is
  BullMQ's promise, and the guard of `StopReturns` states it.
* A Sui state without the cap: `tokenBridge.middleware.ts` 148-149 keeps the state and then throws,
  so that later jobs find the state and no cap. `instantiateReadEvmContracts` is assumed
  not to fail.
* Conversions: addresses but for their case, VAA payloads and headers are the SDK's; URLs differ between the
  calls of the wormholescan client and nothing else does.
* Redis and BullMQ are trusted to do what their documentation says.

What would come next: a model of two processes that run the missed-VAA worker on the same keys,
and `Application` composed with `RelayQueue`.
