# helm-watch in TLA+

helm-watch finds the Helm-based workloads of a Kubernetes cluster, looks up the
latest version of each chart upstream and exports the comparison as Prometheus
gauges.  This directory holds TLA+ models of its core, TLC configurations that
check them on small instances, and TLAPS proofs about them.

## 1. Inventory

### Components

| Component | Source | State it keeps | Operations |
|---|---|---|---|
| Process and server | `cmd/helm-watch/main.go`, `internal/server/server.go` | the signal context, the HTTP server, `errCh` | `New`, `Run`, `runMetricsPipeline`, `publishMetrics`, `Shutdown` |
| Discovery manager | `internal/discovery/manager.go` | `records` under an RWMutex, the channel `firstReconcileDone`, a ticker | `Run`, `reconcileOnce`, `Snapshot`, `WaitFirstReconcile` |
| Composite discovery | `internal/discovery/discovery.go` | nothing between calls | `Discover`, two de-duplications |
| Argo CD discoverer | `internal/discovery/argocd.go` | nothing | one list of Applications |
| Helm release discoverer | `internal/discovery/helm_release.go` | nothing between calls | lists of Secrets and ConfigMaps, with a fallback |
| Catalog builder | `internal/catalog/builder.go` | a worker pool during `Build` | `Build`, `buildSingle` |
| Helm repository resolver | `internal/resolver/repository_resolver.go` | index cache under an RWMutex | `ResolveLatest`, `RefreshRepoIndex`, `getFresh`, `getStale` |
| OCI resolver | `internal/resolver/oci_resolver.go` | tag cache under an RWMutex | `ResolveLatest`, `fetchTags`, `negotiateBearerToken` |
| Version engine | `internal/version/engine.go` | none | `Compare`, `computeLag` |
| Chart metrics | `internal/metrics/` | four gauge vectors, a gauge, a counter | `Publish`, and the scrape of the registry |
| Configuration, credentials, clients, contracts | `internal/config`, `internal/registryauth`, `internal/kube`, `internal/model` | none | construction, parsing, types |

### How they interact

    signal --> context --+------------------+--------------------+
                         v                  v                    v
                 Manager.Run        runMetricsPipeline       HTTP server
                   | ticker           | ticker   ^               ^ scrape
                   v                  v          |               |
            Composite.Discover   Snapshot --> Build --> Publish --> gauge vectors
             |           |           ^          | N workers
             v           v           |          v
          Argo CD      Helm     m.records    buildSingle --> Get object (API server)
           list     lists (2-4)              |
                                             +--> index cache / tag cache --> upstream
                                             +--> version engine

`server.Run` starts three goroutines.  The discovery loop and the pipeline are
coupled only by `m.records` (under a lock) and by `firstReconcileDone`, which
delays the first publication until the first pass has ended.  Inside a
publication the builder's workers share the two resolver caches.  A scrape runs
whenever Prometheus asks, also in the middle of a publication.

### What is hard about it

* Concurrency: workers on one cache (a read, a request and a write are three
  critical sections, not one); two loops with tickers that drop ticks; a scrape
  while four vectors are being rewritten; a cluster that changes between the
  lists of a pass and between a pass and the build that uses it.
* Failure: every list may fail alone (`failures == len(sources)` is the only
  error), a refresh may fail and fall back on a stale entry, an object may be
  gone when it is fetched, or never be answered for; a registry may answer 401
  or 404 at any page; the listener may fail while the process is being stopped.
* Time: TTL of entries, HTTP timeout, the two periods, the shutdown window.
* Edges: unsigned differences of version numbers, pre-releases, missing or
  equal Helm revisions, a page cap.

`PROJECT.json` lists each hazard at its line with the properties that cover it.

### What makes each component correct

* Resolver: the cache holds only what was fetched; an entry once there protects
  from errors; an answer without a failure is no older than the TTL; every call
  returns.
* Discovery: what is there all through a pass is found, nothing is invented,
  one record per app and the preferred one, whatever changes meanwhile.
* Loops: no publication before the first pass is over; eventually the gauges show the
  cluster; after a signal both loops return.
* Engine: status follows semver precedence; the lag is positive exactly for
  outdated charts.
* Metrics: after a publication exactly its batch is shown; never outdated and
  unknown at once; a scrape in the middle shows nothing that was not published.
* Builder: each workload gets its own record, once; an override repairs what it
  is meant to repair; one failing workload leaves the others alone; `Build`
  returns.
* OCI resolver: the answer is the highest version, over all pages; the 401s of
  one page end; the pages end.
* Process: it ends after a signal whatever hangs, without cutting off a request
  it can still answer; without a listener it does not go on.

## 2. The modules

| Module | Models | Checked through |
|---|---|---|
| `RepositoryResolver` | the shared index cache | `MCRepositoryResolver`, and `MCRepositoryResolverLostUpdate` with one more history variable |
| `IndexCache` | what the index cache promises a caller: each lookup one step | refined by `RepositoryResolver` |
| `OCIResolver` | the tag cache, pages, 401s and tokens | `MCOCIResolver` |
| `CatalogBuilder` | one `Build` with its workers and `buildSingle` | `MCCatalogBuilder` |
| `ReconcileLoops` | the discovery loop and the pipeline together | `MCReconcileLoops` |
| `Discovery` | one pass, request by request | `MCDiscovery` |
| `VersionEngine` | `Compare` and `computeLag` as operators | `MCVersionEngine` |
| `ChartMetrics` | `Publish` against a scrape | `MCChartMetrics` |
| `Config` | how a duration of the environment is read | through `ServerLifecycle` |
| `ServerLifecycle` | the process from `main` to its exit | `MCServerLifecycle` |

Beside each stateful module, and the version engine, `<module>Proofs` holds its
theorems: `RepositoryResolverProofs` (also that it implements `IndexCache`),
`OCIResolverProofs`, `CatalogBuilderProofs`, `ReconcileLoopsProofs`,
`DiscoveryProofs`, `VersionEngineProofs` (of `MCVersionEngine`),
`ChartMetricsProofs` and `ServerLifecycleProofs`.

`ReconcileLoops` is the composition: it holds discovery, builder, resolver and
metrics at the grain at which the two loops see them.  `Discovery`,
`CatalogBuilder`, the two resolvers and `ChartMetrics` are the fine-grained
models of what is one or a few steps there: a pass, a `Build`, a lookup, a
publication.  `CatalogBuilder` takes of a resolver that it answers
(`CallsReturn`, `FetchReturns`), and calls `VersionEngine` itself.
`ServerLifecycle` is the process around the loops: it keeps of each only where
it can hang, panic or return.

### RepositoryResolver

State: `cache` is the map of `RepoCacheEntry`, with the zero entry for an absent
key; `pc`, `call` and `held` are the program counter, the arguments and the
local variables of each worker; `upstream` the generation of `index.yaml` that
each repository serves, `clock` the time.  An index is its generation and the
set of charts it lists: which versions it lists does not matter, as the code
takes the first.  `stored` is a history variable.

| Action | Code |
|---|---|
| `Call` | `ResolveLatest` is entered, `oci://` is refused |
| `Hit`, `Miss` | `getFresh`, and the URL check of the refresh that follows a miss |
| `Respond`, `Refuse`, `TimeOut` | the request and the parsing of its body; every error path |
| `Stamp` | `now := time.Now()`, taken before the lock |
| `Store` | the write of the entry under the lock, and the return |
| `TakeStale`, `GiveUp` | `getStale` after a failed refresh |
| `KeepStale` | the write-back of the stale entry under the lock, and the return |
| `Tick`, `PublishIndex` | the environment |

`call` also keeps, as history, what upstream served when the call began.
`MCRepositoryResolverLostUpdate` adds `refreshed`, the entry that the latest
successful refresh of a repository stored, for the one property that needs it.

`IndexCache` is the abstract specification.  It has no cache, no entry, no
request and no lock: `fetched` is the set of indexes ever fetched, and a call
ends in one step, `AnswerKept`, `AnswerFetched` or `Fail`.  The refinement
mapping (`Abstract`) takes `fetched` to the entries in `stored` without their
expiry, and `calling` to the workers that are not idle; `Hit`, `KeepStale`,
`Store` and `GiveUp` are the steps that answer, everything else in between is a
stutter.  So the implementation may fetch twice, lose an entry and write an old
one back: a caller cannot tell.

An empty URL or chart name, which `ResolveLatest` refuses first, is not
enumerated: `canResolve` of the builder lets neither through.

### ReconcileLoops

`manager`, `next`, `found`, `failed` are the pass of `Composite.Discover` inside
`reconcileOnce`; `records` and `firstDone` are what the manager shares;
`pipeline`, `snapshot`, `built`, `published` are the pipeline, from
`WaitFirstReconcile` to the gauges.  Each ticker is a channel of capacity one
(`managerTick`, `pipelineTick`): a tick that finds it full is dropped.  The
enrichment of a workload is known or unknown (`BuildKnown`, `BuildUnknown`), in
any order, as the worker pool has it.  A workload is unknown because it is gone,
because a request failed, or because it is in `Unresolvable`: a chart from Git or
without a repository, or a version that is no semantic version (`README.md:141-143`
of the repository), of which no request can tell anything.  `cluster` changes in
every state.
`steady` and `seen` are history variables.

### Discovery

One call of `Composite.Discover`, with an action for each list request and one
for its failure; `Change` happens between any two.  `selector` tells whether the
Helm discoverer is in its first attempt or in its fallback; `considerLatest`,
`sourceTypePriority` and `deduplicateByApp` are the functions of the code; both
de-duplications are one loop, `Best`, that goes through a list in the order of the
code and compares by a key: the revision, or the priority of the source.  An object carries what the code reads
from it: the place of its ID, its source type, its app (destination namespace
and name) and its Helm revision, -1 without one.  `answered`, `quiet`, `flawless` and
`steady` are history variables: which sources did not fail, whether anything
changed or failed, and what was there all along.  Items of a list are taken in
the order of their names, as the API server returns them.

### CatalogBuilder

One call of `Build`.  `next` is the workload that the calling goroutine offers
on the unbuffered channel, so `Receive` is the rendezvous with a worker; `pc`,
`job` and `record` are each worker's; `records` are the slots.  `Get`,
`GetFails` and `Resolve` are the two waits of `buildSingle`; between them its
helpers (`populateFromArgoCD`, `applyHelmLabels`, `applyHelmReleasePayload`,
`applyRepoOverride`, `classifySourceKind`, `canResolve`) are operators of the
same names, in the order of the code.  A text is one that the code tells apart:
empty, blank, `unknown`, or a name; what `classifySourceKind` looks for in a URL
is the record `URL[repo]`.  A Get carries the context and no timeout: for an
object in `silent` it ends only with the context.  `object` and `reply` are
history variables: what was answered, to set beside what came of it.

### OCIResolver

The registry lists its tags in its own order, positions 1, 2, ..., and `Rank`
says what semver makes of each; a page is asked for with the position it
continues from, which is what the `last=` of a next link carries.  `fetch` holds
the local variables of `fetchTags`: the credentials in use, the attempt and page
counters, `nextURL` and `all`.  Each answer to a request is an action:
`Unauthorized`, `NotFound`, `Refuse` (every other failure), `Page`, `LastPage`;
after a 401 with a challenge the worker is at `token` until `TokenGranted` or
`TokenRefused`.  A registry may link its last page back to its first
(`circular`).  `steady` and `best` are history: the tags there all through the
fetch and the highest of them; `cut` is history too: a 404 or the cap ended the
list.

### ServerLifecycle

`main` is the main goroutine: in `New`, in the `select` of `Run`, and in
`Shutdown`, which looks for busy connections (`poll`) and sleeps in between.
`manager` and `pipeline` are the loops, each of which may hang in a pass or a
publication for ever and panics when `time.NewTicker` gets a period that is not
positive.  A kept connection may bring another request also in the shutdown.
A request under way is a connection that `Shutdown` finds busy; `net/http` counts
a connection that was opened and has not sent anything as busy too, for its first
5 seconds, so that such a one is a request under way here.
`every` and `window` are variables of the environment, read by `Config`.  `busy`
is history: `Shutdown` has met a request.

### VersionEngine

`Compare` and `ComputeLag` as pure operators over `WordSize`; `MCVersionEngine`
wraps them in a two-step machine that enumerates all pairs of inputs and sets
them beside `Rank` and `SignedLag`, which do not look at the code.

### ChartMetrics

`Publish`, `Reset`, `With` and `Set` go through the four vectors in the order of
the code.  `With` and `Set` are separate because `WithLabelValues` creates a
series with value 0 before `Set` gives it its value.  A scrape (`BeginScrape`,
`Gather`) reads the vectors in any order, each at one instant.  `previous`,
`disturbed` and `seen` are history variables.  The series of an app are its own: `Discovery` shows one
record per app (`OneRecordPerApp`).

## 3. What TLC checks

| Run | Bounds | Result |
|---|---|---|
| `resolver` | 2 workers, 3 repositories (plain, `oci://`, invalid), 2 indexes, TTL 1, clock to 2 | `TypeOK`, `EntriesWereFetched`, `StaleOnError`, `FreshUnlessUpstreamFailed`, `CallsReturn`, `ImplementsIndexCache` hold |
| `resolver_lost_update` | the same, with `refreshed` | `NoRequestWhileFresh` fails |
| `oci_resolver` | 2 workers, 3 tags in pages of 1, 2 pages, 8 attempts, TTL 1, clock to 2, 1 push or removal | `TypeOK`, `HighestUnlessCut`, `RetriesAreEnough`, `FetchReturns` hold |
| `oci_highest_tag` | the same | `HighestOfAll` fails |
| `catalog_builder` | 2 workers, 3 workloads, 8 Applications and 4 releases, 2 objects that may be silent | `TypeOK`, `RecordsAreTheirOwn`, `OverridesRepair`, `ErrorsAreFailures`, `ReturnsAll`, `WrittenOnce`, `BuildReturns` hold |
| `builder_override` | the same | `UnresolvableIsRepaired` fails |
| `loops` | 2 sources, 1 app, the Application unresolvable, 1 change, 2 faults | `TypeOK`, `NothingSteadyIsMissed`, `NothingInvented`, `AppsPublishedOnce`, `PublishAfterFirstPass`, `Converges`, `LoopsStop` hold |
| `discovery_pass` | 6 objects, 2 changes | `TypeOK`, `OneRecordPerApp`, `QuietPassIsExact`, `SteadyObjectsAreFound` hold |
| `version_engine` | numbers 0, 1, 2, 150, two pre-releases | `StatusFollowsPrecedence`, `LagMeasuresOutdated` hold |
| `version_engine_wrap` | the same | `SmallDifferencesGiveOne` fails |
| `metrics` | 2 apps, a scrape of `helm_chart_outdated` and `helm_chart_unknown` | `TypeOK`, `GaugesShowLastBatch`, `NeverBoth`, `ScrapeIsOfItsTime` hold |
| `server_lifecycle` | period and window unset, wrong, 2 or 0, 2 requests at once | `TypeOK`, `CleanExit`, `ErrorsHaveACause`, `PanicMeansPeriod`, `SignalEnds`, `ListenerFailureEnds` hold |

Why the bounds are enough to be interesting:

* `MaxTime = 2` with `TTL = 1` lets an entry expire once and a refresh of it be
  stored; `MaxGen = 2` lets upstream list a chart it did not list before.  Two
  workers give every interleaving of two calls on one repository, which is what
  the lock protects.
* Two sources of one app exercise the priority, the partial failure and the
  total failure of a pass; the initial cluster is arbitrary, and one change lets
  a workload come or go in any state after it.  Two faults let a whole pass fail
  while the context is live.  `MaxFaults` bounds failures of a live context only:
  after a cancellation any request may fail.  The Application has priority over the
  release of the same app and is unresolvable, the release is not: what
  `Converges` asks of the gauges depends on which of them is in the cluster.  (With
  two changes all properties of the run hold as well; it takes almost three times
  as long.)
* The six objects of `MCDiscovery` are two Applications for one app, two
  revisions and a change of storage driver of its release, and a release
  without a revision; every initial combination of their states is tried.
* 150 is a number above 100: a minor number weighs more than a major one then.
  `Base` (151) is above all numbers, and `NumbersAssumption` asks that a weighted
  difference of such numbers fits into a word.
  `WordSize` is 2^24 because TLC's integers have 32 bits: every wrapped sum that
  the run reaches fits.
* Two pages of one tag each: the cap (`MaxPages`, 50 in the code) is reached by
  three tags and by a circle of links, a 404 can come on a second page, and the
  highest tag can be on either; the three positions hold a low version, a tag
  that is no version, and a high one.  `MaxAttempts` is the code's 8, which
  `RetriesAreEnough` shows to be more than is ever used.
* Two workers and three workloads: a worker returns for another job while the
  other one is still busy, and both may be held by silent objects.  The objects
  are chosen so that each branch of the helpers is taken, and each leads to a
  record that another branch would not give.
* Two requests at once: one may hang while the other is served; the four values
  of a setting are the cases that `getEnvDuration` tells apart, and zero.
* Two apps: one changes its status, or goes, while the other one stays.
  `Watched` keeps the two vectors of a scrape that the properties relate;
  watching `helm_chart_info` too, or three apps, changes no result.

`CHECK_DEADLOCK FALSE` is used for the version engine only, whose machine makes
one step.  `Stopped`, `Finished`, `Returned` and `Ended` mark the states where the
loops, a pass, a `Build` and the process have really ended.

### Disagreements between the code and what is said about it

* `NoRequestWhileFresh`: worker A fails to refresh an expired index and copies
  the stale entry; worker B refreshes and stores a new one; A writes its copy
  back.  The next lookup finds an expired entry and goes upstream.  No wrong
  answer results (`EntriesWereFetched`, `FreshUnlessUpstreamFailed`), one fetch
  is lost.  The property looks at the entry stored last: two refreshes that
  succeed and store in the order opposite to their stamps also leave the earlier
  one, but that costs no more than the time between the stamps, and is not what
  fails here.
* `UnresolvableIsRepaired`: `git@host:org/app.git` does not parse as a URL, so its
  kind is `unknown` and not `git`; `canResolve` refuses it and `applyRepoOverride`
  leaves it alone, so the chart stays unknown whatever override is configured.
* `HighestOfAll`: a 404 on a later page, like the cap on pages, ends the list
  silently; the highest of what was read is answered, and cached, as the latest
  version.  `HighestUnlessCut` shows that nothing else can make the answer too
  low.
* `SmallDifferencesGiveOne`: with 1.150.0 deployed and 2.0.0 upstream the lag
  gauge shows about 1.8e19.

The code does these on purpose, or says nothing else, and they are worth knowing:

* `firstReconcileDone` is closed also by a first pass that fails; the pipeline
  then publishes an empty snapshot and sleeps for a period.
* The Helm discoverer's fallback depends on the cluster as a whole: one deployed
  release anywhere hides every release that has no deployed revision just then.
* `Publish` is not atomic with respect to a scrape: one that reads
  `helm_chart_outdated` before and `helm_chart_unknown` after a publication shows
  an app as both.  `ScrapeIsOfItsTime` bounds how far a scrape can be off.
* A reconcile period of zero makes the process panic (`PanicMeansPeriod`), but not
  before the first pass has ended or a signal has come.

Met while reading, and not a run because a counter that no code touches has no
behaviour: `IncReconcileError` has no caller, so the alert
`HelmWatchReconcileErrorsHigh` on `helm_watch_reconcile_errors_total` cannot fire.

## 4. Fairness

* `RepositoryResolver`: weak fairness of a worker's own steps.  `TimeOut` is one
  of them: `server.New` gives the upstream client a timeout of 10 s.  Nothing is
  assumed of upstream, of time or of callers.
* `ReconcileLoops`: weak fairness of each loop's own steps (goroutines are
  scheduled) and of each ticker; strong fairness of the return on a cancelled
  context, since Go's `select` picks at random among ready cases, so a tick that
  is always ready too does not win for ever.  A list and the enrichment of a
  workload are fair only once the context is cancelled, which every request
  carries: before that the Kubernetes clients have no timeout, and a request may
  take for ever.  So `LoopsStop` holds for a loop that hangs when the signal
  comes.  `Converges` cannot hold without answers; it states them as its condition
  (`RequestsEnd`), and that the changes of the cluster and the failures are
  finitely many is a bound of the model.  Nothing is assumed of the signal.
* `CatalogBuilder`: weak fairness of each worker and of the return.  Nothing is
  assumed of an object in `silent`; for `BuildReturns` the alternative is the
  cancelled context.
* `OCIResolver`: weak fairness of a fetch under way: the client of `server.New`
  has a timeout, so every request ends, with what answer is the registry's
  choice.  Nothing is assumed of the registry, of time or of pushes.
* `ServerLifecycle`: weak fairness of the main goroutine, of the shutdown
  window's timer and of the loops where they create their tickers; strong
  fairness of `ShutdownFails`, where a `select` has both its timer and the
  context ready again and again.  Nothing is assumed of requests, of passes and
  of publications: `SignalEnds` holds although each may hang for ever.

`Discovery`, `VersionEngine` and `ChartMetrics` state safety only.

## 5. What is proved

`RepositoryResolverProofs`, from `ResolverAssumption` alone, for every number of
workers, repositories, charts, generations, every TTL and every clock bound:

* `TypeCorrect`: `Spec => []TypeOK`.
* `CacheHoldsOnlyFetched`: `Spec => []EntriesWereFetched`.
* `StaleBeatsError`: `Spec => []StaleOnError`.
* `AnswersAreFresh`: `Spec => []FreshUnlessUpstreamFailed`.

The argument.  None of the three safety properties is inductive: each speaks of
the cache or of finished calls, while the danger sits in the local variables of
calls under way.  The inductive invariant `Inv` is `TypeOK`, `CacheInv` (a cached
entry is *genuine*: a refresh stored it, and it expires exactly TTL after it was
fetched) and, for each worker, `WorkerInv`: an entry that it holds to write back
is genuine, an entry that it has stamped was stamped during this call, and a
call that began with an entry present still finds one.  The last part needs that
no step ever removes an entry (`Monotone`).  An action moves one worker, so lemma
`OneWorker` reduces each step to the worker that moves, the cache, and
monotonicity; `CacheUntouched` and `CacheWritten` give the latter two.
`Inv` was run through TLC, on the instance of `resolver`, before it was
proved.

The second half of the module, from the same assumption:
`ResolverImplementsIndexCache`: `Spec => ImplementsIndexCache`.  The step that
answers needs facts of `Inv` each time: `Hit` that the cached entry is genuine,
so that `fetched` holds its index and its age is within the TTL of the call's
begin; `KeepStale` that the entry held is genuine; `Store` that what it stamped
was served and stamped during this call; `GiveUp` that an absent entry means
that nothing was ever stored, which is why `CacheInv` also says that a
repository with a stored entry has a cached one.  Lemmas `Inside` and `Outside`
separate the steps that a caller sees from those it does not.

`DiscoveryProofs`, from `DiscoveryAssumption` (finitely many objects, with
different IDs), for every set of objects and any number of changes:

* `TypeCorrect`: `Spec => []TypeOK`.
* `AppsAreApart`: `Spec => []OneRecordPerApp`.
* `SteadyIsFound`: `Spec => []SteadyObjectsAreFound`, for the objects of a source
  that answered, also in a pass in which the other one failed.
* `QuietIsExact`: `Spec => []QuietPassIsExact`.

Half of the proof is about the loop of the de-duplications.  `UpTo` is induction
over an interval with a set in place of a predicate; with it, `Stores` shows that
the recursion of `Best` is well-founded, and `BestOfSequence` what it computes
for every list: of each app the first of its best items, or the one the store
had if none is better.  `Places` and `EachPlace` (a pigeon-hole argument) make
`ById` the sequence of a set by ID, so that `BestOfSet` and `Deduplicated` can
speak of sets.  The inductive invariant then says what has been collected at
each request: only candidates of the lists taken so far (`Collected`, which also
gives one release per app, without which the merge could drop the newer one);
for each steady object that has been listed a candidate that is no older
(`SteadyKept`, whose parts depend on the one source that `answered`); and in an undisturbed pass exactly the preferred ones
(`QuietSoFar`).  `BothLists` joins the Secrets and the ConfigMaps, `MergeIsExact`
the releases and the Applications.

`ReconcileLoopsProofs`, from `LoopsAssumption`, for any number of sources, apps,
changes and faults: `TypeCorrect`, `NothingMissed` (`Spec => NothingSteadyIsMissed`),
`NothingAdded` (`NothingInvented`), `ShownOnce` (`[]AppsPublishedOnce`) and
`FirstPassFirst` (`PublishAfterFirstPass`).  Three of them are action properties:
they speak of the step that ends a pass or publishes.  `Inv` supplies what must
hold before that step: `Listing`, how far the pass has come (of the sources
already listed nothing steady is missing, and nothing was found that was not
seen); `OncePerApp`, one source per app in the records, the snapshot, what is
built and what is published; `Unblocked`, why the pipeline is past its wait.

`CatalogBuilderProofs`, from `BuilderAssumption` and `ContentsAssumption`, for any
number of workers, any snapshot and any objects:

* `PoolIsALoop`: whatever the interleaving, a written slot holds the `Outcome` of
  its workload: what `buildSingle` makes of that workload's own object and of
  one answer to the query for it.
* `WritesOnce` (`Spec => WrittenOnce`) and `Complete` (`[]ReturnsAll`).
* `OwnRecords` (`[]RecordsAreTheirOwn`), `Repaired` (`[]OverridesRepair`),
  `ErrorsExact` (`[]ErrorsAreFailures`), from `PoolIsALoop` and the helpers of
  `buildSingle` (`BaseIs`, `FinalIs`); `TypeCorrect`.

`Inv` is `Handed` (the jobs below `next` are written or in the hands of one
worker, those above untouched), `AtWork` (a worker's record is that of its own
job, as far as it has come) and `Outcome` of the written slots.  The assumptions
say of texts only what the code decides: an override names a repository, the text
`unknown` is not a version, and the markers in `NoVersion`, which encode a failed
query, are no answers.

`ChartMetricsProofs`, from `MetricsAssumption`, for any number of apps and any
vectors watched: `TypeCorrect`, `LastBatchShown` (`[]GaugesShowLastBatch`),
`NeverBothShown` (`[]NeverBoth`), `ScrapesAreOfTheirTime` (`[]ScrapeIsOfItsTime`).  `Stage`
gives the contents of the four vectors at each point of `Publish`, the created
and not yet set series included; `OfOneBatch` draws from it that at every instant
all vectors show parts of one batch.  `Scrape` remembers of a scrape under way
the batches that were published since it began.

`OCIResolverProofs`, from `OCIAssumption`, for any list of tags, page size, page cap,
number of attempts, workers and pushes: `TypeCorrect`, `TwoAttempts`
(`[]RetriesAreEnough`) and `HighestAnswered` (`[]HighestUnlessCut`).  A fetch under
way has read the tags up to its position without a gap, so far as they stayed
(`Gapless`), and has retried at most once, with credentials (`Authorised`); an
entry and an answer are no lower than the best tag there all through, unless cut
(`Honest`).  That `steady` stays within `tags`, and within what was read when the
last page has no link, is what carries the step to `store`.

`ServerLifecycleProofs`, from `LifecycleAssumption`, for any settings and number of
requests: `TypeCorrect`, `CleanExits` (`[]CleanExit`), `ErrorsAreCaused`
(`[]ErrorsHaveACause`), `PanicsAreSet` (`[]PanicMeansPeriod`).  The properties speak of
the state after the exit; `Position` says what the main goroutine knows where it
stands before it: it polls because it was signalled, it sleeps because it saw a
request, and there are no loops before `Run`.

`VersionEngineProofs`: `LessThan` is asymmetric and transitive, a lag is at least
1, and `OutdatedIffPositiveLag`: for every word size and every two inputs, a
chart is outdated exactly when its lag is at least 1, and of two versions
exchanged at most one is outdated.  `StatusIsPrecedence`
(`[]StatusFollowsPrecedence`) and `LagIsMeasured` (`[]LagMeasuresOutdated`) are of the
machine, for every set of numbers that `NumbersAssumption` admits: below `Base`
the wrapped lag is the signed difference, or 1.

Every inductive invariant was run through TLC, on the instance of its module's
run, before it was proved.

Only model-checked are the liveness properties, `CallsReturn`, `FetchReturns`,
`BuildReturns`, `Converges`, `LoopsStop`, `SignalEnds` and `ListenerFailureEnds`: TLAPS
handles neither liveness under fairness nor `ENABLED`.  No module declares a
RECURSIVE operator, so that each can be proved about.

## 6. What is not modelled

* Rendering and parsing (YAML, JSON, gzip and base64 of release payloads, URLs,
  chart labels, Link and WWW-Authenticate headers, tokens), except for what they
  decide: a field is there or not, a body parses or not, a link has a target.
* `internal/registryauth` and the credentials of `internal/config`: pure parsing
  and a map lookup, which enter `OCIResolver` as `hostAuth` (a user name is there or not) and
  `RepositoryResolver` not at all.  Of `internal/config` only `getEnvDuration` is
  modelled; the other readers have its form and feed no state that a property
  is about.
* `internal/kube`: the construction of clients.
* Malformed workload IDs in `buildSingle`: discovery makes all of them.
* Logging, the duration gauge, the dashboards and manifests under `deploy/`.
* The rounding of a sum to float64, which changes lags above 2^53.

## 7. Plan

Every safety property that a run checks is a theorem.  What is left:

1. An abstract pipeline (one discovered snapshot published after the other) that
   `ReconcileLoops` implements.
2. An abstract `Build` that writes each slot in one step, which `CatalogBuilder`
   implements by `PoolIsALoop`.
3. For a disturbed pass of `Discovery`: each record was in the cluster at some
   time of the pass, and was active then unless the fallback brought it.
