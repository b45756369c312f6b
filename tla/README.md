# Verification of the ROMD DAT catalog publisher

TLA+ models of the catalog publisher: how source runs are admitted and
recorded, how requests keep a provider's pace, how a publication directory is
replaced, how a publication is distributed and restored, how a batch of
acquisitions is published, what the definitions of catalogs promise from one
release to the next, and how bundles are signed and read. TLC
checks the models on small instances; TLAPS proves the safety properties of every
component, and the refinements, for every value of the constants.

Paths are relative to the repository.

## The system

The publisher mirrors catalog documents (DATs) of two providers, Redump and
No-Intro, and serves them as a signed site. A job runs daily: it restores the
published state from the signed site, acquires documents, publishes them into a
local directory, pushes the documents to a git repository, signs an index of
them, deploys it and checks the deployment. Nothing on the job's machine lasts.

| Component | State it keeps | Operations | Talks to |
|---|---|---|---|
| Source scheduler (`internal/redump/scheduler.go`, `recovery.go`) | the schedule of a source: run in flight, last and next attempt, recovery record | `Initialize`, `Run`, `Inspect`, `Recover` | Redump adapter (callback per result), local file or checkpoint store |
| Checkpoint store (`internal/checkpoint/github.go`) | one file on a branch, with its blob SHA as version | `Load`, `CompareAndSwap` | GitHub contents API |
| Redump adapter (`internal/redump/adapter.go`) | gate, cooldown | `Acquire`, `fetch` | redump.info |
| No-Intro adapter (`internal/nointro`) | gate, time of the next request (pace or cooldown) | `Acquire` (3 attempts of 4 requests) | datomatic.no-intro.org |
| Publication engine (`internal/publisher`) | content-addressed objects, `current.json`, a lock file | `Publish`, `LoadSnapshot`, `Latest`, `RestoreLatest` | file system |
| Acquisition batch (`cmd/publisher`) | deadlines by provider, attempts of the batch | acquire, pause, publish | adapters, publication engine |
| Distribution (`internal/distribution`, `cmd/distribution`) | staged site, `.distribution-version` | `ExportData`, `StageGit`, `VerifyDownloads`, `RefreshIndex`, `RestorePublication`, `RestoreOrigin` | git data repository, Pages, go-tuf |
| Workflow (`.github/workflows/publish-synthetic.yml`) | none that lasts | the job described above | all of them |
| Definitions (`internal/definitions`) | the registry that a release carries, and `.definitions.json` in a restored directory | `LoadSource`, `Validate`, `Compatible` | publisher command, distribution |
| Legacy staging (`stage.go`), keys (`keys.go`) | roots directory, offline and online keys, signed bundles | `Stage`, `signIndex`, `RestoreState`, `Initialize` | publisher directory, go-tuf |
| Candidate reader (`candidate.go`, `client.go`) | TUF cache with a lock, candidate directory | `RefreshIndex`, `ReadCandidate`, `candidate`, `catalogs` | the site or a bundle |

What is hard about it: several runners share one schedule through a file or
through conditional requests whose outcome may be unknown; processes die between
a rename and the sync that makes it last; an operator recovers a run that may
still be alive; publications are rebuilt again and again from a view that keeps
one event per catalog; a job may stop between the push and the deployment;
readers see a deployment with a delay; deadlines that providers give have to
outlive the process that was told; acquisitions share a pace and give up
anywhere; a restoration is cut short between its files; definitions are compared
with the last release only; a directory is staged while it is written, at any
stage of a root rotation; readers share a cache. `PROJECT.json` lists these hazards at their
lines, with the properties that cover them.

What makes each component correct:

- *Scheduler*: runs at the source keep their distance, an interrupted run is
  never retried silently, discarded candidates are never used, deadlines are
  honoured, the state can always be read back.
- *Publication*: what `current.json` leads to is complete, publications follow
  each other, failures keep the last working document, events are stable.
- *Distribution*: every deployed site can be restored, versions advance, a
  deployment continues the one before it, success means it is served, the job
  does not wedge.
- *Acquisition*: deadlines are remembered, for the right provider only.
- *No-Intro adapter*: all callers together keep the pace and the provider's
  deadlines, report only those, and end with their time.
- *Definitions*: an ID never comes to stand for something else, a name that a
  reader was granted stays valid.
- *Bundles*: a bundle restores to what was signed, old clients can follow the
  roots, caches do not go back, candidates are whole.

## Modules

| Module | Models | Composed from |
|---|---|---|
| `SourceState` | `sourceState`, `decodeState`, the operations as relations between states | |
| `SourceSchedule` | abstract specification: atomic operations on one stored state | `SourceState` |
| `Scheduler` | invocations with locks, files, late PUTs, crashes and operators | `SourceState`, `INSTANCE SourceSchedule` |
| `SchedulerProofs` | theorems about `Scheduler` | `Scheduler` |
| `Publication` | the data of a publication, `NextSnapshot`, `Latest` | |
| `PublicationLog` | abstract specification: one atomic publication after the other | `Publication` |
| `Publisher` | processes that publish into one directory and die between writes; the round trip through `Latest` and `RestoreLatest` | `Publication`, `INSTANCE PublicationLog` |
| `Pipeline` | the job, the data repository, the site and its readers | `Publication` |
| `Acquisition` | batches over two providers and their publication | `Publication` |
| `ProviderPace` | abstract specification: what a provider sees of a well-behaved client | |
| `NoIntro` | callers that share one No-Intro adapter | `INSTANCE ProviderPace` |
| `Registry` | definitions of three schemas, `Validate`, `LoadSource`, `Compatible` | |
| `Definitions` | releases, restorations that are cut short, and what definitions and names promise over time | `Registry` |
| `Bundle` | staging, roots and keys, `RestoreState`, readers with a cache | |
| `PublicationProofs` | lemmas about the operators of `Publication` | `Publication` |
| `PublisherProofs`, `PipelineProofs`, `AcquisitionProofs` | theorems about the three modules that publish | the module, `PublicationProofs` |
| `NoIntroProofs`, `DefinitionsProofs`, `BundleProofs` | theorems about these modules | the module |
| `MC*` | model values, symmetry and chosen instances for TLC | one each |

Three detailed specifications are shown to implement an abstract one, each with
the identity on the variables they share: `Scheduler` implements
`SourceSchedule`, `Publisher` implements `PublicationLog` and `NoIntro`
implements `ProviderPace`. `ImplementsLog` justifies that `Pipeline`,
`Acquisition` and `Definitions` take one publication as one step.

### Source schedule

`store` is the content of `state.json` or of the checkpoint file. `disk` is the
set of contents that a loss of power may leave: after a synced rename one, after
a rename without its sync two. `mem`, `ver` and `link` are the local variables
of an invocation: the state, the version it writes against, and the PUT under
way. Each call is one element of `Procs`. `Admit` and `Recover` contain all
checks of `Run` and `Recover` up to their first commit, which is then taken by
`SaveLocal`/`SaveLocalLate` or `ApplyPut`/`RefusePut`/`Receipt`; `Continue` says
what the call does after a commit that reported success. `Fail` is any error or
death; a PUT that was sent stays under way.

Assumptions: the entry of the state directory itself is durable; a GET returns
the content of its instant (an older content is a GET taken earlier); a rename is
atomic. Clocks are not assumed to agree or to advance. `Remote` says which custody
is used. The operator's confirmations, which the code cannot check, may be true
or not: `untrue` collects those that were not so, of the run that the operator
reviewed, at some recovery, and `OneAcquirer` and `RetryAfterHonoured` are stated
for behaviours in which the confirmations they depend on were never untrue. They
would fail if a recovery were applied to another run than the reviewed one.
`untrue`, `attempt`, `learned`, `completed` and `discarded` are history: `completed`
and `discarded` are the runs whose completion, or whose recovery, is in the store; a
completion that was renamed into place and undone by a loss of power is not. An
invocation that fails or dies before the rename of its completion has settled
nothing (`NoSilentRetry`). The recovery counter of the model does not wrap: that it
cannot is `TypeOK`.

### Publication

A hash is its content, so objects are sets of documents, feeds and snapshots. An
attempt either brings a document or fails, with or without a deadline. Events of
one publication are ordered by an arbitrary fixed order of the catalog IDs.
`changed` stands for `LastChanged`, `Counts` and `Provenance`, which the code
sets together; error codes and the bytes of the feed are left out. `Begin` reads
everything under the lock; then documents, feed, snapshot and `current.json` are
written one by one, and a process may die before each. A loss of power is not
modelled for publications: the repository excludes it, and `atomicWrite` does
not sync its directory.

### Pipeline

`sites` are the deployed indexes, `served` the one readers see, `data` the trees
of the data repository's main branch. `step` is the step of the workflow, and
`state`, `prior`, `base`, `commit`, `index` what the steps hand on. One job runs
at a time (`concurrency`, without cancellation). A job stops anywhere (`Fail`),
others push (`OtherPush`, which removes a document), readers see a deployment
later (`Propagate`, monotone), and after an outage all deployed timestamps have
expired (`Expire`). `Prompt` says that a deployment is served before the next job
starts. A bootstrap is requested only before the first deployment. Signatures,
the migration from an older site and the binding to definitions are left out.

### Acquisition

A process loads `prior` without the lock, computes a deadline per provider from
all published catalogs, and handles the selected catalogs in any order (the
operator's order). `Hold` is a provider in its cooldown, `Acquired`, `Refused`
and `Throttled` are the outcomes of an adapter, `Stall` is the error a No-Intro
acquisition returns when its two minutes end in a backoff, `Die` the death of
the process. `Publish` publishes the batch. `heard`, `told` and `dropped` are
history: what a running batch was told, what published batches were told, and
what batches that a stall gave up were told (a batch that dies is not counted,
since nothing could be recorded). One machine has one clock, which does
not go back; the registry is fixed.

### No-Intro adapter

A caller is a goroutine in `Acquire`: at the gate, waiting for the pace, with a
request under way, or backing off between two attempts. `next` is `Adapter.next`,
which holds both the pace and the provider's cooldown. The clock ticks whenever
it likes, so that timers fire late and answers take any time; `Step` is what a
caller does by itself. `Conclude` is the end of an attempt with the deferred
release of the gate and the decision about another one. Which page the provider
answers with is a choice among the outcomes of the code. The arithmetic of
`Retry-After` (`RetryAt`) is translated with its ceiling and its parser's width,
scaled down. When the pace and the caller's time end at the same moment, either
`Send` or `CancelWait` may follow, as in a `select` with two cases that are ready.
`last`, `ask` and `given` are history: the last request, the latest
time the provider asked for, and the deadline that a throttled request set.

### Definitions

`Registry` has the operators of `internal/definitions`; labels, aliases and limits
are tokens of small sets. `site` is the index of the last release, `dir` the
publisher directory with `.definitions.json` (`defs`) and
`.distribution-version`; its `step` says how far the restoration came. `Release`
is `StageGit` with its deployment; the schemas 1 and 2, which no command writes
any more, are released as earlier tooling did. `claims` and `told` are history:
everything released about catalogs and systems, and every ID and name that a
reader was ever granted. A release is `careless` when its directory was cut short
by the death of the restoration or was released from before; the code cannot tell,
and only `BindingsKept` holds for it.

### Bundles

A generation of keys is the number of the root that introduced it. `stage` is a
`Stage` with what it has read: the snapshot at `Load`, `current.json` for the list
of objects at `List`, and again for the archive at `Sign`, while `Publish` may
replace it. `Rotate`, `AddRoot` and `ReplaceKeys` are the operator's steps; a
rotation is finished before the next one, and a root is added while no bundle is
being staged, as the documented procedure asks. The updater of go-tuf is external:
it walks the chain of roots from the reader's own (`Chained`), wants the keys of
the newest root, refuses what has expired (`Current`) and a version below the
cached one (`Older`). Time passes by `ExpireRoot`, a year without a rotation, and
`ExpireTimestamp`, 48 hours after a bundle was staged: of the three expiries that
`signIndex` writes (48 hours, 7 days and 30 days from the same moment) the
timestamp's is the earliest, so it decides. `Restore` is the restore command, which
goes through the same refresh and restores nothing that a reader would refuse;
its own cache is taken to be empty. `cache` is the readers' metadata directory,
`out` the candidate directory, whose files are 0 also when a death cut them short.

## Runs

All runs but `Definitions` stop at their bounds (invocations end, publications, deployments and
clocks are bounded), so deadlock is not an error in them.

| Run | Checks | Bounds, and why they are enough |
|---|---|---|
| `SchedulerLocal` | `TypeOK`, `StoreReadable`, `AdmissionSpacing`, `NoSilentRetry` | three invocations on one directory: a run, its recovery and a next run, or two that compete with a third; clocks up to 5 with `Poll` 2 leave room for two admissions and a recovery; the recovery counter ends at 1; the initial states include a version 1 state left in flight |
| `SchedulerRemote` | `DiscardedNeverReturned`, `OneAcquirer`, `RetryAfterHonoured`, `StoreProgress`, `ImplementsSchedule` | two lock directories, three invocations, truthful and untruthful operators, every late, lost and refused PUT |
| `Publisher` | `TypeOK`, `CurrentComplete`, `EventsMatch`, `EveryDocumentAnnounced`, `ImplementsLog`, `DocumentsRetained`, `EventsStable` | two processes, two catalogs that change to and fro between two documents, three publications with a death between any two writes and a round trip after any; at most `PerCycle` = 2 publications between two restorations, as in the workflow, and a feed of 4 events, which is cut off |
| `Pipeline` | `TypeOK`, `SiteRestorable`, `VersionsAdvance`, `SiteContinues`, `SuccessIsServed`, `KeepsDeploying` | three deployments, four commits, one job that fails at any step besides those whose push or check fails, outages |
| `Acquisition` | `TypeOK`, `DeadlineOwned`, `CooldownRemembered`, `ProviderCooldown` | two No-Intro catalogs and a Redump catalog, so that a deadline meets another catalog of its provider and one of the other; two publications, one batch at a time, any number of batches that die or stall |
| `NoIntro` | `TypeOK`, `ImplementsPace`, `BackoffTold`, `EndsAtDeadline` | two callers; a limit of 4 gaps is too short for the four requests of an attempt with a retry and long enough for one of them, so that callers run out of time at every point; `Retry-After` is garbage, a date that is future or past, and seconds below and above the ceiling and the parser's width |
| `Definitions` | `TypeOK`, `BindingsKept`, `IdentitiesKept`, `UpstreamsOwned`, `VersionsForward` | two providers, two systems, every assignment of identifiers and names to them, all three schemas with references that clash or not; three releases, so that what the first one says is not what the third is compared with |
| `Bundle` | `TypeOK`, `RestoresWhatWasSigned`, `OldRootsFollow`, `CandidateWhole`, `CacheForward` | two rotations, a publication that may come between any two reads, two bundles of the same or of different versions that expire one after the other or together with their root, and two readers: what a cache and a candidate directory tell apart are an older and a newer bundle |
| `PipelineLarge`, `PipelineStale`, `AcquisitionSlow`, `AcquisitionPair` | one property each, violated | see Findings |

`EveryDocumentAnnounced` depends on the feed limit: the event of a catalog is
lost when the others publish enough after it. With P publications after each
restoration and n catalogs, (n - 1)(P + 1) + 1 events are enough: 4 in the run,
and at most 97 of the code's 100 (32 selected catalogs and the synthetic one, two
publications). With one event less, TLC finds a document that is not announced.

Every property is accompanied by a mutant, an operator next to the definition it
changes, that a plausible bug would amount to and that violates the property.

Fairness is used by two properties. `KeepsDeploying`: weak fairness of the job's
next step (the workflow is started daily, its steps run, and a timeout ends a job
that hangs) and of `Propagate` (a deployment is eventually served). Nothing is
assumed of failures and competing pushes, which are bounded. It is stated for
behaviours without an outage: the documentation says that an expired site needs
an operator, and the job does stop there. `EndsAtDeadline`: weak fairness of each
caller's own steps, that is, its goroutine is scheduled, its context ends with
its time and its request with its context. Neither the clock nor the provider is
assumed to do anything, nor the other callers to release the gate.

## Proofs

Every safety property that a run checks is a theorem, for any invocations,
processes, callers and readers, any catalogs, providers and registries, any
bounds, and so are the three refinements. The assumptions are those that the
modules declare with their constants (the limits are positive, the catalogs are
finite, the null values are none of the data, and so on; for `NoIntro`, that the
latest moment plus an acquisition's limit and the pace is below the ceiling of
the calendar), and the hypotheses that a theorem states:

| Theorem | Hypothesis | Why it is needed, and why it is one the code meets |
|---|---|---|
| `DiscardedNotReturned` | `Remote` | A local recovery that was not synced can be undone by a loss of power, and a later run may then be admitted at the time that identified the run it discarded, so that `discarded`, which goes by times, does not tell the two apart. Checked for remote custody, as proved. |
| `EveryDocumentTold`, `EventsKept` | `FeedHoldsCycle` | The feed holds `Cardinality(Catalogs) + PerCycle * (Cardinality(Catalogs) - 1)` events, which is 97 of the code's 100 and exactly the limit of the run. With one event less TLC refutes the property. |
| `AlwaysRestorable` | `BigDocs = {}` | No document is over the input limit after extraction; finding 1 is what happens otherwise. |
| `VersionsRise`, `DeploymentsContinue`, `SuccessServed` of `Pipeline` | `Prompt` | A deployment is served before the next job begins; finding 2 is what happens to the versions otherwise, and TLC refutes the success too. |
| `DeadlinesRemembered`, `ProvidersRespected` | `[]OneAtATime` | Batches follow each other; finding 4 is what happens otherwise. |

No property is inductive by itself. The invariants that are, and why:

- `SchedulerProofs`, the store (`IInv`): (1) every content that the store has or
  may fall back to is readable; (2) under local custody the lock has one owner,
  the only invocation that is active, and what it holds in memory is what it
  wrote last; (3) under remote custody a write that is under way is an operation
  on the content it was computed from, so that applying it when that content is
  still stored is atomic, and a content never comes back; (4) the stored schedule
  is at or beyond every admission it took (`Taken`), which includes those whose
  receipt is still to be read. `AdmissionsSpaced`, `AlwaysReadable`, `Progress` and
  `Implementation` follow, action by action.
- `SchedulerProofs`, the runs (`RunsInv`): `ClaimInv` says that a run
  whose completion is not in the store and which no recovery resolved is in flight
  in every content the store may have, now or after a loss of power;
  `NothingRetriedSilently` follows. `DiscardInv`: of a completion and
  a recovery, both computed from the content in which the run is in flight, the
  remote store takes one. `StopInv` carries what the operator confirmed from the
  beginning of a recovery to the moment its write is applied, however late, and
  gives `AcquirersAlone`. `WindowInv` does the same for deadlines: a run that was told
  one is settled only by its own completion, which stores it, or by a recovery
  whose operator knew it, so that every later admission is past it
  (`DeadlinesHonoured`). The proof first abstracts the actions to the kinds of
  step that matter to a run (`RunSteps`: an invocation begins to write, works,
  what it wrote is stored, the machine loses power, or nothing happens to the
  runs), and each of the invariants goes over these.
- `PublicationProofs`: what the loop of `Latest` keeps (`KeptTo`: of each catalog
  the first event that announces its document, once, and no other event), that
  the fresh events list the changed catalogs, that the newest event of a catalog
  is its last change after a publication and after `Latest` (`Matched`), and how far
  down the feed it can be (`Placed`). A loop over the feed is a recursive
  function; induction theorems with an operator parameter are not usable here,
  so its lemmas go by the least prefix for which they would fail (`Smallest`, from
  the well-foundedness of `<`), and the bound on what `Latest` keeps by the
  cardinality of the catalogs.
- `PublisherProofs` (`IInv`): the process that is not idle has the lock; its next
  snapshot was made from the current one; the feed that the snapshot refers to is
  written before it; `current` is complete and `Matched`. `PlaceInv` adds that
  every document's newest event is within the depth that the publications since
  the last restoration can have reached.
- `PipelineProofs` (`IInv`, `ServeInv`, `ContInv`): the commit of an index holds its
  documents from the moment it is pushed, whatever is pushed later; the job works
  on the newest deployment, has its version and continues its publication, and
  deploys at most one index.
- `AcquisitionProofs` (`IInv`, `BatchInv`): what a batch holds, collects and inherits
  was given by the provider; and when batches follow each other, a batch works
  with the published snapshot, its deadlines are no earlier than that snapshot's,
  and what it was told last is one of its attempts.
- `NoIntroProofs` (`IInv`): the gate has one holder; whatever the provider asked for
  lies behind a request that is under way; `next` is more than a gap ahead only
  because of a cooldown.
- `DefinitionsProofs` (`IInv`): a directory has the names of the last release, and
  from the end of its restoration on its definitions and version, so that the
  comparison with the last release is made with the right thing, and each
  comparison keeps the claims of all releases before.
- `BundleProofs` (`IInv`): `stage` reads in the order of the publications; the trusted
  roots are a chain without a gap at every moment of a rotation, and the online
  keys are those of its last or next root; bundles that have expired were staged
  (`StaleInv`); one reader has the lock of the cache, and the candidate directory is
  as far as it is.

Model-checked only: the liveness properties `KeepsDeploying` of `Pipeline` and
`EndsAtDeadline` of `NoIntro`, since fairness and `ENABLED` are out of the prover's
reach, and that the operators on definitions compute what the source does, which
is a matter of translation. The violated properties have no theorem.

## Findings

1. `PipelineLarge`: a document longer than 16 MiB that arrives in an archive is
   published and deployed but refused by `RestoreLatest`
   (`internal/publisher/document.go:51`, `latest.go:52`). The check of its own
   deployment and every later job fail.
2. `PipelineStale`: the restoration of a job remembers no version, so that a job
   that is still served the deployment before the last deploys the last version
   again (`publish-synthetic.yml:171-178`), against `docs/deployment.md:195-199`.
3. `AcquisitionSlow`: a No-Intro acquisition that runs out of time returns an
   error, which gives up the batch with the deadlines that were learned
   (`internal/nointro/adapter.go:109`, `cmd/publisher/main.go:161-163`), against
   the comment at `cmd/publisher/main.go:109-110`.
4. `AcquisitionPair`: deadlines are read without the lock and published at the
   end of the batch, over what another batch published meanwhile
   (`cmd/publisher/main.go:102,201`), against the same comment.

## Not modelled, and the plan

The modules of the plan are written. Left out of them, and why:

- the HTML forms of No-Intro, the XML and zip parsing of documents, the syntax of
  the definitions' JSON and the patterns of identifiers: pure functions of bytes
  without state, whose failures are possible outcomes in the models;
- cryptography, key files and the updater of go-tuf: external, modelled by what
  the code in `src/` relies on;
- the single migration from an older site, the manifest mode of the publisher
  command and the flags of the commands: straight-line code around operations
  that are modelled;
- the requests of the Redump adapter one by one: it makes one request per catalog,
  and its `retryAt` is the one of the No-Intro adapter;
- a loss of power during a publication (`publisher.go:102`), which the repository
  excludes, and the empty state directory after a crash of `Initialize`
  (`scheduler.go:62`), which fails closed.

Proofs to come: `DiscardedNotReturned` under local custody, where it holds for the
runs that went to the source and needs a history that tells admissions apart by
more than their time; the absence of starvation as far as it is a safety property
(a lock that is held has an owner that can go on); and the lemmas about `Compatible`
and `Validate` stated for registries by themselves, apart from the releases that
use them.
