# A TLA+ model of Damga's control plane and operator

Damga is a small platform on Kubernetes. Its control plane serves a panel and an
HTTP API, keeps an *evidence record* of every deploy and a *placement* for every app
environment in SQL, and deploys by committing manifests to a git repository that
Argo CD applies. Its operator turns `Workload`, `Database` and `Build` objects into
Kubernetes objects. What a user of the platform has to believe is the evidence: what
was deployed, by whom, and what became of it. Around it the project models everything
that writes to the state repository, the operator that renders what is committed, the
builds that make the images, and the identity store that says who may ask.

Paths below are relative to `src/`.

- [Inventory](#inventory)
- [Modules and how they correspond to the code](#modules-and-how-they-correspond-to-the-code)
- [Runs](#runs)
- [Proofs](#proofs)
- [Where the code departs from what it says](#where-the-code-departs-from-what-it-says)
- [What is not modelled](#what-is-not-modelled)
- [Plan](#plan)

## Inventory

### Parts, state and operations

| Part | State it keeps | Operations |
|---|---|---|
| Evidence store (`evidence/`, `evidence/internal/sqlstore`) | table `record`, table `record_event`, two hash chains | Append, Transition, Prune; Get, Current, History, FindBySource, Refs, Verify |
| Git writer (`internal/gitwrite`, `server/deploy.go`, `server/lifecycle.go`) | none of its own: the state repository's branch | Deploy: open the record, clone, render, push, record the SHA |
| Deploy observer (`internal/deploywatch/deploywatch.go`) | the leader's work queue | Reconcile: Deployment → record |
| Sweep (`internal/deploywatch/sweep.go`) | none | Once: open records older than `After` → unknown |
| Manager (`server/manager.go`) | the lease | leader election, start and stop of the above |
| Placement store (`placement/`, `placement/internal/sqlstore`) | tables `placement`, `repo_owner`, `namespace_owner`, triggers | Put, Delete, SetTrigger; Get, List, RepoOwner, TriggersFor |
| App registration and delivery (`server/apps.go`, `server/delivery.go`) | Argo CD Applications and repository Secrets | createApp, deleteApp, Deliver |
| Catalogue (`server/catalog.go`, `catalog/`, `compose/`) | none | install: convert, plan, place, commit, deliver |
| Databases of an app (`server/databases.go`) | manifests in the app's directory | create, delete |
| Settings and secret values (`server/settings.go`, `server/secretwrite.go`) | one Secret per app | plan, write values, commit, remove values |
| Identity (`identity/`, `auth/`, `server/login.go`, `server/bootstrap.go`) | accounts, credentials, memberships, sessions, the bootstrap claim | Bootstrap, login, logout, SetCredential, RehashCredential, administration |
| Authorization (`server/api.go`, `authz/`) | none | session, account, membership, tenant, role → answer |
| Operator (`internal/controller/`, `cmd/operator`) | Kubernetes objects and their status | reconcile Workload and Database; backup and rehearsal |
| Builds and hooks (`server/builds.go`, `server/hooks.go`, `internal/controller/build_*.go`) | Build objects, Jobs, images | start a build by hand or by a signed push, run it, record it, collect it |
| Notifications (`notify/`) | none | decorates Transition: announce what failed |
| Migrations (`internal/sqlmigrate`) | table of applied versions | Apply at start |
| Streams, registry client, CLI, panel | caches and channels | request and answer |

### How they interact

- A **request** (any replica) appends a record in `pending`, then clones, renders and
  pushes, then moves the record to `syncing` or `failed`. It shares nothing with other
  requests but the record table and the branch. An app's directory on that branch is
  written by deploys, rollbacks, scales, saves, installs and database requests alike.
- **Argo CD and the operator** turn a commit into a Deployment that carries the
  record's ID as its rollout annotation. The operator's two reconcilers share one
  cache and one namespace with the deployment controller, the autoscaler,
  cert-manager and whoever else may write there.
- The **observer**, on the leader, reads the Deployment, derives a state, reads the
  record, and writes a transition fenced on the version it read.
- The **sweep**, on the leader, lists records still open after `After` and writes
  `unknown`, with the same fence.
- **createApp** commits a placement, then applies an Application from the row it
  wrote; **deleteApp** deletes placements one transaction at a time. The placement
  tells the git writer where to commit.
- A **push** reaches the control plane as a signed delivery and becomes one Build per
  trigger; the operator runs a Job per Build, reads its pods' last words, and collects
  finished Builds.
- Every **route** first asks the identity store for the session, the account, the
  membership and the tenant, one after the other.

### What is hard

Statements of two transactions that interleave on postgres and do not on sqlite; a
writer that dies between any two of its steps; a push whose answer is lost; a record
that observer, sweep and writer move at once, one of them from a replica that has just
lost the lease; a Deployment whose status describes the generation before; a give-up
that races a late answer; a claim released under the create that relied on it; a
commit order that is not the delivery order; a directory several kinds of request
rewrite from clones that go stale; a cache that lags behind what the same process has
just written; an object of the same name that is somebody else's; a resource deleted
and made again while the collector still works; a verdict read from a pod that is not
in the cache yet; a quota counted in one place and freed in another; a password change
between a login's reads and its writes. `PROJECT.json` lists each of these as a hazard
at its line, with the properties that would catch it going wrong.

### What makes each part correct

- *Evidence store*: the event log is the history and the state column its end; the
  chains verify; a retry leaves one row and gets it back; numbers have no gap; a write
  fenced on a version extends exactly the log its caller read; what was acknowledged
  stays; a prune never takes the current record.
- *Pipeline*: no commit without a record and no lost update; an answer is about its own
  rollout and stands; every open record is answered or given up on; a rollout that
  stays complete is recorded; one that is refused is recorded as refused.
- *Placement*: one owner per repository and namespace for as long as something is
  placed there, and not longer; two placements never land in one place; the
  Application tracks the directory the deploys go to.
- *Directory*: a commit changes what its request is about; an installed entry arrives
  whole, its parts find each other and stay joined, and no shared password is minted
  twice; a failed install can be asked again.
- *Settings*: no save drops another's variables; a name in git has its value.
- *Operator*: whatever was changed, repeated passes converge, come to rest, never take
  over somebody else's object, never mint a value twice and never start a pod before
  what it mounts; a reported restore restored; a database's password opens its data.
- *Builds*: a success pushed an image; an accepted push started every build it names;
  retention takes only what is finished and superseded; every build ends.
- *Identity*: one owner per install; a changed password ends the sessions opened with
  the old one and stays changed; nobody is admitted without a membership.

## Modules and how they correspond to the code

| Module | Models | Extends |
|---|---|---|
| `EvidenceRecords` | `evidence/evidence.go`, `evidence/chain.go`: the record, its log, both chains, the acceptance rule, Verify's walk. Definitions only | |
| `EvidenceStore` | `evidence/internal/sqlstore/store.go`, statement by statement, on both engines | `EvidenceRecords` |
| `DeployPipeline` | `internal/gitwrite`, `internal/deploywatch`, the handlers around them, the cluster they look at | `EvidenceRecords` |
| `DeployLedger` | the abstract specification of the deploy history: which states a deploy moves between | |
| `PlacementStore` | `placement/internal/sqlstore/store.go` under `server/apps.go` and `server/delivery.go`, both engines | |
| `SettingsWrite` | `server/settings.go`, `server/secretwrite.go`: a save, its plan, the Secret it writes, the form it comes from | |
| `ComposeCatalog` | `compose/convert.go`, `catalog/plan.go` and the refusals of `server/catalog.go`: what a template becomes. Definitions only | |
| `AppDirectory` | the app's directory under every request that writes to it: `server/catalog.go`, `deploy.go`, `lifecycle.go`, `settings.go`, `databases.go` through `internal/gitwrite` and `internal/manifest` | `ComposeCatalog` |
| `ClusterObjects` | the API server, the manager's cache and queue, `apply` and `deleteIfPresent` with their ownership check | |
| `WorkloadController` | `internal/controller/workload_controller.go`, `resources.go`, and the other writers of what a Workload renders | `ClusterObjects` |
| `DatabaseController` | `internal/controller/database_*.go`: the pass, the server, the backups, the rehearsal | `ClusterObjects` |
| `Operator` | `cmd/operator/main.go`: both reconcilers over one namespace, restarts; the properties | both controllers |
| `Builds` | `server/builds.go`, `server/hooks.go`, `internal/controller/build_controller.go`, `build_job.go`, `build_gc.go` | |
| `IdentityStore` | `identity/internal/sqlstore` under `server/login.go`, `auth/`, `server/api.go`, `server/bootstrap.go`, both engines | |
| `IdentityMemory` | the abstract specification of an identity store: `identity/memory/memory.go`, one call at a time | |
| `…Proofs` | the theorems about `EvidenceStore`, `DeployPipeline`, `PlacementStore`, `SettingsWrite`, `AppDirectory`, `Operator`, `Builds` and `IdentityStore` | the module of the same name |
| `MC*` | small instances for TLC | the module of the same name |

### Evidence store

`records` is the table with its event rows. `pc[c]` is the statement a caller is about
to run and `tx[c]` what its call has read; `view[c]` is the last record the store gave
it, which is what it fences its next transition on. One action is one SQL statement
(the last one with its COMMIT), so every interleaving the engine allows is a behaviour:

- *sqlite*: one writer connection with `_txlock=immediate`, so `MayBegin` admits one
  transaction at a time. Reads go through the reader pool and interleave.
- *postgres*: READ COMMITTED. `Locked` is the row lock of `SELECT … FOR UPDATE`;
  `Insertable` is the three unique constraints of the schema.

`Cancel` is a context that ends inside a transaction; an append may commit and its
answer be lost. Prune is, in the order of the code, the list of Refs, the two
statements of `Current` for each, and the transaction that lists the expired rows and
deletes them, which is one step: nothing it decides on can change inside it.
Nothing in the repository calls `Prune`: it is an operation of the interface that
`evidence.go` documents, and the runs check what is promised of it there.

A digest is the sequence of payloads hashed into it, which is what an injective hash
amounts to: equal digests, equal inputs. A name is the sequence of its dash-separated
parts, so the join that makes a record ID is concatenation, ambiguity included.

### Pipeline

One app in one environment. `wpc[w]` is where a request is in `Writer.Deploy`; `branch`
the commits; `depl` the Deployment with its annotation, generation, observed generation
and status; `job[n]` and `sweeping[n]` what a replica has read and is about to write.
Each store call is one step: this is what `EvidenceStore` and its theorems show of a
transition (`LockedRowIsFresh`, `EventLogIsHistory`). Argo CD, the operator's render and
the deployment controller are external to the two packages and are modelled from how
`deploywatch` uses them: `Apply` may skip commits, a new generation is observed later,
its pods come, are refused, miss the deadline, restart. `truth` is a history variable
recording what the cluster really was per rollout; no action reads it.

Reconcile is split at its read and its write because the store call between them is
where another actor gets in. A leader that loses the lease is not drained
(`Handover` leaves its `job` in place), and a replica that does not lead may die with
what it had (`NodeGone`).

`DeployLedger` states what a reader of the history page relies on: deploys numbered
without a gap, each opened pending, each moved only along ten or so edges, answers
final. `LedgerSpec` is the refinement `DeployPipeline ⇒ DeployLedger` under the mapping
of each record to its state.

### Placement

`rows`, `owners` and `apps` are what is committed; `tx[c]` what an open transaction has
written. A statement sees what is committed plus its own writes, waits for an open
transaction that wrote the same row or unique value, and an `ON CONFLICT DO NOTHING`
that finds the value taken locks nothing. The engine is chosen in `Init`. The advisory
Get of createApp, the Put, and Deliver are separate steps of one request.

### Settings

`branch` is the committed manifests, `secret` the data of the app's Secret, `plan[c]`
what a save decided from the manifest it read. One save is Read, Patch, Create (when the
patch found nothing), Clone, Push, Remove, in the order of `updateSettingsRoute`; it can
end after any of them. The git writer's steps are those of `DeployPipeline`, which shows
that every commit builds on the last, so a deploy by somebody else is one step here. A
form's variables carry the four fields the plan looks at; keys that are not usable names
and keys listed twice are refused before anything is written and are left out, the other
refusals are in `Plannable` and the instance has a form for each. `ToWireSettings` is the
conversion the page is drawn from, modelled by what it keeps and what it drops.

### Directory and catalogue

`branch` is the commits with the files of the app's directory, a file being its kind and
its object's name; `recs` is what a rollback reads of the evidence; `pc`, `base` and
`out` are one request's way through `Writer.Deploy`. The renders are operators, one per
handler: what it makes of the directory it cloned, with `carryForward`, the fence files,
the identity that is stamped again (annotations stay, labels do not) and the removals
that `gitwrite` does only where a render asks for them and only of manifests this
platform owns. An install is `Install` (plan, refusals, the look for an app),
`Put` (the placement), then the writer's steps, then `Deliver`.

`ComposeCatalog` keeps the decisions and drops the texts: an image is whether it is a
database's and whether its reference is pinned; a value is the generated values it
names, whether text surrounds them, whether it asks for the public URL, and the host it
addresses. What a template becomes is a function on the places of its services, which are in
the order of their names: every place is a Workload or a Database. `objectName` cuts names, and `primaryService` finds a port inside other
digits, as the code does.

### Operator

`objs` holds an object as its controller reference, what the operator rendered
(`mine`) and the marks other writers left on it (`others`); `want.takes` is the marks a
render takes over because the code assigns the whole field. `seen` is the cache of the
kinds in `Lagging`; a read and the write that follows are one step, because whatever
comes between the two is a cache that lags, and the server refuses a write over a
version that is not the one read. `work` and `job` are the passes under way, one worker
per reconciler. Each step of a pass is one object: the claims, the generated values, the
owned objects in the order of `reconcileOwned`, the status, which is also where an error
jumps to. `queue` is filled by the watches (`Owns`), by a status that could not be
written, and by the requeue after 30 seconds while a certificate is not issued.

`disk` is the password a data directory was made with, `ran` the backup runs and
whether each restored, `pods` the ones still there to read. Deleting a resource leaves
what its controller reference owns to `Collect`; the claims and generated values have no
owner.

### Builds

`builds` is every Build ever created, with `alive`; `jobs[i]` its Job: which container
runs, and the termination messages. `seen[i]` is what the operator's pod cache holds of
those messages. `Observe` writes the verdict, once; `CollectBuilds` is the sweep in the
same pass, which may fail after any delete. `hook` is the delivery being handled, one
`HookCreates` per trigger. A digest is the number of the build that pushed it, so a
build naming another's image would be seen.

### Identity

The committed rows are variables; `boots`, `logins`, `requests` and `changes` are calls
under way. What one statement does is one step; a transaction that others can wait for
(`BootClaim` to `BootCommit`, `ChangeBegin` to `ChangeCommit`) is two, with the waiting
of postgres written out: a second change of one account waits at its DELETE and fails at
its INSERT, a rehash waits at its UPDATE and finds the row gone. The bootstrap command is
another process. `chosen` is a history variable: the password an account was last given.

`IdentityMemory` is the memory store, in which every call is atomic under one mutex.
`ImplementsMemory` says that on sqlite every step of the SQL store is one of its calls
or none, with its two indexes computed from the rows. It is stated for sqlite because on
postgres the loser of two changes is answered with an error the memory store never
gives; the invariants are checked on both.

## Runs

`tlc -config <cfg> <module>`, two workers; the longest takes about three minutes.

| Run | Module, cfg | Result | What it shows |
|---|---|---|---|
| `store_races` | MCEvidenceStore, StoreRaces | pass | two callers append, read and transition on postgres with cancelled transactions and lost answers: log, numbers, both chains, acknowledged rows and the fence hold |
| `store_prune` | MCEvidenceStore, StorePrune | pass | retention on, sqlite, observer transitions and prunes interleave: retries are answered by the stored record, no append is refused |
| `pipeline_requests` | MCDeployPipeline, PipelineRequests | pass | two concurrent requests, one a deploy and the other a deploy or a scale: no commit without its record, no lost update, no commit out of nothing, no answer credited to the wrong deploy |
| `pipeline_answers` | MCDeployPipeline, PipelineAnswers | pass | one deploy, two replicas, a handover, every trouble, lossy push: the ledger is refined, so answers stand; open records are answered; a rollout that stays complete is recorded |
| `placement_claims` | MCPlacementStore, PlacementClaims | pass | two clients create, replace and delete placements of two tenants, cut off anywhere: one landing site on both engines, exact claims on sqlite |
| `settings_saves` | MCSettingsWrite, SettingsSaves | pass | one or two saves at a time, deploys between any of their steps, failures anywhere: settings and image do not undo each other, committed resources fit and a form saves back as drawn, and with one save at a time git names no secret without a value |
| `directory_writes` | MCAppDirectory, DirectoryWrites | pass | three requests on one directory, an install among them or not: a commit changes its own part only, an entry arrives whole with its addresses, no shared value is minted twice |
| `operator_workload` | MCOperator, OperatorWorkload | pass | one Workload, two lagging caches, one disturbance: what a pod mounts exists, values are minted once, the cluster converges and comes to rest |
| `operator_both` | MCOperator, OperatorBoth | pass | a Workload and a Database of one name, an administrator's Service in the way, backups with and without a restore: nobody else's object is rewritten, the restore reported is one that restored, both converge |
| `build_records` | MCBuilds, BuildRecords | pass | deliveries once, twice and half, builds by hand, quotas, deaths, a lagging cache, sweeps that fail: successes pushed, accepted deliveries built everything, what is collected was superseded |
| `build_quota` | MCBuilds, BuildQuota | violation of `EveryBuildEnds` | finding 1 |
| `identity_calls` | MCIdentityStore, IdentityCalls | pass | two bootstraps, a login, a request, two password changes, two administrative calls, a crash, on both engines: one whole owner, old sessions end, roles are held, and the memory store is implemented |

Where the code departs from a property, the configuration that shows it is kept beside
the runs: `StoreObserverChain`, `StorePruneCurrent`, `PipelineRefused`,
`PlacementRelease`, `PlacementDelivery`, `SettingsFirstSecret`, `DirectoryJoined`,
`DirectoryRetry`, `DirectoryFrontDoor`, `OperatorPassword` and `IdentityRehash`. Each checks one property and
ends with a counterexample; they are described under
[Where the code departs from what it says](#where-the-code-departs-from-what-it-says).

The type invariants of `DeployPipeline`, `PlacementStore` and `SettingsWrite` are not in
a run: they are proved (`TypeCorrect`).

### Bounds, and why they are enough

- *Callers*: two, or three requests on a directory. Every conflict in this code is
  between two parties: a lock is held by one and wanted by another, a fence compares one
  reader with one writer, a clone is overtaken by one push. Symmetric where no liveness
  is checked.
- *Store*: one Ref, one or two idempotency keys (a retry is the same key again, and two
  keys make a chain of two records), `MaxVersion` 1 or 2 (a first and a following event,
  which is the two cases of the sub-chain), a clock of 1, or 3 where rows expire with
  `Window = 1`. One Ref also keeps out the ID collision described below.
- *Pipeline*: one or two requests (one manifest to lose an update of), one or two
  replicas with one handover, `After = 0` and a clock of 1: a record is opened at 0 and
  old at 1, which is all the sweep distinguishes. `Open` is bounded so that every record
  has the time to become old. The runs differ in which of requests, replicas and
  troubles they multiply: their product is out of reach.
- *Placement*: two tenants, two repositories, four requests worth asking
  (`Contended`): a move between repositories, a second environment that would land in
  the first's directory, and another tenant after the same repository and namespace.
- *Settings*: three variables' worth of forms (a secret that is set, kept, removed and
  turned into a literal and back), `MaxEnv` 2 in place of 64 so that a form can exceed
  it, four commits: a first deploy and three more.
- *Directory*: every template of `Templates` (one to three services, each with each kind
  of value) is installed beside a deploy and a scale; two of them beside every pair of
  the other operations; and every pair of those behind a first deploy. `MaxName` 2 parts
  in place of 63 characters so that two services' names come out as one, `MaxVolumes`
  and `MaxSecrets` 1 so that both are exceeded.
- *Operator*: one resource of each kind; `MaxDisruptions` 1, which is one edit, one
  deletion (after which it may be made again), one tampering or one restart at any point
  of any pass; two specs that differ in every field that changes what is rendered;
  `Lagging` the generated Secret and the Ingress, one kind that is watched and one that
  is not. `Rendered` leaves out ServiceAccount, NetworkPolicy and PodDisruptionBudget in
  the instances: they go through the same `Apply` as the Service. `MaxBackups` 1. The
  run of both renders the one object the two resources fight over, the Service.
- *Builds*: three builds, two apps, `KeptPerApp` and `KeptInNamespace` 1 so that three
  builds reach both limits, quotas of three Builds and two Jobs, one death or failed
  sweep, a clock of two seconds so that builds end in the same second and not. In
  `build_quota` the numbers keep the proportions of the code: an app keeps as many
  builds as the namespace has Jobs.
- *Identity*: `MaxAdmin` 2 administrative calls, one crash, `TTL = MaxNow = 1` so that a
  session is live and then expired; three accounts of which two have one address in two
  cases; the role `viewer` besides the owner that the bootstrap makes.

Deadlock is checked for the evidence and placement stores: some client can always go on.
It is not elsewhere, where the bounded requests are over in the end.

### Fairness

`pipeline_answers` (and the configuration `PipelineRefused`) assume, and nothing else:

- WF of `Tick`: time passes;
- WF of `Resync`: the informer re-lists (controller-runtime's resync period);
- WF of `ReconcileRead` and `SweepList`: the leader's worker and the sweep's ticker run;
- SF of `ReconcileWrite` and `SweepWrite`: a store error requeues the key or ends the
  pass, so the write is tried again; a store that answers infinitely often lets it
  through. WF would not do, since `ReconcileError` disables the write in between.

Nothing is assumed of requests (a writer may die at any step), of Argo CD (a commit may
never be applied) or of the cluster.

The operator's runs assume that a worker with a pass under way or a resource queued goes
on (controller-runtime's workers take what is queued), that every watch delivers in the
end, and that the garbage collector works. The workers' and the collector's are weak
fairness with the enabling condition spelled out, which is the same formula and much
cheaper to check. Nobody has to edit, tamper, restart or write. `Builds` assumes that a Build that
is due is reconciled again (an error is requeued with back-off), that a pod ends (the Job
has a deadline), that the sweep of a pass runs and that the garbage collector works.

### Mutants

Every property of a passing run has a mutant in `PROJECT.json`: a version of one mapped
definition with a plausible bug (a fence not compared, a lock not taken, a forced push,
a filter that lists pending only, a verdict read off the Job, a claim committed ahead of
its rows, an ownership check that adopts) under which TLC finds the property violated
with the run's own configuration.

## Proofs

One module of proofs per component. Every invariant that a passing run checks is the
statement of a theorem, so is every action property, and so are both refinements. TLC shows
them on the instances above, the theorems for every value of the constants that satisfies
the module's assumption: any number of callers, requests, replicas, builds, templates or
resources, and with no bound on how long a behaviour is (the bounds that the modules name
are arbitrary numbers).

### What is proved

| Module | Theorem | States |
|---|---|---|
| `EvidenceStoreProofs` | `TypeCorrect` | `[]TypeOK` |
| | `LockingIsSound` | `[]LockedRowIsFresh`: what a transition compared is what its write replaces, on both engines |
| | `StateIsProjection` | `[]EventLogIsHistory` |
| | `SubChainsVerify` | `[]SubChainsHold` |
| | `AppendIsIdempotent` | `[]OneRowPerKey` |
| | `RetriesAreAnswered` | sqlite: `[]DuplicateIsAnswered` |
| | `AppendsAreAccepted` | sqlite, `PathsDiffer`: `[]AppendIsNeverRefused` |
| | `FenceIsExact` | `Window = 0`: `FencedWriteExtendsWhatWasRead` |
| | `NothingGoesMissing` | `Window = 0`: `[]ArchiveIsWhole` |
| | `WholeRefsVerify` | `Window = 0`, `MovesKeep`: `[]ChainVerifies` |
| `DeployPipelineProofs` | `TypeCorrect` | `[]TypeOK` |
| | `AnswersAreAlwaysEarned` | `[]AnswersAreEarned` |
| | `CommitsHaveRecords` | `[]EveryCommitHasItsRecord` |
| | `CommitsBuildOnTheLast` | `[]EveryCommitBuildsOnTheLast` |
| | `AcceptedWasPushed` | `[]AcceptedIsPushed` |
| | `ImplementsLedger` | `Spec => LedgerSpec`, the refinement of `DeployLedger` |
| `PlacementStoreProofs` | `TypeCorrect` | `[]TypeOK` |
| | `SitesStayApart` | `[]OneLandingSite`, on both engines |
| | `ClaimsAreKept`, `ClaimsAreReleased` | `[]ClaimsHoldOnSqlite`, `[]NoIdleClaimOnSqlite` |
| `SettingsWriteProofs` | `TypeCorrect` | `[]TypeOK` |
| | `NamesHaveValues` | `[]NamedHasValue` |
| | `CommitsAreSound` | `[]CommittedIsSound` |
| | `SavesKeepTheImage` | `SettingsAndImageApart` |
| `AppDirectoryProofs` | `EntriesArriveWhole` | `[]InstallIsWhole` |
| | `ValuesAreMintedOnce` | `[]SharedValuesAreNeverMintedTwice` |
| | `CommitsKeepTheRest` | `ChangesItsPartOnly` |
| `OperatorProofs` | `RehearsalsRestored` | `[]LastRestoreDidRestore` |
| | `ForeignStaysAsFound` | `ForeignIsNeverRewritten` |
| | `MountsAlwaysExist` | `HandsOff`: `[]MountsExist` |
| | `MintedValuesStay` | `HandsOff`: `GeneratedValuesAreKept` |
| `BuildsProofs` | `SuccessesWerePushed` | `[]SucceededIsPushed` |
| | `AcceptedDeliveriesBuild` | `[]AcceptedDeliveryBuildsAll` |
| | `OnlySupersededGoes` | `CollectedIsSuperseded` |
| `IdentityStoreProofs` | `ChangesEndSessions` | `[]PasswordChangeEndsSessions` |
| | `RolesAreGranted` | `[]AdmittedWasGranted` |
| | `OneOwnerAtMost` | `[]BootstrapIsWhole` |
| | `RefinesMemory` | `Spec => ImplementsMemory`, the refinement of `IdentityMemory` |

### From which assumptions

Each component names one assumption about its constants (`StoreAssumption`,
`PipelineAssumption` and so on): bounds are numbers, engines are the two there are, what a
request asks for has its type, `None` is not a value. TLC evaluates them on every run.
`DirectoryAssumption` says that a request is a request, a template a template (`IsTemplate`:
services whose names differ, which is what the keys of a map are), and a directory that is there at the start is filed by the names of its objects.
Some theorems need more, and the reason is in the code each time:

- *sqlite* (`RetriesAreAnswered`, `AppendsAreAccepted`; the claims of placements and
  `ImplementsMemory` say so themselves): on postgres two transactions overlap between a
  lookup and the write behind it, which is finding 5 and the driver's errors below.
- `PathsDiffer`: no two Refs join to one path. IDs are joined with dashes, so without it two
  apps can want one ID.
- `Window = 0`, nothing is pruned. `ArchiveIsWhole` and `ChainVerifies` speak of a whole
  archive. That `FencedWriteExtendsWhatWasRead` needs it too came out of the proof: when
  the newest row is pruned, the next append is given its number and its ID, and a caller who
  read the old row at version 0 passes the fence on the new one. TLC finds it with
  `Window = 1`.
- `MovesKeep`: the moves of the git writer and the sweep, which merge no image and no
  admission outcome. With the observer's the chain breaks (finding 2).
- `HandsOff`: whoever tampers by hand leaves volume claims and generated Secrets alone.
  Neither has an owner, so no reconciler and no collector removes one; a person can.

### Along which argument

Every module has an inductive invariant `IInv`, proved by one step per action, and the
theorems are read off it. None of the properties is inductive alone; what was needed, and why:

- **Evidence store**: `TypeInv /\ LockInv /\ RowInv`. A write replaces a row by what its
  transaction computed from the row it loaded, so its log is the history only if the row has
  not changed since: `LockedRowIsFresh`. That needs `Exclusive`: no two callers hold one row
  on postgres, and no two hold a transaction on sqlite. `AppendHead` takes the newest row
  with `CHOOSE`, which is a row only if the numbers of a Ref have a maximum; the bound in
  `TypeInv` gives it (`BoundedHasMax`, `NewestIsARow`). The sqlite theorems add
  that rows are filed under the ID their number gives and that what an append has found free
  stays free until its INSERT (`StillFree`); those for `Window = 0` add that what a caller was
  given is a prefix of the row there (`HoldInv`), that a Ref's rows are 1 to n and linked
  (`ChainInv`), and that each row's digest is of its chained fields (`HashInv`).
- **Pipeline**: `RecInv /\ WriterInv /\ WatchInv /\ AnswersAreEarned`. An answer is earned
  when it is derived, and written later, by a replica that may not lead any more: so `WatchInv`
  says of every derived answer that is still to be written that `truth` has it. A commit has
  its record because the writer's own number is on no commit until it pushes. For the
  ledger every step is shown to open one record, to move one along an edge, or to leave all
  alone; the acceptance rule, with the states an answer may replace, gives the edge.
- **Placement**: `TypeInv /\ SiteInv /\ ClaimInv`. `SiteInv` extends the property to rows
  written and not committed: none collides with a committed row or with another. That is what
  the wait on a unique value buys, and why it holds on postgres. `ClaimInv` follows one
  request on sqlite from statement to statement: once it has read that a claim is its own,
  the claim is there until it commits.
- **Settings**: `TypeInv /\ ApartInv /\ ValueInv`. `ValueInv` says per step of a save which
  of the names it is about to commit have values by now; the patch gives the new ones, and
  git had the others.
- **Directory**: `TypeInv /\ AskInv /\ PushInv /\ CommitInv`. `CommitInv`: every commit
  is a directory in order, each manifest under the file its name says (`Filed`), and an
  install's commit holds the plan. `PushInv`: what is about to be pushed was rendered from a
  commit of the branch. The rest is about the operators: what `Convert`, `PlanOf` and
  `RenderInstall` make of any template.
- **Operator**: two invariants. `IInv` carries a last restore that restored through every
  copy of a resource, the one a pass took long ago included. `MInv`, under `HandsOff`: the cache
  knows of no claim and no minted value that is not there; a pass that is past a step and
  has not stopped has what the step makes; so a Deployment is written after what it names.
- **Builds**: `TypeInv /\ VoiceInv /\ SucceededIsPushed /\ HookInv`. `VoiceInv` says of every
  message, said or seen, that the image it names is its own Build's and pushed.
  `OnlySupersededGoes` is a pigeonhole: what comes before place n in an order is n - 1 builds.
- **Identity**: nine conjuncts. A token is new when it is issued (`TokenInv`), so no session
  that a change has doomed comes back; `OneWriterInv` is sqlite's connection, which the
  refinement needs at `ChangeCommit`; `BootInv` is one claimant at a time.

### What the proofs changed

A proof that did not go through was about the model more than once:

- `Derive` in `DeployPipeline` was a `CASE` with overlapping guards, which means an arbitrary
  one of them; the code takes the first. It is a chain of `IF`s now.
- `InstallIsWhole` does not hold for every template: finding 12. The instance had no template
  whose front door is a database. It has one now.
- `SharedValuesAreNeverMintedTwice` did not hold where a variable that asks for the public URL,
  and is dropped, names the same value; `Takers` leaves it out, and the instance has that
  variable.
- `FencedWriteExtendsWhatWasRead` holds without pruning only, as above.
- Definitions were put in a form the provers can follow: the workloads of a template are a
  function on its services and not a filtered sequence, the triggers of a delivery are a
  set, and what a request may ask for is a named set.

### What is only model-checked

Liveness under fairness is out of the prover's reach and left to TLC:
`OpenRecordsAreAnswered`, `LandedIsRecorded`, `Converges`, `Settles`, and `EveryBuildEnds`, which
the code violates. So is `ENABLED`, and with it the absence of deadlock. What a definition by
recursion computes for every input cannot be proved either; the modules with theorems use
none. Properties that the code violates are not stated as theorems; where a condition
brings them back (an engine, a window, a front door that runs) the theorem names it.

## Where the code departs from what it says

### With a run or a configuration

1. **A namespace of finished builds starts no build** (`internal/controller/build_gc.go:41`;
   run `build_quota`). Ten finished builds are kept per app, each with its Job, and
   `cluster/build-namespace.yaml:70` counts ten Jobs, finished ones too. The next Job is
   refused for ever, and since only a build that ends triggers a sweep, nothing is freed.
   `build_gc.go:50` says a burst "still has somewhere to land".
2. **The observer breaks the chain it writes to** (`evidence/internal/sqlstore/store.go:277`;
   `StoreObserverChain`, `ChainVerifies`). Transition merges Image and Admission into the
   row; `chainedRecord` hashes both; Verify recomputes another digest.
   `evidence/chain.go:57` says that what may change is not chained.
3. **A prune can delete the current record** (`store.go:547`; `StorePruneCurrent`,
   `PruneKeepsCurrent`). The records to keep are read before the deleting transaction
   begins.
4. **A refused rollout can stay applied** (`internal/deploywatch/deploywatch.go:265`;
   `PipelineRefused`, `RefusedIsRecorded`). A reconcile between the observed generation
   and the ReplicaFailure condition writes applied; rejected is not allowed from there
   and the sweep does not list it.
5. **On postgres a claim is released under a create** (`placement/internal/sqlstore/store.go:354`;
   `PlacementRelease`, `ClaimsHold`). The create found the claim its own, wrote nothing
   and holds nothing; a delete of the tenant's last other placement drops it.
6. **The Application can track the losing placement** (`server/apps.go:218`;
   `PlacementDelivery`, `DeliversWhatIsPlaced`). Two creates commit in one order and
   deliver in the other.
7. **The loser of two first saves keeps no value** (`server/secretwrite.go:114`;
   `SettingsFirstSecret`, `PutLands`). The test after Create reads the error of the
   patch, so AlreadyExists is returned as success and the patch behind it is never
   reached.
8. **The first deploy after an install takes the entry apart** (`server/deploy.go:176`,
   `lifecycle.go:441`, `settings.go:690`; `DirectoryJoined`, `EntryStaysJoined`). The
   object's metadata is rebuilt without labels, and the operator's east-west rule selects
   on one. `server/catalog.go` says an entry whose objects lose it cannot reach itself.
9. **A failed install cannot be asked again** (`server/catalog.go:403`; `DirectoryRetry`,
   `AskingAgainIsNotRefused`). The placement stays and the second attempt is refused as
   existing; the answer said "asking again is what fixes it".
10. **A Database made again is locked out of its data**
    (`internal/controller/database_controller.go:135`; `OperatorPassword`,
    `PasswordOpensData`). The Secret is owned and goes, the volume is not and stays.
11. **A rehash can undo a password change** (`server/login.go:122`; `IdentityRehash`,
    `PasswordChangeHolds`). RehashCredential writes a hash of the password the login
    verified, whatever has been set since. No handler changes a password yet: the store
    offers it.
12. **A database in front sends the siblings to nobody** (`compose/convert.go:267`;
    `DirectoryFrontDoor`, `RepointedAddressesResolve`). When the service in front becomes a
    Database, the first workload is the app, which the install renames; its siblings were
    repointed at the name it had while converting. `compose/convert.go:613` says that
    writing the convert-time name "would produce a value that resolves to nothing while
    looking repaired".

### Without one

Read in the code while modelling, at the line given:

- Evidence store: Verify starts from the nil digest, so an archive that has been pruned
  reports a break (`store.go:607`); numbers and IDs of pruned newest rows are given again
  (144); on postgres the loser of two appends with one key gets the driver's UNIQUE
  error and not `ErrDuplicate` (126); IDs joined by dashes collide between
  `api`/`prod-eu` and `api-prod`/`eu` (158); Get reads row and events as two statements
  (665), and Current asks for running and for applied as two (309); a page cursor is a
  number of one Ref while a query may cover several (391); the memory store's Current
  picks by number alone (`memory.go:163`).
- Pipeline: a push whose answer is lost is recorded as never pushed (`gitwrite.go:255`),
  and a push that could not be recorded is answered 502 (`deploy.go:128`); the observer
  does not requeue a conflict, so only the resync repeats it (`deploywatch.go:168`);
  "the pods exist" is recorded as soon as the generation is observed (346).
- Placement: on postgres two deletes of the last two placements of a repository leave
  the claim behind (`store.go:354`, hence `NoIdleClaimOnSqlite`); Application names joined
  by a dash collide (`delivery.go:104`); deleteApp leaves the Application
  (`apps.go:291`); RepoOwner is documented as checked by the write path and nothing
  calls it (`placement.go:267`).
- Settings: two saves, of which the later drops the earlier's variables
  (`settings.go:659`); a removal planned before and sent after another save that set or
  kept the key (268), which is why `NamedHasValue` speaks of one save at a time; the
  record of a save is opened with the image the plan was read with, which a deploy in
  between makes wrong (657).
- Directory: an install whose clone follows a database request of the same app removes
  the manifest that request has just committed; two services whose names are cut to one share
  a file, and the app's own name may equal a sibling's (hence `Distinct` in
  `InstallIsWhole`); the note about an address of a database in front calls it "this
  template's own application" (`convert.go:658`); `primaryService` finds port 80 in 8080; a rollback may name a record
  still pending whose push then fails; records of a scale or a rollback carry no image,
  so they cannot be rolled back to; a database created before the first deploy is
  committed without the fence files; restart is answered 501 though the operator
  renders `restartedAt`.
- Builds: a verdict from a pod cache that lags fails a build whose image was pushed, for
  good (`build_controller.go:188`); a sweep's error is returned to be retried and the
  retry stops at the terminal phase (164); a delivery that failed half way builds the
  first half twice when it is sent again (`hooks.go:264`).
- Identity: a session issued between a change's reads and its commit by a login that
  verified the old password survives (`login.go:105`); on postgres the loser of two
  password changes gets the driver's error; nothing calls PruneExpired, and no operation
  of the store disables an account that exists.
- Others: the registry cache keeps the error of a caller that went away
  (`registry.go:138`); two replicas that start on one new postgres database race on the
  migrations (`sqlmigrate.go:145`); an announcement follows the commit and is not
  retried (`notify/notify.go:147`).

## What is not modelled

- Reads that change nothing: History, FindBySource, Refs, RepoOwner, TriggersFor, the
  evidence and database pages.
- `SetTrigger` of the placement store, which no handler calls; restart, which is
  answered 501.
- The texts of a template: YAML, variable interpolation, image references, the catalogue
  index.
- Formatting, wording, logging, JSON, the panel, the CLI, Helm and the manifests.
- Hashes, password hashing and signatures as arithmetic: a digest is what it commits to,
  a hash the password it was made from, a signature the secret.
- The table from role to action, which is closed and exhaustively tested in the
  repository; the guard in front of it is in `IdentityStore`.
- The memory stores of evidence and placements, one mutex each: a call is atomic, which
  is the sqlite behaviour of the models. Identity's is modelled, as the abstract
  specification.
- Notifications, streams, the registry client, migrations, start and shutdown: pass-through
  or one-shot work that keeps no state of the system.

## Plan

The parts that keep state are modelled, and the safety of each is proved. What is left:

1. What postgres gives where a theorem is about sqlite: that a claim is only ever lost to a
   delete that overlaps the create, and that an append is refused only by one that
   overlaps it.
2. Shorter proofs: the lemmas about functions with one entry changed, and about the largest
   of a bounded set, are stated in several modules.
