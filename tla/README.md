# RunCD in TLA+

Specifications of [RunCD](../src/README.md), a GitOps controller for Cloud Run:
TLA+ modules translated from the Go source, TLC runs that check them on small
instances, and TLAPS proofs of the central safety properties for every size.
`PROJECT.json` lists, for each definition, the source lines it stands for, and
for each property a mutation of the code's model that breaks it.

    tlc -workers 2 -config SyncUnit.cfg MCSyncUnit     # a run
    tlapm SyncUnitProofs.tla                           # the proofs of a module

## The system

Several replicas of one controller process share a Postgres database. One of
them leads. Every `RECONCILE_INTERVAL`, or when an image event nudges it, a
replica reloads `runcd.yaml` and `rbac.yaml` from git; the leader then follows
image tags by committing digests to manifests and reconciles every *sync unit*
(an app in a project): read the manifest, read the live resource, compare,
deploy, record, notify. People trigger the same path through the API, on any
replica, one unit at a time or in bulk.

| Component | State | Operations | Meets the others through |
| --- | --- | --- | --- |
| `internal/leader`, `runLeaderElection`, `leadershipContext` | row `leader_lease`; per replica a ticker, a flag and a term context | Claim, Run, retry with backoff, set | the context a pass runs under |
| `internal/reconcile` | rows `sync_locks`, `applications`, `sync_events` | RunOnce, ManualSync, DryRun, deploySyncUnit, upsert | Postgres, Cloud Run, the manifest cache |
| `internal/gitsource` | cached manifests with a TTL | Get | read by every attempt |
| `internal/cloudrun` | Cloud Run resources (external); clients, one per region and kind | GetService, GetJob, DeployService, DeployJob, ListServiceNames; servicesClient and its like | called by reconcile and the API |
| `internal/precondition` | Pub/Sub clients, answers with a TTL | Check, TopicExists, SubscriptionExists | called before a deploy |
| `internal/diff`, `internal/health`, `internal/manifest` | none | Compute, Assess*, Parse | called by reconcile |
| `internal/notify` | rows `notification_debounce` | Evaluate: claim, send, confirm, revert, clear, release | called after every pass and manual sync |
| `reconcileLoop`, `run` | units, reconciler pointer, `rbac.Store` | the tick: three reloads, then a pass | API handlers read what it swaps |
| `internal/folders`, `internal/expander`, `internal/rbac` | folder cache | ResolveConfig, ResolveMembership, Expand, CanSyncFolders | the tick, the API |
| `internal/imageupdater`, `internal/registry` | tag cache with coalesced fetches; the file in git | Update, ListTags, Resolve | the tick, and every reader of tags |
| `internal/githubapp` | installation ids, tokens until they expire | GetFile, GetFileWithSHA, PutFile, installationToken | every read and write of git |
| `internal/api` | none of its own | sync, bulk sync, dry run, image events, orphans, read views | all of the above |
| `internal/config` | none | Parse, WindowsAllow | the tick, `runcd validate` |
| `run` | the goroutines and the server | start, signal, bounded waits, exit | all of the above |

What is hard here is not any single function. Leases, locks and claims all
expire by Postgres's clock while their holders watch their own. Every
statement can fail, or succeed and be reported as failed. A pass can be
cancelled between any two statements, a process can die there. Desired and
live state are read before the lock under which they are used. Caches (tags,
manifests, folders) are read by concurrent callers, and what one caller makes
is shared by all that wait for it: clients, tokens, answers of checks. Reloads
fail in part. The full list, by source line, is `hazards` in `PROJECT.json`.

## Modules

| Module | Models | Main simplifications |
| --- | --- | --- |
| `SingleLeader` | abstract: terms begin only when no term is open | |
| `UnitDeploys` | abstract: attempts work on a resource one after the other and write it only once announced; everything else is from outside | |
| `Lease` | the election; a claim is three steps (request, execution in Postgres, answer), each of which may be lost or late | a boot is a replica of its own (the holder id is fresh per boot); times are time left or elapsed |
| `SyncUnit`, `MCSyncUnit` | all attempts on one unit, one action per statement or call | the resource is an image and an env; an override's tag and the parse are part of the manifest step |
| `Notify`, `MCNotify` | all evaluations of one unit's rules | a message is its rule; a task is a rule, or a recovery rule with the sibling it answers |
| `ControlLoop` | start, the tick's reloads, the folder cache, the bulk sync's snapshots | a unit is an app in a project of its own; the grants are of one subject |
| `ImageUpdate` | one manifest and one tag, several processes with their caches | images are numbered in the order the tag got them; the content is its blob SHA |
| `Fleet`, `MCFleet` | one process: passes with their limit of workers, API callers, all that they share and make on first use, the shutdown | a caller is the sequence of shared values it needs; an entry that is no longer good is gone |
| `SyncWindow` | `WindowsAllow`, and the reference: intervals of the week | fewer hours and weekdays |
| `TagChoice` | `registry.Resolve`, and the reference: the highest releases that fit | three-part versions; a constraint is a prefix |
| `Drift` | manifest, desired state, diff, health, read and deploy of a resource | one container; traffic is what the latest revision gets |
| `Access` | the scopes of `internal/rbac`: who may sync what, who may anything | a rule has one scope; a project's units are of one environment |
| `Orphans` | `DetectOrphans` and `handleOrphans` | |
| `Expansion` | from `runcd.yaml` to units: `Parse`'s collisions, `ResolveConfig`, `Expand`, and `runcd validate` | of the settings, the region and `auto`, which the other fields of the policy are merged like |
| `Decisions`, `MCDecisions` | asks the six modules above every small question | |

Variables are named after what they hold in the code: in `SyncUnit`, `holder`
and `lockLeft` are the `sync_locks` row, `app` the `applications` row, `event`
an attempt's `sync_events` row, `want` and `got` the `desired` and `live`
values in `deploySyncUnit`, `deadline` the context of line 602. The *Fails*
actions give every outcome a failed call can have: not executed, or executed
with the answer lost.

In `Fleet` the same code, written out for each kind of client, is one set of
actions: look into the map (`Look`), `group.Do` (`Join`: wait, find the value on
the second look, or make it), the call that is detached from its caller
(`Answer`, `CallFails`, `Hang`) and the insertion (`Store`). `PROJECT.json` maps each
of them to one of the places where it is written. Keys are of four kinds:
clients (kept, construction without deadline), installation ids (kept, no
flight of their own), tokens (until a margin before they expire) and checks
(for a TTL after the answer); a token needs its installation first, a check
its client. `age` is since GitHub or Pub/Sub answered, `held` since the answer
was stored, which is what `fetchedAt` measures.

In `Notify` the runs use the health rules. Those about failed and gated syncs
go through the same claims; `NotifyProofs` covers every kind of rule, the runs
do not yet.

Counters such as `faults`, `edits`, `stuck`, `echoes` exist for the bounds and
for the properties; no action of the code reads them.

## Runs

| Run | Question | Bounds |
| --- | --- | --- |
| `lease` | do terms overlap, and is a leader found again? | 2 boots, TTL 5, renewal 2, timeout 1, delay 1: the ratios of 30 s, 10 s, 5 s; 2 faults |
| `sync` | do syncs exclude each other, announce and record truthfully? | a pass and a person, 2 digests, each policy, TTL 1, 1 fault, 1 cancelled pass, 1 commit or outside deploy |
| `sync_live` | does an auto unit converge? | as above with env managed and image not, 1 fault, 1 edit |
| `notify` | do claims exclude, are messages repeated only by faults, are recoveries and repeated alerts always sent? | 2 evaluations, a health rule and its recovery, debounce 2, claim TTL 2, 1 fault |
| `notify_siblings` | violation, see below | 1 evaluation, two health rules, no fault |
| `image` | are edits kept, is there a rollback, is the tag followed? | 2 processes and a viewer, 2 images, 1 edit, 1 handover, 1 fault |
| `image_nudge` | violation, see below | 1 process, no fault |
| `control` | does an outage withdraw anything, do commits take effect? | 1 unit, 1 folder, 2 edits, 1 fault |
| `control_reload`, `control_batch` | violations, see below | 1 edit, no fault |
| `fleet` | is everything shared made once and used in time, does a hung call stop anybody else, does the process exit? | 2 units, 1 worker, 1 viewer; 2 clients, a token, 2 checks; tokens live 3, margin 1, TTL 1, timeout 1, waits 1; 1 failed call, 1 hung construction |
| `decisions` | are the calculations what a reader expects? | 3-hour days, 3-day weeks, 2 windows; 3 tags of 4 versions; one ignored field; 1 env name, 2 values, 1 secret; 2 projects, regions, apps, environments, 1 folder; 1 or 2 apps per document; up to 2 scopes of every form per caller, 2 units per scan |

Why the bounds are enough to be interesting: an exclusion property needs two
actors and one expiry, and both TTLs are long enough for a whole section and
short enough to expire inside a run; convergence needs a stale attempt, which
one edit and one fault give; a window that wraps twice needs two day
boundaries, so three days; a tag choice that depends on order needs two
candidates and a distractor; a unit that waits behind another needs fewer
workers than units; a collision that only a folder brings about needs two
environments and a project that one of them does not declare. Symmetry is used
for digests (`sync`), which are not ordered and which no liveness property is
about. Each run's properties are shown not to be vacuous by
the mutants of `PROJECT.json`.

### Fairness

Weak fairness is given to what the code or the runtime will do unless it
crashes: clocks advance, calls return (each has a timeout), tickers tick, an
attempt that has begun goes on, caches expire. None is given to people,
commits, events, faults, crashes or cancellations; those are finitely many in
a behaviour, by their bounds. Liveness therefore says: after the last
disturbance. In `Lease` the conclusion is further conditional on some replica
staying up. In `SyncUnit` only the poll loop is fair; people are not. In `Fleet` a call is
answered, or fails, unless its construction hangs; nothing makes a hung call
return. `Fleet` is the one passing run without a check for deadlock: its process
exits.

## Violations: where the repository says otherwise

* `notify_siblings`. `examples/notify/README.md` lines 18-23: a recovery clears
  the rule's marker "so the next Degraded episode notifies immediately". With
  two `healthDegraded` rules, the second sibling's recovery message is debounced
  by the first's (`notify.go:253`), so its marker stays.
* `image_nudge`. `events.go:11-13`: the event makes the loop "react to a fresh
  image push within seconds". The nudged pass lists tags through the 30 s cache
  (`registry.go:140`), which the event does not invalidate.
* `control_reload`. `main.go:609-610`: "RBAC, notify config, and managedFields are
  all refreshed on the same cadence". `main.go:704` does not compare
  `root.Environments`, which the notifier is built from as well.
* `control_batch`. `sync_batch.go:63-66`: a reload "must not let a grant revoked
  partway through still authorize a later unit in this same batch". Both
  snapshots are taken before the first unit and used to the last.

Seen while modelling, not stated as runs:

* An unmanaged image is redeployed as it was fetched before the lock
  (`reconcile.go:615-617`); a deploy by somebody else in between is undone, which
  is not the "genuine no-op" of the comment above it.
* A unit that could not be read has Health `Invalid`, which `evalHealthRecovered`
  (`notify.go:212`) reports as a recovery.
* `lastNotify` and `lastManagedFields` start at zero values (`main.go:687`), so a
  configuration that loses both sections between start and the first tick
  keeps the old reconciler.
* One folder that fails makes `main.go:721-726` discard the membership of every
  other, although `ResolveMembership` promises otherwise (`resolve.go:121-124`).
* `handleOrphans` scans with the caller's units only: with grants of single apps,
  services that other units declare are reported as orphans, though an orphan
  "isn't declared by any of them" (`orphans.go:13-15`). `OrphansAreUndeclared` is
  therefore exact only for callers with grants of whole projects.
* One construction that hangs stops more than "the region that's actually
  wedged" (`gcp.go:113-115`). It holds a worker, the pass waits for it
  (`reconcile.go:225`), the loop for the pass, and the lease is renewed all the
  while: no unit is reconciled until the process is restarted. `WorkEnds` says
  exactly this much: requests that do not need the client end, a pass that
  needs it need not.
* A folder that does not answer "doesn't block ... config loading as a whole"
  (`resolve.go:46-48`), but does where an override or exclusion names one of its
  projects: `Expand` refuses the document, at start fatally. `UnitsAreExact`
  counts that as a mistake of the moment.
* `validateRepo` "runs the same parse/expand validation the controller does"
  (`validate.go:40`), without the folders, with `--check-gcp` too. So it can refuse
  a document that the controller loads and pass one that it refuses;
  `UnitsAreExact` has them agree where folders add nothing.
* "Two unnamed rules of the same type still debounce independently"
  (`config.go:208-209`), unless their thresholds are equal: then they have one key.
* `folder:` with nothing after it is no grant to `HasAnyGrant` but is resolved all
  the same (`rbac.go:101`); its failure holds back every update of the membership
  (`main.go:721-726`).
* An installation id is kept for the life of the process (`githubapp.go:347-351`):
  after a reinstallation of the app every mint fails until a restart.
* A new leader whose tag cache is older than the last commit may commit the
  older digest until its cache expires; `NoRollback` speaks of one process.
* A manifest of type `service` with managed traffic never settles if the live
  resource is a worker pool, which has none.

## Proofs

| Theorem | Says |
| --- | --- |
| `LeaseProofs!Exclusion`, `LeaderSafety`, `PassSafety`, `TypeCorrect` | `AtMostOneLeader`, `LeaderHoldsLease`, `LivePassIsLeaders`, `TypeOK` always hold |
| `LeaseProofs!Refinement` | `Lease` implements `SingleLeader` |
| `SyncUnitProofs!DeployExclusion`, `LockSafety`, `AuditSafety`, `NothingForgotten`, `TypeCorrect` | `NoConcurrentDeploys`, `WorkerHoldsLock`, `SucceededMeansApplied`, `NoForgottenEvents`, `TypeOK` always hold |
| `SyncUnitProofs!AnnouncementSafety`, `RowSafety` | the action properties `DeployIsAnnounced`, `RowKeepsImages` |
| `SyncUnitProofs!DeployRefinement` | `SyncUnit` implements `UnitDeploys` (`DeploysAreSerial`) |
| `NotifyProofs!ClaimExclusion`, `EchoSafety`, `TypeCorrect` | `ClaimsExclude`, `EchoesAreFaults`, `TypeOK` always hold |
| `ControlLoopProofs!UnitsSafety`, `GrantsSafety`, `BatchSafety`, `ControlTypeCorrect` | `OutageKeepsUnits`, `OutageKeepsGrants`, `BatchKeepsGrants`, `TypeOK` always hold |
| `ImageUpdateProofs!ViewersSafety`, `ImageTypeCorrect` | `ViewersUnharmed`, `TypeOK` always hold |
| `ImageUpdateProofs!EditsSafety`, `RollbackSafety` | the action properties `EditsSurvive`, `NoRollback` |
| `FleetProofs!BuildSafety`, `AgeSafety`, `BlameSafety`, `FleetTypeCorrect` | `BuiltOnce`, `UsedInTime`, `BlameIsOwn`, `TypeOK` always hold |
| `DecisionsProofs!SettlesSafety`, `UnmanagedSafety`, `WindowsSafety` | `DeploySettles`, `UnmanagedUntouched`, `WindowsAreIntervals` always hold |
| `DecisionsProofs!OrphansSafety`, `ScanExactness` | `OrphansAreUndeclared` always holds where all names are in use; `ScanIsExact` always holds |
| `ListProofs!PickedSafety`, `ExpansionSafety` | `PickedIsNewest`, `UnitsAreExact` always hold, for lists of tags and of apps of every length |

They hold for any number of replicas, attempts, evaluations, rules, digests,
units, folders, images, callers, keys, hours and days, tags and apps, for any number
of faults, and for any timing that satisfies the named assumptions:

* `TimingAssumption` (`Lease`): a query's timeout and the delay fit into the
  renewal interval, and the interval, the timeout and two delays into the TTL.
  With 30 s, 10 s and 5 s the code allows delays (of acting on a timer or on
  an answer) of up to 5 s each.
* `ClaimAssumption` (`Notify`): a send, two writes and two delays fit into
  `claimTTL`: 10 s and two times 5 s into 30 s, which leaves 5 s for each delay.
* `RulesAssumption`: rules have distinct keys. `config.Parse` refuses only the
  ambiguities that an environment refers to; two rules with the same key share
  a debounce row and are outside the model.
* `FleetAssumption`: a call's timeout fits into the margin, and two calls into a
  token's life (30 s, 2 min and GitHub's 1 h); a token has an installation lookup of
  its own, since both maps are by repository; the TTL of checks is positive, as
  `precondition/gcp.go:124` makes it; keys of different kinds differ; callers ask
  for clients, tokens and checks, never for an installation alone.
* `DriftAssumption`: a plain value can be told from a reference to a secret, and a
  missing entry or map from one that is there.
* `TagAssumption`: a version has three numbers, and no release and no digest is
  taken for the absence of one, as in Go no version and no digest is "".
* `ImageAssumption`, `ControlAssumption`, `WeekAssumption`, `DecisionsAssumption`: the
  sets and numbers are what they stand for (a file has content, a day has an
  hour, a document is one).
* `NamesInUse`, a hypothesis of `OrphansSafety` alone: every environment holds a
  project and no name is empty. `config.Parse` does not see to either. A rule
  for an environment without projects counts as a grant for `HasAnyGrant` and
  grants nothing, so without the hypothesis the "refused" part is false;
  `ScanExactness` is what holds in general.
* All modules: the clocks of Postgres and of the processes advance together,
  and a write that was reported as failed has happened or never will (except
  in `Lease`, where `LateClaim` may execute it later).

The arguments. Few of the properties are inductive by themselves; each inductive
invariant below was model-checked on the bounds of its run before it was proved.

* *Lease*: nothing in `AtMostOneLeader` says that the row outlives the flag.
  `LeaseInv` adds a clock argument: `Paced` bounds the age of a replica's last
  attempt by the ticker and the timeout, and `Vouched` says that time left plus
  age is at least TTL (less one interval while a renewal is under way). Together
  they keep the row unexpired while anybody leads, so no other claim can succeed.
* *SyncUnit*: the deadline starts before the lock, so `lockLeft >= deadline` is
  preserved by every step and by the clock; that is the conjunct of `Sound` that
  makes exclusion inductive, the others carry the event and the applied flag
  through the section. From the same invariant each operation is one of `UnitDeploys`
  or changes nothing it shows: `Acquire` enters, the INSERT announces, a deploy
  writes whether it is reported or not. `NoForgottenEvents` counts: `Accounted` adds to the rows
  left behind those whose attempt has given up finishing them (`Owed`), and has the
  sum covered by faults. Every step that makes a row owed consumes a fault, and an
  attempt that is cancelled owes nothing.
* *Notify*: `Covered` says that the claim's time left, the evaluation's age in its
  current step and what it spent before add up to at least `ClaimTTL`, so a claim
  is live for as long as the untokened writes that rely on it. `EchoesAreFaults`
  rests on that exclusion and on a balance (`EchoInv`): the repetitions so far,
  the rows that do not show what was sent (`Unmarked`; for recoveries, the alerts
  answered but still on record, `Answered`) and the sends that are cut short
  (`Cut`) together never exceed the faults. A message from a row that is in order is
  no repetition, because the claim found the row quiet and holds it until the send.
* *ControlLoop*: the routes by which a unit was found stay in the folder cache
  once they are there (`Known`): a failed folder keeps its old answer, and a fresh
  one contains what is still true. `KeptInv` and `FirmInv` tie units and grants to
  that; `BatchInv` carries the grants of a bulk sync over the moment between its
  snapshot of the rules and that of the memberships.
* *ImageUpdate*: `OneFlight` (a process fetches tags once at a time) makes answers
  arrive in order, so a process's view of the tag never goes back (`ViewInv`);
  `CommitInv` has what it committed, what it is about to commit and its view in
  this order. `EditsSurvive` needs the SHA that `PutFile` sends.
* *Fleet*: `Shape` says what the stack of a caller can be, `MakesAlone` that who
  makes a value has its flight, or, for an installation, the flight of the token
  it is for; a value that is kept is therefore made only while there is none
  (`MadeInv`). `InTime` and `CacheInv` bound the ages of what is held and cached by
  limit plus the clock of the current call, which the margin then absorbs.
* *Decisions*: the question never changes and only its own operation answers it,
  so the properties are lemmas about the operators: a deployed env is read back as
  the manifest's variables and secrets (`EnvReadBack`), hours of the week are hours
  of one day and the circle closes at the last (`OneHour`, `Circle`, `HourAfter`), a
  scope is recognized if some unit can be in it (`ScopeCanMatch`).

* *Lists* (`ListProofs`): `bestMatch` and `Expand` are loops, here recursive functions
  over the positions of a list. The library's induction rules take an operator,
  which the provers cannot instantiate, so an induction is the absence of a least
  counterexample in a set of numbers (`Least`, `Induction`); the same rule gives a
  recursive function its existence (`LoopExists`), without which its equation means
  nothing. Then each loop has an invariant of its prefixes: the best so far fits and no
  tag seen is above it (`BestOf`); there is a mistake among the apps so far or the
  units are all theirs (`SofarIs`). `Expand` looks for collisions backwards only and
  `Parse` at declared projects only; `ExpandExact` and `ParseFindsMistakes` show that
  together they find what a reader would call a mistake (`Mistake`), in whatever
  order the apps are listed and wherever the projects come from.

`WorkerHoldsLock` is the lemma that `NoConcurrentDeploys` follows from; it is proved
and no longer checked by a run of its own, as `ScanIsExact` is, and as
`DeployIsAnnounced`, which also covers the deploys that leave the resource as it was;
`DeploysAreSerial` took its place in the run.

Only model-checked: `AlwaysALeaderAgain`, `AutoSyncConverges`, `RecoveryReported`,
`AlertRepeated`, `TagFollowed`, `CommitsTakeEffect`, `WorkEnds` and `ExitsOnSignal`, since
liveness under fairness is out of the prover's reach. Every safety property that a
passing run checks is proved, `OrphansAreUndeclared` under `NamesInUse`.

## Not modelled

Token verification (a library call), read views and metrics (queries),
migrations (goose, under an advisory lock), the dashboard and Terraform; of the
command-line client, all but what `validate` says of `runcd.yaml`, since the rest
sends one request and prints the answer. In part: the checks of `config.Parse`
that look at one field each, YAML and image references as strings, the signing
of GitHub's JWT. Loading `runcd.yaml` and resolving its folders is one step of
`ControlLoop`, and one calculation of `Expansion`. In `Fleet` the statements of a
sync are left out: `SyncUnit` has them, for one unit. A replica that is paused for longer than the delay of
`TimingAssumption` may go on believing it leads; `sync_locks` still excludes
its deploys only if the pause does not fall between the deadline check and the
call, which no property covers.

## Plan

1. Done, models: the election, the sync path, the notifier, the control loop,
   the image updater, the shared clients and caches with the shutdown, the
   calculations with expansion and access.
2. Done, proofs: every safety property that a passing run checks, the loops over
   lists included; the refinements of `Lease` and of `SyncUnit`.
3. Next, models: rules about failed and gated syncs together with the health
   rules in a passing run; a composition of `Lease` with `SyncUnit` in which the
   passes cancelled are those of lost terms.
