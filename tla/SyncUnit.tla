------------------------------ MODULE SyncUnit ------------------------------
(***************************************************************************)
(* Reconciling one sync unit: internal/reconcile/reconcile.go.  Attempts   *)
(* of the poll loop (RunOnce), of people (ManualSync) and previews         *)
(* (DryRun) run concurrently, from one replica or several, and meet in the *)
(* unit's Cloud Run resource and in its rows of sync_locks, applications   *)
(* and sync_events.                                                        *)
(*                                                                         *)
(* An attempt is a slot that is used again and again.  Its lock token is   *)
(* fresh each time (UnixNano), so a lock whose attempt is gone belongs to  *)
(* Orphan, which no later release can match.  The state of the resource is *)
(* an image digest and an env; traffic is handled as env is.               *)
(***************************************************************************)
EXTENDS Integers

CONSTANTS
  Poller,       \* attempts of a leader's poll loop
  Person,       \* attempts of people, through the API
  Digest, Env,  \* what a manifest may ask for and a resource may run
  Managed,      \* effectiveManagedFields of the unit
  Policies,     \* the unit's sync policy: "auto", "gated" or "observe"
  LockTTL,      \* lockTTL
  None, Orphan, \* lock holders that are not attempts
  Absent,       \* the resource before it is provisioned
  Blank,        \* the empty image of a row
  MaxFaults,    \* bound: failed calls and crashes
  MaxCancels,   \* bound: passes cancelled by a lost leadership
  MaxEdits      \* bound: commits and out-of-band deploys

ASSUME SyncAssumption ==
  /\ LockTTL \in Nat /\ MaxFaults \in Nat /\ MaxCancels \in Nat /\ MaxEdits \in Nat
  /\ {None, Orphan} \cap (Poller \cup Person) = {} /\ None # Orphan
  /\ Managed \subseteq {"image", "env"}

Attempt == Poller \cup Person
State == [image : Digest, env : Env]

ASSUME AbsentAssumption == Absent \notin State /\ Blank \notin Digest

VARIABLES
  manifest,   \* the committed service.yaml
  cached,     \* earlier ones that a replica's Source (internal/gitsource) still serves
  live,       \* the Cloud Run resource
  policy,
  holder,     \* sync_locks.holder, None when there is no row
  lockLeft,   \* sync_locks.expires_at - now(); -1 once expired
  app,        \* the applications row
  pc,
  trigger,    \* "auto", "manual" or "dryRun"
  want,       \* desired
  got,        \* the live state fetched last
  status,     \* Result.Status
  deadline,   \* time left of deploySyncUnit's context
  cancelled,  \* the pass context is cancelled
  event,      \* the attempt's sync_events row
  applied,    \* history: the attempt's deploy took effect
  stuck,      \* history: rows left in_progress by attempts that are gone
  faults, cancels, edits

world == <<manifest, cached, live, edits>>
lock == <<holder, lockLeft>>
local == <<trigger, want, got, status, deadline, event, applied>>
vars == <<world, policy, lock, app, pc, local, cancelled, stuck, faults, cancels>>

\* Between acquireLock and the end of the work its context bounds.
Section == {"locked", "insert", "deploy", "confirm"}
Timed == Section \cup {"acquire"}
PC == Timed \cup {"idle", "manifest", "fetch", "failed", "succeeded", "release", "upsert"}
NoRow == [status |-> "none", desired |-> Blank, live |-> Blank]

TypeOK ==
  /\ manifest \in State /\ cached \subseteq State
  /\ live \in State \cup {Absent}
  /\ policy \in Policies
  /\ holder \in Attempt \cup {None, Orphan}
  /\ lockLeft \in -1..LockTTL
  /\ app \in [status : {"none", "Invalid", "Missing", "Synced", "OutOfSync"},
              desired : Digest \cup {Blank}, live : Digest \cup {Blank}]
  /\ pc \in [Attempt -> PC]
  /\ trigger \in [Attempt -> {"auto", "manual", "dryRun"}]
  /\ want \in [Attempt -> State \cup {Absent}]
  /\ got \in [Attempt -> State \cup {Absent}]
  /\ status \in [Attempt -> {"unset", "Invalid", "Missing", "Synced", "OutOfSync"}]
  /\ deadline \in [Attempt -> 0..LockTTL]
  /\ cancelled \in [Attempt -> BOOLEAN]
  /\ event \in [Attempt -> {"none", "unreferenced", "in_progress", "succeeded", "failed"}]
  /\ applied \in [Attempt -> BOOLEAN]
  /\ stuck \in Nat
  /\ faults \in 0..MaxFaults /\ cancels \in 0..MaxCancels /\ edits \in 0..MaxEdits

Init ==
  /\ manifest \in State /\ cached = {}
  /\ live \in State \cup {Absent}
  /\ policy \in Policies
  /\ holder = None /\ lockLeft = -1
  /\ app = NoRow
  /\ pc = [a \in Attempt |-> "idle"]
  /\ trigger = [a \in Attempt |-> "auto"]
  /\ want = [a \in Attempt |-> Absent]
  /\ got = [a \in Attempt |-> Absent]
  /\ status = [a \in Attempt |-> "unset"]
  /\ deadline = [a \in Attempt |-> 0]
  /\ cancelled = [a \in Attempt |-> FALSE]
  /\ event = [a \in Attempt |-> "none"]
  /\ applied = [a \in Attempt |-> FALSE]
  /\ stuck = 0 /\ faults = 0 /\ cancels = 0 /\ edits = 0

-----------------------------------------------------------------------------
Goto(a, l) == pc' = [pc EXCEPT ![a] = l]

\* A call under the attempt's context can succeed.
Alive(a) == ~cancelled[a]

\* Something fails by itself: a call, a check or the process.
Fault == faults < MaxFaults /\ faults' = faults + 1

\* It fails: the pass was cancelled, or the call itself, its deadline included.
Fails(a) == (cancelled[a] /\ UNCHANGED faults) \/ Fault

\* diff.Compute on the managed fields.
Compute(d, l) == IF \A f \in Managed : d[f] = l[f] THEN "Synced" ELSE "OutOfSync"

\* An unmanaged image is replaced by the live one, as fetched before the lock.
Target(a) == IF "image" \in Managed THEN want[a]
             ELSE [want[a] EXCEPT !.image = got[a].image]

\* DeployService: the image is always written, env only when it is managed.
Deployed(d, l) == [image |-> d.image, env |-> IF "env" \in Managed THEN d.env ELSE l.env]

\* Mutant of Upserted: the row takes whatever this pass came up with.
UpsertedBlindly(a) ==
  [status  |-> status[a],
   desired |-> IF want[a] = Absent THEN Blank ELSE want[a].image,
   live    |-> IF got[a] = Absent THEN Blank ELSE got[a].image]

\* upsert: an empty image means a failed fetch and keeps what the row had.
Upserted(a) ==
  [status  |-> status[a],
   desired |-> IF want[a] = Absent THEN app.desired ELSE want[a].image,
   live    |-> IF got[a] = Absent THEN app.live ELSE got[a].image]

\* deploySyncUnit is reached: not a dry run, not blocked, forced or drifted
\* on an auto unit, and not in observe mode.
WouldDeploy(t, s) ==
  /\ t # "dryRun"
  /\ s \notin {"Invalid", "Missing"}
  /\ t = "manual" \/ (s = "OutOfSync" /\ policy = "auto")
  /\ policy # "observe"

\* The attempt's variables are forgotten when it ends.
Forget(a) ==
  /\ Goto(a, "idle")
  /\ trigger' = [trigger EXCEPT ![a] = "auto"]
  /\ want' = [want EXCEPT ![a] = Absent]
  /\ got' = [got EXCEPT ![a] = Absent]
  /\ status' = [status EXCEPT ![a] = "unset"]
  /\ deadline' = [deadline EXCEPT ![a] = 0]
  /\ cancelled' = [cancelled EXCEPT ![a] = FALSE]
  /\ event' = [event EXCEPT ![a] = "none"]
  /\ applied' = [applied EXCEPT ![a] = FALSE]
  /\ stuck' = IF event[a] = "in_progress" THEN stuck + 1 ELSE stuck

-----------------------------------------------------------------------------
Begin(a, t) ==
  /\ pc[a] = "idle"
  /\ Goto(a, "manifest")
  /\ trigger' = [trigger EXCEPT ![a] = t]
  /\ UNCHANGED <<world, policy, lock, app, want, got, status, deadline, event,
                 applied, cancelled, stuck, faults, cancels>>

\* The poll loop comes to the unit; a person asks for a sync or a preview.
RunOnce(a) == a \in Poller /\ Begin(a, "auto")
ManualSync(a) == a \in Person /\ Begin(a, "manual")
DryRun(a) == a \in Person /\ Begin(a, "dryRun")

\* precondition.Check: a missing topic, or a check that fails, blocks the sync.
CheckPreconditions(a) ==
  \/ UNCHANGED <<status, faults>>
  \/ Fault /\ status' = [status EXCEPT ![a] = "Invalid"]

\* The service definition is read, from the cache or GitHub, and parsed; with
\* a failed precondition the live state is fetched all the same.
ReadManifest(a) ==
  /\ pc[a] = "manifest"
  /\ Alive(a)
  /\ \E m \in {manifest} \cup cached : want' = [want EXCEPT ![a] = m]
  /\ CheckPreconditions(a)
  /\ Goto(a, "fetch")
  /\ UNCHANGED <<world, policy, lock, app, trigger, got, deadline, event, applied,
                 cancelled, stuck, cancels>>

ReadManifestFails(a) ==
  /\ pc[a] = "manifest"
  /\ Fails(a)
  /\ status' = [status EXCEPT ![a] = "Invalid"]
  /\ Goto(a, "upsert")
  /\ UNCHANGED <<world, policy, lock, app, trigger, want, got, deadline, event,
                 applied, cancelled, stuck, cancels>>

\* Mutant of DeployTimeout: the work may take longer than the lock lasts.
DeployTimeoutLong == LockTTL + 1

\* deploySyncUnit's context, which bounds everything between lock and release.
DeployTimeout == LockTTL

\* applyLiveState.  The deadline of a deploy starts here, before its lock.
Fetch(a) ==
  /\ pc[a] = "fetch"
  /\ Alive(a)
  /\ LET s == IF status[a] # "unset" THEN status[a]
              ELSE IF live = Absent THEN "Missing" ELSE Compute(want[a], live)
         deploys == live # Absent /\ WouldDeploy(trigger[a], s)
     IN /\ status' = [status EXCEPT ![a] = s]
        /\ got' = [got EXCEPT ![a] = live]
        /\ Goto(a, IF deploys THEN "acquire" ELSE "upsert")
        /\ deadline' = [deadline EXCEPT ![a] = IF deploys THEN DeployTimeout ELSE 0]
  /\ UNCHANGED <<world, policy, lock, app, trigger, want, event, applied, cancelled,
                 stuck, faults, cancels>>

\* Mutant of FetchFails: the error is reported without a status.
FetchFailsSilently(a) ==
  /\ pc[a] = "fetch"
  /\ Fails(a)
  /\ Goto(a, "upsert")
  /\ UNCHANGED <<world, policy, lock, app, local, cancelled, stuck, cancels>>

FetchFails(a) ==
  /\ pc[a] = "fetch"
  /\ Fails(a)
  /\ status' = [status EXCEPT ![a] = IF @ = "unset" THEN "Invalid" ELSE @]
  /\ Goto(a, "upsert")
  /\ UNCHANGED <<world, policy, lock, app, trigger, want, got, deadline, event,
                 applied, cancelled, stuck, cancels>>

\* Mutant of LockFree: a lock that never expires.
LockFreeOnceReleased == holder = None

\* The conflict clause of acquireLock: no row, or an expired one.
LockFree == holder = None \/ lockLeft < 0

Acquire(a) ==
  /\ pc[a] = "acquire"
  /\ Alive(a)
  /\ LockFree
  /\ holder' = a /\ lockLeft' = LockTTL
  /\ Goto(a, "locked")
  /\ UNCHANGED <<world, policy, app, local, cancelled, stuck, faults, cancels>>

\* ErrSyncInProgress: the attempt ends without a write of its own.
AcquireRefused(a) ==
  /\ pc[a] = "acquire"
  /\ Alive(a)
  /\ ~LockFree
  /\ Forget(a)
  /\ UNCHANGED <<world, policy, lock, app, faults, cancels>>

\* The lock's INSERT fails, or its answer is lost: nobody will release it then.
AcquireFails(a) ==
  /\ pc[a] = "acquire"
  /\ Fails(a)
  /\ \/ UNCHANGED lock
     \/ LockFree /\ holder' = Orphan /\ lockLeft' = LockTTL
  /\ Goto(a, "upsert")
  /\ UNCHANGED <<world, policy, app, local, cancelled, stuck, cancels>>

\* The applications row must exist before a sync_events row refers to it.
UpsertFirst(a) ==
  /\ pc[a] = "locked"
  /\ \/ /\ Alive(a)
        /\ app' = Upserted(a)
        /\ Goto(a, "insert")
        /\ UNCHANGED faults
     \/ /\ Fails(a)
        /\ Goto(a, "release")
        /\ UNCHANGED app
  /\ UNCHANGED <<world, policy, lock, local, cancelled, stuck, cancels>>

InsertEvent(a) ==
  /\ pc[a] = "insert"
  /\ Alive(a)
  /\ event' = [event EXCEPT ![a] = "in_progress"]
  /\ Goto(a, "deploy")
  /\ UNCHANGED <<world, policy, lock, app, trigger, want, got, status, deadline,
                 applied, cancelled, stuck, faults, cancels>>

\* Mutant of InsertEventFails: the error is logged and the deploy goes ahead.
InsertEventIgnored(a) ==
  /\ pc[a] = "insert"
  /\ Fails(a)
  /\ Goto(a, "deploy")
  /\ UNCHANGED <<world, policy, lock, app, local, cancelled, stuck, cancels>>

\* The row may have been written although its id never came back: nothing
\* will update it.
InsertEventFails(a) ==
  /\ pc[a] = "insert"
  /\ Fails(a)
  /\ \E e \in {"none", "unreferenced"} : event' = [event EXCEPT ![a] = e]
  /\ Goto(a, "release")
  /\ UNCHANGED <<world, policy, lock, app, trigger, want, got, status, deadline,
                 applied, cancelled, stuck, cancels>>

\* The read-modify-write of DeployService: the etag it sends back makes it one
\* step of Cloud Run.
Deploy(a) ==
  /\ pc[a] = "deploy"
  /\ Alive(a)
  /\ live # Absent
  /\ live' = Deployed(Target(a), live)
  /\ applied' = [applied EXCEPT ![a] = TRUE]
  /\ Goto(a, "confirm")
  /\ UNCHANGED <<manifest, cached, edits, policy, lock, app, trigger, want, got, status,
                 deadline, event, cancelled, stuck, faults, cancels>>

\* Mutant of DeployFails: any answer ends the deploy.
DeployFailsUnseen(a) ==
  /\ pc[a] = "deploy"
  /\ Fails(a)
  /\ Goto(a, "succeeded")
  /\ UNCHANGED <<world, policy, lock, app, local, cancelled, stuck, cancels>>

\* A deploy that returns an error may have taken effect all the same.  One
\* that finds no resource always fails.
DeployFails(a) ==
  /\ pc[a] = "deploy"
  /\ Fails(a) \/ (live = Absent /\ UNCHANGED faults)
  /\ \/ UNCHANGED <<live, applied>>
     \/ /\ live # Absent
        /\ live' = Deployed(Target(a), live)
        /\ applied' = [applied EXCEPT ![a] = TRUE]
  /\ Goto(a, "failed")
  /\ UNCHANGED <<manifest, cached, edits, policy, lock, app, trigger, want, got, status,
                 deadline, event, cancelled, stuck, cancels>>

\* The post-deploy fetch.  Without it the pre-deploy status stands.
Confirm(a) ==
  /\ pc[a] = "confirm"
  /\ \/ /\ Alive(a) /\ live # Absent
        /\ got' = [got EXCEPT ![a] = live]
        /\ status' = [status EXCEPT ![a] = Compute(want[a], live)]
        /\ UNCHANGED faults
     \/ /\ Fails(a) \/ (live = Absent /\ UNCHANGED faults)
        /\ UNCHANGED <<got, status>>
  /\ Goto(a, "succeeded")
  /\ UNCHANGED <<world, policy, lock, app, trigger, want, deadline, event, applied,
                 cancelled, stuck, cancels>>

\* Mutant of UpdateEvent: the write shares the fate of the pass context.
UpdateEventAttached(a) ==
  /\ pc[a] \in {"failed", "succeeded"}
  /\ \/ Alive(a) /\ event' = [event EXCEPT ![a] = pc[a]] /\ UNCHANGED faults
     \/ Fails(a) /\ UNCHANGED event
  /\ Goto(a, "release")
  /\ UNCHANGED <<world, policy, lock, app, trigger, want, got, status, deadline,
                 applied, cancelled, stuck, cancels>>

\* updateSyncEvent, detached from the cancellation of the pass.
UpdateEvent(a) ==
  /\ pc[a] \in {"failed", "succeeded"}
  /\ \/ event' = [event EXCEPT ![a] = pc[a]] /\ UNCHANGED faults
     \/ Fault /\ UNCHANGED event
  /\ Goto(a, "release")
  /\ UNCHANGED <<world, policy, lock, app, trigger, want, got, status, deadline,
                 applied, cancelled, stuck, cancels>>

\* The WHERE clause of the DELETE: the row still carries the token.
Owns(a) == holder = a

\* releaseLock, detached too.
Release(a) ==
  /\ pc[a] = "release"
  /\ \/ /\ holder' = IF Owns(a) THEN None ELSE holder
        /\ lockLeft' = IF Owns(a) THEN -1 ELSE lockLeft
        /\ UNCHANGED faults
     \/ /\ Fault
        /\ holder' = IF holder = a THEN Orphan ELSE holder
        /\ UNCHANGED lockLeft
  /\ Goto(a, "upsert")
  /\ UNCHANGED <<world, policy, app, local, cancelled, stuck, cancels>>

\* RunOnce and ManualSync persist the result after the lock is gone; DryRun
\* returns it.
Finish(a) ==
  /\ pc[a] = "upsert"
  /\ \/ /\ Alive(a) /\ trigger[a] # "dryRun"
        /\ app' = Upserted(a)
        /\ UNCHANGED faults
     \/ trigger[a] # "dryRun" /\ Fails(a) /\ UNCHANGED app
     \/ trigger[a] = "dryRun" /\ UNCHANGED <<app, faults>>
  /\ Forget(a)
  /\ UNCHANGED <<world, policy, lock, cancels>>

-----------------------------------------------------------------------------
\* Leadership is lost or a request is abandoned: the pass context dies.
Cancel(a) ==
  /\ pc[a] # "idle" /\ ~cancelled[a]
  /\ cancels < MaxCancels
  /\ cancels' = cancels + 1
  /\ cancelled' = [cancelled EXCEPT ![a] = TRUE]
  /\ UNCHANGED <<world, policy, lock, app, pc, local, stuck, faults>>

\* The process dies and leaves its rows as they are.
Crash(a) ==
  /\ pc[a] # "idle"
  /\ Fault
  /\ holder' = IF holder = a THEN Orphan ELSE holder
  /\ Forget(a)
  /\ UNCHANGED <<world, policy, lockLeft, app, cancels>>

\* Somebody commits a manifest, or changes the resource outside of RunCD.
Commit ==
  /\ edits < MaxEdits /\ edits' = edits + 1
  /\ manifest' \in State \ {manifest}
  /\ cached' = cached \cup {manifest}
  /\ UNCHANGED <<live, policy, lock, app, pc, local, cancelled, stuck, faults, cancels>>

\* DefaultCacheTTL after a commit, every replica reads it.
Expire ==
  /\ cached # {} /\ cached' = {}
  /\ UNCHANGED <<manifest, live, edits, policy, lock, app, pc, local, cancelled, stuck,
                 faults, cancels>>

DeployOutside ==
  /\ edits < MaxEdits /\ edits' = edits + 1
  /\ live' \in (State \cup {Absent}) \ {live}
  /\ UNCHANGED <<manifest, cached, policy, lock, app, pc, local, cancelled, stuck, faults, cancels>>

\* Time passes, but not past the deadline of a call that has not returned.
Tick ==
  /\ \A a \in Attempt : pc[a] \in Timed => deadline[a] > 0
  /\ lockLeft' = IF lockLeft < 0 THEN -1 ELSE lockLeft - 1
  /\ deadline' = [a \in Attempt |-> IF pc[a] \in Timed THEN deadline[a] - 1
                                                       ELSE deadline[a]]
  /\ UNCHANGED <<world, policy, holder, app, pc, trigger, want, got, status, event,
                 applied, cancelled, stuck, faults, cancels>>

Step(a) ==
  \/ ReadManifest(a) \/ ReadManifestFails(a) \/ Fetch(a) \/ FetchFails(a)
  \/ Acquire(a) \/ AcquireRefused(a) \/ AcquireFails(a)
  \/ UpsertFirst(a) \/ InsertEvent(a) \/ InsertEventFails(a)
  \/ Deploy(a) \/ DeployFails(a) \/ Confirm(a) \/ UpdateEvent(a)
  \/ Release(a) \/ Finish(a)

Next ==
  \/ Tick \/ Commit \/ Expire \/ DeployOutside
  \/ \E a \in Attempt :
       \/ RunOnce(a) \/ ManualSync(a) \/ DryRun(a)
       \/ Step(a) \/ Cancel(a) \/ Crash(a)

Spec == Init /\ [][Next]_vars

\* Time goes on, every call returns (its context or its own timeout ends it)
\* and the leader polls again.  People, commits and faults promise nothing.
FairSpec ==
  /\ Spec
  /\ WF_vars(Tick) /\ WF_vars(Expire)
  /\ \A a \in Attempt : WF_vars(Step(a))
  /\ \A a \in Poller : WF_vars(RunOnce(a))

-----------------------------------------------------------------------------
\* The inductive invariant: a worker's lock outlasts its deadline, its deploy
\* is announced, and success is claimed of what was applied.
Sound(a) ==
  /\ pc[a] \in Section => holder = a /\ lockLeft >= deadline[a]
  /\ pc[a] = "deploy" => event[a] = "in_progress"
  /\ pc[a] \in {"confirm", "succeeded"} => applied[a]
  /\ event[a] = "succeeded" => applied[a]
  /\ pc[a] \in Timed \cup {"fetch"} => want[a] # Absent
  /\ pc[a] \in Timed => got[a] # Absent
  /\ pc[a] \notin {"idle", "manifest", "fetch"} => status[a] # "unset"

SyncInv == TypeOK /\ \A a \in Attempt : Sound(a)

\* sync_locks excludes: two attempts never work on the unit at once, whatever
\* expires, crashes or is cancelled (the deadline starts before the lock).
NoConcurrentDeploys ==
  \A a, b \in Attempt : pc[a] \in Section /\ pc[b] \in Section => a = b

\* An attempt at work holds an unexpired lock row that carries its token: no
\* predecessor whose own lock expired releases it or outlives it.
WorkerHoldsLock ==
  \A a \in Attempt : pc[a] \in Section => holder = a /\ lockLeft >= 0

\* The crash-safety contract: RunCD changes the resource only under a
\* sync_events row that is already in_progress.
DeployIsAnnounced ==
  [][\A a \in Attempt : applied'[a] /\ ~applied[a] => event[a] = "in_progress"]_vars

\* What UnitDeploys sees of the attempts.
Working == {a \in Attempt : pc[a] \in Section}
Announced == {a \in Attempt : event[a] = "in_progress"}
Deploys == INSTANCE UnitDeploys WITH
  Value <- State \cup {Absent}, working <- Working, open <- Announced,
  resource <- live, outside <- edits

\* Attempts work on the resource one after the other and write it only once
\* announced; all else that happens to it is from outside: a sync
\* (deploySyncUnit) implements UnitDeploys.
DeploysAreSerial == Deploys!Spec

\* Cancelling a pass never leaves its announced deploy in_progress: each row
\* left that way is accounted for by a crash or a failed database write.
NoForgottenEvents == stuck <= faults

\* A sync_events row says succeeded only of a deploy that took effect.
SucceededMeansApplied ==
  \A a \in Attempt : event[a] = "succeeded" => applied[a]

\* A failed fetch never blanks an image the applications row knows.
RowKeepsImages ==
  [][/\ app.desired # Blank => app'.desired # Blank
     /\ app.live # Blank => app'.live # Blank]_vars

\* An auto-synced unit converges, and its row with it: once commits, changes
\* from outside and faults are over, the resource runs what the manifest
\* asks for and the row says Synced, for good.
Converged == live # Absent /\ Compute(manifest, live) = "Synced" /\ app.status = "Synced"
AutoSyncConverges == policy = "auto" => <>[](Converged \/ live = Absent)
=============================================================================
