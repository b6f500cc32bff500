--------------------------- MODULE SyncUnitProofs ---------------------------
(***************************************************************************)
(* The per-unit lock and the audit trail are safe for any number of        *)
(* attempts, any lock TTL and any bound on faults.                         *)
(***************************************************************************)
EXTENDS SyncUnit, FiniteSetTheorems, TLAPS

\* What the pieces of a result are made of.
LEMMA ComputeType == \A d, l : Compute(d, l) \in {"Synced", "OutOfSync"}
  BY DEF Compute

\* A row built from a well-typed result is well typed.
LEMMA UpsertedType ==
  ASSUME SyncInv, NEW a \in Attempt, status[a] # "unset"
  PROVE  Upserted(a) \in [status : {"none", "Invalid", "Missing", "Synced", "OutOfSync"},
                          desired : Digest \cup {Blank}, live : Digest \cup {Blank}]
<1>1. status[a] \in {"unset", "Invalid", "Missing", "Synced", "OutOfSync"}
  BY DEF SyncInv, TypeOK
<1>2. want[a] \in State \cup {Absent} /\ got[a] \in State \cup {Absent}
  BY DEF SyncInv, TypeOK
<1>3. app.desired \in Digest \cup {Blank} /\ app.live \in Digest \cup {Blank}
  BY DEF SyncInv, TypeOK
<1> QED
  BY <1>1, <1>2, <1>3 DEF Upserted, State

\* A deploy leaves a well-typed resource.
LEMMA DeployedType ==
  ASSUME SyncInv, NEW a \in Attempt, pc[a] = "deploy", live # Absent
  PROVE  Deployed(Target(a), live) \in State
<1>1. want[a] \in State /\ got[a] \in State /\ live \in State
  BY DEF SyncInv, TypeOK, Sound, Timed, Section
<1>2. Target(a) \in State
  BY <1>1 DEF Target, State
<1> QED
  BY <1>1, <1>2 DEF Deployed, State

\* While an attempt is at work nobody can take its lock over.
LEMMA WorkerBlocksLock ==
  ASSUME SyncInv, NEW a \in Attempt, pc[a] \in Section
  PROVE  holder = a /\ lockLeft >= 0 /\ ~LockFree
<1>1. holder = a /\ lockLeft >= deadline[a]
  BY DEF SyncInv, Sound
<1>2. deadline[a] \in Nat /\ lockLeft \in Int
  BY SyncAssumption DEF SyncInv, TypeOK
<1> QED
  BY <1>1, <1>2, SyncAssumption DEF LockFree, Attempt

\* Initially every attempt is idle.
LEMMA SyncInvInit == Init => SyncInv
<1> SUFFICES ASSUME Init PROVE SyncInv
  OBVIOUS
<1>1. /\ manifest \in State /\ cached \subseteq State /\ live \in State \cup {Absent} /\ policy \in Policies
      /\ holder \in Attempt \cup {None, Orphan} /\ lockLeft \in -1..LockTTL
      /\ stuck \in Nat /\ faults \in 0..MaxFaults /\ cancels \in 0..MaxCancels
      /\ edits \in 0..MaxEdits
  BY SyncAssumption DEF Init
<1>2. app \in [status : {"none", "Invalid", "Missing", "Synced", "OutOfSync"},
              desired : Digest \cup {Blank}, live : Digest \cup {Blank}]
  BY DEF Init, NoRow
<1>3. /\ pc \in [Attempt -> PC]
      /\ trigger \in [Attempt -> {"auto", "manual", "dryRun"}]
      /\ want \in [Attempt -> State \cup {Absent}]
      /\ got \in [Attempt -> State \cup {Absent}]
  BY DEF Init, PC
<1>4. /\ status \in [Attempt -> {"unset", "Invalid", "Missing", "Synced", "OutOfSync"}]
      /\ deadline \in [Attempt -> 0..LockTTL]
      /\ cancelled \in [Attempt -> BOOLEAN]
      /\ event \in [Attempt -> {"none", "unreferenced", "in_progress", "succeeded", "failed"}]
      /\ applied \in [Attempt -> BOOLEAN]
  BY SyncAssumption DEF Init
<1>5. \A a \in Attempt : Sound(a)
  BY DEF Init, Sound, Timed, Section
<1> QED
  BY <1>1, <1>2, <1>3, <1>4, <1>5 DEF SyncInv, TypeOK

\* One step per operation of an attempt.
LEMMA SyncInvStep == SyncInv /\ [Next]_vars => SyncInv'
<1> SUFFICES ASSUME SyncInv, [Next]_vars PROVE SyncInv'
  OBVIOUS
<1> USE SyncAssumption
<1>t. TypeOK
  BY DEF SyncInv
<1>i. \A a \in Attempt : Sound(a)
  BY DEF SyncInv
<1>pc. ASSUME NEW b \in Attempt, NEW l \in PC, Goto(b, l)
       PROVE  /\ pc' \in [Attempt -> PC] /\ pc'[b] = l
              /\ \A a \in Attempt : a # b => pc'[a] = pc[a]
  BY <1>t, <1>pc DEF Goto, TypeOK
<1>f. ASSUME NEW b \in Attempt, Fails(b) \/ Fault
      PROVE  faults' \in 0..MaxFaults
  BY <1>t, <1>f DEF Fails, Fault, TypeOK
<1>g. ASSUME NEW b \in Attempt, Forget(b), faults' \in 0..MaxFaults,
             UNCHANGED <<world, policy, cancels>>,
             lockLeft' = lockLeft, holder' \in {holder, Orphan},
             holder = b \/ holder' = holder,
             app' \in {app, Upserted(b)}, app' = app \/ status[b] # "unset"
      PROVE  SyncInv'
  <2>1. app' \in [status : {"none", "Invalid", "Missing", "Synced", "OutOfSync"},
                  desired : Digest \cup {Blank}, live : Digest \cup {Blank}]
    BY <1>t, <1>g, UpsertedType DEF TypeOK
  <2>2. /\ pc' \in [Attempt -> PC]
        /\ trigger' \in [Attempt -> {"auto", "manual", "dryRun"}]
        /\ want' \in [Attempt -> State \cup {Absent}]
        /\ got' \in [Attempt -> State \cup {Absent}]
    BY <1>t, <1>g DEF Forget, Goto, TypeOK, PC
  <2>3. /\ status' \in [Attempt -> {"unset", "Invalid", "Missing", "Synced", "OutOfSync"}]
        /\ deadline' \in [Attempt -> 0..LockTTL]
        /\ cancelled' \in [Attempt -> BOOLEAN]
    BY <1>t, <1>g DEF Forget, TypeOK
  <2>4. /\ event' \in [Attempt -> {"none", "unreferenced", "in_progress", "succeeded", "failed"}]
        /\ applied' \in [Attempt -> BOOLEAN]
        /\ stuck' \in Nat
    BY <1>t, <1>g DEF Forget, TypeOK
  <2>5. TypeOK'
    BY <1>t, <1>g, <2>1, <2>2, <2>3, <2>4 DEF TypeOK, world
  <2>6. ASSUME NEW a \in Attempt, a # b PROVE Sound(a)'
    <3>1. /\ pc'[a] = pc[a] /\ deadline'[a] = deadline[a] /\ event'[a] = event[a]
          /\ applied'[a] = applied[a] /\ want'[a] = want[a] /\ got'[a] = got[a]
          /\ status'[a] = status[a]
      BY <1>t, <1>g, <2>6 DEF Forget, Goto, TypeOK
    <3> QED
      BY <1>i, <1>g, <2>6, <3>1 DEF Sound
  <2>7. Sound(b)'
    BY <1>t, <1>g DEF Forget, Goto, TypeOK, Sound, Timed, Section
  <2> QED
    BY <2>5, <2>6, <2>7 DEF SyncInv
<1>1. ASSUME NEW b \in Attempt, \E t \in {"auto", "manual", "dryRun"} : Begin(b, t) PROVE SyncInv'
  <2>1. TypeOK'
    BY <1>t, <1>f, <1>1 DEF Begin, TypeOK, PC, Goto, world, lock, local
  <2>2. ASSUME NEW a \in Attempt PROVE Sound(a)'
    BY <1>t, <1>i, <1>1 DEF Begin, TypeOK, Sound, Goto, Timed, Section, world, lock, local
  <2> QED
    BY <2>1, <2>2 DEF SyncInv
<1>2. ASSUME NEW b \in Attempt, ReadManifest(b) PROVE SyncInv'
  <2>1. TypeOK'
    BY <1>t, <1>f, <1>2 DEF ReadManifest, CheckPreconditions, TypeOK, PC, Goto, world, lock, local
  <2>2. ASSUME NEW a \in Attempt PROVE Sound(a)'
    BY <1>t, <1>i, <1>2, AbsentAssumption
    DEF ReadManifest, CheckPreconditions, TypeOK, Sound, Goto, Timed, Section, world, lock, local
  <2> QED
    BY <2>1, <2>2 DEF SyncInv
<1>3. ASSUME NEW b \in Attempt, ReadManifestFails(b) PROVE SyncInv'
  <2>1. TypeOK'
    BY <1>t, <1>f, <1>3 DEF ReadManifestFails, TypeOK, PC, Goto, world, lock, local
  <2>2. ASSUME NEW a \in Attempt PROVE Sound(a)'
    BY <1>t, <1>i, <1>3 DEF ReadManifestFails, TypeOK, Sound, Goto, Timed, Section, world, lock, local
  <2> QED
    BY <2>1, <2>2 DEF SyncInv
<1>4. ASSUME NEW b \in Attempt, Fetch(b) PROVE SyncInv'
  <2>1. TypeOK'
    <3>1. pc' \in [Attempt -> PC] /\ deadline' \in [Attempt -> 0..LockTTL]
      BY <1>t, <1>4 DEF Fetch, DeployTimeout, TypeOK, PC, Goto, Timed, Section
    <3>2. status' \in [Attempt -> {"unset", "Invalid", "Missing", "Synced", "OutOfSync"}]
      BY <1>t, <1>4, ComputeType DEF Fetch, TypeOK
    <3> QED
      BY <1>t, <1>4, <3>1, <3>2 DEF Fetch, TypeOK, world, lock
  <2>2. ASSUME NEW a \in Attempt PROVE Sound(a)'
    BY <1>t, <1>i, <1>4, ComputeType DEF Fetch, WouldDeploy, DeployTimeout, TypeOK, Sound, Goto, Timed, Section, world, lock, local
  <2> QED
    BY <2>1, <2>2 DEF SyncInv
<1>5. ASSUME NEW b \in Attempt, FetchFails(b) PROVE SyncInv'
  <2>1. TypeOK'
    BY <1>t, <1>f, <1>5 DEF FetchFails, TypeOK, PC, Goto, world, lock, local
  <2>2. ASSUME NEW a \in Attempt PROVE Sound(a)'
    BY <1>t, <1>i, <1>5 DEF FetchFails, TypeOK, Sound, Goto, Timed, Section, world, lock, local
  <2> QED
    BY <2>1, <2>2 DEF SyncInv
<1>6. ASSUME NEW b \in Attempt, Acquire(b) PROVE SyncInv'
  <2>1. TypeOK'
    BY <1>t, <1>f, <1>6 DEF Acquire, Timed, Section, TypeOK, PC, Goto, world, lock, local
  <2>2. ASSUME NEW a \in Attempt PROVE Sound(a)'
    BY <1>t, <1>i, <1>6, WorkerBlocksLock DEF Acquire, TypeOK, Sound, Goto, Timed, Section, world, lock, local
  <2> QED
    BY <2>1, <2>2 DEF SyncInv
<1>7. ASSUME NEW b \in Attempt, AcquireRefused(b) PROVE SyncInv'
  BY <1>t, <1>g, <1>7 DEF AcquireRefused, TypeOK, lock
<1>8. ASSUME NEW b \in Attempt, AcquireFails(b) PROVE SyncInv'
  <2>1. TypeOK'
    BY <1>t, <1>f, <1>8 DEF AcquireFails, TypeOK, PC, Goto, world, lock, local
  <2>2. ASSUME NEW a \in Attempt PROVE Sound(a)'
    BY <1>t, <1>i, <1>8, WorkerBlocksLock DEF AcquireFails, TypeOK, Sound, Goto, Timed, Section, world, lock, local
  <2> QED
    BY <2>1, <2>2 DEF SyncInv
<1>9. ASSUME NEW b \in Attempt, UpsertFirst(b) PROVE SyncInv'
  <2>1. TypeOK'
    <3>1. status[b] # "unset"
      BY <1>i, <1>9 DEF UpsertFirst, Sound
    <3>2. pc' \in [Attempt -> PC]
      BY <1>t, <1>9 DEF UpsertFirst, TypeOK, PC, Goto, Timed, Section
    <3>3. app' = Upserted(b) \/ app' = app
      BY <1>9 DEF UpsertFirst
    <3>4. faults' \in 0..MaxFaults
      BY <1>t, <1>f, <1>9 DEF UpsertFirst, TypeOK
    <3> QED
      BY <1>t, <1>9, <3>1, <3>2, <3>3, <3>4, UpsertedType
      DEF UpsertFirst, TypeOK, world, lock, local
  <2>2. ASSUME NEW a \in Attempt PROVE Sound(a)'
    BY <1>t, <1>i, <1>9 DEF UpsertFirst, TypeOK, Sound, Goto, Timed, Section, world, lock, local
  <2> QED
    BY <2>1, <2>2 DEF SyncInv
<1>10. ASSUME NEW b \in Attempt, InsertEvent(b) PROVE SyncInv'
  <2>1. TypeOK'
    BY <1>t, <1>f, <1>10 DEF InsertEvent, Timed, Section, TypeOK, PC, Goto, world, lock, local
  <2>2. ASSUME NEW a \in Attempt PROVE Sound(a)'
    BY <1>t, <1>i, <1>10 DEF InsertEvent, TypeOK, Sound, Goto, Timed, Section, world, lock, local
  <2> QED
    BY <2>1, <2>2 DEF SyncInv
<1>11. ASSUME NEW b \in Attempt, InsertEventFails(b) PROVE SyncInv'
  <2>1. TypeOK'
    BY <1>t, <1>f, <1>11 DEF InsertEventFails, TypeOK, PC, Goto, world, lock, local
  <2>2. ASSUME NEW a \in Attempt PROVE Sound(a)'
    BY <1>t, <1>i, <1>11 DEF InsertEventFails, TypeOK, Sound, Goto, Timed, Section, world, lock, local
  <2> QED
    BY <2>1, <2>2 DEF SyncInv
<1>12. ASSUME NEW b \in Attempt, Deploy(b) PROVE SyncInv'
  <2>1. TypeOK'
    BY <1>t, <1>f, <1>12, DeployedType DEF Deploy, Timed, Section, TypeOK, PC, Goto, world, lock, local
  <2>2. ASSUME NEW a \in Attempt PROVE Sound(a)'
    BY <1>t, <1>i, <1>12 DEF Deploy, TypeOK, Sound, Goto, Timed, Section, world, lock, local
  <2> QED
    BY <2>1, <2>2 DEF SyncInv
<1>13. ASSUME NEW b \in Attempt, DeployFails(b) PROVE SyncInv'
  <2>1. TypeOK'
    <3>1. live' \in State \cup {Absent} /\ applied' \in [Attempt -> BOOLEAN]
      <4>1. pc[b] = "deploy"
        BY <1>13 DEF DeployFails
      <4>2. CASE UNCHANGED <<live, applied>>
        BY <1>t, <4>2 DEF TypeOK
      <4>3. CASE /\ live # Absent
                 /\ live' = Deployed(Target(b), live)
                 /\ applied' = [applied EXCEPT ![b] = TRUE]
        BY <1>t, <4>1, <4>3, DeployedType DEF TypeOK
      <4> QED
        BY <1>13, <4>2, <4>3 DEF DeployFails
    <3>2. pc' \in [Attempt -> PC] /\ faults' \in 0..MaxFaults
      BY <1>t, <1>f, <1>13 DEF DeployFails, TypeOK, PC, Goto
    <3> QED
      BY <1>t, <1>13, <3>1, <3>2 DEF DeployFails, TypeOK, lock
  <2>2. ASSUME NEW a \in Attempt PROVE Sound(a)'
    BY <1>t, <1>i, <1>13 DEF DeployFails, TypeOK, Sound, Goto, Timed, Section, world, lock, local
  <2> QED
    BY <2>1, <2>2 DEF SyncInv
<1>14. ASSUME NEW b \in Attempt, Confirm(b) PROVE SyncInv'
  <2>1. TypeOK'
    BY <1>t, <1>f, <1>14, ComputeType DEF Confirm, TypeOK, PC, Goto, world, lock, local
  <2>2. ASSUME NEW a \in Attempt PROVE Sound(a)'
    BY <1>t, <1>i, <1>14, ComputeType DEF Confirm, TypeOK, Sound, Goto, Timed, Section, world, lock, local
  <2> QED
    BY <2>1, <2>2 DEF SyncInv
<1>15. ASSUME NEW b \in Attempt, UpdateEvent(b) PROVE SyncInv'
  <2>1. TypeOK'
    BY <1>t, <1>f, <1>15 DEF UpdateEvent, TypeOK, PC, Goto, world, lock, local
  <2>2. ASSUME NEW a \in Attempt PROVE Sound(a)'
    BY <1>t, <1>i, <1>15 DEF UpdateEvent, TypeOK, Sound, Goto, Timed, Section, world, lock, local
  <2> QED
    BY <2>1, <2>2 DEF SyncInv
<1>16. ASSUME NEW b \in Attempt, Release(b) PROVE SyncInv'
  <2>1. TypeOK'
    BY <1>t, <1>f, <1>16 DEF Release, Owns, TypeOK, PC, Goto, world, lock, local
  <2>2. ASSUME NEW a \in Attempt PROVE Sound(a)'
    BY <1>t, <1>i, <1>16 DEF Release, Owns, TypeOK, Sound, Goto, Timed, Section, world, lock, local
  <2> QED
    BY <2>1, <2>2 DEF SyncInv
<1>17. ASSUME NEW b \in Attempt, Finish(b) PROVE SyncInv'
  BY <1>t, <1>i, <1>f, <1>g, <1>17 DEF Finish, TypeOK, Sound, lock
<1>18. ASSUME NEW b \in Attempt, Cancel(b) PROVE SyncInv'
  <2>1. TypeOK'
    BY <1>t, <1>18 DEF Cancel, TypeOK, world, lock, local
  <2>2. ASSUME NEW a \in Attempt PROVE Sound(a)'
    BY <1>i, <1>18 DEF Cancel, Sound, lock, local
  <2> QED
    BY <2>1, <2>2 DEF SyncInv
<1>19. ASSUME NEW b \in Attempt, Crash(b) PROVE SyncInv'
  BY <1>t, <1>f, <1>g, <1>19 DEF Crash, TypeOK
<1>20. ASSUME Commit \/ Expire \/ DeployOutside PROVE SyncInv'
  <2>1. TypeOK'
    BY <1>t, <1>20 DEF Commit, Expire, DeployOutside, TypeOK, lock, local
  <2>2. ASSUME NEW a \in Attempt PROVE Sound(a)'
    BY <1>i, <1>20 DEF Commit, Expire, DeployOutside, Sound, lock, local
  <2> QED
    BY <2>1, <2>2 DEF SyncInv
<1>21. ASSUME Tick PROVE SyncInv'
  <2>1. TypeOK'
    BY <1>t, <1>21 DEF Tick, TypeOK, world
  <2>2. ASSUME NEW a \in Attempt PROVE Sound(a)'
    <3>1. pc[a] \in Section => lockLeft >= 0 /\ deadline[a] > 0 /\ deadline'[a] = deadline[a] - 1
      BY <1>t, <1>21, WorkerBlocksLock DEF Tick, Timed
    <3>2. deadline[a] \in Int /\ lockLeft \in Int
      BY <1>t DEF TypeOK
    <3> QED
      BY <1>i, <1>21, <3>1, <3>2 DEF Tick, Sound
  <2> QED
    BY <2>1, <2>2 DEF SyncInv
<1>22. ASSUME UNCHANGED vars PROVE SyncInv'
  <2>1. TypeOK'
    BY <1>t, <1>22 DEF TypeOK, vars, world, lock, local
  <2>2. ASSUME NEW a \in Attempt PROVE Sound(a)'
    BY <1>i, <1>22 DEF Sound, vars, lock, local
  <2> QED
    BY <2>1, <2>2 DEF SyncInv
<1> QED
  <2>1. ASSUME NEW b \in Attempt, Step(b) PROVE SyncInv'
    BY <2>1, <1>2, <1>3, <1>4, <1>5, <1>6, <1>7, <1>8, <1>9, <1>10, <1>11, <1>12,
       <1>13, <1>14, <1>15, <1>16, <1>17 DEF Step
  <2> QED
    BY <2>1, <1>1, <1>18, <1>19, <1>20, <1>21, <1>22 DEF Next, RunOnce, ManualSync, DryRun

\* SyncInv holds throughout.
THEOREM SyncInvariant == Spec => []SyncInv
  BY SyncInvInit, SyncInvStep, PTL DEF Spec

\* The state of the unit and its attempts is always well typed (TypeOK).
THEOREM TypeCorrect == Spec => []TypeOK
<1>1. SyncInv => TypeOK
  BY DEF SyncInv
<1> QED
  BY <1>1, SyncInvariant, PTL

\* An attempt at work holds an unexpired lock (WorkerHoldsLock).
THEOREM LockSafety == Spec => []WorkerHoldsLock
<1>1. SyncInv => WorkerHoldsLock
  BY WorkerBlocksLock DEF WorkerHoldsLock
<1> QED
  BY <1>1, SyncInvariant, PTL

\* No two attempts deploy the unit at once (NoConcurrentDeploys).
THEOREM DeployExclusion == Spec => []NoConcurrentDeploys
<1>1. WorkerHoldsLock => NoConcurrentDeploys
  BY DEF WorkerHoldsLock, NoConcurrentDeploys
<1> QED
  BY <1>1, LockSafety, PTL

\* RunCD deploys only what it announced (DeployIsAnnounced).
THEOREM AnnouncementSafety == Spec => DeployIsAnnounced
<1>1. ASSUME SyncInv, [Next]_vars
      PROVE  [\A a \in Attempt : applied'[a] /\ ~applied[a] => event[a] = "in_progress"]_vars
  <2> SUFFICES ASSUME NEW a \in Attempt, applied'[a], ~applied[a]
               PROVE  event[a] = "in_progress"
    BY DEF vars, local
  <2>1. applied \in [Attempt -> BOOLEAN]
    BY <1>1 DEF SyncInv, TypeOK
  <2>2. PICK b \in Attempt : Deploy(b) \/ DeployFails(b)
    <3>1. applied' # applied
      OBVIOUS
    <3>2. ASSUME NEW b \in Attempt, Forget(b) PROVE FALSE
      BY <2>1, <3>2 DEF Forget
    <3>3. ASSUME NEW b \in Attempt, Step(b), ~Deploy(b), ~DeployFails(b) PROVE FALSE
      BY <3>1, <3>2, <3>3 DEF Step, ReadManifest, ReadManifestFails, Fetch, FetchFails,
         Acquire, AcquireRefused, AcquireFails, UpsertFirst, InsertEvent,
         InsertEventFails, Confirm, UpdateEvent, Release, Finish, local
    <3> QED
      BY <1>1, <3>1, <3>2, <3>3 DEF Next, RunOnce, ManualSync, DryRun, Begin, Cancel, Crash, Commit, Expire,
         DeployOutside, Tick, vars, local
  <2>3. a = b /\ pc[a] = "deploy"
    BY <2>1, <2>2 DEF Deploy, DeployFails
  <2> QED
    BY <1>1, <2>3 DEF SyncInv, Sound
<1> QED
  BY <1>1, SyncInvariant, PTL DEF Spec, DeployIsAnnounced

\* Success is recorded only of a deploy that took effect (SucceededMeansApplied).
THEOREM AuditSafety == Spec => []SucceededMeansApplied
<1>1. SyncInv => SucceededMeansApplied
  BY DEF SyncInv, Sound, SucceededMeansApplied
<1> QED
  BY <1>1, SyncInvariant, PTL

-----------------------------------------------------------------------------
\* The row changes only to what an attempt makes of it.
LEMMA RowStep ==
  ASSUME [Next]_vars, app' # app
  PROVE  \E a \in Attempt : app' = Upserted(a)
<1>1. ASSUME NEW b \in Attempt, Step(b) PROVE app' = Upserted(b)
  BY <1>1 DEF Step, ReadManifest, ReadManifestFails, Fetch, FetchFails, Acquire,
     AcquireRefused, AcquireFails, UpsertFirst, InsertEvent, InsertEventFails, Deploy,
     DeployFails, Confirm, UpdateEvent, Release, Finish
<1> QED
  BY <1>1 DEF Next, RunOnce, ManualSync, DryRun, Begin, Cancel, Crash, Commit, Expire,
     DeployOutside, Tick, vars

\* No pass blanks an image that the row knows, whatever its fetches came to
\* (RowKeepsImages).
THEOREM RowSafety == Spec => RowKeepsImages
<1>1. ASSUME SyncInv, [Next]_vars
      PROVE  [/\ app.desired # Blank => app'.desired # Blank
              /\ app.live # Blank => app'.live # Blank]_vars
  <2>1. CASE app' = app
    BY <2>1
  <2>2. CASE app' # app
    <3>1. PICK a \in Attempt : app' = Upserted(a)
      BY <1>1, <2>2, RowStep
    <3>2. want[a] \in State \cup {Absent} /\ got[a] \in State \cup {Absent}
      BY <1>1 DEF SyncInv, TypeOK
    <3>3. /\ want[a] # Absent => want[a].image # Blank
          /\ got[a] # Absent => got[a].image # Blank
      BY <3>2, AbsentAssumption DEF State
    <3> QED
      BY <3>1, <3>3 DEF Upserted
  <2> QED
    BY <2>1, <2>2
<1> QED
  BY <1>1, SyncInvariant, PTL DEF Spec, RowKeepsImages

-----------------------------------------------------------------------------
\* The attempts that are about to leave a row in_progress: the write that
\* should have closed it has failed.
Owed == {a \in Attempt : pc[a] \in {"release", "upsert"} /\ event[a] = "in_progress"}

\* Each row left in_progress, and each that is about to be, has its fault; an
\* attempt that has not announced a deploy has no such row.
Accounted ==
  /\ \A a \in Attempt : pc[a] \in {"idle", "manifest", "fetch", "acquire", "locked", "insert"}
                        => event[a] # "in_progress"
  /\ IsFiniteSet(Owed)
  /\ stuck + Cardinality(Owed) <= faults

\* The balance after a step that leaves nothing behind and owes nothing new.
LEMMA BalanceKept ==
  ASSUME TypeOK, TypeOK', Accounted, stuck' = stuck, faults' >= faults, Owed' \subseteq Owed
  PROVE  IsFiniteSet(Owed') /\ stuck' + Cardinality(Owed') <= faults'
<1>1. IsFiniteSet(Owed') /\ Cardinality(Owed') <= Cardinality(Owed)
  BY FS_Subset DEF Accounted
<1>2. Cardinality(Owed) \in Nat /\ Cardinality(Owed') \in Nat
  BY <1>1, FS_CardinalityType DEF Accounted
<1> QED
  BY <1>1, <1>2, SyncAssumption DEF Accounted, TypeOK

\* And after an attempt has ended: what it leaves in_progress it owed before,
\* or it has crashed.
LEMMA BalanceForget ==
  ASSUME TypeOK, TypeOK', Accounted, NEW b \in Attempt, Forget(b), faults' >= faults,
         faults' > faults \/ b \in Owed \/ event[b] # "in_progress"
  PROVE  Accounted'
<1>1. Owed' = Owed \ {b}
  BY DEF Owed, Forget, Goto, TypeOK
<1>2. /\ IsFiniteSet(Owed')
      /\ Cardinality(Owed') = IF b \in Owed THEN Cardinality(Owed) - 1 ELSE Cardinality(Owed)
  BY <1>1, FS_RemoveElement DEF Accounted
<1>3. Cardinality(Owed) \in Nat
  BY FS_CardinalityType DEF Accounted
<1>4. stuck' + Cardinality(Owed') <= faults'
  <2>1. /\ stuck \in Nat /\ faults \in Nat /\ faults' \in Nat
        /\ stuck' = stuck \/ (stuck' = stuck + 1 /\ event[b] = "in_progress")
        /\ stuck + Cardinality(Owed) <= faults
    BY SyncAssumption DEF TypeOK, Forget, Accounted
  <2> QED
    BY <1>2, <1>3, <2>1
<1>5. ASSUME NEW a \in Attempt,
             pc'[a] \in {"idle", "manifest", "fetch", "acquire", "locked", "insert"}
      PROVE  event'[a] # "in_progress"
  BY <1>5 DEF Accounted, Forget, Goto, TypeOK
<1> QED
  BY <1>2, <1>4, <1>5 DEF Accounted

\* Only the failed write of UpdateEvent adds to what is owed, and pays for it.
LEMMA AccountedStep == SyncInv /\ SyncInv' /\ Accounted /\ [Next]_vars => Accounted'
<1> SUFFICES ASSUME SyncInv, SyncInv', Accounted, [Next]_vars PROVE Accounted'
  OBVIOUS
<1>t. TypeOK /\ TypeOK'
  BY DEF SyncInv
<1>a. \A a \in Attempt : pc[a] \in {"idle", "manifest", "fetch", "acquire", "locked", "insert"}
                         => event[a] # "in_progress"
  BY DEF Accounted
<1>f. ASSUME NEW b \in Attempt, Fails(b) \/ Fault \/ UNCHANGED faults
      PROVE  faults' >= faults
  BY <1>t, <1>f, SyncAssumption DEF Fails, Fault, TypeOK
<1>1. ASSUME NEW b \in Attempt, NEW l \in PC, Goto(b, l), event' = event, stuck' = stuck,
             faults' >= faults,
             \/ pc[b] \in {"release", "upsert"}
             \/ pc[b] \in {"idle", "manifest", "fetch", "acquire", "locked", "insert"}
             \/ l \in {"confirm", "failed", "succeeded"},
             \/ l \notin {"idle", "manifest", "fetch", "acquire", "locked", "insert"}
             \/ pc[b] \in {"idle", "manifest", "fetch", "acquire", "locked", "insert"}
      PROVE  Accounted'
  <2>1. Owed' \subseteq Owed
    BY <1>t, <1>a, <1>1 DEF Owed, Goto, TypeOK
  <2>2. ASSUME NEW a \in Attempt,
               pc'[a] \in {"idle", "manifest", "fetch", "acquire", "locked", "insert"}
        PROVE  event'[a] # "in_progress"
    BY <1>t, <1>a, <1>1, <2>2 DEF Goto, TypeOK
  <2> QED
    BY <1>t, <1>1, <2>1, <2>2, BalanceKept DEF Accounted
<1>2. ASSUME NEW b \in Attempt, \E t \in {"auto", "manual", "dryRun"} : Begin(b, t)
      PROVE  Accounted'
  BY <1>t, <1>f, <1>1, <1>2 DEF Begin, PC
<1>3. ASSUME NEW b \in Attempt, ReadManifest(b) PROVE Accounted'
  BY <1>t, <1>f, <1>1, <1>3 DEF ReadManifest, CheckPreconditions, PC
<1>4. ASSUME NEW b \in Attempt, ReadManifestFails(b) \/ FetchFails(b) PROVE Accounted'
  BY <1>t, <1>f, <1>1, <1>4 DEF ReadManifestFails, FetchFails, PC
<1>5. ASSUME NEW b \in Attempt, Fetch(b) PROVE Accounted'
  BY <1>t, <1>f, <1>1, <1>5 DEF Fetch, PC, Timed
<1>6. ASSUME NEW b \in Attempt, Acquire(b) PROVE Accounted'
  BY <1>t, <1>f, <1>1, <1>6 DEF Acquire, PC, Timed, Section, local
<1>7. ASSUME NEW b \in Attempt, AcquireRefused(b) PROVE Accounted'
  <2>1. event[b] # "in_progress" /\ Forget(b)
    BY <1>a, <1>7 DEF AcquireRefused
  <2> QED
    BY <1>t, <1>f, <1>7, <2>1, BalanceForget DEF AcquireRefused
<1>8. ASSUME NEW b \in Attempt, AcquireFails(b) PROVE Accounted'
  BY <1>t, <1>f, <1>1, <1>8 DEF AcquireFails, PC, local
<1>9. ASSUME NEW b \in Attempt, UpsertFirst(b) PROVE Accounted'
  BY <1>t, <1>f, <1>1, <1>9 DEF UpsertFirst, PC, Timed, Section, local
<1>10. ASSUME NEW b \in Attempt, InsertEvent(b) \/ InsertEventFails(b) PROVE Accounted'
  <2>1. Owed' \subseteq Owed
    BY <1>t, <1>10 DEF InsertEvent, InsertEventFails, Owed, Goto, TypeOK
  <2>2. stuck' = stuck /\ faults' >= faults
    BY <1>f, <1>10 DEF InsertEvent, InsertEventFails
  <2>3. ASSUME NEW a \in Attempt,
               pc'[a] \in {"idle", "manifest", "fetch", "acquire", "locked", "insert"}
        PROVE  event'[a] # "in_progress"
    BY <1>t, <1>a, <1>10, <2>3 DEF InsertEvent, InsertEventFails, Goto, TypeOK
  <2> QED
    BY <1>t, <2>1, <2>2, <2>3, BalanceKept DEF Accounted
<1>11. ASSUME NEW b \in Attempt, Deploy(b) PROVE Accounted'
  BY <1>t, <1>f, <1>1, <1>11 DEF Deploy, PC, Timed, Section
<1>12. ASSUME NEW b \in Attempt, DeployFails(b) PROVE Accounted'
  BY <1>t, <1>f, <1>1, <1>12 DEF DeployFails, PC
<1>13. ASSUME NEW b \in Attempt, Confirm(b) PROVE Accounted'
  BY <1>t, <1>f, <1>1, <1>13 DEF Confirm, PC
<1>14. ASSUME NEW b \in Attempt, UpdateEvent(b) PROVE Accounted'
  <2>1. ASSUME NEW a \in Attempt,
               pc'[a] \in {"idle", "manifest", "fetch", "acquire", "locked", "insert"}
        PROVE  event'[a] # "in_progress"
    BY <1>t, <1>a, <1>14, <2>1 DEF UpdateEvent, Goto, TypeOK
  <2>2. stuck' = stuck
    BY <1>14 DEF UpdateEvent
  <2>3. CASE event' = [event EXCEPT ![b] = pc[b]] /\ UNCHANGED faults
    <3>1. Owed' \subseteq Owed
      BY <1>t, <1>14, <2>3 DEF UpdateEvent, Owed, Goto, TypeOK
    <3> QED
      BY <1>t, <1>f, <2>1, <2>2, <2>3, <3>1, BalanceKept DEF Accounted
  <2>4. CASE Fault /\ UNCHANGED event
    <3>1. Owed' \subseteq Owed \cup {b}
      BY <1>t, <1>14, <2>4 DEF UpdateEvent, Owed, Goto, TypeOK
    <3>n. IsFiniteSet(Owed) /\ Cardinality(Owed) \in Nat
      BY FS_CardinalityType DEF Accounted
    <3>2. /\ IsFiniteSet(Owed \cup {b})
          /\ Cardinality(Owed \cup {b}) <= Cardinality(Owed) + 1
      BY <3>n, FS_AddElement
    <3>3. IsFiniteSet(Owed') /\ Cardinality(Owed') <= Cardinality(Owed \cup {b})
      BY <3>1, <3>2, FS_Subset
    <3>4. Cardinality(Owed \cup {b}) \in Nat /\ Cardinality(Owed') \in Nat
      BY <3>2, <3>3, FS_CardinalityType
    <3>5. /\ stuck \in Nat /\ faults \in Nat /\ faults' = faults + 1
          /\ stuck + Cardinality(Owed) <= faults
      BY <1>t, <2>4, SyncAssumption DEF TypeOK, Fault, Accounted
    <3>6. stuck' + Cardinality(Owed') <= faults'
      BY <2>2, <3>n, <3>2, <3>3, <3>4, <3>5
    <3> QED
      BY <2>1, <3>3, <3>6 DEF Accounted
  <2> QED
    BY <1>14, <2>3, <2>4 DEF UpdateEvent
<1>15. ASSUME NEW b \in Attempt, Release(b) PROVE Accounted'
  BY <1>t, <1>f, <1>1, <1>15 DEF Release, PC, local
<1>16. ASSUME NEW b \in Attempt, Finish(b) PROVE Accounted'
  <2>1. b \in Owed \/ event[b] # "in_progress"
    BY <1>16 DEF Finish, Owed
  <2> QED
    BY <1>t, <1>f, <1>16, <2>1, BalanceForget DEF Finish
<1>17. ASSUME NEW b \in Attempt, Crash(b) PROVE Accounted'
  <2>1. faults' > faults
    BY <1>t, <1>17, SyncAssumption DEF Crash, Fault, TypeOK
  <2> QED
    BY <1>t, <1>f, <1>17, <2>1, BalanceForget DEF Crash
<1>18. ASSUME UNCHANGED <<pc, event, stuck, faults>> PROVE Accounted'
  BY <1>18 DEF Accounted, Owed
<1> QED
  <2>1. ASSUME NEW b \in Attempt, Step(b) PROVE Accounted'
    BY <2>1, <1>3, <1>4, <1>5, <1>6, <1>7, <1>8, <1>9, <1>10, <1>11, <1>12, <1>13,
       <1>14, <1>15, <1>16 DEF Step
  <2>2. ASSUME NEW b \in Attempt, Cancel(b) PROVE Accounted'
    BY <1>18, <2>2 DEF Cancel, local
  <2>3. ASSUME Tick \/ Commit \/ Expire \/ DeployOutside PROVE Accounted'
    BY <1>18, <2>3 DEF Tick, Commit, Expire, DeployOutside, local
  <2>4. ASSUME UNCHANGED vars PROVE Accounted'
    BY <1>18, <2>4 DEF vars, local
  <2> QED
    BY <2>1, <2>2, <2>3, <2>4, <1>2, <1>17 DEF Next, RunOnce, ManualSync, DryRun

\* A deploy that was announced is closed, or some write or process failed:
\* cancellation alone leaves no row in_progress (NoForgottenEvents).
THEOREM NothingForgotten == Spec => []NoForgottenEvents
<1>1. Init => Accounted
  <2> SUFFICES ASSUME Init PROVE Accounted
    OBVIOUS
  <2>1. Owed = {}
    BY DEF Init, Owed
  <2> QED
    BY <2>1, FS_EmptySet DEF Init, Accounted
<1>2. TypeOK /\ Accounted => NoForgottenEvents
  <2> SUFFICES ASSUME TypeOK, Accounted PROVE NoForgottenEvents
    OBVIOUS
  <2>1. Cardinality(Owed) \in Nat
    BY FS_CardinalityType DEF Accounted
  <2> QED
    BY <2>1, SyncAssumption DEF TypeOK, Accounted, NoForgottenEvents
<1>3. Spec => []Accounted
  BY <1>1, AccountedStep, SyncInvariant, PTL DEF Spec
<1> QED
  BY <1>2, <1>3, TypeCorrect, PTL

-----------------------------------------------------------------------------
\* The attempts at work are none or one, and how a step changes them.
LEMMA OneWorker ==
  ASSUME SyncInv, NEW a \in Attempt, pc[a] \in Section
  PROVE  Working = {a}
<1>1. \A b \in Attempt : pc[b] \in Section => b = a
  BY WorkerBlocksLock
<1> QED
  BY <1>1 DEF Working

\* An attempt that goes to l is at work there or not; the others stay.
LEMMA WorkingGoto ==
  ASSUME SyncInv, NEW a \in Attempt, NEW l, Goto(a, l)
  PROVE  Working' = IF l \in Section THEN Working \cup {a} ELSE Working \ {a}
<1>1. pc'[a] = l /\ \A b \in Attempt : b # a => pc'[b] = pc[b]
  BY DEF SyncInv, TypeOK, Goto
<1> QED
  BY <1>1 DEF Working, Section

\* The same of an attempt whose row is written.
LEMMA AnnouncedRow ==
  ASSUME SyncInv, NEW a \in Attempt, NEW e, event' = [event EXCEPT ![a] = e]
  PROVE  Announced' = IF e = "in_progress" THEN Announced \cup {a} ELSE Announced \ {a}
<1>1. event'[a] = e /\ \A b \in Attempt : b # a => event'[b] = event[b]
  BY DEF SyncInv, TypeOK
<1> QED
  BY <1>1 DEF Announced

\* Nobody starts or stops work in a step that leaves pc alone.
LEMMA StillWorking == pc' = pc => Working' = Working
  BY DEF Working

\* No row is opened or closed in a step that leaves event alone.
LEMMA StillAnnounced == event' = event => Announced' = Announced
  BY DEF Announced

\* Each operation of an attempt is an operation of UnitDeploys, or none.
LEMMA StepDeploys ==
  ASSUME SyncInv, SyncInv', NEW a \in Attempt, Step(a)
  PROVE  [Deploys!Next]_(Deploys!vars)
<1> DEFINE Same == /\ Working' = Working /\ Announced' = Announced
                   /\ live' = live /\ edits' = edits
<1>s. Same => [Deploys!Next]_(Deploys!vars)
  BY DEF Deploys!vars
<1>n. ASSUME \/ Deploys!Enter(a) \/ Deploys!Announce(a) \/ Deploys!Write(a)
             \/ Deploys!Leave(a) \/ Deploys!Close(a)
      PROVE  [Deploys!Next]_(Deploys!vars)
  BY <1>n DEF Deploys!Next
<1>w. pc[a] \in Section => Working = {a}
  BY OneWorker
<1>i. pc[a] \notin Section => a \notin Working
  BY DEF Working
<1>1. ASSUME \/ ReadManifest(a) \/ ReadManifestFails(a) \/ Fetch(a) \/ FetchFails(a)
             \/ AcquireFails(a) \/ Release(a)
      PROVE  Same
  <2>1. event' = event /\ live' = live /\ edits' = edits
    BY <1>1 DEF ReadManifest, ReadManifestFails, Fetch, FetchFails, AcquireFails, Release,
                world, local
  <2>2. pc[a] \notin Section
    BY <1>1 DEF ReadManifest, ReadManifestFails, Fetch, FetchFails, AcquireFails, Release, Section
  <2>3. PICK l : Goto(a, l) /\ l \notin Section
    BY <1>1 DEF ReadManifest, ReadManifestFails, Fetch, FetchFails, AcquireFails, Release, Section
  <2>4. Working' = Working \ {a}
    BY <2>3, WorkingGoto
  <2> QED
    BY <1>i, <2>1, <2>2, <2>4, StillAnnounced
<1>2. ASSUME Acquire(a) PROVE Deploys!Enter(a)
  <2>1. /\ event' = event /\ live' = live /\ edits' = edits
        /\ Goto(a, "locked") /\ LockFree
    BY <1>2 DEF Acquire, world, local
  <2>2. Working = {}
    BY <2>1, WorkerBlocksLock DEF Working
  <2>3. Working' = {a}
    BY <2>1, <2>2, WorkingGoto DEF Section
  <2> QED
    BY <2>1, <2>2, <2>3, StillAnnounced DEF Deploys!Enter
<1>3. ASSUME Forget(a), pc[a] \notin Section, UNCHANGED world
      PROVE  Deploys!Close(a)
  <2>1. Working' = Working \ {a}
    BY <1>3, WorkingGoto DEF Forget, Section
  <2>2. Announced' = Announced \ {a}
    <3>1. event' = [event EXCEPT ![a] = "none"]
      BY <1>3 DEF Forget
    <3>2. "none" # "in_progress"
      OBVIOUS
    <3> QED
      BY <3>1, <3>2, AnnouncedRow
  <2> QED
    BY <1>3, <1>i, <2>1, <2>2 DEF Deploys!Close, world
<1>4. ASSUME UpsertFirst(a) PROVE Same \/ Deploys!Leave(a)
  <2>1. /\ event' = event /\ live' = live /\ edits' = edits
        /\ pc[a] \in Section
        /\ Goto(a, "insert") \/ Goto(a, "release")
    BY <1>4 DEF UpsertFirst, world, local, Section
  <2>2. Working' = {a} \/ Working' = {}
    BY <1>w, <2>1, WorkingGoto DEF Section
  <2> QED
    BY <1>w, <2>1, <2>2, StillAnnounced DEF Deploys!Leave
<1>5. ASSUME InsertEvent(a) PROVE Deploys!Announce(a)
  <2>1. /\ event' = [event EXCEPT ![a] = "in_progress"] /\ live' = live /\ edits' = edits
        /\ pc[a] \in Section /\ Goto(a, "deploy")
    BY <1>5 DEF InsertEvent, world, Section
  <2>2. Working' = {a}
    BY <1>w, <2>1, WorkingGoto DEF Section
  <2>3. Announced' = Announced \cup {a}
    BY <2>1, AnnouncedRow
  <2> QED
    BY <1>w, <2>1, <2>2, <2>3 DEF Deploys!Announce
<1>6. ASSUME InsertEventFails(a) PROVE Deploys!Leave(a)
  <2>1. /\ live' = live /\ edits' = edits
        /\ pc[a] \in Section /\ Goto(a, "release")
    BY <1>6 DEF InsertEventFails, world, Section
  <2>2. PICK e \in {"none", "unreferenced"} : event' = [event EXCEPT ![a] = e]
    BY <1>6 DEF InsertEventFails
  <2>3. Working' = {}
    BY <1>w, <2>1, WorkingGoto DEF Section
  <2>4. Announced' = Announced \ {a}
    BY <2>2, AnnouncedRow
  <2> QED
    BY <1>w, <2>1, <2>3, <2>4 DEF Deploys!Leave
<1>7. ASSUME Deploy(a) \/ DeployFails(a) PROVE Deploys!Write(a)
  <2>1. /\ event' = event /\ edits' = edits
        /\ pc[a] = "deploy" /\ pc[a] \in Section
        /\ Goto(a, "confirm") \/ Goto(a, "failed")
    BY <1>7 DEF Deploy, DeployFails, Section
  <2>2. a \in Announced
    BY <2>1 DEF SyncInv, Sound, Announced
  <2>3. live' \in State \cup {Absent}
    BY DEF SyncInv, TypeOK
  <2>4. Working' = {a} \/ Working' = {}
    BY <1>w, <2>1, WorkingGoto DEF Section
  <2> QED
    BY <1>w, <2>1, <2>2, <2>3, <2>4, StillAnnounced DEF Deploys!Write
<1>8. ASSUME Confirm(a) PROVE Deploys!Leave(a)
  <2>1. /\ event' = event /\ live' = live /\ edits' = edits
        /\ pc[a] \in Section /\ Goto(a, "succeeded")
    BY <1>8 DEF Confirm, world, Section
  <2>2. Working' = {}
    BY <1>w, <2>1, WorkingGoto DEF Section
  <2> QED
    BY <1>w, <2>1, <2>2, StillAnnounced DEF Deploys!Leave
<1>9. ASSUME UpdateEvent(a) PROVE Same \/ Deploys!Close(a)
  <2>1. /\ live' = live /\ edits' = edits
        /\ pc[a] \in {"failed", "succeeded"} /\ pc[a] \notin Section /\ Goto(a, "release")
        /\ event' = [event EXCEPT ![a] = pc[a]] \/ event' = event
    BY <1>9 DEF UpdateEvent, world, Section
  <2>2. Working' = Working
    BY <1>i, <2>1, WorkingGoto DEF Section
  <2>3. Announced' = Announced \ {a} \/ Announced' = Announced
    BY <2>1, AnnouncedRow, StillAnnounced
  <2> QED
    BY <1>i, <2>1, <2>2, <2>3 DEF Deploys!Close
<1>10. ASSUME AcquireRefused(a) \/ Finish(a)
       PROVE  Forget(a) /\ pc[a] \notin Section /\ UNCHANGED world
  BY <1>10 DEF AcquireRefused, Finish, Section
<1> HIDE DEF Same
<1> QED
  BY <1>s, <1>n, <1>1, <1>2, <1>3, <1>4, <1>5, <1>6, <1>7, <1>8, <1>9, <1>10 DEF Step

\* A sync implements UnitDeploys: the lock, the deadline and the order of the
\* writes in deploySyncUnit make deploys serial and announced, for any number
\* of attempts (DeploysAreSerial).
THEOREM DeployRefinement == Spec => DeploysAreSerial
<1>1. Init => Deploys!Init
  BY DEF Init, Deploys!Init, Working, Announced, Section
<1>2. ASSUME SyncInv, SyncInv', [Next]_vars
      PROVE  [Deploys!Next]_(Deploys!vars)
  <2>1. ASSUME pc' = pc, event' = event, live' = live, edits' = edits
        PROVE  [Deploys!Next]_(Deploys!vars)
    BY <2>1, StillWorking, StillAnnounced DEF Deploys!vars
  <2>2. CASE UNCHANGED vars \/ Tick \/ Expire \/ \E a \in Attempt : Cancel(a)
    BY <2>1, <2>2 DEF vars, world, local, Tick, Expire, Cancel
  <2>3. CASE Commit \/ DeployOutside
    <3>1. pc' = pc /\ event' = event /\ edits' = edits + 1
      BY <2>3 DEF Commit, DeployOutside, local
    <3>2. live' \in State \cup {Absent}
      BY <1>2 DEF SyncInv, TypeOK
    <3>3. Deploys!Outside
      BY <3>1, <3>2, StillWorking, StillAnnounced DEF Deploys!Outside
    <3> QED
      BY <3>3 DEF Deploys!Next
  <2>4. ASSUME NEW a \in Attempt, RunOnce(a) \/ ManualSync(a) \/ DryRun(a)
        PROVE  [Deploys!Next]_(Deploys!vars)
    <3>1. /\ pc[a] = "idle" /\ Goto(a, "manifest")
          /\ event' = event /\ live' = live /\ edits' = edits
      BY <2>4 DEF RunOnce, ManualSync, DryRun, Begin, world
    <3>2. Working' = Working
      BY <1>2, <3>1, WorkingGoto DEF Section, Working
    <3> QED
      BY <3>1, <3>2, StillAnnounced DEF Deploys!vars
  <2>5. ASSUME NEW a \in Attempt, Crash(a)
        PROVE  [Deploys!Next]_(Deploys!vars)
    <3>1. Forget(a) /\ live' = live /\ edits' = edits
      BY <2>5 DEF Crash, world
    <3>2. Working' = Working \ {a}
      BY <1>2, <3>1, WorkingGoto DEF Forget, Section
    <3>3. Announced' = Announced \ {a}
      <4>1. event' = [event EXCEPT ![a] = "none"]
        BY <3>1 DEF Forget
      <4>2. "none" # "in_progress"
        OBVIOUS
      <4> QED
        BY <1>2, <4>1, <4>2, AnnouncedRow
    <3>4. CASE pc[a] \in Section
      <4>1. Working = {a} /\ Working' = {}
        BY <1>2, <3>2, <3>4, OneWorker
      <4>2. Deploys!Leave(a)
        BY <3>1, <3>3, <4>1 DEF Deploys!Leave
      <4> QED
        BY <4>2 DEF Deploys!Next
    <3>5. CASE pc[a] \notin Section
      <4>1. a \notin Working /\ Working' = Working
        BY <3>2, <3>5 DEF Working
      <4>2. Deploys!Close(a)
        BY <3>1, <3>3, <4>1 DEF Deploys!Close
      <4> QED
        BY <4>2 DEF Deploys!Next
    <3> QED
      BY <3>4, <3>5
  <2> QED
    BY <1>2, <2>2, <2>3, <2>4, <2>5, StepDeploys DEF Next
<1> QED
  BY <1>1, <1>2, SyncInvariant, PTL DEF Spec, DeploysAreSerial, Deploys!Spec
=============================================================================
