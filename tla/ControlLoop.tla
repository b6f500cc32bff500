---------------------------- MODULE ControlLoop ----------------------------
(***************************************************************************)
(* Hot reload in one controller process: run and reconcileLoop of          *)
(* cmd/controller/main.go, internal/folders, internal/rbac, and the bulk   *)
(* sync of internal/api that reads what the loop swaps.                    *)
(*                                                                         *)
(* runcd.yaml, rbac.yaml and the GCP folders change at any time.  A tick   *)
(* loads runcd.yaml, then rbac.yaml, then the folder scopes of rbac.yaml,  *)
(* each of which may fail by itself, and then runs a pass (SyncUnit).  A   *)
(* unit stands for an app in a project of its own, and the grants are      *)
(* those of one subject.                                                   *)
(***************************************************************************)
EXTENDS Integers

CONSTANTS
  Unit, Folder,
  Direct,     \* the route of a unit or a grant that names no folder
  Contents,   \* what notify, environments[].notify and managedFields may say
  Zero,       \* their zero value
  Unknown,    \* the membership of a folder not resolved yet
  MaxEdits,   \* bound: commits and moved projects
  MaxFaults   \* bound: failed fetches

ASSUME ControlAssumption ==
  /\ Direct \notin Folder /\ \A P \in SUBSET Unit : P # Unknown
  /\ MaxEdits \in Nat /\ MaxFaults \in Nat

Route == Unit \X (Folder \cup {Direct})
Projects == SUBSET Unit
Config == [units : Projects, folders : SUBSET Folder, pinned : Projects,
           notify : Contents, envs : Contents, managed : Contents]
RBAC == [units : Projects, folders : SUBSET Folder]

VARIABLES
  conf,      \* the committed runcd.yaml
  rbac,      \* the committed rbac.yaml
  under,     \* which projects are in which folder
  cache,     \* folders.GCPResolver: last answer, and whether its TTL runs
  pc,        \* where reconcileLoop is
  units,     \* dynamicUnits
  recon,     \* the settings of the Reconciler that reconcilerPtr points to
  last,      \* lastNotify and lastManagedFields
  store,     \* rbac.Store: its config
  members,   \* and its folder membership
  batch,     \* where a bulk sync is, and the snapshots it took
  kept,      \* history: routes to loaded units, committed ever since
  firm,      \* history: grants loaded, committed ever since
  edits, faults

world == <<conf, rbac, under, edits>>
loaded == <<units, recon, last>>
access == <<store, members>>
vars == <<world, cache, pc, loaded, access, batch, kept, firm, faults>>

Setting == {Zero} \cup Contents
Settings == [notify : Setting, envs : Setting, managed : Setting]
Membership == [Folder -> {Unknown} \cup Projects]

TypeOK ==
  /\ conf \in Config /\ rbac \in RBAC
  /\ under \in [Folder -> Projects]
  /\ cache \in [Folder -> [projects : {Unknown} \cup Projects, fresh : BOOLEAN]]
  /\ pc \in {"off", "wait", "config", "rbac", "members", "pass"}
  /\ units \in Projects
  /\ recon \in Settings
  /\ last \in [notify : Setting, managed : Setting]
  /\ store \in RBAC /\ members \in Membership
  /\ batch \in [at : {"idle", "config", "run"}, store : RBAC, members : Membership,
                todo : Projects, firm : SUBSET Route]
  /\ kept \subseteq Route /\ firm \subseteq Route
  /\ edits \in 0..MaxEdits /\ faults \in 0..MaxFaults

NoGrants == [units |-> {}, folders |-> {}]
NoMembers == [f \in Folder |-> Unknown]
NoBatch == [at |-> "idle", store |-> NoGrants, members |-> NoMembers,
            todo |-> {}, firm |-> {}]

Init ==
  /\ conf \in [units : Projects, folders : SUBSET Folder, pinned : {{}},
               notify : Contents, envs : Contents, managed : Contents]
  /\ rbac \in RBAC
  /\ under \in [Folder -> Projects]
  /\ cache = [f \in Folder |-> [projects |-> Unknown, fresh |-> FALSE]]
  /\ pc = "off"
  /\ units = {}
  /\ recon = [notify |-> Zero, envs |-> Zero, managed |-> Zero]
  /\ last = [notify |-> Zero, managed |-> Zero]
  /\ store = NoGrants /\ members = NoMembers
  /\ batch = NoBatch
  /\ kept = {} /\ firm = {}
  /\ edits = 0 /\ faults = 0

-----------------------------------------------------------------------------
Fault == faults < MaxFaults /\ faults' = faults + 1

\* What a set of projects and one of folders amount to, given the folders'
\* membership; an unknown folder adds nothing.
Routes(ps, F, m) ==
  {r \in Route : IF r[2] = Direct THEN r[1] \in ps
                 ELSE r[2] \in F /\ m[r[2]] # Unknown /\ r[1] \in m[r[2]]}

Ends(R) == {r[1] : r \in R}

Declared == Routes(conf.units, conf.folders, under)
Committed == Routes(rbac.units, rbac.folders, under)

\* CanSyncFolders.
Grants(s, m) == Routes(s.units, s.folders, m)
CanSync(s, m, u) == u \in Ends(Grants(s, m))

\* Mutant of Fetched: a failed listing is an empty answer.
FetchedOrNothing(F, down) ==
  [f \in Folder |->
     IF f \in F /\ ~cache[f].fresh
     THEN [projects |-> IF f \in down THEN {} ELSE under[f], fresh |-> TRUE]
     ELSE cache[f]]

\* ProjectsInFolder for each of F: the cached answer while its TTL runs, a new
\* one, or, where the listing is down, the old one however old.
Fetched(F, down) ==
  [f \in Folder |-> IF f \in F \ down /\ ~cache[f].fresh
                    THEN [projects |-> under[f], fresh |-> TRUE] ELSE cache[f]]

Answers(c) == [f \in Folder |-> c[f].projects]

Resolve(F) ==
  \E down \in SUBSET F :
    /\ cache' = Fetched(F, down)
    /\ IF down = {} THEN UNCHANGED faults ELSE Fault

\* expander.Expand refuses overrides and excludes of projects not resolved.
Expands(R) == conf.pinned \subseteq Ends(R)

\* Mutant of Built: the environments are left out of the notifier.
BuiltWithoutEnvs == [notify |-> conf.notify, managed |-> conf.managed]

\* The notifier is nil without a webhook, and the overrides are part of it.
Built == [notify |-> conf.notify, managed |-> conf.managed,
          envs |-> IF conf.notify = Zero THEN Zero ELSE conf.envs]

\* The grants and routes that are still committed after a step that loaded
\* those of R and G.
History(R, G) ==
  /\ kept' = (kept \cup R) \cap Declared'
  /\ firm' = (firm \cup G) \cap Committed'

-----------------------------------------------------------------------------
\* Startup: no configuration is fatal, no rbac.yaml grants nothing, and folder
\* scopes that do not resolve are left out until a tick resolves them.
Boot ==
  /\ pc = "off"
  /\ UNCHANGED world
  /\ Resolve(conf.folders \cup rbac.folders)
  /\ LET R == Routes(conf.units, conf.folders, Answers(cache'))
     IN /\ Expands(R)
        /\ units' = Ends(R)
        /\ store' \in {rbac, NoGrants}
        /\ members' = IF \A f \in store'.folders : cache'[f].projects # Unknown
                      THEN [f \in Folder |-> IF f \in store'.folders
                                             THEN cache'[f].projects ELSE Unknown]
                      ELSE NoMembers
        /\ History(R, Grants(store', members'))
  /\ recon' = Built
  /\ pc' = "wait"
  /\ UNCHANGED <<last, batch>>

\* The ticker fires, or a nudge arrives.
StartTick ==
  /\ pc = "wait"
  /\ pc' = "config"
  /\ UNCHANGED <<world, cache, loaded, access, batch, kept, firm, faults>>

\* Mutant of KeepUnits: a failed reload leaves no units to work on.
KeepNoUnits == units' = {} /\ UNCHANGED <<recon, last>>

\* A failed reload leaves everything as it was; the pass falls back to it.
KeepUnits == UNCHANGED loaded

\* loadUnits succeeds.  The Reconciler is rebuilt only if notify or
\* managedFields differ from the last rebuild's.
Reload ==
  /\ pc = "config"
  /\ UNCHANGED world
  /\ Resolve(conf.folders)
  /\ LET R == Routes(conf.units, conf.folders, Answers(cache'))
     IN /\ Expands(R)
        /\ units' = Ends(R)
        /\ History(R, {})
  /\ IF last # [notify |-> conf.notify, managed |-> conf.managed]
     THEN /\ recon' = Built
          /\ last' = [notify |-> conf.notify, managed |-> conf.managed]
     ELSE UNCHANGED <<recon, last>>
  /\ pc' = "rbac"
  /\ UNCHANGED <<access, batch>>

\* It fails: the fetch or the parser, or a project pinned by an override is
\* not resolved.
ReloadFails ==
  /\ pc = "config"
  /\ UNCHANGED world
  /\ \/ Fault /\ UNCHANGED cache
     \/ /\ Resolve(conf.folders)
        /\ ~Expands(Routes(conf.units, conf.folders, Answers(cache')))
  /\ KeepUnits
  /\ History({}, {})
  /\ pc' = "rbac"
  /\ UNCHANGED <<access, batch>>

ReloadRBAC ==
  /\ pc = "rbac"
  /\ UNCHANGED world
  /\ store' = rbac
  /\ History({}, Grants(rbac, NoMembers))
  /\ pc' = "members"
  /\ UNCHANGED <<cache, loaded, members, batch, faults>>

\* Mutant of ReloadRBACFails: fail closed, as at startup.
ReloadRBACFailsClosed ==
  /\ pc = "rbac"
  /\ Fault
  /\ store' = NoGrants
  /\ pc' = "pass"
  /\ UNCHANGED <<world, cache, loaded, members, batch, kept, firm>>

\* The last known rules stand, and so does their folder membership.
ReloadRBACFails ==
  /\ pc = "rbac"
  /\ Fault
  /\ pc' = "pass"
  /\ UNCHANGED <<world, cache, loaded, access, batch, kept, firm>>

\* Mutant of ReloadMembers: the map is filled in once and kept.
ReloadMembersOnce ==
  /\ pc = "members"
  /\ UNCHANGED world
  /\ Resolve(store.folders)
  /\ IF (\E f \in store.folders : cache'[f].projects = Unknown) \/ members # NoMembers
     THEN UNCHANGED members /\ History({}, {})
     ELSE /\ members' = [f \in Folder |-> IF f \in store.folders
                                          THEN cache'[f].projects ELSE Unknown]
          /\ History({}, Grants(store, members'))
  /\ pc' = "pass"
  /\ UNCHANGED <<loaded, store, batch>>

\* The folder scopes of the rules just loaded: all of them, or none are set.
ReloadMembers ==
  /\ pc = "members"
  /\ UNCHANGED world
  /\ Resolve(store.folders)
  /\ IF \E f \in store.folders : cache'[f].projects = Unknown
     THEN UNCHANGED members /\ History({}, {})
     ELSE /\ members' = [f \in Folder |-> IF f \in store.folders
                                          THEN cache'[f].projects ELSE Unknown]
          /\ History({}, Grants(store, members'))
  /\ pc' = "pass"
  /\ UNCHANGED <<loaded, store, batch>>

\* The leader's pass, or none: see SyncUnit and Lease.
EndTick ==
  /\ pc = "pass"
  /\ pc' = "wait"
  /\ UNCHANGED <<world, cache, loaded, access, batch, kept, firm, faults>>

\* A folder's cached answer outlives its TTL.
Expire(f) ==
  /\ cache[f].fresh
  /\ cache' = [cache EXCEPT ![f].fresh = FALSE]
  /\ UNCHANGED <<world, pc, loaded, access, batch, kept, firm, faults>>

-----------------------------------------------------------------------------
\* handleSyncBatch takes its snapshots one after the other, then syncs each
\* unit under them.
BatchBegins ==
  /\ pc # "off" /\ batch.at = "idle"
  /\ batch' = [batch EXCEPT !.at = "config", !.store = store, !.firm = firm]
  /\ UNCHANGED <<world, cache, pc, loaded, access, kept, firm, faults>>

\* All units, those of a project, or those whose row does not say Synced.
BatchLists ==
  /\ batch.at = "config"
  /\ \E candidates \in SUBSET units :
       batch' = [batch EXCEPT !.at = "run", !.members = members, !.todo = candidates]
  /\ UNCHANGED <<world, cache, pc, loaded, access, kept, firm, faults>>

\* syncOneForBatch: forbidden, or a ManualSync (SyncUnit).
BatchSyncs(u) ==
  /\ batch.at = "run" /\ u \in batch.todo
  /\ batch' = [batch EXCEPT !.todo = @ \ {u}]
  /\ UNCHANGED <<world, cache, pc, loaded, access, kept, firm, faults>>

BatchEnds ==
  /\ batch.at = "run" /\ batch.todo = {}
  /\ batch' = NoBatch
  /\ UNCHANGED <<world, cache, pc, loaded, access, kept, firm, faults>>

-----------------------------------------------------------------------------
Edit ==
  /\ pc # "off"
  /\ edits < MaxEdits /\ edits' = edits + 1
  /\ \/ conf' \in {[conf EXCEPT !.units = x] : x \in Projects}
               \cup {[conf EXCEPT !.folders = x] : x \in SUBSET Folder}
               \cup {[conf EXCEPT !.pinned = x] : x \in Projects}
               \cup {[conf EXCEPT !.notify = x] : x \in Contents}
               \cup {[conf EXCEPT !.envs = x] : x \in Contents}
               \cup {[conf EXCEPT !.managed = x] : x \in Contents}
        /\ UNCHANGED <<rbac, under>>
     \/ rbac' \in RBAC /\ UNCHANGED <<conf, under>>
     \/ (\E f \in Folder, x \in Projects : under' = [under EXCEPT ![f] = x])
        /\ UNCHANGED <<conf, rbac>>
  /\ <<conf, rbac, under>>' # <<conf, rbac, under>>
  /\ History({}, {})
  /\ batch' = [batch EXCEPT !.firm = @ \cap Committed']
  /\ UNCHANGED <<cache, pc, loaded, access, faults>>

Loop ==
  \/ StartTick \/ Reload \/ ReloadFails \/ ReloadRBAC \/ ReloadRBACFails
  \/ ReloadMembers \/ EndTick

Next ==
  \/ Boot \/ Loop \/ Edit
  \/ \E f \in Folder : Expire(f)
  \/ BatchBegins \/ BatchLists \/ BatchEnds
  \/ \E u \in Unit : BatchSyncs(u)

Spec == Init /\ [][Next]_vars

\* The ticker ticks, calls return and a TTL runs out.  Nothing is promised of
\* commits, requests or faults, and those are finitely many.
FairSpec ==
  /\ Spec
  /\ WF_vars(Boot) /\ WF_vars(Loop)
  /\ \A f \in Folder : WF_vars(Expire(f))

-----------------------------------------------------------------------------
\* No outage takes a unit away: once a reload has found it, by its project
\* or through a folder, the units of every pass include it as long as the
\* commits and the folder do (the fallback of reconcileLoop and the stale
\* answer of ProjectsInFolder).
OutageKeepsUnits == Ends(kept) \subseteq units

\* No outage revokes: a grant that was in effect stays in effect as long as
\* it is committed, though rules and memberships are swapped one by one.
OutageKeepsGrants == firm \subseteq Grants(store, members)

\* A bulk sync denies no unit its caller could sync all along, whatever was
\* swapped between its two snapshots.
BatchKeepsGrants ==
  batch.at = "run" => batch.firm \subseteq Grants(batch.store, batch.members)

\* Commits take effect without a restart: in the end the units are those
\* declared, if they can be, and the grants those committed, no more.
CommitsTakeEffect ==
  <>[](/\ Expands(Declared) => units = Ends(Declared)
       /\ Grants(store, members) = Committed)

\* The Reconciler runs with the notify section, the environments' overrides
\* of it and the managed fields of the configuration loaded last.
ReloadReachesReconciler == [][Reload => recon' = Built]_vars

\* A grant revoked by a reload authorizes no later unit of a bulk sync that
\* was under way.
BatchHonoursRevocation ==
  [][\A u \in batch.todo \ batch'.todo :
       CanSync(batch.store, batch.members, u) => CanSync(store, members, u)]_vars
=============================================================================
