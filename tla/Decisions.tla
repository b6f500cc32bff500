----------------------------- MODULE Decisions -----------------------------
(***************************************************************************)
(* The decisions a reconcile tick takes by calculation: whether the hour   *)
(* allows it, which image a tag stands for, what to deploy and how the     *)
(* resource then compares; the units a configuration stands for; and the   *)
(* scan for orphans.  Each is asked about one input and answers it with    *)
(* the code's algorithm; the invariants compare the answer with what a     *)
(* reader of the configuration expects.                                    *)
(***************************************************************************)
EXTENDS SyncWindow, TagChoice, Drift, Orphans, Expansion, FiniteSets

CONSTANTS
  MaxTags,     \* bound: tags of a repository
  Constraints, \* the constraints that are asked for
  MaxUnits,    \* bound: units of an orphan scan
  Grants,      \* the rbac.yamls of the callers
  Documents,   \* the runcd.yamls
  Contents,    \* what is under each folder
  Pending      \* not answered yet

ASSUME DecisionsAssumption ==
  /\ Grants \subseteq SUBSET Rule /\ Contents \subseteq FolderMembership
  /\ Documents \subseteq Document

WindowQuestions ==
  [kind : {"window"}, windows : {{v, w} : v, w \in Window} \cup {{}}, time : Time]

TagQuestions ==
  [kind : {"tag"},
   tags : {s \in UNION {[1..n -> Tag] : n \in 0..MaxTags} :
             Cardinality({i \in DOMAIN s : s[i].version = NotSemver}) <= 1},
   constraint : Constraints \cup {NotSemver}]

\* A definition is for a resource of its own type.
DriftQuestions ==
  {q \in [kind : {"drift"}, sd : Definition, resource : Resource,
          fields : SUBSET {"image", "traffic", "env"}, ignored : {{}, {"image"}}] :
     q.sd.type = q.resource.type}

\* A service that is live, and at most one scope that does not answer.
OrphanQuestions ==
  [kind : {"orphans"}, units : {U \in SUBSET Unit : Cardinality(U) <= MaxUnits},
   live : {{o} : o \in Unit}, rules : Grants, members : Contents,
   down : {{}} \cup {{s} : s \in Scope}]

UnitQuestions ==
  [kind : {"units"}, root : Documents, under : Contents, down : SUBSET FolderID]

VARIABLES question, answer
vars == <<question, answer>>

Init ==
  /\ \/ question \in WindowQuestions
     \/ question \in TagQuestions
     \/ question \in DriftQuestions
     \/ question \in OrphanQuestions
     \/ question \in UnitQuestions
  /\ answer = Pending

Permit ==
  /\ answer = Pending /\ question.kind = "window"
  /\ answer' = [allowed |-> WindowsAllow(question.windows, question.time)]
  /\ UNCHANGED question

Pick ==
  /\ answer = Pending /\ question.kind = "tag"
  /\ answer' = [digest |-> Resolve(question.tags, question.constraint)]
  /\ UNCHANGED question

Managed == Effective(question.fields, question.ignored)

\* A forced sync: the resource it leaves, and its status and health then.
Sync ==
  LET managed == Managed
      sd == question.sd
      d == Desired(sd, managed)
      after == Deploy(Target(d, Live(question.resource), managed), question.resource)
  IN /\ answer = Pending /\ question.kind = "drift"
     /\ answer' = IF Valid(sd, managed)
                  THEN [resource |-> after,
                        status |-> Compute(d, Live(after), managed, sd.type),
                        health |-> Assess(d, after, FetchDigest(sd, managed), managed)]
                  ELSE [resource |-> question.resource, status |-> "Invalid",
                        health |-> "Invalid"]
     /\ UNCHANGED question

\* GET /api/orphans.
Scan ==
  LET scannable == Scannable(question.units, question.rules, question.members)
  IN /\ answer = Pending /\ question.kind = "orphans"
     /\ answer' =
          IF ~HasAnyGrant(question.rules, "caller")
          THEN [status |-> "forbidden", orphans |-> {}]
          ELSE IF ScanFails(scannable, question.down)
          THEN [status |-> "failed", orphans |-> {}]
          ELSE [status |-> "ok",
                orphans |-> Reported(scannable, question.live, question.down)]
     /\ UNCHANGED question

\* The controller's load, and `runcd validate` on the same document.
Load ==
  /\ answer = Pending /\ question.kind = "units"
  /\ answer' = [load |-> LoadUnits(question.root, question.under, question.down),
                lint |-> ValidateRepo(question.root)]
  /\ UNCHANGED question

\* The next tick is asked the same.
Again == answer # Pending /\ answer' = Pending /\ UNCHANGED question

Next == Permit \/ Pick \/ Sync \/ Scan \/ Load \/ Again

Spec == Init /\ [][Next]_vars

-----------------------------------------------------------------------------
Answered(kind) == answer # Pending /\ question.kind = kind

\* Windows are intervals of the week that start on the days they name and
\* run on past midnight; auto-sync is allowed outside every deny interval
\* and, if there are allow intervals, inside one (WindowsAllow).
WindowsAreIntervals ==
  Answered("window") =>
    LET hour == HourOfWeek(question.time)
        kept == {w \in question.windows : w.kind = "allow"}
    IN answer.allowed <=>
         /\ \A w \in question.windows \ kept : hour \notin Covers(w)
         /\ kept = {} \/ \E w \in kept : hour \in Covers(w)

\* A constraint selects one of the highest releases among the global tags,
\* whatever the order they are listed in; a service's own tags speak only
\* where no global tag fits (registry.Resolve).
PickedIsNewest ==
  Answered("tag") /\ question.constraint # NotSemver =>
    LET bare == Newest(question.tags, "bare", question.constraint)
        own == Newest(question.tags, "own", question.constraint)
    IN answer.digest \in (IF bare # {} THEN bare ELSE IF own # {} THEN own ELSE {NoDigest})

\* One deploy is enough: what a sync leaves behind compares as Synced, or an
\* auto unit would deploy on every tick (DeployService against Compute); and
\* health agrees: a service or worker pool that is ready is Healthy, a job is
\* by a run of its own image, also when the manifest does not choose it.
DeploySettles ==
  Answered("drift") /\ Valid(question.sd, Managed) =>
    LET r == answer.resource
        ours == r.run # Unset /\ ("image" \in Managed => r.run.digest = r.image.digest)
    IN /\ answer.status = "Synced"
       /\ answer.health = "Healthy" <=>
            IF r.type = "job" THEN ours /\ r.run.status = "succeeded" ELSE r.state = "ready"

\* A deploy leaves alone what the unit does not manage: env, traffic, and
\* the image that runs.
UnmanagedUntouched ==
  Answered("drift") =>
    /\ "env" \notin Managed => answer.resource.env = question.resource.env
    /\ "traffic" \notin Managed
         => answer.resource.percent = question.resource.percent
    /\ "image" \notin Managed
         => answer.resource.image.digest = question.resource.image.digest

\* A scan is refused to those whom no unit and no folder could ever grant
\* anything (HasAnyGrant against CanSyncFolders).  What is reported is live
\* where the caller may sync and nothing of theirs; for a caller who may
\* sync all of a project, the report on it is exact: in every region that
\* RunCD deploys to and that answered, the services that no unit declares.
OrphansAreUndeclared ==
  Answered("orphans") =>
    LET May(m, u) == CanSyncFolders(question.rules, m, "caller", u)
        mine == {u \in question.units : May(question.members, u)}
        scanned == {ScopeOf(u) : u \in mine} \ question.down
    IN /\ answer.status = "forbidden" <=> ~\E m \in FolderMembership, u \in Unit : May(m, u)
       /\ answer.status = "failed" => mine # {} /\ scanned = {}
       /\ answer.status = "ok" => \A o \in question.live :
            /\ o \in answer.orphans => o \notin mine /\ ScopeOf(o) \in scanned
            /\ (\A u \in question.units : u[1] = o[1] => u \in mine) =>
                 (o \in answer.orphans <=> o \notin question.units /\ ScopeOf(o) \in scanned)

\* The load of a document: with a mistake in any app there are no units at
\* all, also when only the folders bring it about; else there is one unit for
\* each project an app claims, with the most specific region given, and its
\* environment's auto before the default.  A folder that does not answer can
\* withdraw units but adds or changes none.  The linter agrees wherever the
\* folders add nothing (config.Parse, ResolveConfig, Expand, validateRepo).
UnitsAreExact ==
  Answered("units") =>
    LET root == question.root
        P == ProjectsOf(root, question.under, question.down)
        all == LoadUnits(root, question.under, {})
    IN /\ answer.load.err <=> Mistake(root, P)
       /\ ~answer.load.err =>
            answer.load.units = UNION {UnitsOf(root, P, root.apps[i]) : i \in DOMAIN root.apps}
       /\ ~answer.load.err /\ ~all.err => answer.load.units \subseteq all.units
       /\ (\A e \in EnvName : P[e] \subseteq root.envs[e].projects)
            => (answer.lint <=> ~Mistake(root, P))
=============================================================================
