----------------------------- MODULE Expansion -----------------------------
(***************************************************************************)
(* From runcd.yaml to sync units: the cross-references of config.Parse,    *)
(* folders.ResolveConfig, expander.Expand, and the linter of cmd/runcd     *)
(* that does the same without the folders.                                 *)
(*                                                                         *)
(* A document has default settings, environments with projects, folders    *)
(* and settings of their own, and a sequence of apps.  Lists without       *)
(* repetition are sets; the settings are the region and the sync policy's  *)
(* auto, which stands for its other fields.                                *)
(***************************************************************************)
EXTENDS Access, Integers, Sequences

CONSTANT Blank   \* a setting that is not given

Layer == [region : Region \cup {Blank}, auto : BOOLEAN \cup {Blank}]
EnvSpec == [projects : SUBSET Project, folders : SUBSET FolderID, layer : Layer]

\* overrides[p] is Blank when there is no entry, or [region |-> Blank] when
\* there is one that leaves the region alone.
AppSpec == [name : App, env : EnvName, exclude : SUBSET Project,
            overrides : [Project -> {Blank} \cup [region : Region \cup {Blank}]]]

Document == [layer : Layer, envs : [EnvName -> EnvSpec], apps : Seq(AppSpec)]

Overridden(a) == {p \in Project : a.overrides[p] # Blank}

\* Parse, on what is declared: no two apps of a name share a project.
Parses(root) ==
  \A i, j \in DOMAIN root.apps :
    i < j /\ root.apps[i].name = root.apps[j].name =>
      (root.envs[root.apps[i].env].projects \ root.apps[i].exclude)
        \cap (root.envs[root.apps[j].env].projects \ root.apps[j].exclude) = {}

\* ResolveConfig: a folder that does not answer adds nothing this time.
ResolveConfig(root, under, down) ==
  [root EXCEPT !.envs = [e \in EnvName |->
     [root.envs[e] EXCEPT
        !.projects = @ \cup UNION {under[f] : f \in root.envs[e].folders \ down}]]]

\* SyncPolicy.Merge, field by field.
Merge(base, over) == IF over = Blank THEN base ELSE over

\* The most specific setting that is given.
RegionOf(root, env, o) ==
  LET region == Merge(root.layer.region, env.layer.region)
  IN IF o = Blank THEN region ELSE Merge(region, o.region)

\* Mutant of Collides: Parse has seen to it.
CollidesNever(units, new) == FALSE

\* seenAppProject.
Collides(units, new) ==
  \E u \in units, v \in new : u.app = v.app /\ u.project = v.project

\* No units, and an error.
Refused == [units |-> {}, err |-> TRUE]

\* The units of one app.
NewUnits(root, a) ==
  LET env == root.envs[a.env]
  IN {[app |-> a.name, project |-> p, env |-> a.env,
       region |-> RegionOf(root, env, a.overrides[p]),
       auto |-> Merge(root.layer.auto, env.layer.auto)] : p \in env.projects \ a.exclude}

\* A mistake in an app by itself.
Faulty(root, a) ==
  LET projects == root.envs[a.env].projects
  IN \/ ~(Overridden(a) \subseteq projects)
     \/ ~(a.exclude \subseteq projects)
     \/ Overridden(a) \cap a.exclude # {}
     \/ \E u \in NewUnits(root, a) : u.region = Blank

\* The units so far, with those of one more app; any mistake refuses all.
Expanded(root, sofar, a) ==
  LET new == NewUnits(root, a)
  IN IF sofar.err \/ Faulty(root, a) \/ Collides(sofar.units, new)
     THEN Refused ELSE [units |-> sofar.units \cup new, err |-> FALSE]

Expand(root) ==
  LET sofar[i \in 0..Len(root.apps)] ==
        IF i = 0 THEN [units |-> {}, err |-> FALSE]
        ELSE Expanded(root, sofar[i - 1], root.apps[i])
  IN sofar[Len(root.apps)]

\* loadUnits.
LoadUnits(root, under, down) ==
  IF Parses(root) THEN Expand(ResolveConfig(root, under, down)) ELSE Refused

\* validateRepo on runcd.yaml: no folder is resolved.
ValidateRepo(root) == Parses(root) /\ ~Expand(root).err

-----------------------------------------------------------------------------
\* The reference: the projects of each environment, declared or through a
\* folder that answers; what an app claims of them; the settings of its
\* region, the specific ones first, and which are given.
ProjectsOf(root, under, down) ==
  [e \in EnvName |->
     {p \in Project : \/ p \in root.envs[e].projects
                     \/ \E f \in root.envs[e].folders \ down : p \in under[f]}]

Claimed(P, a) == P[a.env] \ a.exclude

Settings(root, a, p) ==
  <<IF a.overrides[p] = Blank THEN Blank ELSE a.overrides[p].region,
    root.envs[a.env].layer.region, root.layer.region>>

Given(root, a, p) == {i \in 1..3 : Settings(root, a, p)[i] # Blank}

\* An app names a project that is not there, or both overrides and excludes
\* it, or leaves it without a region; two apps claim the same.
Wrong(root, P, a) ==
  \/ \E p \in Overridden(a) \cup a.exclude : p \notin P[a.env] \/ p \in Overridden(a) \cap a.exclude
  \/ \E p \in Claimed(P, a) : Given(root, a, p) = {}

Clash(P, a, b) == a.name = b.name /\ Claimed(P, a) \cap Claimed(P, b) # {}

Mistake(root, P) ==
  \E i \in DOMAIN root.apps :
    \/ Wrong(root, P, root.apps[i])
    \/ \E j \in DOMAIN root.apps \ {i} : Clash(P, root.apps[i], root.apps[j])

UnitsOf(root, P, a) ==
  LET given(p) == Given(root, a, p)
      first(p) == CHOOSE i \in given(p) : \A j \in given(p) : i <= j
      auto == root.envs[a.env].layer.auto
  IN {[app |-> a.name, project |-> p, env |-> a.env,
       region |-> Settings(root, a, p)[first(p)],
       auto |-> IF auto # Blank THEN auto ELSE root.layer.auto] : p \in Claimed(P, a)}
=============================================================================
