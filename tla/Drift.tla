------------------------------- MODULE Drift -------------------------------
(***************************************************************************)
(* From a service definition to a deploy and back: internal/manifest, the  *)
(* desired state of reconcile.go, internal/diff, internal/health and the   *)
(* translation between a Cloud Run resource and a ServiceState in          *)
(* internal/cloudrun/gcp.go.                                               *)
(*                                                                         *)
(* A resource has its first container's image (by digest, or by a tag that *)
(* points at one) and env, the percentage of traffic its latest revision   *)
(* gets, the condition it is in and, if it is a job, its latest execution. *)
(* An environment maps names to a value, a secret or Unset.                *)
(***************************************************************************)
EXTENDS Integers

CONSTANTS
  Name, Value, Secret, \* of environment variables
  Digest,
  Unset,               \* no entry of a map, no traffic block
  Nil                  \* a nil map or pointer of a ServiceState

Type == {"service", "workerPool", "job"}
SecretRef == [secret : Secret, version : {"latest", "1"}]
Environment == [Name -> {Unset} \cup Value \cup SecretRef]
Image == [by : {"digest", "tag"}, digest : Digest]
State == {"ready", "creating", "failed"}
Execution == [digest : Digest, status : {"running", "succeeded", "failed"}]
Resource ==
  [type : {"service", "workerPool"}, image : Image, percent : {0, 100},
   env : Environment, state : State, run : {Unset}]
  \cup [type : {"job"}, image : Image, percent : {0}, env : Environment,
        state : {"ready"}, run : {Unset} \cup Execution]

\* A secret that names no version leaves it to the default.
Definition == [type : Type, digest : Digest, traffic : {Unset, 50, 100},
               env : [Name -> {Unset} \cup Value],
               secrets : [Name -> {Unset} \cup [secret : Secret, version : {Unset, "1"}]]]

\* An entry's source can be told from the entry, and what is missing from what is there.
ASSUME DriftAssumption ==
  /\ Value \cap SecretRef = {} /\ Unset \notin SecretRef
  /\ Nil \notin Environment /\ Nil \notin Digest

-----------------------------------------------------------------------------
\* Mutant of ValidTraffic: any percentage is accepted.
ValidTrafficAny(sd) == TRUE

ValidTraffic(sd) == sd.traffic \in {Unset, 100}

ValidSecrets(sd) == \A n \in Name : sd.env[n] = Unset \/ sd.secrets[n] = Unset

\* effectiveManagedFields: the defaults' fields, less the app's ignoreFields.
Effective(base, ignore) == base \ ignore

\* manifest.Parse, and the one combination that reconcile refuses.
Valid(sd, managed) ==
  /\ ValidTraffic(sd) /\ ValidSecrets(sd)
  /\ ~(sd.type = "job" /\ "env" \in managed)

Versioned(s) ==
  IF s = Unset THEN Unset
  ELSE [s EXCEPT !.version = IF @ = Unset THEN "latest" ELSE @]

\* Nil where a field is not managed, or its block is missing.
Desired(sd, managed) ==
  [digest  |-> sd.digest,
   traffic |-> IF "traffic" \in managed /\ sd.traffic # Unset THEN sd.traffic ELSE Nil,
   vars    |-> IF "env" \in managed THEN sd.env ELSE Nil,
   secrets |-> IF "env" \in managed THEN [n \in Name |-> Versioned(sd.secrets[n])] ELSE Nil]

\* The digest the health checks look for; Nil means any.
FetchDigest(sd, managed) == IF "image" \in managed THEN sd.digest ELSE Nil

-----------------------------------------------------------------------------
\* envStateFromContainers: the container's entries, by where they come from.
Vars(env) == [n \in Name |-> IF env[n] \in SecretRef THEN Unset ELSE env[n]]
Secrets(env) == [n \in Name |-> IF env[n] \in SecretRef THEN env[n] ELSE Unset]

\* liveServiceFromService and liveServiceFromWorkerPool.  A tag is resolved;
\* only a service has traffic.
LiveService(r) ==
  [digest  |-> r.image.digest,
   traffic |-> IF r.type = "service" THEN r.percent ELSE Nil,
   vars    |-> Vars(r.env),
   secrets |-> Secrets(r.env)]

\* GetJob shows the image of the task template only.
LiveJob(r) == [digest |-> r.image.digest, traffic |-> Nil, vars |-> Nil, secrets |-> Nil]

Live(r) == IF r.type = "job" THEN LiveJob(r) ELSE LiveService(r)

Compute(d, l, managed, type) ==
  IF /\ "image" \in managed => d.digest = l.digest
     /\ "traffic" \in managed /\ type = "service" /\ d.traffic # Nil => d.traffic = l.traffic
     /\ "env" \in managed /\ type # "job" /\ (d.vars # Nil \/ d.secrets # Nil)
          => d.vars = l.vars /\ d.secrets = l.secrets
  THEN "Synced" ELSE "OutOfSync"

\* AssessService and AssessWorkerPool, which has no traffic.
AssessService(d, r, wanted, managed) ==
  IF wanted \notin {Nil, r.image.digest} THEN "Missing"
  ELSE CASE r.state = "creating" -> "Progressing"
         [] r.state = "failed" -> "Degraded"
         [] r.state = "ready" ->
              IF /\ r.type = "service" /\ "traffic" \in managed
                 /\ d.traffic \notin {Nil, r.percent}
              THEN "Progressing" ELSE "Healthy"

\* AssessJob: the latest execution counts if it ran the wanted image.
AssessJob(r, wanted) ==
  IF r.run = Unset \/ (wanted # Nil /\ wanted # r.run.digest) THEN "Missing"
  ELSE CASE r.run.status = "succeeded" -> "Healthy"
         [] r.run.status = "running" -> "Progressing"
         [] OTHER -> "Degraded"

Assess(d, r, wanted, managed) ==
  IF r.type = "job" THEN AssessJob(r, wanted) ELSE AssessService(d, r, wanted, managed)

-----------------------------------------------------------------------------
\* deploySyncUnit replaces an image that is not managed by the live one.
Target(d, l, managed) == IF "image" \in managed THEN d ELSE [d EXCEPT !.digest = l.digest]

\* A nil map reads as an empty one.
Entry(map, n) == IF map = Nil THEN Unset ELSE map[n]

\* Mutant of BuildEnvVars: what the container has and the manifest does not
\* name stays.
BuildEnvVarsMerged(d, r) ==
  [n \in Name |-> IF Entry(d.vars, n) # Unset THEN Entry(d.vars, n)
                  ELSE IF Entry(d.secrets, n) # Unset THEN Entry(d.secrets, n) ELSE r.env[n]]

\* The container's entries are replaced as a whole.
BuildEnvVars(d, r) ==
  [n \in Name |-> IF Entry(d.vars, n) # Unset THEN Entry(d.vars, n) ELSE Entry(d.secrets, n)]

\* Mutant of TouchesEnv: env is written on every deploy, from empty maps.
TouchesEnvAlways(d) == TRUE

TouchesEnv(d) == d.vars # Nil \/ d.secrets # Nil

\* withDigest: whatever the reference was, it names a digest from now on.
Pinned(d) == [by |-> "digest", digest |-> d.digest]

\* validatedPercent: the call fails before anything is written.
Deployable(d, r) == r.type = "service" => d.traffic \in {Nil, 100}

\* DeployService, and deployWorkerPool, which has no traffic to set.
DeployService(d, r) ==
  IF ~Deployable(d, r) THEN r
  ELSE [r EXCEPT
         !.image = Pinned(d),
         !.percent = IF r.type = "service" /\ d.traffic # Nil THEN d.traffic ELSE @,
         !.env = IF TouchesEnv(d) THEN BuildEnvVars(d, r) ELSE @]

\* DeployJob: the image only, and no execution is started.
DeployJob(d, r) == [r EXCEPT !.image = Pinned(d)]

Deploy(d, r) == IF r.type = "job" THEN DeployJob(d, r) ELSE DeployService(d, r)
=============================================================================
