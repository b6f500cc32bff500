--------------------------- MODULE DecisionsProofs ---------------------------
(***************************************************************************)
(* What the decisions of a tick promise, for every configuration: windows  *)
(* cover the hours they name, one deploy is enough and touches nothing     *)
(* else, and a scan reports exactly what is not declared.                  *)
(***************************************************************************)
EXTENDS Decisions, TLAPS

-----------------------------------------------------------------------------
\* A resource has the fields of its kind, and a deploy keeps them.
LEMMA ResourceFields ==
  ASSUME NEW r \in Resource
  PROVE  /\ DOMAIN r = {"type", "image", "percent", "env", "state", "run"}
         /\ r.type \in Type /\ r.state \in State /\ r.env \in Environment
         /\ r.image \in Image
  BY DEF Resource, Type, State, Environment

\* What a deploy leaves of a resource.
LEMMA Deployed ==
  ASSUME NEW r \in Resource, NEW d, Deployable(d, r)
  PROVE  /\ Deploy(d, r).type = r.type /\ Deploy(d, r).state = r.state
         /\ Deploy(d, r).run = r.run
         /\ Deploy(d, r).image.digest = d.digest
         /\ Deploy(d, r).percent = IF r.type = "service" /\ d.traffic # Nil
                                   THEN d.traffic ELSE r.percent
         /\ Deploy(d, r).env = IF r.type # "job" /\ TouchesEnv(d)
                               THEN BuildEnvVars(d, r) ELSE r.env
<1>1. DOMAIN r = {"type", "image", "percent", "env", "state", "run"}
  BY ResourceFields
<1>2. CASE r.type = "job"
  BY <1>1, <1>2 DEF Deploy, DeployJob, Pinned
<1>3. CASE r.type # "job"
  <2>1. Deploy(d, r) = [r EXCEPT !.image = Pinned(d),
         !.percent = IF r.type = "service" /\ d.traffic # Nil THEN d.traffic ELSE @,
         !.env = IF TouchesEnv(d) THEN BuildEnvVars(d, r) ELSE @]
    BY <1>3 DEF Deploy, DeployService
  <2> QED
    BY <1>1, <1>3, <2>1 DEF Pinned
<1> QED
  BY <1>2, <1>3

\* The deploy's target: the desired state, with the image that runs where the
\* image is not managed.
LEMMA TargetFields ==
  ASSUME NEW sd, NEW managed, NEW l
  PROVE  LET d == Desired(sd, managed)
             t == Target(d, l, managed)
         IN /\ t.digest = IF "image" \in managed THEN sd.digest ELSE l.digest
            /\ t.traffic = d.traffic /\ t.vars = d.vars /\ t.secrets = d.secrets
  BY DEF Target, Desired

\* A definition that is valid can be deployed to a resource of its type.
LEMMA ValidIsDeployable ==
  ASSUME NEW sd, NEW managed, NEW l, NEW r, Valid(sd, managed)
  PROVE  Deployable(Target(Desired(sd, managed), l, managed), r)
<1>1. Desired(sd, managed).traffic \in {Nil, 100}
  BY DEF Desired, Valid, ValidTraffic
<1> QED
  BY <1>1, TargetFields DEF Deployable

\* The image that a resource shows is the one it has.
LEMMA LiveDigest == \A r : Live(r).digest = r.image.digest
  BY DEF Live, LiveJob, LiveService

-----------------------------------------------------------------------------
\* A question is of one of the kinds, and stays as it was put.
QuestionInv ==
  question \in WindowQuestions \cup TagQuestions \cup DriftQuestions
                \cup OrphanQuestions \cup UnitQuestions

\* Its kind tells what a question asks about.
LEMMA Kinds ==
  ASSUME QuestionInv
  PROVE  /\ question.kind = "window" => question \in WindowQuestions
         /\ question.kind = "tag" => question \in TagQuestions
         /\ question.kind = "drift" => question \in DriftQuestions
         /\ question.kind = "orphans" => question \in OrphanQuestions
         /\ question.kind = "units" => question \in UnitQuestions
<1>1. question \in WindowQuestions => question.kind = "window"
  BY DEF WindowQuestions
<1>2. question \in TagQuestions => question.kind = "tag"
  BY DEF TagQuestions
<1>3. question \in DriftQuestions => question.kind = "drift"
  BY DEF DriftQuestions
<1>4. question \in OrphanQuestions => question.kind = "orphans"
  BY DEF OrphanQuestions
<1>5. question \in UnitQuestions => question.kind = "units"
  BY DEF UnitQuestions
<1> QED
  BY <1>1, <1>2, <1>3, <1>4, <1>5 DEF QuestionInv

\* No step changes the question.
LEMMA SameQuestion ==
  ASSUME [Next]_vars
  PROVE  question' = question
  BY DEF Next, vars, Permit, Pick, Sync, Scan, Load, Again

\* Only the operation that a question asks for answers it.
LEMMA OwnStep ==
  ASSUME [Next]_vars
  PROVE  /\ Answered("window")' => Permit \/ UNCHANGED vars
         /\ Answered("tag")' => Pick \/ UNCHANGED vars
         /\ Answered("drift")' => Sync \/ UNCHANGED vars
         /\ Answered("orphans")' => Scan \/ UNCHANGED vars
         /\ Answered("units")' => Load \/ UNCHANGED vars
<1>1. Permit => question'.kind = "window"
  BY DEF Permit
<1>2. Pick => question'.kind = "tag"
  BY DEF Pick
<1>3. Sync => question'.kind = "drift"
  BY DEF Sync
<1>4. Scan => question'.kind = "orphans"
  BY DEF Scan
<1>5. Load => question'.kind = "units"
  BY DEF Load
<1>6. Again => answer' = Pending
  BY DEF Again
<1>7. \A k : Answered(k)' <=> answer' # Pending /\ question'.kind = k
  BY DEF Answered
<1> QED
  BY <1>1, <1>2, <1>3, <1>4, <1>5, <1>6, <1>7 DEF Next

\* The kinds of question are all that a specification starts from and keeps.
LEMMA Questions == Spec => []QuestionInv
<1>1. Init => QuestionInv
  BY DEF Init, QuestionInv
<1>2. QuestionInv /\ [Next]_vars => QuestionInv'
  BY SameQuestion DEF QuestionInv
<1> QED
  BY <1>1, <1>2, PTL DEF Spec

-----------------------------------------------------------------------------
\* A question about a sync has a definition and a resource of one type.
LEMMA DriftQuestion ==
  ASSUME NEW q \in DriftQuestions
  PROVE  q.sd \in Definition /\ q.resource \in Resource /\ q.sd.type = q.resource.type
  BY DEF DriftQuestions

\* What a sync leaves of the fields that are not managed.
LEMMA SyncTouches ==
  ASSUME NEW q \in DriftQuestions, NEW managed, Valid(q.sd, managed)
  PROVE  LET after == Deploy(Target(Desired(q.sd, managed), Live(q.resource), managed), q.resource)
         IN /\ "env" \notin managed => after.env = q.resource.env
            /\ "traffic" \notin managed => after.percent = q.resource.percent
            /\ "image" \notin managed => after.image.digest = q.resource.image.digest
<1> DEFINE d == Desired(q.sd, managed)
           t == Target(d, Live(q.resource), managed)
<1>1. q.resource \in Resource
  BY DriftQuestion
<1>2. Deployable(t, q.resource)
  BY ValidIsDeployable
<1>3. /\ t.digest = IF "image" \in managed THEN q.sd.digest ELSE Live(q.resource).digest
      /\ t.traffic = d.traffic /\ t.vars = d.vars /\ t.secrets = d.secrets
  BY TargetFields
<1>4. "env" \notin managed => ~TouchesEnv(t)
  BY <1>3 DEF TouchesEnv, Desired
<1>5. "traffic" \notin managed => t.traffic = Nil
  BY <1>3 DEF Desired
<1>6. "image" \notin managed => t.digest = q.resource.image.digest
  BY <1>3, LiveDigest
<1> HIDE DEF t, d
<1>7. /\ Deploy(t, q.resource).image.digest = t.digest
      /\ Deploy(t, q.resource).percent
           = IF q.resource.type = "service" /\ t.traffic # Nil
             THEN t.traffic ELSE q.resource.percent
      /\ Deploy(t, q.resource).env
           = IF q.resource.type # "job" /\ TouchesEnv(t)
             THEN BuildEnvVars(t, q.resource) ELSE q.resource.env
  BY <1>1, <1>2, Deployed
<1>8. /\ "env" \notin managed => Deploy(t, q.resource).env = q.resource.env
      /\ "traffic" \notin managed => Deploy(t, q.resource).percent = q.resource.percent
      /\ "image" \notin managed
           => Deploy(t, q.resource).image.digest = q.resource.image.digest
  BY <1>4, <1>5, <1>6, <1>7
<1> QED
  BY <1>8 DEF t, d

\* A deploy leaves alone what the unit does not manage, whatever the
\* definition, the resource and the managed fields (deploySyncUnit,
\* DeployService, DeployJob).
THEOREM UnmanagedSafety == Spec => []UnmanagedUntouched
<1>1. Init => UnmanagedUntouched
  BY DEF Init, UnmanagedUntouched, Answered
<1>2. QuestionInv /\ UnmanagedUntouched /\ [Next]_vars => UnmanagedUntouched'
  <2> SUFFICES ASSUME QuestionInv, UnmanagedUntouched, [Next]_vars, Answered("drift")'
               PROVE  UnmanagedUntouched'
    BY DEF UnmanagedUntouched
  <2>1. CASE UNCHANGED vars
    BY <2>1 DEF UnmanagedUntouched, Answered, Managed, vars
  <2>2. CASE Sync
    <3>1. question \in DriftQuestions
      BY <2>2, Kinds DEF Sync
    <3>2. question' = question /\ Managed' = Managed
      BY <2>2 DEF Sync, Managed
    <3>3. CASE Valid(question.sd, Managed)
      <4>1. answer'.resource = Deploy(Target(Desired(question.sd, Managed),
                                             Live(question.resource), Managed), question.resource)
        BY <2>2, <3>3 DEF Sync
      <4> QED
        BY <3>1, <3>2, <3>3, <4>1, SyncTouches DEF UnmanagedUntouched
    <3>4. CASE ~Valid(question.sd, Managed)
      <4>1. answer'.resource = question.resource
        BY <2>2, <3>4 DEF Sync
      <4> QED
        BY <3>2, <4>1 DEF UnmanagedUntouched
    <3> QED
      BY <3>3, <3>4
  <2> QED
    BY <2>1, <2>2, OwnStep
<1> QED
  BY <1>1, <1>2, Questions, PTL DEF Spec

-----------------------------------------------------------------------------
\* What the manifest says of the secrets, with their versions.
LEMMA VersionedType ==
  ASSUME NEW s \in {Unset} \cup [secret : Secret, version : {Unset, "1"}]
  PROVE  Versioned(s) \in {Unset} \cup SecretRef
<1>1. CASE s = Unset
  BY <1>1 DEF Versioned
<1>2. CASE s # Unset
  <2>1. s \in [secret : Secret, version : {Unset, "1"}]
    BY <1>2
  <2>2. [s EXCEPT !.version = IF s.version = Unset THEN "latest" ELSE s.version] \in SecretRef
    BY <2>1 DEF SecretRef
  <2> QED
    BY <1>2, <2>2 DEF Versioned
<1> QED
  BY <1>1, <1>2

\* The env of a deploy is read back as the manifest's variables and secrets.
LEMMA EnvReadBack ==
  ASSUME NEW sd \in Definition, ValidSecrets(sd), NEW r, NEW t,
         t.vars = sd.env, t.secrets = [n \in Name |-> Versioned(sd.secrets[n])]
  PROVE  /\ TouchesEnv(t)
         /\ Vars(BuildEnvVars(t, r)) = t.vars
         /\ Secrets(BuildEnvVars(t, r)) = t.secrets
<1>1. /\ sd.env \in [Name -> {Unset} \cup Value]
      /\ sd.secrets \in [Name -> {Unset} \cup [secret : Secret, version : {Unset, "1"}]]
  BY DEF Definition
<1>2. \A n \in Name : Versioned(sd.secrets[n]) \in {Unset} \cup SecretRef
  BY <1>1, VersionedType
<1>3. t.vars \in Environment /\ t.secrets \in Environment
  BY <1>1, <1>2 DEF Environment
<1>4. t.vars # Nil /\ t.secrets # Nil
  BY <1>3, DriftAssumption
<1> DEFINE env == BuildEnvVars(t, r)
<1>5. \A n \in Name : env[n] = IF sd.env[n] # Unset THEN sd.env[n] ELSE Versioned(sd.secrets[n])
  BY <1>4 DEF BuildEnvVars, Entry
<1> HIDE DEF env
<1>6. ASSUME NEW n \in Name
      PROVE  /\ Vars(env)[n] = sd.env[n]
             /\ Secrets(env)[n] = Versioned(sd.secrets[n])
  <2>1. sd.env[n] \in {Unset} \cup Value
    BY <1>1
  <2>2. Value \cap SecretRef = {} /\ Unset \notin SecretRef
    BY DriftAssumption
  <2>3. sd.env[n] = Unset \/ sd.secrets[n] = Unset
    BY DEF ValidSecrets
  <2>4. CASE sd.env[n] # Unset
    <3>1. env[n] = sd.env[n] /\ sd.env[n] \notin SecretRef
      BY <1>5, <2>1, <2>2, <2>4
    <3>2. Versioned(sd.secrets[n]) = Unset
      BY <2>3, <2>4 DEF Versioned
    <3> QED
      BY <3>1, <3>2 DEF Vars, Secrets
  <2>5. CASE sd.env[n] = Unset
    <3>1. env[n] = Versioned(sd.secrets[n])
      BY <1>5, <2>5
    <3> QED
      BY <1>2, <2>2, <2>5, <3>1 DEF Vars, Secrets
  <2> QED
    BY <2>4, <2>5
<1>7. Vars(env) = sd.env
  <2>1. Vars(env) = [n \in Name |-> sd.env[n]]
    BY <1>6 DEF Vars
  <2> QED
    BY <1>1, <2>1
<1>8. Secrets(env) = t.secrets
  BY <1>6 DEF Secrets
<1> QED
  BY <1>4, <1>7, <1>8 DEF TouchesEnv, env

\* A resource that was synced shows what its definition says of it.
LEMMA SyncReadBack ==
  ASSUME NEW q \in DriftQuestions, NEW managed, Valid(q.sd, managed)
  PROVE  LET d == Desired(q.sd, managed)
             after == Deploy(Target(d, Live(q.resource), managed), q.resource)
         IN /\ after.type = q.sd.type /\ after.run = q.resource.run
            /\ after.state = q.resource.state
            /\ "image" \in managed => after.image.digest = d.digest
            /\ after.type = "service" => d.traffic \in {Nil, after.percent}
            /\ "env" \in managed
                 => d.vars = Live(after).vars /\ d.secrets = Live(after).secrets
<1> DEFINE d == Desired(q.sd, managed)
           t == Target(d, Live(q.resource), managed)
           after == Deploy(t, q.resource)
<1>1. q.resource \in Resource /\ q.sd \in Definition /\ q.sd.type = q.resource.type
  BY DriftQuestion
<1>2. Deployable(t, q.resource)
  BY ValidIsDeployable
<1>3. /\ "image" \in managed => t.digest = d.digest
      /\ t.traffic = d.traffic /\ t.vars = d.vars /\ t.secrets = d.secrets
  <2>1. d.digest = q.sd.digest
    BY DEF Desired
  <2> QED
    BY <2>1, TargetFields
<1>4. "env" \in managed => /\ q.sd.type # "job" /\ ValidSecrets(q.sd)
                           /\ d.vars = q.sd.env
                           /\ d.secrets = [n \in Name |-> Versioned(q.sd.secrets[n])]
  BY DEF Valid, Desired
<1> HIDE DEF d, t
<1>5. /\ after.type = q.resource.type /\ after.state = q.resource.state
      /\ after.run = q.resource.run
      /\ after.image.digest = t.digest
      /\ after.percent = IF q.resource.type = "service" /\ t.traffic # Nil
                         THEN t.traffic ELSE q.resource.percent
      /\ after.env = IF q.resource.type # "job" /\ TouchesEnv(t)
                     THEN BuildEnvVars(t, q.resource) ELSE q.resource.env
  BY <1>1, <1>2, Deployed
<1> HIDE DEF after
<1>6. after.type = "service" => d.traffic \in {Nil, after.percent}
  BY <1>3, <1>5
<1>7. ASSUME "env" \in managed
      PROVE  d.vars = Live(after).vars /\ d.secrets = Live(after).secrets
  <2>1. /\ q.sd.type # "job" /\ ValidSecrets(q.sd) /\ t.vars = q.sd.env
        /\ t.secrets = [n \in Name |-> Versioned(q.sd.secrets[n])]
    BY <1>3, <1>4, <1>7
  <2>2. /\ TouchesEnv(t)
        /\ Vars(BuildEnvVars(t, q.resource)) = t.vars
        /\ Secrets(BuildEnvVars(t, q.resource)) = t.secrets
    BY <1>1, <2>1, EnvReadBack
  <2>3. after.env = BuildEnvVars(t, q.resource) /\ after.type # "job"
    BY <1>1, <1>5, <2>1, <2>2
  <2>4. Live(after).vars = Vars(after.env) /\ Live(after).secrets = Secrets(after.env)
    BY <2>3 DEF Live, LiveService
  <2> QED
    BY <1>3, <2>2, <2>3, <2>4
<1>8. /\ after.type = q.sd.type /\ after.run = q.resource.run
      /\ after.state = q.resource.state
      /\ "image" \in managed => after.image.digest = d.digest
  BY <1>1, <1>3, <1>5
<1> QED
  BY <1>6, <1>7, <1>8 DEF d, t, after

\* A resource that shows what its definition says compares as Synced.
LEMMA SyncCompares ==
  ASSUME NEW q \in DriftQuestions, NEW managed, Valid(q.sd, managed)
  PROVE  LET d == Desired(q.sd, managed)
             after == Deploy(Target(d, Live(q.resource), managed), q.resource)
         IN Compute(d, Live(after), managed, q.sd.type) = "Synced"
<1> DEFINE d == Desired(q.sd, managed)
           after == Deploy(Target(d, Live(q.resource), managed), q.resource)
<1>1. /\ after.type = q.sd.type
      /\ "image" \in managed => after.image.digest = d.digest
      /\ after.type = "service" => d.traffic \in {Nil, after.percent}
      /\ "env" \in managed
           => d.vars = Live(after).vars /\ d.secrets = Live(after).secrets
  BY SyncReadBack
<1> HIDE DEF d, after
<1>2. Live(after).digest = after.image.digest
  BY LiveDigest
<1>3. after.type = "service" => Live(after).traffic = after.percent
  BY DEF Live, LiveService
<1>4. Compute(d, Live(after), managed, q.sd.type) = "Synced"
  BY <1>1, <1>2, <1>3 DEF Compute
<1> QED
  BY <1>4 DEF d, after

\* The health of a resource that was synced is that of what runs.
LEMMA SyncHealth ==
  ASSUME NEW q \in DriftQuestions, NEW managed, Valid(q.sd, managed)
  PROVE  LET d == Desired(q.sd, managed)
             r == Deploy(Target(d, Live(q.resource), managed), q.resource)
             ours == r.run # Unset /\ ("image" \in managed => r.run.digest = r.image.digest)
         IN Assess(d, r, FetchDigest(q.sd, managed), managed) = "Healthy" <=>
              IF r.type = "job" THEN ours /\ r.run.status = "succeeded" ELSE r.state = "ready"
<1> DEFINE d == Desired(q.sd, managed)
           r == Deploy(Target(d, Live(q.resource), managed), q.resource)
           wanted == FetchDigest(q.sd, managed)
           ours == r.run # Unset /\ ("image" \in managed => r.run.digest = r.image.digest)
<1>1. /\ r.state = q.resource.state
      /\ "image" \in managed => r.image.digest = d.digest
      /\ r.type = "service" => d.traffic \in {Nil, r.percent}
  BY SyncReadBack
<1>2. r.state \in State
  BY <1>1, DriftQuestion, ResourceFields
<1>3. d.digest = q.sd.digest /\ q.sd.digest # Nil
  BY DriftQuestion, DriftAssumption DEF Desired, Definition
<1>4. wanted = IF "image" \in managed THEN d.digest ELSE Nil
  BY <1>3 DEF FetchDigest
<1> HIDE DEF d, r, wanted
<1>5. CASE r.type = "job"
  <2>1. Assess(d, r, wanted, managed) = "Healthy"
          <=> /\ ~(r.run = Unset \/ (wanted # Nil /\ wanted # r.run.digest))
              /\ r.run.status = "succeeded"
    BY <1>5 DEF Assess, AssessJob
  <2>2. wanted # Nil <=> "image" \in managed
    BY <1>3, <1>4
  <2>3. "image" \in managed => wanted = r.image.digest
    BY <1>1, <1>4
  <2> QED
    BY <1>5, <2>1, <2>2, <2>3 DEF d, r, wanted
<1>6. CASE r.type # "job"
  <2>1. wanted \in {Nil, r.image.digest}
    BY <1>1, <1>4
  <2>2. Assess(d, r, wanted, managed) = "Healthy" <=> r.state = "ready"
    BY <1>1, <1>2, <1>6, <2>1 DEF Assess, AssessService, State
  <2> QED
    BY <1>6, <2>2 DEF d, r, wanted
<1> QED
  BY <1>5, <1>6

\* One deploy is enough, for every valid definition, resource and set of
\* managed fields: what it leaves behind is Synced, and its health is that
\* of what runs (DeployService and DeployJob against diff.Compute and
\* health.Assess).
THEOREM SettlesSafety == Spec => []DeploySettles
<1>1. Init => DeploySettles
  BY DEF Init, DeploySettles, Answered
<1>2. QuestionInv /\ DeploySettles /\ [Next]_vars => DeploySettles'
  <2> SUFFICES ASSUME QuestionInv, DeploySettles, [Next]_vars, Answered("drift")'
               PROVE  DeploySettles'
    BY DEF DeploySettles
  <2>1. CASE UNCHANGED vars
    BY <2>1 DEF DeploySettles, Answered, Managed, vars
  <2>2. CASE Sync
    <3>1. question \in DriftQuestions
      BY <2>2, Kinds DEF Sync
    <3>2. question' = question /\ Managed' = Managed
      BY <2>2 DEF Sync, Managed
    <3> SUFFICES ASSUME Valid(question.sd, Managed)
                 PROVE  DeploySettles'
      BY <3>2 DEF DeploySettles
    <3> DEFINE d == Desired(question.sd, Managed)
               r == Deploy(Target(d, Live(question.resource), Managed), question.resource)
    <3>3. /\ answer'.resource = r
          /\ answer'.status = Compute(d, Live(r), Managed, question.sd.type)
          /\ answer'.health = Assess(d, r, FetchDigest(question.sd, Managed), Managed)
      BY <2>2 DEF Sync
    <3>4. Compute(d, Live(r), Managed, question.sd.type) = "Synced"
      BY <3>1, SyncCompares
    <3>5. LET ours == r.run # Unset /\ ("image" \in Managed => r.run.digest = r.image.digest)
          IN Assess(d, r, FetchDigest(question.sd, Managed), Managed) = "Healthy" <=>
               IF r.type = "job" THEN ours /\ r.run.status = "succeeded" ELSE r.state = "ready"
      BY <3>1, SyncHealth
    <3> HIDE DEF d, r
    <3> QED
      BY <3>2, <3>3, <3>4, <3>5 DEF DeploySettles
  <2> QED
    BY <2>1, <2>2, OwnStep
<1> QED
  BY <1>1, <1>2, Questions, PTL DEF Spec

-----------------------------------------------------------------------------
\* The days before a day are whole days.
LEMMA DayStarts ==
  ASSUME NEW d \in Nat, NEW e \in Nat, d < e
  PROVE  d * Hours + Hours <= e * Hours
<1> Hours \in Nat
  BY WeekAssumption
<1>1. PICK c \in Nat : e = d + 1 + c
  <2>1. e - d - 1 \in Nat
    OBVIOUS
  <2>2. e = d + 1 + (e - d - 1)
    OBVIOUS
  <2> QED
    BY <2>1, <2>2
<1>2. e * Hours = d * Hours + Hours + c * Hours
  BY <1>1
<1>3. c * Hours \in Nat /\ d * Hours \in Nat
  OBVIOUS
<1> QED
  BY <1>2, <1>3

\* An hour of the week is one hour of one day.
LEMMA OneHour ==
  ASSUME NEW d \in Nat, NEW e \in Nat, NEW a \in 0..(Hours - 1), NEW b \in 0..(Hours - 1)
  PROVE  d * Hours + a = e * Hours + b <=> d = e /\ a = b
<1> Hours \in Nat
  BY WeekAssumption
<1>1. d * Hours \in Nat /\ e * Hours \in Nat
  OBVIOUS
<1>2. CASE d < e
  BY <1>1, <1>2, DayStarts
<1>3. CASE e < d
  BY <1>1, <1>3, DayStarts
<1>4. CASE d = e
  BY <1>1, <1>4
<1> QED
  BY <1>2, <1>3, <1>4

\* A remainder is the number itself, or the number less one round.
LEMMA Remainder ==
  ASSUME NEW m \in Nat \ {0}, NEW x \in Nat, x < 2 * m
  PROVE  x % m = IF x < m THEN x ELSE x - m
  OBVIOUS

\* The hours after the start of a day: that day's, then the next one's, and
\* the last day is followed by the first.
LEMMA Circle ==
  ASSUME NEW d \in Day, NEW o \in Nat, o < 2 * Hours
  PROVE  (d * Hours + o) % (Weekdays * Hours)
           = IF o < Hours THEN d * Hours + o
             ELSE IF d = Weekdays - 1 THEN 0 * Hours + (o - Hours)
             ELSE (d + 1) * Hours + (o - Hours)
<1> USE WeekAssumption
<1> DEFINE m == Weekdays * Hours
<1>1. d \in Nat /\ d < Weekdays
  BY DEF Day
<1>2. m \in Nat \ {0} /\ d * Hours \in Nat
  BY <1>1
<1>3. d * Hours + Hours <= m
  BY <1>1, DayStarts
<1>4. Hours <= m
  BY <1>2, <1>3
<1>5. (d * Hours + o) % m = IF d * Hours + o < m THEN d * Hours + o ELSE d * Hours + o - m
  <2>1. d * Hours + o \in Nat
    BY <1>2
  <2>2. d * Hours + o < 2 * m
    BY <1>2, <1>3, <1>4
  <2> HIDE DEF m
  <2> QED
    BY <1>2, <2>1, <2>2, Remainder
<1>6. CASE o < Hours
  BY <1>2, <1>3, <1>5, <1>6
<1>7. CASE o >= Hours /\ d = Weekdays - 1
  <2>1. m = d * Hours + Hours
    BY <1>1, <1>7
  <2> QED
    BY <1>2, <1>5, <1>7, <2>1
<1>8. CASE o >= Hours /\ d # Weekdays - 1
  <2>1. d + 1 \in Nat /\ d + 1 < Weekdays
    BY <1>1, <1>8
  <2>2. (d + 1) * Hours + Hours <= m
    BY <2>1, DayStarts
  <2>3. (d + 1) * Hours = d * Hours + Hours
    BY <1>1
  <2>4. d * Hours + o < m
    BY <1>2, <2>2, <2>3
  <2> QED
    BY <1>2, <1>5, <1>8, <2>3, <2>4
<1> QED
  BY <1>6, <1>7, <1>8

\* Which hour of which day lies so many hours after the start of a day.
LEMMA HourAfter ==
  ASSUME NEW t \in Time, NEW d \in Day, NEW o \in Nat, o < 2 * Hours
  PROVE  HourOfWeek(t) = (d * Hours + o) % (Weekdays * Hours)
           <=> IF o < Hours THEN d = t.day /\ o = t.hour
               ELSE d = DayBefore(t.day) /\ o = t.hour + Hours
<1> USE WeekAssumption
<1>1. /\ t.day \in Nat /\ t.day < Weekdays /\ t.hour \in 0..(Hours - 1)
      /\ d \in Nat /\ d < Weekdays
  BY DEF Time, Day
<1>2. HourOfWeek(t) = t.day * Hours + t.hour
  BY DEF HourOfWeek
<1> DEFINE x == (d * Hours + o) % (Weekdays * Hours)
<1>3. CASE o < Hours
  <2>1. o \in 0..(Hours - 1)
    BY <1>3
  <2>2. x = d * Hours + o
    BY <1>3, Circle
  <2> HIDE DEF x
  <2>3. t.day * Hours + t.hour = d * Hours + o <=> t.day = d /\ t.hour = o
    <3>1. ASSUME NEW e \in Nat, NEW a \in 0..(Hours - 1)
          PROVE  e * Hours + a = d * Hours + o <=> e = d /\ a = o
      <4>1. d \in Nat
        BY <1>1
      <4> HIDE WeekAssumption
      <4> QED
        BY <2>1, <4>1, OneHour
    <3> HIDE WeekAssumption
    <3> QED
      BY <1>1, <3>1, Zenon
  <2>4. HourOfWeek(t) = x <=> d = t.day /\ o = t.hour
    BY <1>2, <2>2, <2>3
  <2> QED
    BY <1>3, <2>4 DEF x
<1>4. CASE o >= Hours
  <2>1. o - Hours \in 0..(Hours - 1) /\ d + 1 \in Nat /\ ~(o < Hours)
    BY <1>1, <1>4
  <2>2. CASE d = Weekdays - 1
    <3>1. x = 0 * Hours + (o - Hours)
      BY <2>1, <2>2, Circle
    <3>2. t.day * Hours + t.hour = 0 * Hours + (o - Hours)
            <=> t.day = 0 /\ t.hour = o - Hours
      BY <1>1, <2>1, OneHour
    <3> HIDE DEF x
    <3>3. HourOfWeek(t) = x <=> t.day = 0 /\ t.hour = o - Hours
      BY <1>2, <3>1, <3>2
    <3>4. HourOfWeek(t) = x <=> d = DayBefore(t.day) /\ o = t.hour + Hours
      BY <1>1, <2>2, <3>3 DEF DayBefore
    <3> QED
      BY <2>1, <3>4 DEF x
  <2>3. CASE d # Weekdays - 1
    <3>1. x = (d + 1) * Hours + (o - Hours)
      BY <2>1, <2>3, Circle
    <3>2. t.day * Hours + t.hour = (d + 1) * Hours + (o - Hours)
            <=> t.day = d + 1 /\ t.hour = o - Hours
      BY <1>1, <2>1, OneHour
    <3> HIDE DEF x
    <3>3. HourOfWeek(t) = x <=> t.day = d + 1 /\ t.hour = o - Hours
      BY <1>2, <3>1, <3>2
    <3>4. HourOfWeek(t) = x <=> d = DayBefore(t.day) /\ o = t.hour + Hours
      BY <1>1, <2>3, <3>3 DEF DayBefore
    <3> QED
      BY <2>1, <3>4 DEF x
  <2> QED
    BY <2>2, <2>3
<1> QED
  BY <1>3, <1>4

\* The days a window starts on.
StartDays(w) == IF w.days = {} THEN Day ELSE w.days

\* A window covers an hour of its day, or of the day after it.
LEMMA CoversHour ==
  ASSUME NEW w \in Window, NEW t \in Time
  PROVE  HourOfWeek(t) \in Covers(w) <=>
           \/ /\ t.day \in StartDays(w) /\ t.hour >= w.start
              /\ t.hour < w.start + Span(w)
           \/ /\ DayBefore(t.day) \in StartDays(w) /\ t.hour + Hours >= w.start
              /\ t.hour + Hours < w.start + Span(w)
<1> USE WeekAssumption
<1>1. /\ w.start \in 0..Hours /\ w.end \in 0..Hours
      /\ w.start = w.end => w.start = 0
      /\ StartDays(w) \subseteq Day
  BY DEF Window, StartDays
<1>2. /\ t.day \in Day /\ t.hour \in 0..(Hours - 1)
      /\ DayBefore(t.day) \in Day
  BY DEF Time, Day, DayBefore
<1>3. Span(w) \in Nat /\ w.start + Span(w) <= 2 * Hours
  BY <1>1 DEF Span
<1> DEFINE In(d, o) == HourOfWeek(t) = (d * Hours + o) % (Weekdays * Hours)
<1>4. HourOfWeek(t) \in Covers(w) <=>
        \E d \in StartDays(w), i \in 0..(Span(w) - 1) :
          HourOfWeek(t) = (d * Hours + w.start + i) % (Weekdays * Hours)
  BY DEF Covers, StartDays
<1>5. ASSUME NEW d \in StartDays(w), NEW i \in 0..(Span(w) - 1)
      PROVE  d * Hours + w.start + i = d * Hours + (w.start + i)
  <2>1. d * Hours \in Int
    BY <1>1 DEF Day
  <2> QED
    BY <1>1, <1>3, <2>1
<1>6. HourOfWeek(t) \in Covers(w) <=>
        \E d \in StartDays(w), i \in 0..(Span(w) - 1) : In(d, w.start + i)
  BY <1>4, <1>5
<1>7. ASSUME NEW d \in StartDays(w), NEW o \in Nat, o < w.start + Span(w)
      PROVE  In(d, o) <=> IF o < Hours THEN d = t.day /\ o = t.hour
                          ELSE d = DayBefore(t.day) /\ o = t.hour + Hours
  <2>1. d \in Day /\ o < 2 * Hours
    BY <1>1, <1>3, <1>7
  <2> QED
    BY <2>1, HourAfter
<1> HIDE DEF In
<1>8. (\E d \in StartDays(w), i \in 0..(Span(w) - 1) : In(d, w.start + i)) <=>
        \E d \in StartDays(w), o \in Nat :
          o >= w.start /\ o < w.start + Span(w) /\ In(d, o)
  <2>1. ASSUME NEW d \in StartDays(w), NEW i \in 0..(Span(w) - 1), In(d, w.start + i)
        PROVE  \E o \in Nat : o >= w.start /\ o < w.start + Span(w) /\ In(d, o)
    <3>1. w.start + i \in Nat /\ w.start + i >= w.start /\ w.start + i < w.start + Span(w)
      BY <1>1, <1>3
    <3> QED
      BY <2>1, <3>1
  <2>2. ASSUME NEW d \in StartDays(w), NEW o \in Nat,
               o >= w.start, o < w.start + Span(w), In(d, o)
        PROVE  \E i \in 0..(Span(w) - 1) : In(d, w.start + i)
    <3>1. o - w.start \in 0..(Span(w) - 1) /\ w.start + (o - w.start) = o
      BY <1>1, <1>3, <2>2
    <3> QED
      BY <2>2, <3>1
  <2> QED
    BY <2>1, <2>2
<1>9. (\E d \in StartDays(w), o \in Nat :
          o >= w.start /\ o < w.start + Span(w) /\ In(d, o)) <=>
           \/ /\ t.day \in StartDays(w) /\ t.hour >= w.start
              /\ t.hour < w.start + Span(w)
           \/ /\ DayBefore(t.day) \in StartDays(w) /\ t.hour + Hours >= w.start
              /\ t.hour + Hours < w.start + Span(w)
  <2>1. /\ t.hour \in Nat /\ t.hour < Hours
        /\ t.hour + Hours \in Nat /\ ~(t.hour + Hours < Hours)
    BY <1>2
  <2> QED
    BY <1>7, <2>1
<1> QED
  BY <1>6, <1>8, <1>9

\* The cases of the code are the hours that a window covers.
LEMMA MatchesCovers ==
  ASSUME NEW w \in Window, NEW t \in Time
  PROVE  WindowMatches(w, t) <=> HourOfWeek(t) \in Covers(w)
<1> USE WeekAssumption
<1>1. /\ w.start \in 0..Hours /\ w.end \in 0..Hours
      /\ w.start = w.end => w.start = 0
  BY DEF Window
<1>2. t.hour \in 0..(Hours - 1)
  BY DEF Time
<1>3. /\ DayMatches(w, t.day) <=> t.day \in StartDays(w)
      /\ DayMatches(w, DayBefore(t.day)) <=> DayBefore(t.day) \in StartDays(w)
  <2>1. t.day \in Day /\ DayBefore(t.day) \in Day
    BY DEF Time, Day, DayBefore
  <2> QED
    BY <2>1 DEF DayMatches, StartDays
<1>4. w.start + Span(w) = IF w.end > w.start THEN w.end ELSE Hours + w.end
  BY <1>1 DEF Span
<1>5. WindowMatches(w, t) <=>
           \/ /\ DayMatches(w, t.day) /\ t.hour >= w.start
              /\ t.hour < w.start + Span(w)
           \/ /\ DayMatches(w, DayBefore(t.day)) /\ t.hour + Hours >= w.start
              /\ t.hour + Hours < w.start + Span(w)
  <2>1. CASE w.start = w.end
    BY <1>1, <1>2, <1>4, <2>1 DEF WindowMatches
  <2>2. CASE w.start < w.end
    BY <1>1, <1>2, <1>4, <2>2 DEF WindowMatches
  <2>3. CASE w.start > w.end
    BY <1>1, <1>2, <1>4, <2>3 DEF WindowMatches
  <2> QED
    BY <1>1, <2>1, <2>2, <2>3
<1> QED
  BY <1>3, <1>5, CoversHour

\* Whatever the windows, the week and the time of it, auto-sync is allowed in
\* the hours that the configuration names, also past midnight and from the
\* last day of the week into the first (WindowsAllow, windowMatches).
THEOREM WindowsSafety == Spec => []WindowsAreIntervals
<1>1. Init => WindowsAreIntervals
  BY DEF Init, WindowsAreIntervals, Answered
<1>2. QuestionInv /\ WindowsAreIntervals /\ [Next]_vars => WindowsAreIntervals'
  <2> SUFFICES ASSUME QuestionInv, WindowsAreIntervals, [Next]_vars, Answered("window")'
               PROVE  WindowsAreIntervals'
    BY DEF WindowsAreIntervals
  <2>1. CASE UNCHANGED vars
    BY <2>1 DEF WindowsAreIntervals, Answered, vars
  <2>2. CASE Permit
    <3>1. question \in WindowQuestions
      BY <2>2, Kinds DEF Permit
    <3>2. question.windows \subseteq Window /\ question.time \in Time
      BY <3>1 DEF WindowQuestions
    <3>3. \A w \in question.windows :
            /\ w.kind \in {"allow", "deny"}
            /\ WindowMatches(w, question.time) <=> HourOfWeek(question.time) \in Covers(w)
      <4>1. \A w \in Window : w.kind \in {"allow", "deny"}
        BY DEF Window
      <4> QED
        BY <3>2, <4>1, MatchesCovers
    <3>4. /\ question' = question
          /\ answer'.allowed = WindowsAllow(question.windows, question.time)
      BY <2>2 DEF Permit
    <3>5. WindowsAllow(question.windows, question.time) <=>
            LET hour == HourOfWeek(question.time)
                kept == {w \in question.windows : w.kind = "allow"}
            IN /\ \A w \in question.windows \ kept : hour \notin Covers(w)
               /\ kept = {} \/ \E w \in kept : hour \in Covers(w)
      BY <3>3 DEF WindowsAllow
    <3> QED
      BY <3>4, <3>5 DEF WindowsAreIntervals
  <2> QED
    BY <2>1, <2>2, OwnStep
<1> QED
  BY <1>1, <1>2, Questions, PTL DEF Spec

-----------------------------------------------------------------------------
\* A unit is its project, its region and its app.
LEMMA UnitParts ==
  /\ \A u \in Unit : /\ u = <<u[1], u[2], u[3]>>
                    /\ u[1] \in Project /\ u[2] \in Region /\ u[3] \in App
  /\ \A u, v \in Unit : u = v <=> ScopeOf(u) = ScopeOf(v) /\ u[3] = v[3]
  BY DEF Unit, ScopeOf

\* A live service is reported if it is in a scope that was listed, and is
\* none of the units the scan knew of.
LEMMA ReportedIs ==
  ASSUME NEW mine \in SUBSET Unit, NEW live \in SUBSET Unit, NEW down, NEW o \in live
  PROVE  o \in Reported(mine, live, down)
           <=> o \notin mine /\ ScopeOf(o) \in {ScopeOf(u) : u \in mine} \ down
<1> DEFINE scopes == {ScopeOf(u) : u \in mine} \ down
           Names(s) == ListServiceNames(live, s) \ Expected(mine, s)
<1>1. \A u \in Unit : u = <<ScopeOf(u)[1], ScopeOf(u)[2], u[3]>> /\ ScopeOf(u)[1] = u[1]
  BY UnitParts DEF ScopeOf
<1>2. o[3] \in Names(ScopeOf(o)) <=> o \notin mine
  <2>1. o[3] \in ListServiceNames(live, ScopeOf(o))
    BY DEF ListServiceNames
  <2>2. o[3] \in Expected(mine, ScopeOf(o))
          <=> \E u \in mine : ScopeOf(u) = ScopeOf(o) /\ u[3] = o[3]
    BY DEF Expected
  <2>3. o[3] \in Expected(mine, ScopeOf(o)) <=> o \in mine
    BY <2>2, UnitParts
  <2> QED
    BY <2>1, <2>3
<1>3. \A p : p \in DetectOrphans(mine, live, down)
             <=> \E s \in scopes : p \in {s} \X Names(s)
  BY DEF DetectOrphans
<1>4. \A s, n : <<s, n>> \in DetectOrphans(mine, live, down)
                <=> s \in scopes /\ n \in Names(s)
  BY <1>3
<1>5. ASSUME o \in Reported(mine, live, down)
      PROVE  ScopeOf(o) \in scopes /\ o[3] \in Names(ScopeOf(o))
  <2>1. PICK p \in DetectOrphans(mine, live, down) : o = <<p[1][1], p[1][2], p[2]>>
    BY <1>5 DEF Reported
  <2>2. PICK s \in scopes : p \in {s} \X Names(s)
    BY <1>3, <2>1
  <2>3. p[1] = s /\ p[2] \in Names(s)
    BY <2>2
  <2>4. PICK u \in mine : s = ScopeOf(u)
    BY <2>2
  <2>5. ScopeOf(o) = s /\ o[3] = p[2]
    <3>1. o[1] = p[1][1] /\ o[2] = p[1][2] /\ o[3] = p[2]
      BY <2>1
    <3>2. s[1] = u[1] /\ s[2] = u[2] /\ s = <<s[1], s[2]>>
      BY <2>4 DEF ScopeOf
    <3> QED
      BY <2>3, <3>1, <3>2 DEF ScopeOf
  <2> QED
    BY <2>2, <2>3, <2>5
<1>6. ASSUME ScopeOf(o) \in scopes, o[3] \in Names(ScopeOf(o))
      PROVE  o \in Reported(mine, live, down)
  <2> DEFINE p == <<ScopeOf(o), o[3]>>
  <2>1. p \in DetectOrphans(mine, live, down)
    BY <1>4, <1>6
  <2>2. p[1] = ScopeOf(o) /\ p[2] = o[3]
    OBVIOUS
  <2>3. PICK u \in mine : ScopeOf(o) = ScopeOf(u)
    BY <1>6
  <2>4. u[1] = p[1][1]
    BY <1>1, <2>2, <2>3
  <2>5. o = <<p[1][1], p[1][2], p[2]>>
    BY <1>1, <2>2
  <2> HIDE DEF p
  <2> QED
    BY <2>1, <2>3, <2>4, <2>5 DEF Reported
<1> QED
  BY <1>2, <1>5, <1>6

\* What a scan shows, of the units the caller may sync.
ScanIsExact ==
  Answered("orphans") =>
    LET mine == Scannable(question.units, question.rules, question.members)
        scanned == {ScopeOf(u) : u \in mine} \ question.down
    IN /\ answer.status = "forbidden" <=> ~HasAnyGrant(question.rules, "caller")
       /\ answer.status = "failed" => mine # {} /\ scanned = {}
       /\ answer.status = "ok" => \A o \in question.live :
            o \in answer.orphans <=> o \notin mine /\ ScopeOf(o) \in scanned

\* A scan says the same of every live service, whatever the units, the rules,
\* the folders and the scopes that do not answer: it is an orphan if its scope
\* was listed and it is none of the caller's units (DetectOrphans,
\* handleOrphans).
THEOREM ScanExactness == Spec => []ScanIsExact
<1>1. Init => ScanIsExact
  BY DEF Init, ScanIsExact, Answered
<1>2. QuestionInv /\ ScanIsExact /\ [Next]_vars => ScanIsExact'
  <2> SUFFICES ASSUME QuestionInv, ScanIsExact, [Next]_vars, Answered("orphans")'
               PROVE  ScanIsExact'
    BY DEF ScanIsExact
  <2>1. CASE UNCHANGED vars
    BY <2>1 DEF ScanIsExact, Answered, vars
  <2>2. CASE Scan
    <3> DEFINE mine == Scannable(question.units, question.rules, question.members)
               scanned == {ScopeOf(u) : u \in mine} \ question.down
    <3>1. question \in OrphanQuestions
      BY <2>2, Kinds DEF Scan
    <3>2. question.units \subseteq Unit /\ question.live \subseteq Unit
      BY <3>1 DEF OrphanQuestions
    <3>3. mine \subseteq Unit
      BY <3>2 DEF Scannable
    <3>4. question' = question
      BY <2>2 DEF Scan
    <3>5. /\ answer'.status = "forbidden" <=> ~HasAnyGrant(question.rules, "caller")
          /\ answer'.status = "failed" => ScanFails(mine, question.down)
          /\ answer'.status = "ok"
               => answer'.orphans = Reported(mine, question.live, question.down)
      BY <2>2 DEF Scan
    <3>6. ScanFails(mine, question.down) => mine # {} /\ scanned = {}
      BY DEF ScanFails
    <3> HIDE DEF mine
    <3>7. \A o \in question.live : o \in Reported(mine, question.live, question.down)
            <=> o \notin mine /\ ScopeOf(o) \in scanned
      BY <3>2, <3>3, ReportedIs
    <3>8. /\ answer'.status = "failed" => mine # {} /\ scanned = {}
          /\ answer'.status = "ok" => \A o \in question.live :
               o \in answer'.orphans <=> o \notin mine /\ ScopeOf(o) \in scanned
      BY <3>5, <3>6, <3>7
    <3> HIDE DEF scanned
    <3> QED
      BY <3>4, <3>5, <3>8 DEF ScanIsExact, mine, scanned
  <2> QED
    BY <2>1, <2>2, OwnStep
<1> QED
  BY <1>1, <1>2, Questions, PTL DEF Spec

\* Every environment holds a project, there is a region and an app, and
\* nothing has the empty name.  The configuration need not be so: Parse
\* accepts an environment without projects.
NamesInUse ==
  /\ EnvOf \in [Project -> EnvName]
  /\ \A e \in EnvName : \E p \in Project : EnvOf[p] = e
  /\ Project # {} /\ Region # {} /\ App # {}
  /\ Empty \notin EnvName \cup App \cup Project

\* A scope is of one of the forms, and its form says which parts it has.
LEMMA ScopeForms ==
  ASSUME NEW s \in RuleScope
  PROVE  \/ s.kind = "*" \/ s.kind = "other"
         \/ s.kind = "folder" /\ s.id \in FolderID \cup {Empty}
         \/ s.kind = "env" /\ s.env \in EnvName \cup {Empty}
         \/ s.kind = "app" /\ s.app \in App \cup {Empty} /\ s.project \in Project \cup {Empty}
  BY DEF RuleScope

\* A scope of a known form with nothing missing is one that a unit can be in.
LEMMA ScopeCanMatch ==
  ASSUME NamesInUse, NEW s \in RuleScope
  PROVE  IsRecognizedScope(s)
           <=> \E m \in FolderMembership, u \in Unit : ScopeMatches(s, u, m)
<1> USE DEF NamesInUse
<1>1. PICK p0 \in Project, r0 \in Region, a0 \in App : TRUE
  OBVIOUS
<1> DEFINE all == [f \in FolderID |-> Project]
<1>2. all \in FolderMembership
  BY DEF FolderMembership
<1>3. \A p \in Project, a \in App :
        /\ <<p, r0, a>> \in Unit /\ <<p, r0, a>>[1] = p /\ <<p, r0, a>>[3] = a
  BY DEF Unit
<1>4. \A u \in Unit : u[1] \in Project /\ u[3] \in App
  BY UnitParts
<1>5. CASE s.kind = "*"
  <2>1. ScopeMatches(s, <<p0, r0, a0>>, all)
    BY <1>5 DEF ScopeMatches
  <2> QED
    BY <1>2, <1>3, <1>5, <2>1 DEF IsRecognizedScope
<1>6. CASE s.kind = "other"
  BY <1>6 DEF ScopeMatches, IsRecognizedScope
<1>7. CASE s.kind = "folder" /\ s.id \in FolderID \cup {Empty}
  <2>1. IsRecognizedScope(s) <=> s.id # Empty
    BY <1>7 DEF IsRecognizedScope
  <2>2. \A m, u : ScopeMatches(s, u, m) <=> s.id # Empty /\ u[1] \in m[s.id]
    BY <1>7 DEF ScopeMatches
  <2>3. s.id # Empty => p0 \in all[s.id]
    BY <1>7
  <2>4. s.id # Empty => ScopeMatches(s, <<p0, r0, a0>>, all)
    BY <1>3, <2>2, <2>3
  <2> HIDE DEF all
  <2> QED
    BY <1>2, <1>3, <2>1, <2>2, <2>4
<1>8. CASE s.kind = "env" /\ s.env \in EnvName \cup {Empty}
  <2>1. IsRecognizedScope(s) <=> s.env # Empty
    BY <1>8 DEF IsRecognizedScope
  <2>2. \A m, u : ScopeMatches(s, u, m) <=> s.env = EnvOf[u[1]]
    BY <1>8 DEF ScopeMatches
  <2>3. \A u \in Unit : EnvOf[u[1]] # Empty
    BY <1>4
  <2>4. ASSUME s.env # Empty
        PROVE  \E u \in Unit : s.env = EnvOf[u[1]]
    <3>1. PICK p \in Project : EnvOf[p] = s.env
      BY <1>8, <2>4
    <3> QED
      BY <1>3, <3>1
  <2> HIDE DEF all
  <2> QED
    BY <1>2, <2>1, <2>2, <2>3, <2>4
<1>9. CASE s.kind = "app" /\ s.app \in App \cup {Empty} /\ s.project \in Project \cup {Empty}
  <2>1. IsRecognizedScope(s) <=> s.app # Empty /\ s.project # Empty
    BY <1>9 DEF IsRecognizedScope
  <2>2. \A m, u : ScopeMatches(s, u, m) <=> s.app = u[3] /\ s.project = u[1]
    BY <1>9 DEF ScopeMatches
  <2>3. \A u \in Unit : u[3] # Empty /\ u[1] # Empty
    BY <1>4
  <2>4. ASSUME s.app # Empty, s.project # Empty
        PROVE  \E u \in Unit : s.app = u[3] /\ s.project = u[1]
    <3>1. s.app \in App /\ s.project \in Project
      BY <1>9, <2>4
    <3>2. <<s.project, r0, s.app>> \in Unit
      BY <3>1 DEF Unit
    <3> WITNESS <<s.project, r0, s.app>> \in Unit
    <3> QED
      OBVIOUS
  <2> HIDE DEF all
  <2> QED
    BY <1>2, <2>1, <2>2, <2>3, <2>4
<1> QED
  BY <1>5, <1>6, <1>7, <1>8, <1>9, ScopeForms

\* A caller has a grant if there could be a unit that they may sync.
LEMMA GrantReaches ==
  ASSUME NamesInUse, NEW rules \in SUBSET Rule
  PROVE  HasAnyGrant(rules, "caller")
           <=> \E m \in FolderMembership, u \in Unit : CanSyncFolders(rules, m, "caller", u)
<1>1. \A r \in rules : r.scope \in RuleScope
  BY DEF Rule
<1>2. \A r \in rules : IsRecognizedScope(r.scope)
        <=> \E m \in FolderMembership, u \in Unit : ScopeMatches(r.scope, u, m)
  BY <1>1, ScopeCanMatch
<1> QED
  BY <1>2, Zenon DEF HasAnyGrant, CanSyncFolders

\* Where all names are in use, a scan is refused to those alone who could
\* never sync anything, and for a caller who may sync all of a project the
\* report on it is what no unit declares (HasAnyGrant, DetectOrphans,
\* handleOrphans).
THEOREM OrphansSafety == NamesInUse => (Spec => []OrphansAreUndeclared)
<1> SUFFICES ASSUME NamesInUse
             PROVE  Spec => []OrphansAreUndeclared
  OBVIOUS
<1>1. QuestionInv /\ ScanIsExact => OrphansAreUndeclared
  <2> SUFFICES ASSUME QuestionInv, ScanIsExact, Answered("orphans")
               PROVE  OrphansAreUndeclared
    BY DEF OrphansAreUndeclared
  <2> DEFINE May(m, u) == CanSyncFolders(question.rules, m, "caller", u)
             mine == {u \in question.units : May(question.members, u)}
             scanned == {ScopeOf(u) : u \in mine} \ question.down
  <2>1. question \in OrphanQuestions
    BY Kinds DEF Answered
  <2>2. question.rules \in SUBSET Rule
    BY <2>1, DecisionsAssumption DEF OrphanQuestions
  <2>3. mine = Scannable(question.units, question.rules, question.members)
    BY DEF Scannable
  <2>4. /\ answer.status = "forbidden" <=> ~HasAnyGrant(question.rules, "caller")
        /\ answer.status = "failed" => mine # {} /\ scanned = {}
        /\ answer.status = "ok" => \A o \in question.live :
             o \in answer.orphans <=> o \notin mine /\ ScopeOf(o) \in scanned
    BY <2>3 DEF ScanIsExact
  <2>5. answer.status = "forbidden"
          <=> ~\E m \in FolderMembership, u \in Unit : May(m, u)
    BY <2>2, <2>4, GrantReaches
  <2>6. ASSUME NEW o \in question.live, \A u \in question.units : u[1] = o[1] => u \in mine
        PROVE  o \in mine <=> o \in question.units
    BY <2>6
  <2> HIDE DEF mine
  <2>7. answer.status = "ok" => \A o \in question.live :
            /\ o \in answer.orphans => o \notin mine /\ ScopeOf(o) \in scanned
            /\ (\A u \in question.units : u[1] = o[1] => u \in mine) =>
                 (o \in answer.orphans <=> o \notin question.units /\ ScopeOf(o) \in scanned)
    BY <2>4, <2>6
  <2> HIDE DEF scanned, May
  <2> QED
    BY <2>4, <2>5, <2>7, Zenon DEF OrphansAreUndeclared, mine, scanned, May
<1> QED
  BY <1>1, Questions, ScanExactness, PTL
=============================================================================
