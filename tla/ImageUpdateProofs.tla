------------------------- MODULE ImageUpdateProofs -------------------------
(***************************************************************************)
(* Commits by RunCD lose no change and take no own commit back, and a      *)
(* cancelled pass harms nobody, for any number of processes, images,       *)
(* commits and faults.                                                     *)
(***************************************************************************)
EXTENDS ImageUpdate, TLAPS

\* At most one fetch of a process is under way (the group of ListTags).
OneFlight ==
  \A c, d \in Caller :
    c[1] = d[1] /\ call[c] \in {"fetching", "fetched"} /\ call[d] \in {"fetching", "fetched"}
      => c = d

\* A process's view of the tag: behind the tag, and an answer on its way is
\* not behind the cached one.
ViewInv ==
  /\ \A p \in Process : cache[p].image <= tag
  /\ \A c \in Caller : call[c] = "fetched" => cache[c[1]].image <= listed[c] /\ listed[c] <= tag

\* What a process has committed or is about to commit is not ahead of its
\* view, and what it is about to commit not behind what it has committed.
CommitInv ==
  \A p \in Process :
    /\ author = p => file.digest <= cache[p].image
    /\ pc[p] = "put" => want[p] <= cache[p].image
    /\ author = p /\ pc[p] = "put" => file.digest <= want[p]

ImageInv == TypeOK /\ OneFlight /\ ViewInv /\ CommitInv

-----------------------------------------------------------------------------
\* What a pass keeps is well typed.
UpdatingType ==
  /\ pc \in [Process -> {"idle", "read", "list", "put"}]
  /\ copy \in [Process -> {Unread} \cup Content]
  /\ want \in [Process -> Image]
  /\ due \in [Process -> 0..MaxTag]
  /\ live \in [Process -> BOOLEAN]

\* So is what the callers of ListTags keep.
ListingType ==
  /\ call \in [Caller -> {"idle", "missed", "fetching", "fetched", "waiting"}]
  /\ listed \in [Caller -> Image]
  /\ cache \in [Process -> [image : Image, age : 0..TagsTTL]]

\* A caller belongs to a process.
LEMMA CallerParts == \A c \in Caller : c[1] \in Process
  BY ImageAssumption DEF Caller

\* Images are numbers, the first among them.
LEMMA ImageType == Image \subseteq Int /\ 1 \in Image /\ 0 \in 0..MaxTag /\ Image \subseteq 0..MaxTag
  BY ImageAssumption DEF Image

\* A pass that is over is about to commit nothing.
LEMMA OverStep ==
  ASSUME TypeOK, NEW p \in Process, Over(p)
  PROVE  /\ UpdatingType' /\ pc'[p] = "idle"
         /\ \A q \in Process : q # p => pc'[q] = pc[q] /\ want'[q] = want[q]
<1>1. /\ pc' \in [Process -> {"idle", "read", "list", "put"}]
      /\ copy' \in [Process -> {Unread} \cup Content]
      /\ want' \in [Process -> Image]
  BY ImageType DEF TypeOK, Over
<1>2. due' \in [Process -> 0..MaxTag] /\ live' \in [Process -> BOOLEAN]
  BY ImageType DEF TypeOK, Over
<1> QED
  BY <1>1, <1>2 DEF TypeOK, Over, UpdatingType

\* Nor is a step that leaves the passes alone of any effect on them.
LEMMA UpdatingKept ==
  ASSUME TypeOK, UNCHANGED updating
  PROVE  UpdatingType' /\ pc' = pc /\ want' = want
  BY DEF TypeOK, updating, UpdatingType

\* An answer that is the process's view of the tag, which did not go back,
\* keeps the commits in order.
LEMMA AnsweredStep ==
  ASSUME ImageInv, UNCHANGED git, NEW p \in Process, NEW S, NEW image \in Image,
         Answered(S, p, image), image = cache'[p].image, ListingType',
         \A q \in Process : cache[q].image <= cache'[q].image
  PROVE  UpdatingType' /\ CommitInv'
<1>t. TypeOK
  BY DEF ImageInv
<1>n. /\ file \in Content /\ file.digest \in Int /\ file' = file /\ author' = author
      /\ \A q \in Process : want[q] \in Int /\ cache[q].image \in Int /\ cache'[q].image \in Int
  BY <1>t, ImageType DEF TypeOK, Content, git, ListingType
<1>c. \A q \in Process :
        /\ author = q => file.digest <= cache'[q].image
        /\ pc[q] = "put" => want[q] <= cache'[q].image
        /\ author = q /\ pc[q] = "put" => file.digest <= want[q]
  BY <1>n DEF ImageInv, CommitInv
<1>1. CASE UNCHANGED updating
  <2>1. UpdatingType' /\ pc' = pc /\ want' = want
    BY <1>t, <1>1, UpdatingKept
  <2> QED
    BY <1>n, <1>c, <2>1 DEF CommitInv
<1>2. CASE Over(p)
  <2>1. /\ UpdatingType' /\ pc'[p] = "idle"
        /\ \A q \in Process : q # p => pc'[q] = pc[q] /\ want'[q] = want[q]
    BY <1>t, <1>2, OverStep
  <2> QED
    BY <1>n, <1>c, <2>1 DEF CommitInv
<1>3. CASE /\ pc' = [pc EXCEPT ![p] = "put"]
           /\ want' = [want EXCEPT ![p] = image]
           /\ UNCHANGED <<copy, due, live>>
  <2>1. UpdatingType'
    BY <1>t, <1>3 DEF TypeOK, UpdatingType
  <2>2. /\ pc'[p] = "put" /\ want'[p] = image
        /\ \A q \in Process : q # p => pc'[q] = pc[q] /\ want'[q] = want[q]
    BY <1>t, <1>3 DEF TypeOK
  <2> QED
    BY <1>n, <1>c, <2>1, <2>2 DEF CommitInv
<1> QED
  BY <1>1, <1>2, <1>3 DEF Answered, Resolved

\* An error ends the pass or leaves it alone.
LEMMA FailedStep ==
  ASSUME ImageInv, UNCHANGED <<git, cache>>, NEW p \in Process, Over(p) \/ UNCHANGED updating
  PROVE  UpdatingType' /\ CommitInv'
<1>t. TypeOK
  BY DEF ImageInv
<1>1. CASE Over(p)
  BY <1>t, <1>1, OverStep DEF ImageInv, CommitInv, git
<1>2. CASE UNCHANGED updating
  BY <1>t, <1>2, UpdatingKept DEF ImageInv, CommitInv, git
<1> QED
  BY <1>1, <1>2

\* A write commits what the pass wants, over what it has read.
LEMMA WriteStep ==
  ASSUME ImageInv, NEW p \in Process, pc[p] = "put", Write(p) \/ UNCHANGED git, Over(p),
         UNCHANGED cache
  PROVE  /\ UpdatingType' /\ CommitInv'
         /\ file' \in Content /\ author' \in Process \cup {Person}
<1>t. TypeOK
  BY DEF ImageInv
<1>1. CASE UNCHANGED git
  <2>1. UpdatingType' /\ CommitInv'
    BY <1>1, FailedStep
  <2> QED
    BY <1>t, <1>1, <2>1 DEF TypeOK, git
<1>2. CASE Write(p) /\ ~Matches(p)
  <2>1. UNCHANGED git
    BY <1>2 DEF Write, git
  <2> QED
    BY <1>1, <2>1
<1>3. CASE Write(p) /\ Matches(p)
  <2>1. /\ file \in Content /\ file' = [file EXCEPT !.digest = want[p]] /\ author' = p
        /\ want[p] \in Image
    BY <1>t, <1>3 DEF Write, Matches, TypeOK
  <2>2. file' \in Content /\ file'.digest = want[p]
    BY <2>1 DEF Content
  <2>3. /\ UpdatingType' /\ pc'[p] = "idle"
        /\ \A q \in Process : q # p => pc'[q] = pc[q] /\ want'[q] = want[q]
    BY <1>t, OverStep
  <2>4. CommitInv'
    BY <2>1, <2>2, <2>3 DEF ImageInv, CommitInv
  <2> QED
    BY <2>1, <2>2, <2>3, <2>4
<1> QED
  BY <1>1, <1>2, <1>3

-----------------------------------------------------------------------------
\* Before the first pass nothing is fetched or committed by a process.
LEMMA ImageInvInit == Init => ImageInv
<1> SUFFICES ASSUME Init PROVE ImageInv
  OBVIOUS
<1>1. file \in Content /\ file.digest = 1
  BY ImageAssumption, ImageType DEF Init, Content
<1>2. UpdatingType
  BY ImageType DEF Init, UpdatingType
<1>3. ListingType
  BY ImageType, ImageAssumption DEF Init, ListingType
<1>n. /\ tag \in Image /\ leader \in Process /\ author \in Process \cup {Person}
      /\ harmed \in Nat /\ edits \in 0..MaxEdits /\ handovers \in 0..MaxHandovers
      /\ faults \in 0..MaxFaults
  BY ImageType, ImageAssumption DEF Init
<1>b. nudge \in BOOLEAN
  BY DEF Init
<1>4. TypeOK
  BY <1>1, <1>2, <1>3, <1>n, <1>b DEF TypeOK, UpdatingType, ListingType
<1>5. OneFlight /\ ViewInv
  BY CallerParts DEF Init, OneFlight, ViewInv
<1>6. CommitInv
  BY <1>1, ImageAssumption DEF Init, CommitInv
<1> QED
  BY <1>4, <1>5, <1>6 DEF ImageInv

\* The steps of a pass outside of ListTags.
LEMMA PassStep ==
  ASSUME ImageInv, NEW p \in Process, Update(p) \/ \E nudged \in BOOLEAN : StartPass(p, nudged)
  PROVE  ImageInv'
<1>t. TypeOK
  BY DEF ImageInv
<1>1. UNCHANGED <<tag, leader, call, listed, cache, harmed, edits, handovers>>
  BY DEF Update, Read, ReadFails, Put, PutFails, StartPass, listing
<1>2. faults' \in 0..MaxFaults /\ nudge' \in BOOLEAN
  <2>1. faults' = faults \/ Fault
    BY DEF Update, Read, ReadFails, Put, PutFails, StartPass
  <2>2. faults' \in 0..MaxFaults
    BY <1>t, <2>1, ImageAssumption DEF Fault, TypeOK
  <2>3. nudge' = nudge \/ \E nudged \in BOOLEAN : nudge' = (nudge /\ ~nudged)
    BY Zenon DEF Update, Read, ReadFails, Put, PutFails, StartPass
  <2>4. nudge' \in BOOLEAN
    BY <1>t, <2>3, Zenon DEF TypeOK
  <2> QED
    BY <2>2, <2>4
<1>3. OneFlight' /\ ViewInv'
  BY <1>1 DEF ImageInv, OneFlight, ViewInv
<1>4. ASSUME UpdatingType', CommitInv', file' \in Content, author' \in Process \cup {Person}
      PROVE  ImageInv'
  <2>1. TypeOK'
    BY <1>t, <1>1, <1>2, <1>4 DEF TypeOK, UpdatingType
  <2> QED
    BY <1>3, <1>4, <2>1 DEF ImageInv
<1>5. CASE \E nudged \in BOOLEAN : StartPass(p, nudged)
  <2>1. UpdatingType'
    BY <1>t, <1>5, ImageType DEF StartPass, TypeOK, UpdatingType
  <2>2. CommitInv'
    BY <1>t, <1>1, <1>5 DEF StartPass, TypeOK, ImageInv, CommitInv, git
  <2> QED
    BY <1>t, <1>4, <1>5, <2>1, <2>2 DEF StartPass, TypeOK, git
<1>6. CASE Read(p)
  <2>1. UpdatingType'
    BY <1>t, <1>6 DEF Read, TypeOK, UpdatingType
  <2>2. CommitInv'
    BY <1>t, <1>1, <1>6 DEF Read, TypeOK, ImageInv, CommitInv, git
  <2> QED
    BY <1>t, <1>4, <1>6, <2>1, <2>2 DEF Read, TypeOK, git
<1>7. CASE ReadFails(p)
  <2>1. UpdatingType' /\ CommitInv'
    BY <1>1, <1>7, FailedStep DEF ReadFails
  <2> QED
    BY <1>t, <1>4, <1>7, <2>1 DEF ReadFails, TypeOK, git
<1>8. CASE Put(p) \/ PutFails(p)
  <2>1. pc[p] = "put" /\ (Write(p) \/ UNCHANGED git) /\ Over(p)
    BY <1>8 DEF Put, PutFails
  <2> QED
    BY <1>1, <1>4, <2>1, WriteStep
<1> QED
  BY <1>5, <1>6, <1>7, <1>8 DEF Update

\* The steps of ListTags.
LEMMA ListTagsStep ==
  ASSUME ImageInv, NEW c \in Caller, ListTags(c)
  PROVE  ImageInv'
<1>t. TypeOK
  BY DEF ImageInv
<1>p. c[1] \in Process
  BY CallerParts
<1>1. UNCHANGED <<tag, file, author, leader, nudge, edits, handovers>>
  BY DEF ListTags, Hit, Miss, Enter, Fetch, FetchReturns, FetchFails, git
<1>2. faults' \in 0..MaxFaults /\ harmed' \in Nat
  BY <1>t, ImageAssumption
  DEF ListTags, Hit, Miss, Enter, Fetch, FetchReturns, FetchFails, Detached, Fault, listing, TypeOK
<1>n. /\ tag \in Int
      /\ \A q \in Process : /\ cache[q].image \in Image /\ cache[q].image \in Int
                            /\ cache[q].image <= tag
      /\ \A d \in Caller : listed[d] \in Image
  BY <1>t, ImageType DEF TypeOK, ImageInv, ViewInv
<1>3. ASSUME ListingType', UpdatingType', OneFlight', ViewInv', CommitInv'
      PROVE  ImageInv'
  <2>1. TypeOK'
    BY <1>t, <1>1, <1>2, <1>3 DEF TypeOK, UpdatingType, ListingType
  <2> QED
    BY <1>3, <2>1 DEF ImageInv
<1>4. CASE Hit(c)
  <2>1. ListingType' /\ OneFlight' /\ ViewInv'
    BY <1>t, <1>4 DEF Hit, listing, TypeOK, ListingType, ImageInv, OneFlight, ViewInv
  <2>2. /\ UNCHANGED <<git, cache>> /\ Answered({c}, c[1], cache[c[1]].image)
        /\ \A q \in Process : cache[q].image <= cache'[q].image
    BY <1>4, <1>n, ImageType DEF Hit, listing
  <2>3. cache[c[1]].image \in Image /\ cache[c[1]].image = cache'[c[1]].image
    BY <1>p, <1>n, <2>2
  <2>4. UpdatingType' /\ CommitInv'
    BY <1>p, <2>1, <2>2, <2>3, AnsweredStep
  <2> QED
    BY <1>3, <2>1, <2>4
<1>5. CASE Miss(c)
  <2>1. ListingType' /\ OneFlight' /\ ViewInv'
    BY <1>t, <1>5 DEF Miss, TypeOK, ListingType, ImageInv, OneFlight, ViewInv
  <2>2. UpdatingType' /\ CommitInv'
    BY <1>p, <1>5, FailedStep DEF Miss
  <2> QED
    BY <1>3, <2>1, <2>2
<1>6. CASE Enter(c)
  <2>1. /\ \/ call' = [call EXCEPT ![c] = "idle"] \/ call' = [call EXCEPT ![c] = "waiting"]
           \/ call' = [call EXCEPT ![c] = "fetching"] /\ ~InFlight(c[1])
        /\ UNCHANGED <<listed, cache>>
    BY <1>6 DEF Enter
  <2>2. ListingType' /\ ViewInv'
    BY <1>t, <1>1, <2>1 DEF TypeOK, ListingType, ImageInv, ViewInv
  <2>3. OneFlight'
    BY <1>t, <2>1 DEF TypeOK, ImageInv, OneFlight, InFlight
  <2>4. UpdatingType' /\ CommitInv'
    <3>1. CASE UNCHANGED updating
      BY <1>p, <1>6, <3>1, FailedStep DEF Enter
    <3>2. CASE Answered({c}, c[1], cache[c[1]].image)
      <4>1. /\ UNCHANGED git /\ cache[c[1]].image \in Image
            /\ cache[c[1]].image = cache'[c[1]].image
            /\ \A q \in Process : cache[q].image <= cache'[q].image
        BY <1>p, <1>n, <1>6, <2>1 DEF Enter
      <4> QED
        BY <1>p, <2>2, <3>2, <4>1, AnsweredStep
    <3> QED
      BY <1>6, <3>1, <3>2 DEF Enter
  <2> QED
    BY <1>3, <2>2, <2>3, <2>4
<1>7. CASE Fetch(c)
  <2>1. ListingType' /\ OneFlight'
    BY <1>t, <1>7 DEF Fetch, TypeOK, ListingType, ImageInv, OneFlight
  <2>2. ViewInv'
    BY <1>t, <1>p, <1>n, <1>1, <1>7 DEF Fetch, TypeOK, ImageInv, ViewInv
  <2>3. UpdatingType' /\ CommitInv'
    BY <1>p, <1>7, FailedStep DEF Fetch
  <2> QED
    BY <1>3, <2>1, <2>2, <2>3
<1>8. CASE FetchReturns(c)
  <2>1. cache[c[1]].image <= listed[c] /\ listed[c] <= tag
    BY <1>8 DEF FetchReturns, ImageInv, ViewInv
  <2>2. /\ cache' \in [Process -> [image : Image, age : 0..TagsTTL]]
        /\ cache'[c[1]].image = listed[c]
        /\ \A q \in Process : q # c[1] => cache'[q] = cache[q]
    BY <1>t, <1>p, <1>8, ImageAssumption DEF FetchReturns, TypeOK
  <2>3. /\ call' = [d \in Caller |-> IF d \in Sharers(c) THEN "idle" ELSE call[d]]
        /\ listed' = [d \in Caller |-> IF d \in Sharers(c) THEN 1 ELSE listed[d]]
        /\ c \in Sharers(c)
    BY <1>8 DEF FetchReturns, Hangup, Sharers
  <2>4. ListingType' /\ OneFlight'
    BY <1>t, <2>2, <2>3, ImageType DEF TypeOK, ListingType, ImageInv, OneFlight
  <2>5. ViewInv'
    <3>1. ASSUME NEW d \in Caller, call'[d] = "fetched"
          PROVE  d[1] # c[1] /\ call[d] = "fetched" /\ listed'[d] = listed[d] /\ d[1] \in Process
      BY <1>8, <2>3, <3>1, CallerParts DEF FetchReturns, ImageInv, OneFlight
    <3> QED
      BY <1>1, <1>n, <2>1, <2>2, <3>1 DEF ImageInv, ViewInv
  <2>6. UpdatingType' /\ CommitInv'
    <3>1. /\ UNCHANGED git /\ Answered(Sharers(c), c[1], listed[c]) /\ listed[c] \in Image
          /\ \A q \in Process : cache[q].image <= cache'[q].image
      <4>1. \A q \in Process : cache[q].image <= cache'[q].image
        BY <1>n, <2>1, <2>2
      <4> QED
        BY <1>n, <1>8, <4>1 DEF FetchReturns
    <3> QED
      BY <1>p, <2>2, <2>4, <3>1, AnsweredStep
  <2> QED
    BY <1>3, <2>4, <2>5, <2>6
<1>9. CASE FetchFails(c)
  <2>1. /\ call' = [d \in Caller |-> IF d \in Sharers(c) THEN "idle" ELSE call[d]]
        /\ listed' = [d \in Caller |-> IF d \in Sharers(c) THEN 1 ELSE listed[d]]
        /\ UNCHANGED <<git, cache>>
    BY <1>9 DEF FetchFails, Hangup
  <2>2. ListingType' /\ OneFlight'
    BY <1>t, <2>1, ImageType DEF TypeOK, ListingType, ImageInv, OneFlight
  <2>3. ViewInv'
    BY <1>1, <2>1 DEF ImageInv, ViewInv
  <2>4. UpdatingType' /\ CommitInv'
    <3>1. Over(c[1]) \/ UNCHANGED updating
      BY <1>9 DEF FetchFails
    <3> QED
      BY <1>p, <2>1, <3>1, FailedStep
  <2> QED
    BY <1>3, <2>2, <2>3, <2>4
<1> QED
  BY <1>4, <1>5, <1>6, <1>7, <1>8, <1>9 DEF ListTags

\* What happens around the processes.
LEMMA WorldStep ==
  ASSUME ImageInv, Push \/ ImageEvent \/ Edit \/ Handover \/ Tick \/ UNCHANGED vars
  PROVE  ImageInv'
<1>t. TypeOK
  BY DEF ImageInv
<1>1. UNCHANGED <<pc, copy, want, due, call, listed, harmed, faults>>
  BY DEF Push, ImageEvent, Edit, Handover, Tick, vars, updating, listing
<1>2. /\ tag' \in Image /\ tag <= tag'
      /\ edits' \in 0..MaxEdits /\ handovers' \in 0..MaxHandovers
  BY <1>t, ImageAssumption DEF Push, ImageEvent, Edit, Handover, Tick, vars, TypeOK, Image
<1>b. nudge' \in BOOLEAN
  BY <1>t, Zenon DEF Push, ImageEvent, Edit, Handover, Tick, vars, TypeOK
<1>3. /\ file' \in Content /\ author' \in Process \cup {Person}
      /\ (file' = file /\ author' = author) \/ author' = Person
  BY <1>t DEF Push, ImageEvent, Edit, Handover, Tick, vars, git, TypeOK
<1>4. leader' \in Process /\ live' \in [Process -> BOOLEAN]
  BY <1>t DEF Push, ImageEvent, Edit, Handover, Tick, vars, updating, TypeOK
<1>5. /\ cache' \in [Process -> [image : Image, age : 0..TagsTTL]]
      /\ \A p \in Process : cache'[p].image = cache[p].image
  <2>1. CASE UNCHANGED cache
    BY <1>t, <2>1 DEF TypeOK
  <2>2. CASE Tick
    <3>1. ASSUME NEW p \in Process, Fresh(p)
          PROVE  /\ [cache[p] EXCEPT !.age = @ + 1] \in [image : Image, age : 0..TagsTTL]
                 /\ [cache[p] EXCEPT !.age = @ + 1].image = cache[p].image
      BY <1>t, <3>1, ImageAssumption DEF Fresh, TypeOK
    <3>2. \A p \in Process : cache[p] \in [image : Image, age : 0..TagsTTL]
      BY <1>t DEF TypeOK
    <3>3. cache' = [p \in Process |-> IF Fresh(p) THEN [cache[p] EXCEPT !.age = @ + 1]
                                      ELSE cache[p]]
      BY <2>2 DEF Tick
    <3> QED
      BY <3>1, <3>2, <3>3
  <2> QED
    BY <2>1, <2>2 DEF Push, ImageEvent, Edit, Handover, vars, listing
<1>6. TypeOK'
  BY <1>t, <1>1, <1>2, <1>b, <1>3, <1>4, <1>5 DEF TypeOK
<1>7. OneFlight' /\ ViewInv'
  <2>1. /\ tag \in Int /\ tag' \in Int
        /\ \A p \in Process : cache[p].image \in Int
        /\ \A c \in Caller : listed[c] \in Int
    BY <1>t, <1>2, ImageType DEF TypeOK
  <2> QED
    BY <1>1, <1>2, <1>5, <2>1, CallerParts DEF ImageInv, OneFlight, ViewInv
<1>8. CommitInv'
  BY <1>1, <1>3, <1>5, ImageAssumption DEF ImageInv, CommitInv
<1> QED
  BY <1>6, <1>7, <1>8 DEF ImageInv

\* ImageInv holds throughout.
THEOREM ImageInvariant == Spec => []ImageInv
<1>1. ImageInv /\ [Next]_vars => ImageInv'
  BY PassStep, ListTagsStep, WorldStep DEF Next
<1> QED
  BY <1>1, ImageInvInit, PTL DEF Spec

\* The state of the updaters and their caches is always well typed (TypeOK).
THEOREM ImageTypeCorrect == Spec => []TypeOK
<1>1. ImageInv => TypeOK
  BY DEF ImageInv
<1> QED
  BY <1>1, ImageInvariant, PTL

\* A failure that a viewer sees is a fault: a cancelled pass takes no fetch
\* with it (ViewersUnharmed).
THEOREM ViewersSafety == Spec => []ViewersUnharmed
<1>1. Init => ViewersUnharmed
  BY DEF Init, ViewersUnharmed
<1>2. ImageInv /\ ViewersUnharmed /\ [Next]_vars => ViewersUnharmed'
  <2> SUFFICES ASSUME ImageInv, ViewersUnharmed, [Next]_vars PROVE ViewersUnharmed'
    OBVIOUS
  <2>1. harmed \in Int /\ faults \in Int
    BY DEF ImageInv, TypeOK
  <2>2. ASSUME NEW p \in Process, Update(p) \/ \E nudged \in BOOLEAN : StartPass(p, nudged)
        PROVE  harmed' = harmed /\ faults' \in {faults, faults + 1}
    BY <2>2 DEF Update, Read, ReadFails, Put, PutFails, StartPass, Fault, listing
  <2>3. ASSUME NEW c \in Caller, ListTags(c)
        PROVE  \/ harmed' = harmed /\ faults' = faults
               \/ harmed' \in {harmed, harmed + 1} /\ faults' = faults + 1
    BY <2>3 DEF ListTags, Hit, Miss, Enter, Fetch, FetchReturns, FetchFails, Detached, Fault, listing
  <2>4. ASSUME Push \/ ImageEvent \/ Edit \/ Handover \/ Tick \/ UNCHANGED vars
        PROVE  harmed' = harmed /\ faults' = faults
    BY <2>4 DEF Push, ImageEvent, Edit, Handover, Tick, vars, listing
  <2> QED
    BY <2>1, <2>2, <2>3, <2>4 DEF Next, ViewersUnharmed
<1> QED
  BY <1>1, <1>2, ImageInvariant, PTL DEF Spec

\* The manifest is changed by people and by writes that match it.
LEMMA FileStep ==
  ASSUME ImageInv, [Next]_vars, file' # file
  PROVE  \/ author' = Person /\ edits' = edits + 1
         \/ \E p \in Process : /\ pc[p] = "put" /\ author' = p
                               /\ file' = [file EXCEPT !.digest = want[p]]
<1>1. ASSUME NEW p \in Process, Update(p) \/ \E nudged \in BOOLEAN : StartPass(p, nudged)
      PROVE  pc[p] = "put" /\ Write(p)
  BY <1>1 DEF Update, Read, ReadFails, Put, PutFails, StartPass, git
<1>2. ASSUME NEW c \in Caller, ListTags(c) PROVE FALSE
  BY <1>2 DEF ListTags, Hit, Miss, Enter, Fetch, FetchReturns, FetchFails, git
<1>3. ASSUME Push \/ ImageEvent \/ Edit \/ Handover \/ Tick \/ UNCHANGED vars
      PROVE  author' = Person /\ edits' = edits + 1
  BY <1>3 DEF Push, ImageEvent, Edit, Handover, Tick, vars, git
<1> QED
  BY <1>1, <1>2, <1>3 DEF Next, Write, Matches

\* Nobody's change is lost in a commit of RunCD, whatever was committed since
\* it read the manifest (EditsSurvive).
THEOREM EditsSafety == Spec => EditsSurvive
<1>1. ASSUME ImageInv, [Next]_vars
      PROVE  [file' # file /\ edits' = edits => file'.body = file.body]_vars
  <2> SUFFICES ASSUME file' # file, edits' = edits PROVE file'.body = file.body
    BY DEF vars
  <2>1. edits \in Int /\ file \in Content
    BY <1>1 DEF ImageInv, TypeOK
  <2>2. PICK p \in Process : file' = [file EXCEPT !.digest = want[p]]
    BY <1>1, <2>1, FileStep
  <2> QED
    BY <2>1, <2>2 DEF Content
<1> QED
  BY <1>1, ImageInvariant, PTL DEF Spec, EditsSurvive

\* A process never commits an older image over its own commit: its view of
\* the tag does not go back (NoRollback).
THEOREM RollbackSafety == Spec => NoRollback
<1>1. ASSUME ImageInv, [Next]_vars
      PROVE  [\A p \in Process :
                file' # file /\ author' = p /\ file'.digest < file.digest => author # p]_vars
  <2> SUFFICES ASSUME NEW p \in Process, file' # file, author' = p,
                      file'.digest < file.digest, author = p
               PROVE  FALSE
    BY DEF vars
  <2>1. file \in Content /\ file.digest \in Int /\ want[p] \in Int
    BY <1>1, ImageType DEF ImageInv, TypeOK, Content
  <2>2. pc[p] = "put" /\ file' = [file EXCEPT !.digest = want[p]]
    BY <1>1, FileStep, ImageAssumption
  <2>3. file'.digest = want[p]
    BY <2>1, <2>2 DEF Content
  <2>4. file.digest <= want[p]
    BY <1>1, <2>2 DEF ImageInv, CommitInv
  <2> QED
    BY <2>1, <2>3, <2>4
<1> QED
  BY <1>1, ImageInvariant, PTL DEF Spec, NoRollback
=============================================================================
