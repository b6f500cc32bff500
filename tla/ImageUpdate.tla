---------------------------- MODULE ImageUpdate ----------------------------
(***************************************************************************)
(* Following an image tag in git: internal/imageupdater, the file calls of *)
(* internal/githubapp, the tag cache of internal/registry, and the image   *)
(* events that hasten a tick (internal/api/events.go).                     *)
(*                                                                         *)
(* One manifest, one tag.  The images the tag has pointed at are numbered  *)
(* in order.  Each process lists tags through its own cache, for its pass  *)
(* (the updater) and for whatever else resolves tags meanwhile (the        *)
(* viewer: manual syncs and previews of units with an override).  A blob   *)
(* SHA is a hash of the content, so the content stands for it.             *)
(***************************************************************************)
EXTENDS Integers

CONSTANTS
  Process,
  Viewing,      \* the processes that have a viewer
  Person,       \* the author of commits by hand
  Body,         \* what else a manifest says
  Unread,       \* no content
  TagsTTL,      \* DefaultTagsCacheTTL
  MaxTag,       \* bound: images pushed
  MaxEdits,     \* bound: commits by hand
  MaxHandovers, \* bound: changes of leadership
  MaxFaults     \* bound: failed calls

ASSUME ImageAssumption ==
  /\ TagsTTL \in Nat /\ MaxTag \in Nat \ {0} /\ Person \notin Process
  /\ Viewing \subseteq Process /\ Body # {}
  /\ MaxEdits \in Nat /\ MaxHandovers \in Nat /\ MaxFaults \in Nat

Image == 1..MaxTag
Content == [digest : Image, body : Body]
Caller == (Process \X {"updater"}) \cup (Viewing \X {"viewer"})
Updater(p) == <<p, "updater">>
Viewer(p) == <<p, "viewer">>

VARIABLES
  tag,     \* the image the tag points at
  file,    \* the committed manifest
  leader,
  live,    \* the pass of a process runs under a term that has not ended
  pc,
  copy,    \* the content a pass has read
  want,    \* the image it resolved
  nudge,   \* a value waits in the leader's nudgeCh; a tick without a term drains it
  due,     \* history: the tag's image when a nudge started the pass, or 0
  call,    \* where a caller of ListTags is
  listed,  \* what its own fetch has read
  cache,   \* a process's cached tag and its age; TagsTTL once expired
  author,  \* history: who committed the manifest last
  harmed,  \* history: calls of viewers that failed
  edits, handovers, faults

git == <<file, author>>
updating == <<pc, copy, want, due, live>>
listing == <<call, listed, cache, harmed>>
vars == <<tag, git, leader, updating, nudge, listing, edits, handovers, faults>>

TypeOK ==
  /\ tag \in Image /\ file \in Content
  /\ leader \in Process
  /\ live \in [Process -> BOOLEAN]
  /\ pc \in [Process -> {"idle", "read", "list", "put"}]
  /\ copy \in [Process -> {Unread} \cup Content]
  /\ want \in [Process -> Image]
  /\ nudge \in BOOLEAN /\ due \in [Process -> 0..MaxTag]
  /\ call \in [Caller -> {"idle", "missed", "fetching", "fetched", "waiting"}]
  /\ listed \in [Caller -> Image]
  /\ cache \in [Process -> [image : Image, age : 0..TagsTTL]]
  /\ author \in Process \cup {Person}
  /\ harmed \in Nat
  /\ edits \in 0..MaxEdits /\ handovers \in 0..MaxHandovers /\ faults \in 0..MaxFaults

Init ==
  /\ tag = 1
  /\ file = [digest |-> 1, body |-> CHOOSE b \in Body : TRUE]
  /\ leader \in Process
  /\ live = [p \in Process |-> FALSE]
  /\ pc = [p \in Process |-> "idle"]
  /\ copy = [p \in Process |-> Unread]
  /\ want = [p \in Process |-> 1]
  /\ nudge = FALSE /\ due = [p \in Process |-> 0]
  /\ call = [c \in Caller |-> "idle"]
  /\ listed = [c \in Caller |-> 1]
  /\ cache = [p \in Process |-> [image |-> 1, age |-> TagsTTL]]
  /\ author = Person /\ harmed = 0
  /\ edits = 0 /\ handovers = 0 /\ faults = 0

-----------------------------------------------------------------------------
Fault == faults < MaxFaults /\ faults' = faults + 1

\* A pass is over; what it knew is forgotten.
Over(p) ==
  /\ pc' = [pc EXCEPT ![p] = "idle"]
  /\ copy' = [copy EXCEPT ![p] = Unread]
  /\ want' = [want EXCEPT ![p] = 1]
  /\ due' = [due EXCEPT ![p] = 0]
  /\ live' = [live EXCEPT ![p] = FALSE]

\* A tick of the leader, because of the ticker or of a nudge.
StartPass(p, nudged) ==
  /\ leader = p /\ pc[p] = "idle"
  /\ nudged => nudge
  /\ pc' = [pc EXCEPT ![p] = "read"]
  /\ live' = [live EXCEPT ![p] = TRUE]
  /\ due' = IF nudged THEN [due EXCEPT ![p] = tag] ELSE due
  /\ nudge' = (nudge /\ ~nudged)
  /\ UNCHANGED <<tag, git, leader, copy, want, listing, edits, handovers, faults>>

\* GetFileWithSHA.
Read(p) ==
  /\ pc[p] = "read" /\ live[p]
  /\ copy' = [copy EXCEPT ![p] = file]
  /\ pc' = [pc EXCEPT ![p] = "list"]
  /\ UNCHANGED <<tag, git, leader, want, due, live, nudge, listing, edits, handovers,
                 faults>>

ReadFails(p) ==
  /\ pc[p] = "read"
  /\ (~live[p] /\ UNCHANGED faults) \/ Fault
  /\ UNCHANGED git
  /\ Over(p)
  /\ UNCHANGED <<tag, leader, nudge, listing, edits, handovers>>

\* Mutant of Matches: the request carries no sha.
MatchesAnything(p) == TRUE

\* GitHub refuses a write (409) whose sha is not that of the current blob.
Matches(p) == file = copy[p]

\* A write that reaches GitHub: what was read, with another digest.
Write(p) ==
  /\ file' = IF Matches(p) THEN [copy[p] EXCEPT !.digest = want[p]] ELSE file
  /\ author' = IF Matches(p) THEN p ELSE author

Put(p) ==
  /\ pc[p] = "put" /\ live[p]
  /\ Write(p)
  /\ Over(p)
  /\ UNCHANGED <<tag, leader, nudge, listing, edits, handovers, faults>>

\* A write that fails has arrived or never will.
PutFails(p) ==
  /\ pc[p] = "put"
  /\ (~live[p] /\ UNCHANGED faults) \/ Fault
  /\ UNCHANGED git \/ Write(p)
  /\ Over(p)
  /\ UNCHANGED <<tag, leader, nudge, listing, edits, handovers>>

-----------------------------------------------------------------------------
\* What Update does with the image that the tag resolves to.
Resolved(p, image) ==
  IF image = copy[p].digest THEN Over(p)
  ELSE /\ pc' = [pc EXCEPT ![p] = "put"]
       /\ want' = [want EXCEPT ![p] = image]
       /\ UNCHANGED <<copy, due, live>>

\* The calls of S have an answer.
Answered(S, p, image) ==
  IF Updater(p) \in S THEN Resolved(p, image) ELSE UNCHANGED updating

Calls(c) ==
  /\ call[c] = "idle"
  /\ c[2] = "viewer" \/ pc[c[1]] = "list"

Fresh(p) == cache[p].age < TagsTTL

\* ListTags looks at the cache before it joins the group ...
Hit(c) ==
  /\ Calls(c) /\ Fresh(c[1])
  /\ UNCHANGED git
  /\ Answered({c}, c[1], cache[c[1]].image)
  /\ UNCHANGED <<tag, leader, nudge, listing, edits, handovers, faults>>

Miss(c) ==
  /\ Calls(c) /\ ~Fresh(c[1])
  /\ call' = [call EXCEPT ![c] = "missed"]
  /\ UNCHANGED <<tag, git, leader, updating, nudge, listed, cache, harmed, edits,
                 handovers, faults>>

\* Mutant of InFlight: every miss fetches for itself.
InFlightNever(p) == FALSE

\* The group has a call under way, which others share.
InFlight(p) == \E c \in Caller : c[1] = p /\ call[c] \in {"fetching", "fetched"}

\* ... and again inside of it, when it is the one to fetch.
Enter(c) ==
  /\ call[c] = "missed"
  /\ UNCHANGED git
  /\ IF ~InFlight(c[1]) /\ Fresh(c[1])
     THEN /\ call' = [call EXCEPT ![c] = "idle"]
          /\ Answered({c}, c[1], cache[c[1]].image)
     ELSE /\ call' = [call EXCEPT ![c] = IF InFlight(c[1]) THEN "waiting" ELSE "fetching"]
          /\ UNCHANGED updating
  /\ UNCHANGED <<tag, leader, nudge, listed, cache, harmed, edits, handovers, faults>>

\* Mutant of Fetch: a page that cannot be read counts as an empty one.
FetchEmpty(c) ==
  /\ call[c] = "fetching"
  /\ \/ listed' = [listed EXCEPT ![c] = tag] /\ UNCHANGED faults
     \/ Fault /\ listed' = [listed EXCEPT ![c] = 0]
  /\ call' = [call EXCEPT ![c] = "fetched"]
  /\ UNCHANGED <<tag, git, leader, updating, nudge, cache, harmed, edits, handovers>>

\* Artifact Registry answers; the answer takes its time.
Fetch(c) ==
  /\ call[c] = "fetching"
  /\ listed' = [listed EXCEPT ![c] = tag]
  /\ call' = [call EXCEPT ![c] = "fetched"]
  /\ UNCHANGED <<tag, git, leader, updating, nudge, cache, harmed, edits, handovers,
                 faults>>

Sharers(c) == {c} \cup {d \in Caller : d[1] = c[1] /\ call[d] = "waiting"}

Hangup(S) ==
  /\ call' = [c \in Caller |-> IF c \in S THEN "idle" ELSE call[c]]
  /\ listed' = [c \in Caller |-> IF c \in S THEN 1 ELSE listed[c]]

FetchReturns(c) ==
  /\ call[c] = "fetched"
  /\ UNCHANGED git
  /\ cache' = [cache EXCEPT ![c[1]] = [image |-> listed[c], age |-> 0]]
  /\ Answered(Sharers(c), c[1], listed[c])
  /\ Hangup(Sharers(c))
  /\ UNCHANGED <<tag, leader, nudge, harmed, edits, handovers, faults>>

\* Mutant of Detached: the fetch runs under the context of its caller.
DetachedNot(c) == Fault \/ (c[2] = "updater" /\ ~live[c[1]] /\ UNCHANGED faults)

\* The fetch fails by itself only: context.WithoutCancel.
Detached(c) == Fault

\* Mutant of FetchFails: only the caller that fetched is told.
FetchFailsAlone(c) ==
  /\ call[c] \in {"fetching", "fetched"}
  /\ Detached(c)
  /\ UNCHANGED git
  /\ IF Updater(c[1]) = c THEN Over(c[1]) ELSE UNCHANGED updating
  /\ harmed' = IF Viewer(c[1]) = c THEN harmed + 1 ELSE harmed
  /\ Hangup({c})
  /\ UNCHANGED <<tag, leader, nudge, cache, edits, handovers>>

\* The error goes to every caller that shares the fetch.
FetchFails(c) ==
  /\ call[c] \in {"fetching", "fetched"}
  /\ Detached(c)
  /\ UNCHANGED git
  /\ IF Updater(c[1]) \in Sharers(c) THEN Over(c[1]) ELSE UNCHANGED updating
  /\ harmed' = IF Viewer(c[1]) \in Sharers(c) THEN harmed + 1 ELSE harmed
  /\ Hangup(Sharers(c))
  /\ UNCHANGED <<tag, leader, nudge, cache, edits, handovers>>

-----------------------------------------------------------------------------
Push ==
  /\ tag < MaxTag
  /\ tag' = tag + 1
  /\ UNCHANGED <<git, leader, updating, nudge, listing, edits, handovers, faults>>

\* handleImageEvent, some time after a push: only the leader is nudged, and
\* nudges collapse.
ImageEvent ==
  /\ tag > 1
  /\ nudge' = TRUE
  /\ UNCHANGED <<tag, git, leader, updating, listing, edits, handovers, faults>>

Edit ==
  /\ edits < MaxEdits /\ edits' = edits + 1
  /\ file' \in Content \ {file}
  /\ author' = Person
  /\ UNCHANGED <<tag, leader, updating, nudge, listing, handovers, faults>>

Handover ==
  /\ handovers < MaxHandovers /\ handovers' = handovers + 1
  /\ leader' \in Process \ {leader}
  /\ live' = [live EXCEPT ![leader] = FALSE]
  /\ nudge' = FALSE
  /\ UNCHANGED <<tag, git, pc, copy, want, due, listing, edits, faults>>

Tick ==
  /\ cache' = [p \in Process |-> IF Fresh(p) THEN [cache[p] EXCEPT !.age = @ + 1]
                                 ELSE cache[p]]
  /\ \E p \in Process : Fresh(p)
  /\ UNCHANGED <<tag, git, leader, updating, nudge, call, listed, harmed, edits,
                 handovers, faults>>

Update(p) == Read(p) \/ ReadFails(p) \/ Put(p) \/ PutFails(p)
ListTags(c) == Hit(c) \/ Miss(c) \/ Enter(c) \/ Fetch(c) \/ FetchReturns(c) \/ FetchFails(c)

Next ==
  \/ Push \/ ImageEvent \/ Edit \/ Handover \/ Tick
  \/ \E p \in Process :
       \/ Update(p)
       \/ \E nudged \in BOOLEAN : StartPass(p, nudged)
  \/ \E c \in Caller : ListTags(c)

Spec == Init /\ [][Next]_vars

\* Time goes on, the leader ticks, and calls return.  Pushes, commits, events,
\* viewers and faults promise nothing.
FairSpec ==
  /\ Spec
  /\ WF_vars(Tick)
  /\ \A p \in Process :
       /\ WF_vars(StartPass(p, FALSE)) /\ WF_vars(Update(p))
       /\ WF_vars(ListTags(Updater(p)))
  /\ \A p \in Viewing :
       WF_vars(Enter(Viewer(p)) \/ Fetch(Viewer(p)) \/ FetchReturns(Viewer(p)))

-----------------------------------------------------------------------------
\* A commit by RunCD loses nobody's change: it changes the digest and nothing
\* else of what is committed at that moment (PutFile's sha).
EditsSurvive ==
  [][file' # file /\ edits' = edits => file'.body = file.body]_vars

\* No process takes back its own commit: an older image is committed only
\* over somebody else's, since a process's view of the tag never goes back
\* (the group in ListTags).
NoRollback ==
  [][\A p \in Process :
       file' # file /\ author' = p /\ file'.digest < file.digest => author # p]_vars

\* A pass that is cancelled fails no other caller of ListTags: every failure
\* a viewer sees is a fault of the registry.
ViewersUnharmed == harmed <= faults

\* The manifest follows the tag: when pushes, commits by hand and faults are
\* over, the tag's image is committed for good.
TagFollowed == <>[](file.digest = tag)

\* An image event makes the loop react to the push: the pass it starts ends
\* with that image, or a later one, committed.
NudgedPassSeesPush ==
  [][\A p \in Process :
       pc[p] # "idle" /\ pc'[p] = "idle" /\ live[p] /\ edits = 0 /\ faults' = 0
         => file'.digest >= due[p]]_vars
=============================================================================
