------------------------------- MODULE Fleet -------------------------------
(***************************************************************************)
(* One process at work on many units: the passes of RunOnce with their     *)
(* limit of workers, the API's callers beside them, and what all of them   *)
(* share and build on first use: the regional clients of internal/cloudrun *)
(* the Pub/Sub clients and existence checks of internal/precondition, the  *)
(* installation ids and tokens of internal/githubapp.  Then the shutdown   *)
(* of cmd/controller while any of it is under way.                         *)
(*                                                                         *)
(* Every shared value is had in the same way: look into the map, else join *)
(* the key's flight (singleflight), look again, make the value with a call *)
(* that is detached from the caller's context, keep it.  A key may need    *)
(* another one first: a check needs its client, a token its installation.  *)
(* Construction of a client has no deadline; every other call has one.     *)
(***************************************************************************)
EXTENDS Integers, Sequences, FiniteSets

CONSTANTS
  Units,        \* the number of units; a pass takes them in this order
  Viewer,       \* callers from the API
  Workers,      \* Reconciler.Workers
  Client,       \* keys of clients: kept for the life of the process
  Installation, \* keys of installation ids: kept too, and looked up without a flight
  Token,        \* keys of installation tokens
  Probe,        \* keys of existence checks
  Under,        \* the key that a token or a check needs first
  Paths,        \* the shared values a caller may need, one after the other
  Life,         \* how long GitHub honours a token
  Margin,       \* how much earlier it is replaced
  TTL,          \* DefaultExistsCacheTTL
  Timeout,      \* of every call that has a deadline
  Grace,        \* of srv.Shutdown, and then shutdownWaitTimeout
  Nobody, Nothing,
  MaxFaults,    \* bound: failed calls
  MaxHangs      \* bound: constructions that never return

Unit == 1..Units
Caller == Unit \cup Viewer
Kept == Client \cup Installation
Asked == Client \cup Token \cup Probe   \* what callers ask for by themselves
Key == Asked \cup Installation
Ages == 0..(Life + TTL + Timeout)   \* beyond any limit on the age of a value

ASSUME FleetAssumption ==
  /\ Units \in Nat /\ Workers \in Nat \ {0} /\ Unit \cap Viewer = {}
  /\ Nobody \notin Caller /\ Nothing \notin [age : Ages, held : Ages]
  /\ Client \cap Installation = {} /\ Token \cap Probe = {}   \* keys of different maps
  /\ Kept \cap (Token \cup Probe) = {}
  /\ \A g \in Caller : /\ Paths[g] # {}
                       /\ Paths[g] \subseteq Seq(Asked) \ {<<>>}
  /\ DOMAIN Under = Token \cup Probe /\ \A k \in Probe : Under[k] \in Client
  /\ \A k \in Token : Under[k] \in Installation
  /\ \A k, l \in Token : Under[k] = Under[l] => k = l   \* both maps are by repository
  /\ {Life, Margin, TTL, Timeout, Grace, MaxFaults, MaxHangs} \subseteq Nat /\ TTL > 0
  /\ Timeout <= Margin /\ 2 * Timeout < Life /\ Margin < Life

VARIABLES
  cache,   \* the maps: a value's age, and how long it has been kept
  flight,  \* the groups: who makes the value
  pc,
  todo,    \* the values a caller will need later
  stack,   \* the keys it is getting, the one that is needed first in front
  age,     \* how long ago the value it holds was made
  clock,   \* how long its call has taken
  gone,    \* callers whose context is cancelled
  pass,    \* RunOnce is running
  phase,   \* of the process
  left,    \* the time the phase has left
  built,   \* history: clients and ids made
  blamed,  \* history: callers that failed by a cancellation of somebody else's context
  faults, hangs

calls == <<pc, todo, stack, age, clock>>
process == <<pass, phase, left>>
history == <<built, blamed>>
vars == <<cache, flight, calls, gone, process, history, faults, hangs>>

Older(a) == IF a + 1 \in Ages THEN a + 1 ELSE a

TypeOK ==
  /\ cache \in [Key -> {Nothing} \cup [age : Ages, held : Ages]]
  /\ flight \in [Key -> {Nobody} \cup Caller]
  /\ pc \in [Caller -> {"idle", "look", "join", "wait", "call", "answered", "hung",
                        "use", "done"}]
  /\ todo \in [Caller -> Seq(Asked)]
  /\ stack \in [Caller -> Seq(Key)] /\ \A g \in Caller : Len(stack[g]) <= 2
  /\ age \in [Caller -> Ages] /\ clock \in [Caller -> 0..Timeout]
  /\ gone \subseteq Caller
  /\ pass \in BOOLEAN
  /\ phase \in {"up", "shutdown", "drain", "exited"} /\ left \in 0..Grace
  /\ built \in [Kept -> Nat] /\ blamed \subseteq Caller
  /\ faults \in 0..MaxFaults /\ hangs \in 0..MaxHangs

Init ==
  /\ cache = [k \in Key |-> Nothing]
  /\ flight = [k \in Key |-> Nobody]
  /\ pc = [g \in Caller |-> "idle"]
  /\ todo = [g \in Caller |-> <<>>]
  /\ stack = [g \in Caller |-> <<>>]
  /\ age = [g \in Caller |-> 0] /\ clock = [g \in Caller |-> 0]
  /\ gone = {}
  /\ pass = FALSE /\ phase = "up" /\ left = 0
  /\ built = [k \in Kept |-> 0] /\ blamed = {}
  /\ faults = 0 /\ hangs = 0

-----------------------------------------------------------------------------
Active(g) == pc[g] \notin {"idle", "done"}
Running == phase # "exited"
Top(g) == Head(stack[g])
Fault == faults < MaxFaults /\ faults' = faults + 1

\* Mutant of Good: a token is used to its last moment.
GoodToTheEnd(k, e) ==
  /\ k \in Token => e.age < Life
  /\ k \in Probe => e.held < TTL

\* Clients and ids are kept, tokens until some time before they expire,
\* and the answer of a check for a while after it came.
Good(k, e) ==
  /\ k \in Token => e.age < Life - Margin
  /\ k \in Probe => e.held < TTL

Fresh(k) == cache[k] # Nothing

\* The callers of S have the value they were getting, of age a: it is what
\* their path asks for, or lets them make that.
Serve(S, a) ==
  /\ pc' = [g \in Caller |-> IF g \notin S THEN pc[g]
                             ELSE IF Len(stack[g]) = 1 THEN "use" ELSE "call"]
  /\ stack' = [g \in Caller |-> IF g \in S /\ Len(stack[g]) > 1 THEN Tail(stack[g])
                                ELSE stack[g]]
  /\ age' = [g \in Caller |-> IF g \in S THEN a ELSE age[g]]
  /\ clock' = [g \in Caller |-> IF g \in S THEN 0 ELSE clock[g]]
  /\ UNCHANGED todo

\* The work of the callers of S is over; cause is whose cancelled context it
\* is that ended it, if one is.
End(S, cause) ==
  /\ pc' = [g \in Caller |-> IF g \notin S THEN pc[g]
                             ELSE IF g \in Unit THEN "done" ELSE "idle"]
  /\ todo' = [g \in Caller |-> IF g \in S THEN <<>> ELSE todo[g]]
  /\ stack' = [g \in Caller |-> IF g \in S THEN <<>> ELSE stack[g]]
  /\ age' = [g \in Caller |-> IF g \in S THEN 0 ELSE age[g]]
  /\ clock' = [g \in Caller |-> IF g \in S THEN 0 ELSE clock[g]]
  /\ gone' = gone \ (S \cap Viewer)
  /\ blamed' = IF cause = Nobody THEN blamed ELSE blamed \cup (S \ {cause})

\* g turns to the first value of a path.
Turn(g, path) ==
  /\ pc' = [pc EXCEPT ![g] = "look"]
  /\ todo' = [todo EXCEPT ![g] = Tail(path)]
  /\ stack' = [stack EXCEPT ![g] = <<Head(path)>>]
  /\ age' = [age EXCEPT ![g] = 0]
  /\ clock' = [clock EXCEPT ![g] = 0]

-----------------------------------------------------------------------------
\* Mutant of Look: the mutex is held while a client is constructed.
LookLocked(g) ==
  /\ Running /\ pc[g] = "look"
  /\ ~\E h \in Caller : pc[h] \in {"call", "hung"} /\ Top(h) \in Client
  /\ IF Fresh(Top(g)) THEN Serve({g}, cache[Top(g)].age)
     ELSE /\ pc' = [pc EXCEPT ![g] = IF Top(g) \in Installation THEN "call" ELSE "join"]
          /\ UNCHANGED <<todo, stack, age, clock>>
  /\ UNCHANGED <<cache, flight, gone, process, history, faults, hangs>>

\* The map is looked into under its mutex, which is held for nothing else.
Look(g) ==
  /\ Running /\ pc[g] = "look"
  /\ IF Fresh(Top(g)) THEN Serve({g}, cache[Top(g)].age)
     ELSE /\ pc' = [pc EXCEPT ![g] = IF Top(g) \in Installation THEN "call" ELSE "join"]
          /\ UNCHANGED <<todo, stack, age, clock>>
  /\ UNCHANGED <<cache, flight, gone, process, history, faults, hangs>>

\* Mutant of Found: there is no second look inside the flight.
FoundNever(g) == FALSE

\* Somebody made the value between the look and the flight.
Found(g) == Fresh(Top(g))

\* group.Do: wait for the flight under way, however long it takes and
\* whatever becomes of the own context, or be the flight.
Join(g) ==
  LET k == Top(g)
      needs == k \in DOMAIN Under
  IN /\ Running /\ pc[g] = "join"
     /\ \/ /\ flight[k] # Nobody
           /\ pc' = [pc EXCEPT ![g] = "wait"]
           /\ UNCHANGED <<flight, todo, stack, age, clock>>
        \/ /\ flight[k] = Nobody /\ Found(g)
           /\ Serve({g}, cache[k].age)
           /\ UNCHANGED flight
        \/ /\ flight[k] = Nobody /\ ~Found(g)
           /\ flight' = [flight EXCEPT ![k] = g]
           /\ pc' = [pc EXCEPT ![g] = IF needs THEN "look" ELSE "call"]
           /\ stack' = IF needs THEN [stack EXCEPT ![g] = <<Under[k]>> \o @] ELSE stack
           /\ UNCHANGED <<todo, age, clock>>
     /\ UNCHANGED <<cache, gone, process, history, faults, hangs>>

\* Google or GitHub has done what is asked; the answer is on its way.
Answer(g) ==
  /\ Running /\ pc[g] = "call"
  /\ pc' = [pc EXCEPT ![g] = "answered"]
  /\ age' = [age EXCEPT ![g] = 0]
  /\ UNCHANGED <<cache, flight, todo, stack, clock, gone, process, history, faults, hangs>>

\* The callers whose Do returns with g's.
Sharers(g) == {g} \cup {h \in Caller : pc[h] = "wait" /\ Top(h) = Top(g)}

\* The answer is kept and given to all who wait for it.
Store(g) ==
  LET k == Top(g)
  IN /\ Running /\ pc[g] = "answered"
     /\ cache' = [cache EXCEPT ![k] = [age |-> IF k \in Kept THEN 0 ELSE age[g],
                                       held |-> 0]]
     /\ flight' = [flight EXCEPT ![k] = Nobody]
     /\ Serve(Sharers(g), cache'[k].age)
     /\ built' = IF k \in Kept THEN [built EXCEPT ![k] = @ + 1] ELSE built
     /\ UNCHANGED <<blamed, gone, process, faults, hangs>>

\* A flight that fails for want of another value fails those who wait for it.
Outer(g) == {stack[h][2] : h \in {s \in Sharers(g) : Len(stack[s]) = 2}}
Struck(g) == Sharers(g) \cup {h \in Caller : pc[h] = "wait" /\ Top(h) \in Outer(g)}

Fail(g, cause) ==
  /\ End(Struck(g), cause)
  /\ flight' = [k \in Key |-> IF k \in Outer(g) \cup {Top(g)} THEN Nobody ELSE flight[k]]

\* Mutant of CallFails: the call is made under the context of its caller.
CallFailsAttached(g) ==
  /\ Running /\ pc[g] \in {"call", "answered"}
  /\ \/ Fault /\ Fail(g, Nobody)
     \/ g \in gone /\ Fail(g, g) /\ UNCHANGED faults
  /\ UNCHANGED <<cache, process, built, hangs>>

\* The call fails, its deadline included: nothing is kept.  It does not know
\* of the caller's context (context.WithoutCancel).
CallFails(g) ==
  /\ Running /\ pc[g] \in {"call", "answered"}
  /\ Fault /\ Fail(g, Nobody)
  /\ UNCHANGED <<cache, process, built, hangs>>

\* The construction of a client never returns.
Hang(g) ==
  /\ Running /\ pc[g] = "call" /\ Top(g) \in Client
  /\ hangs < MaxHangs /\ hangs' = hangs + 1
  /\ pc' = [pc EXCEPT ![g] = "hung"]
  /\ UNCHANGED <<cache, flight, todo, stack, age, clock, gone, process, history, faults>>

\* What the value was wanted for: a request with the client or the token.
\* The answer of a check is only looked at.
Use(g) ==
  /\ Running /\ pc[g] = "use"
  /\ IF todo[g] # <<>> THEN Turn(g, todo[g]) /\ UNCHANGED <<gone, blamed>>
     ELSE End({g}, Nobody)
  /\ UNCHANGED <<cache, flight, process, built, faults, hangs>>

UseFails(g) ==
  /\ Running /\ pc[g] = "use" /\ Top(g) \notin Probe
  /\ \/ g \in gone /\ End({g}, g) /\ UNCHANGED faults
     \/ Fault /\ End({g}, Nobody)
  /\ UNCHANGED <<cache, flight, process, built, hangs>>

-----------------------------------------------------------------------------
\* A tick of the leader.
StartPass ==
  /\ phase = "up" /\ ~pass
  /\ pass' = TRUE
  /\ UNCHANGED <<cache, flight, calls, gone, phase, left, history, faults, hangs>>

\* errgroup.Go: the next unit, as soon as a worker is free.
Dispatch(u) ==
  /\ Running /\ pass /\ pc[u] = "idle"
  /\ \A v \in Unit : v < u => pc[v] # "idle"
  /\ Cardinality({v \in Unit : Active(v)}) < Workers
  /\ \E path \in Paths[u] : Turn(u, path)
  /\ UNCHANGED <<cache, flight, gone, process, history, faults, hangs>>

\* g.Wait: the pass ends with its last unit.
EndPass ==
  /\ Running /\ pass /\ \A u \in Unit : pc[u] = "done"
  /\ pass' = FALSE
  /\ pc' = [g \in Caller |-> IF g \in Unit THEN "idle" ELSE pc[g]]
  /\ gone' = gone \ Unit
  /\ UNCHANGED <<cache, flight, todo, stack, age, clock, phase, left, history, faults,
                 hangs>>

\* The term of the pass ends.
LoseTerm ==
  /\ Running /\ pass
  /\ gone' = gone \cup Unit
  /\ UNCHANGED <<cache, flight, calls, process, history, faults, hangs>>

Request(v) ==
  /\ phase = "up" /\ ~Active(v)
  /\ \E path \in Paths[v] : Turn(v, path)
  /\ UNCHANGED <<cache, flight, gone, process, history, faults, hangs>>

\* The caller hangs up.
Disconnect(v) ==
  /\ Running /\ Active(v)
  /\ gone' = gone \cup {v}
  /\ UNCHANGED <<cache, flight, calls, process, history, faults, hangs>>

-----------------------------------------------------------------------------
\* SIGTERM, or the server cannot listen: the loop's context is cancelled and
\* no request is accepted any more.
Signal ==
  /\ phase = "up"
  /\ phase' = "shutdown" /\ left' = Grace
  /\ gone' = IF pass THEN gone \cup Unit ELSE gone
  /\ UNCHANGED <<cache, flight, calls, pass, history, faults, hangs>>

\* srv.Shutdown waits for the requests, but not for ever.
ShutdownEnds ==
  /\ phase = "shutdown"
  /\ left = 0 \/ \A v \in Viewer : ~Active(v)
  /\ phase' = "drain" /\ left' = Grace
  /\ UNCHANGED <<cache, flight, calls, gone, pass, history, faults, hangs>>

\* Mutant of DrainEnds: wg.Wait by itself.
DrainEndsPatiently ==
  /\ phase = "drain"
  /\ ~pass
  /\ phase' = "exited" /\ left' = 0
  /\ UNCHANGED <<cache, flight, calls, gone, pass, history, faults, hangs>>

\* Neither does the wait for the goroutines.
DrainEnds ==
  /\ phase = "drain"
  /\ left = 0 \/ ~pass
  /\ phase' = "exited" /\ left' = 0
  /\ UNCHANGED <<cache, flight, calls, gone, pass, history, faults, hangs>>

\* Mutant of Patience: a call may outlive its deadline.
PatienceEndless(g) == Timeout + 1

\* A call that has a deadline is over by then.
Patience(g) == IF pc[g] = "use" /\ Top(g) \in Probe THEN 0 ELSE Timeout
Timed(g) == pc[g] \in {"call", "answered", "use"}

\* An entry, a moment later; once it is not good any more it might as well
\* not be there.
Aged(k, e) ==
  LET f == [age |-> Older(e.age), held |-> IF k \in Probe THEN Older(e.held) ELSE 0]
  IN IF Good(k, f) THEN f ELSE Nothing

Tick ==
  /\ Running
  /\ \A g \in Caller : Timed(g) => clock[g] < Patience(g)
  /\ cache' = [k \in Key |-> IF k \in Kept \/ ~Fresh(k) THEN cache[k] ELSE Aged(k, cache[k])]
  /\ clock' = [g \in Caller |-> IF Timed(g) THEN clock[g] + 1 ELSE clock[g]]
  /\ age' = [g \in Caller |-> IF pc[g] \in {"answered", "use"} /\ Top(g) \notin Kept
                              THEN Older(age[g]) ELSE age[g]]
  /\ left' = IF left > 0 THEN left - 1 ELSE 0
  /\ UNCHANGED <<flight, pc, todo, stack, gone, pass, phase, history, faults, hangs>>

Work(g) == Look(g) \/ Join(g) \/ Answer(g) \/ Store(g) \/ Use(g)

Next ==
  \/ \E g \in Caller : Work(g) \/ CallFails(g) \/ Hang(g) \/ UseFails(g)
  \/ \E u \in Unit : Dispatch(u)
  \/ \E v \in Viewer : Request(v) \/ Disconnect(v)
  \/ StartPass \/ EndPass \/ LoseTerm
  \/ Signal \/ ShutdownEnds \/ DrainEnds
  \/ Tick

Spec == Init /\ [][Next]_vars

\* Time passes, goroutines go on, and a call that does not hang is answered.
\* Nobody need ask for anything, lose a term or end the process.
FairSpec ==
  /\ Spec
  /\ WF_vars(Tick)
  /\ \A g \in Caller : WF_vars(Work(g))
  /\ \A u \in Unit : WF_vars(Dispatch(u))
  /\ WF_vars(EndPass) /\ WF_vars(ShutdownEnds) /\ WF_vars(DrainEnds)

-----------------------------------------------------------------------------
\* No client is lost: each is constructed once, so that Close releases all
\* there are, however many callers meet in its first use; and the lookup of
\* an installation, which has no flight of its own, is not repeated either.
BuiltOnce == \A k \in Kept : built[k] <= 1

\* No request carries an expired token, and no decision rests on a check
\* older than its TTL and one call (the margin of installationToken, and
\* fetchedAt of checkExists).
UsedInTime ==
  \A g \in Caller : pc[g] = "use" =>
    /\ Top(g) \in Token => age[g] < Life
    /\ Top(g) \in Probe => age[g] < TTL + Timeout

\* A caller is told that a context was cancelled only if it was its own,
\* though it shares flights with callers that are gone.
BlameIsOwn == blamed = {}

\* The keys that g is getting, and those they need.
Reach(g) ==
  LET own == {stack[g][i] : i \in DOMAIN stack[g]}
  IN own \cup {Under[k] : k \in own \cap DOMAIN Under}

\* One of G needs a client whose construction hangs.
Wedged(G) == \E h \in Caller, g \in G : pc[h] = "hung" /\ Top(h) \in Reach(g)

\* Work ends.  A request ends unless it needs the very client whose
\* construction hangs: what is wedged for others does not stall it.  A pass
\* ends unless one of its units is stalled so, and then all wait for that one.
WorkEnds ==
  /\ \A v \in Viewer : Active(v) ~> ~Active(v) \/ Wedged({v}) \/ ~Running
  /\ pass ~> ~pass \/ Wedged(Unit) \/ ~Running

\* The process exits when it is told to, whatever hangs.
ExitsOnSignal == phase = "shutdown" ~> ~Running
=============================================================================
