------------------------------- MODULE Lease -------------------------------
(***************************************************************************)
(* Leader election over one Postgres row: internal/leader/lease.go, the    *)
(* retry loop and the term contexts of cmd/controller/main.go.             *)
(*                                                                         *)
(* A replica is one boot of the controller: the holder id is random per    *)
(* boot, so a restarted process is another member of Replica.  Time is     *)
(* discrete.  Postgres's clock and the replicas' monotonic timers advance  *)
(* together, and every time is kept as the time left or elapsed, so that   *)
(* nothing grows without bound.                                            *)
(***************************************************************************)
EXTENDS Integers

CONSTANTS
  Replica,         \* boots of the controller
  None,            \* the empty holder of the seed row
  TTL,             \* leader.TTL
  RenewInterval,   \* leader.RenewInterval
  QueryTimeout,    \* leader.queryTimeout
  Delay,           \* how late a replica may act on a timer or an answer
  InitialBackoff, MaxBackoff,  \* of runLeaderElection
  MaxFaults        \* bound: failed claims, crashes and shutdowns in a behaviour

ASSUME TimingAssumption ==
  /\ TTL \in Nat /\ RenewInterval \in Nat \ {0}
  /\ QueryTimeout \in Nat /\ Delay \in Nat
  /\ QueryTimeout + Delay <= RenewInterval
  /\ RenewInterval + QueryTimeout + 2 * Delay <= TTL

ASSUME ReplicaAssumption ==
  /\ None \notin Replica
  /\ InitialBackoff \in Nat /\ MaxBackoff \in Nat /\ MaxFaults \in Nat

VARIABLES
  holder,    \* leader_lease.holder_id
  left,      \* leader_lease.expires_at - now(); -1 once expired
  pc,        \* where each replica's runLeaderElection goroutine is
  ok,        \* RowsAffected = 1 of the claim that has executed
  leading,   \* wasLeader; equally lc.Current().Err() == nil
  age,       \* time since the last attempt started
  untilTick, \* time until the ticker fires
  ticked,    \* a value waits in ticker.C (its buffer holds one)
  late,      \* how long that value has waited for an idle loop
  sleep,     \* time left of the backoff sleep
  backoff,   \* the next sleep
  pass,      \* the reconcile pass of the replica and its term context
  stray,     \* UPDATEs whose client gave up before Postgres ran them
  faults

row == <<holder, left>>
timers == <<age, untilTick, ticked, late>>
retry == <<sleep, backoff>>
vars == <<row, pc, ok, leading, timers, retry, pass, stray, faults>>

Running(r) == pc[r] \in {"calling", "executed", "idle"}

TypeOK ==
  /\ holder \in Replica \cup {None}
  /\ left \in -1..TTL
  /\ pc \in [Replica -> {"off", "calling", "executed", "idle", "backoff", "dead"}]
  /\ ok \in [Replica -> BOOLEAN]
  /\ leading \in [Replica -> BOOLEAN]
  /\ age \in [Replica -> 0 .. RenewInterval + Delay]
  /\ untilTick \in [Replica -> 1..RenewInterval]
  /\ ticked \in [Replica -> BOOLEAN]
  /\ late \in [Replica -> 0..Delay]
  /\ sleep \in [Replica -> Nat]
  /\ backoff \in [Replica -> Nat]
  /\ pass \in [Replica -> {"none", "live", "cancelled"}]
  /\ stray \in [Replica -> Nat]
  /\ faults \in 0..MaxFaults

\* The schema's seed row has an empty holder and expired long ago.
Init ==
  /\ holder = None /\ left = -1
  /\ pc = [r \in Replica |-> "off"]
  /\ ok = [r \in Replica |-> FALSE]
  /\ leading = [r \in Replica |-> FALSE]
  /\ age = [r \in Replica |-> 0]
  /\ untilTick = [r \in Replica |-> RenewInterval]
  /\ ticked = [r \in Replica |-> FALSE]
  /\ late = [r \in Replica |-> 0]
  /\ sleep = [r \in Replica |-> 0]
  /\ backoff = [r \in Replica |-> InitialBackoff]
  /\ pass = [r \in Replica |-> "none"]
  /\ stray = [r \in Replica |-> 0]
  /\ faults = 0

-----------------------------------------------------------------------------
\* Mutants of CanClaim: a row taken over on its last instant; one never taken over.
CanClaimEarly(r) == holder = r \/ left <= 0
CanClaimOnce(r) == holder = r \/ holder = None

\* The WHERE clause of the UPDATE: a renewal, or a takeover of an expired row.
CanClaim(r) == holder = r \/ left < 0

\* The UPDATE as Postgres runs it.
Update(r) ==
  /\ holder' = IF CanClaim(r) THEN r ELSE holder
  /\ left' = IF CanClaim(r) THEN TTL ELSE left

\* Mutant of SetLeading: the ended term's context is left running.
SetLeadingNoCancel(r, b) ==
  leading' = [leading EXCEPT ![r] = b] /\ pass' = pass

\* leadershipContext.set: end the term that was active, begin one if leading.
\* A pass that captured the ended term's context loses it for good.
SetLeading(r, b) ==
  /\ leading' = [leading EXCEPT ![r] = b]
  /\ pass' = IF leading[r] # b /\ pass[r] = "live"
               THEN [pass EXCEPT ![r] = "cancelled"] ELSE pass

\* Mutant of BeginRun: the ticker runs at the lease's TTL.
BeginRunSlow(r) ==
  /\ pc' = [pc EXCEPT ![r] = "calling"]
  /\ age' = [age EXCEPT ![r] = 0]
  /\ untilTick' = [untilTick EXCEPT ![r] = TTL]
  /\ ticked' = [ticked EXCEPT ![r] = FALSE]
  /\ late' = [late EXCEPT ![r] = 0]

\* Lease.Run starts: a new ticker and an immediate attempt.
BeginRun(r) ==
  /\ pc' = [pc EXCEPT ![r] = "calling"]
  /\ age' = [age EXCEPT ![r] = 0]
  /\ untilTick' = [untilTick EXCEPT ![r] = RenewInterval]
  /\ ticked' = [ticked EXCEPT ![r] = FALSE]
  /\ late' = [late EXCEPT ![r] = 0]

Boot(r) ==
  /\ pc[r] = "off"
  /\ BeginRun(r)
  /\ UNCHANGED <<row, ok, leading, retry, pass, stray, faults>>

\* Postgres runs the UPDATE of r's claim.
ClaimExecutes(r) ==
  /\ pc[r] = "calling"
  /\ Update(r)
  /\ ok' = [ok EXCEPT ![r] = CanClaim(r)]
  /\ pc' = [pc EXCEPT ![r] = "executed"]
  /\ UNCHANGED <<leading, timers, retry, pass, stray, faults>>

\* Mutant of ClaimReturns: any answer without an error counts as a claim.
ClaimReturnsUnread(r) ==
  /\ pc[r] = "executed"
  /\ SetLeading(r, TRUE)
  /\ ok' = [ok EXCEPT ![r] = FALSE]
  /\ pc' = [pc EXCEPT ![r] = "idle"]
  /\ UNCHANGED <<row, timers, retry, stray, faults>>

\* The answer arrives; leading is called if the status changed.
ClaimReturns(r) ==
  /\ pc[r] = "executed"
  /\ SetLeading(r, ok[r])
  /\ ok' = [ok EXCEPT ![r] = FALSE]
  /\ pc' = [pc EXCEPT ![r] = "idle"]
  /\ UNCHANGED <<row, timers, retry, stray, faults>>

\* Mutant of ClaimFails: the replica goes on believing what it last knew.
ClaimFailsSilently(r) ==
  /\ pc[r] \in {"calling", "executed"}
  /\ faults < MaxFaults
  /\ faults' = faults + 1
  /\ pc' = [pc EXCEPT ![r] = "backoff"]
  /\ sleep' = [sleep EXCEPT ![r] = MaxBackoff]
  /\ UNCHANGED <<row, timers, ok, leading, pass, stray, backoff>>

\* The claim fails: before Postgres ran the UPDATE, which it may still do, or
\* after it, when only the answer is lost.  Run reports leading(false) and
\* returns, and runLeaderElection sleeps.  A run of two minutes resets the
\* backoff first; how long a run lasted is not kept, so either may happen.
ClaimFails(r) ==
  /\ pc[r] \in {"calling", "executed"}
  /\ faults < MaxFaults
  /\ faults' = faults + 1
  /\ SetLeading(r, FALSE)
  /\ stray' = IF pc[r] = "calling" THEN [stray EXCEPT ![r] = @ + 1] ELSE stray
  /\ ok' = [ok EXCEPT ![r] = FALSE]
  /\ pc' = [pc EXCEPT ![r] = "backoff"]
  /\ \E b \in {InitialBackoff, backoff[r]} :
       /\ sleep' = [sleep EXCEPT ![r] = b]
       /\ backoff' = [backoff EXCEPT ![r] = IF 2 * b > MaxBackoff
                                              THEN MaxBackoff ELSE 2 * b]
  /\ UNCHANGED <<row, timers>>

Retry(r) ==
  /\ pc[r] = "backoff" /\ sleep[r] = 0
  /\ BeginRun(r)
  /\ UNCHANGED <<row, ok, leading, retry, pass, stray, faults>>

\* The loop of runWithInterval takes the value from ticker.C.
NextAttempt(r) ==
  /\ pc[r] = "idle" /\ ticked[r]
  /\ pc' = [pc EXCEPT ![r] = "calling"]
  /\ age' = [age EXCEPT ![r] = 0]
  /\ ticked' = [ticked EXCEPT ![r] = FALSE]
  /\ late' = [late EXCEPT ![r] = 0]
  /\ UNCHANGED <<row, ok, leading, untilTick, retry, pass, stray, faults>>

\* A claim its client abandoned reaches Postgres after all.
LateClaim(r) ==
  /\ stray[r] > 0
  /\ Update(r)
  /\ stray' = [stray EXCEPT ![r] = @ - 1]
  /\ UNCHANGED <<pc, ok, leading, timers, retry, pass, faults>>

\* SIGTERM cancels the root context and every term context below it.  The row
\* is not given back.
Shutdown(r) ==
  /\ pc[r] \notin {"off", "dead"}
  /\ faults < MaxFaults
  /\ faults' = faults + 1
  /\ SetLeading(r, FALSE)
  /\ stray' = IF pc[r] = "calling" THEN [stray EXCEPT ![r] = @ + 1] ELSE stray
  /\ ok' = [ok EXCEPT ![r] = FALSE]
  /\ pc' = [pc EXCEPT ![r] = "dead"]
  /\ UNCHANGED <<row, timers, retry>>

\* The process is killed: its passes end with it.
Crash(r) ==
  /\ pc[r] \notin {"off", "dead"}
  /\ faults < MaxFaults
  /\ faults' = faults + 1
  /\ leading' = [leading EXCEPT ![r] = FALSE]
  /\ pass' = [pass EXCEPT ![r] = "none"]
  /\ stray' = IF pc[r] = "calling" THEN [stray EXCEPT ![r] = @ + 1] ELSE stray
  /\ ok' = [ok EXCEPT ![r] = FALSE]
  /\ pc' = [pc EXCEPT ![r] = "dead"]
  /\ UNCHANGED <<row, timers, retry>>

\* reconcileLoop's tick captures the term's context, if there is a term.
StartPass(r) ==
  /\ pass[r] = "none" /\ leading[r]
  /\ pass' = [pass EXCEPT ![r] = "live"]
  /\ UNCHANGED <<row, pc, ok, leading, timers, retry, stray, faults>>

EndPass(r) ==
  /\ pass[r] # "none"
  /\ pass' = [pass EXCEPT ![r] = "none"]
  /\ UNCHANGED <<row, pc, ok, leading, timers, retry, stray, faults>>

\* Time passes, unless some replica is already as late as it may be: a call
\* returns within queryTimeout and a waiting tick is taken at once, each plus
\* Delay for scheduling.
Tick ==
  /\ \A r \in Replica :
       /\ pc[r] \in {"calling", "executed"} => age[r] < QueryTimeout + Delay
       /\ pc[r] = "idle" /\ ticked[r] => late[r] < Delay
  /\ left' = IF left < 0 THEN -1 ELSE left - 1
  /\ age' = [r \in Replica |-> IF Running(r) THEN age[r] + 1 ELSE age[r]]
  /\ untilTick' = [r \in Replica |-> IF ~Running(r) THEN untilTick[r]
                                     ELSE IF untilTick[r] = 1 THEN RenewInterval
                                     ELSE untilTick[r] - 1]
  /\ ticked' = [r \in Replica |-> ticked[r] \/ (Running(r) /\ untilTick[r] = 1)]
  /\ late' = [r \in Replica |-> IF pc[r] = "idle" /\ ticked[r]
                                  THEN late[r] + 1 ELSE late[r]]
  /\ sleep' = [r \in Replica |-> IF sleep[r] > 0 THEN sleep[r] - 1 ELSE 0]
  /\ UNCHANGED <<holder, pc, ok, leading, backoff, pass, stray, faults>>

Next ==
  \/ Tick
  \/ \E r \in Replica :
       \/ Boot(r) \/ ClaimExecutes(r) \/ ClaimReturns(r) \/ ClaimFails(r)
       \/ Retry(r) \/ NextAttempt(r) \/ LateClaim(r)
       \/ Shutdown(r) \/ Crash(r) \/ StartPass(r) \/ EndPass(r)

Spec == Init /\ [][Next]_vars

\* Time goes on, and a goroutine that can run does: the Go scheduler and the
\* timers promise both.  Nothing is promised of passes, of abandoned claims
\* or of faults, but faults are finitely many.
FairSpec ==
  /\ Spec
  /\ WF_vars(Tick)
  /\ \A r \in Replica :
       WF_vars(ClaimExecutes(r) \/ ClaimReturns(r) \/ Retry(r) \/ NextAttempt(r))

-----------------------------------------------------------------------------
\* Why no lease expires under a leader.  Between attempts the ticker bounds
\* the age of the last one; during an attempt queryTimeout bounds its own.
Paced(r) ==
  /\ pc[r] = "idle" /\ ticked[r] => age[r] <= RenewInterval + late[r]
  /\ Running(r) /\ ~ticked[r] => age[r] + untilTick[r] <= RenewInterval
  /\ pc[r] \in {"calling", "executed"} => age[r] <= QueryTimeout + Delay

\* What r knows of the row: it had TTL left, at the earliest, when the attempt
\* that last succeeded started.
Vouched(r) ==
  /\ leading[r] => holder = r /\ Running(r)
  /\ pc[r] = "executed" /\ ok[r] => holder = r
  /\ pc[r] = "executed" /\ leading[r] => ok[r]
  /\ pc[r] = "executed" /\ ok[r] => left + age[r] >= TTL
  /\ pc[r] = "idle" /\ leading[r] => left + age[r] >= TTL
  /\ pc[r] = "calling" /\ leading[r]
       => left + age[r] + RenewInterval + Delay >= TTL
  /\ pass[r] = "live" => leading[r]

\* The inductive invariant behind the properties below.
LeaseInv == TypeOK /\ \A r \in Replica : Paced(r) /\ Vouched(r)

-----------------------------------------------------------------------------
\* At most one replica believes it leads (leader.Claim's purpose): neither a
\* lost answer, a late UPDATE, a crash nor a slow timer makes two.
AtMostOneLeader ==
  \A r, s \in Replica : leading[r] /\ leading[s] => r = s

\* A replica that believes it leads still owns an unexpired row: Run reports
\* leading(false) before Postgres would let another replica take over.
LeaderHoldsLease ==
  \A r \in Replica : leading[r] => holder = r /\ left >= 0

\* A pass whose context is not cancelled belongs to the one replica that leads
\* now: losing the lease in mid-pass cancels the pass (leadershipContext).
LivePassIsLeaders ==
  \A r \in Replica : pass[r] = "live" => leading[r]

\* Terms of leadership never overlap: election implements SingleLeader.
Terms == INSTANCE SingleLeader WITH active <- {r \in Replica : leading[r]}
TermsNeverOverlap == Terms!Spec

\* A crashed, partitioned or retired leader is replaced: while some replica
\* stays up, there is a leader again and again.
AlwaysALeaderAgain ==
  (\E r \in Replica : <>[](pc[r] \notin {"off", "dead"}))
     => []<>(\E r \in Replica : leading[r])
=============================================================================
