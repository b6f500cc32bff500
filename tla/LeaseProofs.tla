---------------------------- MODULE LeaseProofs ----------------------------
(***************************************************************************)
(* Leader election is safe for every set of replicas and every timing that *)
(* satisfies TimingAssumption.                                             *)
(***************************************************************************)
EXTENDS Lease, TLAPS

\* Initially nobody leads and every pace is trivially kept.
LEMMA LeaseInvInit == Init => LeaseInv
  BY TimingAssumption, ReplicaAssumption
  DEF Init, LeaseInv, TypeOK, Paced, Vouched, Running

\* A replica with something to vouch for still has an unexpired row: this is
\* where RenewInterval + QueryTimeout + 2 * Delay <= TTL is spent.
LEMMA VouchedRowIsLive ==
  ASSUME LeaseInv, NEW r \in Replica,
         leading[r] \/ (pc[r] = "executed" /\ ok[r])
  PROVE  holder = r /\ left >= 0
<1>1. age[r] \in Nat /\ late[r] \in 0..Delay /\ left \in Int
  BY DEF LeaseInv, TypeOK
<1>2. Paced(r) /\ Vouched(r)
  BY DEF LeaseInv
<1>3. untilTick[r] \in Nat
  BY DEF LeaseInv, TypeOK
<1>4. holder = r
  BY <1>2 DEF Vouched
<1>5. pc[r] = "executed" => left >= 0
  BY <1>1, <1>2, TimingAssumption DEF Paced, Vouched
<1>6. pc[r] = "calling" => left >= 0
  BY <1>1, <1>2, TimingAssumption DEF Paced, Vouched
<1>7. pc[r] = "idle" => left >= 0
  BY <1>1, <1>2, <1>3, TimingAssumption DEF Paced, Vouched, Running
<1> QED
  BY <1>2, <1>4, <1>5, <1>6, <1>7 DEF Vouched, Running

\* An UPDATE run for s leaves the row of any other replica that vouches for
\* it alone, and gives s a full TTL if it takes effect.
LEMMA UpdateRespectsVouched ==
  ASSUME LeaseInv, NEW r \in Replica, NEW s \in Replica, Update(s),
         leading[r] \/ (pc[r] = "executed" /\ ok[r])
  PROVE  holder' = r /\ left' >= left
<1>1. holder = r /\ left >= 0 /\ left \in -1..TTL
  BY VouchedRowIsLive DEF LeaseInv, TypeOK
<1> QED
  BY <1>1 DEF Update, CanClaim

\* One step per action of the election.
LEMMA LeaseInvStep == LeaseInv /\ [Next]_vars => LeaseInv'
<1> SUFFICES ASSUME LeaseInv, [Next]_vars PROVE LeaseInv'
  OBVIOUS
<1> USE TimingAssumption, ReplicaAssumption
<1>t. TypeOK
  BY DEF LeaseInv
<1>i. \A r \in Replica : Paced(r) /\ Vouched(r)
  BY DEF LeaseInv
<1>u. ASSUME NEW s \in Replica, Update(s)
      PROVE  holder' \in Replica \cup {None} /\ left' \in -1..TTL
  BY <1>t, <1>u DEF TypeOK, Update
<1>1. CASE Tick
  <2>1. TypeOK'
    BY <1>t, <1>i, <1>1 DEF Tick, TypeOK, Paced, Running
  <2>2. ASSUME NEW r \in Replica PROVE Paced(r)'
    <3>1. /\ pc' = pc
          /\ Running(r) => age'[r] = age[r] + 1
          /\ age[r] \in Nat /\ untilTick[r] \in 1..RenewInterval /\ late[r] \in Nat
          /\ Paced(r)
      BY <1>t, <1>i, <1>1 DEF Tick, TypeOK
    <3>2. pc[r] \in {"calling", "executed"} => age[r] < QueryTimeout + Delay
      BY <1>1 DEF Tick
    <3>3. CASE ticked[r]
      <4>1. ticked'[r] /\ (pc[r] = "idle" => late'[r] = late[r] + 1)
        BY <1>1, <3>3 DEF Tick
      <4> QED
        BY <3>1, <3>2, <3>3, <4>1 DEF Paced, Running
    <3>4. CASE ~ticked[r] /\ Running(r) /\ untilTick[r] = 1
      <4>1. ticked'[r] /\ late'[r] = late[r]
        BY <1>1, <3>4 DEF Tick
      <4> QED
        BY <3>1, <3>2, <3>4, <4>1 DEF Paced, Running
    <3>5. CASE ~ticked[r] /\ Running(r) /\ untilTick[r] # 1
      <4>1. ~ticked'[r] /\ untilTick'[r] = untilTick[r] - 1
        BY <1>1, <3>5 DEF Tick
      <4> QED
        BY <3>1, <3>2, <3>5, <4>1 DEF Paced, Running
    <3>6. CASE ~ticked[r] /\ ~Running(r)
      BY <3>1, <3>6 DEF Paced, Running
    <3> QED
      BY <3>3, <3>4, <3>5, <3>6
  <2>3. ASSUME NEW r \in Replica PROVE Vouched(r)'
    <3>1. leading[r] \/ (pc[r] = "executed" /\ ok[r]) => left >= 0
      BY VouchedRowIsLive
    <3>2. Running(r) /\ left >= 0 => left' + age'[r] = left + age[r]
      BY <1>t, <1>1 DEF Tick, TypeOK, Running
    <3>3. left \in Int /\ age[r] \in Int /\ left' \in Int /\ age'[r] \in Int
      BY <1>t, <2>1 DEF TypeOK
    <3>4. Vouched(r) /\ UNCHANGED <<holder, pc, ok, leading, pass>>
      BY <1>i, <1>1 DEF Tick
    <3> QED
      BY <3>1, <3>2, <3>3, <3>4 DEF Vouched, Running
  <2> QED
    BY <2>1, <2>2, <2>3 DEF LeaseInv
<1>2. ASSUME NEW s \in Replica, Boot(s) \/ Retry(s) PROVE LeaseInv'
  <2>b. BeginRun(s) /\ UNCHANGED <<row, ok, leading, retry, pass, stray, faults>>
    BY <1>2 DEF Boot, Retry
  <2>1. TypeOK'
    BY <1>t, <2>b DEF BeginRun, TypeOK, row, retry
  <2>2. ~leading[s]
    BY <1>i, <1>2 DEF Boot, Retry, Vouched, Running
  <2>3. ASSUME NEW r \in Replica, r # s PROVE Paced(r)' /\ Vouched(r)'
    BY <1>t, <1>i, <2>b, <2>3 DEF BeginRun, TypeOK, Paced, Vouched, Running, row
  <2>4. Paced(s)'
    BY <1>t, <2>b DEF BeginRun, TypeOK, Paced, Running
  <2>5. Vouched(s)'
    BY <1>t, <1>i, <2>b, <2>2 DEF BeginRun, TypeOK, Vouched, Running, row
  <2> QED
    BY <2>1, <2>3, <2>4, <2>5 DEF LeaseInv
<1>3. ASSUME NEW s \in Replica, ClaimExecutes(s) PROVE LeaseInv'
  <2>0. Update(s)
    BY <1>3 DEF ClaimExecutes
  <2>1. TypeOK'
    BY <1>t, <1>u, <1>3, <2>0 DEF ClaimExecutes, CanClaim, TypeOK, timers, retry
  <2>2. ASSUME NEW r \in Replica PROVE Paced(r)'
    BY <1>t, <1>i, <1>3 DEF ClaimExecutes, TypeOK, Paced, Running, timers, retry
  <2>3. ASSUME NEW r \in Replica, r # s PROVE Vouched(r)'
    <3>1. leading[r] \/ (pc[r] = "executed" /\ ok[r]) => holder' = r /\ left' >= left
      BY <2>0, UpdateRespectsVouched
    <3>2. left \in Int /\ left' \in Int /\ age[r] \in Int
      BY <1>t, <2>1 DEF TypeOK
    <3> QED
      BY <1>t, <1>i, <1>3, <2>3, <3>1, <3>2
      DEF ClaimExecutes, TypeOK, Vouched, Running, timers, retry
  <2>4. Vouched(s)'
    BY <1>t, <1>i, <1>3, <2>0
    DEF ClaimExecutes, Update, CanClaim, TypeOK, Vouched, Running, timers, retry
  <2> QED
    BY <2>1, <2>2, <2>3, <2>4 DEF LeaseInv
<1>4. ASSUME NEW s \in Replica, ClaimReturns(s) PROVE LeaseInv'
  <2>1. TypeOK'
    BY <1>t, <1>4 DEF ClaimReturns, SetLeading, TypeOK, row, timers, retry
  <2>2. ASSUME NEW r \in Replica PROVE Paced(r)'
    BY <1>t, <1>i, <1>4 DEF ClaimReturns, TypeOK, Paced, Running, row, timers, retry
  <2>3. ASSUME NEW r \in Replica PROVE Vouched(r)'
    BY <1>t, <1>i, <1>4
    DEF ClaimReturns, SetLeading, TypeOK, Vouched, Running, row, timers, retry
  <2> QED
    BY <2>1, <2>2, <2>3 DEF LeaseInv
<1>5. ASSUME NEW s \in Replica, ClaimFails(s) PROVE LeaseInv'
  <2>0. /\ pc' \in [Replica -> {"off", "calling", "executed", "idle", "backoff", "dead"}]
        /\ ok' \in [Replica -> BOOLEAN] /\ leading' \in [Replica -> BOOLEAN]
        /\ pass' \in [Replica -> {"none", "live", "cancelled"}]
    BY <1>t, <1>5 DEF ClaimFails, SetLeading, TypeOK
  <2>a. stray' \in [Replica -> Nat] /\ faults' \in 0..MaxFaults
    BY <1>t, <1>5 DEF ClaimFails, TypeOK
  <2>b. sleep' \in [Replica -> Nat] /\ backoff' \in [Replica -> Nat]
    <3>1. PICK b \in {InitialBackoff, backoff[s]} :
            /\ sleep' = [sleep EXCEPT ![s] = b]
            /\ backoff' = [backoff EXCEPT ![s] = IF 2 * b > MaxBackoff
                                                   THEN MaxBackoff ELSE 2 * b]
      BY <1>5 DEF ClaimFails
    <3>2. b \in Nat
      BY <1>t DEF TypeOK
    <3> QED
      BY <1>t, <3>1, <3>2 DEF TypeOK
  <2>1. TypeOK'
    BY <1>t, <1>5, <2>0, <2>a, <2>b DEF ClaimFails, TypeOK, row, timers
  <2>2. ASSUME NEW r \in Replica PROVE Paced(r)' /\ Vouched(r)'
    BY <1>t, <1>i, <1>5
    DEF ClaimFails, SetLeading, TypeOK, Paced, Vouched, Running, row, timers
  <2> QED
    BY <2>1, <2>2 DEF LeaseInv
<1>6. ASSUME NEW s \in Replica, NextAttempt(s) PROVE LeaseInv'
  <2>1. TypeOK'
    BY <1>t, <1>6 DEF NextAttempt, TypeOK, row, retry
  <2>2. ASSUME NEW r \in Replica, r # s PROVE Paced(r)' /\ Vouched(r)'
    BY <1>t, <1>i, <1>6, <2>2
    DEF NextAttempt, TypeOK, Paced, Vouched, Running, row
  <2>3. Paced(s)'
    BY <1>t, <1>6 DEF NextAttempt, TypeOK, Paced, Running
  <2>4. Vouched(s)'
    <3>1. age[s] <= RenewInterval + late[s] /\ age'[s] = 0 /\ pc'[s] = "calling"
      BY <1>t, <1>i, <1>6 DEF NextAttempt, TypeOK, Paced
    <3>2. late[s] \in 0..Delay /\ age[s] \in Nat /\ left \in Int
      BY <1>t DEF TypeOK
    <3>3. leading[s] => left + 0 + RenewInterval + Delay >= TTL
      BY <1>i, <1>6, <3>1, <3>2 DEF NextAttempt, Vouched
    <3> QED
      BY <1>i, <1>6, <3>1, <3>3 DEF NextAttempt, Vouched, Running, row
  <2> QED
    BY <2>1, <2>2, <2>3, <2>4 DEF LeaseInv
<1>7. ASSUME NEW s \in Replica, LateClaim(s) PROVE LeaseInv'
  <2>0. Update(s)
    BY <1>7 DEF LateClaim
  <2>1. TypeOK'
    BY <1>t, <1>u, <1>7, <2>0 DEF LateClaim, TypeOK, timers, retry
  <2>2. ASSUME NEW r \in Replica PROVE Paced(r)'
    BY <1>i, <1>7 DEF LateClaim, Paced, Running, timers
  <2>3. ASSUME NEW r \in Replica PROVE Vouched(r)'
    <3>1. leading[r] \/ (pc[r] = "executed" /\ ok[r]) => holder' = r /\ left' >= left
      BY <2>0, UpdateRespectsVouched
    <3>2. left \in Int /\ left' \in Int /\ age[r] \in Int
      BY <1>t, <2>1 DEF TypeOK
    <3> QED
      BY <1>i, <1>7, <3>1, <3>2 DEF LateClaim, Vouched, Running, timers
  <2> QED
    BY <2>1, <2>2, <2>3 DEF LeaseInv
<1>8. ASSUME NEW s \in Replica, Shutdown(s) \/ Crash(s) PROVE LeaseInv'
  <2>1. /\ pc' = [pc EXCEPT ![s] = "dead"] /\ leading' = [leading EXCEPT ![s] = FALSE]
        /\ \A r \in Replica : pass'[r] = "live" => pass[r] = "live" /\ r # s
        /\ UNCHANGED <<row, timers, retry>> /\ ok' = [ok EXCEPT ![s] = FALSE]
    <3>1. CASE Shutdown(s)
      BY <1>t, <1>i, <3>1 DEF Shutdown, SetLeading, TypeOK, Vouched
    <3>2. CASE Crash(s)
      BY <1>t, <3>2 DEF Crash, TypeOK
    <3> QED
      BY <1>8, <3>1, <3>2
  <2>2. /\ pass' \in [Replica -> {"none", "live", "cancelled"}]
        /\ stray' \in [Replica -> Nat] /\ faults' \in 0..MaxFaults
    <3>1. pass' \in [Replica -> {"none", "live", "cancelled"}]
      <4>1. CASE Shutdown(s)
        BY <1>t, <4>1 DEF Shutdown, SetLeading, TypeOK
      <4>2. CASE Crash(s)
        BY <1>t, <4>2 DEF Crash, TypeOK
      <4> QED
        BY <1>8, <4>1, <4>2
    <3>2. /\ faults' = faults + 1 /\ faults < MaxFaults
          /\ stray' = IF pc[s] = "calling" THEN [stray EXCEPT ![s] = @ + 1] ELSE stray
      BY <1>8 DEF Shutdown, Crash
    <3> QED
      BY <1>t, <3>1, <3>2 DEF TypeOK
  <2>3. TypeOK'
    BY <1>t, <2>1, <2>2 DEF TypeOK, row, timers, retry
  <2>4. ASSUME NEW r \in Replica PROVE Paced(r)' /\ Vouched(r)'
    BY <1>t, <1>i, <2>1 DEF TypeOK, Paced, Vouched, Running, row, timers
  <2> QED
    BY <2>3, <2>4 DEF LeaseInv
<1>9. ASSUME NEW s \in Replica, StartPass(s) \/ EndPass(s) PROVE LeaseInv'
  <2>1. TypeOK'
    BY <1>t, <1>9 DEF StartPass, EndPass, TypeOK, row, timers, retry
  <2>2. ASSUME NEW r \in Replica PROVE Paced(r)' /\ Vouched(r)'
    BY <1>t, <1>i, <1>9
    DEF StartPass, EndPass, TypeOK, Paced, Vouched, Running, row, timers, retry
  <2> QED
    BY <2>1, <2>2 DEF LeaseInv
<1>10. CASE UNCHANGED vars
  BY <1>10 DEF LeaseInv, TypeOK, Paced, Vouched, Running, vars, row, timers, retry
<1> QED
  BY <1>1, <1>2, <1>3, <1>4, <1>5, <1>6, <1>7, <1>8, <1>9, <1>10 DEF Next

\* LeaseInv holds throughout.
THEOREM LeaseInvariant == Spec => []LeaseInv
  BY LeaseInvInit, LeaseInvStep, PTL DEF Spec

\* The state of the election is always well typed (TypeOK).
THEOREM TypeCorrect == Spec => []TypeOK
<1>1. LeaseInv => TypeOK
  BY DEF LeaseInv
<1> QED
  BY <1>1, LeaseInvariant, PTL

\* A leader owns an unexpired row until it steps down (LeaderHoldsLease).
THEOREM LeaderSafety == Spec => []LeaderHoldsLease
<1>1. LeaseInv => LeaderHoldsLease
  BY VouchedRowIsLive DEF LeaderHoldsLease
<1> QED
  BY <1>1, LeaseInvariant, PTL

\* No two replicas lead at once (AtMostOneLeader).
THEOREM Exclusion == Spec => []AtMostOneLeader
<1>1. LeaderHoldsLease => AtMostOneLeader
  BY DEF LeaderHoldsLease, AtMostOneLeader
<1> QED
  BY <1>1, LeaderSafety, PTL

\* A pass that may still deploy belongs to the leader (LivePassIsLeaders).
THEOREM PassSafety == Spec => []LivePassIsLeaders
<1>1. LeaseInv => LivePassIsLeaders
  BY DEF LeaseInv, Vouched, LivePassIsLeaders
<1> QED
  BY <1>1, LeaseInvariant, PTL

\* Terms of leadership never overlap: every step of the election is a step of
\* SingleLeader or leaves its variable alone (TermsNeverOverlap).
THEOREM Refinement == Spec => TermsNeverOverlap
<1> DEFINE Leaders == {r \in Replica : leading[r]}
<1>1. Init => Terms!Init
  BY DEF Init, Terms!Init
<1>2. ASSUME LeaseInv, LeaseInv', [Next]_vars
      PROVE  [Terms!Next]_Leaders
  <2>a. \A r \in Replica : leading[r] => Leaders = {r}
    BY <1>2, VouchedRowIsLive
  <2>b. \A r \in Replica : leading'[r] => holder' = r
    BY <1>2 DEF LeaseInv, Vouched
  <2>c. leading' = leading \/ \E s \in Replica, b \in BOOLEAN : leading' = [leading EXCEPT ![s] = b]
    <3>1. CASE UNCHANGED vars
      BY <3>1 DEF vars
    <3>2. CASE Tick
      BY <3>2 DEF Tick
    <3>3. ASSUME NEW s \in Replica,
                 \/ Boot(s) \/ ClaimExecutes(s) \/ Retry(s) \/ NextAttempt(s)
                 \/ LateClaim(s) \/ StartPass(s) \/ EndPass(s)
          PROVE  leading' = leading
      BY <3>3 DEF Boot, ClaimExecutes, Retry, NextAttempt, LateClaim, StartPass, EndPass
    <3>4. ASSUME NEW s \in Replica, ClaimReturns(s)
          PROVE  leading' = [leading EXCEPT ![s] = ok[s]] /\ ok[s] \in BOOLEAN
      BY <1>2, <3>4 DEF ClaimReturns, SetLeading, LeaseInv, TypeOK
    <3>5. ASSUME NEW s \in Replica, ClaimFails(s) \/ Shutdown(s) \/ Crash(s)
          PROVE  leading' = [leading EXCEPT ![s] = FALSE]
      BY <3>5 DEF ClaimFails, Shutdown, Crash, SetLeading
    <3> QED
      BY <1>2, <3>1, <3>2, <3>3, <3>4, <3>5 DEF Next
  <2>1. CASE leading' = leading
    BY <2>1
  <2>2. ASSUME NEW s \in Replica, NEW b \in BOOLEAN, leading' = [leading EXCEPT ![s] = b]
        PROVE  [Terms!Next]_Leaders
    <3>t. leading \in [Replica -> BOOLEAN]
      BY <1>2 DEF LeaseInv, TypeOK
    <3>1. CASE leading[s] = b
      BY <2>2, <3>t, <3>1
    <3>2. CASE leading[s] /\ ~b
      <4>1. Leaders = {s} /\ Leaders' = {}
        BY <2>a, <2>2, <3>t, <3>2
      <4> QED
        BY <4>1 DEF Terms!Next, Terms!End
    <3>3. CASE ~leading[s] /\ b
      <4>1. leading'[s]
        BY <2>2, <3>t, <3>3
      <4>2. \A r \in Replica : r # s => ~leading[r]
        BY <2>b, <2>2, <3>t, <4>1
      <4>3. Leaders = {} /\ Leaders' = {s}
        BY <2>2, <3>t, <3>3, <4>1, <4>2
      <4> QED
        BY <4>3 DEF Terms!Next, Terms!Begin
    <3> QED
      BY <3>t, <3>1, <3>2, <3>3
  <2> QED
    BY <2>c, <2>1, <2>2
<1> QED
  BY <1>1, <1>2, LeaseInvariant, PTL DEF Spec, TermsNeverOverlap, Terms!Spec
=============================================================================
