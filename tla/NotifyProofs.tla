---------------------------- MODULE NotifyProofs ----------------------------
(***************************************************************************)
(* Claims on notification rows exclude each other for any rules, any       *)
(* number of evaluators and any timeouts that fit into a claim's TTL; and  *)
(* whatever is said again is said again because of a fault.                *)
(***************************************************************************)
EXTENDS Notify, FiniteSetTheorems, TLAPS

Busy == {"claim", "send", "revert", "confirm", "clear", "release"}

\* Changing a function at one place keeps its type.
LEMMA ExceptType ==
  ASSUME NEW D, NEW R, NEW f \in [D -> R], NEW x, NEW v \in R
  PROVE  [f EXCEPT ![x] = v] \in [D -> R]
  OBVIOUS

\* The sets of numbers that the variables take their values from.
LEMMA Ranges ==
  /\ 0 \in 0 .. Debounce + 1 /\ Debounce + 1 \in 0 .. Debounce + 1
  /\ 0 \in -1 .. Debounce + 1 /\ -1 \in -1 .. Debounce + 1
  /\ -1 \in -1..ClaimTTL /\ ClaimTTL \in -1..ClaimTTL
  BY ClaimAssumption

\* How long a step may take.
LEMMA LimitFacts ==
  /\ DOMAIN Limit = Busy
  /\ Limit["claim"] = Delay /\ Limit["send"] = SendTimeout + Delay
  /\ \A l \in {"revert", "confirm", "clear", "release"} : Limit[l] = WriteTimeout
  BY DEF Limit, Busy

\* Every rule's row is one of the rows.
LEMMA KeyFacts ==
  ASSUME NEW t \in Proper
  PROVE  /\ MsgKey(t) \in Key
         /\ t[1] \in Rule /\ t[2] \in 0..Len(Rules)
         /\ t[2] # 0 => SibKey(t) \in Key /\ SibKey(t) # MsgKey(t)
<1>1. t[1] \in Rule /\ t[2] \in 0..Len(Rules) /\ t[1] # t[2]
  BY DEF Proper, Task
<1>2. Len(Rules) \in Nat
  BY RulesAssumption
<1>3. t[2] # 0 => t[2] \in Rule
  BY <1>1, <1>2 DEF Rule
<1> QED
  BY <1>1, <1>3, RulesAssumption DEF MsgKey, SibKey, Key

\* What Evaluate finds to do is well formed.
LEMMA TasksProper ==
  \A h, since, failed, gated : Tasks(h, since, failed, gated) \subseteq Proper
<1> TAKE h, since, failed, gated
<1>0. Len(Rules) \in Nat /\ Allowed \subseteq Rule
  BY RulesAssumption
<1>1. ASSUME NEW i \in Allowed PROVE <<i, 0>> \in Proper
  BY <1>0, <1>1 DEF Proper, Task, Rule
<1>2. ASSUME NEW t \in Allowed \X (Allowed \cap Alerted), Rules[t[1]].on = "healthRecovered"
      PROVE  t \in Proper
  <2>1. t = <<t[1], t[2]>> /\ t[1] \in Rule /\ t[2] \in Rule
    BY <1>0
  <2>2. Rules[t[2]].on = "healthDegraded"
    BY DEF Alerted
  <2>3. t[1] # t[2]
    BY <1>2, <2>2
  <2>4. t[2] \in 0..Len(Rules)
    BY <1>0, <2>1 DEF Rule
  <2> QED
    BY <2>1, <2>3, <2>4 DEF Proper, Task
<1> QED
  BY <1>1, <1>2 DEF Tasks

\* A claim somebody still works under has not expired.
LEMMA HeldIsLive ==
  ASSUME NotifyInv, NEW e \in Evaluator, NEW k \in Holds(e)
  PROVE  claimLeft[k] >= 0 /\ ~ClaimFree(k)
<1> USE ClaimAssumption
<1>1. Sound(e) /\ pc[e] \in Busy /\ k \in Key
  BY DEF NotifyInv, Holds, Busy
<1>2. cur[e] \in Proper /\ age[e] <= Limit[pc[e]]
  BY <1>1, LimitFacts DEF Sound
<1>3. age[e] \in Nat /\ claimLeft[k] \in Int
  BY <1>1 DEF NotifyInv, TypeOK
<1>4. CASE pc[e] \in {"send", "revert", "confirm"} /\ k = MsgKey(cur[e])
  <2>1. claimLeft[k] + age[e] + MsgSpent(pc[e]) >= ClaimTTL
    BY <1>1, <1>4 DEF Sound, Covered
  <2> QED
    BY <1>2, <1>3, <1>4, <2>1, LimitFacts DEF MsgSpent, ClaimFree
<1>5. CASE Recovering(e) /\ k = SibKey(cur[e])
  <2>1. claimLeft[k] + age[e] + SibSpent(pc[e]) >= ClaimTTL
    BY <1>1, <1>5, LimitFacts DEF Sound, Covered
  <2>2. CASE pc[e] = "claim"
    BY <1>2, <1>3, <2>1, <2>2, LimitFacts DEF SibSpent, ClaimFree
  <2>3. CASE pc[e] = "send"
    BY <1>2, <1>3, <2>1, <2>3, LimitFacts DEF SibSpent, ClaimFree
  <2>4. CASE pc[e] \in {"revert", "confirm"}
    BY <1>2, <1>3, <2>1, <2>4, LimitFacts DEF SibSpent, ClaimFree
  <2>5. CASE pc[e] \in {"clear", "release"}
    BY <1>2, <1>3, <2>1, <2>5, LimitFacts DEF SibSpent, ClaimFree
  <2> QED
    BY <1>1, <2>2, <2>3, <2>4, <2>5 DEF Busy
<1> QED
  BY <1>4, <1>5 DEF Holds

\* One evaluator moves, and changes only rows it holds or nobody does: the
\* others keep what they have.
LEMMA Frame ==
  ASSUME NotifyInv, NEW e \in Evaluator, NEW S \in SUBSET Key,
         \A f \in Evaluator \ {e} : /\ pc'[f] = pc[f] /\ cur'[f] = cur[f]
                                    /\ age'[f] = age[f] /\ todo'[f] = todo[f],
         \A k \in Key \ S : claimLeft'[k] = claimLeft[k],
         \A k \in S : k \in Holds(e) \/ claimLeft[k] < 0,
         Holds(e)' \subseteq Holds(e) \cup {k \in Key : claimLeft[k] < 0},
         Sound(e)'
  PROVE  (\A f \in Evaluator : Sound(f)') /\ ClaimsExclude'
<1>1. ASSUME NEW f \in Evaluator \ {e} PROVE Holds(f)' = Holds(f)
  BY <1>1 DEF Holds, Recovering
<1>2. ASSUME NEW f \in Evaluator \ {e}, NEW k \in Holds(f)
      PROVE  k \in Key /\ claimLeft'[k] = claimLeft[k] /\ k \notin Holds(e)'
  <2>1. k \in Key /\ k \notin Holds(e)
    BY DEF NotifyInv, ClaimsExclude, Holds
  <2>2. claimLeft[k] >= 0 /\ ~ClaimFree(k)
    BY HeldIsLive
  <2>3. k \notin S
    BY <2>1, <2>2 DEF ClaimFree
  <2> QED
    BY <2>1, <2>2, <2>3 DEF ClaimFree
<1>3. ASSUME NEW f \in Evaluator \ {e} PROVE Sound(f)'
  <2>1. Sound(f)
    BY DEF NotifyInv
  <2>2. pc[f] \in {"send", "revert", "confirm"}
          => claimLeft'[MsgKey(cur[f])] = claimLeft[MsgKey(cur[f])]
    <3> HAVE pc[f] \in {"send", "revert", "confirm"}
    <3>1. cur[f] \in Proper
      BY <2>1, LimitFacts DEF Sound, Busy
    <3>2. MsgKey(cur[f]) \in Holds(f)
      BY <3>1, KeyFacts DEF Holds
    <3> QED
      BY <1>2, <3>2
  <2>3. pc[f] \in Busy /\ Recovering(f)
          => claimLeft'[SibKey(cur[f])] = claimLeft[SibKey(cur[f])]
    <3> HAVE pc[f] \in Busy /\ Recovering(f)
    <3>1. cur[f] \in Proper
      BY <2>1, LimitFacts DEF Sound
    <3>2. SibKey(cur[f]) \in Holds(f)
      BY <3>1, KeyFacts DEF Holds, Recovering, Busy
    <3> QED
      BY <1>2, <3>2
  <2> QED
    BY <2>1, <2>2, <2>3, LimitFacts DEF Sound, Covered, Recovering, MsgSpent, SibSpent
<1>4. \A f \in Evaluator : Sound(f)'
  BY <1>3
<1>5. ClaimsExclude'
  <2> SUFFICES ASSUME NEW f \in Evaluator, NEW g \in Evaluator, f # g
               PROVE  Holds(f)' \cap Holds(g)' = {}
    BY DEF ClaimsExclude
  <2>1. CASE f # e /\ g # e
    BY <1>1, <2>1 DEF NotifyInv, ClaimsExclude
  <2>2. CASE f = e
    BY <1>1, <1>2, <2>2
  <2>3. CASE g = e
    BY <1>1, <1>2, <2>3
  <2> QED
    BY <2>1, <2>2, <2>3
<1> QED
  BY <1>4, <1>5

\* Nobody claims anything at first.
LEMMA NotifyInvInit == Init => NotifyInv
<1> SUFFICES ASSUME Init PROVE NotifyInv
  OBVIOUS
<1>1. /\ elapsed \in [Key -> -1 .. Debounce + 1] /\ claimLeft \in [Key -> -1..ClaimTTL]
      /\ quiet \in [Key -> 0 .. Debounce + 1] /\ told \in [Key -> BOOLEAN]
  BY ClaimAssumption DEF Init
<1>2. TypeOK
  BY <1>1, ClaimAssumption DEF Init, TypeOK
<1>3. \A e \in Evaluator : Sound(e)
  BY LimitFacts DEF Init, Sound, Covered, Busy
<1>4. ClaimsExclude
  BY DEF Init, ClaimsExclude, Holds
<1> QED
  BY <1>2, <1>3, <1>4 DEF NotifyInv

\* The parts of TypeOK that one evaluator's step may touch, each by itself.
LEMMA GotoType ==
  ASSUME TypeOK, NEW e \in Evaluator,
         NEW l \in {"idle", "next", "claim", "send", "revert", "confirm", "clear", "release"},
         Goto(e, l)
  PROVE  /\ pc' \in [Evaluator -> {"idle", "next", "claim", "send", "revert", "confirm",
                                   "clear", "release"}]
         /\ age' \in [Evaluator -> Nat]
         /\ pc'[e] = l /\ age'[e] = 0
         /\ \A f \in Evaluator \ {e} : pc'[f] = pc[f] /\ age'[f] = age[f]
  BY DEF TypeOK, Goto

\* A fault is counted within the bound.
LEMMA FaultType ==
  ASSUME TypeOK, NEW e \in Evaluator, Fault \/ Fails(e) \/ UNCHANGED faults
  PROVE  faults' \in 0..MaxFaults
  BY ClaimAssumption DEF TypeOK, Fault, Fails

\* What is recorded of a message is well typed.
LEMMA HistoryType ==
  ASSUME TypeOK, NEW e \in Evaluator, Deliver(e) \/ UNCHANGED history
  PROVE  /\ quiet' \in [Key -> 0 .. Debounce + 1] /\ told' \in [Key -> BOOLEAN]
         /\ echoes' \in Nat /\ unowed' \in Nat
<1>1. CASE Deliver(e)
  <2>1. quiet' \in [Key -> 0 .. Debounce + 1]
    BY <1>1, Ranges, ExceptType DEF TypeOK, Deliver
  <2>2. told' \in [Key -> BOOLEAN]
    <3>1. told \in [Key -> BOOLEAN]
      BY DEF TypeOK
    <3>2. told' = IF Recovering(e) THEN [told EXCEPT ![SibKey(cur[e])] = FALSE] ELSE told
      BY <1>1 DEF Deliver
    <3> QED
      BY <3>1, <3>2, Zenon
  <2>3. echoes' \in Nat /\ unowed' \in Nat
    BY <1>1 DEF TypeOK, Deliver
  <2> QED
    BY <2>1, <2>2, <2>3
<1>2. CASE UNCHANGED history
  BY <1>2 DEF TypeOK, history
<1> QED
  BY <1>1, <1>2

\* What a write does to a row is well typed.
LEMMA WriteType ==
  ASSUME TypeOK, NEW e \in Evaluator, NEW k,
         \/ Unclaim(k) \/ Mark(e) \/ UNCHANGED <<rows, told>>
  PROVE  /\ elapsed' \in [Key -> -1 .. Debounce + 1] /\ claimLeft' \in [Key -> -1..ClaimTTL]
         /\ told' \in [Key -> BOOLEAN]
<1>1. CASE Unclaim(k)
  <2>1. elapsed' \in [Key -> -1 .. Debounce + 1] /\ claimLeft' \in [Key -> -1..ClaimTTL]
    BY <1>1, Ranges, ExceptType DEF TypeOK, Unclaim
  <2>2. told' \in [Key -> BOOLEAN]
    BY <1>1, Zenon DEF TypeOK, Unclaim
  <2> QED
    BY <2>1, <2>2
<1>2. CASE Mark(e)
  <2>1. elapsed' \in [Key -> -1 .. Debounce + 1] /\ claimLeft' \in [Key -> -1..ClaimTTL]
    BY <1>2, Ranges, ExceptType DEF TypeOK, Mark
  <2>2. told' \in [Key -> BOOLEAN]
    <3>1. told \in [Key -> BOOLEAN]
      BY DEF TypeOK
    <3>2. told' = IF Recovering(e) THEN told ELSE [told EXCEPT ![MsgKey(cur[e])] = TRUE]
      BY <1>2 DEF Mark
    <3> QED
      BY <3>1, <3>2, Zenon
  <2> QED
    BY <2>1, <2>2
<1>3. CASE UNCHANGED <<rows, told>>
  BY <1>3 DEF TypeOK, rows
<1> QED
  BY <1>1, <1>2, <1>3

\* The next task of an evaluation is well typed.
LEMMA AdvanceType ==
  ASSUME TypeOK, NEW e \in Evaluator, Advance(e) \/ UNCHANGED <<todo, cur>>
  PROVE  /\ todo' \in [Evaluator -> SUBSET Task] /\ todo'[e] \subseteq todo[e]
         /\ cur' \in [Evaluator -> Task \cup {<<>>}]
         /\ \A f \in Evaluator \ {e} : todo'[f] = todo[f] /\ cur'[f] = cur[f]
<1>1. CASE Advance(e)
  BY <1>1 DEF TypeOK, Advance
<1>2. CASE UNCHANGED <<todo, cur>>
  BY <1>2 DEF TypeOK
<1> QED
  BY <1>1, <1>2

\* An evaluator between tasks holds nothing.
LEMMA BetweenTasks ==
  ASSUME NEW e \in Evaluator, pc'[e] \in {"idle", "next"}, todo'[e] \subseteq Proper
  PROVE  Sound(e)' /\ Holds(e)' = {}
  BY LimitFacts DEF Sound, Covered, Holds, Busy

\* A call that returns in time hands its claim on to the next one.
LEMMA SiblingCarries ==
  ASSUME NotifyInv, NEW e \in Evaluator, pc[e] \in Busy, Recovering(e), NEW l \in Busy,
         claimLeft'[SibKey(cur[e])] = claimLeft[SibKey(cur[e])],
         \/ pc[e] = "claim" /\ l # "claim"
         \/ pc[e] = "send" /\ l \notin {"claim", "send"}
         \/ pc[e] \in {"revert", "confirm"} /\ l \in {"clear", "release"}
  PROVE  claimLeft'[SibKey(cur[e])] + SibSpent(l) >= ClaimTTL
<1> USE ClaimAssumption
<1>1. Sound(e) /\ age[e] \in Nat /\ cur[e] \in Proper /\ age[e] <= Limit[pc[e]]
  BY LimitFacts DEF NotifyInv, TypeOK, Sound
<1>2. SibKey(cur[e]) \in Key /\ claimLeft[SibKey(cur[e])] \in Int
  BY <1>1, KeyFacts DEF NotifyInv, TypeOK, Recovering
<1>3. claimLeft[SibKey(cur[e])] + age[e] + SibSpent(pc[e]) >= ClaimTTL
  BY <1>1, LimitFacts DEF Sound, Covered
<1>4. CASE pc[e] = "claim"
  BY <1>1, <1>2, <1>3, <1>4, LimitFacts DEF SibSpent, Busy
<1>5. CASE pc[e] = "send"
  BY <1>1, <1>2, <1>3, <1>5, LimitFacts DEF SibSpent, Busy
<1>6. CASE pc[e] \in {"revert", "confirm"}
  BY <1>1, <1>2, <1>3, <1>6, LimitFacts DEF SibSpent, Busy
<1> QED
  BY <1>4, <1>5, <1>6

\* An evaluator left with its sibling's claim only.
LEMMA OnSibling ==
  ASSUME NotifyInv, NEW e \in Evaluator, pc[e] \in {"claim", "revert", "confirm"},
         Recovering(e), NEW l \in {"clear", "release"},
         pc'[e] = l, age'[e] = 0, cur'[e] = cur[e], todo'[e] = todo[e],
         claimLeft'[SibKey(cur[e])] = claimLeft[SibKey(cur[e])]
  PROVE  Sound(e)' /\ Holds(e)' \subseteq Holds(e)
<1> USE ClaimAssumption
<1>1. Sound(e) /\ cur[e] \in Proper
  BY LimitFacts DEF NotifyInv, Sound, Busy
<1>2. SibKey(cur[e]) \in Key /\ claimLeft[SibKey(cur[e])] \in Int
  BY <1>1, KeyFacts DEF NotifyInv, TypeOK, Recovering
<1>3. claimLeft'[SibKey(cur[e])] + SibSpent(l) >= ClaimTTL
  BY SiblingCarries DEF Busy
<1>4. SibSpent(l) \in Nat
  BY DEF SibSpent
<1>5. Covered(e)'
  BY <1>2, <1>3, <1>4 DEF Covered, Recovering, SibSpent
<1>6. Sound(e)'
  BY <1>1, <1>5, LimitFacts DEF Sound, Recovering, Busy
<1>7. Holds(e)' \subseteq Holds(e)
  BY <1>1 DEF Holds, Recovering
<1> QED
  BY <1>6, <1>7

\* Evaluation begins, ends or is cut short.
LEMMA StepOutside ==
  ASSUME NotifyInv, NEW e \in Evaluator,
         \/ \E stamped \in BOOLEAN : BeginRead(e, stamped)
         \/ BeginUnread(e) \/ End(e) \/ Crash(e)
  PROVE  NotifyInv'
<1>t. TypeOK /\ Sound(e)
  BY DEF NotifyInv
<1>a. ASSUME NEW h \in {"Healthy", "Degraded", "Invalid"}, NEW stamped \in BOOLEAN,
             Begin(e, h, stamped), faults' \in 0..MaxFaults
      PROVE  NotifyInv'
  <2>1. PICK S \in SUBSET Proper : todo' = [todo EXCEPT ![e] = S]
    BY <1>a, TasksProper DEF Begin
  <2>2. Proper \subseteq Task
    BY DEF Proper
  <2>3. todo' \in [Evaluator -> SUBSET Task] /\ todo'[e] = S
        /\ \A f \in Evaluator \ {e} : todo'[f] = todo[f]
    BY <1>t, <2>1, <2>2 DEF TypeOK
  <2>4. row' \in [health : {"Healthy", "Degraded", "Invalid"}, for : Nat]
    BY <1>t, <1>a DEF TypeOK, Begin, Persist
  <2>5. /\ pc' \in [Evaluator -> {"idle", "next", "claim", "send", "revert", "confirm",
                                  "clear", "release"}]
        /\ age' \in [Evaluator -> Nat] /\ pc'[e] = "next"
        /\ \A f \in Evaluator \ {e} : pc'[f] = pc[f] /\ age'[f] = age[f]
    BY <1>t, <1>a, GotoType DEF Begin
  <2>6. seen' \in [Evaluator -> {"Healthy", "Degraded", "Invalid"}]
    BY <1>t, <1>a DEF TypeOK, Begin
  <2>7. UNCHANGED <<health, elapsed, claimLeft, cur, cancelled, quiet, told, echoes, unowed>>
    BY <1>a DEF Begin, rows, history
  <2>8. TypeOK'
    BY <1>t, <1>a, <2>3, <2>4, <2>5, <2>6, <2>7 DEF TypeOK
  <2>9. Sound(e)' /\ Holds(e)' = {}
    BY <2>3, <2>5, BetweenTasks
  <2>10. (\A f \in Evaluator : Sound(f)') /\ ClaimsExclude'
    BY <2>3, <2>5, <2>7, <2>9, Frame
  <2> QED
    BY <2>8, <2>10 DEF NotifyInv
<1>1. CASE \E stamped \in BOOLEAN : BeginRead(e, stamped)
  BY <1>t, <1>1, <1>a DEF BeginRead, TypeOK
<1>2. CASE BeginUnread(e)
  BY <1>t, <1>2, <1>a, FaultType DEF BeginUnread
<1>3. CASE End(e) \/ Crash(e)
  <2>1. /\ pc' \in [Evaluator -> {"idle", "next", "claim", "send", "revert", "confirm",
                                  "clear", "release"}]
        /\ age' \in [Evaluator -> Nat] /\ pc'[e] = "idle"
        /\ \A f \in Evaluator \ {e} : pc'[f] = pc[f] /\ age'[f] = age[f]
    BY <1>t, <1>3, GotoType DEF End, Crash
  <2>2. /\ todo' \in [Evaluator -> SUBSET Task] /\ todo'[e] = {}
        /\ \A f \in Evaluator \ {e} : todo'[f] = todo[f]
    BY <1>t, <1>3 DEF TypeOK, End, Crash
  <2>3. /\ cur' \in [Evaluator -> Task \cup {<<>>}]
        /\ \A f \in Evaluator \ {e} : cur'[f] = cur[f]
    BY <1>t, <1>3 DEF TypeOK, End, Crash
  <2>4. seen' \in [Evaluator -> {"Healthy", "Degraded", "Invalid"}]
    BY <1>t, <1>3 DEF TypeOK, End, Crash
  <2>5. cancelled' \in [Evaluator -> BOOLEAN]
    BY <1>t, <1>3, Zenon DEF TypeOK, End, Crash
  <2>6. faults' \in 0..MaxFaults
    BY <1>t, <1>3, FaultType DEF End, Crash
  <2>7. UNCHANGED <<health, row, elapsed, claimLeft, quiet, told, echoes, unowed>>
    BY <1>3 DEF End, Crash, rows, history
  <2>8. TypeOK'
    BY <1>t, <2>1, <2>2, <2>3, <2>4, <2>5, <2>6, <2>7 DEF TypeOK
  <2>9. Sound(e)' /\ Holds(e)' = {}
    BY <2>1, <2>2, BetweenTasks
  <2>10. (\A f \in Evaluator : Sound(f)') /\ ClaimsExclude'
    BY <2>1, <2>2, <2>3, <2>7, <2>9, Frame
  <2> QED
    BY <2>8, <2>10 DEF NotifyInv
<1> QED
  BY <1>1, <1>2, <1>3

\* The task a claim is for, and the row it is on.
LEMMA AtClaimFacts ==
  ASSUME NotifyInv, NEW e \in Evaluator, NEW t \in Task, AtClaim(e, t)
  PROVE  /\ t \in Proper /\ ClaimKey(e, t) \in Key
         /\ pc[e] = "next" \/ (pc[e] = "claim" /\ t = cur[e] /\ t[2] # 0)
         /\ Claimable(e, t) => claimLeft[ClaimKey(e, t)] < 0
<1>1. t \in Proper /\ (pc[e] = "next" \/ (pc[e] = "claim" /\ t = cur[e] /\ t[2] # 0))
  BY LimitFacts DEF AtClaim, NotifyInv, Sound, Recovering, Busy
<1>2. ClaimKey(e, t) \in Key
  BY <1>1, KeyFacts DEF ClaimKey
<1>3. Claimable(e, t) => claimLeft[ClaimKey(e, t)] < 0
  BY DEF Claimable, ClaimKey, ClaimFree
<1> QED
  BY <1>1, <1>2, <1>3

\* A claim succeeds.
LEMMA StepClaim ==
  ASSUME NotifyInv, NEW e \in Evaluator, NEW t \in Task, Claim(e, t)
  PROVE  NotifyInv'
<1> USE ClaimAssumption
<1> DEFINE k == ClaimKey(e, t)
<1>t. TypeOK /\ Sound(e)
  BY DEF NotifyInv
<1>1. /\ t \in Proper /\ k \in Key /\ claimLeft[k] < 0
      /\ pc[e] = "next" \/ (pc[e] = "claim" /\ t = cur[e] /\ t[2] # 0)
  BY AtClaimFacts DEF Claim
<1>2. /\ claimLeft' \in [Key -> -1..ClaimTTL] /\ claimLeft'[k] = ClaimTTL
      /\ \A j \in Key \ {k} : claimLeft'[j] = claimLeft[j]
  BY <1>t, <1>1, Ranges, ExceptType DEF Claim, TypeOK
<1>3. /\ cur' \in [Evaluator -> Task \cup {<<>>}] /\ cur'[e] = t
      /\ \A f \in Evaluator \ {e} : cur'[f] = cur[f]
  BY <1>t DEF Claim, TypeOK
<1>4. PICK l \in {"claim", "send"} :
         Goto(e, l) /\ l = IF pc[e] = "next" /\ t[2] # 0 THEN "claim" ELSE "send"
  BY DEF Claim
<1>5. /\ pc' \in [Evaluator -> {"idle", "next", "claim", "send", "revert", "confirm",
                                "clear", "release"}]
      /\ age' \in [Evaluator -> Nat] /\ pc'[e] = l /\ age'[e] = 0
      /\ \A f \in Evaluator \ {e} : pc'[f] = pc[f] /\ age'[f] = age[f]
  BY <1>t, <1>4, GotoType
<1>6. UNCHANGED <<health, row, elapsed, todo, seen, cancelled, quiet, told, echoes, unowed, faults>>
  BY DEF Claim, history
<1>7. TypeOK'
  BY <1>t, <1>2, <1>3, <1>5, <1>6 DEF TypeOK
<1>8. Covered(e)'
  <2>1. CASE l = "claim"
    <3>1. k = SibKey(t)
      BY <1>4, <2>1 DEF ClaimKey
    <3> QED
      BY <1>2, <1>3, <1>5, <2>1, <3>1 DEF Covered, SibSpent
  <2>2. CASE l = "send"
    <3>1. k = MsgKey(t)
      BY <1>4, <2>2 DEF ClaimKey
    <3>2. claimLeft'[MsgKey(t)] + age'[e] + MsgSpent("send") >= ClaimTTL
      BY <1>2, <1>5, <3>1 DEF MsgSpent
    <3>3. t[2] # 0 => claimLeft'[SibKey(t)] + age'[e] + SibSpent("send") >= ClaimTTL
      <4> HAVE t[2] # 0
      <4>1. pc[e] = "claim" /\ t = cur[e] /\ Recovering(e)
        BY <1>1, <1>4, <2>2 DEF Recovering
      <4>2. claimLeft'[SibKey(t)] = claimLeft[SibKey(t)] /\ claimLeft[SibKey(t)] \in Int
        BY <1>t, <1>1, <1>2, <3>1, KeyFacts DEF TypeOK
      <4>3. claimLeft'[SibKey(t)] + SibSpent("send") >= ClaimTTL
        BY <4>1, <4>2, SiblingCarries DEF Busy
      <4> QED
        BY <1>5, <4>2, <4>3 DEF SibSpent
    <3> QED
      BY <1>3, <1>5, <2>2, <3>2, <3>3 DEF Covered, Recovering
  <2> QED
    BY <2>1, <2>2
<1>9. Sound(e)'
  <2>1. Limit[l] \in Nat
    BY LimitFacts
  <2>2. l = "claim" => t[2] # 0
    BY <1>4
  <2> QED
    BY <1>t, <1>1, <1>3, <1>5, <1>6, <1>8, <2>1, <2>2 DEF Sound, Recovering
<1>10. Holds(e)' \subseteq Holds(e) \cup {j \in Key : claimLeft[j] < 0}
  <2>1. CASE pc[e] = "next"
    BY <1>1, <1>3, <1>4, <1>5, <2>1 DEF Holds, Recovering, ClaimKey
  <2>2. CASE pc[e] = "claim"
    BY <1>1, <1>3, <1>4, <1>5, <2>2 DEF Holds, Recovering, ClaimKey
  <2> QED
    BY <1>1, <2>1, <2>2
<1>11. (\A f \in Evaluator : Sound(f)') /\ ClaimsExclude'
  <2>1. {k} \in SUBSET Key /\ \A j \in Key \ {k} : claimLeft'[j] = claimLeft[j]
    BY <1>1, <1>2
  <2>2. \A j \in {k} : j \in Holds(e) \/ claimLeft[j] < 0
    BY <1>1
  <2> QED
    BY <1>3, <1>5, <1>6, <1>9, <1>10, <2>1, <2>2, Frame
<1> QED
  BY <1>7, <1>11 DEF NotifyInv

\* A claim is refused or fails.
LEMMA StepNoClaim ==
  ASSUME NotifyInv, NEW e \in Evaluator, NEW t \in Task,
         ClaimRefused(e, t) \/ ClaimFails(e, t)
  PROVE  NotifyInv'
<1> USE ClaimAssumption
<1> DEFINE k == ClaimKey(e, t)
<1>t. TypeOK /\ Sound(e)
  BY DEF NotifyInv
<1>0. AtClaim(e, t) /\ GiveUp(e, t)
  BY DEF ClaimRefused, ClaimFails
<1>1. /\ t \in Proper /\ k \in Key /\ (Claimable(e, t) => claimLeft[k] < 0)
      /\ pc[e] = "next" \/ (pc[e] = "claim" /\ t = cur[e] /\ t[2] # 0)
  BY <1>0, AtClaimFacts
<1>2. \/ claimLeft' = claimLeft
      \/ claimLeft[k] < 0 /\ claimLeft' = [claimLeft EXCEPT ![k] = ClaimTTL]
  BY <1>1 DEF ClaimRefused, ClaimFails, rows
<1>3. claimLeft' \in [Key -> -1..ClaimTTL]
  <2>1. claimLeft \in [Key -> -1..ClaimTTL]
    BY <1>t DEF TypeOK
  <2>2. [claimLeft EXCEPT ![k] = ClaimTTL] \in [Key -> -1..ClaimTTL]
    BY <2>1, Ranges, ExceptType
  <2> QED
    BY <1>2, <2>1, <2>2
<1>4. \E S \in SUBSET Key : /\ \A j \in Key \ S : claimLeft'[j] = claimLeft[j]
                            /\ \A j \in S : claimLeft[j] < 0
  <2>1. CASE claimLeft' = claimLeft
    <3> WITNESS {} \in SUBSET Key
    <3> QED
      BY <2>1
  <2>2. CASE claimLeft[k] < 0 /\ claimLeft' = [claimLeft EXCEPT ![k] = ClaimTTL]
    <3>1. {k} \in SUBSET Key
      BY <1>1
    <3> WITNESS {k} \in SUBSET Key
    <3> QED
      BY <1>t, <2>2 DEF TypeOK
  <2> QED
    BY <1>2, <2>1, <2>2
<1>5. UNCHANGED <<health, row, elapsed, seen, cancelled, quiet, told, echoes, unowed, cur>>
  BY <1>0 DEF ClaimRefused, ClaimFails, GiveUp, history, rows
<1>6. faults' \in 0..MaxFaults
  BY <1>t, FaultType DEF ClaimRefused, ClaimFails
<1>7. PICK l \in {"next", "release"} : Goto(e, l) /\ l = IF pc[e] = "claim" THEN "release" ELSE "next"
  BY <1>0 DEF GiveUp
<1>8. /\ pc' \in [Evaluator -> {"idle", "next", "claim", "send", "revert", "confirm",
                                "clear", "release"}]
      /\ age' \in [Evaluator -> Nat] /\ pc'[e] = l /\ age'[e] = 0
      /\ \A f \in Evaluator \ {e} : pc'[f] = pc[f] /\ age'[f] = age[f]
  BY <1>t, <1>7, GotoType
<1>9. /\ todo' \in [Evaluator -> SUBSET Task] /\ todo'[e] \subseteq todo[e]
      /\ pc[e] = "claim" => todo'[e] = todo[e]
      /\ \A f \in Evaluator \ {e} : todo'[f] = todo[f]
  <2>1. CASE pc[e] = "claim"
    BY <1>t, <1>0, <2>1 DEF GiveUp, TypeOK
  <2>2. CASE pc[e] # "claim"
    <3>1. todo \in [Evaluator -> SUBSET Task] /\ todo' = [todo EXCEPT ![e] = @ \ {t}]
      BY <1>t, <1>0, <2>2 DEF GiveUp, TypeOK
    <3> QED
      BY <2>2, <3>1
  <2> QED
    BY <2>1, <2>2
<1>10. TypeOK'
  BY <1>t, <1>3, <1>5, <1>6, <1>8, <1>9 DEF TypeOK
<1>11. Sound(e)' /\ Holds(e)' \subseteq Holds(e)
  <2>1. CASE pc[e] = "claim"
    <3>1. Recovering(e) /\ k = MsgKey(cur[e]) /\ SibKey(cur[e]) \in Key /\ SibKey(cur[e]) # k
      BY <1>1, <2>1, KeyFacts DEF Recovering, ClaimKey
    <3>2. claimLeft'[SibKey(cur[e])] = claimLeft[SibKey(cur[e])]
      BY <1>t, <1>2, <3>1 DEF TypeOK
    <3> QED
      BY <1>5, <1>7, <1>8, <1>9, <2>1, <3>1, <3>2, OnSibling
  <2>2. CASE pc[e] = "next"
    <3>1. todo'[e] \subseteq Proper
      BY <1>t, <1>9 DEF Sound
    <3> QED
      BY <1>7, <1>8, <2>2, <3>1, BetweenTasks
  <2> QED
    BY <1>1, <2>1, <2>2
<1>12. (\A f \in Evaluator : Sound(f)') /\ ClaimsExclude'
  BY <1>4, <1>5, <1>8, <1>9, <1>11, Frame
<1> QED
  BY <1>10, <1>12 DEF NotifyInv

\* A message is sent, or its sending fails: both claims go on.
LEMMA StepSend ==
  ASSUME NotifyInv, NEW e \in Evaluator, Send(e) \/ SendFails(e)
  PROVE  NotifyInv'
<1> USE ClaimAssumption
<1>t. TypeOK /\ Sound(e) /\ pc[e] = "send"
  BY DEF NotifyInv, Send, SendFails
<1>1. PICK l \in {"confirm", "revert"} : Goto(e, l)
  BY DEF Send, SendFails
<1>2. /\ pc' \in [Evaluator -> {"idle", "next", "claim", "send", "revert", "confirm",
                                "clear", "release"}]
      /\ age' \in [Evaluator -> Nat] /\ pc'[e] = l /\ age'[e] = 0
      /\ \A f \in Evaluator \ {e} : pc'[f] = pc[f] /\ age'[f] = age[f]
  BY <1>t, <1>1, GotoType
<1>3. /\ quiet' \in [Key -> 0 .. Debounce + 1] /\ told' \in [Key -> BOOLEAN]
      /\ echoes' \in Nat /\ unowed' \in Nat
  BY <1>t, HistoryType DEF Send, SendFails
<1>4. faults' \in 0..MaxFaults
  BY <1>t, FaultType DEF Send, SendFails
<1>5. UNCHANGED <<health, row, elapsed, claimLeft, todo, cur, seen, cancelled>>
  BY DEF Send, SendFails, rows
<1>6. TypeOK'
  BY <1>t, <1>2, <1>3, <1>4, <1>5 DEF TypeOK
<1>7. cur[e] \in Proper /\ age[e] <= SendTimeout + Delay /\ age[e] \in Nat
  BY <1>t, LimitFacts DEF Sound, TypeOK, Busy
<1>8. claimLeft'[MsgKey(cur[e])] + age'[e] + MsgSpent(l) >= ClaimTTL
  <2>1. claimLeft[MsgKey(cur[e])] \in Int
    BY <1>t, <1>7, KeyFacts DEF TypeOK
  <2>2. claimLeft[MsgKey(cur[e])] + age[e] >= ClaimTTL
    BY <1>t, <1>7, <2>1 DEF Sound, Covered, MsgSpent
  <2> QED
    BY <1>2, <1>5, <1>7, <2>1, <2>2 DEF MsgSpent
<1>9. Recovering(e) => claimLeft'[SibKey(cur[e])] + age'[e] + SibSpent(l) >= ClaimTTL
  <2> HAVE Recovering(e)
  <2>1. claimLeft[SibKey(cur[e])] \in Int
    BY <1>t, <1>7, KeyFacts DEF TypeOK, Recovering
  <2>2. claimLeft'[SibKey(cur[e])] + SibSpent(l) >= ClaimTTL
    BY <1>t, <1>5, SiblingCarries DEF Busy
  <2> QED
    BY <1>2, <1>5, <2>1, <2>2 DEF SibSpent
<1>10. Sound(e)'
  BY <1>t, <1>2, <1>5, <1>7, <1>8, <1>9, LimitFacts DEF Sound, Covered, Recovering
<1>11. Holds(e)' \subseteq Holds(e)
  BY <1>t, <1>2, <1>5 DEF Holds, Recovering
<1>12. (\A f \in Evaluator : Sound(f)') /\ ClaimsExclude'
  <2>1. {} \in SUBSET Key /\ \A j \in Key \ {} : claimLeft'[j] = claimLeft[j]
    BY <1>5
  <2>2. \A f \in Evaluator \ {e} : todo'[f] = todo[f] /\ cur'[f] = cur[f]
    BY <1>5
  <2> QED
    BY <1>2, <1>10, <1>11, <2>1, <2>2, Frame
<1> QED
  BY <1>6, <1>12 DEF NotifyInv

\* A detached write that ends the claim on the message's row, or fails to.
LEMMA StepMsgWrite ==
  ASSUME NotifyInv, NEW e \in Evaluator, Revert(e) \/ Confirm(e)
  PROVE  NotifyInv'
<1> USE ClaimAssumption
<1> DEFINE k == MsgKey(cur[e])
<1>t. TypeOK /\ Sound(e) /\ pc[e] \in {"revert", "confirm"}
  BY DEF NotifyInv, Revert, Confirm
<1>1. Unclaim(k) \/ Mark(e) \/ UNCHANGED <<rows, told>>
  BY DEF Revert, Confirm, Written
<1>2. /\ elapsed' \in [Key -> -1 .. Debounce + 1] /\ claimLeft' \in [Key -> -1..ClaimTTL]
      /\ told' \in [Key -> BOOLEAN]
  BY <1>t, <1>1, WriteType
<1>3. cur[e] \in Proper /\ k \in Key /\ k \in Holds(e)
  BY <1>t, LimitFacts, KeyFacts DEF Sound, Holds, Busy
<1>4. \A j \in Key \ {k} : claimLeft'[j] = claimLeft[j]
  BY <1>t, <1>1 DEF TypeOK, Unclaim, Mark, rows
<1>5. UNCHANGED <<health, row, seen, cancelled, quiet, echoes, unowed>>
  BY DEF Revert, Confirm
<1>6. faults' \in 0..MaxFaults
  BY <1>t, FaultType DEF Revert, Confirm, Written
<1>7. \/ /\ Recovering(e) /\ UNCHANGED <<todo, cur>>
         /\ \E l \in {"clear", "release"} : Goto(e, l)
      \/ Advance(e)
  BY DEF Revert, Confirm
<1>8. /\ todo' \in [Evaluator -> SUBSET Task] /\ todo'[e] \subseteq todo[e]
      /\ cur' \in [Evaluator -> Task \cup {<<>>}]
      /\ \A f \in Evaluator \ {e} : todo'[f] = todo[f] /\ cur'[f] = cur[f]
  BY <1>t, <1>7, AdvanceType
<1>9. PICK l \in {"next", "clear", "release"} :
         /\ Goto(e, l)
         /\ l # "next" => Recovering(e) /\ UNCHANGED <<todo, cur>>
  BY <1>7 DEF Advance
<1>10. /\ pc' \in [Evaluator -> {"idle", "next", "claim", "send", "revert", "confirm",
                                 "clear", "release"}]
       /\ age' \in [Evaluator -> Nat] /\ pc'[e] = l /\ age'[e] = 0
       /\ \A f \in Evaluator \ {e} : pc'[f] = pc[f] /\ age'[f] = age[f]
  BY <1>t, <1>9, GotoType
<1>11. TypeOK'
  BY <1>t, <1>2, <1>5, <1>6, <1>8, <1>10 DEF TypeOK
<1>12. Sound(e)' /\ Holds(e)' \subseteq Holds(e)
  <2>1. CASE l = "next"
    BY <1>t, <1>8, <1>10, <2>1, BetweenTasks DEF Sound
  <2>2. CASE l # "next"
    <3>1. SibKey(cur[e]) \in Key \ {k}
      BY <1>3, <1>9, <2>2, KeyFacts DEF Recovering
    <3>2. claimLeft'[SibKey(cur[e])] = claimLeft[SibKey(cur[e])]
      BY <1>4, <3>1
    <3> QED
      BY <1>t, <1>9, <1>10, <2>2, <3>2, OnSibling
  <2> QED
    BY <2>1, <2>2
<1>13. (\A f \in Evaluator : Sound(f)') /\ ClaimsExclude'
  <2>1. {k} \in SUBSET Key /\ \A j \in {k} : j \in Holds(e) \/ claimLeft[j] < 0
    BY <1>3
  <2> QED
    BY <1>4, <1>8, <1>10, <1>12, <2>1, Frame
<1> QED
  BY <1>11, <1>13 DEF NotifyInv

\* A detached write that ends the claim on the sibling's row, or fails to.
LEMMA StepSibWrite ==
  ASSUME NotifyInv, NEW e \in Evaluator, Clear(e) \/ Release(e)
  PROVE  NotifyInv'
<1> USE ClaimAssumption
<1> DEFINE k == SibKey(cur[e])
<1>t. TypeOK /\ Sound(e) /\ pc[e] \in {"clear", "release"} /\ Advance(e)
  BY DEF NotifyInv, Clear, Release
<1>1. \/ Unclaim(k) /\ quiet' = quiet
      \/ Unmark(k) /\ told' = told
      \/ UNCHANGED <<rows, told, quiet>>
  BY DEF Clear, Release, Written
<1>2. /\ elapsed' \in [Key -> -1 .. Debounce + 1] /\ claimLeft' \in [Key -> -1..ClaimTTL]
      /\ quiet' \in [Key -> 0 .. Debounce + 1] /\ told' \in [Key -> BOOLEAN]
  <2>1. CASE Unclaim(k) /\ quiet' = quiet
    BY <1>t, <2>1, WriteType DEF TypeOK
  <2>2. CASE Unmark(k) /\ told' = told
    BY <1>t, <2>2, Ranges, ExceptType DEF TypeOK, Unmark
  <2>3. CASE UNCHANGED <<rows, told, quiet>>
    BY <1>t, <2>3 DEF TypeOK, rows
  <2> QED
    BY <1>1, <2>1, <2>2, <2>3
<1>3. cur[e] \in Proper /\ k \in Key /\ k \in Holds(e)
  BY <1>t, LimitFacts, KeyFacts DEF Sound, Holds, Busy, Recovering
<1>4. \A j \in Key \ {k} : claimLeft'[j] = claimLeft[j]
  BY <1>t, <1>1 DEF TypeOK, Unclaim, Unmark, rows
<1>5. UNCHANGED <<health, row, seen, cancelled, echoes, unowed>>
  BY DEF Clear, Release
<1>6. faults' \in 0..MaxFaults
  BY <1>t, FaultType DEF Clear, Release, Written
<1>7. /\ todo' \in [Evaluator -> SUBSET Task] /\ todo'[e] \subseteq todo[e]
      /\ cur' \in [Evaluator -> Task \cup {<<>>}]
      /\ \A f \in Evaluator \ {e} : todo'[f] = todo[f] /\ cur'[f] = cur[f]
  BY <1>t, AdvanceType
<1>8. /\ pc' \in [Evaluator -> {"idle", "next", "claim", "send", "revert", "confirm",
                                "clear", "release"}]
      /\ age' \in [Evaluator -> Nat] /\ pc'[e] = "next"
      /\ \A f \in Evaluator \ {e} : pc'[f] = pc[f] /\ age'[f] = age[f]
  BY <1>t, GotoType DEF Advance
<1>9. TypeOK'
  BY <1>t, <1>2, <1>5, <1>6, <1>7, <1>8 DEF TypeOK
<1>10. Sound(e)' /\ Holds(e)' = {}
  BY <1>t, <1>7, <1>8, BetweenTasks DEF Sound
<1>11. (\A f \in Evaluator : Sound(f)') /\ ClaimsExclude'
  <2>1. {k} \in SUBSET Key /\ \A j \in {k} : j \in Holds(e) \/ claimLeft[j] < 0
    BY <1>3
  <2> QED
    BY <1>4, <1>7, <1>8, <1>10, <2>1, Frame
<1> QED
  BY <1>9, <1>11 DEF NotifyInv

\* Time passes: no call outlasts its timeout, so no claim is left behind.
LEMMA StepTick ==
  ASSUME NotifyInv, Tick PROVE NotifyInv'
<1> USE ClaimAssumption
<1>t. TypeOK
  BY DEF NotifyInv
<1>1. UNCHANGED <<health, pc, todo, cur, seen, cancelled, told, echoes, unowed, faults>>
  BY DEF Tick
<1>2. row' \in [health : {"Healthy", "Degraded", "Invalid"}, for : Nat]
  <2>1. row \in [health : {"Healthy", "Degraded", "Invalid"}, for : Nat]
    BY <1>t DEF TypeOK
  <2>2. PICK n \in {row.for, row.for + 1} : row' = [row EXCEPT !.for = n]
    BY DEF Tick
  <2> QED
    BY <2>1, <2>2
<1>3. elapsed' \in [Key -> -1 .. Debounce + 1]
  <2>1. ASSUME NEW k \in Key
        PROVE  (IF elapsed[k] \in 0..Debounce THEN elapsed[k] + 1 ELSE elapsed[k])
                 \in -1 .. Debounce + 1
    <3>1. elapsed[k] \in -1 .. Debounce + 1
      BY <1>t DEF TypeOK
    <3> QED
      BY <3>1
  <2>2. elapsed' = [k \in Key |-> IF elapsed[k] \in 0..Debounce THEN elapsed[k] + 1
                                                                ELSE elapsed[k]]
    BY DEF Tick
  <2> QED
    BY <2>1, <2>2
<1>c. ASSUME NEW k \in Key
      PROVE  /\ claimLeft[k] \in -1..ClaimTTL
             /\ claimLeft'[k] = IF claimLeft[k] < 0 THEN -1 ELSE claimLeft[k] - 1
  BY <1>t, <1>c, Zenon DEF TypeOK, Tick
<1>4. claimLeft' \in [Key -> -1..ClaimTTL]
  <2>1. ASSUME NEW k \in Key PROVE claimLeft'[k] \in -1..ClaimTTL
    BY <1>c
  <2>2. claimLeft' = [k \in Key |-> claimLeft'[k]]
    BY DEF Tick
  <2> QED
    BY <2>1, <2>2
<1>5. quiet' \in [Key -> 0 .. Debounce + 1]
  <2>1. ASSUME NEW k \in Key
        PROVE  (IF quiet[k] <= Debounce THEN quiet[k] + 1 ELSE quiet[k]) \in 0 .. Debounce + 1
    <3>1. quiet[k] \in 0 .. Debounce + 1
      BY <1>t DEF TypeOK
    <3> QED
      BY <3>1
  <2>2. quiet' = [k \in Key |-> IF quiet[k] <= Debounce THEN quiet[k] + 1 ELSE quiet[k]]
    BY DEF Tick
  <2> QED
    BY <2>1, <2>2
<1>6. age' \in [Evaluator -> Nat]
  BY <1>t DEF TypeOK, Tick
<1>7. TypeOK'
  BY <1>t, <1>1, <1>2, <1>3, <1>4, <1>5, <1>6 DEF TypeOK
<1>8. ASSUME NEW e \in Evaluator PROVE Sound(e)'
  <2>1. CASE pc[e] \notin Busy
    BY <1>1, <2>1, LimitFacts DEF NotifyInv, Sound, Covered, Busy
  <2>2. CASE pc[e] \in Busy
    <3>1. Sound(e) /\ cur[e] \in Proper /\ age[e] \in Nat /\ Limit[pc[e]] \in Nat
      BY <1>t, <2>2, LimitFacts DEF NotifyInv, TypeOK, Sound, Busy
    <3>2. age'[e] = age[e] + 1 /\ age[e] < Limit[pc[e]]
      BY <2>2, LimitFacts DEF Tick
    <3>3. ASSUME NEW k \in Key PROVE claimLeft'[k] >= claimLeft[k] - 1 /\ claimLeft'[k] \in Int
                                    /\ claimLeft[k] \in Int
      BY <1>c
    <3>4. pc[e] \in {"send", "revert", "confirm"}
            => claimLeft'[MsgKey(cur[e])] + age'[e] + MsgSpent(pc[e]) >= ClaimTTL
      <4> HAVE pc[e] \in {"send", "revert", "confirm"}
      <4>1. MsgKey(cur[e]) \in Key /\ MsgSpent(pc[e]) \in Nat
        BY <3>1, KeyFacts DEF MsgSpent
      <4>2. claimLeft[MsgKey(cur[e])] + age[e] + MsgSpent(pc[e]) >= ClaimTTL
        BY <3>1 DEF Sound, Covered
      <4> QED
        BY <3>1, <3>2, <3>3, <4>1, <4>2
    <3>5. Recovering(e) => claimLeft'[SibKey(cur[e])] + age'[e] + SibSpent(pc[e]) >= ClaimTTL
      <4> HAVE Recovering(e)
      <4>1. SibKey(cur[e]) \in Key /\ SibSpent(pc[e]) \in Nat
        BY <3>1, KeyFacts DEF SibSpent, Recovering
      <4>2. claimLeft[SibKey(cur[e])] + age[e] + SibSpent(pc[e]) >= ClaimTTL
        BY <2>2, <3>1, LimitFacts DEF Sound, Covered
      <4> QED
        BY <3>1, <3>2, <3>3, <4>1, <4>2
    <3>6. Covered(e)'
      BY <1>1, <3>4, <3>5 DEF Covered, Recovering
    <3> QED
      BY <1>1, <3>1, <3>2, <3>6, LimitFacts DEF Sound, Recovering
  <2> QED
    BY <2>1, <2>2
<1>9. ClaimsExclude'
  BY <1>1 DEF NotifyInv, ClaimsExclude, Holds, Recovering
<1> QED
  BY <1>7, <1>8, <1>9 DEF NotifyInv

\* Steps that leave rows and evaluators alone.
LEMMA StepAside ==
  ASSUME NotifyInv,
         Turn \/ (\E e \in Evaluator : Cancel(e)) \/ UNCHANGED vars
  PROVE  NotifyInv'
<1>t. TypeOK
  BY DEF NotifyInv
<1>1. UNCHANGED <<row, elapsed, claimLeft, pc, todo, cur, seen, age, quiet, told, echoes, unowed>>
  BY DEF Turn, Cancel, vars, rows, history
<1>2. health' \in {"Healthy", "Degraded"}
  BY <1>t DEF Turn, Cancel, vars, TypeOK
<1>3. cancelled' \in [Evaluator -> BOOLEAN]
  BY <1>t, Zenon DEF Turn, Cancel, vars, TypeOK
<1>4. faults' \in 0..MaxFaults
  BY <1>t, ClaimAssumption DEF Turn, Cancel, vars, TypeOK, Fault
<1>5. TypeOK'
  BY <1>t, <1>1, <1>2, <1>3, <1>4 DEF TypeOK
<1>6. \A e \in Evaluator : Sound(e)'
  BY <1>1 DEF NotifyInv, Sound, Covered, Recovering
<1>7. ClaimsExclude'
  BY <1>1 DEF NotifyInv, ClaimsExclude, Holds, Recovering
<1> QED
  BY <1>5, <1>6, <1>7 DEF NotifyInv

\* The inductive invariant: claims are exclusive, and each has enough left for
\* the calls its evaluator still has to make.
THEOREM NotifyInvariant == Spec => []NotifyInv
<1>1. NotifyInv /\ [Next]_vars => NotifyInv'
  <2> SUFFICES ASSUME NotifyInv, [Next]_vars PROVE NotifyInv'
    OBVIOUS
  <2>1. ASSUME NEW e \in Evaluator, Step(e) PROVE NotifyInv'
    BY <2>1, StepClaim, StepNoClaim, StepSend, StepMsgWrite, StepSibWrite, StepOutside
       DEF Step
  <2>2. CASE Next
    BY <2>1, <2>2, StepTick, StepAside, StepOutside DEF Next
  <2>3. CASE UNCHANGED vars
    BY <2>3, StepAside
  <2> QED
    BY <2>2, <2>3
<1> QED
  BY <1>1, NotifyInvInit, PTL DEF Spec

\* Every reachable state is well typed.
THEOREM TypeCorrect == Spec => []TypeOK
<1>1. NotifyInv => TypeOK
  BY DEF NotifyInv
<1> QED
  BY <1>1, NotifyInvariant, PTL

\* Whatever the rules, evaluators and timeouts (that fit the claim's TTL), no
\* two evaluators work on the same rule's row at once.
THEOREM ClaimExclusion == Spec => []ClaimsExclude
<1>1. NotifyInv => ClaimsExclude
  BY DEF NotifyInv
<1> QED
  BY <1>1, NotifyInvariant, PTL

-----------------------------------------------------------------------------
\* A task is to alert, or to answer an alert of another rule by a recovery.
Meant == {t \in Proper : t[2] = 0 \/ (t[2] \in Alerted /\ t[1] \notin Alerted)}

\* What a claim was made for still holds when the message goes out.
Ready(e) ==
  /\ todo[e] \subseteq Meant /\ (pc[e] \in Busy => cur[e] \in Meant)
  /\ pc[e] = "send" => Quiet(MsgKey(cur[e]))
  /\ pc[e] \in {"claim", "send"} /\ Recovering(e) => elapsed[SibKey(cur[e])] >= 0

\* Rows that do not show the last message, which nobody is about to write.
Marking(k) == \E e \in Evaluator : pc[e] = "confirm" /\ MsgKey(cur[e]) = k
Unmarked ==
  {k \in Key : /\ quiet[k] <= Debounce /\ (elapsed[k] = -1 \/ elapsed[k] > quiet[k])
               /\ ~Marking(k)}

\* Alerts on record that have been answered, which nobody is about to clear.
Clearing(k) ==
  \E e \in Evaluator : pc[e] \in {"confirm", "clear"} /\ Recovering(e) /\ SibKey(cur[e]) = k
Answered ==
  {k \in {Rules[i].key : i \in Alerted} : elapsed[k] >= 0 /\ ~told[k] /\ ~Clearing(k)}

\* Evaluators that may deliver what they take for failed.
Cut == {e \in Evaluator : pc[e] = "send" /\ cancelled[e]}

\* n repetitions, and those that A and R make possible, have their faults.
Paid(n, A, R, f) ==
  IsFiniteSet(A) /\ IsFiniteSet(R) /\ n + Cardinality(A) + Cardinality(R) <= f

EchoInv ==
  /\ \A e \in Evaluator : Ready(e)
  /\ Paid(echoes, Unmarked, Cut, faults)
  /\ Paid(unowed, Answered, Cut, faults)

\* Cardinalities of a set that lost or gained at most one element.
LEMMA NoMore ==
  ASSUME NEW A, IsFiniteSet(A), NEW B, B \subseteq A
  PROVE  /\ IsFiniteSet(B) /\ Cardinality(B) <= Cardinality(A)
         /\ Cardinality(A) \in Nat /\ Cardinality(B) \in Nat
<1>1. IsFiniteSet(B) /\ Cardinality(B) <= Cardinality(A)
  BY FS_Subset
<1>2. Cardinality(A) \in Nat
  BY FS_CardinalityType
<1>3. Cardinality(B) \in Nat
  BY <1>1, FS_CardinalityType
<1> QED
  BY <1>1, <1>2, <1>3

\* A set that gained an element counts one more at most.
LEMMA OneMore ==
  ASSUME NEW A, IsFiniteSet(A), NEW B, NEW x, B \subseteq A \cup {x}
  PROVE  /\ IsFiniteSet(B) /\ Cardinality(B) <= Cardinality(A) + 1
         /\ Cardinality(A) \in Nat /\ Cardinality(B) \in Nat
<1>0. Cardinality(A) \in Nat
  BY FS_CardinalityType
<1>a. /\ IsFiniteSet(A \cup {x})
      /\ Cardinality(A \cup {x}) = IF x \in A THEN Cardinality(A) ELSE Cardinality(A) + 1
  BY FS_AddElement
<1>1. IsFiniteSet(A \cup {x}) /\ Cardinality(A \cup {x}) <= Cardinality(A) + 1
  BY <1>0, <1>a
<1>2. /\ IsFiniteSet(B) /\ Cardinality(B) <= Cardinality(A \cup {x})
      /\ Cardinality(A \cup {x}) \in Nat /\ Cardinality(B) \in Nat
  BY <1>1, NoMore
<1> QED
  BY <1>0, <1>1, <1>2

\* A set that lost an element counts one less.
LEMMA OneLess ==
  ASSUME NEW A, IsFiniteSet(A), NEW B, NEW x \in A, B \subseteq A \ {x}
  PROVE  /\ IsFiniteSet(B) /\ Cardinality(B) + 1 <= Cardinality(A)
         /\ Cardinality(A) \in Nat /\ Cardinality(B) \in Nat
<1>0. Cardinality(A) \in Nat
  BY FS_CardinalityType
<1>1. IsFiniteSet(A \ {x}) /\ Cardinality(A \ {x}) = Cardinality(A) - 1
  BY FS_RemoveElement
<1>2. /\ IsFiniteSet(B) /\ Cardinality(B) <= Cardinality(A \ {x})
      /\ Cardinality(A \ {x}) \in Nat /\ Cardinality(B) \in Nat
  BY <1>1, NoMore
<1> QED
  BY <1>0, <1>1, <1>2

\* A step that makes nothing possible is paid for,
LEMMA PaidStill ==
  ASSUME NEW n \in Nat, NEW f \in Nat, NEW g \in Nat, f <= g, NEW A, NEW B, NEW R, NEW S,
         Paid(n, A, R, f), B \subseteq A, S \subseteq R
  PROVE  Paid(n, B, S, g)
<1>1. IsFiniteSet(A) /\ IsFiniteSet(R)
  BY DEF Paid
<1>2. /\ IsFiniteSet(B) /\ Cardinality(B) <= Cardinality(A)
      /\ Cardinality(A) \in Nat /\ Cardinality(B) \in Nat
  BY <1>1, NoMore
<1>3. /\ IsFiniteSet(S) /\ Cardinality(S) <= Cardinality(R)
      /\ Cardinality(R) \in Nat /\ Cardinality(S) \in Nat
  BY <1>1, NoMore
<1> QED
  BY <1>2, <1>3 DEF Paid

\* a fault pays for one possibility,
LEMMA PaidByFault ==
  ASSUME NEW n \in Nat, NEW f \in Nat, NEW A, NEW B, NEW R, NEW S, NEW x,
         Paid(n, A, R, f),
         \/ B \subseteq A \cup {x} /\ S \subseteq R
         \/ B \subseteq A /\ S \subseteq R \cup {x}
  PROVE  Paid(n, B, S, f + 1)
<1>1. IsFiniteSet(A) /\ IsFiniteSet(R)
  BY DEF Paid
<1>2. CASE B \subseteq A \cup {x} /\ S \subseteq R
  <2>1. /\ IsFiniteSet(B) /\ Cardinality(B) <= Cardinality(A) + 1
        /\ Cardinality(A) \in Nat /\ Cardinality(B) \in Nat
    BY <1>1, <1>2, OneMore
  <2>2. /\ IsFiniteSet(S) /\ Cardinality(S) <= Cardinality(R)
        /\ Cardinality(R) \in Nat /\ Cardinality(S) \in Nat
    BY <1>1, <1>2, NoMore
  <2> QED
    BY <2>1, <2>2 DEF Paid
<1>3. CASE B \subseteq A /\ S \subseteq R \cup {x}
  <2>1. /\ IsFiniteSet(S) /\ Cardinality(S) <= Cardinality(R) + 1
        /\ Cardinality(R) \in Nat /\ Cardinality(S) \in Nat
    BY <1>1, <1>3, OneMore
  <2>2. /\ IsFiniteSet(B) /\ Cardinality(B) <= Cardinality(A)
        /\ Cardinality(A) \in Nat /\ Cardinality(B) \in Nat
    BY <1>1, <1>3, NoMore
  <2> QED
    BY <2>1, <2>2 DEF Paid
<1> QED
  BY <1>2, <1>3

\* or for one repetition,
LEMMA PaidAtOnce ==
  ASSUME NEW n \in Nat, NEW f \in Nat, NEW A, NEW B, NEW R, NEW S,
         Paid(n, A, R, f), B \subseteq A, S \subseteq R
  PROVE  Paid(n + 1, B, S, f + 1)
<1>1. Paid(n, B, S, f)
  BY PaidStill
<1>2. Cardinality(B) \in Nat /\ Cardinality(S) \in Nat
  BY <1>1, FS_CardinalityType DEF Paid
<1> QED
  BY <1>1, <1>2 DEF Paid

\* a repetition that was possible has been paid for,
LEMMA PaidBefore ==
  ASSUME NEW n \in Nat, NEW f \in Nat, NEW A, NEW B, NEW R, NEW S, NEW x,
         Paid(n, A, R, f),
         \/ x \in A /\ B \subseteq A \ {x} /\ S \subseteq R
         \/ x \in R /\ B \subseteq A /\ S \subseteq R \ {x}
  PROVE  Paid(n + 1, B, S, f)
<1>1. IsFiniteSet(A) /\ IsFiniteSet(R)
  BY DEF Paid
<1>2. CASE x \in A /\ B \subseteq A \ {x} /\ S \subseteq R
  <2>1. /\ IsFiniteSet(B) /\ Cardinality(B) + 1 <= Cardinality(A)
        /\ Cardinality(A) \in Nat /\ Cardinality(B) \in Nat
    BY <1>1, <1>2, OneLess
  <2>2. /\ IsFiniteSet(S) /\ Cardinality(S) <= Cardinality(R)
        /\ Cardinality(R) \in Nat /\ Cardinality(S) \in Nat
    BY <1>1, <1>2, NoMore
  <2> QED
    BY <2>1, <2>2 DEF Paid
<1>3. CASE x \in R /\ B \subseteq A /\ S \subseteq R \ {x}
  <2>1. /\ IsFiniteSet(S) /\ Cardinality(S) + 1 <= Cardinality(R)
        /\ Cardinality(R) \in Nat /\ Cardinality(S) \in Nat
    BY <1>1, <1>3, OneLess
  <2>2. /\ IsFiniteSet(B) /\ Cardinality(B) <= Cardinality(A)
        /\ Cardinality(A) \in Nat /\ Cardinality(B) \in Nat
    BY <1>1, <1>3, NoMore
  <2> QED
    BY <2>1, <2>2 DEF Paid
<1> QED
  BY <1>2, <1>3

\* and so has one possibility in exchange for another.
LEMMA PaidInExchange ==
  ASSUME NEW n \in Nat, NEW f \in Nat, NEW A, NEW B, NEW R, NEW S, NEW x, NEW y \in R,
         Paid(n, A, R, f), B \subseteq A \cup {x}, S \subseteq R \ {y}
  PROVE  Paid(n, B, S, f)
<1>1. IsFiniteSet(A) /\ IsFiniteSet(R)
  BY DEF Paid
<1>2. /\ IsFiniteSet(B) /\ Cardinality(B) <= Cardinality(A) + 1
      /\ Cardinality(A) \in Nat /\ Cardinality(B) \in Nat
  BY <1>1, OneMore
<1>3. /\ IsFiniteSet(S) /\ Cardinality(S) + 1 <= Cardinality(R)
      /\ Cardinality(R) \in Nat /\ Cardinality(S) \in Nat
  BY <1>1, OneLess
<1> QED
  BY <1>2, <1>3 DEF Paid

-----------------------------------------------------------------------------
\* What Evaluate finds to do is meant.
LEMMA TasksMeant ==
  \A h, since, failed, gated : Tasks(h, since, failed, gated) \subseteq Meant
<1> TAKE h, since, failed, gated
<1>1. Tasks(h, since, failed, gated) \subseteq Proper
  BY TasksProper
<1>2. ASSUME NEW t \in Tasks(h, since, failed, gated)
      PROVE  t[2] = 0 \/ (t[2] \in Alerted /\ t[1] \notin Alerted)
  <2>1. CASE \E i \in Allowed : t = <<i, 0>>
    BY <2>1
  <2>2. CASE t \in Allowed \X (Allowed \cap Alerted) /\ Rules[t[1]].on = "healthRecovered"
    BY <2>2 DEF Alerted
  <2> QED
    BY <2>1, <2>2 DEF Tasks
<1> QED
  BY <1>1, <1>2 DEF Meant

\* The row of a recovery is not that of an alert.
LEMMA MeantKeys ==
  ASSUME NEW t \in Meant
  PROVE  /\ t \in Proper /\ MsgKey(t) \in Key
         /\ t[2] # 0 => /\ SibKey(t) \in {Rules[i].key : i \in Alerted} /\ SibKey(t) \in Key
                        /\ MsgKey(t) \notin {Rules[i].key : i \in Alerted}
<1>1. t \in Proper /\ MsgKey(t) \in Key /\ t[1] \in Rule /\ (t[2] # 0 => SibKey(t) \in Key)
  BY KeyFacts DEF Meant
<1>2. t[2] # 0 => t[2] \in Alerted /\ t[1] \notin Alerted
  BY DEF Meant
<1>3. \A i \in Alerted : i \in Rule /\ (Rules[i].key = Rules[t[1]].key => i = t[1])
  BY <1>1, RulesAssumption DEF Alerted
<1> QED
  BY <1>1, <1>2, <1>3 DEF MsgKey, SibKey

\* An evaluator stays ready while others write only rows of theirs.
LEMMA ReadyFrame ==
  ASSUME NotifyInv, \A f \in Evaluator : Ready(f), NEW e \in Evaluator,
         \A f \in Evaluator \ {e} : pc'[f] = pc[f] /\ cur'[f] = cur[f] /\ todo'[f] = todo[f],
         \A k \in Key : k \notin Holds(e) => elapsed'[k] = elapsed[k],
         Ready(e)'
  PROVE  \A f \in Evaluator : Ready(f)'
<1> SUFFICES ASSUME NEW f \in Evaluator \ {e} PROVE Ready(f)'
  OBVIOUS
<1>1. Ready(f) /\ pc'[f] = pc[f] /\ cur'[f] = cur[f] /\ todo'[f] = todo[f]
  OBVIOUS
<1>2. \A k \in Holds(f) : elapsed'[k] = elapsed[k]
  BY DEF NotifyInv, ClaimsExclude, Holds
<1>3. pc[f] = "send" => elapsed'[MsgKey(cur[f])] = elapsed[MsgKey(cur[f])]
  BY <1>1, <1>2, MeantKeys DEF Ready, Holds, Busy
<1>4. pc[f] \in {"claim", "send"} /\ Recovering(f)
        => elapsed'[SibKey(cur[f])] = elapsed[SibKey(cur[f])]
  BY <1>1, <1>2, MeantKeys DEF Ready, Holds, Busy, Recovering
<1> QED
  BY <1>1, <1>3, <1>4 DEF Ready, Quiet, Recovering

\* A row that a step leaves as it is makes a repetition possible only if it
\* did before, or if e was about to write it and is not any more.
LEMMA UnmarkedFrame ==
  ASSUME NEW e \in Evaluator,
         \A f \in Evaluator \ {e} : pc'[f] = pc[f] /\ cur'[f] = cur[f],
         NEW k, k \in Unmarked', elapsed'[k] = elapsed[k], quiet'[k] = quiet[k],
         ~(pc[e] = "confirm" /\ MsgKey(cur[e]) = k)
  PROVE  k \in Unmarked
<1>1. ~Marking(k)
  BY DEF Unmarked, Marking
<1> QED
  BY <1>1 DEF Unmarked

\* The answered alerts after a step that leaves the rows alone.
LEMMA AnsweredFrame ==
  ASSUME NEW e \in Evaluator,
         \A f \in Evaluator \ {e} : pc'[f] = pc[f] /\ cur'[f] = cur[f],
         NEW k, k \in Answered', elapsed'[k] = elapsed[k], told'[k] = told[k],
         ~(pc[e] \in {"confirm", "clear"} /\ Recovering(e) /\ SibKey(cur[e]) = k)
  PROVE  k \in Answered
<1>1. ~Clearing(k)
  BY DEF Answered, Clearing, Recovering
<1> QED
  BY <1>1 DEF Answered

\* A step of an evaluator that neither sends nor is about to write.
LEMMA EasyStep ==
  ASSUME NotifyInv, NotifyInv', EchoInv, NEW e \in Evaluator,
         \A f \in Evaluator \ {e} :
           pc'[f] = pc[f] /\ cur'[f] = cur[f] /\ todo'[f] = todo[f] /\ cancelled'[f] = cancelled[f],
         UNCHANGED <<elapsed, quiet, told, echoes, unowed>>, faults' >= faults,
         pc[e] \notin {"send", "confirm", "clear"},
         pc'[e] = "send" => ~cancelled'[e],
         Ready(e)'
  PROVE  EchoInv'
<1>1. \A f \in Evaluator : Ready(f)'
  BY ReadyFrame DEF EchoInv
<1>2. Unmarked' \subseteq Unmarked
  BY UnmarkedFrame
<1>3. Answered' \subseteq Answered
  BY AnsweredFrame
<1>4. Cut' \subseteq Cut
  BY DEF Cut
<1>5. echoes \in Nat /\ unowed \in Nat /\ faults \in Nat /\ faults' \in Nat
  BY ClaimAssumption DEF NotifyInv, TypeOK
<1>6. Paid(echoes, Unmarked', Cut', faults') /\ Paid(unowed, Answered', Cut', faults')
  BY <1>2, <1>3, <1>4, <1>5, PaidStill DEF EchoInv
<1> QED
  BY <1>1, <1>6 DEF EchoInv, Paid

\* Faults are only added.
LEMMA FaultsGrow ==
  ASSUME TypeOK, NEW e \in Evaluator, Fault \/ Fails(e) \/ UNCHANGED faults
  PROVE  faults' >= faults /\ faults \in Nat
<1>1. faults \in Nat /\ (faults' = faults \/ faults' = faults + 1)
  BY ClaimAssumption DEF TypeOK, Fault, Fails
<1> QED
  BY <1>1

\* Evaluation begins or ends: nothing is repeated.
LEMMA EchoOutside ==
  ASSUME NotifyInv, NotifyInv', EchoInv, NEW e \in Evaluator,
         \/ \E stamped \in BOOLEAN : BeginRead(e, stamped)
         \/ BeginUnread(e) \/ End(e)
  PROVE  EchoInv'
<1>t. TypeOK /\ Ready(e)
  BY DEF NotifyInv, EchoInv
<1>1. UNCHANGED <<elapsed, quiet, told, echoes, unowed, cur>>
  BY DEF BeginRead, BeginUnread, Begin, End, rows, history
<1>2. faults' >= faults
  BY <1>t, FaultsGrow DEF BeginRead, BeginUnread, End
<1>3. pc[e] \in {"idle", "next"} /\ \E l \in {"idle", "next"} : Goto(e, l)
  BY DEF BeginRead, BeginUnread, Begin, End
<1>4. pc'[e] \in {"idle", "next"} /\ \A f \in Evaluator \ {e} : pc'[f] = pc[f]
  BY <1>t, <1>3 DEF Goto, TypeOK
<1>5. todo'[e] \subseteq Meant /\ \A f \in Evaluator \ {e} : todo'[f] = todo[f]
  <2>1. CASE \E h, stamped : Begin(e, h, stamped)
    <3>1. PICK h, stamped : Begin(e, h, stamped)
      BY <2>1
    <3>2. PICK failed \in BOOLEAN, gated \in BOOLEAN :
            todo' = [todo EXCEPT ![e] =
                       Tasks(h, IF stamped THEN row'.for ELSE -1, failed, gated)]
      BY <3>1, Zenon DEF Begin
    <3>3. PICK S : S = Tasks(h, IF stamped THEN row'.for ELSE -1, failed, gated)
      OBVIOUS
    <3>4. S \subseteq Meant
      BY <3>3, TasksMeant, Zenon
    <3>5. todo' = [todo EXCEPT ![e] = S]
      BY <3>2, <3>3, Zenon
    <3> QED
      BY <1>t, <3>4, <3>5 DEF TypeOK
  <2>2. CASE End(e)
    BY <1>t, <2>2 DEF End, Ready
  <2> QED
    BY <2>1, <2>2 DEF BeginRead, BeginUnread
<1>6. Ready(e)'
  BY <1>4, <1>5 DEF Ready, Busy
<1>7. \A f \in Evaluator \ {e} : cancelled'[f] = cancelled[f]
  <2>1. cancelled' = cancelled \/ cancelled' = [cancelled EXCEPT ![e] = FALSE]
    BY Zenon DEF BeginRead, BeginUnread, Begin, End
  <2> QED
    BY <1>t, <2>1, Zenon DEF TypeOK
<1> QED
  BY <1>1, <1>2, <1>3, <1>4, <1>5, <1>6, <1>7, EasyStep

\* A claim is made for what is due, by an evaluator that is not cut off.
LEMMA EchoClaim ==
  ASSUME NotifyInv, NotifyInv', EchoInv, NEW e \in Evaluator, NEW t \in Task, Claim(e, t)
  PROVE  EchoInv'
<1>t. TypeOK /\ Ready(e)
  BY DEF NotifyInv, EchoInv
<1>1. UNCHANGED <<elapsed, quiet, told, echoes, unowed, todo, cancelled, faults>>
  BY DEF Claim, history
<1>2. /\ pc[e] \in {"next", "claim"} /\ t \in Meant
      /\ pc[e] = "claim" => t = cur[e]
  BY <1>t DEF Claim, AtClaim, Ready, Busy
<1>3. PICK l \in {"claim", "send"} :
        Goto(e, l) /\ l = IF pc[e] = "next" /\ t[2] # 0 THEN "claim" ELSE "send"
  BY DEF Claim
<1>4. pc'[e] = l /\ \A f \in Evaluator \ {e} : pc'[f] = pc[f]
  BY <1>t, <1>3 DEF Goto, TypeOK
<1>5. cur'[e] = t /\ \A f \in Evaluator \ {e} : cur'[f] = cur[f]
  BY <1>t DEF Claim, TypeOK
<1>6. Ready(e)'
  <2>1. l = "claim" => elapsed[SibKey(t)] >= 0
    BY <1>3 DEF Claim, Claimable
  <2>2. l = "send" => Quiet(MsgKey(t))
    BY <1>3 DEF Claim, Claimable
  <2>3. l = "send" /\ t[2] # 0 => elapsed[SibKey(t)] >= 0
    BY <1>t, <1>2, <1>3 DEF Ready, Recovering
  <2> QED
    BY <1>t, <1>1, <1>2, <1>4, <1>5, <2>1, <2>2, <2>3 DEF Ready, Busy, Quiet, Recovering
<1>7. ~cancelled'[e]
  BY <1>1, Zenon DEF Claim, Alive
<1>8. faults' >= faults
  BY <1>t, <1>1, FaultsGrow
<1> QED
  BY <1>1, <1>2, <1>4, <1>5, <1>6, <1>7, <1>8, EasyStep

\* Without a claim, and after a write that frees a row, nothing is repeated.
LEMMA EchoNoClaim ==
  ASSUME NotifyInv, NotifyInv', EchoInv, NEW e \in Evaluator,
         \/ \E t \in Task : ClaimRefused(e, t) \/ ClaimFails(e, t)
         \/ Revert(e) \/ Release(e)
  PROVE  EchoInv'
<1>t. TypeOK /\ Ready(e)
  BY DEF NotifyInv, EchoInv
<1>1. UNCHANGED <<elapsed, quiet, told, echoes, unowed, cancelled>>
  BY DEF ClaimRefused, ClaimFails, Revert, Release, Written, Unclaim, rows, history
<1>2. faults' >= faults
  BY <1>t, FaultsGrow DEF ClaimRefused, ClaimFails, Revert, Release, Written
<1>3. PICK l \in {"next", "release"} :
        /\ Goto(e, l) /\ (l = "next" \/ cur' = cur)
        /\ cur' = cur \/ cur' = [cur EXCEPT ![e] = <<>>]
        /\ todo' = todo \/ \E x : todo' = [todo EXCEPT ![e] = @ \ {x}]
  BY DEF ClaimRefused, ClaimFails, GiveUp, Revert, Release, Advance
<1>4. pc[e] \in {"next", "claim", "revert", "release"}
  BY DEF ClaimRefused, ClaimFails, AtClaim, Revert, Release
<1>5. pc'[e] = l /\ \A f \in Evaluator \ {e} : pc'[f] = pc[f]
  BY <1>t, <1>3 DEF Goto, TypeOK
<1>6. /\ todo'[e] \subseteq todo[e]
      /\ \A f \in Evaluator \ {e} : cur'[f] = cur[f] /\ todo'[f] = todo[f]
  BY <1>t, <1>3 DEF TypeOK
<1>7. l = "release" => pc[e] \in Busy /\ cur'[e] = cur[e]
  <2>1. l = "release" => pc[e] # "next"
    BY <1>t, <1>3 DEF ClaimRefused, ClaimFails, GiveUp, Revert, Release, Goto, TypeOK
  <2> QED
    BY <1>3, <1>4, <2>1 DEF Busy
<1>8. Ready(e)'
  BY <1>t, <1>5, <1>6, <1>7 DEF Ready, Busy
<1> QED
  BY <1>1, <1>2, <1>4, <1>5, <1>6, <1>8, EasyStep

\* A delivery about x is paid for: x was counted if it is a repetition; after
\* it x is about to be written, or there was a fault, or the evaluator y was
\* counted as cut off.
LEMMA PaidDelivery ==
  ASSUME NEW n \in Nat, NEW f \in Nat, NEW m, NEW g, NEW A, NEW B, NEW R, NEW S, NEW x, NEW y,
         Paid(n, A, R, f), B \subseteq A \cup {x}, S \subseteq R,
         (m = n + 1 /\ x \in A) \/ m = n,
         \/ g = f /\ x \notin B
         \/ g = f + 1
         \/ g = f /\ y \in R /\ S \subseteq R \ {y}
  PROVE  Paid(m, B, S, g)
<1>1. CASE m = n + 1 /\ x \in A
  <2>0. B \subseteq A
    BY <1>1
  <2>1. CASE g = f /\ x \notin B
    <3>1. B \subseteq A \ {x}
      BY <2>0, <2>1
    <3> QED
      BY <1>1, <2>1, <3>1, PaidBefore
  <2>2. CASE g = f + 1
    BY <1>1, <2>0, <2>2, PaidAtOnce
  <2>3. CASE g = f /\ y \in R /\ S \subseteq R \ {y}
    BY <1>1, <2>0, <2>3, PaidBefore
  <2> QED
    BY <2>1, <2>2, <2>3
<1>2. CASE m = n
  <2>1. CASE g = f /\ x \notin B
    <3>1. B \subseteq A /\ f <= g /\ g \in Nat
      BY <2>1
    <3> QED
      BY <1>2, <3>1, PaidStill
  <2>2. CASE g = f + 1
    BY <1>2, <2>2, PaidByFault
  <2>3. CASE g = f /\ y \in R /\ S \subseteq R \ {y}
    BY <1>2, <2>3, PaidInExchange
  <2> QED
    BY <2>1, <2>2, <2>3
<1> QED
  BY <1>1, <1>2

\* A message goes out, or is taken for failed.
LEMMA EchoSend ==
  ASSUME NotifyInv, NotifyInv', EchoInv, NEW e \in Evaluator, Send(e) \/ SendFails(e)
  PROVE  EchoInv'
<1> DEFINE k == MsgKey(cur[e])
           s == SibKey(cur[e])
<1>t. TypeOK /\ Ready(e) /\ pc[e] = "send"
  BY DEF NotifyInv, EchoInv, Send, SendFails
<1>n. echoes \in Nat /\ unowed \in Nat /\ faults \in Nat
  BY <1>t, ClaimAssumption DEF TypeOK
<1>0. UNCHANGED <<elapsed, todo, cur, cancelled>>
  BY DEF Send, SendFails, rows
<1>1. PICK l \in {"confirm", "revert"} :
        /\ Goto(e, l)
        /\ \/ l = "confirm" /\ faults' = faults /\ Deliver(e)
           \/ l = "revert" /\ Fails(e) /\ (Deliver(e) \/ UNCHANGED history)
  BY DEF Send, SendFails
<1>2. pc'[e] = l /\ \A f \in Evaluator \ {e} : pc'[f] = pc[f]
  BY <1>t, <1>1 DEF Goto, TypeOK
<1>3. /\ cur[e] \in Meant /\ k \in Key /\ k \in Holds(e) /\ Quiet(k)
      /\ Recovering(e) => /\ s \in Key /\ s \in Holds(e) /\ elapsed[s] >= 0
                          /\ s \in {Rules[i].key : i \in Alerted}
  <2>1. cur[e] \in Meant /\ Quiet(k) /\ (Recovering(e) => elapsed[s] >= 0)
    BY <1>t DEF Ready, Busy
  <2>2. k \in Key /\ (Recovering(e) => s \in Key /\ s \in {Rules[i].key : i \in Alerted})
    BY <2>1, MeantKeys DEF Recovering
  <2> QED
    BY <1>t, <2>1, <2>2 DEF Holds
<1>4. \A f \in Evaluator : Ready(f)'
  <2>1. Ready(e)'
    BY <1>t, <1>0, <1>2, <1>3 DEF Ready
  <2> QED
    BY <1>0, <1>2, <2>1, ReadyFrame DEF EchoInv
<1>5. Cut' \subseteq Cut \ {e}
  BY <1>0, <1>2 DEF Cut
<1>6. \/ l = "confirm" /\ faults' = faults
      \/ l = "revert" /\ faults' = faults + 1
      \/ l = "revert" /\ faults' = faults /\ e \in Cut
  BY <1>t, <1>1 DEF Fails, Fault, Cut
<1>7. faults' \in Nat /\ faults <= faults'
  BY <1>n, <1>6
<1>8. ~Marking(k) /\ (Recovering(e) => ~Clearing(s))
  <2>1. ~Marking(k)
    <3> SUFFICES ASSUME NEW f \in Evaluator, pc[f] = "confirm", MsgKey(cur[f]) = k PROVE FALSE
      BY DEF Marking
    <3>1. k \in Holds(f)
      BY <1>3 DEF Holds
    <3> QED
      BY <1>t, <1>3, <3>1 DEF NotifyInv, ClaimsExclude
  <2>2. ASSUME Recovering(e), NEW f \in Evaluator, pc[f] \in {"confirm", "clear"}, Recovering(f),
               SibKey(cur[f]) = s
        PROVE  FALSE
    <3>1. s \in Holds(f) /\ s \in Holds(e)
      BY <1>3, <2>2 DEF Holds
    <3>2. f = e
      BY <3>1 DEF NotifyInv, ClaimsExclude
    <3> QED
      BY <1>t, <2>2, <3>2
  <2> QED
    BY <2>1, <2>2 DEF Clearing
<1>9. CASE UNCHANGED history
  <2>1. UNCHANGED <<quiet, told, echoes, unowed>>
    BY <1>9 DEF history
  <2>2. Unmarked' \subseteq Unmarked
    BY <1>t, <1>0, <1>2, <2>1, UnmarkedFrame
  <2>3. Answered' \subseteq Answered
    BY <1>t, <1>0, <1>2, <2>1, AnsweredFrame
  <2>4. Cut' \subseteq Cut
    BY <1>5
  <2>5. Paid(echoes, Unmarked', Cut', faults') /\ Paid(unowed, Answered', Cut', faults')
    BY <1>n, <1>7, <2>2, <2>3, <2>4, PaidStill DEF EchoInv
  <2> QED
    BY <1>4, <2>1, <2>5 DEF EchoInv, Paid
<1>10. CASE Deliver(e)
  <2>1. /\ quiet'[k] = 0 /\ \A j \in Key : j # k => quiet'[j] = quiet[j]
        /\ echoes' = IF quiet[k] <= Debounce THEN echoes + 1 ELSE echoes
    BY <1>t, <1>3, <1>10 DEF Deliver, TypeOK
  <2>2. ASSUME NEW j, j \in Unmarked' PROVE j \in Unmarked \cup {k}
    <3>1. j \in Key
      BY <2>2 DEF Unmarked
    <3> QED
      BY <1>t, <1>0, <1>2, <2>1, <2>2, <3>1, UnmarkedFrame
  <2>3. l = "confirm" => k \notin Unmarked'
    BY <1>0, <1>2 DEF Unmarked, Marking
  <2>4. quiet[k] <= Debounce => k \in Unmarked
    <3>1. quiet[k] \in Nat /\ elapsed[k] \in Int
      BY <1>t, <1>3 DEF TypeOK
    <3> QED
      BY <1>3, <1>8, <3>1, ClaimAssumption DEF Unmarked, Quiet
  <2>5. Paid(echoes', Unmarked', Cut', faults')
    <3>1. /\ Unmarked' \subseteq Unmarked \cup {k} /\ Cut' \subseteq Cut
          /\ Paid(echoes, Unmarked, Cut, faults)
      BY <1>5, <2>2 DEF EchoInv
    <3>2. (echoes' = echoes + 1 /\ k \in Unmarked) \/ echoes' = echoes
      BY <2>1, <2>4
    <3>3. \/ faults' = faults /\ k \notin Unmarked'
          \/ faults' = faults + 1
          \/ faults' = faults /\ e \in Cut /\ Cut' \subseteq Cut \ {e}
      BY <1>5, <1>6, <2>3
    <3> HIDE DEF k
    <3> QED
      BY <1>n, <3>1, <3>2, <3>3, PaidDelivery
  <2>6. Paid(unowed', Answered', Cut', faults')
    <3>1. CASE ~Recovering(e)
      <4>1. told' = told /\ unowed' = unowed
        BY <1>10, <3>1 DEF Deliver
      <4>2. Answered' \subseteq Answered
        BY <1>t, <1>0, <1>2, <4>1, AnsweredFrame
      <4> QED
        BY <1>n, <1>5, <1>7, <4>1, <4>2, PaidStill DEF EchoInv
    <3>2. CASE Recovering(e)
      <4>1. told' = [told EXCEPT ![s] = FALSE] /\ told \in [Key -> BOOLEAN]
        BY <1>t, <1>10, <3>2 DEF Deliver, TypeOK
      <4>2. ~told'[s] /\ \A j \in Key : j # s => told'[j] = told[j]
        BY <1>3, <3>2, <4>1, Zenon
      <4>3. ASSUME NEW j, j \in Answered' PROVE j \in Answered \cup {s}
        <5>1. j \in Key
          BY <4>3 DEF Answered, Key, Alerted
        <5> QED
          BY <1>t, <1>0, <1>2, <4>2, <4>3, <5>1, AnsweredFrame
      <4>4. l = "confirm" => s \notin Answered'
        BY <1>0, <1>2, <3>2 DEF Answered, Clearing, Recovering
      <4>5. ~told[s] => s \in Answered
        BY <1>3, <1>8, <3>2 DEF Answered
      <4>6. unowed' = unowed \/ (unowed' = unowed + 1 /\ ~told[s])
        BY <1>10, Zenon DEF Deliver
      <4>7. /\ Answered' \subseteq Answered \cup {s} /\ Cut' \subseteq Cut
            /\ Paid(unowed, Answered, Cut, faults)
        BY <1>5, <4>3 DEF EchoInv
      <4>8. (unowed' = unowed + 1 /\ s \in Answered) \/ unowed' = unowed
        BY <4>5, <4>6, Zenon
      <4>9. \/ faults' = faults /\ s \notin Answered'
            \/ faults' = faults + 1
            \/ faults' = faults /\ e \in Cut /\ Cut' \subseteq Cut \ {e}
        BY <1>5, <1>6, <4>4
      <4> HIDE DEF s
      <4> QED
        BY <1>n, <4>7, <4>8, <4>9, PaidDelivery
    <3> QED
      BY <3>1, <3>2
  <2> QED
    BY <1>4, <2>5, <2>6 DEF EchoInv, Paid
<1> QED
  BY <1>1, <1>9, <1>10

\* A confirmation marks the row, or is a fault.
LEMMA EchoConfirm ==
  ASSUME NotifyInv, NotifyInv', EchoInv, NEW e \in Evaluator, Confirm(e)
  PROVE  EchoInv'
<1> DEFINE k == MsgKey(cur[e])
           s == SibKey(cur[e])
<1>t. TypeOK /\ Ready(e) /\ pc[e] = "confirm"
  BY DEF NotifyInv, EchoInv, Confirm
<1>n. echoes \in Nat /\ unowed \in Nat /\ faults \in Nat
  BY <1>t, ClaimAssumption DEF TypeOK
<1>0. UNCHANGED <<quiet, echoes, unowed, cancelled>>
  BY DEF Confirm
<1>1. /\ Mark(e) \/ UNCHANGED <<elapsed, told>>
      /\ \/ faults' = faults /\ Mark(e)
            /\ (Recovering(e) => Goto(e, "clear") /\ UNCHANGED <<todo, cur>>)
         \/ faults' = faults + 1
      /\ Advance(e) \/ (UNCHANGED <<todo, cur>> /\ \E l \in {"clear", "release"} : Goto(e, l))
  BY DEF Confirm, rows, Fault
<1>2. /\ pc'[e] \in {"next", "clear", "release"} /\ todo'[e] \subseteq todo[e]
      /\ pc'[e] # "next" => cur'[e] = cur[e]
      /\ \A f \in Evaluator \ {e} : pc'[f] = pc[f] /\ cur'[f] = cur[f] /\ todo'[f] = todo[f]
  <2>1. PICK l \in {"next", "clear", "release"} : Goto(e, l) /\ (l = "next" \/ UNCHANGED cur)
    BY <1>1 DEF Advance
  <2>2. pc'[e] = l /\ \A f \in Evaluator \ {e} : pc'[f] = pc[f]
    BY <1>t, <2>1 DEF Goto, TypeOK
  <2>3. todo'[e] \subseteq todo[e] /\ \A f \in Evaluator \ {e} : todo'[f] = todo[f] /\ cur'[f] = cur[f]
    BY <1>t, <1>1, AdvanceType
  <2> QED
    BY <2>1, <2>2, <2>3
<1>3. /\ cur[e] \in Meant /\ k \in Key /\ k \in Holds(e)
      /\ Recovering(e) => k \notin {Rules[i].key : i \in Alerted}
  <2>1. cur[e] \in Meant
    BY <1>t DEF Ready, Busy
  <2>2. k \in Key /\ (Recovering(e) => k \notin {Rules[i].key : i \in Alerted})
    BY <2>1, MeantKeys DEF Recovering
  <2> QED
    BY <1>t, <2>1, <2>2 DEF Holds
<1>4. /\ \A j \in Key : j # k => elapsed'[j] = elapsed[j]
      /\ Mark(e) => elapsed'[k] = 0
  BY <1>t, <1>1, <1>3 DEF Mark, TypeOK
<1>5. \A f \in Evaluator : Ready(f)'
  <2>0. todo[e] \subseteq Meant /\ cur[e] \in Meant
    BY <1>t, <1>3 DEF Ready
  <2>1. Ready(e)'
    BY <1>2, <2>0 DEF Ready, Busy
  <2> QED
    BY <1>2, <1>3, <1>4, <2>1, ReadyFrame DEF EchoInv
<1>6. Cut' \subseteq Cut
  BY <1>0, <1>2 DEF Cut
<1>7. Paid(echoes, Unmarked', Cut', faults')
  <2>1. ASSUME NEW j, j \in Unmarked', j # k PROVE j \in Unmarked
    <3>1. j \in Key
      BY <2>1 DEF Unmarked
    <3> QED
      BY <1>0, <1>2, <1>4, <2>1, <3>1, UnmarkedFrame
  <2>2. CASE Mark(e) /\ faults' = faults
    <3>1. quiet'[k] \in Nat
      BY <1>t, <1>0, <1>3 DEF TypeOK
    <3>2. k \notin Unmarked'
      BY <1>4, <2>2, <3>1 DEF Unmarked
    <3>3. Unmarked' \subseteq Unmarked /\ faults' \in Nat /\ faults <= faults'
      BY <1>n, <2>1, <2>2, <3>2
    <3> QED
      BY <1>n, <1>6, <3>3, PaidStill DEF EchoInv
  <2>3. CASE faults' = faults + 1
    <3>1. Unmarked' \subseteq Unmarked \cup {k} /\ Paid(echoes, Unmarked, Cut, faults)
      BY <2>1 DEF EchoInv
    <3> HIDE DEF k
    <3> QED
      BY <1>n, <1>6, <2>3, <3>1, PaidByFault
  <2> QED
    BY <1>1, <2>2, <2>3
<1>8. Paid(unowed, Answered', Cut', faults')
  <2>0. ASSUME NEW j \in {Rules[i].key : i \in Alerted} PROVE j \in Key
    BY <2>0 DEF Key, Alerted
  <2>1. CASE ~Recovering(e)
    <3>1. ASSUME NEW j, j \in Answered' PROVE j \in Answered
      <4>0. j \in Key
        BY <2>0, <3>1 DEF Answered
      <4>1. CASE Mark(e)
        <5>1. told' = [told EXCEPT ![k] = TRUE] /\ told \in [Key -> BOOLEAN]
          BY <1>t, <2>1, <4>1 DEF Mark, TypeOK
        <5>2. told'[k] /\ (j # k => told'[j] = told[j])
          BY <1>3, <4>0, <5>1, Zenon
        <5>3. j # k
          BY <3>1, <5>2, Zenon DEF Answered
        <5> QED
          BY <1>2, <1>4, <2>1, <3>1, <4>0, <5>2, <5>3, AnsweredFrame
      <4>2. CASE UNCHANGED <<elapsed, told>>
        BY <1>2, <2>1, <3>1, <4>2, AnsweredFrame
      <4> QED
        BY <1>1, <4>1, <4>2
    <3>2. Answered' \subseteq Answered /\ faults' \in Nat /\ faults <= faults'
      BY <1>n, <1>1, <3>1
    <3> QED
      BY <1>n, <1>6, <3>2, PaidStill DEF EchoInv
  <2>2. CASE Recovering(e)
    <3>1. told' = told
      BY <1>1, <2>2 DEF Mark
    <3>2. ASSUME NEW j, j \in Answered', j # s PROVE j \in Answered
      <4>1. j \in Key /\ j # k
        BY <1>3, <2>0, <2>2, <3>2 DEF Answered
      <4> QED
        BY <1>2, <1>4, <3>1, <3>2, <4>1, AnsweredFrame
    <3>3. CASE faults' = faults /\ Goto(e, "clear") /\ UNCHANGED <<todo, cur>>
      <4>1. pc'[e] = "clear" /\ cur'[e] = cur[e]
        BY <1>t, <3>3 DEF Goto, TypeOK
      <4>2. s \notin Answered'
        BY <2>2, <4>1 DEF Answered, Clearing, Recovering
      <4>3. Answered' \subseteq Answered /\ faults' \in Nat /\ faults <= faults'
        BY <1>n, <3>2, <3>3, <4>2
      <4> QED
        BY <1>n, <1>6, <4>3, PaidStill DEF EchoInv
    <3>4. CASE faults' = faults + 1
      <4>1. Answered' \subseteq Answered \cup {s} /\ Paid(unowed, Answered, Cut, faults)
        BY <3>2 DEF EchoInv
      <4> HIDE DEF s
      <4> QED
        BY <1>n, <1>6, <3>4, <4>1, PaidByFault
    <3> QED
      BY <1>1, <2>2, <3>3, <3>4
  <2> QED
    BY <2>1, <2>2
<1> QED
  BY <1>0, <1>5, <1>7, <1>8 DEF EchoInv, Paid

\* A recovery clears its sibling, or that is a fault.
LEMMA EchoClear ==
  ASSUME NotifyInv, NotifyInv', EchoInv, NEW e \in Evaluator, Clear(e)
  PROVE  EchoInv'
<1> DEFINE s == SibKey(cur[e])
<1>t. TypeOK /\ Ready(e) /\ pc[e] = "clear" /\ Recovering(e) /\ Advance(e)
  BY DEF NotifyInv, EchoInv, Clear, Sound
<1>n. echoes \in Nat /\ unowed \in Nat /\ faults \in Nat
  BY <1>t, ClaimAssumption DEF TypeOK
<1>0. UNCHANGED <<told, echoes, unowed, cancelled>>
  BY DEF Clear
<1>1. \/ Unmark(s) /\ (faults' = faults \/ faults' = faults + 1)
      \/ UNCHANGED <<elapsed, quiet>> /\ faults' = faults + 1
  BY DEF Clear, rows, Fault
<1>2. /\ pc'[e] = "next" /\ todo'[e] \subseteq todo[e]
      /\ \A f \in Evaluator \ {e} : pc'[f] = pc[f] /\ cur'[f] = cur[f] /\ todo'[f] = todo[f]
  <2>1. pc'[e] = "next" /\ \A f \in Evaluator \ {e} : pc'[f] = pc[f]
    BY <1>t DEF Advance, Goto, TypeOK
  <2>2. todo'[e] \subseteq todo[e] /\ \A f \in Evaluator \ {e} : todo'[f] = todo[f] /\ cur'[f] = cur[f]
    BY <1>t, AdvanceType
  <2> QED
    BY <2>1, <2>2
<1>3. s \in Key /\ s \in Holds(e)
  <2>1. cur[e] \in Meant
    BY <1>t DEF Ready, Busy
  <2>2. s \in Key
    BY <1>t, <2>1, MeantKeys DEF Recovering
  <2> QED
    BY <1>t, <2>2 DEF Holds
<1>4. /\ \A j \in Key : j # s => elapsed'[j] = elapsed[j] /\ quiet'[j] = quiet[j]
      /\ Unmark(s) => elapsed'[s] = -1 /\ quiet'[s] = Debounce + 1
  BY <1>t, <1>1, <1>3 DEF Unmark, TypeOK
<1>5. \A f \in Evaluator : Ready(f)'
  <2>1. Ready(e)'
    BY <1>t, <1>2 DEF Ready, Busy
  <2> QED
    BY <1>2, <1>3, <1>4, <2>1, ReadyFrame DEF EchoInv
<1>6. Cut' \subseteq Cut
  BY <1>0, <1>2 DEF Cut
<1>7. faults' \in Nat /\ faults <= faults'
  BY <1>n, <1>1
<1>8. Paid(echoes, Unmarked', Cut', faults')
  <2>1. ASSUME NEW j, j \in Unmarked' PROVE j \in Unmarked
    <3>1. j \in Key /\ quiet'[j] <= Debounce
      BY <2>1 DEF Unmarked
    <3>2. ~(j = s /\ Unmark(s))
      BY <1>4, <3>1, ClaimAssumption
    <3>3. elapsed'[j] = elapsed[j] /\ quiet'[j] = quiet[j]
      BY <1>1, <1>4, <3>1, <3>2
    <3> QED
      BY <1>t, <1>2, <2>1, <3>3, UnmarkedFrame
  <2>2. Unmarked' \subseteq Unmarked
    BY <2>1
  <2> QED
    BY <1>n, <1>6, <1>7, <2>2, PaidStill DEF EchoInv
<1>9. Paid(unowed, Answered', Cut', faults')
  <2>1. ASSUME NEW j, j \in Answered', j # s PROVE j \in Answered
    <3>1. j \in Key
      BY <2>1 DEF Answered, Key, Alerted
    <3> QED
      BY <1>0, <1>2, <1>4, <2>1, <3>1, AnsweredFrame
  <2>2. CASE Unmark(s)
    <3>1. s \notin Answered'
      BY <1>4, <2>2 DEF Answered
    <3>2. Answered' \subseteq Answered
      BY <2>1, <3>1
    <3> QED
      BY <1>n, <1>6, <1>7, <3>2, PaidStill DEF EchoInv
  <2>3. CASE faults' = faults + 1
    <3>1. Answered' \subseteq Answered \cup {s} /\ Paid(unowed, Answered, Cut, faults)
      BY <2>1 DEF EchoInv
    <3> HIDE DEF s
    <3> QED
      BY <1>n, <1>6, <2>3, <3>1, PaidByFault
  <2> QED
    BY <1>1, <2>2, <2>3
<1> QED
  BY <1>0, <1>5, <1>8, <1>9 DEF EchoInv, Paid

\* A crash is a fault: it leaves at most one row of each kind behind.
LEMMA EchoCrash ==
  ASSUME NotifyInv, NotifyInv', EchoInv, NEW e \in Evaluator, Crash(e)
  PROVE  EchoInv'
<1>t. TypeOK
  BY DEF NotifyInv
<1>n. echoes \in Nat /\ unowed \in Nat /\ faults \in Nat /\ faults' = faults + 1
  BY <1>t, ClaimAssumption DEF TypeOK, Crash, Fault
<1>0. UNCHANGED <<elapsed, quiet, told, echoes, unowed>>
  BY DEF Crash, rows, history
<1>1. /\ pc'[e] = "idle" /\ todo'[e] = {}
      /\ \A f \in Evaluator \ {e} : pc'[f] = pc[f] /\ cur'[f] = cur[f] /\ todo'[f] = todo[f]
  BY <1>t DEF Crash, Goto, TypeOK
<1>2. \A f \in Evaluator \ {e} : cancelled'[f] = cancelled[f]
  BY <1>t, Zenon DEF Crash, TypeOK
<1>3. \A f \in Evaluator : Ready(f)'
  <2>1. Ready(e)'
    BY <1>1 DEF Ready, Busy
  <2> QED
    BY <1>0, <1>1, <2>1, ReadyFrame DEF EchoInv
<1>4. Cut' \subseteq Cut
  BY <1>1, <1>2 DEF Cut
<1>5. PICK k, s : k = MsgKey(cur[e]) /\ s = SibKey(cur[e])
  OBVIOUS
<1>6. Unmarked' \subseteq Unmarked \cup {k}
  BY <1>0, <1>1, <1>5, UnmarkedFrame
<1>7. Answered' \subseteq Answered \cup {s}
  BY <1>0, <1>1, <1>5, AnsweredFrame
<1>8. Paid(echoes, Unmarked', Cut', faults') /\ Paid(unowed, Answered', Cut', faults')
  BY <1>n, <1>4, <1>6, <1>7, PaidByFault DEF EchoInv
<1> QED
  BY <1>0, <1>3, <1>8 DEF EchoInv, Paid

\* A cancellation is a fault: it cuts off one evaluator.
LEMMA EchoAside ==
  ASSUME NotifyInv, NotifyInv', EchoInv,
         Turn \/ (\E e \in Evaluator : Cancel(e)) \/ UNCHANGED vars
  PROVE  EchoInv'
<1>t. TypeOK
  BY DEF NotifyInv
<1>n. echoes \in Nat /\ unowed \in Nat /\ faults \in Nat
  BY <1>t, ClaimAssumption DEF TypeOK
<1>0. UNCHANGED <<elapsed, quiet, told, echoes, unowed, pc, cur, todo>>
  BY DEF Turn, Cancel, vars, rows, history
<1>1. \A f \in Evaluator : Ready(f)'
  BY <1>0 DEF EchoInv, Ready, Quiet, Recovering
<1>2. Unmarked' = Unmarked
  BY <1>0 DEF Unmarked, Marking
<1>3. Answered' = Answered
  BY <1>0 DEF Answered, Clearing, Recovering
<1>4. CASE UNCHANGED <<cancelled, faults>>
  <2>1. Cut' = Cut
    BY <1>0, <1>4 DEF Cut
  <2> QED
    BY <1>0, <1>1, <1>2, <1>3, <1>4, <2>1 DEF EchoInv, Paid
<1>5. ASSUME NEW e \in Evaluator, Cancel(e) PROVE EchoInv'
  <2>1. faults' = faults + 1
    BY <1>5 DEF Cancel, Fault
  <2>2. \A f \in Evaluator \ {e} : cancelled'[f] = cancelled[f]
    BY <1>t, <1>5, Zenon DEF Cancel, TypeOK
  <2>3. Cut' \subseteq Cut \cup {e}
    BY <1>0, <2>2 DEF Cut
  <2>4. Paid(echoes, Unmarked', Cut', faults') /\ Paid(unowed, Answered', Cut', faults')
    BY <1>n, <1>2, <1>3, <2>1, <2>3, PaidByFault DEF EchoInv
  <2> QED
    BY <1>0, <1>1, <2>4 DEF EchoInv, Paid
<1> QED
  BY <1>4, <1>5 DEF Turn, vars

\* Time passes for a row and its message alike.
LEMMA EchoTick ==
  ASSUME NotifyInv, NotifyInv', EchoInv, Tick
  PROVE  EchoInv'
<1>t. TypeOK
  BY DEF NotifyInv
<1>0. UNCHANGED <<pc, cur, todo, cancelled, told, echoes, unowed, faults>>
  BY DEF Tick
<1>1. ASSUME NEW k \in Key
      PROVE  /\ elapsed[k] \in -1 .. Debounce + 1 /\ quiet[k] \in 0 .. Debounce + 1
             /\ elapsed'[k] = IF elapsed[k] \in 0..Debounce THEN elapsed[k] + 1 ELSE elapsed[k]
             /\ quiet'[k] = IF quiet[k] <= Debounce THEN quiet[k] + 1 ELSE quiet[k]
  BY <1>t, <1>1, Zenon DEF TypeOK, Tick
<1>2. ASSUME NEW k \in Key
      PROVE  /\ elapsed'[k] >= 0 <=> elapsed[k] >= 0
             /\ Quiet(k) => Quiet(k)'
             /\ quiet'[k] <= Debounce /\ (elapsed'[k] = -1 \/ elapsed'[k] > quiet'[k])
                  => quiet[k] <= Debounce /\ (elapsed[k] = -1 \/ elapsed[k] > quiet[k])
  BY <1>1, ClaimAssumption DEF Quiet
<1>3. ASSUME NEW e \in Evaluator PROVE Ready(e)'
  <2>1. Ready(e)
    BY DEF EchoInv
  <2>2. pc[e] = "send" => MsgKey(cur[e]) \in Key
    BY <2>1, MeantKeys DEF Ready, Busy
  <2>3. pc[e] \in {"claim", "send"} /\ Recovering(e) => SibKey(cur[e]) \in Key
    BY <2>1, MeantKeys DEF Ready, Busy, Recovering
  <2> QED
    BY <1>0, <1>2, <2>1, <2>2, <2>3 DEF Ready, Quiet, Recovering
<1>4. Unmarked' \subseteq Unmarked
  BY <1>0, <1>2 DEF Unmarked, Marking
<1>5. Answered' \subseteq Answered
  <2>1. \A k \in {Rules[i].key : i \in Alerted} : k \in Key
    BY DEF Key, Alerted
  <2> QED
    BY <1>0, <1>2, <2>1 DEF Answered, Clearing, Recovering
<1>6. Cut' = Cut
  BY <1>0 DEF Cut
<1>7. echoes \in Nat /\ unowed \in Nat /\ faults \in Nat /\ faults <= faults
  BY <1>t, ClaimAssumption DEF TypeOK
<1>8. Paid(echoes, Unmarked', Cut', faults) /\ Paid(unowed, Answered', Cut', faults)
  BY <1>4, <1>5, <1>6, <1>7, PaidStill DEF EchoInv
<1> QED
  BY <1>0, <1>3, <1>8 DEF EchoInv, Paid

\* Nothing is owed at the start.
LEMMA EchoInvInit == Init => EchoInv
<1> SUFFICES ASSUME Init PROVE EchoInv
  OBVIOUS
<1>1. \A e \in Evaluator : Ready(e)
  BY DEF Init, Ready, Busy
<1>2. Unmarked = {} /\ Cut = {}
  BY ClaimAssumption DEF Init, Unmarked, Cut
<1>3. Answered = {}
  <2>1. \A k \in {Rules[i].key : i \in Alerted} : elapsed[k] = -1
    BY DEF Init, Key, Alerted
  <2> QED
    BY <2>1 DEF Answered
<1>4. IsFiniteSet({}) /\ Cardinality({}) = 0
  BY FS_EmptySet
<1>5. echoes = 0 /\ unowed = 0 /\ faults = 0
  BY DEF Init
<1> QED
  BY <1>1, <1>2, <1>3, <1>4, <1>5 DEF EchoInv, Paid

\* Every repetition, and every row or cut-off evaluator that makes one
\* possible, has a fault of its own.
THEOREM EchoInvariant == Spec => []EchoInv
<1>1. NotifyInv /\ NotifyInv' /\ EchoInv /\ [Next]_vars => EchoInv'
  <2> SUFFICES ASSUME NotifyInv, NotifyInv', EchoInv, [Next]_vars PROVE EchoInv'
    OBVIOUS
  <2>1. ASSUME NEW e \in Evaluator, Step(e) PROVE EchoInv'
    BY <2>1, EchoClaim, EchoNoClaim, EchoSend, EchoConfirm, EchoClear, EchoOutside DEF Step
  <2>2. CASE Next
    BY <2>1, <2>2, EchoTick, EchoAside, EchoOutside, EchoCrash DEF Next
  <2>3. CASE UNCHANGED vars
    BY <2>3, EchoAside
  <2> QED
    BY <2>2, <2>3
<1> QED
  BY <1>1, EchoInvInit, NotifyInvariant, PTL DEF Spec

\* Whatever the rules, evaluators and timeouts: no message is repeated within
\* the debounce window, and no alert answered twice, more often than there
\* were crashes, cancellations, failed writes and errors of the sink.
THEOREM EchoSafety == Spec => []EchoesAreFaults
<1>1. NotifyInv /\ EchoInv => EchoesAreFaults
  <2> SUFFICES ASSUME NotifyInv, EchoInv PROVE EchoesAreFaults
    OBVIOUS
  <2>1. echoes \in Nat /\ unowed \in Nat /\ faults \in Nat
    BY ClaimAssumption DEF NotifyInv, TypeOK
  <2>2. /\ IsFiniteSet(Unmarked) /\ IsFiniteSet(Answered) /\ IsFiniteSet(Cut)
        /\ echoes + Cardinality(Unmarked) + Cardinality(Cut) <= faults
        /\ unowed + Cardinality(Answered) + Cardinality(Cut) <= faults
    BY DEF EchoInv, Paid
  <2>3. Cardinality(Unmarked) \in Nat /\ Cardinality(Answered) \in Nat /\ Cardinality(Cut) \in Nat
    BY <2>2, FS_CardinalityType
  <2> QED
    BY <2>1, <2>2, <2>3 DEF EchoesAreFaults
<1> QED
  BY <1>1, NotifyInvariant, EchoInvariant, PTL
=============================================================================
