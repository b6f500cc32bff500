------------------------------- MODULE Notify -------------------------------
(***************************************************************************)
(* Alerts about one sync unit: internal/notify/notify.go, as evaluated at  *)
(* the end of every pass and every manual sync of the unit.  Evaluators    *)
(* run concurrently and share nothing but the unit's rows of               *)
(* notification_debounce, one per rule: each claims a row for a short      *)
(* while, sends, and then confirms, reverts or clears.                     *)
(*                                                                         *)
(* A task is a pair <<i, j>>: rule i with j = 0 sends an alert, rule i     *)
(* (healthRecovered) with j > 0 reports the recovery that its sibling      *)
(* rule j (healthDegraded) had alerted of.                                 *)
(***************************************************************************)
EXTENDS Integers, Sequences

CONSTANTS
  Evaluator,    \* passes and manual syncs that may evaluate at once
  Rules,        \* notify.rules: a sequence of records key, on, for
  Allowed,      \* the rules (indices) the unit's environment subscribes to
  Debounce,     \* DebounceInterval
  ClaimTTL,     \* claimTTL
  SendTimeout,  \* the sink's HTTP timeout
  WriteTimeout, \* of the detached confirm, revert, clear and release
  Delay,        \* how late an evaluator may act on the answer to a claim
  MaxFaults     \* bound: failed calls, crashes, cancellations, unread units

Rule == 1..Len(Rules)
Key == {Rules[i].key : i \in Rule}
Task == Rule \X (0..Len(Rules))
Alerted == {i \in Rule : Rules[i].on = "healthDegraded"}
MsgKey(t) == Rules[t[1]].key
SibKey(t) == Rules[t[2]].key

ASSUME RulesAssumption ==
  /\ Rules \in Seq([key : STRING, for : Nat, on :
       {"syncFailed", "healthDegraded", "outOfSyncGated", "healthRecovered"}])
  /\ \A i, j \in Rule : Rules[i].key = Rules[j].key => i = j
  /\ Allowed \subseteq Rule

\* A claim outlives the longest use of it: sending, and two writes after it.
ASSUME ClaimAssumption ==
  /\ Debounce \in Nat /\ ClaimTTL \in Nat /\ MaxFaults \in Nat
  /\ SendTimeout \in Nat /\ WriteTimeout \in Nat /\ Delay \in Nat
  /\ SendTimeout + 2 * WriteTimeout + 2 * Delay <= ClaimTTL

VARIABLES
  health,     \* what Cloud Run would say of the unit
  row,        \* the applications row: health and time since it changed
  elapsed,    \* now() - last_notified_at of a rule's row; -1 for 'epoch'
  claimLeft,  \* claim_expires_at - now(); -1 for NULL or expired
  pc,
  todo,       \* the tasks Evaluate has before it
  cur,        \* the task at hand
  seen,       \* Result.Health
  age,        \* time spent in the current call
  cancelled,  \* the pass context is cancelled
  quiet,      \* history: time since a rule's message was last delivered
  told,       \* history: an alert on record that no recovery has answered
  echoes,     \* history: messages sent again within the debounce window
  unowed,     \* history: recoveries reported of an alert already answered
  faults

rows == <<elapsed, claimLeft>>
history == <<quiet, told, echoes, unowed>>
vars == <<health, row, rows, pc, todo, cur, seen, age, cancelled, history, faults>>

MaxFor == CHOOSE n \in {Rules[i].for : i \in Rule} : \A i \in Rule : Rules[i].for <= n

TypeOK ==
  /\ health \in {"Healthy", "Degraded"}
  /\ row \in [health : {"Healthy", "Degraded", "Invalid"}, for : Nat]
  /\ elapsed \in [Key -> -1 .. Debounce + 1]
  /\ claimLeft \in [Key -> -1..ClaimTTL]
  /\ pc \in [Evaluator -> {"idle", "next", "claim", "send", "revert", "confirm",
                           "clear", "release"}]
  /\ todo \in [Evaluator -> SUBSET Task]
  /\ cur \in [Evaluator -> Task \cup {<<>>}]
  /\ seen \in [Evaluator -> {"Healthy", "Degraded", "Invalid"}]
  /\ age \in [Evaluator -> Nat]
  /\ cancelled \in [Evaluator -> BOOLEAN]
  /\ quiet \in [Key -> 0 .. Debounce + 1]
  /\ told \in [Key -> BOOLEAN]
  /\ echoes \in Nat /\ unowed \in Nat
  /\ faults \in 0..MaxFaults

Init ==
  /\ health = "Healthy"
  /\ row = [health |-> "Healthy", for |-> 0]
  /\ elapsed = [k \in Key |-> -1]
  /\ claimLeft = [k \in Key |-> -1]
  /\ pc = [e \in Evaluator |-> "idle"]
  /\ todo = [e \in Evaluator |-> {}]
  /\ cur = [e \in Evaluator |-> <<>>]
  /\ seen = [e \in Evaluator |-> "Healthy"]
  /\ age = [e \in Evaluator |-> 0]
  /\ cancelled = [e \in Evaluator |-> FALSE]
  /\ quiet = [k \in Key |-> Debounce + 1]
  /\ told = [k \in Key |-> FALSE]
  /\ echoes = 0 /\ unowed = 0 /\ faults = 0

-----------------------------------------------------------------------------
\* Which tasks Evaluate finds in a result: its health h, how long it has been
\* that (-1 when the result was not persisted), a failed deploy, and having
\* been OutOfSync for long while gated.
Due(i, h, since, failed, gated) ==
  CASE Rules[i].on = "syncFailed" -> failed
    [] Rules[i].on = "healthDegraded" -> h = "Degraded" /\ since >= Rules[i].for
    [] Rules[i].on = "outOfSyncGated" -> gated
    [] OTHER -> FALSE

Tasks(h, since, failed, gated) ==
  {<<i, 0>> : i \in {i \in Allowed : Due(i, h, since, failed, gated)}}
    \cup {t \in Allowed \X (Allowed \cap Alerted) :
            Rules[t[1]].on = "healthRecovered" /\ h # "Degraded"}

\* Rules in configuration order, and each one's siblings in that order.
First(t, S) == \A u \in S : t[1] < u[1] \/ (t[1] = u[1] /\ t[2] <= u[2])

Goto(e, l) ==
  /\ pc' = [pc EXCEPT ![e] = l]
  /\ age' = [age EXCEPT ![e] = 0]

\* The task at hand is over.
Advance(e) ==
  /\ Goto(e, "next")
  /\ todo' = [todo EXCEPT ![e] = @ \ {cur[e]}]
  /\ cur' = [cur EXCEPT ![e] = <<>>]

Alive(e) == ~cancelled[e]
Fault == faults < MaxFaults /\ faults' = faults + 1
Fails(e) == (cancelled[e] /\ UNCHANGED faults) \/ Fault

Recovering(e) == cur[e][2] # 0

\* A message goes out.
Deliver(e) ==
  LET k == MsgKey(cur[e])
  IN /\ quiet' = [quiet EXCEPT ![k] = 0]
     /\ told' = IF Recovering(e) THEN [told EXCEPT ![SibKey(cur[e])] = FALSE] ELSE told
     /\ echoes' = IF quiet[k] <= Debounce THEN echoes + 1 ELSE echoes
     /\ unowed' = IF Recovering(e) /\ ~told[SibKey(cur[e])] THEN unowed + 1 ELSE unowed

-----------------------------------------------------------------------------
\* Mutant of Persist: the row's age is that of the pass, not of its health.
PersistAfresh(h) == row' = [health |-> h, for |-> 0]

\* upsert: health_since moves only when the health does.
Persist(h) == row' = IF row.health = h THEN row ELSE [health |-> h, for |-> 0]

\* A pass is over and evaluates its result.  A unit that could not be read is
\* Invalid; a pass that lost the unit's lock, or could not write the row, has
\* no HealthSince.
Begin(e, h, stamped) ==
  /\ pc[e] = "idle"
  /\ IF stamped THEN Persist(h) ELSE UNCHANGED row
  /\ \E failed, gated \in BOOLEAN :
       todo' = [todo EXCEPT ![e] =
                  Tasks(h, IF stamped THEN row'.for ELSE -1, failed, gated)]
  /\ seen' = [seen EXCEPT ![e] = h]
  /\ Goto(e, "next")
  /\ UNCHANGED <<health, rows, cur, cancelled, history>>

BeginRead(e, stamped) == Begin(e, health, stamped) /\ UNCHANGED faults
BeginUnread(e) == Begin(e, "Invalid", TRUE) /\ Fault

End(e) ==
  /\ pc[e] = "next" /\ todo[e] = {}
  /\ Goto(e, "idle")
  /\ seen' = [seen EXCEPT ![e] = "Healthy"]
  /\ cancelled' = [cancelled EXCEPT ![e] = FALSE]
  /\ UNCHANGED <<health, row, rows, todo, cur, history, faults>>

\* Mutant of ClaimFree: rows are claimed whoever else is at it.
ClaimFreeAlways(k) == TRUE

\* claim_expires_at IS NULL OR claim_expires_at < now().
ClaimFree(k) == claimLeft[k] < 0

\* Mutant of Quiet: the debounce window is not looked at.
QuietAlways(k) == TRUE

\* last_notified_at < now() - interval; 'epoch' always is.
Quiet(k) == elapsed[k] = -1 \/ elapsed[k] > Debounce

\* The two statements that claim: maybeNotify's upsert and claimRecoveryClear.
Claimable(e, t) ==
  IF pc[e] = "next" /\ t[2] # 0
  THEN elapsed[SibKey(t)] >= 0 /\ ClaimFree(SibKey(t))
  ELSE Quiet(MsgKey(t)) /\ ClaimFree(MsgKey(t))

ClaimKey(e, t) == IF pc[e] = "next" /\ t[2] # 0 THEN SibKey(t) ELSE MsgKey(t)

\* The task that the next claim of e is for.
AtClaim(e, t) ==
  \/ pc[e] = "next" /\ t \in todo[e] /\ First(t, todo[e])
  \/ pc[e] = "claim" /\ t = cur[e]

Claim(e, t) ==
  /\ AtClaim(e, t)
  /\ Alive(e) /\ Claimable(e, t)
  /\ claimLeft' = [claimLeft EXCEPT ![ClaimKey(e, t)] = ClaimTTL]
  /\ cur' = [cur EXCEPT ![e] = t]
  /\ Goto(e, IF pc[e] = "next" /\ t[2] # 0 THEN "claim" ELSE "send")
  /\ UNCHANGED <<health, row, elapsed, todo, seen, cancelled, history, faults>>

\* Without a claim a task is skipped; a sibling already claimed is released.
GiveUp(e, t) ==
  IF pc[e] = "claim"
  THEN Goto(e, "release") /\ UNCHANGED <<todo, cur>>
  ELSE /\ Goto(e, "next")
       /\ todo' = [todo EXCEPT ![e] = @ \ {t}]
       /\ UNCHANGED cur

\* Debounced, claimed by another, or never alerted of.
ClaimRefused(e, t) ==
  /\ AtClaim(e, t)
  /\ Alive(e) /\ ~Claimable(e, t)
  /\ GiveUp(e, t)
  /\ UNCHANGED <<health, row, rows, seen, cancelled, history, faults>>

\* The statement fails, or only its answer does.
ClaimFails(e, t) ==
  /\ AtClaim(e, t)
  /\ Fails(e)
  /\ \/ UNCHANGED claimLeft
     \/ /\ Claimable(e, t)
        /\ claimLeft' = [claimLeft EXCEPT ![ClaimKey(e, t)] = ClaimTTL]
  /\ GiveUp(e, t)
  /\ UNCHANGED <<health, row, elapsed, seen, cancelled, history>>

Send(e) ==
  /\ pc[e] = "send"
  /\ Alive(e)
  /\ Deliver(e)
  /\ Goto(e, "confirm")
  /\ UNCHANGED <<health, row, rows, todo, cur, seen, cancelled, faults>>

\* A sink that reports an error may have delivered all the same.
SendFails(e) ==
  /\ pc[e] = "send"
  /\ Fails(e)
  /\ Deliver(e) \/ UNCHANGED history
  /\ Goto(e, "revert")
  /\ UNCHANGED <<health, row, rows, todo, cur, seen, cancelled>>

\* A detached write happens; or it fails, and may have happened.
Written(wrote) == (wrote /\ UNCHANGED faults) \/ (Fault /\ (wrote \/ UNCHANGED <<rows, told>>))

Unclaim(k) == claimLeft' = [claimLeft EXCEPT ![k] = -1] /\ UNCHANGED <<elapsed, told>>

\* After a failed send a recovery also releases its sibling.
Revert(e) ==
  /\ pc[e] = "revert"
  /\ Written(Unclaim(MsgKey(cur[e])))
  /\ IF Recovering(e) THEN Goto(e, "release") /\ UNCHANGED <<todo, cur>> ELSE Advance(e)
  /\ UNCHANGED <<health, row, seen, cancelled, quiet, echoes, unowed>>

\* Mutant of Mark: the column holds when the next message may go out.
MarkAhead(e) ==
  /\ elapsed' = [elapsed EXCEPT ![MsgKey(cur[e])] = -Debounce]
  /\ claimLeft' = [claimLeft EXCEPT ![MsgKey(cur[e])] = -1]
  /\ told' = IF Recovering(e) THEN told ELSE [told EXCEPT ![MsgKey(cur[e])] = TRUE]

\* last_notified_at = now(), claim_expires_at = NULL.
Mark(e) ==
  LET k == MsgKey(cur[e])
  IN /\ elapsed' = [elapsed EXCEPT ![k] = 0]
     /\ claimLeft' = [claimLeft EXCEPT ![k] = -1]
     /\ told' = IF Recovering(e) THEN told ELSE [told EXCEPT ![k] = TRUE]

\* A confirmation that fails counts as not sent.
Confirm(e) ==
  /\ pc[e] = "confirm"
  /\ \/ /\ Mark(e) /\ UNCHANGED faults
        /\ IF Recovering(e) THEN Goto(e, "clear") /\ UNCHANGED <<todo, cur>>
           ELSE Advance(e)
     \/ /\ Fault
        /\ Mark(e) \/ UNCHANGED <<rows, told>>
        /\ IF Recovering(e) THEN Goto(e, "release") /\ UNCHANGED <<todo, cur>>
           ELSE Advance(e)
  /\ UNCHANGED <<health, row, seen, cancelled, quiet, echoes, unowed>>

\* confirmRecoveryClear: the sibling's next alert is a new one.
Unmark(k) ==
  /\ elapsed' = [elapsed EXCEPT ![k] = -1]
  /\ claimLeft' = [claimLeft EXCEPT ![k] = -1]
  /\ quiet' = [quiet EXCEPT ![k] = Debounce + 1]

Clear(e) ==
  /\ pc[e] = "clear"
  /\ \/ Unmark(SibKey(cur[e])) /\ UNCHANGED faults
     \/ Fault /\ (Unmark(SibKey(cur[e])) \/ UNCHANGED <<rows, quiet>>)
  /\ Advance(e)
  /\ UNCHANGED <<health, row, seen, cancelled, told, echoes, unowed>>

\* Mutant of Release: a recovery that was not sent clears its sibling too.
ReleaseClears(e) ==
  /\ pc[e] = "release"
  /\ Unmark(SibKey(cur[e]))
  /\ Advance(e)
  /\ UNCHANGED <<health, row, seen, cancelled, told, echoes, unowed, faults>>

\* releaseRecoveryClaim: the sibling still reads as alerted of.
Release(e) ==
  /\ pc[e] = "release"
  /\ Written(Unclaim(SibKey(cur[e])))
  /\ Advance(e)
  /\ UNCHANGED <<health, row, seen, cancelled, quiet, echoes, unowed>>

-----------------------------------------------------------------------------
Cancel(e) ==
  /\ pc[e] # "idle" /\ Alive(e)
  /\ Fault
  /\ cancelled' = [cancelled EXCEPT ![e] = TRUE]
  /\ UNCHANGED <<health, row, rows, pc, todo, cur, seen, age, history>>

Crash(e) ==
  /\ pc[e] # "idle"
  /\ Fault
  /\ Goto(e, "idle")
  /\ todo' = [todo EXCEPT ![e] = {}]
  /\ cur' = [cur EXCEPT ![e] = <<>>]
  /\ seen' = [seen EXCEPT ![e] = "Healthy"]
  /\ cancelled' = [cancelled EXCEPT ![e] = FALSE]
  /\ UNCHANGED <<health, row, rows, history>>

Turn ==
  /\ health' \in {"Healthy", "Degraded"} \ {health}
  /\ UNCHANGED <<row, rows, pc, todo, cur, seen, age, cancelled, history, faults>>

\* How long an evaluator may stay where it is; elsewhere it holds no claim.
Limit == [claim |-> Delay, send |-> SendTimeout + Delay, revert |-> WriteTimeout,
          confirm |-> WriteTimeout, clear |-> WriteTimeout, release |-> WriteTimeout]

\* Time passes, but not past the timeout of a call under way.
Tick ==
  /\ \A e \in Evaluator : pc[e] \in DOMAIN Limit => age[e] < Limit[pc[e]]
  /\ row' = [row EXCEPT !.for = IF @ < MaxFor THEN @ + 1 ELSE @]
  /\ elapsed' = [k \in Key |-> IF elapsed[k] \in 0..Debounce THEN elapsed[k] + 1
                                                             ELSE elapsed[k]]
  /\ claimLeft' = [k \in Key |-> IF claimLeft[k] < 0 THEN -1 ELSE claimLeft[k] - 1]
  /\ quiet' = [k \in Key |-> IF quiet[k] <= Debounce THEN quiet[k] + 1 ELSE quiet[k]]
  /\ age' = [e \in Evaluator |-> IF pc[e] \in DOMAIN Limit THEN age[e] + 1 ELSE age[e]]
  /\ UNCHANGED <<health, pc, todo, cur, seen, cancelled, told, echoes, unowed, faults>>

Step(e) ==
  \/ \E t \in Task : Claim(e, t) \/ ClaimRefused(e, t) \/ ClaimFails(e, t)
  \/ Send(e) \/ SendFails(e) \/ Revert(e) \/ Confirm(e) \/ Clear(e) \/ Release(e)
  \/ End(e)

Next ==
  \/ Tick \/ Turn
  \/ \E e \in Evaluator :
       \/ \E stamped \in BOOLEAN : BeginRead(e, stamped)
       \/ BeginUnread(e) \/ Step(e) \/ Cancel(e) \/ Crash(e)

Spec == Init /\ [][Next]_vars

\* Time diverges, calls return, and passes that get through to the row go on.
FairSpec ==
  /\ Spec
  /\ SF_vars(Tick)
  /\ \A e \in Evaluator : WF_vars(Step(e)) /\ SF_vars(BeginRead(e, TRUE))

-----------------------------------------------------------------------------
\* The rows an evaluator's outstanding claims are on.
Holds(e) ==
  {k \in Key : \/ pc[e] \in {"send", "revert", "confirm"} /\ k = MsgKey(cur[e])
               \/ /\ pc[e] \in {"claim", "send", "revert", "confirm", "clear", "release"}
                  /\ Recovering(e) /\ k = SibKey(cur[e])}

\* Time since the claim on the message's row, and on the sibling's, before
\* the current call: at most what the calls before it may take.
MsgSpent(l) == IF l = "send" THEN 0 ELSE SendTimeout + Delay
SibSpent(l) ==
  CASE l = "claim" -> 0
    [] l = "send" -> Delay
    [] l \in {"revert", "confirm"} -> SendTimeout + 2 * Delay
    [] OTHER -> SendTimeout + 2 * Delay + WriteTimeout

\* An outstanding claim has run for no longer than that.
Covered(e) ==
  /\ pc[e] \in {"send", "revert", "confirm"}
       => claimLeft[MsgKey(cur[e])] + age[e] + MsgSpent(pc[e]) >= ClaimTTL
  /\ pc[e] \in DOMAIN Limit /\ Recovering(e)
       => claimLeft[SibKey(cur[e])] + age[e] + SibSpent(pc[e]) >= ClaimTTL

Proper == {t \in Task : t[1] # t[2]}

Sound(e) ==
  /\ todo[e] \subseteq Proper
  /\ pc[e] \in DOMAIN Limit => cur[e] \in Proper /\ age[e] <= Limit[pc[e]]
  /\ pc[e] \in {"claim", "clear", "release"} => Recovering(e)
  /\ Covered(e)

\* Two evaluators never work on the same rule's row: "a live attempt is never
\* pre-empted" (claimTTL), though confirm, revert, clear and release carry no
\* token and would act on anybody's claim.
ClaimsExclude ==
  \A e, f \in Evaluator : Holds(e) \cap Holds(f) # {} => e = f

\* The inductive invariant behind it.
NotifyInv == TypeOK /\ (\A e \in Evaluator : Sound(e)) /\ ClaimsExclude

\* Nothing is said twice in a debounce window, and no recovery is reported of
\* an alert already answered: each repetition is owed to a fault (a crash, a
\* failed write, a delivery reported as an error).
EchoesAreFaults == echoes <= faults /\ unowed <= faults

\* A recovery is never lost: unless the unit keeps degrading, every alert on
\* record is at some point answered by a delivered recovery.
RecoveryReported ==
  \A i \in Allowed \cap Alerted :
    []<>(health = "Degraded") \/ <>[](~told[Rules[i].key])

\* An alert is never lost and never the last: while the unit stays degraded,
\* the message goes out in every window, whatever failed or crashed before.
AlertRepeated ==
  <>[](health = "Degraded")
     => \A i \in Allowed \cap Alerted : []<>(quiet[Rules[i].key] = 0)

\* Reporting a recovery clears the marker of each rule that had alerted, so
\* that the next episode alerts at once: nothing stays on record when an
\* evaluation has delivered the recovery without a fault.
RecoveryClearsMarkers ==
  [][\A e \in Evaluator :
       pc[e] = "next" /\ pc'[e] = "idle" /\ seen[e] # "Degraded"
         /\ (\E r \in Allowed : Rules[r].on = "healthRecovered" /\ quiet[Rules[r].key] = 0)
       => \A i \in Allowed \cap Alerted : elapsed[Rules[i].key] = -1]_vars
=============================================================================
