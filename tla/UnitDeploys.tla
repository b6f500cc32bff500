---------------------------- MODULE UnitDeploys ----------------------------
(***************************************************************************)
(* What syncing a unit promises whoever watches its Cloud Run resource:    *)
(* RunCD's attempts work on it one after the other, and it is written, as  *)
(* long as nobody else writes it, only by the attempt at work and after    *)
(* that one's row of sync_events was opened.                               *)
(***************************************************************************)
EXTENDS Integers

CONSTANTS Attempt, Value

VARIABLES
  working,    \* the attempts between lock and deadline
  open,       \* those whose row is in_progress
  resource,
  outside     \* what others have done so far

vars == <<working, open, resource, outside>>

Init == working = {} /\ open = {} /\ resource \in Value /\ outside = 0

Enter(a) ==
  /\ working = {} /\ working' = {a}
  /\ UNCHANGED <<open, resource, outside>>

Announce(a) ==
  /\ working = {a} /\ open' = open \cup {a}
  /\ UNCHANGED <<working, resource, outside>>

\* A write that is reported as failed is the last thing an attempt does.
Write(a) ==
  /\ working = {a} /\ a \in open
  /\ resource' \in Value
  /\ working' \in {{a}, {}}
  /\ UNCHANGED <<open, outside>>

\* The work ends; in a crash, whoever would close the row is gone as well.
Leave(a) ==
  /\ working = {a} /\ working' = {}
  /\ open' \in {open, open \ {a}}
  /\ UNCHANGED <<resource, outside>>

Close(a) ==
  /\ a \notin working /\ open' = open \ {a}
  /\ UNCHANGED <<working, resource, outside>>

Outside ==
  /\ outside' = outside + 1 /\ resource' \in Value
  /\ UNCHANGED <<working, open>>

Next ==
  \/ Outside
  \/ \E a \in Attempt : Enter(a) \/ Announce(a) \/ Write(a) \/ Leave(a) \/ Close(a)

Spec == Init /\ [][Next]_vars
=============================================================================
