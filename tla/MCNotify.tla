------------------------------ MODULE MCNotify ------------------------------
EXTENDS Notify

\* A health rule and its recovery.
OneHealthRule ==
  << [key |-> "early", on |-> "healthDegraded", for |-> 1],
     [key |-> "recovered", on |-> "healthRecovered", for |-> 0] >>

\* An early warning and an escalation, as in examples/notify/runcd.yaml, and
\* the rules about syncs.
EveryRule ==
  << [key |-> "early", on |-> "healthDegraded", for |-> 1],
     [key |-> "escalation", on |-> "healthDegraded", for |-> 2],
     [key |-> "recovered", on |-> "healthRecovered", for |-> 0],
     [key |-> "failed", on |-> "syncFailed", for |-> 0],
     [key |-> "gated", on |-> "outOfSyncGated", for |-> 1] >>

HealthOnly == 1..2
HealthTwice == 1..3
=============================================================================
