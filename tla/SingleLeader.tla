---------------------------- MODULE SingleLeader ----------------------------
(***************************************************************************)
(* What leader election promises the rest of the controller: terms of      *)
(* leadership that never overlap.  A term begins only when none is running *)
(* and belongs to one replica until it ends.                               *)
(***************************************************************************)
CONSTANT Replica

VARIABLE active     \* the replicas in a leadership term

Init == active = {}

Begin(r) == active = {} /\ active' = {r}

End(r) == active = {r} /\ active' = {}

Next == \E r \in Replica : Begin(r) \/ End(r)

Spec == Init /\ [][Next]_active
=============================================================================
