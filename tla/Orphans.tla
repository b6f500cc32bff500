------------------------------ MODULE Orphans ------------------------------
(***************************************************************************)
(* Flagging live services that no sync unit declares:                      *)
(* internal/reconcile/orphans.go and handleOrphans of internal/api.        *)
(***************************************************************************)
EXTENDS Access

Scope == Project \X Region

ScopeOf(u) == <<u[1], u[2]>>

\* Mutant of Expected: the apps are collected per project.
ExpectedInProject(units, s) == {u[3] : u \in {v \in units : v[1] = s[1]}}

Expected(units, s) == {u[3] : u \in {v \in units : ScopeOf(v) = s}}

ListServiceNames(live, s) == {o[3] : o \in {l \in live : ScopeOf(l) = s}}

\* Each scope of a unit is listed; one that does not answer is left out.
DetectOrphans(units, live, down) ==
  UNION {{s} \X (ListServiceNames(live, s) \ Expected(units, s)) :
           s \in {ScopeOf(u) : u \in units} \ down}

\* No scope answered: there is no result at all.
ScanFails(units, down) == units # {} /\ {ScopeOf(u) : u \in units} \subseteq down

\* Only the units the caller may sync are scanned, and only projects of
\* theirs are shown.
Scannable(units, rules, members) ==
  {u \in units : CanSyncFolders(rules, members, "caller", u)}

Reported(scannable, live, down) ==
  {<<o[1][1], o[1][2], o[2]>> : o \in
     {p \in DetectOrphans(scannable, live, down) :
        \E u \in scannable : u[1] = p[1][1]}}
=============================================================================
