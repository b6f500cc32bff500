------------------------------- MODULE Access -------------------------------
(***************************************************************************)
(* Who may sync what: internal/rbac.  A rule gives a subject scopes; a     *)
(* rule of several scopes stands here for as many rules of one.  The text  *)
(* after a scope's prefix may be missing, or name nothing that exists.     *)
(***************************************************************************)
CONSTANTS
  Project, Region, App,
  EnvName,   \* environments of runcd.yaml
  EnvOf,     \* the environment that a project's units are of
  FolderID,
  Empty      \* a missing part of a scope

\* A sync unit, and a service that is live.
Unit == Project \X Region \X App

RuleScope ==
  [kind : {"*", "other"}]
  \cup [kind : {"folder"}, id : FolderID \cup {Empty}]
  \cup [kind : {"env"}, env : EnvName \cup {Empty}]
  \cup [kind : {"app"}, app : App \cup {Empty}, project : Project \cup {Empty}]

Subject == {"caller", "somebody"}
Rule == [subject : Subject, scope : RuleScope]

\* The projects of each folder that has been resolved.
FolderMembership == [FolderID -> SUBSET Project]

ScopeMatches(s, u, members) ==
  CASE s.kind = "*"      -> TRUE
    [] s.kind = "folder" -> s.id # Empty /\ u[1] \in members[s.id]
    [] s.kind = "env"    -> s.env = EnvOf[u[1]]
    [] s.kind = "app"    -> s.app = u[3] /\ s.project = u[1]
    [] OTHER             -> FALSE

CanSyncFolders(rules, members, subject, u) ==
  \E r \in rules : r.subject = subject /\ ScopeMatches(r.scope, u, members)

\* A scope of a known form, with nothing missing.
IsRecognizedScope(s) ==
  CASE s.kind = "*"      -> TRUE
    [] s.kind = "folder" -> s.id # Empty
    [] s.kind = "env"    -> s.env # Empty
    [] s.kind = "app"    -> s.app # Empty /\ s.project # Empty
    [] OTHER             -> FALSE

HasAnyGrant(rules, subject) ==
  \E r \in rules : r.subject = subject /\ IsRecognizedScope(r.scope)
=============================================================================
