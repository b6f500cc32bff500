----------------------------- MODULE TagChoice -----------------------------
(***************************************************************************)
(* The image a track or a version constraint selects from the tags of a    *)
(* repository: internal/registry/resolve.go.                               *)
(*                                                                         *)
(* A tag's name is a scope (bare, or prefixed with the image's own name)   *)
(* and a version <<major, minor, patch>>, "v" or not, missing parts being  *)
(* 0; a pre-release is marked.  NotSemver is any other name.               *)
(***************************************************************************)
EXTENDS Integers, Sequences, SequencesExt

CONSTANTS Versions, NotSemver, TagDigest, NoDigest

Tag == [scope : {"bare", "own"}, version : Versions \cup {NotSemver}, pre : BOOLEAN,
        digest : TagDigest]

ASSUME TagAssumption ==
  /\ Versions \subseteq Nat \X Nat \X Nat /\ NotSemver \notin Versions
  /\ NoDigest \notin TagDigest

\* semver.Compare > 0.
Higher(v, w) ==
  \E i \in 1..3 : v[i] > w[i] /\ \A j \in 1..(i - 1) : v[j] = w[j]

\* A constraint is as long as it has parts: the depth of Resolve.
Satisfies(t, scope, constraint) ==
  /\ t.scope = scope
  /\ t.version # NotSemver /\ ~t.pre
  /\ SubSeq(t.version, 1, Len(constraint)) = constraint

\* One turn of bestMatch's loop.
Better(best, t, scope, constraint) ==
  IF /\ Satisfies(t, scope, constraint)
     /\ best.version = NotSemver \/ Higher(t.version, best.version)
  THEN [version |-> t.version, digest |-> t.digest] ELSE best

\* The loop: the first of the highest versions wins.
BestMatch(tags, scope, constraint) ==
  LET best[i \in 0..Len(tags)] ==
        IF i = 0 THEN [version |-> NotSemver, digest |-> NoDigest]
        ELSE Better(best[i - 1], tags[i], scope, constraint)
  IN best[Len(tags)].digest

\* A track: the first tag of that very name.
Tracked(tags, name) ==
  LET found == {i \in 1..Len(tags) : tags[i].version = name}
  IN IF found = {} THEN NoDigest
     ELSE tags[CHOOSE i \in found : \A j \in found : i <= j].digest

\* Mutant of Resolved: a service's own tag is preferred whenever there is one.
ResolvedOwnFirst(tags, constraint) ==
  LET bare == BestMatch(tags, "bare", constraint)
      own == BestMatch(tags, "own", constraint)
  IN IF own # NoDigest THEN own ELSE bare

\* A service's own tag counts only where it agrees with the global one, or
\* where there is no global one.
Resolved(tags, constraint) ==
  LET bare == BestMatch(tags, "bare", constraint)
      own == BestMatch(tags, "own", constraint)
  IN IF own # NoDigest /\ (bare = NoDigest \/ own = bare) THEN own ELSE bare

\* NoDigest stands for the error.
Resolve(tags, constraint) ==
  IF constraint = NotSemver THEN Tracked(tags, constraint) ELSE Resolved(tags, constraint)

-----------------------------------------------------------------------------
\* The reference: the digests of the tags that no other tag of the scope is above.
Newest(tags, scope, constraint) ==
  LET fit == {t \in ToSet(tags) : Satisfies(t, scope, constraint)}
  IN {t.digest : t \in {t \in fit : \A u \in fit : ~Higher(u.version, t.version)}}
=============================================================================
