SPECIFICATION Spec
CONSTANTS
  Hours = 3
  Weekdays = 3
  Versions <- MCVersions
  NotSemver = NotSemver
  TagDigest = {d1, d2}
  NoDigest = NoDigest
  Name = {n1}
  Value = {v1, v2}
  Secret = {s1}
  Digest = {d1, d2}
  Unset = Unset
  Nil = Nil
  p1 = p1
  p2 = p2
  r1 = r1
  r2 = r2
  a1 = a1
  a2 = a2
  e1 = e1
  e2 = e2
  f1 = f1
  Project = {p1, p2}
  Region = {r1, r2}
  App = {a1, a2}
  EnvName = {e1, e2}
  EnvOf <- MCEnvOf
  FolderID = {f1}
  Empty = Empty
  Blank = Blank
  MaxUnits = 2
  Grants <- MCGrants
  Documents <- MCDocuments
  Contents <- MCContents
  MaxTags = 3
  Constraints <- MCConstraints
  Pending = Pending
INVARIANTS WindowsAreIntervals PickedIsNewest DeploySettles UnmanagedUntouched
  OrphansAreUndeclared 
