CONSTANTS
  Poller = {poll}
  Person = {user}
  Digest = {d1, d2}
  Env = {e1}
  Managed = {"image"}
  Policies = {"auto", "gated", "observe"}
  LockTTL = 1
  None = None
  Orphan = Orphan
  Absent = Absent
  Blank = Blank
  MaxFaults = 1
  MaxCancels = 1
  MaxEdits = 1
SPECIFICATION Spec
INVARIANTS TypeOK NoConcurrentDeploys  SucceededMeansApplied
PROPERTIES DeploysAreSerial RowKeepsImages
SYMMETRY DigestSymmetry
