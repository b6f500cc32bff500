CONSTANTS
  Poller = {poll}
  Person = {user}
  Digest = {d1}
  Env = {e1, e2}
  Managed = {"env"}
  Policies = {"auto"}
  LockTTL = 1
  None = None
  Orphan = Orphan
  Absent = Absent
  Blank = Blank
  MaxFaults = 1
  MaxCancels = 0
  MaxEdits = 1
SPECIFICATION FairSpec
PROPERTIES AutoSyncConverges
