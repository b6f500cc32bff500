CONSTANTS
  Replica = {r1, r2}
  None = None
  TTL = 5
  RenewInterval = 2
  QueryTimeout = 1
  Delay = 1
  InitialBackoff = 1
  MaxBackoff = 2
  MaxFaults = 2
SPECIFICATION FairSpec
INVARIANTS TypeOK AtMostOneLeader LeaderHoldsLease LivePassIsLeaders
PROPERTIES TermsNeverOverlap AlwaysALeaderAgain
