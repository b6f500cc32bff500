SPECIFICATION FairSpec
CONSTANTS
  Evaluator = {e1, e2}
  Rules <- OneHealthRule
  Allowed <- HealthOnly
  Debounce = 2
  ClaimTTL = 2
  SendTimeout = 1
  WriteTimeout = 0
  Delay = 0
  MaxFaults = 1
INVARIANTS TypeOK ClaimsExclude EchoesAreFaults
PROPERTIES RecoveryReported AlertRepeated
