SPECIFICATION Spec
CONSTANTS
  Evaluator = {e1}
  Rules <- EveryRule
  Allowed <- HealthTwice
  Debounce = 2
  ClaimTTL = 1
  SendTimeout = 1
  WriteTimeout = 0
  Delay = 0
  MaxFaults = 0
PROPERTY RecoveryClearsMarkers
