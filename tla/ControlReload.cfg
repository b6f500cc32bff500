SPECIFICATION Spec
CONSTANTS
  Unit = {u1}
  Folder = {f1}
  Direct = Direct
  Contents = {A, B}
  Zero = Zero
  A = A
  B = B
  Unknown = Unknown
  MaxEdits = 1
  MaxFaults = 0
PROPERTIES ReloadReachesReconciler
