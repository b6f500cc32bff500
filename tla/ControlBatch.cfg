SPECIFICATION Spec
CONSTANTS
  Unit = {u1}
  Folder = {f1}
  Direct = Direct
  Contents = {Zero}
  Zero = Zero
  Unknown = Unknown
  MaxEdits = 1
  MaxFaults = 0
PROPERTIES BatchHonoursRevocation
