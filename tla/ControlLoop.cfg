SPECIFICATION FairSpec
CONSTANTS
  Unit = {u1}
  Folder = {f1}
  Direct = Direct
  Contents = {Zero}
  Zero = Zero
  Unknown = Unknown
  MaxEdits = 2
  MaxFaults = 1
INVARIANTS TypeOK OutageKeepsUnits OutageKeepsGrants 
PROPERTIES CommitsTakeEffect
