SPECIFICATION FairSpec
CONSTANTS
  Process = {p1, p2}
  Viewing = {p1}
  Person = Person
  Body = {b1, b2}
  Unread = Unread
  TagsTTL = 1
  MaxTag = 2
  MaxEdits = 1
  MaxHandovers = 1
  MaxFaults = 1
INVARIANTS TypeOK ViewersUnharmed
PROPERTIES EditsSurvive NoRollback TagFollowed
