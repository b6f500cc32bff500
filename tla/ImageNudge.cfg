SPECIFICATION Spec
CONSTANTS
  Process = {p1}
  Viewing = {}
  Person = Person
  Body = {b1}
  Unread = Unread
  TagsTTL = 1
  MaxTag = 2
  MaxEdits = 0
  MaxHandovers = 0
  MaxFaults = 0
PROPERTIES NudgedPassSeesPush
