SPECIFICATION FairSpec
CONSTANTS
  pubsub = pubsub
  region = region
  install = install
  token = token
  topic = topic
  sub = sub
  viewer = viewer
  Units = 2
  Viewer = {viewer}
  Workers = 1
  Client = {pubsub, region}
  Installation = {install}
  Token = {token}
  Probe = {topic, sub}
  Under <- MCUnder
  Paths <- MCPaths
  Life = 3
  Margin = 1
  TTL = 1
  Timeout = 1
  Grace = 1
  Nobody = Nobody
  Nothing = Nothing
  MaxFaults = 1
  MaxHangs = 1
CHECK_DEADLOCK FALSE
INVARIANTS TypeOK BuiltOnce UsedInTime BlameIsOwn
PROPERTIES WorkEnds ExitsOnSignal
