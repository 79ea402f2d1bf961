SPECIFICATION FairSpec
CONSTANTS
  s1 = s1
  s2 = s2
  h1 = h1
  h2 = h2
  old = old
  new = new
  Clients = {s1, s2}
  Indexers = {s2}
  Helpers = {h1, h2}
  Versions = {old, new}
  Version <- SameVersion
  NoHelper = NoHelper
  Gone = Gone
  MaxKills = 1
INVARIANTS
  TypeOK
  NothingRemains
PROPERTIES
  SpawnsAlone
  RequestEnds
CHECK_DEADLOCK FALSE
