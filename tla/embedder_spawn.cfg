SPECIFICATION Spec
CONSTANTS
  s1 = s1
  s2 = s2
  h1 = h1
  h2 = h2
  old = old
  new = new
  Clients = {s1, s2}
  Indexers = {}
  Helpers = {h1, h2}
  Versions = {old, new}
  Version <- OneOld
  NoHelper = NoHelper
  Gone = Gone
  MaxKills = 0
PROPERTIES SpawnsAlone
CHECK_DEADLOCK FALSE
