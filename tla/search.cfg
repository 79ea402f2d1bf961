SPECIFICATION FairSpec
CONSTANTS
  p1 = p1
  o1 = o1
  o2 = o2
  q1 = q1
  q2 = q2
  g1 = g1
  g2 = g2
  Transaction = {p1, o1, o2}
  Publisher = {p1}
  Generation = {g1, g2}
  None = None
  Request = {q1, q2}
  Limit = 2
  Depth = 2
  PageSize = 2
  FirstCandidates = 2
  RetryCandidates = 4
  Loads <- AllLoads
CHECK_DEADLOCK FALSE
INVARIANTS CoherentSelection AnswerIsOneCorpus HitsAreExact
PROPERTIES RequestsEnd
