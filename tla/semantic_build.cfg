SPECIFICATION FairSpec
CONSTANTS
  m1 = m1
  m2 = m2
  short = short
  long = long
  Message = {m1, m2}
  Text = {short, long}
  Blank = Blank
  Absent = Absent
  Versions = 3
  ChunkerOf <- ThreeVersions
  ModelOf <- ThirdModel
  Passages <- SharedPassages
  BatchSize = 1
  MaxEdits = 2
  None = None
CHECK_DEADLOCK FALSE
INVARIANTS SelectedIsEmbedded CountsAgree
PROPERTIES EventuallyPublished
