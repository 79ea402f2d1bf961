SPECIFICATION Spec
CONSTANTS
  Files = {1, 2}
  Roots = {1, 2}
  Root <- OwnRoot
  Inspected = {1, 2}
  A = A
  B = B
  t1 = t1
  t2 = t2
  Ids = {A, B}
  Texts = {t1, t2}
  Writes <- SharedWrites
  NoFile = NoFile
  MaxLen = 2
  MaxEdits = 3
  MaxFaults = 0
  MaxVersion = 2
  Regrow = FALSE
  Configs <- SomeRoots
  Flags <- NoFlags
INVARIANTS TypeOK RowsAreOneContent MessagesHaveSources
