SPECIFICATION Spec
CONSTANTS
  Files = {1, 2}
  Roots = {1, 2}
  Root <- OwnRoot
  Inspected = {}
  A = A
  B = B
  t1 = t1
  t2 = t2
  Ids = {A, B}
  Texts = {t1, t2}
  Writes <- CopiedCwdWrites
  NoFile = NoFile
  MaxLen = 2
  MaxEdits = 4
  MaxFaults = 0
  MaxVersion = 1
  Regrow = FALSE
  Configs <- BothRoots
  Flags <- NoFlags
INVARIANTS CwdHasSource
