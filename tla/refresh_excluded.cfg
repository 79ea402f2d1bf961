SPECIFICATION Spec
CONSTANTS
  Files = {1}
  Roots = {1}
  Root <- OwnRoot
  Inspected = {1}
  A = A
  B = B
  t1 = t1
  t2 = t2
  Ids = {A, B}
  Texts = {t1, t2}
  Writes <- ForeignWrites
  NoFile = NoFile
  MaxLen = 2
  MaxEdits = 3
  MaxFaults = 0
  MaxVersion = 1
  Regrow = FALSE
  Configs <- FirstRoot
  Flags <- NoFlags
INVARIANTS ExcludedHasNoRows
