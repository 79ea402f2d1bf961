SPECIFICATION FairSpec
CONSTANTS
  Files = {2}
  Roots = {2}
  Root <- OwnRoot
  Inspected = {}
  A = A
  B = B
  t1 = t1
  t2 = t2
  Ids = {A, B}
  Texts = {t1, t2}
  Writes <- CwdWrites
  NoFile = NoFile
  MaxLen = 3
  MaxEdits = 3
  MaxFaults = 1
  MaxVersion = 1
  Regrow = FALSE
  Configs <- SecondRoot
  Flags <- SomeFlags
INVARIANTS CwdOfPrefix ZeroUnindexedIsComplete
PROPERTIES FailureNotForgotten EventuallyRepresented
