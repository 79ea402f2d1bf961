SPECIFICATION FairSpec
CONSTANTS
  p1 = p1
  p2 = p2
  r1 = r1
  NoProc = NoProc
  Procs = {p1, p2}
  CLI = {p1}
  Readers = {r1}
  MaxRuns = 3
  Retained = 1
INVARIANTS
  TypeOK
  IInv
  OneOwner
  SoleBuildingRun
  PublicationIsJoint
  RunNamesItsPublication
  FailureSettlesGeneration
  CLIOwnResult
PROPERTIES
  TerminalRowsFrozen
  CLINoOpCreatesNothing
  ImplementsPublishedCorpus
  WaiterIsServed
CHECK_DEADLOCK FALSE
