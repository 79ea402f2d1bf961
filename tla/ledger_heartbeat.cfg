SPECIFICATION Spec
CONSTANTS
  p1 = p1
  p2 = p2
  r1 = r1
  NoProc = NoProc
  Procs = {p1, p2}
  CLI = {p1, p2}
  Readers = {}
  MaxRuns = 2
  Retained = 1
INVARIANTS
  FailureMarksBuild
CHECK_DEADLOCK FALSE
