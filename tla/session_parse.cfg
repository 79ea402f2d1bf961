SPECIFICATION Spec
CONSTANTS
  Opening <- Openings
  Following <- Followings
  Places <- ClaudePlaces
  ScopeStart = 2
  MaxRecords <- Lengths
INVARIANTS
  StateAdmissible
  VisibleRecordsPublished
  PairsAreProjections
  EpochsAreBoundaries
  IncrementalIsOneShot
  ScanFindsPublished
  OnlyCopiesConflict
PROPERTIES IdentitiesStay
CHECK_DEADLOCK FALSE
