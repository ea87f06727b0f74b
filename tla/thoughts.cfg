SPECIFICATION Spec
CONSTANTS
  MaxThoughts = 2
  MaxParkCycles = 1
  MaxNoProgress = 2
  SnapshotLimit = 1
  MaxTrouble = 2
INVARIANTS TypeOK Chewed SubjectAwake
PROPERTIES StaysRetired OwedWhole Retires
