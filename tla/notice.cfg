SPECIFICATION Spec
CONSTANTS
  MaxEntries = 2
  SizeCap = 2
  Ceiling = 1
  MaxTurns = 3
  MaxPasses = 4
  MaxDays = 2
INVARIANTS TypeOK AdmissionHolds NoticedOnce ClaimBacked
PROPERTIES OwnText ClaimKept InOrder ClaimEnds
