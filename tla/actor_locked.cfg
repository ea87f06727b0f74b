SPECIFICATION Spec
CONSTANTS
  loop = loop
  exec1 = exec1
  exec2 = exec2
  NoThread = NoThread
  Threads <- ThreeThreads
  May <- LockedMay
  Protected <- LockedFields
  MaxWrites = 2
INVARIANTS TypeOK BornOnce
PROPERTY ActsAtomically
