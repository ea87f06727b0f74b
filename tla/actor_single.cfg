SPECIFICATION Spec
CONSTANTS
  loop = loop
  exec1 = exec1
  exec2 = exec2
  NoThread = NoThread
  Threads <- OneThread
  May <- SingleMay
  Protected <- Fields
  MaxWrites = 2
PROPERTY ActsAtomically
