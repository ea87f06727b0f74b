SPECIFICATION Spec
CONSTANTS
  w1 = w1
  w2 = w2
  bad = bad
  Seed = Seed
  Stance = Stance
  None = None
  MaxTrouble = 4
  Words <- TwoWords
  Bad <- OneBad

PROPERTY NotMarkedTold
