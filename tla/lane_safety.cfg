SPECIFICATION Spec
CONSTANTS
  Cap = 2
  Costs <- TwoCosts
  MaxLaunches = 4
  SlowTurns = FALSE
  Late = TRUE
  Losses = TRUE
  Completions = TRUE
INVARIANTS TypeOK HeldTogether GreetsOnce
PROPERTIES NoSecondBid VerdictMatches
