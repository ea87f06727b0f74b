SPECIFICATION Spec
CONSTANTS
  Cap = 2
  Costs <- TwoCosts
  MaxLaunches = 3
  SlowTurns = TRUE
  Late = FALSE
  Losses = FALSE
  Completions = FALSE
PROPERTY VerdictMatches
