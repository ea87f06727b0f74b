SPECIFICATION Spec
CONSTANTS
  Cap = 2
  Costs <- TwoCosts
  MaxLaunches = 2
  SlowTurns = FALSE
  Late = FALSE
  Losses = FALSE
  Completions = FALSE
INVARIANT PendingBacked
