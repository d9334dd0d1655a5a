CONSTANTS
  Seqs <- Striped
  Window = 2
  InOrder = TRUE
  MaxResends = 0
  MaxCrashes = 0
SPECIFICATION Spec
INVARIANT AheadWithinWindow
