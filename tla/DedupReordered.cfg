CONSTANTS
  Seqs <- Contiguous
  Window = 2
  InOrder = FALSE
  MaxResends = 1
  MaxCrashes = 2
SPECIFICATION FairSpec
INVARIANT DedupExact
INVARIANT AckedIsSaved
PROPERTY AllApplied
