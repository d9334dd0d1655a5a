CONSTANTS
  Files = {"f", "g"}
  Input = {"a", "b", "c"}
  FilesOf <- TwoFiles
  Reopen = FALSE
  Never = Never
  Nul = Nul
  MaxCrashes = 1
SPECIFICATION Spec
INVARIANT EveryFileRecorded
CHECK_DEADLOCK FALSE
