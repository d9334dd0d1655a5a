CONSTANTS
  Files = {"f", "g"}
  Input = {"a", "b", "c"}
  FilesOf <- TwoFiles
  Reopen = FALSE
  Never = Never
  Nul = Nul
  MaxCrashes = 2
SPECIFICATION Spec
INVARIANT NothingLost
PROPERTY StaysExact
CHECK_DEADLOCK FALSE
