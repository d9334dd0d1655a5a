CONSTANTS
  Files = {"f"}
  Input = {"a", "b", "c"}
  FilesOf <- OneFile
  Reopen = TRUE
  Never = Never
  Nul = Nul
  MaxCrashes = 1
SPECIFICATION Spec
INVARIANT KeptUntilSaved
CHECK_DEADLOCK FALSE
