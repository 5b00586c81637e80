\* A file that is closed between two commits and opened again.
SPECIFICATION Spec
CONSTANTS
  Cap = 2
  Junk = Junk
  MaxPage = 4
  MaxSeq = 4
  MaxOps = 3
  MaxFails = 1
  Faults = {"reopen"}
INVARIANTS AppendIsFresh
CHECK_DEADLOCK FALSE
