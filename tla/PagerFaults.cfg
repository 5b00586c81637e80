\* Commits that fail at any point or are cut off, and reopenings.
SPECIFICATION Spec
CONSTANTS
  Cap = 2
  Junk = Junk
  MaxPage = 4
  MaxSeq = 5
  MaxOps = 3
  MaxFails = 2
  Faults = {"mmap", "write", "meta", "reopen"}
INVARIANTS Conservation
PROPERTIES AbortRestores
CHECK_DEADLOCK FALSE
