\* Commits that all succeed, one after the other, on the larger file.
SPECIFICATION Spec
CONSTANTS
  Cap = 2
  Junk = Junk
  MaxPage = 6
  MaxSeq = 6
  MaxOps = 4
  MaxFails = 0
  Faults = {}
INVARIANTS TypeOK Conservation ListLinked OverwritesLate
CHECK_DEADLOCK FALSE
