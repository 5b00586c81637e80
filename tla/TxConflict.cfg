\* The conflict detection the README describes, on overlapping transactions.
SPECIFICATION Spec
CONSTANTS
  Key = {k1, k2}
  Value = {v1, v2}
  Txn = {t1, t2}
  Absent = Absent
  Nil = Nil
  MaxOpen = 2
  WriteFaults = FALSE
PROPERTIES ConflictsAbort
CHECK_DEADLOCK FALSE
