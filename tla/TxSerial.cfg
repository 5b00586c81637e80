\* One transaction at a time, as engine.ExecuteQuery runs them.
SPECIFICATION Spec
CONSTANTS
  Key = {k1, k2, k3}
  Value = {v1, v2}
  Txn = {t1}
  Absent = Absent
  Nil = Nil
  MaxOpen = 1
  WriteFaults = FALSE
INVARIANTS TypeOK SetsAgree ReadsOwnWrites
PROPERTIES ImplementsTxStore AtomicSerially
CHECK_DEADLOCK FALSE
