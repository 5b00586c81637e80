\* Two transactions whose steps interleave, and commits that fail while writing.
SPECIFICATION Spec
CONSTANTS
  Key = {k1, k2}
  Value = {v1}
  Txn = {t1, t2}
  Absent = Absent
  Nil = Nil
  MaxOpen = 2
  WriteFaults = TRUE
INVARIANTS RootsAgree
PROPERTIES ImplementsTxStore
SYMMETRY Symmetry
CHECK_DEADLOCK FALSE
