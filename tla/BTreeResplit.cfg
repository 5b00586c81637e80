\* The root splits again after the tree has shrunk to a leaf.
SPECIFICATION Spec
CONSTANTS
  Key = {1, 2, 3, 4, 5, 7}
  Value = {"small", "large"}
  KeyLen <- MCKeyLen
  ValLen <- MCValLen
  LongKey = 4
  ShortKey = 1
  SmallVal = 1
  BigVal = 2
  PageSize = 16
  Header = 1
  Slot = 1
  Nil = Nil
  MaxHeight = 4
INVARIANTS KeepsKeys
CHECK_DEADLOCK FALSE
