\* Scans of both kinds of index, with offsets, limits and a filter.
SPECIFICATION ScanSpec
CONSTANTS
  Key = {1, 5, 6, 9, 13}
  Value = {"row"}
  KeyLen <- MCKeyLen
  ValLen <- MCValLen
  PageSize = 7
  Header = 1
  Slot = 1
  Nil = Nil
  MaxHeight = 4
  Width = 4
  ColMin = 0
  ColMax = 3
  Queries <- MCQueries
  Ops = {"GE", "GT", "LE", "LT", "EQ"}
  Lows = {5}
  Highs = {9}
  Idxs = {0, 1}
  Rejects = {{}, {6}}
  Offsets = {0, 1, 2}
  Limits = {1, 3}
INVARIANTS OnPath WalksInOrder StaysOutside ScanExact
PROPERTIES ScanEnds
CHECK_DEADLOCK FALSE
