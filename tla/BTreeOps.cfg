\* Long and short keys, values up to more than half a page, pages of one to five entries.
SPECIFICATION Spec
CONSTANTS
  Key = {1, 2, 3, 4, 5, 7}
  Value = {"small", "large"}
  KeyLen <- MCKeyLen
  ValLen <- MCValLen
  LongKey = 4
  ShortKey = 1
  SmallVal = 1
  BigVal = 7
  PageSize = 16
  Header = 1
  Slot = 1
  Nil = Nil
  MaxHeight = 4
INVARIANTS TypeOK HoldsContent Ordered LookupFindsLast SoundUntilSmall
PROPERTIES LosesPages OverflowsBySeparator
CHECK_DEADLOCK FALSE
