\* The select with a filter of the README, after its create table and inserts.
SPECIFICATION QSpec
CONSTANTS
  MaxKeys = 20
  Half = 18
  Base = 6
  IntWidth = 2
  Statements = {}
  Texts <- MCTexts
  Probes = {}
  ProbeKeys = 4
INVARIANT BareFilterFinds
CHECK_DEADLOCK FALSE
