\* Statements on two tables, one after the other.
SPECIFICATION Spec
CONSTANTS
  Half = 18
  Base = 6
  IntWidth = 2
  Statements <- MCStatements
  MaxKeys = 8
INVARIANTS TypeOK IndexesAgree PrefixesApart SelectExact
PROPERTIES ImplementsRows
CHECK_DEADLOCK FALSE
