\* A session with the texts of the README, damaged ones and expressions.
SPECIFICATION QSpec
CONSTANTS
  MaxKeys = 20
  Half = 18
  Base = 6
  IntWidth = 2
  Statements = {}
  Texts <- MCTexts
  Probes <- MCProbes
  ProbeKeys = 4
INVARIANTS RunsAsWritten ParserReturns EvaluatesSoundly
CHECK_DEADLOCK FALSE
