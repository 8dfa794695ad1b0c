SPECIFICATION Spec
CONSTANTS
  WORDS = 3
  LATENCY = 8
INVARIANTS
  FetchesRight
  ReportsRight
PROPERTIES
  AsksAgain
CHECK_DEADLOCK FALSE
