SPECIFICATION FairHttpSpec
CONSTANTS
  MaxCalls = 2
  MaxBody = 3
  Window = 1
  Raise = 1
  MaxConns = 2
  Limit = 1
  MaxBreaks = 1
CHECK_DEADLOCK FALSE
INVARIANTS
  CreditIsConserved
  OutcomeIsTrue
PROPERTIES
  CallsEnd
