SPECIFICATION Spec
CONSTANTS
  Names = {"n"}
  MaxFrame = 1
  MaxEntry = 4
  MaxDoc = 5
  MaxUp = 2
  Env <- Anything
INVARIANTS HistorySafe
PROPERTIES NameStable
CHECK_DEADLOCK FALSE
