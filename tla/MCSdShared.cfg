CONSTANTS
  Callers = {1, 2}
  Kinds = {"read", "write"}
  MaxCalls = 4
  Usb = TRUE
  CardErrors = TRUE
  CardStalls = TRUE
SPECIFICATION FairSpec
INVARIANTS TypeOK OkMeansStored LostOnlyIfPreempted
PROPERTIES CallsReturn
CHECK_DEADLOCK FALSE
