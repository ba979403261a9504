CONSTANTS
  UART8_RBUF_SIZE = 4
  UintMax = 8
  Printers = {1, 2}
  MaxTyped = 8
  Timeouts = TRUE
SPECIFICATION FairSpec
INVARIANTS TypeOK LockIsHeld
PROPERTIES IsQueue EveryCharRead
CHECK_DEADLOCK FALSE
