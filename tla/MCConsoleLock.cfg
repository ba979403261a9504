CONSTANTS
  UART8_RBUF_SIZE = 4
  UintMax = 8
  Printers = {1}
  MaxTyped = 4
  Timeouts = FALSE
SPECIFICATION FairSpec
PROPERTY ReceptionRestarts
CHECK_DEADLOCK FALSE
