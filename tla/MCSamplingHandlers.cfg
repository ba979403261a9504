CONSTANTS
  FS_WRITE_NUM = 2
  _FS_LOCK = 2
  MaxFile = 2
  UseShell = TRUE
  Patient = {"key1", "key2", "shell"}
  LowSpace = TRUE
  CardErrors = TRUE
  SlowCard = FALSE
  Resets = TRUE
  Windows = TRUE
SPECIFICATION Spec
INVARIANTS TypeOK FlagTellsTimer StoppedIsClosed
CHECK_DEADLOCK FALSE
