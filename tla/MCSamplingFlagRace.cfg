CONSTANTS
  FS_WRITE_NUM = 2
  _FS_LOCK = 2
  MaxFile = 4
  UseShell = FALSE
  Patient = {"key1", "shell"}
  LowSpace = FALSE
  CardErrors = FALSE
  SlowCard = FALSE
  Resets = FALSE
  Windows = FALSE
SPECIFICATION Spec
INVARIANT FlagTellsTimer
CHECK_DEADLOCK FALSE
