CONSTANTS
  FS_WRITE_NUM = 2
  _FS_LOCK = 2
  MaxFile = 6
  UseShell = FALSE
  Patient = {"key1", "key2", "shell"}
  LowSpace = FALSE
  CardErrors = FALSE
  SlowCard = FALSE
  Resets = FALSE
  Windows = TRUE
SPECIFICATION FairSpec
INVARIANTS RecordsIntoOpenFile CardHasOneOwner
PROPERTIES NoOverwrite UsbComesBack
CHECK_DEADLOCK FALSE
