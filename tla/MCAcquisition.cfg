CONSTANTS
  Half = 2
  FormatMax = 1
  WriteMax = 0
  FS_WRITE_NUM = 2
  MaxSample = 12
SPECIFICATION Spec
INVARIANTS TypeOK NoTornBuffer NoLostBuffer FileSizeLimit CompletedIsStored
PROPERTIES NoOverrun RefinesRecorder
