CONSTANTS
  byte1 = byte1
  byte2 = byte2
  file1 = file1
  file2 = file2
  Name = {file1, file2}
  LongName = long
  Byte = {byte1, byte2}
  NLFL = 2
  NDIR = 2
  BLK = 1
  IBLEN = 1
  IBS = 2
  DBS = 2
  MAXLEN = 2
  Mode <- Modes
SYMMETRY Symmetry
VIEW WithoutOut
SPECIFICATION Spec
INVARIANTS BlocksOnce ClosedSaved
PROPERTY ImplementsFiles
CHECK_DEADLOCK FALSE
