\* Five envelopes, one of them too long for the scanner, two lines per file,
\* one .done file kept, two failing file operations, two restarts.
CONSTANTS
  Envs = {e1, e2, e3, e4, e5}
  Huge = {e5}
  Garbage = Garbage
  MaxFileSize = 2
  MaxFiles = 1
  MaxTs = 5
  MaxFaults = 2
  MaxRestarts = 2
SPECIFICATION FSpec
SYMMETRY Symmetry
INVARIANTS
  FTypeOK
  NothingStoredIsLost
  ReplayInOrder
  NoStrandedLog
  FilesGaugeExact
