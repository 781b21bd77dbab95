\* Two workers, two envelopes, files of one line of which one is kept, two
\* outages, one timed-out write, one failing file operation, one restart.
\* No symmetry: it is not sound for liveness.
CONSTANTS
  Envs = {e1, e2}
  Huge = {}
  Garbage = Garbage
  MaxFileSize = 1
  MaxFiles = 1
  MaxTs = 2
  MaxFaults = 1
  MaxRestarts = 1
  Workers = {w1, w2}
  NoEnv = NoEnv
  MaxOutages = 2
  MaxTimeouts = 1
SPECIFICATION MFairSpec
INVARIANTS
  MTypeOK
  NoSilentLoss
  DuplicatesExplained
  ClosedLast
PROPERTIES
  HealthRestored
  ShutdownReturns
