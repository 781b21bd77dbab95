\* A failed replay against "kept, and retried later".
CONSTANTS
  Envs = {e1, e2}
  Huge = {}
  Garbage = Garbage
  MaxFileSize = 1
  MaxFiles = 2
  MaxTs = 2
  MaxFaults = 0
  MaxRestarts = 0
  Workers = {w1}
  NoEnv = NoEnv
  MaxOutages = 2
  MaxTimeouts = 0
SPECIFICATION MSpec
INVARIANT FailedReplayKept
