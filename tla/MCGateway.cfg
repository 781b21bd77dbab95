\* One connection with two envelopes, each for either queue.  The deadlock is
\* the shutdown that began before the server listened, with no worker to empty
\* the queue its late connection is blocked on (README.md, section 3).
CONSTANTS
  Conns = {c1}
  NoConn = NoConn
  MaxConnections = 1
  MaxFrames = 2
  Environments <- MCEnvironments
SPECIFICATION GFairSpec
INVARIANTS
  NothingLeftBehind
  WritersOutliveWorkers
  RefusedOnlyWhenForced
PROPERTY SignalEnds
CHECK_DEADLOCK FALSE
