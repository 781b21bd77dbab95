\* Three connections against a limit of one.  No symmetry: it is not sound for
\* liveness.
CONSTANTS
  Conns = {c1, c2, c3}
  NoConn = NoConn
  MaxConnections = 1
  MaxFrames = 1
SPECIFICATION FairSpec
INVARIANTS
  TypeOK
  LimitHolds
  ReadersBounded
  DrainedIsQuiet
PROPERTY ShutdownReturns
