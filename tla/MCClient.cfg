\* Two goroutines that send, two that call Init or Close twice each, two clients
\* with one shard.  No symmetry: it is not sound for liveness.
CONSTANTS
  Callers = {g1, g2}
  Admins = {a1, a2}
  Clients = {k1, k2}
  NShards = 1
  Nil = Nil
  MaxSends = 1
  MaxAdmin = 2
SPECIFICATION FairSpec
INVARIANTS
  TypeOK
  ClosedStaysClosed
  NoClientLeaks
  TornIsLast
PROPERTY CallsReturn
