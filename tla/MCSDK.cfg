\* Every slice of options belongs to one goroutine, or has no room, or only one
\* goroutine appends to it.
CONSTANTS
  Callers = {"g1", "g2"}
  Plans <- MCPlans
  Arrays <- MCArrays
  Hash <- MCHash
  HTTPBodySizes <- MCSizes
  Kept <- MCKept
  MaxConns = 3
SPECIFICATION Spec
INVARIANTS
  OwnTrace
  BodyFits
