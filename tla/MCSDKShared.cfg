\* One slice of options in two goroutines.
CONSTANTS
  Callers = {"g1", "g2"}
  Plans <- SharedPlans
  Arrays <- MCArrays
  Hash <- MCHash
  HTTPBodySizes <- OneSize
  Kept <- MCKept
  MaxConns = 3
SPECIFICATION Spec
INVARIANT OwnTrace
