\* Two messages of one trace, two workers on the normal queue.
CONSTANTS
  Inputs <- Pairs
  Workers <- MCWorkers
  Absent = Absent
SPECIFICATION Spec
INVARIANT
  SameTraceInOrder
