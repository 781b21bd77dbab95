\* Every single frame, and pairs of frames; two workers on the normal queue.
CONSTANTS
  Inputs <- OneOrTwo
  Workers <- MCWorkers
  Absent = Absent
SPECIFICATION Spec
INVARIANTS
  SentAsContracted
  CountedOnce
