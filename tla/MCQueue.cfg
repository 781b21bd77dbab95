\* Two producers, two workers, three envelopes, a channel that is full after
\* one.  No symmetry: it is not sound for liveness.
CONSTANTS
  Producers = {p1, p2}
  Workers = {w1, w2}
  Envs = {e1, e2, e3}
  Capacity = 1
  NoEnv = NoEnv
SPECIFICATION FairSpec
INVARIANTS
  TypeOK
  CloseHandlesAllOnce
  DrainingAlone
  IInv
PROPERTIES
  NoSendOnceStopped
  ContractSpec
  EnqueueReturns
  CloseReturns
