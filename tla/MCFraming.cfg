\* Bytes of two values, so prefixes count to 15: length 2 is within the
\* limit, 3 is over it, 16 wraps to 0 and 17 to 1.
CONSTANTS
  Base = 2
  MaxMessageSize = 2
  Sizes = {2, 3, 16, 17}
  MaxSends = 3
  MaxDials = 2
SPECIFICATION FairSpec
INVARIANTS
  FramesIntact
  HangsUpAtLimit
PROPERTY WrittenArrives
