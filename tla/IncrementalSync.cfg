SPECIFICATION Spec
CONSTANTS
  Items = {1, 2}
  Chunk = 2
  MaxChunks = 2
  Overlap = 1
  Lookback = 2
  Pad = 2
  PageSize = 1
  Skew = 1
  Lag = 1
  FirstTime = 3
  MaxTime = 4
  Targets = {0}
  MaxTroubles = 1
INVARIANTS TypeOK NoGap
PROPERTY EveryChangeArrives
