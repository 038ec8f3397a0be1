\* Two requests a second: the bucket holds 4 units, a token costs 2.
CONSTANTS
  w1 = w1
  w2 = w2
  Workers = {w1, w2}
  Rate = 1
  Cost = 2
  Second = 4
  MaxAttempts = 3
  Base = 1
  Cap = 3
  MaxTime = 6
SYMMETRY WorkerSymmetry
SPECIFICATION Spec
INVARIANTS
  TypeOK
  RateRespected
  RetriesSpaced
  FailureExplained
