\* A node that answers null for a slot without a block.
CONSTANTS
  w1 = w1
  w2 = w2
  Workers = {w1}
  Rate = 1
  Cost = 2
  Second = 4
  MaxAttempts = 3
  Base = 1
  Cap = 3
  MaxTime = 4
SPECIFICATION Spec
INVARIANT NullMeansSkipped
