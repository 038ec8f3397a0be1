\* Three runs of two processes over the same slots, at a time or one after the
\* other, each stopped at any point.
CONSTANTS
  p1 = p1
  p2 = p2
  NoProcess = NoProcess
  Processes = {p1, p2}
  Slots = {1, 2}
  BatchBlocks = 2
  MaxRuns = 3
SPECIFICATION Spec
SYMMETRY ProcessSymmetry
INVARIANTS
  TypeOK
  RowsFollowStatus
  OnlyWholeBatches
  SettledOnce
  CandlesCurrent
  NoRowOutlivesItsSlot
PROPERTY LedgerWhileAlone
