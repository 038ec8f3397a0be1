\* Two runs over overlapping ranges; processes killed at any point, analyses
\* that take their worker down, commits and candle rebuilds that fail. A failed
\* commit can hang the pipeline, so deadlock is not checked here.
CONSTANTS
  f1 = f1
  f2 = f2
  a1 = a1
  a2 = a2
  Slots = {0, 1, 2}
  First = {0, 1}
  Second = {1, 2}
  Ranges <- MCRanges
  Fetchers = {f1, f2}
  Analysers = {a1, a2}
  RawCap = 1
  WriteCap = 2
  BatchBlocks = 2
  ExitAfterIngest = FALSE
  AnalyseOnRuntime = TRUE
  Faults = {"crash", "panic", "rebuild", "commit"}
  MaxRuns = 2
  MaxPauses = 1
SYMMETRY WorkerSymmetry
SPECIFICATION Spec
INVARIANTS
  TypeOK
  SlotHeldOnce
  InFlightNotCompleted
  QueueGaugesExact
  EverySlotAccountedFor
  RebuildFollowsEveryRow
PROPERTY LedgerSpec
CHECK_DEADLOCK FALSE
