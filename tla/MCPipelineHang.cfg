\* The writer may die on a failed commit: the senders the code means to stop
\* then wait on channels nobody reads.
CONSTANTS
  f1 = f1
  f2 = f2
  a1 = a1
  a2 = a2
  Slots = {0, 1, 2, 3, 4}
  First = {0, 1, 2, 3, 4}
  Second = {1, 2, 3, 4}
  Ranges <- MCRanges
  Fetchers = {f1}
  Analysers = {a1, a2}
  RawCap = 1
  WriteCap = 1
  BatchBlocks = 2
  ExitAfterIngest = TRUE
  AnalyseOnRuntime = FALSE
  Faults = {"commit"}
  MaxRuns = 1
  MaxPauses = 0
SPECIFICATION Spec
INVARIANT BlockedOnlyByLiveConsumer
CHECK_DEADLOCK FALSE
