\* A page watches one run over two slots: what it shows in the end is what is
\* stored. It need not be.
CONSTANTS
  f1 = f1
  a1 = a1
  Slots = {0, 1}
  Ranges <- MCRanges
  Fetchers = {f1}
  Analysers = {a1}
  RawCap = 1
  WriteCap = 1
  BatchBlocks = 2
  ExitAfterIngest = FALSE
  AnalyseOnRuntime = FALSE
  Faults = {}
  MaxRuns = 1
  MaxPauses = 0
  MaxAsks = 2
SPECIFICATION DashboardSpec
INVARIANT RefreshedOnceIngested
CHECK_DEADLOCK FALSE
