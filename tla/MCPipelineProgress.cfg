\* Channels of one element, with crashes, panics, failing rebuilds and pauses:
\* every queue fills up to the feeder; under fairness a run ends and a shutdown
\* ends.
CONSTANTS
  f1 = f1
  f2 = f2
  a1 = a1
  a2 = a2
  Slots = {0, 1, 2, 3}
  First = {0, 1, 2, 3}
  Second = {1, 2, 3}
  Ranges <- MCRanges
  Fetchers = {f1}
  Analysers = {a1}
  RawCap = 1
  WriteCap = 1
  BatchBlocks = 2
  ExitAfterIngest = FALSE
  AnalyseOnRuntime = FALSE
  Faults = {"crash", "panic", "rebuild"}
  MaxRuns = 1
  MaxPauses = 1
SPECIFICATION FairSpec
INVARIANT BlockedOnlyByLiveConsumer
PROPERTIES
  RunReturns
  ExitCompletes
