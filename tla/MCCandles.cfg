\* Two-tick and four-tick candles over the ticks 0 to 4; a time of 0 is a row without one.
CONSTANTS
  MCMints = {1, 2}
  MCSlots = {1, 2, 3}
  MCIndexes = {0, 1}
  MCTimes = {0, 1, 2, 4}
  MCPrices = {1, 2}
  MCMaxTrades = 3
  Trade <- MCTrade
  TradeSets <- MCTradeSets
  OldCandles <- MCOldCandles
  Short = 2
  Long = 4
SPECIFICATION Spec
INVARIANTS
  TypeOK
  OneCandlePerBucket
  CandlesAreTheTrades
  LongFromShort
