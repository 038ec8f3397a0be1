\* Every transaction of up to four steps.
CONSTANTS
  TokenAccounts = {"a1", "a2", "b1", "w1", "poolA", "poolB", "poolW"}
  MintOf <- MCMintOf
  OpenedBy <- MCOpenedBy
  Mints = {"A", "B", "WSOL"}
  WsolMint = "WSOL"
  Rent = 3
  Dust = 2
  Fee = 1
  Amounts = {1, 3}
  InitialAmount = 3
  Funds = 20
  MaxSteps = 4
SPECIFICATION Spec
INVARIANTS
  TradeIsTheExchange
  ExclusionsExplained
CHECK_DEADLOCK FALSE
