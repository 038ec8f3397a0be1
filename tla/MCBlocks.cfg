\* Every block of up to four transactions over two accounts, each used in every
\* way a message can use it; account 3 is the vote program.
CONSTANTS
  Accounts = {1, 2, 3, 4}
  Programs = {3, 4}
  ProgramSets <- MCProgramSets
  VoteProgram = 3
  MaxConflictRows = 1
  MaxTxs = 4
SPECIFICATION BlocksSpec
INVARIANTS
  TypeOK
  AttributionExact
  VotesNeverHelp
  RowsAreTheHottest
  StepsAreEarliest
  DepthIsLongestChain
  WidthsPartitionBlock
  ResolvedAsDeclared
PROPERTY AnalysedAsContention
