\* A checkpoint row the service created: is anything lost over a restart?
SPECIFICATION RestartSpec
CONSTANTS
  Logs <- MCLogs
  BlockOf <- MCBlockOf
  Malformed = {}
  Unparsable = {}
  StartBlock = 0
  BacktestEnd = 0
  MaxBlockRange = 2
  RpcLimit = 1
  MaxLag = 0
  MaxHead = 3
  Capacity = 2
  MaxRestarts = 1
INVARIANTS NoGapAcrossRestarts
CHECK_DEADLOCK FALSE
