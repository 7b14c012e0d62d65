\* Live polling without a checkpoint: cold start at any head, then catch-up.
SPECIFICATION FairSpec
CONSTANTS
  Logs <- MCLogs
  BlockOf <- MCBlockOf
  Malformed <- MCMalformed
  Unparsable <- MCUnparsable
  StartBlock = 0
  BacktestEnd = 0
  MaxBlockRange = 3
  RpcLimit = 2
  MaxLag = 1
  MaxHead = 5
  Capacity = 2
INVARIANTS TypeOK NothingSkipped RepeatsOnlyAfterAbort NeverPastHead MalformedBlocks
PROPERTIES ImplementsBlockFeed EveryLogDelivered StopEndsRun
CHECK_DEADLOCK FALSE
