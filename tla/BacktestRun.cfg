\* A backtest of [0, 3] on a chain that grows past it, through a ring of two
\* slots: the source begins with ranges of four blocks, the node answers one
\* block at a time and may be one block behind.
SPECIFICATION Spec
CONSTANTS
  Capacity = 2
  Signals <- MCSignals
  Metrics = FALSE
  Producers <- MCProducers
  Firing <- MCFiring
  KeyOf <- MCKeyOf
  NoSignal = NoSignal
  Pill = Pill
  Logs <- MCSignals
  BlockOf <- MCBlockOf
  Malformed = {}
  Unparsable = {}
  StartBlock = 0
  BacktestEnd = 3
  MaxBlockRange = 4
  RpcLimit = 1
  MaxLag = 1
  MaxHead = 4
INVARIANTS BacktestExact InOrderOnce ReportComplete NoAlertDropped
PROPERTIES ImplementsEventSource EndsUnlessStopOverwritten
CHECK_DEADLOCK FALSE
