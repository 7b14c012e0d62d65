\* Every kind of row, and starts that fail, through both loaders.
SPECIFICATION Spec
CONSTANTS
  Nibble = 2
  Radix = 3
  WordWidth = 2
  AddressWidth = 1
  Throws = Throws
  Skipped = Skipped
  Missing = Missing
  WrongType = WrongType
  U64 = 4
  Coerced <- MCCoerced
  True = True
  Half = Half
  DefaultChain = 1
  DefaultToken <- MCToken
  DefaultThreshold <- MCNumber
  MaxBps = 3
  MaxDecimals = 2
  MasterKeys = {k1, k2}
  Owners = {1, 2}
  Urls = {u}
  GivenSecrets = {1}
  NoKey = NoKey
  BadKey = BadKey
  Refused = Refused
  Null = Null
  CommonRows <- MCCommonRows
  Scenarios <- MCScenarios
  MaxRetries = 2
INVARIANTS RowsInEffect NothingInvented BacktestAgrees ReadyFileTruthful SecretsHold
CHECK_DEADLOCK FALSE
