\* Does a mint or burn have to exceed its threshold?
SPECIFICATION Spec
CONSTANTS
  RawLogs <- MCRawLogs
  ChainId = 1
  Nibble = 2
  Radix = 10
  WordWidth = 2
  AddressWidth = 1
  Throws = Throws
  U32 = 4
  U64 = 65536
  LargeTransfers <- MCLargeTransfers
  Governance <- MCGovernance
  MintBurns <- MCMintBurns
  Approvals <- MCApprovals
  Bridges <- MCBridges
  Oracles <- MCOracles
  BridgeAddresses <- MCBridgeAddresses
  NoFilter = NoFilter
INVARIANTS MintBurnExceeds
CHECK_DEADLOCK FALSE
