SPECIFICATION Spec
CONSTANTS
  Orderers = {o1, o2}
  Brokers = {o1}
  Apps = {o1, o2}
  Normals = {n1, n2, n3, n4}
  Configs = {}
  TwoChunks = {n1}
  Large = {}
  MaxMessageCount = 3
  PreferredMaxBytes = 1
  Verify <- MCVerify
  SizeOf <- MCSizeOf
  CountOf <- MCCountOf
  BatchSize <- MCBatchSize
  Uint32Size = 32
  ReassembleTimeout = 3
  MaxLog = 5
  FaultKinds = {"crash"}
  MaxFaults = 1
INVARIANTS
  SamePositionSameState
  LedgerInLogOrder
  HashesArePending
PROPERTIES
  ImplementsOrderingService
SYMMETRY Symmetry
CHECK_DEADLOCK FALSE
