SPECIFICATION Spec
CONSTANTS
  Orderers = {o1, o2}
  Brokers = {o1, o2}
  Apps = {o1, o2}
  Normals = {n1, n2}
  Configs = {c1}
  TwoChunks = {}
  Large = {}
  MaxMessageCount = 3
  PreferredMaxBytes = 9
  Verify <- MCVerify
  SizeOf <- MCSizeOf
  CountOf <- MCCountOf
  BatchSize <- MCBatchSize
  Uint32Size = 32
  ReassembleTimeout = 3
  MaxLog = 6
  FaultKinds = {}
  MaxFaults = 0
INVARIANTS
  DiscardedWasConsumed
SYMMETRY Symmetry
CHECK_DEADLOCK FALSE
