SPECIFICATION Spec
CONSTANTS
  Orderers = {o1, o2}
  Brokers = {o1, o2}
  Apps = {o1, o2}
  Normals = {n1}
  Configs = {c1, c2}
  TwoChunks = {}
  Large = {}
  MaxMessageCount = 3
  PreferredMaxBytes = 9
  Verify <- MCVerify
  SizeOf <- MCSizeOf
  CountOf <- MCCountOf
  BatchSize <- MCBatchSize
  Uint32Size = 32
  ReassembleTimeout = 3
  MaxLog = 5
  FaultKinds = {"crash", "failure"}
  MaxFaults = 1
INVARIANTS
  SamePositionSameState
  ValidatedUnderCurrentConfig
  NeverGivesUp
PROPERTIES
  ImplementsOrderingService
SYMMETRY Symmetry
CHECK_DEADLOCK FALSE
