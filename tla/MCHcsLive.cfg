SPECIFICATION FairSpec
CONSTANTS
  Orderers = {o1, o2}
  Brokers = {o1, o2}
  Apps = {o1, o2}
  Normals = {n1}
  Configs = {}
  TwoChunks = {n1}
  Large = {}
  MaxMessageCount = 3
  PreferredMaxBytes = 9
  Verify <- MCVerify
  SizeOf <- MCSizeOf
  CountOf <- MCCountOf
  BatchSize <- MCBatchSize
  Uint32Size = 32
  ReassembleTimeout = 3
  MaxLog = 8
  FaultKinds = {"crash", "delay", "retry"}
  MaxFaults = 1
PROPERTIES
  PendingIsCut
CHECK_DEADLOCK FALSE
