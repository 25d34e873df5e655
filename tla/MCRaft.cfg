SPECIFICATION RaftSpec
CONSTANTS
  o1 = o1
  o2 = o2
  Nodes = {o1, o2}
  Candidates = {o1, o2}
  ConsenterList <- MCTwo
  None = None
  Normals = {n1}
  Configs = {c1}
  Removed = o2
  Removes <- MCRemoves
  BatchSize <- MCBatchSize
  Uint32Size = 16
  MaxTerm = 2
  MaxIndex = 4
  MaxInflightBlocks = 1
  Snapshotters = {o1}
  MaxCrashes = 1
INVARIANTS
  
  HashChained
  OrderedUnderCurrentConfig
  ServesInSync

  
CHECK_DEADLOCK FALSE
