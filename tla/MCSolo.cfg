SPECIFICATION SoloSpec
CONSTANTS
  middle = middle
  c1 = c1
  c2 = c2
  large = large
  Envelopes = {middle, large}
  Size <- MCSize
  BatchSizes <- MCBatchSizes
  Uint32Size = 7
  MaxFed = 2
  Clients = {c1, c2}
  InitialMap <- MCInitialMap
  Drafts <- MCDrafts
  Satisfies <- MCSatisfies
  IsGroup <- MCIsGroup
  Admits <- MCAdmits
  BatchSizeOf <- MCBatchSizeOf
  MaxDrafts = 3
INVARIANTS
  NothingLost
  BatchesBounded
  NeverPanics
  OrderedUnderCurrentConfig
  UpdatesSeeWhatTheyRead
  ChangesAuthorized
  TimerIffPending
PROPERTIES
  CutterContract
CHECK_DEADLOCK FALSE
