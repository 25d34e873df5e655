SPECIFICATION FairSpec
CONSTANTS
    t1 = t1
    t2 = t2
    t3 = t3
    a = a
    p = p
    Nil = Nil
    Txs = {t1, t2}
    PubKeys = {a}
    PvtKeys = {p}
    Program <- MCSmallProgram
    BlocksPerFile = 2
    BTL = 1
    MaxHeight = 4
    MaxBlockTxs = 1
    MaxCrashes = 1
    Operations <- MCOperations
    MaxOperations = 2
INVARIANTS
    StateIsSerial
PROPERTIES
    EndorsementsNeverGoBack
    CatchesUp
CHECK_DEADLOCK FALSE
