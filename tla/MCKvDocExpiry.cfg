SPECIFICATION Spec
CONSTANTS
    t1 = t1
    t2 = t2
    t3 = t3
    a = a
    p = p
    Nil = Nil
    Txs = {t1, t2}
    PubKeys = {a}
    PvtKeys = {p}
    Program <- MCDeleteProgram
    BlocksPerFile = 2
    BTL = 1
    MaxHeight = 4
    MaxBlockTxs = 2
    MaxCrashes = 0
    Operations = {}
    MaxOperations = 0
INVARIANT
    HashExpires
CHECK_DEADLOCK FALSE
