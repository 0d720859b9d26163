SPECIFICATION Spec
CONSTANTS
    Creators = {r1, r2}
    Consumer = i1
    Consumed = r1
    Live = Live
    RequestLimit = 1
    MaxAttempts = 2
    MaxResends = 0
    Absent = Absent
    None = None
    Enough = Enough
    Txn <- MCTxn
    Key <- MCKey
    Value <- MCValue
    Answer <- MCAnswer
    Initially <- MCInitially
    NextKey <- MCNextKey
    Effect <- MCEffect
    Result <- MCResult
    MayExpire <- MCMayExpire
CHECK_DEADLOCK FALSE
PROPERTIES
    ImplementsAtomicTransactions
    Settles
