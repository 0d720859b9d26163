SPECIFICATION Spec
CONSTANTS
    Redeemers = {d1, d2}
    Adopters = {n1}
    Leavers = {o1}
    MaxEpoch = 2
    Expiring = {}
    MaxAttempts = 2
    MaxResends = 1
    Absent = Absent
    None = None
    Enough = Enough
    Txn <- MCTxn
    Key <- MCKey
    Value <- MCValue
    Answer <- MCAnswer
    Initially <- MCInitially
    NextKey <- MCNextKey
    Effect <- MCEffect
    Result <- MCResult
    MayExpire <- MCMayExpire
SYMMETRY Symmetry
CHECK_DEADLOCK FALSE
INVARIANTS
    RedeemedOnce
PROPERTIES
    LogoutIsFinal
