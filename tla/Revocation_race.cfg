SPECIFICATION RevocationSpec
CONSTANTS
    Jti = {j1}
    NoJti = NoJti
    Expiry <- Expiries
    Caller = {p1, p2}
    MaxTime = 4
    MaxCrash = 1
INVARIANTS
    EntriesLiveUntilExpiry
