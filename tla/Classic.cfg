SPECIFICATION ClassicSpec
CONSTANTS
    Jti = {m1, m2}
    Context = {x1}
    Callback = {x1}
    Call = {t1, t2}
    None = None
    OtpEnabled = TRUE
    Attempts = 2
    LinkLife = 2
    OtpLife = 1
    MaxTime = 3
    MaxLag = 1
    Tab = {t1, t2}
    Mail = {m1, m2}
    Url = {u1, u2}
    Nil = Nil
    Kept = Kept
    MaxRequests = 4
    MaxFaults = 1
SYMMETRY ClassicSymmetry
INVARIANTS
    CodeAcceptedOnce
    GuessesBounded
    ExchangedOnlyIfConfirmed
    SpentForItsVisitor
    EndsWhereItBegan
PROPERTIES
    SpentOnceWhileKept
    ForwardsOnlyLiveSessions
CHECK_DEADLOCK FALSE
