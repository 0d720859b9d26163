SPECIFICATION Spec
CONSTANTS
    Jti = {j1, j2}
    Context = {x1}
    Callback = {x1}
    Call = {c1, c2}
    None = None
    OtpEnabled = TRUE
    Attempts = 2
    LinkLife = 2
    OtpLife = 1
    MaxTime = 3
    MaxLag = 0
SYMMETRY Symmetry
CHECK_DEADLOCK FALSE
INVARIANTS
    OneSignInPerRequest
