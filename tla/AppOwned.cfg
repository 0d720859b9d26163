SPECIFICATION OwnedSpec
CONSTANTS
    Browser = {b1, b2}
    Tab = {t1, t2}
    State = {s1, s2}
    Req = {r1, r2}
    Mail = {m1, m2}
    Email = {e1, e2}
    None = None
    MaxPending = 1
    MaxFaults = 1
SYMMETRY Symmetric
INVARIANTS
    CompletedForItsSession
    SignedInByItsVisitor
    LocalSessionFirst
CHECK_DEADLOCK FALSE
