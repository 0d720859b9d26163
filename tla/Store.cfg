SPECIFICATION Spec
CONSTANTS
    Browser = {b1, b2}
    Handle = {h1, h2}
    RequestId = {r1,r2,r3}
    Code = {c1}
    Ticket = {t1,t2}
    Grant = {g1}
    Email = {e1}
    App = {a1}
    Flow = {"app-owned","launcher"}
    RequestLimit = 1
    MaxRecords = 7
    RequestLife = 1
    CodeLife = 1
    SessionLife = 2
    Retention = 2
    Slack = 0
    MaxTime = 2
    MaxLag = 0
    MaxEpoch = 2
    None = None
SYMMETRY Symmetry
INVARIANTS
    EndedStaysEnded
    RequestLimitHolds
PROPERTIES
    StaleHandleHarmless
    CodeDiesWithSession
    ImplementsCentralSession
