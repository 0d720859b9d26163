SPECIFICATION HostedSpec
CONSTANTS
    Browser = {b1}
    Handle = {h1, h2}
    RequestId = {r1, r2}
    Code = {k1}
    Ticket = {}
    Grant = {g1, g2}
    Email = {e1}
    App = {a1, apps}
    Launcher = apps
    MaxLapses = 2
    Call = {c1, c2}
    Flow = {"hosted", "launcher"}
    RequestLimit = 2
    MaxRecords = 4
    RequestLife = 1
    CodeLife = 1
    SessionLife = 2
    Retention = 2
    Slack = 0
    MaxTime = 0
    MaxLag = 0
    MaxEpoch = 0
    None = None
CONSTRAINT HostedBounded
SYMMETRY HostedSymmetry
CHECK_DEADLOCK FALSE
INVARIANTS
    MailSignsInOnce
    NoIdentityLeftBehind
PROPERTIES
    NothingReleasedAgainstTheRules
    CompletedByLatestMail
