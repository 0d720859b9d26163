SPECIFICATION FilesSpec
CONSTANTS
    MaxArchived = 2
    PerFile = 2
    MaxEvents = 7
    MaxCuts = 2
    Jti = {j1}
    NoJti = NoJti
    Expiry <- Expiries
    Caller = {p1, p2, p3}
    MaxTime = 4
    MaxCrash = 1
    SignInEmailRateLimitMax = 2
    RateLimitWindow = 2
    Request = {q1, q2}
    MaxAttempts = 4
    MaxClock = 4
    Operation = {o1, o2}
    MaxChanges = 4
    MaxOutages = 2
    Challenge = {n1, n2}
    Attempts = 2
    Worker = {w1, w2}
    NoChallenge = NoChallenge
    MaxHalts = 1
    MaxGuesses = 3
    Server = Server
    Cli = Cli
    Post1 = Post1
    Post2 = Post2
    Command = Command
    None = None
    Process = {Server, Cli}
    Task = {Post1, Post2, Command}
    HomeOf <- ServerAndCli
    Versions = 3
    Gallery = Gallery
    Board = Board
    Here = Here
    There = There
    Moved = Moved
    Ann = Ann
    Read = Read
    Full = Full
    Blank = Blank
    Malformed = Malformed
    Nothing = Nothing
    Email = {Ann}
    Scope = {Read}
    Managed = Gallery
    Text <- Texts
    FirstText <- Plain
    GrantSets <- Sets
    Url <- Urls
    Call = {c1}
    Mail = {m1}
    Onward = {f1}
    MaxWrites = 2
    MaxCrashes = 1
PROPERTIES
    DeadLockIsRecovered
INVARIANTS
    HistoryWithoutHoles
    SignOutKept
    LimitHoldsInEveryWindow
    AnsweredChangesSurvive
    AttemptsNeverGivenBack
    NoLostUpdate
    AdmitsAsWritten
    AdmittedWhenAsked
    DeliveredAtHome
CHECK_DEADLOCK FALSE
