SPECIFICATION SideSpec
CONSTANTS
    s1 = s1
    s2 = s2
    a = a
    r = r
    Site = {s1, s2}
    Managed = {s1}
    Email = {a}
    Scope = {r}
    Full = Full
    None = None
    Ui = Ui
    Cli = Cli
    BaseFiles <- MCBaseFiles
    Snapshots <- MCSnapshots
    Reloading = {Ui}
    MaxCommands = 2
    MaxMishaps = 2
    Ann = Ann
    Ben = Ben
    AnnsSession = AnnsSession
    BensSession = BensSession
    Person = {Ann, Ben}
    Session = {AnnsSession, BensSession}
    OwnerOf <- Owners
    ScopeOf <- ScopesHeld
    SiteOf <- Sites
    Secret = {"old", "new"}
    OwnSite = OwnSite
    RequiredScope = RequiredScope
    FullAccess = Full
    Visit = {v1, v2}
    Nobody = Nobody
    LoginMax = 1
    MutationMax = 1
    MaxVisits = 2
INVARIANTS
    ReadStaysCurrent
    DriftShownExactly
    RuntimeIsLastPublished
    ConfirmedUnlessUnrecorded
    ChangesAreTheirs
PROPERTIES
    PublishesWhatWasReviewed
    ServiceReleasesLock
CHECK_DEADLOCK FALSE
