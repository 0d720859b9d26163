SPECIFICATION Spec
CONSTANTS
    s1 = s1
    s2 = s2
    a = a
    r = r
    Site = {s1, s2}
    Managed = {s1}
    Email = {a}
    Scope = {r}
    Full = Full
    None = None
    Ui = Ui
    Cli = Cli
    BaseFiles <- MCBaseFiles
    Snapshots <- MCSnapshots
    Reloading = {Ui, Cli}
    MaxCommands = 2
    MaxMishaps = 2
INVARIANT
    ConfirmedMeansActive
CHECK_DEADLOCK FALSE
