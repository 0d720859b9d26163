SPECIFICATION Spec
CONSTANTS
    Server = Server
    Cli = Cli
    Cli2 = Cli2
    Post1 = Post1
    Post2 = Post2
    Command = Command
    Command2 = Command2
    None = None
    Process = {Server, Cli, Cli2}
    Task = {Post1, Command, Command2}
    HomeOf <- ThreeRuns
    Versions = 3
    MaxCrashes = 1
INVARIANTS
    NoLostUpdate
