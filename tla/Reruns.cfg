SPECIFICATION Spec
CONSTANTS
    Absent = Absent
    User = User
    NoAlb = NoAlb
    ReadOnlyChoices = {TRUE, FALSE}
    RecordResources = TRUE
    Albs <- AllAlbs
    Ports <- AllPorts
    Backends <- AllBackends
    PrivateAlbs <- MCPrivateAlbs
    SkipNames <- MCSkipNames
    UserIngresses <- RerunUsers
    IngressNames <- RerunNames
    Conf <- RerunConf
    IksCms <- OpenClosedOrMissing
    K8sCms = {"original"}
    TcpCms <- SomeTcpCms
    MaxFaults = 2
    MaxRuns = 2
    Crashes = TRUE
INVARIANTS
    ReportedIsWritten
    NeverMigratedTwice
    SuccessIsComplete
    SuccessMigratesPorts
    StatusStartsEmpty
    UnwarnedIsComplete
PROPERTIES
    StatusKeepsMode
    ImplementsRegistry
