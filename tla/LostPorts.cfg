SPECIFICATION Spec
CONSTANTS
    Absent = Absent
    User = User
    NoAlb = NoAlb
    ReadOnlyChoices = {TRUE}
    RecordResources = TRUE
    Albs <- AllAlbs
    Ports <- AllPorts
    Backends <- AllBackends
    PrivateAlbs <- MCPrivateAlbs
    SkipNames <- MCSkipNames
    UserIngresses <- RerunUsers
    IngressNames <- RerunNames
    Conf <- RerunConf
    IksCms <- OpenBoth
    K8sCms = {"original"}
    TcpCms <- NoTcpCms
    MaxFaults = 0
    MaxRuns = 1
    Crashes = FALSE
INVARIANTS
    DumpMigratesPorts
