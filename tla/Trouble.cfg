SPECIFICATION FairSpec
CONSTANTS
    Absent = Absent
    User = User
    NoAlb = NoAlb
    ReadOnlyChoices = {FALSE}
    RecordResources = FALSE
    Albs <- AllAlbs
    Ports <- AllPorts
    Backends <- AllBackends
    PrivateAlbs <- MCPrivateAlbs
    SkipNames <- MCSkipNames
    UserIngresses <- TroubleUsers
    IngressNames <- TroubleNames
    Conf <- TroubleConf
    IksCms <- OpenOrMissing
    K8sCms = {"original"}
    TcpCms <- SomeTcpCms
    MaxFaults = 1
    MaxRuns = 1
    Crashes = FALSE
INVARIANTS
    ReportedIsWritten
    UnwarnedIsComplete
PROPERTIES
    ImplementsRegistry
    OthersAreMigrated
