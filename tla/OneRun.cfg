SPECIFICATION Spec
CONSTANTS
    Absent = Absent
    User = User
    NoAlb = NoAlb
    ReadOnlyChoices = {FALSE}
    RecordResources = TRUE
    Albs <- AllAlbs
    Ports <- AllPorts
    Backends <- AllBackends
    PrivateAlbs <- MCPrivateAlbs
    SkipNames <- MCSkipNames
    UserIngresses <- OneRunUsers
    IngressNames <- OneRunNames
    Conf <- OneRunConf
    IksCms <- OpenBoth
    K8sCms = {Absent, "empty", "original"}
    TcpCms <- SomeTcpCms
    MaxFaults = 2
    MaxRuns = 1
    Crashes = FALSE
INVARIANTS
    TypeOK
    ReportedIsWritten
    UnwarnedIsComplete
    SuccessIsComplete
    SuccessMigratesPorts
    DumpIsFaithful
PROPERTIES
    ImplementsRegistry
    TestKeepsConfig
