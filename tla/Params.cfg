SPECIFICATION FairSpec
CONSTANTS
    Absent = Absent
    Pieces <- MCPieces
    Lasting <- MCLasting
    IksCms <- MCIksCms
    K8sCms <- MCK8sCms
    TestCms <- MCTestCms
    Edits <- MCEdits
    MaxFaults = 1
    MaxEdits = 1
    MaxRuns = 2
    MaxJobs = 2
INVARIANTS
    TypeOK
    LossIsWarned
PROPERTIES
    ConversionIsMeant
    AdminEditsKept
    ConflictIsRetried
