SPECIFICATION FairSpec
CONSTANTS
    Users = {"root", "adm"}
    AlnumUsers = {"root", "adm"}
    Hashes = {"h0", "h1", "odd"}
    PlainHashes = {"h0", "h1"}
    MaxI64 = 3
    Absent = Absent
    Word <- MCWord
    MaxFaults = 2
    Disks <- MCDisks
    Configs <- MCConfigs
    Modes = {"smf", "mock"}
INVARIANTS
    TypeOK
    FinishedMeansApplied
PROPERTIES
    RunGuard
    InitFileKept
    AccountsKept
    RerunChangesNothing
    ImplementsRunOnce
    WedgedForGood
    FinishesOrWedges
    Converges
