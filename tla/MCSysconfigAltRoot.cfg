SPECIFICATION Spec
CONSTANTS
    Users = {"root", "adm"}
    AlnumUsers = {"root", "adm"}
    Hashes = {"h0", "h1", "odd"}
    PlainHashes = {"h0", "h1"}
    MaxI64 = 3
    Absent = Absent
    Word <- MCWord
    MaxFaults = 2
    Disks <- FreshOnly
    Configs <- LocaleOnly
    Modes = {"altroot"}
PROPERTY AltRootLeavesHostAlone
