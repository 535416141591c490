SPECIFICATION Spec
CONSTANTS
    Users = {"root", "adm", "sys", "pkg_srv"}
    AlnumUsers = {"root", "adm", "sys"}
    Hashes = {"h1", "h2", "odd"}
    PlainHashes = {"h1", "h2"}
    MaxI64 = 3
    InitialFiles <- MCInitialFiles
    Donor <- MCDonor
INVARIANTS
    TypeOK
    StaysReadable
PROPERTIES
    OthersKept
    MarksKept
