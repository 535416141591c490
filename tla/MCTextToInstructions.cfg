SPECIFICATION TextSpec
CONSTANTS
    Users = {"root"}
    AlnumUsers = {"root"}
    Hashes = {"$6$h", "h0"}
    PlainHashes = {"$6$h", "h0"}
    MaxI64 = 3
    Word <- MCWord
    Texts <- MCTexts
    Quoteless <- MCQuoteless
    Cut <- MCCut
    Split <- MCSplit
    Utf8 = {}
    Colons = {"::1"}
    Crypted = {"$6$h"}
    Generated <- MCGenerated
    Numbers = {"12"}
    Styles <- MCStyles
CHECK_DEADLOCK FALSE
INVARIANTS
    PasswordsArriveHashed
    ReadApart
    LayoutKept
