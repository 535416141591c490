SPECIFICATION Spec
CONSTANTS
    Users = {"root"}
    AlnumUsers = {"root"}
    Hashes = {"h0"}
    PlainHashes = {"h0"}
    MaxI64 = 3
    Word <- MCWord
    Texts <- MCTexts
    Quoteless <- MCQuoteless
    Cut <- MCCut
    Split <- MCSplit
    Utf8 = {}
    Colons = {}
    Crypted = {}
    Generated <- MCGenerated
    Sources <- MCSources
    Torn <- MCTorn
    MaxFaults = 3
INVARIANTS
    TypeOK
    WholeOrNothing
