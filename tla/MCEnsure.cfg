SPECIFICATION FairSpec
CONSTANTS
    Missing = Missing
    Nodes <- MCNodes
    CallSets <- MCCallSets
    Defaults <- MCDefaults
    MaxFaults = 2
    MaxInterference = 1
INVARIANTS
    TypeOK
    EnsuredOnReturn
    QuietMeansUntouched
    SecondCallQuiet
    StaysOnPath
PROPERTIES
    FilestrKeeps
    Converges
