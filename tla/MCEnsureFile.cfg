SPECIFICATION Spec
CONSTANTS
    Missing = Missing
    Nodes <- MCNodes
    CallSets <- OneCall
    Defaults <- MCDefaults
    MaxFaults = 2
    MaxInterference = 1
PROPERTY FileKeeps
