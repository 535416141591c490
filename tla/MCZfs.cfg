SPECIFICATION FairSpec
CONSTANTS
    Datasets <- MCDatasets
    Snapshots = {"s", "t@u"}
    AtNames <- MCAtNames
    AtSnapshots = {"t@u"}
    MaxFaults = 1
INVARIANT TypeOK
PROPERTIES
    AnswersTrue
    ExportEnds
