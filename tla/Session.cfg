SPECIFICATION Spec
CONSTANTS
    Excluded = {"pollInTheWindow", "changeDuringRebuild"}
    MaxFaults = 2
    MaxPauses = 1
CHECK_DEADLOCK FALSE
INVARIANTS
    EveryRebuildHasItsFault
    PauseSurvivesRollover
    EveryFileIsClosed
PROPERTIES
    FaultsAreAnswered
