SPECIFICATION Spec
CONSTANTS
    Manifests <- MCManifests
    Malformed = {"garbled"}
    Image = "image"
    Edits = {"edit"}
    Fits <- MCFits
    LevelOf <- MCLevels
    Ticking = FALSE
    MaxPublish = 3
    MaxEdits = 0
    MaxCrashes = 2
    MaxFaults = 2
INVARIANTS
    AppliedIsServed
    LiveMatchesReport
PROPERTIES
    SurvivesRestart
    LastGoodKept
CHECK_DEADLOCK FALSE
