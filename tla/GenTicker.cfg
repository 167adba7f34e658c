SPECIFICATION Spec
CONSTANTS
    Manifests <- TickerManifests
    Malformed = {}
    Image = "image"
    Edits = {"edit"}
    Fits <- MCFits
    LevelOf <- TickerLevels
    Ticking = TRUE
    MaxPublish = 2
    MaxEdits = 1
    MaxCrashes = 1
    MaxFaults = 1
INVARIANTS
    ServesValid
PROPERTIES
    Converges
