SPECIFICATION Spec
CONSTANTS
    Manifests <- MCManifests
    Malformed = {"garbled"}
    Image = "image"
    Edits = {"edit"}
    Fits <- MCFits
    LevelOf <- MCLevels
    Ticking = TRUE
    MaxPublish = 2
    MaxEdits = 0
    MaxCrashes = 0
    MaxFaults = 0
PROPERTIES
    HotReload
