SPECIFICATION Spec
CONSTANTS
    Profiles <- MCProfiles
    Actions <- MCActions
    Axes <- MCAxes
    Percents = {0, 50, 100}
    Fills = {0, 50}
    HalvesUp = {}
    MaxActions = 2
    MaxReloads = 1
    MaxFaults = 1
INVARIANTS
    VerdictIsStrongest
    ObserveRehearses
    NoteOnce
    NoteKept
