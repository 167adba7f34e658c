SPECIFICATION Spec
CONSTANTS
    First <- MCFirst
    Candidates <- MCCandidates
    Clients <- MCClients
    Blobs <- MCBlobs
    Outages = {{}, {"req"}, {"body"}, {"all"}}
    Messages <- MCMessages
    Percentage = 50
    MaxReloads = 1
INVARIANTS
    InForceRuns
    OneOwner
    JudgedIsCharged
    ChargedInFull
