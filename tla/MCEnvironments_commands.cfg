SPECIFICATION Spec
CONSTANTS
    Required <- RequiredSecrets
    Local <- LocalSecrets
    MaxFaults = 1
    MaxOthers = 2
INVARIANTS
    PassedIsDone
    BoundaryFirst
PROPERTIES
    SetupsConverge
    TeardownsConverge
