CONSTANTS
    HandoffAttempts = 2
    MaxIds = 2
    MaxMishaps = 1
    MaxMarkers = 1
    MaxEmergencies = 1
SPECIFICATION FairSpec
CHECK_DEADLOCK FALSE
INVARIANTS CountIsKept SnapshotFirst HandoffIsTrue
PROPERTIES KeepsConversation EmergencyDropsNothing LineSentOnce RotationEnds
