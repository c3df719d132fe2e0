CONSTANTS
    Ses = {s1}
    Up = {u1, u2}
    MaxFaults = 1
SPECIFICATION FairSpec
INVARIANTS
    EndsInOrder
    OrganizerFirst
    BackchannelIsThere
PROPERTIES
    Ends
    UploadsAreTaken
CHECK_DEADLOCK FALSE
