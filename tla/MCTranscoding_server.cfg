CONSTANTS
    Media = {"v1", "old", "audio", "new", "image"}
    Audio = {"audio"}
    Image = {"image"}
    Unplayable = {"v1", "audio", "new", "image"}
    World <- CalmOrNot
    Worker = {w1, w2}
    MaxIngests = 2
    MaxReports = 1
    MaxRestarts = 1
    NULL = NULL
SPECIFICATION FairSpec
INVARIANTS
    TypeOK
    MarksAreTrue
PROPERTIES
    TranscodedOrTold
    ThumbnailedAtLast
CHECK_DEADLOCK FALSE
