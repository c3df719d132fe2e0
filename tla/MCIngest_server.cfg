CONSTANTS
    File = {"a", "copy", "other", "theirs", "up", "nobody", "tiny"}
    Uploaded = {"copy", "up"}
    Unreadable = {"other"}
    Unnamed = {"nobody"}
    LooksEmpty = {"tiny"}
    NameOf <- SameName
    UserOf <- Users
    SampleOf <- OneCopy
    Registered = {"u1", "u2"}
    Deletion = {"d1", "d2"}
    Scene <- CopiesOrUsers
    MaxJobs = 1
    MaxRestarts = 1
    NULL = NULL
SPECIFICATION FairSpec
INVARIANTS
    TypeOK
    ContentKept
    NothingDangling
    RowHasFile
    IngestedForItsUser
PROPERTIES
    FilesAreHandled
CHECK_DEADLOCK FALSE
