SPECIFICATION Spec
CONSTANTS
    Users = {ann, boss}
    Admins = {boss}
    Uploaders = {ann}
    Media = {m1, m2}
    MaxFolders = 4
    NULL = NULL
SYMMETRY FileSymmetry
INVARIANTS
    OwnersAgree
PROPERTIES
    OneHome
    LoopsAreMended
    HomeHasAll
