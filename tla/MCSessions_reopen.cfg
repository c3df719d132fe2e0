CONSTANTS
    Sid = {s1, s2}
    UserOf <- OneUser
    Rpc = {}
    Media = {m1, m2}
    Collab = {c1}
    NULL = NULL
SPECIFICATION Spec
INVARIANTS
    ViewerIsRegistered
