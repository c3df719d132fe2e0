CONSTANTS
    Sid = {s1, s2}
    UserOf <- OneUser
    Rpc = {r1}
    Media = {m1, m2}
    Collab = {c1, c2}
    NULL = NULL
SPECIFICATION Spec
SYMMETRY Symmetry
INVARIANTS
    SendsNeverFail
    NoStaleViewer
    ClosedLeavesNothing
    CollabAgreement
    OneCollab
PROPERTIES
    ImplementsRooms
