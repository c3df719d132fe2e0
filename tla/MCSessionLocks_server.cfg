CONSTANTS
    Thread = {t1, t2, t3}
    Jobs = {"register", "link", "joinCollab", "leaveCollab", "endSession",
            "sendSession", "sendUser", "sendMedia", "sendCollab"}
    NULL = NULL
SPECIFICATION Spec
INVARIANTS
    NoCircularWait
