CONSTANTS
    Thread = {t1, t2}
    Jobs = {"register", "showToSession"}
    NULL = NULL
SPECIFICATION FairSpec
PROPERTIES
    CallsReturn
CHECK_DEADLOCK FALSE
