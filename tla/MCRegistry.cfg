CONSTANTS
    Threads = {t1, t2}
    MaxId = 3
    Programs <- MCPrograms
SPECIFICATION Spec
INVARIANTS ServedLive OneHome CoreKept CountersAgree
CHECK_DEADLOCK FALSE
