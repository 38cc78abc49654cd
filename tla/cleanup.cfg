SPECIFICATION Spec
CONSTANTS
    a = a
    b = b
    Server = server
    NoOne = nobody
    Clients = {a}
    Group = {}
    HEADER_SIZE = 3
    CHAR_SIZE = 2
    MAX_SIZE = 2
    TIMEOUT = 2
    RETRY_TIMES = 2
    Messages <- OneText
    Faults = {"idle", "preempt"}
INVARIANTS MemorySafe
CHECK_DEADLOCK FALSE
