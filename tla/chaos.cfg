SPECIFICATION Spec
CONSTANTS
    a = a
    b = b
    Server = server
    NoOne = nobody
    Clients = {a}
    Group = {a}
    HEADER_SIZE = 3
    CHAR_SIZE = 2
    MAX_SIZE = 2
    TIMEOUT = 2
    RETRY_TIMES = 2
    Messages <- OneText
    Faults = {"boot", "ping", "ack", "idle", "preempt", "client", "server", "memory"}
INVARIANTS TypeOK NoOverflow RoomInv NoResidue
CHECK_DEADLOCK FALSE
