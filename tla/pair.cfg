SPECIFICATION FairSpec
CONSTANTS
    a = a
    b = b
    Server = server
    NoOne = nobody
    Clients = {a, b}
    Group = {}
    HEADER_SIZE = 3
    CHAR_SIZE = 2
    MAX_SIZE = 2
    TIMEOUT = 2
    RETRY_TIMES = 2
    Messages <- TwoTexts
    Faults = {"client"}
INVARIANTS SessionInv LockStep OneTransmitter
PROPERTIES ClientsEnd OwnerDropped Delivers
CHECK_DEADLOCK FALSE
