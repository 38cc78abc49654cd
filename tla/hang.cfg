SPECIFICATION FairSpec
CONSTANTS
    a = a
    b = b
    Server = server
    NoOne = nobody
    Clients = {a, b}
    Group = {a, b}
    HEADER_SIZE = 3
    CHAR_SIZE = 2
    MAX_SIZE = 2
    TIMEOUT = 2
    RETRY_TIMES = 2
    Messages <- TwoTexts
    Faults = {}
PROPERTIES ClientsEnd
CHECK_DEADLOCK FALSE
