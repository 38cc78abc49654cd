SPECIFICATION Spec
CONSTANTS
    NULL = NULL
    Addresses = {1, 2, 3}
    Data = {x, y}
    Indices = {0, 1, 2}
PROPERTIES BackwardByTwo
CHECK_DEADLOCK FALSE
