SPECIFICATION Spec
CONSTANTS
    NULL = NULL
    Addresses = {1, 2, 3}
    Data = {x, y}
    Indices = {0, 1, 2}
    Slots = {0, 1, 3}
    Capacities = {1, 3}
    Largest = 4
    VECTOR_INITIAL_CAPACITY = 2
    VECTOR_GROWTH_FACTOR = 2
    Numbers = {0, 1}
    ListArrays <- SomeListArrays
    Positions = {0, 1, 3}
    Fds = {f, g}
    Files <- SomeFiles
    BUFFER_SIZE = 2
    Blocks = {1, 2, 3, 4, 5}
    FIRST_CAPACITY = 2
    Strs = {a, b}
    Sentences <- SomeSentences
    Delims = {{2}, {2, 3}}
    Words <- SomeWords
    Needles <- SomeNeedles
    Lengths = {0, 1, 2, 3, 4, 5}
    MEMORY = 5
    SIZE_BITS = 4
    CodePoints <- Chars
    BITS = 6
    LONG_BITS = 9
    Operands <- SomeInts
    Numerals <- SomeNumerals
    Bases = {1, 2, 10, 16}
    Garbage = {0, 5}
    Processes = {2, 22, 26, 31}
    SortArrays <- SomeSortArrays
    RUN = 2
    INTRO_RUN = 2
    HYBRID_SMALL = 3
    CHUNK_COUNT = 2
    K = 2
    FlagOrders <- SomeFlags
    Widths <- SomeWidths
    Precisions <- SomePrecisions
    Stars <- SomeStars
    Ints <- PrintedInts
    Unsigneds = {0, 1, 171}
    Texts <- SomeTexts
    STAR = STAR
    MainLines <- LoggedLines
    HandlerLines <- ShortLines
    ROOM = 14
INVARIANTS ContainersWellFormed TablesReady LineIsItsOwn LineFits  
    ArithmeticExact NumeralsRead CopiesWithinBounds Finds TokensInOrder LinesAreTheFile
    NothingLeaks TracksAll PrintsAsC
PROPERTIES ContainersImplement CallsKeepApart
CHECK_DEADLOCK FALSE
