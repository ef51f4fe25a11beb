SPECIFICATION KitSpec
CONSTANTS
    CAPACITY = 3
    Biggest = 9
    Ids = {a, b, c, d}
    Times = {1, 9}
    NoObject = NoObject
    None = None
    Buffers = {b1, b2}
    NoBuffer = NoBuffer
    NoTime = NoTime
    NumQD = 3
    NumNodes = 2
    Packets <- PlainPackets
    Positions <- KitPositions
    MaxPackets = 2
    MaxTime = 4
    Immediately = 1
    Lookahead = 0
    f = f
    g = g
    s = s
    Names = {f, g}
    Slashed = {s}
    InitContainers = 1
    InitMethods = 1
    MaxContainers = 2
    MaxMethods = 2
    MAX_CHILDREN_PER_CONTAINER = 3
    MAX_METHODS_PER_CONTAINER = 2
    BASE_NUM_TO_REALLOCATE = 1
    SpareNodes = 3
    NoContainer = NoContainer
    HAS8BYTEINT = TRUE
    Words = 16
    Fractions = 20
    Second = 8
    PerMicrosecond = 3
    Offsets = {0, 1, 3}
    FirstSecond = 9
    LastSecond = 11
    Bytes <- SomeBytes
    Behind <- SomeBehind
    MaxBytes = 8
    MaxStrings = 3
INVARIANTS
    EffectsAsAsked EffectsInOrder
    NothingShared    
PROPERTIES
    PoolsConserved ScanIsComplete QueueImplementsPriorityQueue BuffersReturn
CHECK_DEADLOCK FALSE
