SPECIFICATION Spec
CONSTANTS
    Parts = {"good", "damaged", "lossy", "input", "time"}
    NoThread = NoThread
    Server = Server
    User = User
    Threads = {Server, User}
    Items <- InputItems
    Disciplined = TRUE
    Texts <- InputTexts
    Addresses <- InputAddresses
    MaxPackets = 2
    MaxChanges = 3
    Size = 0
    MAX_BUNDLE_NESTING = 1
    LittleEndian = FALSE
    MaxCells = 20
    MaxArrivals = 2
    Unscannable = {}
    DecimalTags = {3}
    PacketsIn <- PacketsOfParts
    SecondDigits = 4
    ConversionConstant = 33706
    FirstSecond = 0
    LastSecond = 2
INVARIANTS
      NobodyDies TimetagsComeBack
PROPERTIES
    ImplementsStream  ReadsOn PacketsAnswered ImplementsBuffer
CHECK_DEADLOCK FALSE
