SPECIFICATION Spec
CONSTANTS
    None = None
    Interactive = Interactive
    Size = 17
    MAX_BUNDLE_NESTING = 4
    LittleEndian = FALSE
    Careful = TRUE
    Times = {1, 2}
    Names <- ClientNames
    Types = {}
    Firsts = {"x"}
    FloatLists = {}
    Strings = {}
    DeepestTry = 4
    LongestTalk = 30
INVARIANTS
    NothingStray DoneReadsBack BundlesKeepTheirTypes
PROPERTIES
     SentAsTyped
CHECK_DEADLOCK FALSE
