SPECIFICATION SuiteSpec
CHECK_DEADLOCK FALSE
CONSTANTS
    RBKeys = 7
    Doubled = 4
    BSTData = 6
    QueueSize = 4
    QueueItems = {1, 2}
    VectorMax = 7
    VectorItems = {1, 2}
    LruCap = 3
    LruKeys = {1, 2, 3, 4}
    LruValues = {7, 8}
    charSize = 2
    BitIndices = {0, 7, 8, 15}
    BitBytes = {0, 170, 255}
    DsuSize = 5
    MedianNums = {1, 2, 3, 4}
    MedianMax = 6
    Colors = {1, 2}
    Points = {1, 2, 3}
    NumofObjects = 2
    MaxBlocks = 3
    Handles = {1, 2, 3}
    Pointees = {1, 2}
    Shares = {1, 2, 3}
    Weaks = {4, 5}
    Counted = {1, 2, 3}
    Objects = {1, 2, 3}
    Chars = {1, 2}
    LiteralLens = {1}
    LengthMax = 3
    StringVars = {1, 2}
    TextLens = {0, 1, 3}
    STRING_INIT_SIZE = 2
    StringMax = 4
    Devices = {1, 2}
    Batch = 2
    WaitRounds = 2
    ShortMax = 1
    Pending = 2
    HashKeys = {0, 7, 14, 1}
    TrieMax = 4
    AVLKeys = 9
    SortLen = 5
    SortVals = 4
    IntMax = 127
    LongMax = 2047
    mod = 97
    NumMax = 30
    Digits = {0, 1, 8, 9}
    NumeralLen = 3
    ScanLen = 5
    ScanVals = 4
    Cards = 6
    Bag = 4
    Side = 5
    TextLen = 4
    Letters = {3, 4}
    MemSize = 8
    ListLen = 5
    ListVals = 3
    TreeSize = 5
INVARIANTS
    TreesSound
    DestroysAllOnce
    ContainersSound
    OwnershipSound
    SetsSound
    RoutinesExact
