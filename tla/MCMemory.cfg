SPECIFICATION MCSpec
CONSTANTS
    Threads = {t1, t2}
    Heaps = {s1, s2, s3}
    NoHeap = NoHeap
    Chunks = {c1, c2}
    NoSpan = NoSpan
    a = a  b = b
    Classes = {a, b}
    Large = Large
    Count <- TwoEach
    ScanMax = 2
    t1 = t1  s3 = s3
    Segs = {s1, s2}
    NoSeg = NoSeg
    SegSpans = 3
    LocalMax = 1
    Low = 1
    High = 2
    Smooth = 2
    x = x  sp = sp
    NUL = NUL  Junk = Junk
    None = None
    Copies = {"exe", "dll", "plugin"}
    Inodes = {"file1", "file2"}
    Sizes = {0, 1, 2, 4, 5, 7, 15, 30, 31}
    Offsets = {0, 3}
    Calls = 3
SYMMETRY Symmetry
INVARIANTS
    BlocksInOnePlace
    UsedExact
    ListsMatchState
    ChunksKept
    OneInstance
    ContentsKept
    TextsRight
PROPERTIES
    NewSpanOnlyWhenExhausted
    LowKept
    ImplementsTexts
CHECK_DEADLOCK FALSE
