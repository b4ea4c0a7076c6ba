INIT Init
NEXT Next
CONSTANTS
    Parts = {"memtable", "cache", "limiter", "background", "locks", "files", "log", "table", "iterator", "formats", "repair", "nanopb"}
    MemUserKey = {1, 2}
    MemEntries = 3
    kMaxHeight = 2
    CacheThread = {t1, t2}
    FileNumber = {1, 2, 3}
    FileCharge <- ChargeOf
    CacheEntries = 20
    kNumShards = 16
    MinBuckets = 1
    NoHandle = NoHandle
    EnvThread = {t1, t2, t3}
    mmap_limit = 1
    open_read_only_file_limit = 1
    MaxScheduled = 3
    Process = {"p1", "p2"}
    LockCaller = {"c1", "c2", "c3"}
    ProcessOf <- CallerProcess
    NoProcess = NoProcess
    TableFile = {"t1", "t2"}
    kLogBlockSize = 8
    kHeaderSize = 3
    LogRecordSize = {0, 2, 12}
    LogRecords = 3
    kMaxByte = 3
    BlockRestartInterval = 2
    TableKey <- TableKeys
    BlockSize = {17, 27}
    kFilterBase = 24
    HashBits = 8
    KeyHash <- HashOf
    BloomBitsPerKey = 10
    BloomProbes = 2
    IterUserKey = {1, 2, 3}
    IterEntries = 3
    LateEntries = 1
    kByte = 16
    Fixed32 = 1
    Fixed64 = 2
    UserKeys <- BatchKeys
    Values <- BatchValues
    Sequences64 = {0, 3, 12}
    MaxOps = 2
    Edits <- VersionEdits
    Names <- FileNames
    MinDigits = 2
    RepairKeyOf <- RepairKeys
    RepairDirs <- Directories
    MaxRepairFaults = 1
    MaxRepairRuns = 2
    kPbByte = 16
    Pb32 = 2
    Pb64 = 4
    PbWord = 4
    PbPairs <- Exchanges
    PbBuffers = {8, 40}
    NoUnion = NoUnion
CHECK_DEADLOCK FALSE
INVARIANTS MemTableReads TablesAreKept EnvKeepsPromises LogReadsBack TableReadsBack IteratorShowsView FormatsReadBack CodecReadsBack RepairKeepsData
