SPECIFICATION FairStoresSpec
CONSTANTS
    None = None
    x1 = x1
    x2 = x2
    x3 = x3
    Txs = {x1, x2, x3}
    StateDriver = "sqlite"
    DiskFaults = {"write", "rename", "power"}
    SqlFaults = {"module", "begin", "rot", "files"}
    MaxCrashes = 2
INVARIANT MemoryIsFile
PROPERTIES EveryCallHeard ImplementsDurableStore SqliteImplementsDurableStore
CHECK_DEADLOCK FALSE
