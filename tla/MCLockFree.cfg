CONSTANTS
    a = a
    b = b
    NoItem = NoItem
    Items = {a, b}
    Capacity = 2
    MaxItems = 6
    t1 = t1
    t2 = t2
    t3 = t3
    Payload = Payload
    Allocators = {t1}
    Freers = {t1, t2, t3}
    BlockCount = 2
SPECIFICATION UsedSpec
INVARIANTS QueueTypeOK TypeOK NoDataRace PromiseKept FreeListIntact
PROPERTIES FifoSpec AllThroughOnceUsed AllocatorSpec LockFree
