CONSTANTS
    t1 = t1
    t2 = t2
    t3 = t3
    m1 = m1
    p1 = p1
    Payload = Payload
    ThreadIds = {t1, t2, t3}
    Pools = {0, 1, 2, 3, 4, 5, 6, p1}
    BlockCount <- Sizes
    BLOCKS_TO_FETCH = 2
    LargeObjects = {m1}
    System = System
    Link = Link
    SizesOf <- Confined
    Main = t3
    Workers = {t1, t2}
    Pool = p1
    ALLOCS_PER_THREAD = 3
SPECIFICATION UsesSpec
INVARIANTS EachBlockOnce ObjectsAreLargeEnough EachToItsOwner AssertionsHold
PROPERTIES ThreadLocalSpec
CHECK_DEADLOCK FALSE
