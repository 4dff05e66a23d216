CONSTANTS
    Payload = Payload
    Allocators = {t1, t2}
    Freers = {t1, t2}
    BlockCount = 5
    ALLOCS_PER_THREAD = 2
SPECIFICATION TestSpec
INVARIANTS HeadIsNotInUse
