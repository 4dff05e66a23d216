CONSTANTS
    Allocators = {t1, t2}
    Freers = {}
    BlockCount = 3
    BLOCKS_TO_FETCH = 2
    Payload = Payload
SPECIFICATION LinkedSpec
INVARIANTS ListsAreNotRacedOn
