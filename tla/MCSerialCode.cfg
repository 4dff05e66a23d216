CONSTANTS
    k1 = k1
    k2 = k2
    k3 = k3
    k4 = k4
    v1 = v1
    v2 = v2
    a = a
    b = b
    t1 = t1
    t2 = t2
    t3 = t3
    Key = {k1, k2, k3, k4}
    Value = {v1, v2}
    capacity_ = 3
    MaxFreq = 3
    Items = {a, b}
    NoItem = NoItem
    Capacity = 3
    Threads = {t1, t2, t3}
    BlockCount = 3
    Payload = Payload
    Values = {1, 2, 3, 4}
    MaxSize = 5
    MaxNumber = 26
    MaxLength = 4
    Heights = {1, 2, 3}
SPECIFICATION Spec
INVARIANTS LRUHoldsTheMostRecent LFUMapsAgree RingHoldsWhatIsInside MutexPoolIntact
           AnswersAreRight WindowIsSmallest TraversalsFindAll
PROPERTIES LRUCacheSpec LFUEvictsTheOldest LFUCacheSpec NarrowsToTheAnswer PartitionsHold
