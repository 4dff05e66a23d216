CONSTANTS
    a = a
    b = b
    producer = producer
    consumer = consumer
    closer1 = closer1
    closer2 = closer2
    NoThread = NoThread
    NoItem = NoItem
    Producer = producer
    Consumer = consumer
    Closers = {closer1, closer2}
    Items = {a, b}
    Capacity = 1
    MaxItems = 4
SPECIFICATION FairSpec
INVARIANTS TypeOK NoLostWakeup EndOfStream
PROPERTIES FifoSpec PushReturns EveryItemArrives PopReturnsOnceClosed
