CONSTANTS
    producer = producer
    consumer = consumer
    closer = closer
    NoThread = NoThread
    NoItem = NoItem
    Producer = producer
    Consumer = consumer
    Closers = {closer}
    Items = {1}
    Durations = {2}
    TicksPerMs = 2
    InitialSizes = {0, 1, 2, 3}
    Capacity = 1
    MaxItems = 3
SPECIFICATION Spec
INVARIANT SlotIsAllocated
