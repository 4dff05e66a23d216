CONSTANTS
    producer = producer
    consumer = consumer
    closer = closer
    NoThread = NoThread
    NoItem = NoItem
    Producer = producer
    Consumer = consumer
    Closers = {closer}
    Items = {1, 2, 3, 4}
    Durations = {3}
    TicksPerMs = 2
    InitialSizes = {3}
    Capacity = 2
    MaxItems = 4
SPECIFICATION StreamSpec
INVARIANTS NoLostWakeup NothingMissed WaitsAsAsked EndOfStream
PROPERTIES FifoSpec TimedCallsReturn CallsReturnOnceClosed
