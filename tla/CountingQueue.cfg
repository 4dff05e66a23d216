CONSTANTS
    Values = {1, 2}
    MaxSize = 3
    MaxNumber = 1
    Heights = {1, 2}
    MaxLength = 3
SPECIFICATION CountingSpec
INVARIANT QueueSortsByFrequency
