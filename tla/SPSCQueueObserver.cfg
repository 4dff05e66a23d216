CONSTANTS
    NoItem = NoItem
    Items = {1}
    Capacity = 2
    MaxItems = 3
SPECIFICATION ObserverSpec
INVARIANT AnswerIsStaleAtWorst
