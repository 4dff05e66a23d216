CONSTANTS
    Key = {k1, k2, k3, k4}
    Value = {v1, v2}
    capacity_ = 3
    MaxFreq = 3
SPECIFICATION Spec
PROPERTIES EvictsTheLeastFrequent
