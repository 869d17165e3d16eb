SPECIFICATION Spec
CONSTANTS
    Publishers = {p1}
    Subscribers = {s1}
    Timed = {s1}
    MaxMessages = 2
    MaxSockets = 2
    Capacity = 1
    NoOne = NoOne
CHECK_DEADLOCK FALSE
INVARIANTS AckSound LeakedOnlyWithoutPartition
