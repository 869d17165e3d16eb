SPECIFICATION Spec
CONSTANTS
    Publishers = {p1, p2}
    Subscribers = {s1}
    Timed = {}
    MaxMessages = 2
    MaxSockets = 2
    Capacity = 2
    NoOne = NoOne
SYMMETRY PublisherSymmetry
INVARIANTS TypeOK MissedOnlyInGap
