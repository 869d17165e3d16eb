SPECIFICATION FairSpec
CONSTANTS
    Publishers = {p1}
    Subscribers = {s1, s2}
    Timed = {}
    MaxMessages = 1
    MaxSockets = 2
    Capacity = 2
    NoOne = NoOne
PROPERTIES ThreadsEnd Delivered
