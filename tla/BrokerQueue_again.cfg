SPECIFICATION FairSpec
CONSTANTS
    Publishers = {p1}
    Subscribers = {s1}
    Timed = {}
    MaxMessages = 1
    MaxSockets = 3
    Capacity = 1
    NoOne = NoOne
ACTION_CONSTRAINT NoOverlap
PROPERTY ReceivedNotSentAgain
