SPECIFICATION DreamSpec
CONSTANTS
    Servers = {p1}
    Chats = {k1}
    MaxReview = 4
    MaxTruncations = 3
    MaxClock = 3
    MaxDreams = 3
INVARIANT NothingLost
CHECK_DEADLOCK FALSE
