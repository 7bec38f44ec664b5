SPECIFICATION FairDeadlinesSpec

CONSTANTS
    p1 = p1
    p2 = p2
    Deadline <- MCDeadline
    Pass <- MCPass
    Day <- MCDay
    Interval <- MCInterval
    MostReminders = 1
    LastClock = 3
    MaxChanges = 3
INVARIANT DoneForItsDay
INVARIANT ActsOncePerDay

PROPERTY WhatIsAskedIsActedOn

CHECK_DEADLOCK FALSE
