CONSTANTS
    Times <- MCTimes
    Lengths = {1, 2}
    SizesKB = {2, 4}
    SizeLow = 3
    SizeHigh = 5
    DefaultSize = 3
    Counts = {5, 25}
    Days = {2}
    DefaultDays = 1
    MaxWrites = 6
    MaxDated = 3
    MaxFaults = 1
    MaxStarts = 2
    NULL = NULL
    Invalid = Invalid
    Single = Single
SPECIFICATION Spec
INVARIANT TypeOKLog
INVARIANT NewestKept
PROPERTY RecordsKept
PROPERTY OldGone
PROPERTY LossNeedsFault
CHECK_DEADLOCK FALSE
