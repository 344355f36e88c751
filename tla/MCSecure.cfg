SPECIFICATION FairSpec
CONSTANTS
    Lengths = {1, 2, 3}
    MaxSends = 3
    HmFail = 4
    Garbage = {0, 1, 2, 3, 4, 5, 6}
PROPERTY ChannelSpec ReceiveReturns
CHECK_DEADLOCK FALSE
