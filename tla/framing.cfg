SPECIFICATION FramingFairSpec
CONSTANTS
    Base = 2
    Width = 2
    Messages <- ShortMessages
    MaxSent = 2
    MaxRaw = 2
INVARIANTS
    WholeMessagesInOrder
    RawAccountedFor
PROPERTIES
    AllReceived
CHECK_DEADLOCK FALSE
