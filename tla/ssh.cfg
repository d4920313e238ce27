SPECIFICATION FramingSpec
CONSTANTS
    Base = 2
    Width = 2
    Messages <- ShortMessages
    MaxSent = 1
    MaxRaw = 2
INVARIANTS
    RawFromTheStart
CHECK_DEADLOCK FALSE
