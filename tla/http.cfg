SPECIFICATION FairSpec
CONSTANTS
    Letter <- SomeLetters
    Lower <- LowerLetters
    Lead = {"lead"}
    Cont = {"cont"}
    Spell <- ShortSpelling
    MaxLength = 15
    Streams <- AllStreams
    Override <- UserHeaders
    AutoOverride = TRUE
    LocalAddr <- Service
    Replies <- SomeReplies
    Cuts <- SomeCuts
    Logged <- SomeLogged
    Requests <- RequestOf
INVARIANTS
    HttpTypeOK
    SpanFitsState
    NeverBothLengths
    LengthIsAsWritten
    CallbacksDecode
    RequestsAccepted
    HeadForwarded
    OneHead
    RepliesInOrder
PROPERTIES
    RequestArrives
CHECK_DEADLOCK FALSE
