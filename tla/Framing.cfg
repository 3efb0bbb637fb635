SPECIFICATION Spec
CONSTANTS
    Base = 5
    LongLength = 6
    IntRange = 8
    TextLength <- SmallLength
    HandshakePackets <- SmallHandshakes
    SessionPackets <- SmallSelections
    MaxHandshake = 2
    MaxSession = 3
    ReadLimit = 30
INVARIANTS
    HandledAsSent
    TextsNeverForged
    RequestsMade
CHECK_DEADLOCK FALSE
