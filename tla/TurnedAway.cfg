SPECIFICATION WorldSpec
CONSTANTS
    c1 = c1
    c2 = c2
    m1 = m1
    m2 = m2
    alice = alice
    admin = admin
    rook = rook
    pawn = pawn
    none = none
    s1 = s1
    s2 = s2
    u1 = u1
    None = none
    Conns <- TwoConns
    Maps = {m1, m2}
    PeerMessages <- ProgramMessages
    MaxPending = 1
    AcceptorMayFail = FALSE
    Buffered = TRUE
    Names <- AllNames
    Registered = {alice, admin}
    Locked = {}
    SuperUser = admin
    Characters = {rook, pawn}
    CharacterOwner <- OwnerOf
    CharacterMap <- MapOf
    Programs = {s1}
    Builds <- SoundBuilds
    MapServers = {s1}
    Clients = {}
    Supported <- SupportedBy
    MaxStarts = 2
    DefaultUser = alice
    PasswordTesta = {alice, admin}
PROPERTIES
    TurnedAwayServed
CHECK_DEADLOCK FALSE
