SPECIFICATION FairWorldSpec
CONSTANTS
    c1 = c1
    c2 = c2
    m1 = m1
    m2 = m2
    alice = alice
    admin = admin
    rook = rook
    pawn = pawn
    none = none
    s1 = s1
    s2 = s2
    u1 = u1
    None = none
    Conns <- TwoConns
    Maps = {m1}
    PeerMessages <- ProgramMessages
    MaxPending = 2
    AcceptorMayFail = FALSE
    Buffered = TRUE
    Names <- AllNames
    Registered = {alice, admin}
    Locked = {}
    SuperUser = admin
    Characters = {rook, pawn}
    CharacterOwner <- OwnerOf
    CharacterMap <- MapOf
    Programs = {s1, u1}
    Builds <- ClientBuilds
    MapServers = {s1}
    Clients = {u1}
    Supported <- SupportedBy
    MaxStarts = 1
    DefaultUser = alice
    PasswordTesta = {alice, admin}
INVARIANTS
    PlayingAgreed
    LoggedInTogether
    ChoosesOwn
PROPERTIES
    Spec
    CrashUnchallenged
    WaitsEnd
    DeadSessionReaped
CHECK_DEADLOCK FALSE
