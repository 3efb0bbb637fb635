SPECIFICATION Spec
CONSTANTS
    c1 = c1
    c2 = c2
    c3 = c3
    m1 = m1
    m2 = m2
    alice = alice
    bob = bob
    admin = admin
    rook = rook
    pawn = pawn
    none = none
    None = none
    Conns <- TwoConns
    Maps = {m1}
    PeerMessages <- LoginMessages
    MaxPending = 1
    AcceptorMayFail = TRUE
    Names <- AllNames
    Registered = {alice, bob}
    Locked = {bob}
    Buffered = FALSE
    SuperUser = alice
    Characters = {rook, pawn}
    CharacterOwner <- OwnerOf
    CharacterMap <- MapOf
CONSTRAINTS AcceptorOnce OddAlone
SYMMETRY Interchangeable
INVARIANTS TypeOK SocketPresent AttemptBudget VerdictHonest SessionsEntitled IndexSound
PROPERTIES VerdictFinal KeepsContract
CHECK_DEADLOCK FALSE
