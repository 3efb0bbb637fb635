SPECIFICATION Spec
CONSTANTS
    c1 = c1
    c2 = c2
    c3 = c3
    m1 = m1
    m2 = m2
    alice = alice
    bob = bob
    admin = admin
    rook = rook
    pawn = pawn
    none = none
    None = none
    Conns <- ThreeConns
    Maps = {m1}
    PeerMessages <- PlacementMessages
    MaxPending = 1
    AcceptorMayFail = FALSE
    Names <- AllNames
    Registered = {alice}
    Locked = {}
    Buffered = FALSE
    SuperUser = alice
    Characters = {rook, pawn}
    CharacterOwner <- OwnerOf
    CharacterMap <- MapOf
SYMMETRY Interchangeable
CONSTRAINT NoFailures
INVARIANTS PointersValid
CHECK_DEADLOCK FALSE
