SPECIFICATION Spec
CONSTANTS
    p1 = p1
    p2 = p2
    p3 = p3
    NumSeats = 2
    Player <- MCPlayers
    Owner <- MCOwner
    NoPlayer = NoPlayer
    Socket <- Sockets
    k1 = k1
    k2 = k2
    NoSocket = NoSocket
    CmdId = {}
    FreshId = FreshId
    Backlog = 1
    Polling = TRUE
    Kinds <- PresenceKinds
    Leavers <- MCLeavers
    Mortal <- MCMortal
    Frail = {k1}
    MaxTickets = 1
    MaxSeq = 3
INVARIANTS
    AbsentSeatHolds OneVoicePerSeat
PROPERTIES
    RevokedIsClosed
CHECK_DEADLOCK FALSE
