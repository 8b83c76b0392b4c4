SPECIFICATION Spec
CONSTANTS
    p1 = p1
    p2 = p2
    p3 = p3
    NumSeats = 2
    Player <- MCPlayers
    Owner <- MCOwner
    NoPlayer = NoPlayer
    Socket <- Sockets
    k1 = k1
    k2 = k2
    NoSocket = NoSocket
    CmdId = {c1}
    FreshId = FreshId
    Backlog = 2
    Polling = FALSE
    Kinds <- DeliveryKinds
    Leavers <- Nobody
    Mortal <- Nobody
    Frail = {k1}
    MaxTickets = 1
    MaxSeq = 4
INVARIANTS
    GatewayTypeOK AppliedOnce DecidedOnShown ShownUpToDate
CHECK_DEADLOCK FALSE

