SPECIFICATION KnowSpec
CONSTANTS
    Tile = {1, 2, 3}
    NumSeats = 3
    OpeningHand = 0
    MaxHandles = 1
    MaxExposures = 1
    Pausers = {1}
    Revealers = {}
    Window = 3
    MaxSeq = 7
    Orders <- MCOrders
    RoutingInputs <- ThreeSeatRoutings
INVARIANTS ActorTypeOK HistoryOrdered TargetsAgree NothingAwaitedIsHidden RewindConserves FirstRewindUnseen
PROPERTIES VoteFreezesTiles WallGrowsOnlyByConsent
CHECK_DEADLOCK FALSE
