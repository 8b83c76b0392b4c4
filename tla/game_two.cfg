SPECIFICATION Spec
CONSTANTS
    Tile = {1, 2, 3, 4}
    NumSeats = 2
    OpeningHand = 1
    MaxHandles = 2
    MaxExposures = 0
    Pausers = {1}
    Revealers = {2}
    Orders <- MCOrders
    RoutingInputs <- TwoSeatRoutings
INVARIANTS TypeOK NoTileTwice ConservedUnlessOverrun RestartLosesNothing ViewsConceal  OffersAreTaken
