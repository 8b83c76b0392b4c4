SPECIFICATION Spec
CONSTANTS
    Tile = {1, 2, 3}
    NumSeats = 3
    OpeningHand = 0
    MaxHandles = 1
    MaxExposures = 1
    Pausers = {1}
    Revealers = {}
    Orders <- MCOrders
    RoutingInputs <- ThreeSeatRoutings
PROPERTIES PausedFreezesTiles PassIsSimultaneous DealsAndEndsByConsent
