SPECIFICATION Spec
CONSTANTS
    Tile = {1, 2, 3}
    NumSeats = 2
    OpeningHand = 0
    MaxHandles = 1
    MaxExposures = 0
    Pausers = {}
    Revealers = {}
    Orders <- MCOrders
    RoutingInputs <- TwoSeatRoutings
INVARIANT Conservation
