SPECIFICATION Spec
CONSTANTS
    p1 = p1
    p2 = p2
    p3 = p3
    p4 = p4
    p5 = p5
    NoPlayer = NoPlayer
    Player <- MCPlayers
    NumSeats = 4
INVARIANTS SeatingTypeOK TableCanGoOn
PROPERTIES GamesAreAgreed
SYMMETRY PlayerSymmetry
