SPECIFICATION Spec
CONSTANTS
    CmdId = {c1}
    Fresh = Fresh
    Nothing = Nothing
    Retention = 2
    MaxGames = 2
    MaxMoments = 4
    MaxFlight = 2
    MaxRestarts = 2
INVARIANT WindowNeverWrong
CHECK_DEADLOCK FALSE
