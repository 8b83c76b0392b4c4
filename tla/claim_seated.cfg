SPECIFICATION Spec
CONSTANTS
    Account = {ann, bea, cat}
    NoAccount = nobody
    Key = {k1}
    NoKey = none
    Req = {r1, r2}
    NumSeats = 2
    MaxTables = 2
    MaxRequests = 4
    MaxFaults = 0
    MaxRestarts = 0
SYMMETRY Interchangeable
INVARIANT SeatedOnce
CHECK_DEADLOCK FALSE
