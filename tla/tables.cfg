SPECIFICATION Spec
CONSTANTS
    Account = {ann, bea, cat}
    NoAccount = nobody
    Key = {k1}
    NoKey = none
    Req = {r1, r2}
    NumSeats = 2
    MaxTables = 2
    MaxRequests = 4
    MaxFaults = 1
    MaxRestarts = 1
SYMMETRY Interchangeable
INVARIANTS TablesTypeOK RestMirrors ClosedRowsAreClosed OneTablePerKey
CHECK_DEADLOCK FALSE
