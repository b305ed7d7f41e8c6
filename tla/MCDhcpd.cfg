SPECIFICATION Spec
CONSTANTS
    Clients = {c1, c2, c3}
    NoMac = NoMac
    Stations = 2
    MaxLeases = 2
    NumAddrs = 3
    DeclineMax = 1
    NetifBound = TRUE
    Foreign = {1}
    MaxFlight = 2
SYMMETRY Symmetry
INVARIANTS
    TypeOK
    LeasesDistinct
    NoSharedAddress
    BoundHolds
    RenewalGranted
