SPECIFICATION ExposureSpec
CONSTANTS
    r1 = r1
    r2 = r2
    Requests = {r1, r2}
    Mover = mover
    Transfers = {t1}
    GuestPorts = {1, 2}
    HostPorts = 2
    Preferred <- SamePreferred
    Sandboxes = {s1, s2}
    Sandbox = s1
    MaxFaults = 1
    MaxStoreFaults = 1
CONSTRAINT OneFault
SYMMETRY Symmetry
INVARIANTS
    RouteReachesRelay
    RowHasRoute
    RouteFollowsCutover
    RelaysStop
PROPERTY
    FenceNeverReopens
CHECK_DEADLOCK FALSE
