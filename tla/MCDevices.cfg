SPECIFICATION Spec
CONSTANTS
    a = a
    b = b
    Companies = {a, b}
    Conns = {c1, c2}
    Requests = {q1, q2}
    Devices = {d1, d2}
    Couriers = {x}
    Employer <- MCEmployer
    NoCompany = NoCompany
    NoConn = NoConn
    NoDevice = NoDevice
    NoCourier = NoCourier
    Kept = Kept
SYMMETRY MCSymmetry
INVARIANTS
    TypeOK
    TenantIsolation
    PairingStaysInCompany
    TokenWhilePaired
    PairingIsMutual
CHECK_DEADLOCK FALSE
