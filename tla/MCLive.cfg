SPECIFICATION Spec
CONSTANTS
    a = a
    b = b
    Companies = {a, b}
    Couriers = {x}
    Employer <- MCEmployer
    Tabs = {t}
    Statuses = {s1, s2}
    Requests = {q1, q2}
    MaxRequests = 3
    NoCourier = NoCourier
    NoStatus = NoStatus
SYMMETRY MCSymmetry

INVARIANTS
    TypeOK
    RoomsStaySeparate
    TrailIsSampled
    MapShowsLatest
    ListShowsCommitted
