\* Two orders of one courier up to acceptance and cancellation, two requests, with fairness.
CONSTANTS
    o1 = o1
    o2 = o2
    c1 = c1
    r1 = r1
    r2 = r2
    Orders = {o1, o2}
    Couriers = {c1}
    Requests = {r1, r2}
    OwnChoices = {"AVAILABLE"}
    Pairings = {}
    Limit = 1
    NoOrder = NoOrder
    NoCourier = NoCourier
    NoRequest = NoRequest
    MaxHistory = 3
SPECIFICATION FairSpec
INVARIANT WaitsAreShort
PROPERTY RequestsEnd
