\* No two requests in flight for one order; two orders that share couriers.
CONSTANTS
    o1 = o1
    o2 = o2
    c1 = c1
    c2 = c2
    r1 = r1
    r2 = r2
    Orders = {o1, o2}
    Couriers = {c1, c2}
    Requests = {r1, r2}
    OwnChoices = {"OFFLINE"}
    Pairings = {p1}
    p1 = p1
    Limit = 1
    NoOrder = NoOrder
    NoCourier = NoCourier
    NoRequest = NoRequest
    MaxHistory = 8
SPECIFICATION SerialSpec
SYMMETRY Symmetry
INVARIANT HistoryIsAPath
INVARIANT DeliveringHasActiveOrder
INVARIANT DeliveryMatchesOrder
INVARIANT SummaryAgrees
PROPERTY ImplementsLifecycle
