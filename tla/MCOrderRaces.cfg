\* Two requests in flight for one order, two couriers.
CONSTANTS
    o1 = o1
    c1 = c1
    c2 = c2
    r1 = r1
    r2 = r2
    Orders = {o1}
    Couriers = {c1, c2}
    Requests = {r1, r2}
    Pairings = {}
    Limit = 1
    NoOrder = NoOrder
    NoCourier = NoCourier
    NoRequest = NoRequest
    OwnChoices = {"AVAILABLE", "OFFLINE"}
    MaxHistory = 7
SPECIFICATION Spec
SYMMETRY Symmetry
INVARIANT TypeOK
INVARIANT OrderIsBacked
INVARIANT TrailIsSound
INVARIANT FeedIsCurrent
PROPERTY SurvivesOverlap
PROPERTY LifecycleUnlessStale
