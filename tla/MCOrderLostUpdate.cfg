\* The same instance, against what README.md says of transitions.
CONSTANTS
    o1 = o1
    c1 = c1
    c2 = c2
    r1 = r1
    r2 = r2
    Orders = {o1}
    Couriers = {c1, c2}
    Requests = {r1, r2}
    Pairings = {}
    Limit = 1
    NoOrder = NoOrder
    NoCourier = NoCourier
    NoRequest = NoRequest
    OwnChoices = {"AVAILABLE", "OFFLINE"}
    MaxHistory = 7
SPECIFICATION Spec
SYMMETRY Symmetry
PROPERTY TransitionsFollowTable
