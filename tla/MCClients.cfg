SPECIFICATION Spec
CONSTANTS
    Clients = {k}
    Pairs = {p1, p2, p3}
    Tasks = {r1, r2}
    Faulty = TRUE
    NoPair = NoPair
    NoClient = NoClient
VIEW ClientView
SYMMETRY ClientSymmetry
CHECK_DEADLOCK FALSE
INVARIANTS
    TypeOK
    SessionIsAsExpected
PROPERTY FollowsLifecycle
