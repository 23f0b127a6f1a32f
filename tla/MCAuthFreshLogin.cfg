\* The same instance, against what a reuse and a reset are said to do to sessions.
CONSTANTS
    u1 = u1
    t1 = t1
    t2 = t2
    t3 = t3
    p1 = p1
    p2 = p2
    k1 = k1
    r1 = r1
    r2 = r2
    Users = {u1}
    Tokens = {t1, t2, t3}
    Passwords = {p1, p2}
    FirstPassword = p1
    Codes = {k1}
    Requests = {r1, r2}
    NoUser = NoUser
    NoToken = NoToken
    NoPassword = NoPassword
    NoCode = NoCode
SPECIFICATION Spec
SYMMETRY Symmetry
INVARIANT FreshLoginForced
