SPECIFICATION FairSpec
CONSTANTS
    Phones = {p1}
    Codes = {k1, k2}
    Tokens = {t1, t2, t3}
    Requests = {r1, r2}
    MaxFaults = 2
    NoPhone = NoPhone
    NoCode = NoCode
    NoToken = NoToken
INVARIANTS
    TypeOK
    LastMessageWorks
PROPERTY RecoveryEnds
