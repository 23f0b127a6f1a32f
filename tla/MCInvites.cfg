SPECIFICATION Spec
CONSTANTS
    Emails = {e1, e2}
    Companies = {a, b}
    Invites = {i1, i2}
    Requests = {q1}
    Tabs = {t1, t2}
    NoEmail = NoEmail
    NoCompany = NoCompany
    NoSource = NoSource
SYMMETRY InviteSymmetry
INVARIANTS
    TypeOK
    AccountsAreSound
    AccountSettlesInvite
PROPERTY RevokedIsFinal
CHECK_DEADLOCK FALSE
