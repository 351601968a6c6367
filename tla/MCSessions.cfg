SPECIFICATION Spec
CONSTANTS
    Users = {u}
    NoUser = nouser
    Requests = {r1, r2}
    AccessLife = 0
    RefreshLife = 1
    RevokedLife = 1
    MaxTime = 1
    LastIssue = 1
    Keys <- AllKeys
    MaxTtl = 1
    MaxCount = 1
    MaxFaults = 1
INVARIANT TypeOK
INVARIANT LoggedOutRefused
INVARIANT RotationsBounded
SYMMETRY Symmetry
