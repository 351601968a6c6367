SPECIFICATION Spec
CONSTANTS
    Orgs = {d, o}
    DefaultOrg = d
    NoOrg = none
    Ips = {a}
    Names = {}
    Builtins = {}
    Handlers = {h1}
    Sys = sys
    BootMode = "detection"
    Ops = {"block", "unblock", "allow", "mode"}
    ModeValues = {"prevention"}
    Duration = 1
    MaxTime = 1
    MaxWrites = 2
    MaxFaults = 1
    MaxRestarts = 1
INVARIANT TypeOK
INVARIANT SteadyBlockEnforced
PROPERTY HoldsCopies
PROPERTY PurgeRemovesOnlyExpired
CHECK_DEADLOCK FALSE
