SPECIFICATION FairSpec
CONSTANTS
    Orgs = {d}
    DefaultOrg = d
    NoOrg = none
    Ips = {a}
    Names = {x, y}
    Builtins = {x}
    Handlers = {h1}
    Sys = sys
    BootMode = "detection"
    Ops = {"block", "unblock", "allow", "disallow", "mode", "settings", "createRule", "setRule", "renameRule", "deleteRule"}
    ModeValues = {"prevention"}
    Duration = 1
    MaxTime = 0
    MaxWrites = 2
    MaxFaults = 1
    MaxRestarts = 0
PROPERTY ListsConverge
PROPERTY ModeConverges
PROPERTY RulesConverge
CHECK_DEADLOCK FALSE
