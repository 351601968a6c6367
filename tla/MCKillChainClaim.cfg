SPECIFICATION FairSpec
CONSTANTS
    Requests = {r1}
    Clients = {a}
    NoIp = noip
    Loopback = {}
    Paths = {p}
    PlaygroundPaths = {}
    ExemptPaths = {p}
    LoginPaths = {}
    NoPath = any
    Reasons = {"sqli", "xss", "lfi"}
    Limit <- SmallLimits
    Period <- ShortPeriods
    ListedIps = {}
    Keys <- AllKeys
    MaxTtl = 1
    MaxCount = 3
    MaxFaults = 0
    MaxCrashes = 0
PROPERTY KillChainBanned
