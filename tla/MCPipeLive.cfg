SPECIFICATION FairSpec
CONSTANTS
    Requests = {r1, r2}
    Clients = {a}
    NoIp = noip
    Loopback = {}
    Paths = {p}
    PlaygroundPaths = {}
    ExemptPaths = {p}
    LoginPaths = {}
    NoPath = any
    Reasons = {"csrf"}
    Limit <- EqualLimits
    Period <- ShortPeriods
    ListedIps = {}
    Keys <- AllKeys
    MaxTtl = 1
    MaxCount = 2
    MaxFaults = 1
    MaxCrashes = 1
PROPERTY CountersForgotten
PROPERTY OutageReportEnds
