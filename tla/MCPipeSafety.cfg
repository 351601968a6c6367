SPECIFICATION ScenarioSpec
CONSTANTS
    Requests = {r1, r2, r3}
    Clients = {a, noip}
    NoIp = noip
    Loopback = {}
    Paths = {p, q, s}
    PlainPaths = {p}
    PlaygroundPaths = {q}
    ExemptPaths = {s}
    LoginPaths = {s}
    NoPath = any
    Reasons = {"csrf"}
    Limit <- SmallLimits
    Period <- Periods
    ListedIps = {a}
    Keys <- AllKeys
    MaxTtl = 2
    MaxCount = 3
    MaxFaults = 1
    MaxCrashes = 0
INVARIANT TypeOK
INVARIANT AtMostLimit
INVARIANT NoUnitLost
INVARIANT OneOwesTtl
PROPERTY WindowNotProlonged
PROPERTY ImplementsLimiter
SYMMETRY Symmetry
