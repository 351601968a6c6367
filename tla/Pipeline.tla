------------------------------ MODULE Pipeline ------------------------------
(***************************************************************************)
(* The way of a request through WAFMiddleware.dispatch and, for a login,   *)
(* through the login route: the lists, the rate limits, the inspection and *)
(* the count of blocked requests that autoban keeps.  Every limit is a     *)
(* counter in Redis: INCR, then EXPIRE by the request that read 1.  Many   *)
(* requests are in flight; each call to Redis is two steps (SafeRedis).    *)
(***************************************************************************)
EXTENDS SafeRedis, FiniteSets

CONSTANTS
    Requests,    \* requests in flight together; an identity is used again
    Clients,     \* client addresses, with NoIp when it may be unknown
    NoIp,
    Loopback,    \* 127.0.0.1 and ::1
    Paths, PlaygroundPaths, ExemptPaths, LoginPaths,
    NoPath,
    Reasons,     \* why CSRF validation or the engine may refuse a request
    Limit,       \* greatest count each limit allows
    Period,      \* TTL of each kind of counter, in ticks
    ListedIps,   \* addresses runtime_sync may put on the lists
    MaxCrashes   \* bound of the model: restarts of the process

Limiters == {"playground", "ip", "route", "login"}
Kinds == Limiters \cup {"autoban", "autobanTypes"}
Ips == Clients \ {NoIp}

\* rl_playground:ip, rl:ip, rlr:path:ip, rl_login:ip, autoban:ip, autoban_types:ip
Key(kind, ip, path) == <<kind, ip, IF kind = "route" THEN path ELSE NoPath>>

ASSUME ClientsAssumption == Loopback \subseteq Ips
ASSUME PathsAssumption ==
    /\ PlaygroundPaths \subseteq Paths
    /\ ExemptPaths \subseteq Paths
    /\ LoginPaths \subseteq Paths
ASSUME KeysAssumption ==
    Keys = {Key(kind, ip, path) : kind \in Kinds, ip \in Clients, path \in Paths}
ASSUME RequestsAssumption == IsFiniteSet(Requests)
ASSUME LimitAssumption ==
    /\ Limit \in [Limiters -> Nat]
    /\ \A kind \in Limiters : Limit[kind] < MaxCount
    /\ 1 < MaxCount
ASSUME PeriodAssumption == Period \in [Kinds -> 1 .. MaxTtl]
ASSUME ListedAssumption == ListedIps \subseteq Ips /\ MaxCrashes \in Nat

VARIABLES
    allowlist, blocklist,  \* AllowList.ALLOWED_IPS and BlockList.BLOCKED_IPS
    request,               \* where each request is and its local variables
    crashes,               \* budget spent so far
    \* History variables, for the properties only:
    admitted,  \* requests each counter admitted since it was created
    reasons    \* reasons each address was blocked for since autoban:ip exists

lists == <<allowlist, blocklist>>
vars == <<redis, lists, request, crashes, admitted, reasons>>

-----------------------------------------------------------------------------
(* Requests.                                                               *)

Stages == {"idle", "incr", "counted", "expire", "expired", "inspect"}

\* val: what INCR returned, 0 when it failed; ok: whether the call in flight
\* succeeds; fresh: the counter that val was read from still exists.
Idle == [stage |-> "idle", ip |-> NoIp, path |-> NoPath, kind |-> "ip",
         val |-> 0, ok |-> FALSE, fresh |-> FALSE]
RequestType == [stage : Stages, ip : Clients \cup {NoIp},
                path : Paths \cup {NoPath}, kind : Kinds,
                val : 0 .. MaxCount, ok : BOOLEAN, fresh : BOOLEAN]

KeyOf(q) == Key(q.kind, q.ip, q.path)

At(q, stage, kind) ==
    [stage |-> stage, ip |-> q.ip, path |-> q.path, kind |-> kind,
     val |-> 0, ok |-> FALSE, fresh |-> FALSE]

\* Counting is skipped for a request without an address.
Check(q, kind, otherwise) ==
    IF q.ip = NoIp THEN otherwise ELSE At(q, "incr", kind)

\* call_next: the application; only the login route counts once more.
CallNext(q) == IF q.path \in LoginPaths THEN Check(q, "login", Idle) ELSE Idle

\* check_route
CheckRoute(q) ==
    IF q.path \in ExemptPaths THEN At(q, "inspect", "route")
    ELSE Check(q, "route", At(q, "inspect", "route"))

\* record_block; without an address it counts "unknown".
RecordBlock(q) == IF q.ip \in Loopback THEN Idle ELSE At(q, "incr", "autoban")

AllowedOneMore(q) == q.val <= Limit[q.kind] + 1
AllowedOneLess(q) == q.val < Limit[q.kind]
Allowed(q) == q.val <= Limit[q.kind]

\* Who sets the TTL: the request that created the counter.
NeverExpires(q) == q.val = 0
AlwaysExpires(q) == q.val >= 1
SecondExpires(q) == q.val = 2
OnlyLimiterExpires(q) == q.val = 1 /\ q.kind \in Limiters
MustExpire(q) == q.val = 1

\* The TTL EXPIRE is given.
SecondsLess(q) == IF Period[q.kind] = 1 THEN 1 ELSE Period[q.kind] - 1
Seconds(q) == Period[q.kind]

\* After the counter answered.  record_block ends in an AttributeError that
\* its callers swallow: SafeRedis has no sadd.
Verdict(q) ==
    IF q.kind \notin Limiters \/ ~Allowed(q) THEN Idle
    ELSE CASE q.kind = "playground" -> Idle
           [] q.kind = "ip" -> CheckRoute(q)
           [] q.kind = "route" -> At(q, "inspect", "route")
           [] q.kind = "login" -> Idle

-----------------------------------------------------------------------------
(* Steps of a request.                                                     *)

Set(r, q) == request' = [request EXCEPT ![r] = q]

\* _log_blocked_request and record_block.  When the log row cannot be written
\* the request ends before record_block: _log_blocked_request swallows the
\* exception with the rest of its work, the engine lets it out of dispatch.
Refuse(r, q, reason) ==
    \/ /\ Set(r, RecordBlock(q))
       /\ reasons' = IF q.ip \in Loopback THEN reasons
                     ELSE [reasons EXCEPT ![q.ip] = @ \cup {reason}]
    \/ Set(r, Idle) /\ UNCHANGED reasons

\* dispatch up to its first await: lists are read with no step in between.
Arrive(r) ==
    /\ request[r].stage = "idle"
    /\ UNCHANGED <<redis, lists, crashes, admitted>>
    /\ \E ip \in Clients, path \in Paths :
        LET q == [Idle EXCEPT !.ip = ip, !.path = path] IN
        \/ /\ path \in PlaygroundPaths
           /\ Set(r, Check(q, "playground", Idle))
           /\ UNCHANGED reasons
        \/ /\ path \notin PlaygroundPaths
           /\ ip \in allowlist
           /\ Set(r, CallNext(q))
           /\ UNCHANGED reasons
        \/ /\ path \notin PlaygroundPaths
           /\ ip \in blocklist \ allowlist
           /\ Refuse(r, q, "blocklist")
        \/ /\ path \notin PlaygroundPaths
           /\ ip \notin allowlist \cup blocklist
           /\ Set(r, Check(q, "ip", At(q, "inspect", "route")))
           /\ UNCHANGED reasons

SendIncr(r) ==
    LET q == request[r]  k == KeyOf(request[r]) IN
    /\ q.stage = "incr"
    /\ \/ /\ ServerIncr(k)
          /\ Set(r, [q EXCEPT !.stage = "counted", !.val = Incremented(k),
                              !.ok = TRUE, !.fresh = TRUE])
          /\ UNCHANGED faults
       \/ /\ ServerIncr(k) /\ ReplyLost
          /\ Set(r, [q EXCEPT !.stage = "counted"])
       \/ /\ Unreachable
          /\ Set(r, [q EXCEPT !.stage = "counted"])
          /\ UNCHANGED faults
    /\ UNCHANGED <<client, emptied, lists, crashes, admitted, reasons>>

SendExpire(r) ==
    LET q == request[r]  k == KeyOf(request[r]) IN
    /\ q.stage = "expire"
    /\ \/ /\ ServerExpire(k, Seconds(q))
          /\ Set(r, [q EXCEPT !.stage = "expired", !.ok = TRUE])
          /\ UNCHANGED faults
       \/ /\ ServerExpire(k, Seconds(q)) /\ ReplyLost
          /\ Set(r, [q EXCEPT !.stage = "expired", !.ok = FALSE])
       \/ /\ Unreachable
          /\ Set(r, [q EXCEPT !.stage = "expired", !.ok = FALSE])
          /\ UNCHANGED faults
    /\ UNCHANGED <<client, emptied, lists, crashes, admitted, reasons>>

Decide(r) ==
    LET q == request[r] IN
    /\ Set(r, Verdict(q))
    /\ admitted' = IF q.kind \in Limiters /\ q.fresh /\ Allowed(q)
                   THEN [admitted EXCEPT ![KeyOf(q)] = @ + 1]
                   ELSE admitted

ResumeIncr(r) ==
    /\ request[r].stage = "counted"
    /\ Report(request[r].ok)
    /\ \/ /\ MustExpire(request[r])
          /\ Set(r, [request[r] EXCEPT !.stage = "expire"])
          /\ UNCHANGED admitted
       \/ /\ ~MustExpire(request[r])
          /\ Decide(r)
    /\ UNCHANGED <<server, faults, emptied, lists, crashes, reasons>>

\* record_block expires autoban_types:ip too, a key nothing ever creates.
ResumeExpire(r) ==
    /\ request[r].stage = "expired"
    /\ Report(request[r].ok)
    /\ \/ /\ request[r].kind = "autoban"
          /\ Set(r, At(request[r], "expire", "autobanTypes"))
          /\ UNCHANGED admitted
       \/ /\ request[r].kind # "autoban"
          /\ Decide(r)
    /\ UNCHANGED <<server, faults, emptied, lists, crashes, reasons>>

\* csrf_validator.validate and waf_engine.inspect.
Inspect(r) ==
    LET q == request[r] IN
    /\ q.stage = "inspect"
    /\ \/ /\ Set(r, CallNext(q))
          /\ UNCHANGED reasons
       \/ \E reason \in Reasons : Refuse(r, q, reason)
    /\ UNCHANGED <<redis, lists, crashes, admitted>>

RequestStep(r) ==
    SendIncr(r) \/ ResumeIncr(r) \/ SendExpire(r) \/ ResumeExpire(r) \/ Inspect(r)

-----------------------------------------------------------------------------
(* The surroundings.                                                       *)

\* Bookkeeping of the history variables when keys cease to exist.
Forgotten(gone) ==
    /\ request' = [r \in Requests |->
                     [request[r] EXCEPT !.fresh = @ /\ KeyOf(request[r]) \notin gone]]
    /\ admitted' = [k \in Keys |-> IF k \in gone THEN 0 ELSE admitted[k]]
    /\ reasons' = [ip \in Clients |->
                     IF Key("autoban", ip, NoPath) \in gone THEN {} ELSE reasons[ip]]

Clock == Tick /\ Forgotten(Ending) /\ UNCHANGED <<lists, crashes>>

RedisFails ==
    /\ \E gone \in {{}, Keys} : Outage(gone) /\ Forgotten(gone)
    /\ UNCHANGED <<lists, crashes>>

RedisReturns == Recover /\ UNCHANGED <<lists, request, crashes, admitted, reasons>>

\* A pass of runtime_sync publishes other lists.
SyncLists ==
    /\ allowlist' \in SUBSET ListedIps
    /\ blocklist' \in SUBSET ListedIps
    /\ UNCHANGED <<redis, request, crashes, admitted, reasons>>

\* The process ends and another starts; Redis keeps its keys.
Crash ==
    /\ crashes < MaxCrashes
    /\ crashes' = crashes + 1
    /\ request' = [r \in Requests |-> Idle]
    /\ reportedDown' = FALSE
    /\ allowlist' = {} /\ blocklist' = {}
    /\ UNCHANGED <<server, alerts, faults, emptied, admitted, reasons>>

Init ==
    /\ RedisInit
    /\ allowlist = {} /\ blocklist = {}
    /\ request = [r \in Requests |-> Idle]
    /\ crashes = 0
    /\ admitted = [k \in Keys |-> 0]
    /\ reasons = [ip \in Clients |-> {}]

Next ==
    \/ \E r \in Requests : Arrive(r) \/ RequestStep(r)
    \/ Clock \/ RedisFails \/ RedisReturns \/ SyncLists \/ Crash

Spec == Init /\ [][Next]_vars

\* Calls to Redis return or fail, handlers go on, time passes, and an outage
\* ends.  No request has to arrive.
Fairness ==
    /\ \A r \in Requests : WF_vars(RequestStep(r))
    /\ WF_vars(Clock)
    /\ WF_vars(RedisReturns)

FairSpec == Spec /\ Fairness

-----------------------------------------------------------------------------
(* Properties.                                                             *)

\* Type invariant.
TypeOK ==
    /\ RedisType
    /\ allowlist \subseteq Ips /\ blocklist \subseteq Ips
    /\ request \in [Requests -> RequestType]
    /\ crashes \in 0 .. MaxCrashes
    /\ admitted \in [Keys -> Nat]
    /\ reasons \in [Clients -> SUBSET (Reasons \cup {"blocklist"})]

LimiterKeys == {k \in Keys : k[1] \in Limiters}

\* Requests that took a unit of k's budget and have not been told so yet.
Pending(k) ==
    {r \in Requests : /\ request[r].stage \in {"counted", "expire", "expired"}
                      /\ request[r].fresh
                      /\ KeyOf(request[r]) = k
                      /\ request[r].val <= Limit[k[1]]}

\* However requests, retries, outages, lost replies and restarts interleave,
\* one life of a counter never admits more requests than the limit
\* (RateLimitService.check and its siblings: count <= MAX_REQUESTS).
AtMostLimit == \A k \in LimiterKeys : admitted[k] <= Limit[k[1]]

Lesser(m, n) == IF m < n THEN m ELSE n

\* Redis answered every call and the process never ended.
Undisturbed == faults = 0 /\ crashes = 0

\* While Redis answers every call, a refusal is earned: a counter that stands
\* at its limit has admitted, or is about to admit, exactly as many requests
\* as the limit, so no unit of the budget is lost between two requests.
NoUnitLost ==
    Undisturbed =>
        \A k \in LimiterKeys :
            admitted[k] + Cardinality(Pending(k)) = Lesser(count[k], Limit[k[1]])

\* Requests that created a counter and still have to give it a TTL.
Creators(k) ==
    {r \in Requests : /\ request[r].stage \in {"counted", "expire"}
                      /\ request[r].fresh
                      /\ request[r].val = 1
                      /\ KeyOf(request[r]) = k}

\* INCR and EXPIRE are two calls.  While Redis answers, a counter without a
\* TTL has exactly one request left that will set it, and one with a TTL none.
OneOwesTtl ==
    Undisturbed =>
        \A k \in Keys :
            Cardinality(Creators(k)) = IF count[k] > 0 /\ left[k] = 0 THEN 1 ELSE 0

\* A client that goes on sending while it is refused does not prolong its
\* window: the TTL of a counter only runs down, even through outages, lost
\* replies and restarts, as long as Redis has not lost its keys.
WindowNotProlonged ==
    [][~emptied' => \A k \in Keys : left[k] > 0 => left'[k] <= left[k]]_vars

\* The counters of the limits; without an address nothing is counted.
Windows == {k \in LimiterKeys : k[2] # NoIp}

\* The limits as a whole implement one budget per key: its units come back
\* all at once, and a full period after EXPIRE was executed, neither earlier
\* nor later, or when Redis lost its keys; however INCR, EXPIRE and decision of
\* many requests, lost replies, outages and restarts interleave.
Limiter == INSTANCE WindowLimiter WITH
    Keys <- Windows,
    Budget <- [k \in Windows |-> Limit[k[1]]],
    Window <- [k \in Windows |-> Period[k[1]]],
    used <- [k \in Windows |-> admitted[k]],
    rest <- [k \in Windows |->
               IF count[k] > 0 /\ left[k] = 0 THEN Period[k[1]] + 1 ELSE left[k]],
    lost <- emptied
ImplementsLimiter == Limiter!Spec

\* While Redis answers, every counter is forgotten in the end, so nobody who
\* was refused is refused for ever.
CountersForgotten ==
    \A k \in Keys : count[k] > 0 ~> (count[k] = 0 \/ ~Undisturbed)

\* When Redis stays reachable and requests go on consulting it, the wrapper
\* stops reporting an outage for good, though replies are handled in any order.
OutageReportEnds ==
    (/\ <>[]up
     /\ []<>(\E r \in Requests : request[r].stage = "counted")) => <>[]~reportedDown

-----------------------------------------------------------------------------
(* Statements of the repository that the code does not keep.               *)

\* README: "IPs exhibiting 3+ distinct attack signatures are automatically and
\* persistently banned".
KillChainBanned ==
    \A ip \in Ips : Cardinality(reasons[ip]) >= 3 ~> ip \in blocklist
=============================================================================
