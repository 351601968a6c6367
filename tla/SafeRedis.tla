----------------------------- MODULE SafeRedis -----------------------------
(***************************************************************************)
(* The Redis server and app.core.redis_client, the wrapper every protection *)
(* goes through.  A call has two steps of the caller: the server executes  *)
(* the command, or is never reached; later the caller resumes with a       *)
(* reply or with an exception, which the wrapper swallows.  Between the    *)
(* two other requests run, time passes, and the server may go.             *)
(***************************************************************************)
EXTENDS Naturals

CONSTANTS
    Keys,        \* keys of counters and of flags
    MaxTtl,      \* the largest TTL, in ticks
    MaxCount,    \* bound of the model: counters stay at it
    MaxFaults    \* bound of the model: outages and lost replies

ASSUME RedisAssumption ==
    /\ MaxTtl \in Nat \ {0}
    /\ MaxCount \in Nat \ {0}
    /\ MaxFaults \in Nat

VARIABLES
    up,            \* is the server reachable?
    count,         \* value of each counter; 0 when the key does not exist
    left,          \* ticks each key has left; 0 when it has no TTL
    reportedDown,  \* SafeRedis._reported_down
    alerts,        \* severities of the WAF_DEGRADED rows in table alerts
    faults,        \* budget spent so far
    emptied        \* history: has Redis come back without its keys?

server == <<up, count, left>>
client == <<reportedDown, alerts>>
redis == <<server, client, faults, emptied>>

RedisType ==
    /\ up \in BOOLEAN
    /\ count \in [Keys -> 0 .. MaxCount]
    /\ left \in [Keys -> 0 .. MaxTtl]
    /\ reportedDown \in BOOLEAN
    /\ alerts \subseteq {"critical", "info"}
    /\ faults \in 0 .. MaxFaults
    /\ emptied \in BOOLEAN

RedisInit ==
    /\ up = TRUE
    /\ count = [k \in Keys |-> 0]
    /\ left = [k \in Keys |-> 0]
    /\ reportedDown = FALSE
    /\ alerts = {}
    /\ faults = 0
    /\ emptied = FALSE

-----------------------------------------------------------------------------
(* The server.                                                             *)

\* The value INCR returns.
Incremented(k) == IF count[k] < MaxCount THEN count[k] + 1 ELSE MaxCount

ServerIncr(k) ==
    /\ up
    /\ count' = [count EXCEPT ![k] = Incremented(k)]
    /\ UNCHANGED <<up, left>>

ServerExpireLonger(k, seconds) ==
    /\ up
    /\ left' = IF count[k] = 0 THEN left ELSE [left EXCEPT ![k] = seconds + 1]
    /\ UNCHANGED <<up, count>>

\* EXPIRE of a key that does not exist does nothing.
ServerExpire(k, seconds) ==
    /\ up
    /\ left' = IF count[k] = 0 THEN left ELSE [left EXCEPT ![k] = seconds]
    /\ UNCHANGED <<up, count>>

ServerSetexLonger(k, seconds) ==
    /\ up
    /\ count' = [count EXCEPT ![k] = 1]
    /\ left' = [left EXCEPT ![k] = seconds + 1]
    /\ UNCHANGED up

\* SETEX: value and TTL at once.
ServerSetex(k, seconds) ==
    /\ up
    /\ count' = [count EXCEPT ![k] = 1]
    /\ left' = [left EXCEPT ![k] = seconds]
    /\ UNCHANGED up

\* What GET finds.
Exists(k) == count[k] > 0

Unreachable == ~up /\ UNCHANGED server

\* The command was executed but the connection broke before the reply.
ReplyLost == faults < MaxFaults /\ faults' = faults + 1

Forget(gone) == count' = [k \in Keys |-> IF k \in gone THEN 0 ELSE count[k]]

\* Keys the next tick removes.
Ending == {k \in Keys : left[k] = 1}

Tick ==
    /\ Forget(Ending)
    /\ left' = [k \in Keys |-> IF left[k] = 0 THEN 0 ELSE left[k] - 1]
    /\ UNCHANGED <<up, client, faults, emptied>>

\* The server goes; it keeps its keys or loses them.
Outage(gone) ==
    /\ up
    /\ faults < MaxFaults
    /\ emptied' = (emptied \/ gone # {})
    /\ up' = FALSE
    /\ faults' = faults + 1
    /\ Forget(gone)
    /\ left' = [k \in Keys |-> IF k \in gone THEN 0 ELSE left[k]]
    /\ UNCHANGED client

Recover ==
    /\ ~up
    /\ up' = TRUE
    /\ UNCHANGED <<count, left, client, faults, emptied>>

-----------------------------------------------------------------------------
(* The wrapper.                                                            *)

\* alert_service.create writes a row only for an organization.
CreateAlert(severity, organization_id) ==
    alerts' = IF organization_id = "None" THEN alerts ELSE alerts \cup {severity}

OkUnnoticed == UNCHANGED <<reportedDown, alerts>>

\* _ok: the first reply after an outage is reported, without an organization.
Ok ==
    /\ reportedDown' = FALSE
    /\ IF reportedDown THEN CreateAlert("info", "None") ELSE UNCHANGED alerts

\* _degraded: the first failure is reported, without an organization.
Degraded ==
    /\ reportedDown' = TRUE
    /\ IF reportedDown THEN UNCHANGED alerts ELSE CreateAlert("critical", "None")

Report(ok) == IF ok THEN Ok ELSE Degraded

=============================================================================
