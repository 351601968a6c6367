--------------------------- MODULE PipelineProofs ---------------------------
(***************************************************************************)
(* Proofs about Pipeline, for any number of requests, addresses, paths and *)
(* keys, any limits and periods, and any number of outages, lost replies   *)
(* and restarts.                                                           *)
(***************************************************************************)
EXTENDS Pipeline, FiniteSetTheorems, TLAPS

-----------------------------------------------------------------------------
(* Types.                                                                  *)

\* A request on its way has an address and a path, hence a key.
Routed(q) == q \in RequestType /\ q.path \in Paths /\ q.ip \in Clients
Sound(q) ==
    /\ q \in RequestType
    /\ q.stage # "idle" => Routed(q)
    /\ q.stage = "incr" => q.val = 0 /\ q.fresh = FALSE

TypeInv == TypeOK /\ \A r \in Requests : Sound(request[r])

\* What a request looks like when its next counter has not been asked yet.
Started(q) ==
    /\ Sound(q)
    /\ q.stage \in {"idle", "incr", "inspect"}
    /\ q.kind # "autobanTypes"
    /\ q.val = 0 /\ q.fresh = FALSE

LEMMA KeyOfType ==
    ASSUME NEW q, Routed(q)
    PROVE  KeyOf(q) \in Keys /\ KeyOf(q)[1] = q.kind
BY KeysAssumption DEF Routed, RequestType, KeyOf, Key

LEMMA IdleStarted == Started(Idle)
BY RedisAssumption DEF Started, Sound, Idle, RequestType, Stages, Kinds, Limiters

LEMMA AtType ==
    ASSUME NEW q, Routed(q),
           NEW stage \in Stages, NEW kind \in Kinds
    PROVE  /\ Sound(At(q, stage, kind))
           /\ At(q, stage, kind).stage = stage
           /\ At(q, stage, kind).kind = kind
           /\ At(q, stage, kind).val = 0
           /\ At(q, stage, kind).fresh = FALSE
BY RedisAssumption DEF At, RequestType, Routed, Sound

LEMMA AtStarted ==
    ASSUME NEW q, Routed(q),
           NEW stage \in {"incr", "inspect"}, NEW kind \in Kinds \ {"autobanTypes"}
    PROVE  Started(At(q, stage, kind))
<1>1. stage \in Stages /\ kind \in Kinds  BY DEF Stages
<1>2. /\ Sound(At(q, stage, kind))
      /\ At(q, stage, kind).stage = stage
      /\ At(q, stage, kind).kind = kind
      /\ At(q, stage, kind).val = 0
      /\ At(q, stage, kind).fresh = FALSE
  BY <1>1, AtType
<1> QED  BY <1>2 DEF Started

LEMMA CheckStarted ==
    ASSUME NEW q, Routed(q),
           NEW kind \in Limiters, NEW otherwise, Started(otherwise)
    PROVE  Started(Check(q, kind, otherwise))
<1>1. kind \in Kinds \ {"autobanTypes"}  BY DEF Kinds, Limiters
<1>2. Started(At(q, "incr", kind))  BY <1>1, AtStarted
<1> QED  BY <1>2 DEF Check

LEMMA InspectStarted ==
    ASSUME NEW q, Routed(q)
    PROVE  Started(At(q, "inspect", "route"))
<1>1. "route" \in Kinds \ {"autobanTypes"}  BY DEF Kinds, Limiters
<1> QED  BY <1>1, AtStarted

LEMMA NextStarted ==
    ASSUME NEW q, Routed(q)
    PROVE  /\ Started(CallNext(q))
           /\ Started(RecordBlock(q))
           /\ Started(Verdict(q))
<1>1. Started(CallNext(q))
  BY IdleStarted, CheckStarted DEF CallNext, Limiters
<1>2. Started(RecordBlock(q))
  <2>1. "autoban" \in Kinds \ {"autobanTypes"}  BY DEF Kinds
  <2>2. Started(At(q, "incr", "autoban"))  BY <2>1, AtStarted
  <2> QED  BY <2>2, IdleStarted DEF RecordBlock
<1>3. Started(CheckRoute(q))
  BY InspectStarted, CheckStarted DEF CheckRoute, Limiters
<1>4. Started(Verdict(q))
  BY <1>3, InspectStarted, IdleStarted DEF Verdict, Limiters
<1> QED  BY <1>1, <1>2, <1>4

-----------------------------------------------------------------------------
(* The steps of a request, seen as changes of that request.                *)

LEMMA SetEffect ==
    ASSUME TypeInv, NEW r \in Requests, NEW q, Set(r, q)
    PROVE  /\ request' = [request EXCEPT ![r] = q]
           /\ request'[r] = q
           /\ \A s \in Requests \ {r} : request'[s] = request[s]
BY DEF Set, TypeInv, TypeOK

LEMMA SetType ==
    ASSUME TypeInv, NEW r \in Requests, NEW q, Set(r, q), Sound(q)
    PROVE  /\ request' \in [Requests -> RequestType]
           /\ \A s \in Requests : Sound(request'[s])
BY SetEffect DEF Set, Sound, TypeInv, TypeOK

\* A request that arrives, is inspected or is refused asks no counter yet.
LEMMA ArriveEffect ==
    ASSUME TypeInv, NEW r \in Requests, Arrive(r) \/ Inspect(r)
    PROVE  /\ \E q : Set(r, q) /\ Started(q)
           /\ UNCHANGED <<redis, lists, crashes, admitted>>
           /\ request[r].stage \in {"idle", "inspect"}
           /\ reasons' \in [Clients -> SUBSET (Reasons \cup {"blocklist"})]
<1>1. ASSUME NEW q, Routed(q),
             NEW reason \in Reasons \cup {"blocklist"}, Refuse(r, q, reason)
      PROVE  /\ \E p : Set(r, p) /\ Started(p)
             /\ reasons' \in [Clients -> SUBSET (Reasons \cup {"blocklist"})]
  BY <1>1, NextStarted, IdleStarted DEF Refuse, TypeInv, TypeOK, Routed
<1>2. CASE Arrive(r)
  <2> PICK ip \in Clients, path \in Paths :
        LET q == [Idle EXCEPT !.ip = ip, !.path = path] IN
        \/ Set(r, Check(q, "playground", Idle)) /\ UNCHANGED reasons
        \/ Set(r, CallNext(q)) /\ UNCHANGED reasons
        \/ Refuse(r, q, "blocklist")
        \/ Set(r, Check(q, "ip", At(q, "inspect", "route"))) /\ UNCHANGED reasons
    BY <1>2 DEF Arrive
  <2> DEFINE q == [Idle EXCEPT !.ip = ip, !.path = path]
  <2>1. Routed(q)
    BY IdleStarted DEF Started, Sound, Routed, RequestType
  <2>2. Started(Check(q, "playground", Idle))
    BY <2>1, CheckStarted, IdleStarted DEF Limiters
  <2>3. Started(CallNext(q))  BY <2>1, NextStarted
  <2>4. Started(Check(q, "ip", At(q, "inspect", "route")))
    BY <2>1, CheckStarted, InspectStarted DEF Limiters
  <2>5. reasons \in [Clients -> SUBSET (Reasons \cup {"blocklist"})]
    BY DEF TypeInv, TypeOK
  <2>6. /\ \E p : Set(r, p) /\ Started(p)
        /\ reasons' \in [Clients -> SUBSET (Reasons \cup {"blocklist"})]
    <3> HIDE DEF q
    <3> QED  BY <1>1, <2>1, <2>2, <2>3, <2>4, <2>5 DEF q
  <2> QED  BY <1>2, <2>6 DEF Arrive
<1>3. CASE Inspect(r)
  <2> DEFINE q == request[r]
  <2>1. Routed(q)
    BY <1>3 DEF Inspect, TypeInv, Sound
  <2>2. Started(CallNext(q))  BY <2>1, NextStarted
  <2>3. /\ \E p : Set(r, p) /\ Started(p)
        /\ reasons' \in [Clients -> SUBSET (Reasons \cup {"blocklist"})]
    BY <1>1, <1>3, <2>1, <2>2 DEF Inspect, TypeInv, TypeOK
  <2> QED  BY <1>3, <2>3 DEF Inspect
<1> QED  BY <1>2, <1>3

-----------------------------------------------------------------------------
(* Type correctness.                                                       *)

LEMMA ReportType ==
    ASSUME TypeInv, NEW ok \in BOOLEAN, Report(ok)
    PROVE  reportedDown' \in BOOLEAN /\ alerts' \subseteq {"critical", "info"}
BY DEF Report, Ok, Degraded, CreateAlert, TypeInv, TypeOK, RedisType

LEMMA ForgetType ==
    ASSUME TypeInv, NEW gone, Forget(gone)
    PROVE  count' \in [Keys -> 0 .. MaxCount]
BY RedisAssumption DEF Forget, TypeInv, TypeOK, RedisType

LEMMA ForgottenType ==
    ASSUME TypeInv, NEW gone, Forgotten(gone)
    PROVE  /\ request' \in [Requests -> RequestType]
           /\ \A r \in Requests : Sound(request'[r])
           /\ admitted' \in [Keys -> Nat]
           /\ reasons' \in [Clients -> SUBSET (Reasons \cup {"blocklist"})]
<1>1. ASSUME NEW r \in Requests
      PROVE  Sound([request[r] EXCEPT !.fresh = @ /\ KeyOf(request[r]) \notin gone])
  BY DEF TypeInv, Sound, Routed, RequestType
<1>2. \A r \in Requests : Sound(request'[r])
  BY <1>1 DEF Forgotten
<1>3. request' \in [Requests -> RequestType]
  BY <1>1 DEF Forgotten, Sound
<1> QED  BY <1>2, <1>3 DEF Forgotten, TypeInv, TypeOK

LEMMA SendIncrType == ASSUME TypeInv, NEW r \in Requests, SendIncr(r) PROVE TypeInv'
<1> DEFINE q == request[r]  k == KeyOf(q)
<1>1. Routed(q)
  BY DEF SendIncr, TypeInv, Sound
<1>2. k \in Keys  BY <1>1, KeyOfType
<1>3. Incremented(k) \in 0 .. MaxCount
  BY <1>2, RedisAssumption DEF Incremented, TypeInv, TypeOK, RedisType
<1>4. /\ Sound([q EXCEPT !.stage = "counted"])
      /\ Sound([q EXCEPT !.stage = "counted", !.val = Incremented(k),
                         !.ok = TRUE, !.fresh = TRUE])
  BY <1>1, <1>3 DEF Sound, Routed, RequestType, Stages
<1>5. /\ request' \in [Requests -> RequestType]
      /\ \A s \in Requests : Sound(request'[s])
  BY <1>4, SetType DEF SendIncr
<1>6. RedisType'
  <2>1. up' \in BOOLEAN /\ left' \in [Keys -> 0 .. MaxTtl]
    BY DEF SendIncr, ServerIncr, Unreachable, server, TypeInv, TypeOK, RedisType
  <2>2. count' \in [Keys -> 0 .. MaxCount]
    BY <1>3 DEF SendIncr, ServerIncr, Unreachable, server, TypeInv, TypeOK, RedisType
  <2>3. faults' \in 0 .. MaxFaults
    BY RedisAssumption DEF SendIncr, ReplyLost, TypeInv, TypeOK, RedisType
  <2> QED  BY <2>1, <2>2, <2>3 DEF SendIncr, client, TypeInv, TypeOK, RedisType
<1> QED  BY <1>5, <1>6 DEF SendIncr, lists, TypeInv, TypeOK

LEMMA SendExpireType == ASSUME TypeInv, NEW r \in Requests, SendExpire(r) PROVE TypeInv'
<1> DEFINE q == request[r]  k == KeyOf(q)
<1>1. Routed(q)
  BY DEF SendExpire, TypeInv, Sound
<1>2. Period[q.kind] \in 0 .. MaxTtl
  BY <1>1, PeriodAssumption, RedisAssumption DEF Routed, RequestType
<1>3. \A ok \in BOOLEAN : Sound([q EXCEPT !.stage = "expired", !.ok = ok])
  BY <1>1 DEF Sound, Routed, RequestType, Stages
<1>4. /\ request' \in [Requests -> RequestType]
      /\ \A s \in Requests : Sound(request'[s])
  BY <1>3, SetType DEF SendExpire
<1>5. RedisType'
  <2>1. up' \in BOOLEAN /\ count' \in [Keys -> 0 .. MaxCount]
    BY DEF SendExpire, ServerExpire, Seconds, Unreachable, server, TypeInv, TypeOK, RedisType
  <2>2. left' \in [Keys -> 0 .. MaxTtl]
    BY <1>2 DEF SendExpire, ServerExpire, Seconds, Unreachable, server, TypeInv, TypeOK, RedisType
  <2>3. faults' \in 0 .. MaxFaults
    BY RedisAssumption DEF SendExpire, ReplyLost, TypeInv, TypeOK, RedisType
  <2> QED  BY <2>1, <2>2, <2>3 DEF SendExpire, client, TypeInv, TypeOK, RedisType
<1> QED  BY <1>4, <1>5 DEF SendExpire, lists, TypeInv, TypeOK

LEMMA DecideType ==
    ASSUME TypeInv, NEW r \in Requests, Routed(request[r]), Decide(r)
    PROVE  /\ request' \in [Requests -> RequestType]
           /\ \A s \in Requests : Sound(request'[s])
           /\ admitted' \in [Keys -> Nat]
<1>1. request[r] \in RequestType  BY DEF TypeInv, Sound
<1>2. Sound(Verdict(request[r]))  BY <1>1, NextStarted DEF Started
<1>3. KeyOf(request[r]) \in Keys  BY <1>1, KeyOfType
<1>4. admitted' \in [Keys -> Nat]
  BY <1>3 DEF Decide, TypeInv, TypeOK
<1> QED  BY <1>2, <1>4, SetType DEF Decide

LEMMA ResumeIncrType == ASSUME TypeInv, NEW r \in Requests, ResumeIncr(r) PROVE TypeInv'
<1>1. Routed(request[r])
  BY DEF ResumeIncr, TypeInv, Sound
<1>2. Sound([request[r] EXCEPT !.stage = "expire"])
  BY <1>1 DEF Sound, Routed, RequestType, Stages
<1>3. /\ request' \in [Requests -> RequestType]
      /\ \A s \in Requests : Sound(request'[s])
      /\ admitted' \in [Keys -> Nat]
  BY <1>1, <1>2, SetType, DecideType DEF ResumeIncr, TypeInv, TypeOK
<1>4. reportedDown' \in BOOLEAN /\ alerts' \subseteq {"critical", "info"}
  BY <1>1, ReportType DEF ResumeIncr, Routed, RequestType
<1> QED  BY <1>3, <1>4 DEF ResumeIncr, server, lists, TypeInv, TypeOK, RedisType

LEMMA ResumeExpireType == ASSUME TypeInv, NEW r \in Requests, ResumeExpire(r) PROVE TypeInv'
<1>1. Routed(request[r])
  BY DEF ResumeExpire, TypeInv, Sound
<1>2. Sound(At(request[r], "expire", "autobanTypes"))
  BY <1>1, AtType DEF Stages, Kinds
<1>3. /\ request' \in [Requests -> RequestType]
      /\ \A s \in Requests : Sound(request'[s])
      /\ admitted' \in [Keys -> Nat]
  BY <1>1, <1>2, SetType, DecideType DEF ResumeExpire, TypeInv, TypeOK
<1>4. reportedDown' \in BOOLEAN /\ alerts' \subseteq {"critical", "info"}
  BY <1>1, ReportType DEF ResumeExpire, Routed, RequestType
<1> QED  BY <1>3, <1>4 DEF ResumeExpire, server, lists, TypeInv, TypeOK, RedisType

LEMMA ClockType == ASSUME TypeInv, Clock PROVE TypeInv'
<1>1. RedisType'
  <2>1. left' \in [Keys -> 0 .. MaxTtl]
    BY RedisAssumption DEF Clock, Tick, TypeInv, TypeOK, RedisType
  <2>2. count' \in [Keys -> 0 .. MaxCount]
    BY ForgetType DEF Clock, Tick
  <2> QED  BY <2>1, <2>2 DEF Clock, Tick, client, TypeInv, TypeOK, RedisType
<1> QED  BY <1>1, ForgottenType DEF Clock, lists, TypeInv, TypeOK

LEMMA RedisFailsType == ASSUME TypeInv, RedisFails PROVE TypeInv'
<1> PICK gone \in {{}, Keys} : Outage(gone) /\ Forgotten(gone)
  BY DEF RedisFails
<1>1. RedisType'
  <2>1. left' \in [Keys -> 0 .. MaxTtl]
    BY RedisAssumption DEF Outage, TypeInv, TypeOK, RedisType
  <2>2. count' \in [Keys -> 0 .. MaxCount]
    BY ForgetType DEF Outage
  <2>3. faults' \in 0 .. MaxFaults
    BY RedisAssumption DEF Outage, TypeInv, TypeOK, RedisType
  <2> QED  BY <2>1, <2>2, <2>3 DEF Outage, client, TypeInv, TypeOK, RedisType
<1> QED  BY <1>1, ForgottenType DEF RedisFails, lists, TypeInv, TypeOK

LEMMA SurroundingsType ==
    ASSUME TypeInv, RedisReturns \/ SyncLists \/ Crash
    PROVE  TypeInv'
<1>1. CASE RedisReturns
  BY <1>1 DEF RedisReturns, Recover, client, lists, TypeInv, TypeOK, RedisType
<1>2. CASE SyncLists
  BY <1>2, ListedAssumption DEF SyncLists, redis, server, client, TypeInv, TypeOK, RedisType
<1>3. CASE Crash
  <2>1. Sound(Idle)  BY IdleStarted DEF Started
  <2>2. crashes' \in 0 .. MaxCrashes
    BY <1>3, ListedAssumption DEF Crash, TypeInv, TypeOK
  <2> QED  BY <1>3, <2>1, <2>2 DEF Crash, server, Sound, TypeInv, TypeOK, RedisType
<1> QED  BY <1>1, <1>2, <1>3

LEMMA InitType == Init => TypeInv
<1> SUFFICES ASSUME Init PROVE TypeInv
  OBVIOUS
<1>1. RedisType
  <2>1. count \in [Keys -> 0 .. MaxCount] /\ left \in [Keys -> 0 .. MaxTtl]
    BY RedisAssumption DEF Init, RedisInit
  <2>2. faults \in 0 .. MaxFaults  BY RedisAssumption DEF Init, RedisInit
  <2>3. up \in BOOLEAN /\ reportedDown \in BOOLEAN /\ emptied \in BOOLEAN /\ alerts = {}
    BY DEF Init, RedisInit
  <2> QED  BY <2>1, <2>2, <2>3 DEF RedisType
<1>2. Sound(Idle)  BY IdleStarted DEF Started
<1> QED  BY <1>1, <1>2, ListedAssumption DEF Init, Sound, TypeInv, TypeOK

LEMMA NextType == TypeInv /\ [Next]_vars => TypeInv'
<1> SUFFICES ASSUME TypeInv, [Next]_vars PROVE TypeInv'
  OBVIOUS
<1>1. ASSUME NEW r \in Requests, Arrive(r) \/ Inspect(r) PROVE TypeInv'
  <2>1. PICK q : Set(r, q) /\ Started(q)  BY <1>1, ArriveEffect
  <2>2. /\ request' \in [Requests -> RequestType]
        /\ \A s \in Requests : Sound(request'[s])
    BY <2>1, SetType DEF Started
  <2>3. /\ UNCHANGED <<redis, lists, crashes, admitted>>
        /\ reasons' \in [Clients -> SUBSET (Reasons \cup {"blocklist"})]
    BY <1>1, ArriveEffect
  <2> QED  BY <2>2, <2>3 DEF redis, server, client, lists, TypeInv, TypeOK, RedisType
<1>2. CASE UNCHANGED vars
  BY <1>2 DEF vars, redis, server, client, lists, TypeInv, TypeOK, RedisType
<1> QED
  BY <1>1, <1>2, SendIncrType, SendExpireType, ResumeIncrType, ResumeExpireType,
     ClockType, RedisFailsType, SurroundingsType DEF Next, RequestStep

\* Every variable keeps its type and every request on its way has a key, for
\* any number of requests and any faults (Pipeline's TypeOK).
THEOREM TypeCorrect == Spec => []TypeOK
<1>1. Spec => []TypeInv  BY InitType, NextType, PTL DEF Spec
<1> QED  BY <1>1, PTL DEF TypeInv

-----------------------------------------------------------------------------
(* The budget of a counter.  A unit of it is taken when INCR answers and   *)
(* spent when the request is told; in between the request is pending.      *)
(* AtMostLimit alone is not inductive: it needs the pending requests.      *)

BudgetInv ==
    \A k \in LimiterKeys :
        /\ admitted[k] + Cardinality(Pending(k)) <= count[k]
        /\ admitted[k] + Cardinality(Pending(k)) <= Limit[k[1]]

\* Is q one of the requests Pending(k) collects?
Holds(q, k) ==
    /\ q.stage \in {"counted", "expire", "expired"}
    /\ q.fresh
    /\ KeyOf(q) = k
    /\ q.val <= Limit[k[1]]

LEMMA PendingFinite ==
    ASSUME NEW k
    PROVE  IsFiniteSet(Pending(k)) /\ Cardinality(Pending(k)) \in Nat
BY RequestsAssumption, FS_Subset, FS_CardinalityType DEF Pending

\* What a change of one request does to the pending ones.
LEMMA PendingSet ==
    ASSUME TypeInv, NEW r \in Requests, NEW q, Set(r, q), NEW k
    PROVE  Pending(k)' = IF Holds(q, k) THEN Pending(k) \cup {r} ELSE Pending(k) \ {r}
BY SetEffect DEF Pending, Holds

LEMMA PendingNot ==
    ASSUME NEW r \in Requests, NEW k, ~Holds(request[r], k)
    PROVE  r \notin Pending(k)
BY DEF Pending, Holds

LEMMA StartedHoldsNothing ==
    ASSUME NEW q, NEW k, Started(q)
    PROVE  ~Holds(q, k)
BY DEF Started, Holds

LEMMA LimiterKeysType ==
    ASSUME NEW k \in LimiterKeys
    PROVE  k \in Keys /\ k[1] \in Limiters /\ Limit[k[1]] \in Nat /\ Limit[k[1]] < MaxCount
BY LimitAssumption DEF LimiterKeys

\* A request that leaves Pending, if it was there, only frees units.
LEMMA PendingLeaves ==
    ASSUME NEW k, NEW r
    PROVE  /\ Cardinality(Pending(k) \ {r}) \in Nat
           /\ r \notin Pending(k) => Pending(k) \ {r} = Pending(k)
           /\ r \in Pending(k) =>
                Cardinality(Pending(k) \ {r}) = Cardinality(Pending(k)) - 1
<1>1. IsFiniteSet(Pending(k)) /\ Cardinality(Pending(k)) \in Nat  BY PendingFinite
<1>2. IsFiniteSet(Pending(k) \ {r})  BY <1>1, FS_Subset
<1> QED  BY <1>1, <1>2, FS_CardinalityType, FS_RemoveElement

LEMMA PendingJoins ==
    ASSUME NEW k, NEW r, r \notin Pending(k)
    PROVE  Cardinality(Pending(k) \cup {r}) = Cardinality(Pending(k)) + 1
BY PendingFinite, FS_AddElement

\* A key keeps within its budget when no new unit is taken.
LEMMA BudgetKept ==
    ASSUME TypeInv, BudgetInv, NEW k \in LimiterKeys, Pending(k)' = Pending(k),
           admitted'[k] = admitted[k], count'[k] \in Nat, count[k] <= count'[k]
    PROVE  /\ admitted'[k] + Cardinality(Pending(k)') <= count'[k]
           /\ admitted'[k] + Cardinality(Pending(k)') <= Limit[k[1]]
BY PendingFinite, LimiterKeysType DEF BudgetInv, TypeInv, TypeOK, RedisType

LEMMA BudgetFreed ==
    ASSUME TypeInv, BudgetInv, NEW k \in LimiterKeys, Pending(k)' = {},
           admitted'[k] = 0 \/ (admitted'[k] = admitted[k] /\ count'[k] = count[k]),
           count'[k] \in Nat
    PROVE  /\ admitted'[k] + Cardinality(Pending(k)') <= count'[k]
           /\ admitted'[k] + Cardinality(Pending(k)') <= Limit[k[1]]
<1>1. Cardinality(Pending(k)') = 0  BY FS_EmptySet
<1>2. Cardinality(Pending(k)) \in Nat  BY PendingFinite
<1> QED
  BY <1>1, <1>2, LimiterKeysType DEF BudgetInv, TypeInv, TypeOK, RedisType

LEMMA StartBudget ==
    ASSUME TypeInv, BudgetInv, NEW r \in Requests, Arrive(r) \/ Inspect(r)
    PROVE  BudgetInv'
<1> SUFFICES ASSUME NEW k \in LimiterKeys
             PROVE  /\ admitted'[k] + Cardinality(Pending(k)') <= count'[k]
                    /\ admitted'[k] + Cardinality(Pending(k)') <= Limit[k[1]]
  BY DEF BudgetInv
<1>1. PICK q : Set(r, q) /\ Started(q)  BY ArriveEffect
<1>2. r \notin Pending(k)  BY ArriveEffect, PendingNot DEF Holds
<1>3. Pending(k)' = Pending(k)
  BY <1>1, <1>2, PendingSet, StartedHoldsNothing, PendingLeaves
<1> QED
  BY <1>3, BudgetKept, ArriveEffect, LimiterKeysType
  DEF redis, server, TypeInv, TypeOK, RedisType

LEMMA SendIncrBudget ==
    ASSUME TypeInv, BudgetInv, NEW r \in Requests, SendIncr(r)
    PROVE  BudgetInv'
<1> SUFFICES ASSUME NEW k \in LimiterKeys
             PROVE  /\ admitted'[k] + Cardinality(Pending(k)') <= count'[k]
                    /\ admitted'[k] + Cardinality(Pending(k)') <= Limit[k[1]]
  BY DEF BudgetInv
<1> DEFINE q == request[r]
           failed == [q EXCEPT !.stage = "counted"]
           counted == [q EXCEPT !.stage = "counted", !.val = Incremented(KeyOf(q)),
                                !.ok = TRUE, !.fresh = TRUE]
<1>1. q \in RequestType /\ Routed(q) /\ q.fresh = FALSE
  BY DEF SendIncr, TypeInv, Sound
<1>2. k \in Keys /\ KeyOf(q) \in Keys  BY <1>1, KeyOfType, LimiterKeysType
<1>3. r \notin Pending(k)  BY PendingNot DEF SendIncr, Holds
<1>4. count'[k] \in Nat /\ count[k] <= count'[k]
  BY <1>2, RedisAssumption
  DEF SendIncr, ServerIncr, Unreachable, server, Incremented, TypeInv, TypeOK, RedisType
<1>5. CASE Set(r, failed)
  <2>1. ~Holds(failed, k)  BY <1>1 DEF Holds, RequestType
  <2>2. Pending(k)' = Pending(k)  BY <1>3, <1>5, <2>1, PendingSet, PendingLeaves
  <2> QED  BY <1>4, <2>2, BudgetKept DEF SendIncr
<1>6. CASE Set(r, counted) /\ ServerIncr(KeyOf(q)) /\ ~Holds(counted, k)
  <2>1. Pending(k)' = Pending(k)  BY <1>3, <1>6, PendingSet, PendingLeaves
  <2> QED  BY <1>4, <2>1, BudgetKept DEF SendIncr
<1>7. CASE Set(r, counted) /\ ServerIncr(KeyOf(q)) /\ Holds(counted, k)
  <2>1. k = KeyOf(q)  BY <1>1, <1>7 DEF Holds, KeyOf, RequestType
  <2>2. Incremented(k) <= Limit[k[1]]
    BY <1>1, <1>7, <2>1 DEF Holds, RequestType
  <2>3. count'[k] = count[k] + 1 /\ Incremented(k) = count[k] + 1 /\ count[k] \in Nat
    BY <1>2, <1>7, <2>1, <2>2, LimiterKeysType, RedisAssumption
    DEF ServerIncr, Incremented, TypeInv, TypeOK, RedisType
  <2>4. Cardinality(Pending(k)') = Cardinality(Pending(k)) + 1
    BY <1>3, <1>7, PendingSet, PendingJoins
  <2> QED
    BY <1>2, <2>2, <2>3, <2>4, PendingFinite, LimiterKeysType
    DEF SendIncr, BudgetInv, TypeInv, TypeOK
<1> QED
  <2> HIDE DEF failed, counted
  <2>1. Set(r, failed) \/ (Set(r, counted) /\ ServerIncr(KeyOf(q)))
    BY DEF SendIncr, failed, counted
  <2> QED  BY <1>5, <1>6, <1>7, <2>1

\* Steps that neither take a unit nor tell the request.
LEMMA SameHoldingBudget ==
    ASSUME TypeInv, BudgetInv, NEW r \in Requests, NEW q, Set(r, q),
           \A k : Holds(q, k) <=> Holds(request[r], k),
           UNCHANGED <<count, admitted>>
    PROVE  BudgetInv'
<1> SUFFICES ASSUME NEW k \in LimiterKeys
             PROVE  /\ admitted'[k] + Cardinality(Pending(k)') <= count'[k]
                    /\ admitted'[k] + Cardinality(Pending(k)') <= Limit[k[1]]
  BY DEF BudgetInv
<1>1. Pending(k)' = Pending(k)
  BY PendingSet DEF Pending, Holds
<1> QED  BY <1>1, BudgetKept, LimiterKeysType DEF TypeInv, TypeOK, RedisType

LEMMA DecideBudget ==
    ASSUME TypeInv, BudgetInv, NEW r \in Requests, Decide(r), Routed(request[r]),
           request[r].stage \in {"counted", "expired"}, UNCHANGED count
    PROVE  BudgetInv'
<1> SUFFICES ASSUME NEW k \in LimiterKeys
             PROVE  /\ admitted'[k] + Cardinality(Pending(k)') <= count'[k]
                    /\ admitted'[k] + Cardinality(Pending(k)') <= Limit[k[1]]
  BY DEF BudgetInv
<1> DEFINE q == request[r]
<1>1. KeyOf(q) \in Keys /\ KeyOf(q)[1] = q.kind  BY KeyOfType
<1>2. Pending(k)' = Pending(k) \ {r}
  <2>1. Started(Verdict(q))  BY NextStarted
  <2> QED  BY <2>1, PendingSet, StartedHoldsNothing DEF Decide
<1>3. r \in Pending(k) <=> Holds(q, k)  BY DEF Pending, Holds
<1>4. Holds(q, k) <=> (q.kind \in Limiters /\ q.fresh /\ Allowed(q) /\ KeyOf(q) = k)
  BY <1>1, LimiterKeysType DEF Holds, Allowed
<1>5. admitted'[k] = IF Holds(q, k) THEN admitted[k] + 1 ELSE admitted[k]
  BY <1>1, <1>4, LimiterKeysType DEF Decide, TypeInv, TypeOK
<1>6. admitted[k] \in Nat /\ count[k] \in Nat /\ Cardinality(Pending(k)) \in Nat
  BY PendingFinite, LimiterKeysType DEF TypeInv, TypeOK, RedisType
<1>7. Limit[k[1]] \in Nat  BY LimiterKeysType
<1>8. /\ admitted[k] + Cardinality(Pending(k)) <= count[k]
      /\ admitted[k] + Cardinality(Pending(k)) <= Limit[k[1]]
  BY DEF BudgetInv
<1>9. CASE Holds(q, k)
  <2>1. Cardinality(Pending(k)') = Cardinality(Pending(k)) - 1
    BY <1>2, <1>3, <1>9, PendingLeaves
  <2> QED  BY <1>5, <1>6, <1>7, <1>8, <1>9, <2>1
<1>10. CASE ~Holds(q, k)
  <2>1. Pending(k)' = Pending(k)  BY <1>2, <1>3, <1>10, PendingLeaves
  <2> QED  BY <1>5, <1>8, <1>10, <2>1
<1> QED  BY <1>9, <1>10

LEMMA ForgottenBudget ==
    ASSUME TypeInv, BudgetInv, NEW gone, Forgotten(gone), Forget(gone)
    PROVE  BudgetInv'
<1> SUFFICES ASSUME NEW k \in LimiterKeys
             PROVE  /\ admitted'[k] + Cardinality(Pending(k)') <= count'[k]
                    /\ admitted'[k] + Cardinality(Pending(k)') <= Limit[k[1]]
  BY DEF BudgetInv
<1>1. k \in Keys  BY LimiterKeysType
<1>2. count'[k] \in Nat  BY <1>1, ForgetType
<1>3. \A r \in Requests : /\ request'[r].stage = request[r].stage
                          /\ request'[r].val = request[r].val
                          /\ KeyOf(request'[r]) = KeyOf(request[r])
                          /\ request'[r].fresh <=> (request[r].fresh /\ KeyOf(request[r]) \notin gone)
  BY DEF Forgotten, TypeInv, Sound, RequestType, KeyOf
<1>4. CASE k \in gone
  <2>1. Pending(k)' = {}  BY <1>3, <1>4 DEF Pending
  <2>2. admitted'[k] = 0  BY <1>1, <1>4 DEF Forgotten
  <2> QED  BY <1>2, <2>1, <2>2, BudgetFreed
<1>5. CASE k \notin gone
  <2>1. Pending(k)' = Pending(k)  BY <1>3, <1>5 DEF Pending
  <2>2. admitted'[k] = admitted[k] /\ count'[k] = count[k]
    BY <1>1, <1>5 DEF Forgotten, Forget
  <2> QED
    BY <1>1, <1>2, <2>1, <2>2, BudgetKept DEF TypeInv, TypeOK, RedisType
<1> QED  BY <1>4, <1>5

LEMMA SameBudget ==
    ASSUME TypeInv, BudgetInv, UNCHANGED <<request, count, admitted>>
    PROVE  BudgetInv'
BY DEF BudgetInv, Pending

LEMMA CrashBudget == ASSUME TypeInv, BudgetInv, Crash PROVE BudgetInv'
<1> SUFFICES ASSUME NEW k \in LimiterKeys
             PROVE  /\ admitted'[k] + Cardinality(Pending(k)') <= count'[k]
                    /\ admitted'[k] + Cardinality(Pending(k)') <= Limit[k[1]]
  BY DEF BudgetInv
<1>1. Pending(k)' = {}  BY DEF Crash, Pending, Idle
<1>2. admitted' = admitted /\ count' = count /\ count[k] \in Nat
  BY LimiterKeysType DEF Crash, server, TypeInv, TypeOK, RedisType
<1> QED  BY <1>1, <1>2, BudgetFreed

LEMMA InitBudget == Init => BudgetInv
<1> SUFFICES ASSUME Init, NEW k \in LimiterKeys
             PROVE  /\ admitted[k] + Cardinality(Pending(k)) <= count[k]
                    /\ admitted[k] + Cardinality(Pending(k)) <= Limit[k[1]]
  BY DEF BudgetInv
<1>1. Pending(k) = {}  BY DEF Init, Pending, Idle
<1>2. admitted[k] = 0 /\ count[k] = 0  BY LimiterKeysType DEF Init, RedisInit
<1> QED  BY <1>1, <1>2, LimiterKeysType, FS_EmptySet

LEMMA ResumeBudget ==
    ASSUME TypeInv, BudgetInv, NEW r \in Requests, ResumeIncr(r) \/ ResumeExpire(r)
    PROVE  BudgetInv'
<1> DEFINE q == request[r]
<1>1. Routed(q) /\ q \in RequestType
  BY DEF ResumeIncr, ResumeExpire, TypeInv, Sound
<1>2. UNCHANGED count /\ q.stage \in {"counted", "expired"}
  BY DEF ResumeIncr, ResumeExpire, server
<1>3. CASE Decide(r)  BY <1>1, <1>2, <1>3, DecideBudget
<1>4. CASE q.stage = "counted" /\ Set(r, [q EXCEPT !.stage = "expire"]) /\ UNCHANGED admitted
  <2>1. \A k : Holds([q EXCEPT !.stage = "expire"], k) <=> Holds(q, k)
    BY <1>1, <1>4 DEF Holds, KeyOf, RequestType
  <2> QED  BY <1>2, <1>4, <2>1, SameHoldingBudget
<1>5. CASE /\ q.stage = "expired" /\ q.kind = "autoban"
           /\ Set(r, At(q, "expire", "autobanTypes")) /\ UNCHANGED admitted
  <2> SUFFICES ASSUME NEW k \in LimiterKeys
               PROVE  /\ admitted'[k] + Cardinality(Pending(k)') <= count'[k]
                      /\ admitted'[k] + Cardinality(Pending(k)') <= Limit[k[1]]
    BY DEF BudgetInv
  <2>1. r \notin Pending(k)
    BY <1>1, <1>5, KeyOfType, LimiterKeysType DEF Pending, Limiters
  <2>2. ~Holds(At(q, "expire", "autobanTypes"), k)  BY DEF Holds, At
  <2>3. Pending(k)' = Pending(k)  BY <1>5, <2>1, <2>2, PendingSet, PendingLeaves
  <2> QED
    BY <1>2, <1>5, <2>3, BudgetKept, LimiterKeysType DEF TypeInv, TypeOK, RedisType
<1> QED  BY <1>3, <1>4, <1>5 DEF ResumeIncr, ResumeExpire

LEMMA NextBudget == TypeInv /\ BudgetInv /\ [Next]_vars => BudgetInv'
<1> SUFFICES ASSUME TypeInv, BudgetInv, [Next]_vars PROVE BudgetInv'
  OBVIOUS
<1>1. ASSUME NEW r \in Requests, SendExpire(r) PROVE BudgetInv'
  <2> DEFINE q == request[r]
  <2>1. q \in RequestType /\ q.stage = "expire"
    BY <1>1 DEF SendExpire, TypeInv, Sound
  <2>2. PICK ok \in BOOLEAN : Set(r, [q EXCEPT !.stage = "expired", !.ok = ok])
    BY <1>1 DEF SendExpire
  <2>3. \A k : Holds([q EXCEPT !.stage = "expired", !.ok = ok], k) <=> Holds(q, k)
    BY <2>1 DEF Holds, KeyOf, RequestType
  <2> QED
    BY <1>1, <2>2, <2>3, SameHoldingBudget
    DEF SendExpire, ServerExpire, Seconds, Unreachable, server
<1>2. CASE Clock  BY <1>2, ForgottenBudget DEF Clock, Tick
<1>3. CASE RedisFails
  <2> PICK gone : Outage(gone) /\ Forgotten(gone)  BY <1>3 DEF RedisFails
  <2> QED  BY ForgottenBudget DEF Outage
<1>4. CASE RedisReturns \/ SyncLists \/ UNCHANGED vars
  BY <1>4, SameBudget DEF RedisReturns, Recover, SyncLists, vars, redis, server
<1> QED
  BY <1>1, <1>2, <1>3, <1>4, StartBudget, SendIncrBudget, ResumeBudget, CrashBudget
  DEF Next, RequestStep

\* For any limits and any interleaving of requests, outages, lost replies and
\* restarts, one life of a counter admits no more requests than its limit.
THEOREM WithinLimit == Spec => []AtMostLimit
<1>1. BudgetInv /\ TypeInv => AtMostLimit
  <2> SUFFICES ASSUME BudgetInv, TypeInv, NEW k \in LimiterKeys
               PROVE  admitted[k] <= Limit[k[1]]
    BY DEF AtMostLimit
  <2> QED  BY PendingFinite, LimiterKeysType DEF BudgetInv, TypeInv, TypeOK
<1> QED  BY <1>1, InitType, NextType, InitBudget, NextBudget, PTL DEF Spec

-----------------------------------------------------------------------------
(* The window.  Only the request that created a counter sets its TTL, and  *)
(* while Redis keeps its keys there is one such request at most, so a TTL  *)
(* is set at most once in the life of a counter.                           *)

Creates(q) == q.stage \in {"counted", "expire"} /\ q.val = 1

\* What holds whatever Redis loses.
CounterInv ==
    /\ \A r \in Requests :
          /\ request[r].stage = "expire" =>
                request[r].val = 1 \/ request[r].kind = "autobanTypes"
          /\ request[r].stage \in {"incr", "counted"} => request[r].kind # "autobanTypes"
    /\ \A k \in Keys : k[1] = "autobanTypes" => count[k] = 0
    /\ \A k \in Keys : count[k] = 0 => left[k] = 0

CreatorInv ==
    ~emptied =>
        /\ \A r \in Requests :
              Creates(request[r]) =>
                  left[KeyOf(request[r])] = 0 /\ count[KeyOf(request[r])] > 0
        /\ \A r, s \in Requests :
              (/\ Creates(request[r]) /\ Creates(request[s])
               /\ KeyOf(request[r]) = KeyOf(request[s])) => r = s

WindowInv == CounterInv /\ CreatorInv

LEMMA StartedCreatesNothing ==
    ASSUME NEW q, Started(q)
    PROVE  ~Creates(q)
BY DEF Started, Creates

\* Steps that end with a request that has no counter to create.
LEMMA StartWindow ==
    ASSUME TypeInv, WindowInv, NEW r \in Requests, NEW q, Set(r, q), Started(q),
           UNCHANGED <<count, left, emptied>>
    PROVE  WindowInv'
<1>1. CounterInv'
  BY SetEffect DEF WindowInv, CounterInv, Started
<1>2. CreatorInv'
  BY SetEffect, StartedCreatesNothing DEF WindowInv, CreatorInv
<1> QED  BY <1>1, <1>2 DEF WindowInv

LEMMA SendIncrWindow ==
    ASSUME TypeInv, WindowInv, NEW r \in Requests, SendIncr(r)
    PROVE  WindowInv'
<1> DEFINE q == request[r]
           failed == [q EXCEPT !.stage = "counted"]
           counted == [q EXCEPT !.stage = "counted", !.val = Incremented(KeyOf(q)),
                                !.ok = TRUE, !.fresh = TRUE]
<1>1. q \in RequestType /\ Routed(q) /\ q.val = 0 /\ q.kind # "autobanTypes"
  BY DEF SendIncr, TypeInv, Sound, WindowInv, CounterInv
<1>2. KeyOf(q) \in Keys /\ KeyOf(q)[1] = q.kind  BY <1>1, KeyOfType
<1>3. /\ left' = left /\ emptied' = emptied
      /\ \A k \in Keys : count'[k] \in Nat /\ count[k] <= count'[k]
      /\ \A k \in Keys \ {KeyOf(q)} : count'[k] = count[k]
  BY <1>2, RedisAssumption
  DEF SendIncr, ServerIncr, Unreachable, server, Incremented, TypeInv, TypeOK, RedisType
<1>4. PICK p \in {failed, counted} : Set(r, p)
  BY DEF SendIncr
<1>5. p.stage = "counted" /\ p.kind = q.kind /\ KeyOf(p) = KeyOf(q)
  BY <1>1, <1>4 DEF RequestType, KeyOf
<1>6. CounterInv'
  BY <1>1, <1>2, <1>3, <1>4, <1>5, SetEffect
  DEF WindowInv, CounterInv, TypeInv, TypeOK, RedisType
<1>7. Creates(p) => count[KeyOf(q)] = 0 /\ count'[KeyOf(q)] > 0
  <2> SUFFICES ASSUME Creates(p) PROVE count[KeyOf(q)] = 0 /\ count'[KeyOf(q)] > 0
    OBVIOUS
  <2>1. ~Creates(failed)  BY <1>1 DEF Creates, RequestType
  <2>2. p = counted /\ p # failed  BY <2>1, <1>4
  <2>3. Incremented(KeyOf(q)) = 1  BY <1>1, <2>2 DEF Creates, RequestType
  <2>4. count[KeyOf(q)] = 0
    BY <1>2, <2>3, LimitAssumption, RedisAssumption DEF Incremented, TypeInv, TypeOK, RedisType
  <2>5. SendIncr(r) /\ request'[r] # failed
    BY <1>4, <2>2, SetEffect
  <2>6. ServerIncr(KeyOf(q))
    BY <2>5, SetEffect DEF SendIncr
  <2> QED
    BY <1>2, <2>3, <2>4, <2>6 DEF ServerIncr, TypeInv, TypeOK, RedisType
<1>8. CreatorInv'
  <2> SUFFICES ASSUME ~emptied
               PROVE  /\ \A s \in Requests : Creates(request'[s]) =>
                            left'[KeyOf(request'[s])] = 0 /\ count'[KeyOf(request'[s])] > 0
                      /\ \A s, t \in Requests :
                            (/\ Creates(request'[s]) /\ Creates(request'[t])
                             /\ KeyOf(request'[s]) = KeyOf(request'[t])) => s = t
    BY <1>3 DEF CreatorInv
  <2>1. \A s \in Requests : Creates(request[s]) => KeyOf(request[s]) \in Keys
    BY KeyOfType DEF Creates, TypeInv, Sound
  <2>2. \A s \in Requests \ {r} : Creates(request'[s]) =>
            /\ left'[KeyOf(request'[s])] = 0 /\ count'[KeyOf(request'[s])] > 0
            /\ count[KeyOf(request'[s])] > 0
    BY <1>3, <1>4, <2>1, SetEffect DEF WindowInv, CreatorInv, TypeInv, TypeOK, RedisType
  <2>3. Creates(request'[r]) => /\ left'[KeyOf(request'[r])] = 0
                                /\ count'[KeyOf(request'[r])] > 0
                                /\ count[KeyOf(request'[r])] = 0
    BY <1>2, <1>3, <1>4, <1>5, <1>7, SetEffect DEF WindowInv, CounterInv
  <2>4. ASSUME NEW s \in Requests, NEW t \in Requests,
               Creates(request'[s]), Creates(request'[t]),
               KeyOf(request'[s]) = KeyOf(request'[t])
        PROVE  s = t
    BY <1>4, <2>2, <2>3, <2>4, SetEffect DEF WindowInv, CreatorInv
  <2> QED  BY <2>2, <2>3, <2>4
<1> QED  BY <1>6, <1>8 DEF WindowInv

LEMMA SendExpireWindow ==
    ASSUME TypeInv, WindowInv, NEW r \in Requests, SendExpire(r)
    PROVE  WindowInv'
<1> DEFINE q == request[r]
<1>1. q \in RequestType /\ Routed(q) /\ q.stage = "expire"
      /\ (q.val = 1 \/ q.kind = "autobanTypes")
  BY DEF SendExpire, TypeInv, Sound, WindowInv, CounterInv
<1>2. KeyOf(q) \in Keys /\ KeyOf(q)[1] = q.kind  BY <1>1, KeyOfType
<1>3. PICK ok \in BOOLEAN : Set(r, [q EXCEPT !.stage = "expired", !.ok = ok])
  BY DEF SendExpire
<1>4. /\ count' = count /\ emptied' = emptied
      /\ \A k \in Keys : count[k] = 0 => left'[k] = left[k]
      /\ \A k \in Keys \ {KeyOf(q)} : left'[k] = left[k]
  BY <1>2 DEF SendExpire, ServerExpire, Seconds, Unreachable, server, TypeInv, TypeOK, RedisType
<1>5. /\ request'[r].stage = "expired"
      /\ \A s \in Requests \ {r} : request'[s] = request[s]
  <2> DEFINE p == [q EXCEPT !.stage = "expired", !.ok = ok]
  <2>1. p.stage = "expired"  BY <1>1 DEF RequestType
  <2>2. Set(r, p)  BY <1>3
  <2> HIDE DEF p
  <2> QED  BY <2>1, <2>2, SetEffect
<1>6. CounterInv'
  BY <1>4, <1>5 DEF WindowInv, CounterInv
<1>7. CreatorInv'
  <2> SUFFICES ASSUME ~emptied
               PROVE  /\ \A s \in Requests : Creates(request'[s]) =>
                            left'[KeyOf(request'[s])] = 0 /\ count'[KeyOf(request'[s])] > 0
                      /\ \A s, t \in Requests :
                            (/\ Creates(request'[s]) /\ Creates(request'[t])
                             /\ KeyOf(request'[s]) = KeyOf(request'[t])) => s = t
    BY <1>4 DEF CreatorInv
  <2>1. \A s \in Requests : Creates(request'[s]) => s # r /\ Creates(request[s])
    BY <1>5 DEF Creates
  <2>2. \A s \in Requests : Creates(request[s]) =>
            KeyOf(request[s]) \in Keys /\ KeyOf(request[s])[1] = request[s].kind
    BY KeyOfType DEF Creates, TypeInv, Sound
  <2>3. ASSUME NEW s \in Requests, Creates(request'[s])
        PROVE  left'[KeyOf(request'[s])] = 0 /\ count'[KeyOf(request'[s])] > 0
    <3>1. s # r /\ Creates(request[s]) /\ request'[s] = request[s]
      BY <1>5, <2>1, <2>3
    <3>2. KeyOf(request[s]) # KeyOf(q)
      <4>1. CASE q.val = 1
        BY <1>1, <3>1, <4>1 DEF WindowInv, CreatorInv, Creates
      <4>2. CASE q.kind = "autobanTypes"
        <5>1. count[KeyOf(q)] = 0  BY <1>2, <4>2 DEF WindowInv, CounterInv
        <5>2. count[KeyOf(request[s])] > 0  BY <3>1 DEF WindowInv, CreatorInv
        <5> QED  BY <1>2, <5>1, <5>2 DEF TypeInv, TypeOK, RedisType
      <4> QED  BY <1>1, <4>1, <4>2
    <3> QED  BY <1>4, <2>2, <3>1, <3>2 DEF WindowInv, CreatorInv
  <2>4. \A s, t \in Requests :
            (/\ Creates(request'[s]) /\ Creates(request'[t])
             /\ KeyOf(request'[s]) = KeyOf(request'[t])) => s = t
    BY <1>5, <2>1 DEF WindowInv, CreatorInv
  <2> QED  BY <2>3, <2>4
<1> QED  BY <1>6, <1>7 DEF WindowInv

LEMMA ResumeWindow ==
    ASSUME TypeInv, WindowInv, NEW r \in Requests, ResumeIncr(r) \/ ResumeExpire(r)
    PROVE  WindowInv'
<1> DEFINE q == request[r]
<1>1. Routed(q) /\ q \in RequestType
  BY DEF ResumeIncr, ResumeExpire, TypeInv, Sound
<1>2. UNCHANGED <<count, left, emptied>>
  BY DEF ResumeIncr, ResumeExpire, server
<1>3. CASE Decide(r)
  <2>1. Started(Verdict(q))  BY <1>1, NextStarted
  <2> QED  BY <1>2, <1>3, <2>1, StartWindow DEF Decide
<1>4. CASE /\ q.stage = "counted" /\ q.val = 1
           /\ Set(r, [q EXCEPT !.stage = "expire"])
  <2> DEFINE p == [q EXCEPT !.stage = "expire"]
  <2>1. /\ Creates(p) /\ Creates(q) /\ KeyOf(p) = KeyOf(q)
        /\ p.stage = "expire" /\ p.val = 1
    BY <1>1, <1>4 DEF Creates, KeyOf, RequestType
  <2>2. request'[r] = p /\ \A s \in Requests \ {r} : request'[s] = request[s]
    BY <1>4, SetEffect
  <2> HIDE DEF p
  <2>3. CounterInv'  BY <1>2, <2>1, <2>2 DEF WindowInv, CounterInv
  <2>4. \A s \in Requests : /\ Creates(request'[s]) <=> Creates(request[s])
                            /\ KeyOf(request'[s]) = KeyOf(request[s])
    BY <2>1, <2>2
  <2>5. CreatorInv'  BY <1>2, <2>4 DEF WindowInv, CreatorInv
  <2> QED  BY <2>3, <2>5 DEF WindowInv
<1>5. CASE Set(r, At(q, "expire", "autobanTypes"))
  <2> DEFINE p == At(q, "expire", "autobanTypes")
  <2>1. ~Creates(p) /\ p.stage = "expire" /\ p.kind = "autobanTypes"
    BY DEF Creates, At
  <2>2. request'[r] = p /\ \A s \in Requests \ {r} : request'[s] = request[s]
    BY <1>5, SetEffect
  <2> HIDE DEF p
  <2>3. CounterInv'  BY <1>2, <2>1, <2>2 DEF WindowInv, CounterInv
  <2>4. CreatorInv'  BY <1>2, <2>1, <2>2 DEF WindowInv, CreatorInv
  <2> QED  BY <2>3, <2>4 DEF WindowInv
<1> QED  BY <1>3, <1>4, <1>5 DEF ResumeIncr, ResumeExpire, MustExpire

LEMMA ForgottenWindow ==
    ASSUME TypeInv, WindowInv, NEW gone, Forgotten(gone), Forget(gone),
           left' \in [Keys -> Nat],
           \A k \in gone \cap Keys : left'[k] = 0,
           \A k \in Keys : left[k] = 0 => left'[k] = 0,
           ~emptied' => ~emptied /\ \A k \in gone \cap Keys : left[k] > 0
    PROVE  WindowInv'
<1>1. \A r \in Requests : /\ request'[r].stage = request[r].stage
                          /\ request'[r].val = request[r].val
                          /\ request'[r].kind = request[r].kind
                          /\ KeyOf(request'[r]) = KeyOf(request[r])
  BY DEF Forgotten, TypeInv, Sound, RequestType, KeyOf
<1>2. CounterInv'
  BY <1>1 DEF WindowInv, CounterInv, Forget
<1>3. CreatorInv'
  <2> SUFFICES ASSUME ~emptied'
               PROVE  /\ \A s \in Requests : Creates(request'[s]) =>
                            left'[KeyOf(request'[s])] = 0 /\ count'[KeyOf(request'[s])] > 0
                      /\ \A s, t \in Requests :
                            (/\ Creates(request'[s]) /\ Creates(request'[t])
                             /\ KeyOf(request'[s]) = KeyOf(request'[t])) => s = t
    BY DEF CreatorInv
  <2>1. \A s \in Requests : Creates(request'[s]) <=> Creates(request[s])
    BY <1>1 DEF Creates
  <2>2. \A s \in Requests : Creates(request[s]) => KeyOf(request[s]) \in Keys
    BY KeyOfType DEF Creates, TypeInv, Sound
  <2>3. \A s \in Requests : Creates(request[s]) =>
            /\ left[KeyOf(request[s])] = 0
            /\ count[KeyOf(request[s])] > 0
            /\ KeyOf(request[s]) \notin gone
    BY <2>2 DEF WindowInv, CreatorInv, TypeInv, TypeOK, RedisType
  <2>4. \A s \in Requests : Creates(request'[s]) =>
            left'[KeyOf(request'[s])] = 0 /\ count'[KeyOf(request'[s])] > 0
    BY <1>1, <2>1, <2>2, <2>3 DEF Forget
  <2> QED  BY <1>1, <2>1, <2>4 DEF WindowInv, CreatorInv
<1> QED  BY <1>2, <1>3 DEF WindowInv

LEMMA SameWindow ==
    ASSUME WindowInv, UNCHANGED <<request, count, left, emptied>>
    PROVE  WindowInv'
BY DEF WindowInv, CounterInv, CreatorInv

LEMMA CrashWindow == ASSUME WindowInv, Crash PROVE WindowInv'
<1>1. /\ \A r \in Requests : /\ request'[r].stage = "idle"
                             /\ ~Creates(request'[r])
      /\ UNCHANGED <<count, left, emptied>>
  BY DEF Crash, server, Idle, Creates
<1>2. CounterInv'  BY <1>1 DEF WindowInv, CounterInv
<1>3. CreatorInv'  BY <1>1 DEF CreatorInv
<1> QED  BY <1>2, <1>3 DEF WindowInv

LEMMA InitWindow == Init => WindowInv
<1> SUFFICES ASSUME Init PROVE WindowInv
  OBVIOUS
<1>1. \A r \in Requests : request[r].stage = "idle" /\ ~Creates(request[r])
  BY DEF Init, Idle, Creates
<1>2. \A k \in Keys : count[k] = 0 /\ left[k] = 0
  BY DEF Init, RedisInit
<1> QED  BY <1>1, <1>2 DEF WindowInv, CounterInv, CreatorInv

LEMMA ClockWindow == ASSUME TypeInv, WindowInv, Clock PROVE WindowInv'
<1>1. left' \in [Keys -> Nat]
  BY DEF Clock, Tick, TypeInv, TypeOK, RedisType
<1>2. \A k \in Ending \cap Keys : left[k] > 0 /\ left'[k] = 0
  BY DEF Ending, Clock, Tick
<1>3. \A k \in Keys : left[k] = 0 => left'[k] = 0
  BY DEF Clock, Tick
<1>4. Forgotten(Ending) /\ Forget(Ending) /\ emptied' = emptied
  BY DEF Clock, Tick
<1> QED  BY <1>1, <1>2, <1>3, <1>4, ForgottenWindow

LEMMA RedisFailsWindow == ASSUME TypeInv, WindowInv, RedisFails PROVE WindowInv'
<1> PICK gone \in {{}, Keys} : Outage(gone) /\ Forgotten(gone)
  BY DEF RedisFails
<1>1. left' \in [Keys -> Nat]
  BY DEF Outage, TypeInv, TypeOK, RedisType
<1>2. /\ \A k \in gone \cap Keys : left'[k] = 0
      /\ \A k \in Keys : left[k] = 0 => left'[k] = 0
  BY DEF Outage
<1>3. ~emptied' => ~emptied /\ gone = {}
  BY DEF Outage
<1>4. Forget(gone)  BY DEF Outage
<1>5. ~emptied' => ~emptied /\ \A k \in gone \cap Keys : left[k] > 0
  BY <1>3
<1> QED  BY <1>1, <1>2, <1>4, <1>5, ForgottenWindow

LEMMA NextWindow == TypeInv /\ WindowInv /\ [Next]_vars => WindowInv'
<1> SUFFICES ASSUME TypeInv, WindowInv, [Next]_vars PROVE WindowInv'
  OBVIOUS
<1>1. ASSUME NEW r \in Requests, Arrive(r) \/ Inspect(r) PROVE WindowInv'
  <2>1. PICK q : Set(r, q) /\ Started(q)  BY <1>1, ArriveEffect
  <2>2. UNCHANGED <<count, left, emptied>>
    BY <1>1, ArriveEffect DEF redis, server
  <2> QED  BY <2>1, <2>2, StartWindow
<1>2. CASE RedisReturns \/ SyncLists \/ UNCHANGED vars
  <2>1. UNCHANGED <<request, count, left, emptied>>
    BY <1>2 DEF RedisReturns, Recover, SyncLists, vars, redis, server
  <2> QED  BY <2>1, SameWindow
<1> QED
  BY <1>1, <1>2, SendIncrWindow, SendExpireWindow, ResumeWindow, ClockWindow,
     RedisFailsWindow, CrashWindow
  DEF Next, RequestStep

\* A TTL never goes up while Redis keeps its keys.
LEMMA WindowStep ==
    ASSUME TypeInv, WindowInv, [Next]_vars, ~emptied',
           NEW k \in Keys, left[k] > 0
    PROVE  left'[k] <= left[k]
<1>1. ASSUME NEW r \in Requests, SendExpire(r) PROVE left'[k] <= left[k]
  <2> DEFINE q == request[r]
  <2>1. /\ q \in RequestType /\ Routed(q) /\ q.stage = "expire"
        /\ (q.val = 1 \/ q.kind = "autobanTypes")
    BY <1>1 DEF SendExpire, TypeInv, Sound, WindowInv, CounterInv
  <2>2. KeyOf(q) \in Keys /\ KeyOf(q)[1] = q.kind  BY <2>1, KeyOfType
  <2>3. ~emptied  BY <1>1 DEF SendExpire
  <2>4. KeyOf(q) = k => count[k] = 0
    BY <2>1, <2>2, <2>3 DEF WindowInv, CounterInv, CreatorInv, Creates
  <2>5. left'[k] = left[k]
    BY <1>1, <2>2, <2>4 DEF SendExpire, ServerExpire, Seconds, Unreachable, server, TypeInv, TypeOK, RedisType
  <2> QED  BY <2>5 DEF TypeInv, TypeOK, RedisType
<1>2. CASE Clock \/ RedisFails
  BY <1>2 DEF Clock, Tick, RedisFails, Outage, TypeInv, TypeOK, RedisType
<1>3. CASE left' = left
  BY <1>3 DEF TypeInv, TypeOK, RedisType
<1>4. ASSUME NEW r \in Requests, Arrive(r) \/ SendIncr(r) \/ ResumeIncr(r)
                                   \/ ResumeExpire(r) \/ Inspect(r)
      PROVE  left' = left
  BY <1>4 DEF Arrive, Inspect, SendIncr, ServerIncr, Unreachable, ResumeIncr,
              ResumeExpire, redis, server
<1>5. CASE RedisReturns \/ SyncLists \/ Crash \/ UNCHANGED vars
  BY <1>3, <1>5 DEF RedisReturns, Recover, SyncLists, Crash, vars, redis, server
<1> QED  BY <1>1, <1>2, <1>3, <1>4, <1>5 DEF Next, RequestStep

\* However requests interleave with outages, lost replies and restarts, the
\* TTL of a counter only runs down while Redis keeps its keys: a refused
\* client that goes on sending does not prolong its window.
THEOREM WindowKept == Spec => WindowNotProlonged
<1>1. TypeInv /\ WindowInv /\ [Next]_vars =>
        [~emptied' => \A k \in Keys : left[k] > 0 => left'[k] <= left[k]]_vars
  BY WindowStep
<1> QED
  BY <1>1, InitType, NextType, InitWindow, NextWindow, PTL DEF Spec, WindowNotProlonged

-----------------------------------------------------------------------------
(* The abstraction.  INCR opens a window, EXPIRE starts it, the decision    *)
(* takes a unit, the clock lets windows run down and a loss closes them.   *)

\* The values the abstract variables have.
Taken == [k \in Windows |-> admitted[k]]
Remains == [k \in Windows |->
              IF count[k] > 0 /\ left[k] = 0 THEN Period[k[1]] + 1 ELSE left[k]]

\* A TTL never exceeds the period it was set to.
PeriodInv == \A k \in Keys : left[k] <= Period[k[1]]

LEMMA WindowsType ==
    /\ \A k \in Windows : k \in LimiterKeys /\ k \in Keys /\ k[1] \in Kinds
    /\ \A k \in Windows : Period[k[1]] \in Nat /\ Period[k[1]] >= 1
<1>1. \A k \in Windows : k \in LimiterKeys /\ k \in Keys /\ k[1] \in Kinds
  BY DEF Windows, LimiterKeys, Kinds
<1> QED  BY <1>1, PeriodAssumption, RedisAssumption

LEMMA InitPeriod == Init => PeriodInv
<1> SUFFICES ASSUME Init, NEW k \in Keys PROVE left[k] <= Period[k[1]]
  BY DEF PeriodInv
<1>1. k[1] \in Kinds
  BY KeysAssumption DEF Key
<1>2. Period[k[1]] \in 1 .. MaxTtl
  BY <1>1, PeriodAssumption
<1>3. left[k] = 0
  BY DEF Init, RedisInit
<1> QED  BY <1>2, <1>3, RedisAssumption

LEMMA NextPeriod == TypeInv /\ PeriodInv /\ [Next]_vars => PeriodInv'
<1> SUFFICES ASSUME TypeInv, PeriodInv, [Next]_vars PROVE PeriodInv'
  OBVIOUS
<1>0. \A k \in Keys : k[1] \in Kinds /\ Period[k[1]] \in Nat /\ left[k] \in Nat
  BY KeysAssumption, PeriodAssumption, RedisAssumption DEF Key, TypeInv, TypeOK, RedisType
<1>1. ASSUME NEW r \in Requests, SendExpire(r) PROVE PeriodInv'
  <2> DEFINE q == request[r]
  <2>1. Routed(q)  BY <1>1 DEF SendExpire, TypeInv, Sound
  <2>2. KeyOf(q) \in Keys /\ KeyOf(q)[1] = q.kind  BY <2>1, KeyOfType
  <2>3. \/ left' = left
        \/ left' = [left EXCEPT ![KeyOf(q)] = Period[q.kind]]
    BY <1>1 DEF SendExpire, ServerExpire, Seconds, Unreachable, server
  <2> QED  BY <1>0, <2>2, <2>3 DEF PeriodInv, TypeInv, TypeOK, RedisType
<1>2. CASE Clock \/ RedisFails
  BY <1>0, <1>2 DEF Clock, Tick, RedisFails, Outage, PeriodInv
<1>3. CASE left' = left
  BY <1>3 DEF PeriodInv
<1>4. ASSUME NEW r \in Requests, Arrive(r) \/ SendIncr(r) \/ ResumeIncr(r)
                                   \/ ResumeExpire(r) \/ Inspect(r)
      PROVE  left' = left
  BY <1>4 DEF Arrive, Inspect, SendIncr, ServerIncr, Unreachable, ResumeIncr,
              ResumeExpire, redis, server
<1>5. CASE RedisReturns \/ SyncLists \/ Crash \/ UNCHANGED vars
  BY <1>3, <1>5 DEF RedisReturns, Recover, SyncLists, Crash, vars, redis, server
<1> QED  BY <1>1, <1>2, <1>3, <1>4, <1>5 DEF Next, RequestStep

LEMMA InitMaps == Init => Limiter!Init
BY WindowsType DEF Init, RedisInit, Limiter!Init

\* Steps the abstraction does not see.
LEMMA Unseen ==
    ASSUME UNCHANGED <<admitted, count, left, emptied>>
    PROVE  UNCHANGED <<Taken, Remains, emptied>>
BY DEF Taken, Remains

LEMMA DecideTakes ==
    ASSUME TypeInv, BudgetInv, NEW r \in Requests, Decide(r), Routed(request[r]),
           request[r].stage \in {"counted", "expired"},
           UNCHANGED <<count, left, emptied>>
    PROVE  \/ \E k \in Windows : Limiter!Take(k)
           \/ UNCHANGED <<Taken, Remains, emptied>>
<1> DEFINE q == request[r]
           k == KeyOf(q)
<1>1. k \in Keys /\ k[1] = q.kind  BY KeyOfType
<1>2. Remains' = Remains  BY DEF Remains
<1>3. CASE ~(q.kind \in Limiters /\ q.fresh /\ Allowed(q))
  BY <1>3, Unseen DEF Decide
<1>4. CASE /\ q.kind \in Limiters /\ q.fresh /\ Allowed(q)
           /\ k \notin Windows
  <2>1. admitted' = [admitted EXCEPT ![k] = @ + 1]
    BY <1>4 DEF Decide
  <2>2. \A j \in Windows : admitted'[j] = admitted[j]
    BY <1>4, <2>1, WindowsType DEF TypeInv, TypeOK
  <2> QED  BY <1>2, <2>2 DEF Taken
<1>5. CASE /\ q.kind \in Limiters /\ q.fresh /\ Allowed(q)
           /\ k \in Windows
  <2>1. k \in LimiterKeys  BY <1>5, WindowsType
  <2>2. r \in Pending(k)  BY <1>1, <1>5 DEF Pending, Allowed
  <2>3. Cardinality(Pending(k)) >= 1
    <3>1. Cardinality(Pending(k) \ {r}) \in Nat
      BY PendingLeaves
    <3>2. Cardinality(Pending(k) \ {r}) = Cardinality(Pending(k)) - 1
      BY <2>2, PendingLeaves
    <3> QED  BY <3>1, <3>2, PendingFinite
  <2>4. admitted[k] < Limit[k[1]]
    BY <2>1, <2>3, PendingFinite, LimiterKeysType DEF BudgetInv, TypeInv, TypeOK
  <2>5. admitted' = [admitted EXCEPT ![k] = @ + 1]
    BY <1>5 DEF Decide
  <2>6. Taken' = [Taken EXCEPT ![k] = Taken'[k]] /\ Taken'[k] = Taken[k] + 1
    BY <1>1, <1>5, <2>5, WindowsType DEF Taken, TypeInv, TypeOK
  <2>7. Remains' = [Remains EXCEPT ![k] = Remains'[k]] /\ Remains'[k] = Remains[k]
    BY <1>2 DEF Remains
  <2>8. Taken[k] < [j \in Windows |-> Limit[j[1]]][k]
    BY <1>5, <2>4 DEF Taken
  <2>9. \E j \in Windows : Limiter!Take(j)
    <3> HIDE DEF k
    <3> QED  BY <1>5, <2>6, <2>7, <2>8 DEF Limiter!Take, Limiter!Only, Taken, Remains
  <2> QED  BY <2>9
<1> QED  BY <1>3, <1>4, <1>5

LEMMA IncrOpens ==
    ASSUME TypeInv, CounterInv, NEW r \in Requests, SendIncr(r)
    PROVE  \/ \E k \in Windows : Limiter!Open(k)
           \/ UNCHANGED <<Taken, Remains, emptied>>
<1> DEFINE q == request[r]
           k == KeyOf(q)
<1>1. Routed(q)  BY DEF SendIncr, TypeInv, Sound
<1>2. k \in Keys /\ k[1] = q.kind  BY <1>1, KeyOfType
<1>3. UNCHANGED <<admitted, left, emptied>>
  BY DEF SendIncr, ServerIncr, Unreachable, server
<1>4. \/ count' = count
      \/ count' = [count EXCEPT ![k] = Incremented(k)]
  BY DEF SendIncr, ServerIncr, Unreachable, server
<1>5. CASE count' = count
  BY <1>3, <1>5, Unseen
<1>6. CASE count' = [count EXCEPT ![k] = Incremented(k)]
  <2>1. count'[k] > 0 /\ \A j \in Keys \ {k} : count'[j] = count[j]
    BY <1>2, <1>6, RedisAssumption DEF Incremented, TypeInv, TypeOK, RedisType
  <2>2. Taken' = Taken  BY <1>3 DEF Taken
  <2>3. CASE k \notin Windows \/ count[k] > 0
    <3>1. \A j \in Windows : count'[j] > 0 <=> count[j] > 0
      BY <2>1, <2>3, WindowsType
    <3> QED  BY <1>3, <2>2, <3>1 DEF Remains
  <2>4. CASE k \in Windows /\ ~(count[k] > 0)
    <3>1. count[k] = 0 /\ left[k] = 0
      BY <1>2, <2>4 DEF CounterInv, TypeInv, TypeOK, RedisType
    <3>2. Remains[k] = 0 /\ Remains'[k] = Period[k[1]] + 1
      BY <1>3, <2>1, <2>4, <3>1 DEF Remains
    <3>3. \A j \in Windows \ {k} : Remains'[j] = Remains[j]
      BY <1>3, <2>1, WindowsType DEF Remains
    <3>4. Remains' = [Remains EXCEPT ![k] = Remains'[k]]
      BY <2>4, <3>3 DEF Remains
    <3>5. Taken' = [Taken EXCEPT ![k] = Taken'[k]]
      BY <2>2 DEF Taken
    <3>6. Limiter!Waiting(k) = Period[k[1]] + 1
      BY <2>4 DEF Limiter!Waiting
    <3> HIDE DEF k
    <3>7. \E j \in Windows : Limiter!Open(j)
      BY <1>3, <2>4, <2>2, <3>2, <3>4, <3>5, <3>6 DEF Limiter!Open, Limiter!Only, Taken, Remains
    <3> QED  BY <3>7
  <2> QED  BY <2>3, <2>4
<1> QED  BY <1>4, <1>5, <1>6

LEMMA ExpireStarts ==
    ASSUME TypeInv, WindowInv, NEW r \in Requests, SendExpire(r)
    PROVE  \/ \E k \in Windows : Limiter!Start(k)
           \/ UNCHANGED <<Taken, Remains, emptied>>
<1> DEFINE q == request[r]
           k == KeyOf(q)
<1>1. /\ Routed(q) /\ q.stage = "expire"
      /\ (q.val = 1 \/ q.kind = "autobanTypes")
  BY DEF SendExpire, TypeInv, Sound, WindowInv, CounterInv
<1>2. k \in Keys /\ k[1] = q.kind  BY <1>1, KeyOfType
<1>3. UNCHANGED <<admitted, count, emptied>>
  BY DEF SendExpire, ServerExpire, Unreachable, server
<1>4. \/ left' = left
      \/ count[k] # 0 /\ left' = [left EXCEPT ![k] = Period[q.kind]]
  BY DEF SendExpire, ServerExpire, Seconds, Unreachable, server
<1>5. Taken' = Taken  BY <1>3 DEF Taken
<1>6. CASE left' = left
  BY <1>3, <1>6, Unseen
<1>7. CASE count[k] # 0 /\ left' = [left EXCEPT ![k] = Period[q.kind]]
  <2>1. /\ left'[k] = Period[k[1]]
        /\ \A j \in Keys \ {k} : left'[j] = left[j]
        /\ count[k] > 0
    BY <1>2, <1>7 DEF TypeInv, TypeOK, RedisType
  <2>2. CASE k \notin Windows
    <3>1. \A j \in Windows : left'[j] = left[j]
      BY <2>1, <2>2, WindowsType
    <3> QED  BY <1>3, <1>5, <3>1 DEF Remains
  <2>3. CASE k \in Windows
    <3>1. Remains'[k] = Period[k[1]]
      BY <2>1, <2>3, WindowsType DEF Remains
    <3>2. Remains[k] = Period[k[1]] + 1 \/ (emptied /\ Remains[k] > 0)
      <4>1. q.kind # "autobanTypes"
        BY <1>2, <2>3 DEF Windows, LimiterKeys, Limiters
      <4>2. CASE ~emptied
        <5>1. left[k] = 0
          BY <1>1, <4>1, <4>2 DEF WindowInv, CreatorInv, Creates
        <5> QED  BY <2>1, <2>3, <5>1 DEF Remains
      <4>3. CASE emptied
        BY <1>2, <2>1, <2>3, <4>3, WindowsType DEF Remains, TypeInv, TypeOK, RedisType
      <4> QED  BY <4>2, <4>3
    <3>3. \A j \in Windows \ {k} : Remains'[j] = Remains[j]
      BY <1>3, <2>1, WindowsType DEF Remains
    <3>4. Remains' = [Remains EXCEPT ![k] = Remains'[k]]
      BY <2>3, <3>3 DEF Remains
    <3>5. Taken' = [Taken EXCEPT ![k] = Taken'[k]]
      BY <1>5 DEF Taken
    <3>6. Limiter!Waiting(k) = Period[k[1]] + 1 /\ [j \in Windows |-> Period[j[1]]][k] = Period[k[1]]
      BY <2>3 DEF Limiter!Waiting
    <3> HIDE DEF k
    <3>7. \E j \in Windows : Limiter!Start(j)
      BY <1>3, <2>3, <1>5, <3>1, <3>2, <3>4, <3>5, <3>6
      DEF Limiter!Start, Limiter!Only, Taken, Remains
    <3> QED  BY <3>7
  <2> QED  BY <2>2, <2>3
<1> QED  BY <1>4, <1>6, <1>7

\* What the abstraction sees of keys that cease to exist.
LEMMA ForgottenRenews ==
    ASSUME TypeInv, BudgetInv, NEW gone, Forgotten(gone), Forget(gone),
           \A k \in Windows : Remains'[k] = 0 <=> count'[k] = 0
    PROVE  Limiter!Renewed
<1>1. \A k \in Windows : count[k] = 0 => admitted[k] = 0
  <2> TAKE k \in Windows
  <2>1. k \in LimiterKeys  BY WindowsType
  <2>2. Cardinality(Pending(k)) \in Nat  BY PendingFinite
  <2> QED  BY <2>1, <2>2, WindowsType DEF BudgetInv, TypeInv, TypeOK
<1>2. \A k \in Windows : Taken'[k] = IF Remains'[k] = 0 THEN 0 ELSE Taken[k]
  <2> TAKE k \in Windows
  <2>1. k \in Keys  BY WindowsType
  <2>2. CASE k \in gone
    BY <2>1, <2>2 DEF Forgotten, Forget, Taken
  <2>3. CASE k \notin gone
    BY <1>1, <2>1, <2>3 DEF Forgotten, Forget, Taken
  <2> QED  BY <2>2, <2>3
<1>3. Taken' = [k \in Windows |-> IF Remains'[k] = 0 THEN 0 ELSE Taken[k]]
  BY <1>2 DEF Taken
<1> QED  BY <1>3 DEF Limiter!Renewed, Taken, Remains

LEMMA ClockPasses ==
    ASSUME TypeInv, BudgetInv, CounterInv, PeriodInv, Clock
    PROVE  Limiter!Pass
<1>1. /\ Forgotten(Ending) /\ Forget(Ending) /\ emptied' = emptied
      /\ \A k \in Windows : left'[k] = IF left[k] = 0 THEN 0 ELSE left[k] - 1
  BY WindowsType DEF Clock, Tick
<1>2. \A k \in Windows :
        /\ left[k] \in Nat /\ count[k] \in Nat
        /\ count'[k] = IF left[k] = 1 THEN 0 ELSE count[k]
        /\ count[k] = 0 => left[k] = 0
        /\ left[k] <= Period[k[1]]
  BY <1>1, WindowsType DEF Forget, Ending, CounterInv, PeriodInv, TypeInv, TypeOK, RedisType
<1>3. \A k \in Windows :
        /\ Remains'[k] = IF Remains[k] \in 1 .. Period[k[1]] THEN Remains[k] - 1 ELSE Remains[k]
        /\ Remains'[k] = 0 <=> count'[k] = 0
  <2> TAKE k \in Windows
  <2>1. Remains[k] = IF count[k] > 0 /\ left[k] = 0 THEN Period[k[1]] + 1 ELSE left[k]
    BY DEF Remains
  <2>2. Remains'[k] = IF count'[k] > 0 /\ left'[k] = 0 THEN Period[k[1]] + 1 ELSE left'[k]
    BY DEF Remains
  <2> QED  BY <1>1, <1>2, <2>1, <2>2, WindowsType
<1>4. Remains' = [k \in Windows |-> IF Remains[k] \in 1 .. [j \in Windows |-> Period[j[1]]][k]
                                    THEN Remains[k] - 1 ELSE Remains[k]]
  BY <1>3 DEF Remains
<1>5. Limiter!Renewed  BY <1>1, <1>3, ForgottenRenews
<1> QED  BY <1>1, <1>4, <1>5 DEF Limiter!Pass, Remains

LEMMA LossLoses ==
    ASSUME TypeInv, BudgetInv, RedisFails
    PROVE  Limiter!Lose \/ UNCHANGED <<Taken, Remains, emptied>>
<1> PICK gone \in {{}, Keys} : Outage(gone) /\ Forgotten(gone)
  BY DEF RedisFails
<1>1. CASE \A k \in Keys : k \notin gone
  <2>1. /\ \A k \in Windows : /\ count'[k] = count[k]
                              /\ left'[k] = left[k]
                              /\ admitted'[k] = admitted[k]
    BY <1>1, WindowsType DEF Outage, Forget, Forgotten
  <2>2. UNCHANGED <<Taken, Remains>>  BY <2>1 DEF Taken, Remains
  <2>3. emptied' = emptied
    <3>1. CASE gone = {}
      BY <3>1 DEF Outage, TypeInv, TypeOK, RedisType
    <3>2. CASE gone = Keys
      <4>1. gone = {}  BY <1>1, <3>2
      <4> QED  BY <3>1, <4>1
    <3> QED  BY <3>1, <3>2
  <2> QED  BY <2>2, <2>3
<1>2. CASE gone = Keys /\ gone # {}
  <2>1. \A k \in Windows : count'[k] = 0 /\ left'[k] = 0
    BY <1>2, WindowsType DEF Outage, Forget
  <2>2. Remains' = [k \in Windows |-> 0] /\ \A k \in Windows : Remains'[k] = 0
    BY <2>1 DEF Remains
  <2>3. Limiter!Renewed  BY <2>1, <2>2, ForgottenRenews DEF Outage
  <2>4. emptied' = TRUE  BY <1>2 DEF Outage
  <2> QED  BY <2>2, <2>3, <2>4 DEF Limiter!Lose, Remains
<1> QED  BY <1>1, <1>2

MapInv == TypeInv /\ BudgetInv /\ WindowInv /\ PeriodInv

LEMMA NextMaps ==
    MapInv /\ [Next]_vars => [Limiter!Next]_<<Taken, Remains, emptied>>
<1> SUFFICES ASSUME MapInv, [Next]_vars
             PROVE  Limiter!Next \/ UNCHANGED <<Taken, Remains, emptied>>
  OBVIOUS
<1> USE DEF MapInv
<1>1. ASSUME NEW r \in Requests, Arrive(r) \/ RequestStep(r)
      PROVE  Limiter!Next \/ UNCHANGED <<Taken, Remains, emptied>>
  <2>1. CASE Arrive(r) \/ Inspect(r)
    BY <2>1, Unseen DEF Arrive, Inspect, redis, server
  <2>2. CASE ResumeIncr(r) \/ ResumeExpire(r)
    <3>1. Routed(request[r]) /\ request[r].stage \in {"counted", "expired"}
      BY <2>2 DEF ResumeIncr, ResumeExpire, TypeInv, Sound
    <3>2. UNCHANGED <<count, left, emptied>>
      BY <2>2 DEF ResumeIncr, ResumeExpire, server
    <3>3. Decide(r) \/ UNCHANGED admitted
      BY <2>2 DEF ResumeIncr, ResumeExpire
    <3> QED  BY <3>1, <3>2, <3>3, DecideTakes, Unseen DEF Limiter!Next
  <2>3. CASE SendIncr(r)
    BY <2>3, IncrOpens DEF Limiter!Next, WindowInv
  <2>4. CASE SendExpire(r)
    BY <2>4, ExpireStarts DEF Limiter!Next
  <2> QED  BY <1>1, <2>1, <2>2, <2>3, <2>4 DEF RequestStep
<1>2. CASE Clock
  BY <1>2, ClockPasses DEF Limiter!Next, WindowInv
<1>3. CASE RedisFails
  BY <1>3, LossLoses DEF Limiter!Next
<1>4. CASE RedisReturns \/ SyncLists \/ Crash \/ UNCHANGED vars
  BY <1>4, Unseen DEF RedisReturns, Recover, SyncLists, Crash, vars, redis, server
<1> QED  BY <1>1, <1>2, <1>3, <1>4 DEF Next

\* The four limits, whatever their values and periods, implement one budget
\* per key whose units come back all at once: when the window has run down
\* the whole period from its one EXPIRE, or when Redis lost its keys.
THEOREM Implements == Spec => ImplementsLimiter
<1>1. Limiter!Next \/ UNCHANGED <<Taken, Remains, emptied>>
        <=> Limiter!Next \/ UNCHANGED Limiter!vars
  BY DEF Limiter!vars, Taken, Remains
<1>2. MapInv /\ [Next]_vars => [Limiter!Next]_(Limiter!vars)
  BY NextMaps, <1>1
<1>3. Init => MapInv
  BY InitType, InitBudget, InitWindow, InitPeriod DEF MapInv
<1>4. MapInv /\ [Next]_vars => MapInv'
  BY NextType, NextBudget, NextWindow, NextPeriod DEF MapInv
<1> QED
  BY InitMaps, <1>2, <1>3, <1>4, PTL DEF Spec, ImplementsLimiter, Limiter!Spec

-----------------------------------------------------------------------------
(* While Redis answers and the process lives, no unit of a budget is lost  *)
(* and every counter without a TTL has one request that owes it.           *)

\* An outage and the loss of the keys cost a fault.
CalmInv == faults = 0 => up /\ ~emptied

LEMMA InitCalm == Init => CalmInv
BY DEF Init, RedisInit, CalmInv

LEMMA NextCalm == TypeInv /\ CalmInv /\ [Next]_vars => CalmInv'
<1> SUFFICES ASSUME TypeInv, CalmInv, [Next]_vars, faults' = 0
             PROVE  up' /\ ~emptied'
  BY DEF CalmInv
<1>0. faults \in Nat  BY RedisAssumption DEF TypeInv, TypeOK, RedisType
<1>1. ASSUME NEW r \in Requests, Arrive(r) \/ RequestStep(r) PROVE up' /\ ~emptied'
  <2>1. up' = up /\ emptied' = emptied
    BY <1>1 DEF Arrive, RequestStep, Inspect, SendIncr, SendExpire, ResumeIncr,
                ResumeExpire, ServerIncr, ServerExpire, Unreachable, redis, server
  <2>2. faults' = faults \/ faults' = faults + 1
    BY <1>1 DEF Arrive, RequestStep, Inspect, SendIncr, SendExpire, ResumeIncr,
                ResumeExpire, ReplyLost, redis
  <2> QED  BY <1>0, <2>1, <2>2 DEF CalmInv
<1>2. CASE Clock  BY <1>2 DEF Clock, Tick, CalmInv
<1>3. CASE RedisFails  BY <1>0, <1>3 DEF RedisFails, Outage
<1>4. CASE RedisReturns  BY <1>4 DEF RedisReturns, Recover, CalmInv
<1>5. CASE SyncLists \/ Crash \/ UNCHANGED vars
  BY <1>5 DEF SyncLists, Crash, vars, redis, server, CalmInv
<1> QED  BY <1>1, <1>2, <1>3, <1>4, <1>5 DEF Next

\* A request that INCR answered.
CountedNow(q) == [q EXCEPT !.stage = "counted", !.val = Incremented(KeyOf(q)),
                           !.ok = TRUE, !.fresh = TRUE]

\* What can happen without a fault and without a restart.
LEMMA CalmSteps ==
    ASSUME TypeInv, CalmInv, [Next]_vars, Undisturbed'
    PROVE  /\ Undisturbed
           /\ \/ \E r \in Requests : Arrive(r) \/ Inspect(r)
              \/ \E r \in Requests : /\ SendIncr(r) /\ ServerIncr(KeyOf(request[r]))
                                     /\ Set(r, CountedNow(request[r]))
              \/ \E r \in Requests :
                    /\ SendExpire(r)
                    /\ ServerExpire(KeyOf(request[r]), Period[request[r].kind])
              \/ \E r \in Requests : ResumeIncr(r) \/ ResumeExpire(r)
              \/ Clock
              \/ UNCHANGED <<request, count, left, admitted>>
<1>0. faults \in Nat /\ crashes \in Nat
  BY RedisAssumption, ListedAssumption DEF TypeInv, TypeOK, RedisType
<1>1. faults' = 0 /\ crashes' = 0  BY DEF Undisturbed
<1>2. faults = 0
  <2>1. faults' = faults \/ faults' = faults + 1
    BY DEF Next, Arrive, RequestStep, Inspect, SendIncr, SendExpire, ResumeIncr,
           ResumeExpire, ReplyLost, Clock, Tick, RedisFails, Outage, RedisReturns,
           Recover, SyncLists, Crash, vars, redis
  <2> QED  BY <1>0, <1>1, <2>1
<1>3. crashes = 0
  <2>1. crashes' = crashes \/ crashes' = crashes + 1
    BY DEF Next, Arrive, RequestStep, Inspect, SendIncr, SendExpire, ResumeIncr,
           ResumeExpire, Clock, RedisFails, RedisReturns, SyncLists, Crash, vars
  <2> QED  BY <1>0, <1>1, <2>1
<1>4. up  BY <1>2 DEF CalmInv
<1>5. ~ReplyLost  BY <1>1, <1>2 DEF ReplyLost
<1>6. ~RedisFails /\ ~Crash /\ ~RedisReturns
  BY <1>1, <1>2, <1>3, <1>4 DEF RedisFails, Outage, Crash, RedisReturns, Recover
<1>7. ASSUME NEW r \in Requests, SendIncr(r)
      PROVE  ServerIncr(KeyOf(request[r])) /\ Set(r, CountedNow(request[r]))
  BY <1>4, <1>5, <1>7 DEF SendIncr, Unreachable, CountedNow
<1>8. ASSUME NEW r \in Requests, SendExpire(r)
      PROVE  ServerExpire(KeyOf(request[r]), Period[request[r].kind])
  BY <1>4, <1>5, <1>8 DEF SendExpire, Seconds, Unreachable
<1>9. CASE SyncLists \/ UNCHANGED vars
  BY <1>2, <1>3, <1>9 DEF SyncLists, vars, redis, server, Undisturbed
<1> QED
  BY <1>2, <1>3, <1>6, <1>7, <1>8, <1>9 DEF Next, RequestStep, Undisturbed

\* One key: the budget is used up to the count, and never beyond the limit.
Used(k) == admitted[k] + Cardinality(Pending(k)) = Lesser(count[k], Limit[k[1]])

LEMMA UsedSame ==
    ASSUME NEW k, Used(k), Pending(k)' = Pending(k), admitted'[k] = admitted[k],
           count'[k] = count[k]
    PROVE  Used(k)'
BY DEF Used

\* A request that is told what it knows keeps what its counter has spent.
LEMMA DecideUsed ==
    ASSUME TypeInv, NEW r \in Requests, Decide(r), Routed(request[r]),
           request[r].stage \in {"counted", "expired"}, UNCHANGED count,
           NEW k \in LimiterKeys, Used(k)
    PROVE  Used(k)'
<1> DEFINE q == request[r]
<1>1. KeyOf(q) \in Keys /\ KeyOf(q)[1] = q.kind  BY KeyOfType
<1>2. Pending(k)' = Pending(k) \ {r}
  <2>1. Started(Verdict(q))  BY NextStarted
  <2> QED  BY <2>1, PendingSet, StartedHoldsNothing DEF Decide
<1>3. r \in Pending(k) <=> Holds(q, k)  BY DEF Pending, Holds
<1>4. Holds(q, k) <=> (q.kind \in Limiters /\ q.fresh /\ Allowed(q) /\ KeyOf(q) = k)
  BY <1>1, LimiterKeysType DEF Holds, Allowed
<1>5. admitted'[k] = IF Holds(q, k) THEN admitted[k] + 1 ELSE admitted[k]
  BY <1>1, <1>4, LimiterKeysType DEF Decide, TypeInv, TypeOK
<1>6. admitted[k] \in Nat /\ Cardinality(Pending(k)) \in Nat
  BY PendingFinite, LimiterKeysType DEF TypeInv, TypeOK
<1>7. CASE Holds(q, k)
  <2>1. Cardinality(Pending(k)') = Cardinality(Pending(k)) - 1
    BY <1>2, <1>3, <1>7, PendingLeaves
  <2>2. admitted'[k] + Cardinality(Pending(k)') = admitted[k] + Cardinality(Pending(k))
    BY <1>5, <1>6, <1>7, <2>1
  <2> QED  BY <2>2 DEF Used
<1>8. CASE ~Holds(q, k)
  <2>1. Pending(k)' = Pending(k)  BY <1>2, <1>3, <1>8, PendingLeaves
  <2> QED  BY <1>5, <1>8, <2>1, UsedSame
<1> QED  BY <1>7, <1>8

\* INCR takes a unit exactly when the count was below the limit.
LEMMA IncrUsed ==
    ASSUME TypeInv, NEW r \in Requests, SendIncr(r), ServerIncr(KeyOf(request[r])),
           Set(r, CountedNow(request[r])), NEW k \in LimiterKeys, Used(k)
    PROVE  Used(k)'
<1> DEFINE q == request[r]
           p == CountedNow(q)
<1>1. q \in RequestType /\ Routed(q)  BY DEF SendIncr, TypeInv, Sound
<1>2. k \in Keys /\ KeyOf(q) \in Keys  BY <1>1, KeyOfType, LimiterKeysType
<1>3. r \notin Pending(k)  BY PendingNot DEF SendIncr, Holds
<1>4. /\ p.stage = "counted" /\ p.fresh = TRUE /\ KeyOf(p) = KeyOf(q)
      /\ p.val = Incremented(KeyOf(q))
  BY <1>1 DEF CountedNow, RequestType, KeyOf
<1> HIDE DEF p
<1>5. admitted' = admitted  BY DEF SendIncr
<1>6. /\ count[k] \in 0 .. MaxCount /\ MaxCount \in Nat
      /\ Limit[k[1]] \in Nat /\ Limit[k[1]] < MaxCount
      /\ admitted[k] \in Nat /\ Cardinality(Pending(k)) \in Nat
  BY <1>2, RedisAssumption, LimiterKeysType, PendingFinite DEF TypeInv, TypeOK, RedisType
<1>7. CASE k # KeyOf(q)
  <2>1. ~Holds(p, k)  BY <1>4, <1>7 DEF Holds
  <2>2. Pending(k)' = Pending(k)  BY <1>3, <2>1, PendingSet, PendingLeaves DEF p
  <2>3. count'[k] = count[k]
    BY <1>2, <1>7 DEF ServerIncr, TypeInv, TypeOK, RedisType
  <2> QED  BY <1>5, <2>2, <2>3, UsedSame
<1>8. CASE k = KeyOf(q) /\ count[k] < Limit[k[1]]
  <2>1. count'[k] = count[k] + 1 /\ p.val = count[k] + 1
    BY <1>2, <1>4, <1>6, <1>8 DEF ServerIncr, Incremented, TypeInv, TypeOK, RedisType
  <2>2. Holds(p, k)  BY <1>4, <1>6, <1>8, <2>1 DEF Holds
  <2>3. Pending(k)' = Pending(k) \cup {r}  BY <2>2, PendingSet DEF p
  <2>4. Cardinality(Pending(k)') = Cardinality(Pending(k)) + 1
    BY <1>3, <2>3, PendingJoins
  <2>5. admitted[k] + Cardinality(Pending(k)) = count[k]
    BY <1>6, <1>8 DEF Used, Lesser
  <2>6. Lesser(count[k] + 1, Limit[k[1]]) = count[k] + 1
    BY <1>6, <1>8 DEF Lesser
  <2> QED  BY <1>5, <1>6, <2>1, <2>4, <2>5, <2>6 DEF Used
<1>9. CASE k = KeyOf(q) /\ ~(count[k] < Limit[k[1]])
  <2>1. /\ count'[k] = Incremented(k) /\ p.val = Incremented(k)
        /\ Incremented(k) > Limit[k[1]] /\ Incremented(k) \in Nat
    BY <1>2, <1>4, <1>6, <1>9 DEF ServerIncr, Incremented, TypeInv, TypeOK, RedisType
  <2>2. ~Holds(p, k)  BY <1>6, <2>1 DEF Holds
  <2>3. Pending(k)' = Pending(k)  BY <1>3, <2>2, PendingSet, PendingLeaves DEF p
  <2>4. Lesser(count[k], Limit[k[1]]) = Limit[k[1]]  BY <1>9 DEF Lesser
  <2>5. Lesser(count'[k], Limit[k[1]]) = Limit[k[1]]  BY <1>6, <2>1 DEF Lesser
  <2> QED  BY <1>5, <2>3, <2>4, <2>5 DEF Used
<1> QED  BY <1>7, <1>8, <1>9

\* The counter ends, and with it all that it admitted.
LEMMA ClockUsed ==
    ASSUME TypeInv, Clock, NEW k \in LimiterKeys, Used(k)
    PROVE  Used(k)'
<1>1. k \in Keys /\ Limit[k[1]] \in Nat  BY LimiterKeysType
<1>2. Forgotten(Ending) /\ Forget(Ending)  BY DEF Clock, Tick
<1>3. \A r \in Requests : /\ request'[r].stage = request[r].stage
                          /\ request'[r].val = request[r].val
                          /\ KeyOf(request'[r]) = KeyOf(request[r])
                          /\ request'[r].fresh <=>
                               (request[r].fresh /\ KeyOf(request[r]) \notin Ending)
  BY <1>2 DEF Forgotten, TypeInv, Sound, RequestType, KeyOf
<1>4. CASE k \in Ending
  <2>1. Pending(k)' = {}  BY <1>3, <1>4 DEF Pending
  <2>2. admitted'[k] = 0 /\ count'[k] = 0  BY <1>1, <1>2, <1>4 DEF Forgotten, Forget
  <2>3. Cardinality(Pending(k)') = 0  BY <2>1, FS_EmptySet
  <2>4. Lesser(0, Limit[k[1]]) = 0  BY <1>1 DEF Lesser
  <2> QED  BY <2>2, <2>3, <2>4 DEF Used
<1>5. CASE k \notin Ending
  <2>1. Pending(k)' = Pending(k)  BY <1>3, <1>5 DEF Pending
  <2>2. admitted'[k] = admitted[k] /\ count'[k] = count[k]
    BY <1>1, <1>2, <1>5 DEF Forgotten, Forget
  <2> QED  BY <2>1, <2>2, UsedSame
<1> QED  BY <1>4, <1>5

LEMMA SameHolding ==
    ASSUME TypeInv, NEW r \in Requests, NEW q, Set(r, q), NEW k,
           Holds(q, k) <=> Holds(request[r], k)
    PROVE  Pending(k)' = Pending(k)
BY PendingSet DEF Pending, Holds

LEMMA NextUsed ==
    TypeInv /\ CalmInv /\ NoUnitLost /\ [Next]_vars => NoUnitLost'
<1> SUFFICES ASSUME TypeInv, CalmInv, NoUnitLost, [Next]_vars, Undisturbed',
                    NEW k \in LimiterKeys
             PROVE  Used(k)'
  BY DEF NoUnitLost, Used
<1>1. Used(k)  BY CalmSteps DEF NoUnitLost, Used
<1>2. k \in Keys  BY LimiterKeysType
<1>3. ASSUME NEW r \in Requests, Arrive(r) \/ Inspect(r) PROVE Used(k)'
  <2>1. PICK q : Set(r, q) /\ Started(q)  BY <1>3, ArriveEffect
  <2>2. r \notin Pending(k)  BY <1>3, ArriveEffect, PendingNot DEF Holds
  <2>3. Pending(k)' = Pending(k)
    BY <2>1, <2>2, PendingSet, StartedHoldsNothing, PendingLeaves
  <2> QED  BY <1>1, <1>3, <2>3, UsedSame, ArriveEffect DEF redis, server
<1>4. ASSUME NEW r \in Requests, SendExpire(r) PROVE Used(k)'
  <2> DEFINE q == request[r]
  <2>1. q \in RequestType /\ q.stage = "expire"
    BY <1>4 DEF SendExpire, TypeInv, Sound
  <2>2. PICK ok \in BOOLEAN : Set(r, [q EXCEPT !.stage = "expired", !.ok = ok])
    BY <1>4 DEF SendExpire
  <2>3. Holds([q EXCEPT !.stage = "expired", !.ok = ok], k) <=> Holds(q, k)
    BY <2>1 DEF Holds, KeyOf, RequestType
  <2>4. Pending(k)' = Pending(k)  BY <2>2, <2>3, SameHolding
  <2> QED
    BY <1>1, <1>4, <2>4, UsedSame DEF SendExpire, ServerExpire, Seconds, Unreachable, server
<1>5. ASSUME NEW r \in Requests, ResumeIncr(r) \/ ResumeExpire(r) PROVE Used(k)'
  <2> DEFINE q == request[r]
  <2>1. Routed(q) /\ q \in RequestType
    BY <1>5 DEF ResumeIncr, ResumeExpire, TypeInv, Sound
  <2>2. UNCHANGED count /\ q.stage \in {"counted", "expired"}
    BY <1>5 DEF ResumeIncr, ResumeExpire, server
  <2>3. CASE Decide(r)  BY <1>1, <2>1, <2>2, <2>3, DecideUsed
  <2>4. CASE q.stage = "counted" /\ Set(r, [q EXCEPT !.stage = "expire"]) /\ UNCHANGED admitted
    <3>1. Holds([q EXCEPT !.stage = "expire"], k) <=> Holds(q, k)
      BY <2>1, <2>4 DEF Holds, KeyOf, RequestType
    <3>2. Pending(k)' = Pending(k)  BY <2>4, <3>1, SameHolding
    <3> QED  BY <1>1, <2>2, <2>4, <3>2, UsedSame
  <2>5. CASE /\ q.stage = "expired" /\ q.kind = "autoban"
             /\ Set(r, At(q, "expire", "autobanTypes")) /\ UNCHANGED admitted
    <3>1. r \notin Pending(k)
      BY <2>1, <2>5, KeyOfType, LimiterKeysType DEF Pending, Limiters
    <3>2. ~Holds(At(q, "expire", "autobanTypes"), k)  BY DEF Holds, At
    <3>3. Pending(k)' = Pending(k)  BY <2>5, <3>1, <3>2, PendingSet, PendingLeaves
    <3> QED  BY <1>1, <2>2, <2>5, <3>3, UsedSame
  <2> QED  BY <1>5, <2>3, <2>4, <2>5 DEF ResumeIncr, ResumeExpire
<1>6. CASE UNCHANGED <<request, count, left, admitted>>
  <2>1. Pending(k)' = Pending(k)  BY <1>6 DEF Pending
  <2> QED  BY <1>1, <1>6, <2>1, UsedSame
<1> QED  BY <1>1, <1>3, <1>4, <1>5, <1>6, CalmSteps, IncrUsed, ClockUsed

LEMMA InitUsed == Init => NoUnitLost
<1> SUFFICES ASSUME Init, NEW k \in LimiterKeys
             PROVE  admitted[k] + Cardinality(Pending(k)) = Lesser(count[k], Limit[k[1]])
  BY DEF NoUnitLost
<1>1. Pending(k) = {}  BY DEF Init, Pending, Idle
<1>2. admitted[k] = 0 /\ count[k] = 0  BY LimiterKeysType DEF Init, RedisInit
<1>3. Lesser(0, Limit[k[1]]) = 0  BY LimiterKeysType DEF Lesser
<1> QED  BY <1>1, <1>2, <1>3, FS_EmptySet

\* While Redis answers, a counter at its limit has admitted, or is about to
\* admit, exactly as many requests as the limit, for any number of requests.
THEOREM NoneLost == Spec => []NoUnitLost
<1> QED
  BY InitType, NextType, InitCalm, NextCalm, InitUsed, NextUsed, PTL DEF Spec

-----------------------------------------------------------------------------
(* Who owes a TTL.  CreatorInv says that a request which created a counter *)
(* and has not set its TTL is alone; OwedInv adds that there is one.       *)

OwedInv ==
    Undisturbed =>
        /\ \A r \in Requests : Creates(request[r]) => request[r].fresh
        /\ \A k \in Keys : count[k] > 0 /\ left[k] = 0 =>
              \E r \in Requests : Creates(request[r]) /\ KeyOf(request[r]) = k

LEMMA InitOwed == Init => OwedInv
BY DEF Init, RedisInit, OwedInv, Creates, Idle

\* Steps that neither make nor end a creator.
LEMMA SameOwed ==
    ASSUME OwedInv, Undisturbed, UNCHANGED <<count, left>>,
           \A r \in Requests : /\ Creates(request'[r]) <=> Creates(request[r])
                               /\ Creates(request[r]) =>
                                    /\ KeyOf(request'[r]) = KeyOf(request[r])
                                    /\ request'[r].fresh = request[r].fresh
    PROVE  OwedInv'
BY DEF OwedInv

LEMMA IncrOwed ==
    ASSUME TypeInv, OwedInv, Undisturbed, NEW r \in Requests,
           SendIncr(r), ServerIncr(KeyOf(request[r])), Set(r, CountedNow(request[r]))
    PROVE  OwedInv'
<1> DEFINE q == request[r]
           p == CountedNow(q)
<1>1. q \in RequestType /\ Routed(q) /\ ~Creates(q)
  BY DEF SendIncr, TypeInv, Sound, Creates
<1>2. KeyOf(q) \in Keys  BY <1>1, KeyOfType
<1>3. /\ p.stage = "counted" /\ p.fresh = TRUE /\ KeyOf(p) = KeyOf(q)
      /\ p.val = Incremented(KeyOf(q))
  BY <1>1 DEF CountedNow, RequestType, KeyOf
<1> HIDE DEF p
<1>4. request'[r] = p /\ \A s \in Requests \ {r} : request'[s] = request[s]
  BY SetEffect DEF p
<1>5. /\ left' = left
      /\ count'[KeyOf(q)] = Incremented(KeyOf(q))
      /\ \A k \in Keys \ {KeyOf(q)} : count'[k] = count[k]
  BY <1>2 DEF ServerIncr, TypeInv, TypeOK, RedisType
<1>6. \A s \in Requests : Creates(request'[s]) => request'[s].fresh
  BY <1>3, <1>4 DEF OwedInv
<1>7. ASSUME NEW k \in Keys, count'[k] > 0, left'[k] = 0
      PROVE  \E s \in Requests : Creates(request'[s]) /\ KeyOf(request'[s]) = k
  <2>1. CASE k = KeyOf(q) /\ count[k] = 0
    <3>1. p.val = 1  BY <1>3, <2>1, RedisAssumption DEF Incremented
    <3>2. Creates(p) /\ KeyOf(p) = k  BY <1>3, <2>1, <3>1 DEF Creates
    <3> QED  BY <1>4, <3>2
  <2>2. CASE ~(k = KeyOf(q) /\ count[k] = 0)
    <3>1. count[k] > 0 /\ left[k] = 0
      <4>1. count[k] \in Nat  BY DEF TypeInv, TypeOK, RedisType
      <4> QED  BY <1>5, <1>7, <2>2, <4>1
    <3>2. PICK s \in Requests : Creates(request[s]) /\ KeyOf(request[s]) = k
      BY <3>1 DEF OwedInv
    <3>3. s # r  BY <1>1, <3>2
    <3> QED  BY <1>4, <3>2, <3>3
  <2> QED  BY <2>1, <2>2
<1> QED  BY <1>6, <1>7 DEF OwedInv

LEMMA ExpireOwed ==
    ASSUME TypeInv, WindowInv, OwedInv, Undisturbed, NEW r \in Requests,
           SendExpire(r), ServerExpire(KeyOf(request[r]), Period[request[r].kind])
    PROVE  OwedInv'
<1> DEFINE q == request[r]
<1>1. /\ q \in RequestType /\ Routed(q) /\ q.stage = "expire"
      /\ (q.val = 1 \/ q.kind = "autobanTypes")
  BY DEF SendExpire, TypeInv, Sound, WindowInv, CounterInv
<1>2. KeyOf(q) \in Keys /\ KeyOf(q)[1] = q.kind  BY <1>1, KeyOfType
<1>3. Period[q.kind] \in Nat /\ Period[q.kind] > 0
  BY <1>1, PeriodAssumption, RedisAssumption DEF RequestType
<1>4. PICK ok \in BOOLEAN : Set(r, [q EXCEPT !.stage = "expired", !.ok = ok])
  BY DEF SendExpire
<1>5. /\ request'[r].stage = "expired"
      /\ \A s \in Requests \ {r} : request'[s] = request[s]
  <2> DEFINE p == [q EXCEPT !.stage = "expired", !.ok = ok]
  <2>1. p.stage = "expired"  BY <1>1 DEF RequestType
  <2>2. Set(r, p)  BY <1>4
  <2> HIDE DEF p
  <2> QED  BY <2>1, <2>2, SetEffect
<1>6. /\ count' = count
      /\ \A k \in Keys \ {KeyOf(q)} : left'[k] = left[k]
      /\ count[KeyOf(q)] > 0 => left'[KeyOf(q)] = Period[q.kind]
  BY <1>2 DEF ServerExpire, Seconds, TypeInv, TypeOK, RedisType
<1>7. \A s \in Requests : Creates(request'[s]) => request'[s].fresh
  BY <1>5 DEF OwedInv, Creates
<1>8. ASSUME NEW k \in Keys, count'[k] > 0, left'[k] = 0
      PROVE  \E s \in Requests : Creates(request'[s]) /\ KeyOf(request'[s]) = k
  <2>1. k # KeyOf(q)  BY <1>3, <1>6, <1>8
  <2>2. PICK s \in Requests : Creates(request[s]) /\ KeyOf(request[s]) = k
    BY <1>6, <1>8, <2>1 DEF OwedInv
  <2>3. s # r  BY <2>1, <2>2
  <2> QED  BY <1>5, <2>2, <2>3
<1> QED  BY <1>7, <1>8 DEF OwedInv

LEMMA ClockOwed ==
    ASSUME TypeInv, WindowInv, OwedInv, Undisturbed, ~emptied, Clock
    PROVE  OwedInv'
<1>1. Forgotten(Ending) /\ Forget(Ending)  BY DEF Clock, Tick
<1>2. \A r \in Requests : /\ request'[r].stage = request[r].stage
                          /\ request'[r].val = request[r].val
                          /\ KeyOf(request'[r]) = KeyOf(request[r])
                          /\ request'[r].fresh <=>
                               (request[r].fresh /\ KeyOf(request[r]) \notin Ending)
  BY <1>1 DEF Forgotten, TypeInv, Sound, RequestType, KeyOf
<1>3. \A r \in Requests : Creates(request[r]) => KeyOf(request[r]) \notin Ending
  BY DEF WindowInv, CreatorInv, Ending
<1>4. \A r \in Requests : /\ Creates(request'[r]) <=> Creates(request[r])
                          /\ Creates(request'[r]) => request'[r].fresh
  BY <1>2, <1>3 DEF Creates, OwedInv
<1>5. ASSUME NEW k \in Keys, count'[k] > 0, left'[k] = 0
      PROVE  count[k] > 0 /\ left[k] = 0
  <2>1. left[k] \in Nat /\ left'[k] = IF left[k] = 0 THEN 0 ELSE left[k] - 1
    BY DEF Clock, Tick, TypeInv, TypeOK, RedisType
  <2>2. count'[k] = IF k \in Ending THEN 0 ELSE count[k]
    BY <1>1 DEF Forget
  <2>3. left[k] # 1  BY <1>5, <2>2 DEF Ending
  <2> QED  BY <1>5, <2>1, <2>2, <2>3
<1> QED  BY <1>2, <1>4, <1>5 DEF OwedInv

LEMMA NextOwed ==
    TypeInv /\ WindowInv /\ CalmInv /\ OwedInv /\ [Next]_vars => OwedInv'
<1> SUFFICES ASSUME TypeInv, WindowInv, CalmInv, OwedInv, [Next]_vars, Undisturbed'
             PROVE  OwedInv'
  BY DEF OwedInv
<1>1. Undisturbed /\ ~emptied  BY CalmSteps DEF CalmInv, Undisturbed
<1>2. ASSUME NEW r \in Requests, Arrive(r) \/ Inspect(r) PROVE OwedInv'
  <2>1. PICK q : Set(r, q) /\ Started(q)  BY <1>2, ArriveEffect
  <2>2. request'[r] = q /\ \A s \in Requests \ {r} : request'[s] = request[s]
    BY <2>1, SetEffect
  <2>3. ~Creates(q) /\ ~Creates(request[r])
    BY <1>2, <2>1, ArriveEffect, StartedCreatesNothing DEF Creates
  <2>4. UNCHANGED <<count, left>>  BY <1>2, ArriveEffect DEF redis, server
  <2> QED  BY <1>1, <2>2, <2>3, <2>4, SameOwed
<1>3. ASSUME NEW r \in Requests, ResumeIncr(r) \/ ResumeExpire(r) PROVE OwedInv'
  <2> DEFINE q == request[r]
  <2>1. Routed(q) /\ q \in RequestType
    BY <1>3 DEF ResumeIncr, ResumeExpire, TypeInv, Sound
  <2>2. UNCHANGED <<count, left>>  BY <1>3 DEF ResumeIncr, ResumeExpire, server
  <2>3. CASE q.stage = "counted" /\ q.val = 1 /\ Set(r, [q EXCEPT !.stage = "expire"])
    <3> DEFINE p == [q EXCEPT !.stage = "expire"]
    <3>1. /\ Creates(p) /\ Creates(q) /\ KeyOf(p) = KeyOf(q) /\ p.fresh = q.fresh
      BY <2>1, <2>3 DEF Creates, KeyOf, RequestType
    <3>2. request'[r] = p /\ \A s \in Requests \ {r} : request'[s] = request[s]
      BY <2>3, SetEffect
    <3> HIDE DEF p
    <3> QED  BY <1>1, <2>2, <3>1, <3>2, SameOwed
  <2>4. CASE (q.stage # "counted" \/ q.val # 1) /\ q.stage # "expire"
             /\ (Decide(r) \/ Set(r, At(q, "expire", "autobanTypes")))
    <3>1. PICK p : Set(r, p) /\ ~Creates(p)
      <4>1. ~Creates(Verdict(q))  BY <2>1, NextStarted, StartedCreatesNothing
      <4>2. ~Creates(At(q, "expire", "autobanTypes"))  BY DEF Creates, At
      <4> QED  BY <2>4, <4>1, <4>2 DEF Decide
    <3>2. request'[r] = p /\ \A s \in Requests \ {r} : request'[s] = request[s]
      BY <3>1, SetEffect
    <3>3. ~Creates(q)  BY <2>4 DEF Creates
    <3> QED  BY <1>1, <2>2, <3>1, <3>2, <3>3, SameOwed
  <2> QED  BY <1>3, <2>3, <2>4 DEF ResumeIncr, ResumeExpire, MustExpire
<1>4. CASE UNCHANGED <<request, count, left, admitted>>
  BY <1>1, <1>4, SameOwed
<1> QED  BY <1>1, <1>2, <1>3, <1>4, CalmSteps, IncrOwed, ExpireOwed, ClockOwed

\* INCR and EXPIRE are two calls: while Redis answers, a counter without a TTL
\* has exactly one request left that sets it, and one with a TTL none.
THEOREM OwedOnce == Spec => []OneOwesTtl
<1>1. TypeInv /\ WindowInv /\ CalmInv /\ OwedInv => OneOwesTtl
  <2> SUFFICES ASSUME TypeInv, WindowInv, CalmInv, OwedInv, Undisturbed, NEW k \in Keys
               PROVE  Cardinality(Creators(k))
                        = IF count[k] > 0 /\ left[k] = 0 THEN 1 ELSE 0
    BY DEF OneOwesTtl
  <2>1. ~emptied  BY DEF CalmInv, Undisturbed
  <2>2. \A r \in Requests :
          r \in Creators(k) <=> (Creates(request[r]) /\ KeyOf(request[r]) = k)
    BY DEF Creators, Creates, OwedInv
  <2>3. Creators(k) \subseteq Requests  BY DEF Creators
  <2>4. CASE count[k] > 0 /\ left[k] = 0
    <3>1. PICK r \in Requests : Creates(request[r]) /\ KeyOf(request[r]) = k
      BY <2>4 DEF OwedInv
    <3>2. Creators(k) = {r}
      BY <2>1, <2>2, <2>3, <3>1 DEF WindowInv, CreatorInv
    <3> QED  BY <2>4, <3>2, FS_Singleton
  <2>5. CASE ~(count[k] > 0 /\ left[k] = 0)
    <3>1. Creators(k) = {}
      BY <2>1, <2>2, <2>3, <2>5 DEF WindowInv, CreatorInv
    <3> QED  BY <2>5, <3>1, FS_EmptySet
  <2> QED  BY <2>4, <2>5
<1> QED
  BY <1>1, InitType, NextType, InitWindow, NextWindow, InitCalm, NextCalm,
     InitOwed, NextOwed, PTL DEF Spec
=============================================================================
