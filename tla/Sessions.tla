------------------------------ MODULE Sessions ------------------------------
(***************************************************************************)
(* Login, refresh, logout, and get_current_user, the check that guards the *)
(* other HTTP endpoints (the WebSocket decodes its token and never asks    *)
(* whether it is revoked; it is left out).  A token is a signed text, not  *)
(* a row: it is its user, its kind and the second it was issued in, so two *)
(* tokens of one user, one kind and one second are the same token.  The    *)
(* server remembers what it revoked, under token_blacklist: keys of Redis. *)
(***************************************************************************)
EXTENDS SafeRedis, FiniteSets

CONSTANTS
    Users, NoUser,
    Requests,      \* requests in flight together; an identity is used again
    AccessLife, RefreshLife,            \* in seconds
    RevokedLife,   \* TTL of a token_blacklist: key
    MaxTime,       \* bounds of the model: seconds, and
    LastIssue      \* the last of them whose tokens are followed

Times == 0 .. MaxTime
Sessions == [user : Users, iat : 0 .. LastIssue]   \* an access and a refresh token
NoSession == [user |-> NoUser, iat |-> 0]          \* a request without cookies

\* logout takes "" for a cookie that was not sent.
Token(kind, s) == <<IF s = NoSession THEN "" ELSE kind, s.user, s.iat>>
Life == [access |-> AccessLife, refresh |-> RefreshLife]

ASSUME NamesAssumption == NoUser \notin Users
ASSUME RequestsAssumption == IsFiniteSet(Requests)
ASSUME TimeAssumption == MaxTime \in Nat /\ LastIssue \in Times
ASSUME KeysAssumption ==
    Keys = {Token(kind, s) : kind \in {"access", "refresh"}, s \in Sessions \cup {NoSession}}
ASSUME LivesAssumption ==
    AccessLife \in Nat /\ RefreshLife \in Nat /\ RevokedLife \in 1 .. MaxTtl

VARIABLES
    now,         \* seconds
    issued,      \* sessions that were answered to somebody
    request,     \* where each request is and its local variables
    \* History variables, for the properties only:
    ended,       \* until when the logout of each session has to be remembered
    rotations    \* exchanges of each refresh token in its first RevokedLife

vars == <<redis, now, issued, request, ended, rotations>>
history == <<ended, rotations>>

-----------------------------------------------------------------------------
(* Requests.                                                               *)

\* guarded: an endpoint behind get_current_user; of those, logout goes on.
Ops == {"guarded", "refresh", "login"}
Stages == {"idle", "get", "got", "set", "stored", "issue"}

\* session: of the token that admits the request; cookies: of those it carries.
\* hit, ok: what the call to Redis answers, and whether it does; lost: some
\* call did not, or Redis lost its keys meanwhile; since: second of admission;
\* until: ended of its session when the request began.
Idle == [stage |-> "idle", op |-> "guarded", session |-> NoSession,
         cookies |-> NoSession, kind |-> "access",
         hit |-> FALSE, ok |-> FALSE, lost |-> FALSE, since |-> 0, until |-> 0]
RequestType == [stage : Stages, op : Ops, session : Sessions \cup {NoSession},
                cookies : Sessions \cup {NoSession}, kind : {"access", "refresh"},
                hit : BOOLEAN, ok : BOOLEAN, lost : BOOLEAN,
                since : Times, until : 0 .. MaxTime + RevokedLife]

\* The token that is looked up, and the one that is revoked.
KeyOf(q) == Token(q.kind, IF q.stage = "get" THEN q.session ELSE q.cookies)

\* decode_token: not past its last second.
Unexpired(kind, s) == now <= s.iat + Life[kind]

Set(r, q) == request' = [request EXCEPT ![r] = q]
Unanswered(r, stage) == Set(r, [request[r] EXCEPT !.stage = stage, !.lost = TRUE])

\* A request arrives with a token that somebody was given and that decode_token
\* accepts, or with a password (and a code, where 2FA is on) that is right.
\* refresh reads the cookies only; get_current_user prefers a token in the
\* Authorization header, whatever the cookies are.
Begin(r) ==
    /\ request[r].stage = "idle"
    /\ \/ \E s \in issued :
            /\ Unexpired("refresh", s)
            /\ Set(r, [Idle EXCEPT !.stage = "get", !.op = "refresh", !.kind = "refresh",
                                   !.session = s, !.cookies = s, !.until = ended[s]])
       \/ \E s \in issued, cookies \in issued \cup {NoSession} :
            /\ Unexpired("access", s)
            /\ Set(r, [Idle EXCEPT !.stage = "get", !.session = s, !.cookies = cookies,
                                   !.until = ended[s]])
       \/ \E u \in Users :
            Set(r, [Idle EXCEPT !.stage = "issue", !.op = "login", !.session.user = u])
    /\ UNCHANGED <<redis, now, issued, history>>

\* GET token_blacklist:token; without a reply the token passes.
SendGet(r) ==
    LET q == request[r] IN
    /\ q.stage = "get"
    /\ \/ /\ up
          /\ Set(r, [q EXCEPT !.stage = "got", !.ok = TRUE, !.hit = Exists(KeyOf(q))])
          /\ UNCHANGED faults
       \/ /\ up /\ ReplyLost
          /\ Unanswered(r, "got")
       \/ /\ ~up
          /\ Unanswered(r, "got")
          /\ UNCHANGED faults
    /\ UNCHANGED <<server, client, emptied, now, issued, history>>

\* A refresh first revokes its token, a logout both tokens of the cookies.
AdmittedAsIs(q) == [q EXCEPT !.stage = IF q.op = "refresh" THEN "issue" ELSE "set"]
Admitted(q) == [q EXCEPT !.stage = "set"]

\* Then the row of the user is read.  A user who is not active, which an admin
\* may change at any time, is refused; an endpoint other than logout answers.
ResumeGet(r) ==
    LET q == [request[r] EXCEPT !.ok = FALSE, !.hit = FALSE, !.since = now] IN
    /\ request[r].stage = "got"
    /\ Report(request[r].ok)
    /\ \/ Set(r, Idle)
       \/ ~request[r].hit /\ Set(r, Admitted(q))
    /\ UNCHANGED <<server, faults, emptied, now, issued, history>>

\* SETEX token_blacklist:token.
SendSet(r) ==
    LET q == request[r]  k == KeyOf(request[r]) IN
    /\ q.stage = "set"
    /\ \/ /\ ServerSetex(k, RevokedLife)
          /\ Set(r, [q EXCEPT !.stage = "stored", !.ok = TRUE])
          /\ UNCHANGED faults
       \/ /\ ServerSetex(k, RevokedLife) /\ ReplyLost
          /\ Unanswered(r, "stored")
       \/ /\ Unreachable
          /\ Unanswered(r, "stored")
          /\ UNCHANGED faults
    /\ UNCHANGED <<client, emptied, now, issued, history>>

\* logout goes on whatever the first call answered.
RevokedOne(q) == IF q.op = "refresh" THEN [q EXCEPT !.stage = "issue"] ELSE Idle
Revoked(q) ==
    IF q.op = "guarded" /\ q.kind = "access"
    THEN [q EXCEPT !.stage = "set", !.kind = "refresh"]
    ELSE RevokedOne(q)

Later(m, n) == IF m < n THEN n ELSE m

ResumeSet(r) ==
    LET q == [request[r] EXCEPT !.ok = FALSE] IN
    /\ q.stage = "stored"
    /\ Report(request[r].ok)
    /\ Set(r, Revoked(q))
    /\ ended' = IF Revoked(q) = Idle /\ ~q.lost /\ q.cookies # NoSession
                THEN [ended EXCEPT ![q.cookies] = Later(@, q.since + RevokedLife)]
                ELSE ended
    /\ UNCHANGED <<server, faults, emptied, now, issued, rotations>>

\* One more, up to the bound of the model.
OneMore(n) == IF n <= Cardinality(Requests) THEN n + 1 ELSE n

\* An access and a refresh token of the current second.
Issue(r) ==
    LET q == request[r]  s == [user |-> request[r].session.user, iat |-> now] IN
    /\ q.stage = "issue"
    /\ Set(r, Idle)
    /\ issued' = IF now <= LastIssue THEN issued \cup {s} ELSE issued
    /\ rotations' = IF q.op = "refresh" /\ ~q.lost /\ now < q.session.iat + RevokedLife
                    THEN [rotations EXCEPT ![q.session] = OneMore(@)]
                    ELSE rotations
    /\ UNCHANGED <<redis, now, ended>>

-----------------------------------------------------------------------------
(* The environment.                                                        *)

Clock ==
    /\ now < MaxTime
    /\ now' = now + 1
    /\ Tick
    /\ UNCHANGED <<issued, request, history>>

\* Redis goes and keeps its keys, or loses them and what was revoked with them.
RedisFails ==
    /\ \/ Outage({}) /\ UNCHANGED <<request, history>>
       \/ /\ Outage(Keys)
          /\ request' = [r \in Requests |->
               [request[r] EXCEPT !.lost = request[r].stage # "idle"]]
          /\ ended' = [s \in Sessions |-> 0]
          /\ rotations' = [s \in Sessions |-> 0]
    /\ UNCHANGED <<now, issued>>

RedisReturns ==
    /\ Recover
    /\ UNCHANGED <<now, issued, request, history>>

\* The process restarts: requests end wherever they are.
Crash ==
    /\ faults < MaxFaults
    /\ faults' = faults + 1
    /\ request' = [r \in Requests |-> Idle]
    /\ reportedDown' = FALSE
    /\ UNCHANGED <<server, alerts, emptied, now, issued, history>>

Init ==
    /\ RedisInit
    /\ now = 0
    /\ issued = {}
    /\ request = [r \in Requests |-> Idle]
    /\ ended = [s \in Sessions |-> 0]
    /\ rotations = [s \in Sessions |-> 0]

Next ==
    \/ \E r \in Requests :
         \/ Begin(r) \/ SendGet(r) \/ ResumeGet(r)
         \/ SendSet(r) \/ ResumeSet(r) \/ Issue(r)
    \/ Clock \/ RedisFails \/ RedisReturns \/ Crash

Spec == Init /\ [][Next]_vars

-----------------------------------------------------------------------------
(* Properties.                                                             *)

\* Every variable has its type.
TypeOK ==
    /\ RedisType
    /\ now \in Times
    /\ issued \subseteq Sessions
    /\ request \in [Requests -> RequestType]
    /\ ended \in [Sessions -> 0 .. MaxTime + RevokedLife]
    /\ rotations \in [Sessions -> 0 .. Cardinality(Requests) + 1]

\* Past the check of token_blacklist, which Redis answered.
Passed(q) == ~q.lost /\ (q.stage \notin {"get", "got"} \/ (q.stage = "got" /\ ~q.hit))

\* Once a logout was answered, a request that begins with a token of the
\* session in the cookies of that logout is refused for RevokedLife from the
\* admission of the logout on (with REFRESH_TOKEN_EXPIRE_DAYS = 7, to the end
\* of the token's life), whichever of the two tokens it carries, in a header
\* or a cookie, and whatever was in flight at the logout: only a Redis that
\* does not answer the check, or lost its keys, lets it pass (logout, and the
\* checks of token_blacklist in get_current_user and refresh).  The token in
\* the header of a logout is not revoked, and nothing is said of it.
LoggedOutRefused ==
    \A r \in Requests : Passed(request[r]) => now >= request[r].until

\* In the first RevokedLife of its life (7 days, the default of the whole) a
\* refresh token is exchanged at most once by each of the requests that were
\* in flight together, never again by a later one, as long as Redis answers
\* them: refresh reads token_blacklist and writes it in two steps
\* (AuthService.refresh).
RotationsBounded ==
    \A s \in Sessions : rotations[s] <= Cardinality(Requests)

=============================================================================
