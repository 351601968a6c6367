--------------------------- MODULE SessionsProofs ---------------------------
(***************************************************************************)
(* Proofs about Sessions, for any users, any number of requests, any lives *)
(* of tokens and of their revocation, and any number of outages, lost      *)
(* replies and restarts.                                                   *)
(***************************************************************************)
EXTENDS Sessions, FiniteSetTheorems, TLAPS

TokenKinds == {"access", "refresh"}

-----------------------------------------------------------------------------
(* The inductive invariant.  Values of variables are passed as arguments:  *)
(* c is count, l is left, n is now.                                        *)

\* The key exists, and goes on to until second t; or that second is over.
Dead(c, l, n, k, t) == n >= t \/ (c[k] > 0 /\ n + l[k] >= t)

\* A request on its way carries tokens of the past.
Sound(n, q) ==
    /\ q \in RequestType
    /\ q.session.iat <= n /\ q.cookies.iat <= n /\ q.since <= n
    /\ q.until <= n + RevokedLife
    /\ IF q.stage = "idle" THEN q.until = 0 ELSE q.session \in Sessions
    /\ q.op = "refresh" => q.kind = "refresh" /\ q.cookies = q.session
    /\ q.op = "guarded" /\ q.stage \in {"get", "got"} => q.kind = "access"
    /\ q.op = "login" => q.stage = "issue" /\ q.until = 0
    /\ q.op = "refresh" /\ q.stage \in {"set", "stored", "issue"} => q.session.iat <= q.since

TypeInv ==
    /\ TypeOK
    /\ \A s \in issued : s.iat <= now
    /\ \A s \in Sessions : ended[s] <= now + RevokedLife
    /\ \A r \in Requests : Sound(now, request[r])

\* What a request that Redis answered so far knows of the tokens it has
\* looked up and revoked.
Known(c, l, n, q) ==
    /\ q.stage = "get" => Dead(c, l, n, Token(q.kind, q.session), q.until)
    /\ q.stage = "got" /\ q.hit = FALSE => n >= q.until
    /\ q.stage \in {"set", "stored", "issue"} => n >= q.until
    /\ q.stage = "stored" => Dead(c, l, n, Token(q.kind, q.cookies), q.since + RevokedLife)
    /\ q.stage = "issue" /\ q.op = "refresh"
         => Dead(c, l, n, Token("refresh", q.cookies), q.since + RevokedLife)
    /\ q.stage \in {"set", "stored"} /\ q.op = "guarded" /\ q.kind = "refresh"
         => Dead(c, l, n, Token("access", q.cookies), q.since + RevokedLife)
Kept(c, l, n, q) == q.stage # "idle" /\ q.lost = FALSE => Known(c, l, n, q)

RevokedInv ==
    /\ \A s \in Sessions, kind \in TokenKinds :
         Dead(count, left, now, Token(kind, s), ended[s])
    /\ \A r \in Requests : Kept(count, left, now, request[r])

\* Requests that found the refresh token of s alive and may still exchange it.
Holds(q, s) ==
    /\ q.op = "refresh" /\ q.session = s /\ q.lost = FALSE
    /\ (q.stage = "got" /\ q.hit = FALSE) \/ q.stage \in {"set", "stored", "issue"}
Holders(req, s) == {r \in Requests : Holds(req[r], s)}

ExchangeInv(c, l, n, req, rot, s) ==
    /\ rot[s] <= Cardinality(Requests)
    /\ rot[s] > 0 =>
         s.iat <= n /\ Dead(c, l, n, Token("refresh", s), s.iat + RevokedLife)
    /\ n < s.iat + RevokedLife =>
         rot[s] + Cardinality(Holders(req, s)) <= Cardinality(Requests)

RotationInv ==
    \A s \in Sessions : ExchangeInv(count, left, now, request, rotations, s)

IInv == TypeInv /\ RevokedInv /\ RotationInv

-----------------------------------------------------------------------------
(* Types.                                                                  *)

LEMMA Numbers ==
    /\ RevokedLife \in Nat /\ RefreshLife \in Nat /\ AccessLife \in Nat
    /\ RevokedLife > 0 /\ RevokedLife \in 0 .. MaxTtl
    /\ MaxTtl \in Nat /\ MaxTime \in Nat /\ LastIssue \in Nat /\ LastIssue <= MaxTime
    /\ Cardinality(Requests) \in Nat
<1>1. MaxTtl \in Nat  BY RedisAssumption
<1>2. MaxTime \in Nat /\ LastIssue \in Nat /\ LastIssue <= MaxTime
  BY TimeAssumption DEF Times
<1>3. Cardinality(Requests) \in Nat  BY RequestsAssumption, FS_CardinalityType
<1> QED  BY <1>1, <1>2, <1>3, LivesAssumption

LEMMA TokenType ==
    ASSUME NEW kind \in TokenKinds, NEW s \in Sessions \cup {NoSession}
    PROVE  Token(kind, s) \in Keys
BY KeysAssumption DEF TokenKinds

LEMMA SessionType ==
    ASSUME NEW s \in Sessions \cup {NoSession}
    PROVE  s.iat \in Nat
BY Numbers DEF Sessions, NoSession

LEMMA NowType ==
    ASSUME TypeInv
    PROVE  now \in Nat /\ \A s \in Sessions : ended[s] \in Nat /\ ended[s] <= now + RevokedLife
BY Numbers DEF TypeInv, TypeOK, Times

\* The numbers of a sound request and the keys of its tokens.
LEMMA RequestNumbers ==
    ASSUME NEW n \in Nat, NEW q, Sound(n, q)
    PROVE  /\ q.since \in Nat /\ q.until \in Nat
           /\ q.session \in Sessions \cup {NoSession} /\ q.session.iat \in Nat
           /\ q.cookies \in Sessions \cup {NoSession} /\ q.cookies.iat \in Nat
           /\ q.kind \in TokenKinds
           /\ \A kind \in TokenKinds : /\ Token(kind, q.session) \in Keys
                                       /\ Token(kind, q.cookies) \in Keys
           /\ KeyOf(q) \in Keys
           /\ q.hit \in BOOLEAN /\ q.ok \in BOOLEAN /\ q.lost \in BOOLEAN
           /\ q.stage \in Stages /\ q.op \in Ops
<1>1. /\ q.since \in Times /\ q.until \in 0 .. MaxTime + RevokedLife
      /\ q.session \in Sessions \cup {NoSession}
      /\ q.cookies \in Sessions \cup {NoSession}
      /\ q.kind \in TokenKinds
      /\ q.hit \in BOOLEAN /\ q.ok \in BOOLEAN /\ q.lost \in BOOLEAN
      /\ q.stage \in Stages /\ q.op \in Ops
  BY DEF Sound, RequestType, TokenKinds
<1>2. q.since \in Nat /\ q.until \in Nat  BY <1>1, Numbers DEF Times
<1>3. \A kind \in TokenKinds : /\ Token(kind, q.session) \in Keys
                               /\ Token(kind, q.cookies) \in Keys
  BY <1>1, TokenType
<1>4. KeyOf(q) = Token(q.kind, q.session) \/ KeyOf(q) = Token(q.kind, q.cookies)
  BY DEF KeyOf
<1> QED  BY <1>1, <1>2, <1>3, <1>4, SessionType

LEMMA IdleFields ==
    /\ Idle.stage = "idle" /\ Idle.op = "guarded" /\ Idle.kind = "access"
    /\ Idle.session = NoSession /\ Idle.cookies = NoSession
    /\ Idle.hit = FALSE /\ Idle.ok = FALSE /\ Idle.lost = FALSE
    /\ Idle.since = 0 /\ Idle.until = 0
BY DEF Idle

LEMMA IdleType == Idle \in RequestType
<1>1. 0 \in Times /\ 0 \in 0 .. MaxTime + RevokedLife  BY Numbers DEF Times
<1> QED  BY <1>1 DEF Idle, RequestType, Stages, Ops

LEMMA IdleSound == \A n \in Nat : Sound(n, Idle)
<1> TAKE n \in Nat
<1>1. NoSession.iat = 0  BY DEF NoSession
<1> QED  BY <1>1, IdleType, IdleFields, Numbers DEF Sound

LEMMA SetEffect ==
    ASSUME TypeInv, NEW r \in Requests, NEW q, Set(r, q)
    PROVE  /\ request' = [request EXCEPT ![r] = q]
           /\ request'[r] = q
           /\ \A x \in Requests \ {r} : request'[x] = request[x]
BY DEF Set, TypeInv, TypeOK

LEMMA SetType ==
    ASSUME TypeInv, NEW r \in Requests, NEW q, Set(r, q), Sound(now, q)
    PROVE  /\ request' \in [Requests -> RequestType]
           /\ \A x \in Requests : Sound(now, request'[x])
BY SetEffect DEF Set, Sound, TypeInv, TypeOK

LEMMA ReportType ==
    ASSUME TypeInv, NEW ok \in BOOLEAN, Report(ok)
    PROVE  reportedDown' \in BOOLEAN /\ alerts' \subseteq {"critical", "info"}
BY DEF Report, Ok, Degraded, CreateAlert, TypeInv, TypeOK, RedisType

-----------------------------------------------------------------------------
(* What each step of a request makes of it.                                *)

\* q is p one step on.
Same(q, p) ==
    /\ q.op = p.op /\ q.session = p.session /\ q.cookies = p.cookies
    /\ q.until = p.until

LEMMA BeginEffect ==
    ASSUME TypeInv, NEW r \in Requests, Begin(r)
    PROVE  \E q :
             /\ Set(r, q) /\ Sound(now, q)
             /\ \/ q.stage = "get" /\ q.session \in Sessions /\ q.until = ended[q.session]
                \/ q.stage = "issue" /\ q.op = "login" /\ q.until = 0
<1>0. now \in Nat  BY NowType
<1>a. \A s \in issued : /\ s \in Sessions /\ s.iat <= now
                        /\ ended[s] \in 0 .. MaxTime + RevokedLife
                        /\ ended[s] <= now + RevokedLife
  BY DEF TypeInv, TypeOK
<1>b. NoSession.iat = 0  BY DEF NoSession
<1>c. 0 <= now /\ 0 <= now + RevokedLife  BY <1>0, Numbers
<1>1. ASSUME NEW s \in issued,
             Set(r, [Idle EXCEPT !.stage = "get", !.op = "refresh", !.kind = "refresh",
                                 !.session = s, !.cookies = s, !.until = ended[s]])
      PROVE  \E q : /\ Set(r, q) /\ Sound(now, q)
                    /\ q.stage = "get" /\ q.session \in Sessions
                    /\ q.until = ended[q.session]
  <2> DEFINE q == [Idle EXCEPT !.stage = "get", !.op = "refresh", !.kind = "refresh",
                               !.session = s, !.cookies = s, !.until = ended[s]]
  <2>1. q \in RequestType
    BY <1>a, IdleType DEF RequestType, Stages, Ops
  <2>2. /\ q.stage = "get" /\ q.op = "refresh" /\ q.kind = "refresh"
        /\ q.session = s /\ q.cookies = s /\ q.until = ended[s] /\ q.since = 0
    BY DEF Idle
  <2>3. Set(r, q)  BY <1>1
  <2> HIDE DEF q
  <2>4. Sound(now, q)  BY <1>a, <1>c, <2>1, <2>2 DEF Sound
  <2> QED  BY <1>a, <2>2, <2>3, <2>4
<1>2. ASSUME NEW s \in issued, NEW cookies \in issued \cup {NoSession},
             Set(r, [Idle EXCEPT !.stage = "get", !.session = s, !.cookies = cookies,
                                 !.until = ended[s]])
      PROVE  \E q : /\ Set(r, q) /\ Sound(now, q)
                    /\ q.stage = "get" /\ q.session \in Sessions
                    /\ q.until = ended[q.session]
  <2> DEFINE q == [Idle EXCEPT !.stage = "get", !.session = s, !.cookies = cookies,
                               !.until = ended[s]]
  <2>1. cookies \in Sessions \cup {NoSession} /\ cookies.iat <= now
    BY <1>a, <1>b, <1>c
  <2>2. q \in RequestType
    BY <1>a, <2>1, IdleType DEF RequestType, Stages
  <2>3. /\ q.stage = "get" /\ q.op = "guarded" /\ q.kind = "access"
        /\ q.session = s /\ q.cookies = cookies /\ q.until = ended[s] /\ q.since = 0
    BY DEF Idle
  <2>4. Set(r, q)  BY <1>2
  <2> HIDE DEF q
  <2>5. Sound(now, q)  BY <1>a, <1>c, <2>1, <2>2, <2>3 DEF Sound
  <2> QED  BY <1>a, <2>3, <2>4, <2>5
<1>3. ASSUME NEW u \in Users,
             Set(r, [Idle EXCEPT !.stage = "issue", !.op = "login", !.session.user = u])
      PROVE  \E q : /\ Set(r, q) /\ Sound(now, q)
                    /\ q.stage = "issue" /\ q.op = "login" /\ q.until = 0
  <2> DEFINE q == [Idle EXCEPT !.stage = "issue", !.op = "login", !.session.user = u]
  <2>1. [NoSession EXCEPT !.user = u] \in Sessions /\ [NoSession EXCEPT !.user = u].iat = 0
    BY Numbers DEF NoSession, Sessions
  <2>2. q = [Idle EXCEPT !.stage = "issue", !.op = "login",
                         !.session = [NoSession EXCEPT !.user = u]]
    BY DEF Idle
  <2>3. q \in RequestType
    BY <2>1, <2>2, IdleType DEF RequestType, Stages, Ops
  <2>4. /\ q.stage = "issue" /\ q.op = "login" /\ q.kind = "access"
        /\ q.session = [NoSession EXCEPT !.user = u] /\ q.cookies = NoSession
        /\ q.until = 0 /\ q.since = 0
    BY <2>2 DEF Idle
  <2>5. Set(r, q)  BY <1>3
  <2> HIDE DEF q
  <2>6. Sound(now, q)  BY <1>b, <1>c, <2>1, <2>3, <2>4 DEF Sound
  <2> QED  BY <2>4, <2>5, <2>6
<1> QED  BY <1>1, <1>2, <1>3 DEF Begin

\* Sound reads the fields of a request only.
LEMMA StillSound ==
    ASSUME NEW n \in Nat, NEW p, Sound(n, p), p.stage # "idle", p.op # "login",
           NEW q \in RequestType, Same(q, p), q.stage # "idle",
           q.kind = p.kind \/ (q.kind = "refresh" /\ q.stage = "set"),
           q.op = "guarded" /\ q.stage \in {"get", "got"} => p.stage \in {"get", "got"},
           \/ q.since = p.since /\ (p.stage \in {"set", "stored", "issue"}
                                      \/ q.stage \in {"get", "got"})
           \/ q.since = n
    PROVE  Sound(n, q)
BY DEF Sound, Same

LEMMA SendGetSound ==
    ASSUME TypeInv, NEW r \in Requests, SendGet(r)
    PROVE  \E q :
             /\ Set(r, q) /\ Sound(now, q)
             /\ q.stage = "got" /\ q.kind = request[r].kind /\ Same(q, request[r])
             /\ \/ q.lost = TRUE
                \/ q.lost = request[r].lost /\ q.hit = Exists(KeyOf(request[r]))
<1> DEFINE p == request[r]
           a == [p EXCEPT !.stage = "got", !.ok = TRUE, !.hit = Exists(KeyOf(p))]
           b == [p EXCEPT !.stage = "got", !.lost = TRUE]
<1>1. Sound(now, p) /\ p.stage = "get" /\ p.op # "login" /\ p \in RequestType
  BY DEF SendGet, TypeInv, Sound
<1>2. now \in Nat  BY NowType
<1>3. Exists(KeyOf(p)) \in BOOLEAN  BY DEF Exists
<1>4. /\ a \in RequestType /\ a.stage = "got" /\ a.kind = p.kind /\ Same(a, p)
      /\ a.since = p.since /\ a.lost = p.lost /\ a.hit = Exists(KeyOf(p))
  BY <1>1, <1>3 DEF RequestType, Stages, Same
<1>5. /\ b \in RequestType /\ b.stage = "got" /\ b.kind = p.kind /\ Same(b, p)
      /\ b.since = p.since /\ b.lost = TRUE
  BY <1>1 DEF RequestType, Stages, Same
<1>6. Set(r, a) \/ Set(r, b)  BY DEF SendGet, Unanswered
<1> HIDE DEF p, a, b
<1>7. Sound(now, a) /\ Sound(now, b)
  BY <1>1, <1>2, <1>4, <1>5, StillSound
<1> QED  BY <1>4, <1>5, <1>6, <1>7 DEF p

LEMMA ResumeGetSound ==
    ASSUME TypeInv, NEW r \in Requests, ResumeGet(r)
    PROVE  \E q :
             /\ Set(r, q) /\ Sound(now, q)
             /\ \/ q = Idle
                \/ /\ request[r].hit = FALSE
                   /\ q.stage = "set" /\ q.kind = request[r].kind /\ Same(q, request[r])
                   /\ q.lost = request[r].lost /\ q.since = now
<1> DEFINE p == request[r]
           a == [p EXCEPT !.ok = FALSE, !.hit = FALSE, !.since = now, !.stage = "set"]
<1>1. Sound(now, p) /\ p.stage = "got" /\ p.op # "login" /\ p \in RequestType
  BY DEF ResumeGet, TypeInv, Sound
<1>2. now \in Nat /\ now \in Times  BY NowType DEF TypeInv, TypeOK
<1>3. /\ a \in RequestType /\ a.stage = "set" /\ a.kind = p.kind /\ Same(a, p)
      /\ a.since = now /\ a.lost = p.lost
  BY <1>1, <1>2 DEF RequestType, Stages, Same
<1>4. Set(r, Idle) \/ (~p.hit /\ Set(r, a))
  BY DEF ResumeGet, Admitted
<1>5. p.hit \in BOOLEAN  BY <1>1 DEF RequestType
<1> HIDE DEF p, a
<1>6. Sound(now, a)  BY <1>1, <1>2, <1>3, StillSound
<1>7. Sound(now, Idle)  BY <1>2, IdleSound
<1> QED  BY <1>3, <1>4, <1>5, <1>6, <1>7 DEF p

LEMMA SendSetSound ==
    ASSUME TypeInv, NEW r \in Requests, SendSet(r)
    PROVE  \E q :
             /\ Set(r, q) /\ Sound(now, q)
             /\ q.stage = "stored" /\ q.kind = request[r].kind /\ Same(q, request[r])
             /\ q.since = request[r].since
             /\ \/ q.lost = TRUE
                \/ /\ q.lost = request[r].lost
                   /\ ServerSetex(KeyOf(request[r]), RevokedLife)
<1> DEFINE p == request[r]
           a == [p EXCEPT !.stage = "stored", !.ok = TRUE]
           b == [p EXCEPT !.stage = "stored", !.lost = TRUE]
<1>1. Sound(now, p) /\ p.stage = "set" /\ p.op # "login" /\ p \in RequestType
  BY DEF SendSet, TypeInv, Sound
<1>2. now \in Nat  BY NowType
<1>3. /\ a \in RequestType /\ a.stage = "stored" /\ a.kind = p.kind /\ Same(a, p)
      /\ a.since = p.since /\ a.lost = p.lost
  BY <1>1 DEF RequestType, Stages, Same
<1>4. /\ b \in RequestType /\ b.stage = "stored" /\ b.kind = p.kind /\ Same(b, p)
      /\ b.since = p.since /\ b.lost = TRUE
  BY <1>1 DEF RequestType, Stages, Same
<1>5. (Set(r, a) /\ ServerSetex(KeyOf(p), RevokedLife)) \/ Set(r, b)
  BY DEF SendSet, Unanswered
<1> HIDE DEF p, a, b
<1>6. Sound(now, a) /\ Sound(now, b)
  BY <1>1, <1>2, <1>3, <1>4, StillSound
<1> QED  BY <1>3, <1>4, <1>5, <1>6 DEF p

\* The three ways on after SETEX: the second token of a logout, the answer of
\* a logout, the new tokens of a refresh.
LEMMA ResumeSetSound ==
    ASSUME TypeInv, NEW r \in Requests, ResumeSet(r)
    PROVE  LET p == request[r]  q == Revoked([request[r] EXCEPT !.ok = FALSE]) IN
           /\ Set(r, q) /\ Sound(now, q)
           /\ \/ /\ p.op = "guarded" /\ p.kind = "access"
                 /\ q.stage = "set" /\ q.kind = "refresh" /\ Same(q, p)
                 /\ q.since = p.since /\ q.lost = p.lost
              \/ p.op = "guarded" /\ p.kind = "refresh" /\ q = Idle
              \/ /\ p.op = "refresh" /\ q.stage = "issue" /\ q.kind = p.kind /\ Same(q, p)
                 /\ q.since = p.since /\ q.lost = p.lost
<1> DEFINE p == request[r]
           o == [p EXCEPT !.ok = FALSE]
           a == [o EXCEPT !.stage = "set", !.kind = "refresh"]
           b == [o EXCEPT !.stage = "issue"]
<1>1. /\ Sound(now, p) /\ p.stage = "stored" /\ p \in RequestType
      /\ p.op = "guarded" \/ p.op = "refresh"
      /\ p.kind = "access" \/ p.kind = "refresh"
  BY DEF ResumeSet, TypeInv, Sound, RequestType, Ops
<1>2. now \in Nat  BY NowType
<1>3. o \in RequestType /\ o.op = p.op /\ o.kind = p.kind  BY <1>1 DEF RequestType
<1>4. /\ a \in RequestType /\ a.stage = "set" /\ a.kind = "refresh" /\ Same(a, p)
      /\ a.since = p.since /\ a.lost = p.lost
  BY <1>1 DEF RequestType, Stages, Same
<1>5. /\ b \in RequestType /\ b.stage = "issue" /\ b.kind = p.kind /\ Same(b, p)
      /\ b.since = p.since /\ b.lost = p.lost
  BY <1>1 DEF RequestType, Stages, Same
<1>6. Set(r, Revoked(o))  BY DEF ResumeSet
<1>7. Revoked(o) = IF o.op = "guarded" /\ o.kind = "access" THEN a
                   ELSE IF o.op = "refresh" THEN b ELSE Idle
  BY DEF Revoked, RevokedOne
<1> HIDE DEF p, o, a, b
<1>8. Sound(now, a) /\ Sound(now, b)
  BY <1>1, <1>2, <1>4, <1>5, StillSound
<1>9. Sound(now, Idle)  BY <1>2, IdleSound
<1>10. /\ Set(r, Revoked(o)) /\ Sound(now, Revoked(o))
       /\ \/ p.op = "guarded" /\ p.kind = "access" /\ Revoked(o) = a
          \/ p.op = "guarded" /\ p.kind = "refresh" /\ Revoked(o) = Idle
          \/ p.op = "refresh" /\ Revoked(o) = b
  BY <1>1, <1>3, <1>6, <1>7, <1>8, <1>9
<1> QED  BY <1>4, <1>5, <1>10 DEF o, p

LEMMA IssueSound ==
    ASSUME TypeInv, NEW r \in Requests, Issue(r)
    PROVE  /\ Set(r, Idle) /\ Sound(now, Idle)
           /\ issued' \subseteq Sessions /\ \A s \in issued' : s.iat <= now
           /\ rotations' \in [Sessions -> 0 .. Cardinality(Requests) + 1]
<1>1. now \in Nat /\ now <= now  BY NowType
<1>2. request[r].session \in Sessions /\ request[r].session.user \in Users
  <2>1. Sound(now, request[r]) /\ request[r].stage # "idle"  BY DEF Issue, TypeInv
  <2>2. request[r].session \in Sessions  BY <2>1 DEF Sound
  <2> QED  BY <2>2 DEF Sessions
<1>3. /\ issued' \subseteq Sessions /\ \A s \in issued' : s.iat <= now
  BY <1>1, <1>2, Numbers DEF Issue, Sessions, TypeInv, TypeOK
<1>4. rotations' \in [Sessions -> 0 .. Cardinality(Requests) + 1]
  <2>1. \A k \in 0 .. Cardinality(Requests) + 1 :
          OneMore(k) \in 0 .. Cardinality(Requests) + 1
    BY Numbers DEF OneMore
  <2>2. rotations \in [Sessions -> 0 .. Cardinality(Requests) + 1]
    BY DEF TypeInv, TypeOK
  <2>3. [rotations EXCEPT ![request[r].session] = OneMore(@)]
          \in [Sessions -> 0 .. Cardinality(Requests) + 1]
    BY <1>2, <2>1, <2>2
  <2> QED  BY <2>2, <2>3 DEF Issue
<1> QED  BY <1>1, <1>3, <1>4, IdleSound DEF Issue

-----------------------------------------------------------------------------
(* Type correctness.                                                       *)

LEMMA RequestStepType ==
    ASSUME TypeInv, NEW r \in Requests,
           Begin(r) \/ SendGet(r) \/ ResumeGet(r) \/ ResumeSet(r) \/ Issue(r)
    PROVE  TypeInv'
<1>1. Sound(now, request[r])  BY DEF TypeInv
<1>2. request[r].ok \in BOOLEAN  BY <1>1 DEF Sound, RequestType
<1>3. CASE Begin(r)
  <2>1. /\ request' \in [Requests -> RequestType]
        /\ \A x \in Requests : Sound(now, request'[x])
    BY <1>3, BeginEffect, SetType
  <2> QED  BY <1>3, <2>1 DEF Begin, redis, server, client, history, TypeInv, TypeOK, RedisType
<1>4. CASE SendGet(r)
  <2>1. /\ request' \in [Requests -> RequestType]
        /\ \A x \in Requests : Sound(now, request'[x])
    BY <1>4, SendGetSound, SetType
  <2>2. faults' \in 0 .. MaxFaults
    BY <1>4, RedisAssumption DEF SendGet, ReplyLost, TypeInv, TypeOK, RedisType
  <2> QED  BY <1>4, <2>1, <2>2 DEF SendGet, server, client, history, TypeInv, TypeOK, RedisType
<1>5. CASE ResumeGet(r)
  <2>1. /\ request' \in [Requests -> RequestType]
        /\ \A x \in Requests : Sound(now, request'[x])
    BY <1>5, ResumeGetSound, SetType
  <2>2. reportedDown' \in BOOLEAN /\ alerts' \subseteq {"critical", "info"}
    BY <1>2, <1>5, ReportType DEF ResumeGet
  <2> QED  BY <1>5, <2>1, <2>2 DEF ResumeGet, server, history, TypeInv, TypeOK, RedisType
<1>6. CASE ResumeSet(r)
  <2>1. /\ request' \in [Requests -> RequestType]
        /\ \A x \in Requests : Sound(now, request'[x])
    BY <1>6, ResumeSetSound, SetType
  <2>2. reportedDown' \in BOOLEAN /\ alerts' \subseteq {"critical", "info"}
    BY <1>2, <1>6, ReportType DEF ResumeSet
  <2>3. /\ ended' \in [Sessions -> 0 .. MaxTime + RevokedLife]
        /\ \A s \in Sessions : ended'[s] <= now + RevokedLife
    <3>1. CASE ended' = ended  BY <3>1 DEF TypeInv, TypeOK
    <3>2. CASE ended' # ended
      <4> DEFINE t == request[r].since + RevokedLife
      <4>1. request[r].cookies \in Sessions
            /\ ended' = [ended EXCEPT ![request[r].cookies] = Later(@, t)]
        <5>1. /\ request[r].cookies \in Sessions \cup {NoSession}
              /\ [request[r] EXCEPT !.ok = FALSE].cookies = request[r].cookies
              /\ [request[r] EXCEPT !.ok = FALSE].since = request[r].since
          BY <1>1 DEF Sound, RequestType
        <5> QED  BY <1>6, <3>2, <5>1 DEF ResumeSet
      <4>2. now \in Nat /\ now <= MaxTime /\ request[r].since \in Nat
            /\ request[r].since <= now
        BY <1>1, Numbers, NowType, RequestNumbers DEF TypeInv, TypeOK, Times, Sound
      <4>3. t \in 0 .. MaxTime + RevokedLife /\ t <= now + RevokedLife
        BY <4>2, Numbers
      <4> HIDE DEF t
      <4>4. \A m \in 0 .. MaxTime + RevokedLife : m <= now + RevokedLife =>
              Later(m, t) \in 0 .. MaxTime + RevokedLife /\ Later(m, t) <= now + RevokedLife
        BY <4>3 DEF Later
      <4>5. ended \in [Sessions -> 0 .. MaxTime + RevokedLife]  BY DEF TypeInv, TypeOK
      <4>6. \A s \in Sessions : /\ ended'[s] \in 0 .. MaxTime + RevokedLife
                                /\ ended'[s] <= now + RevokedLife
        BY <4>1, <4>4, <4>5, NowType
      <4> QED  BY <4>1, <4>5, <4>6
    <3> QED  BY <3>1, <3>2
  <2> QED  BY <1>6, <2>1, <2>2, <2>3 DEF ResumeSet, server, TypeInv, TypeOK, RedisType
<1>7. CASE Issue(r)
  <2>1. /\ request' \in [Requests -> RequestType]
        /\ \A x \in Requests : Sound(now, request'[x])
    BY <1>7, IssueSound, SetType
  <2> QED  BY <1>7, <2>1, IssueSound DEF Issue, redis, server, client, TypeInv, TypeOK, RedisType
<1> QED  BY <1>3, <1>4, <1>5, <1>6, <1>7

LEMMA SendSetType == ASSUME TypeInv, NEW r \in Requests, SendSet(r) PROVE TypeInv'
<1>1. /\ request' \in [Requests -> RequestType]
      /\ \A x \in Requests : Sound(now, request'[x])
  BY SendSetSound, SetType
<1>2. RedisType'
  <2>1. up' \in BOOLEAN /\ left' \in [Keys -> 0 .. MaxTtl]
    BY Numbers DEF SendSet, ServerSetex, Unreachable, server, TypeInv, TypeOK, RedisType
  <2>2. count' \in [Keys -> 0 .. MaxCount]
    BY RedisAssumption DEF SendSet, ServerSetex, Unreachable, server, TypeInv, TypeOK, RedisType
  <2>3. faults' \in 0 .. MaxFaults
    BY RedisAssumption DEF SendSet, ReplyLost, TypeInv, TypeOK, RedisType
  <2> QED  BY <2>1, <2>2, <2>3 DEF SendSet, client, TypeInv, TypeOK, RedisType
<1> QED  BY <1>1, <1>2 DEF SendSet, history, TypeInv, TypeOK

LEMMA ClockType == ASSUME TypeInv, Clock PROVE TypeInv'
<1>1. RedisType'
  <2>1. left' \in [Keys -> 0 .. MaxTtl]
    BY RedisAssumption DEF Clock, Tick, TypeInv, TypeOK, RedisType
  <2>2. count' \in [Keys -> 0 .. MaxCount]
    BY RedisAssumption DEF Clock, Tick, Forget, TypeInv, TypeOK, RedisType
  <2> QED  BY <2>1, <2>2 DEF Clock, Tick, client, TypeInv, TypeOK, RedisType
<1>2. now \in Nat /\ now' \in Times /\ now' = now + 1
  BY Numbers DEF Clock, TypeInv, TypeOK, Times
<1>3. ASSUME NEW q, Sound(now, q) PROVE Sound(now', q)
  <2>1. /\ q.since \in Nat /\ q.until \in Nat
        /\ q.session.iat \in Nat /\ q.cookies.iat \in Nat
    BY <1>2, <1>3, RequestNumbers
  <2> QED  BY <1>2, <1>3, <2>1, Numbers DEF Sound
<1>4. \A s \in issued : s.iat <= now'
  BY <1>2, Numbers DEF TypeInv, TypeOK, Sessions
<1>5. \A s \in Sessions : ended[s] <= now' + RevokedLife
  BY <1>2, Numbers, NowType
<1> QED  BY <1>1, <1>2, <1>3, <1>4, <1>5 DEF Clock, history, TypeInv, TypeOK

LEMMA RedisFailsType == ASSUME TypeInv, RedisFails PROVE TypeInv'
<1>1. PICK gone \in {{}, Keys} : Outage(gone)  BY DEF RedisFails
<1>2. RedisType'
  <2>1. left' \in [Keys -> 0 .. MaxTtl]
    BY <1>1, RedisAssumption DEF Outage, TypeInv, TypeOK, RedisType
  <2>2. count' \in [Keys -> 0 .. MaxCount]
    BY <1>1, RedisAssumption DEF Outage, Forget, TypeInv, TypeOK, RedisType
  <2>3. faults' \in 0 .. MaxFaults
    BY <1>1, RedisAssumption DEF Outage, TypeInv, TypeOK, RedisType
  <2>4. emptied' \in BOOLEAN /\ up' \in BOOLEAN
    BY <1>1, Zenon DEF Outage, TypeInv, TypeOK, RedisType
  <2> QED  BY <1>1, <2>1, <2>2, <2>3, <2>4 DEF Outage, client, TypeInv, TypeOK, RedisType
<1>3. CASE UNCHANGED <<request, history>>
  BY <1>2, <1>3 DEF RedisFails, history, TypeInv, TypeOK
<1>4. CASE /\ request' = [r \in Requests |->
                 [request[r] EXCEPT !.lost = request[r].stage # "idle"]]
           /\ ended' = [s \in Sessions |-> 0]
           /\ rotations' = [s \in Sessions |-> 0]
  <2>1. ASSUME NEW r \in Requests
        PROVE  Sound(now, [request[r] EXCEPT !.lost = request[r].stage # "idle"])
    <3>1. Sound(now, request[r])  BY DEF TypeInv
    <3>2. [request[r] EXCEPT !.lost = request[r].stage # "idle"] \in RequestType
      BY <3>1 DEF Sound, RequestType
    <3> QED  BY <3>1, <3>2 DEF Sound, RequestType
  <2>2. /\ request' \in [Requests -> RequestType]
        /\ \A x \in Requests : Sound(now, request'[x])
    BY <1>4, <2>1 DEF Sound
  <2>3. rotations' \in [Sessions -> 0 .. Cardinality(Requests) + 1]
    BY <1>4, Numbers
  <2>4. /\ ended' \in [Sessions -> 0 .. MaxTime + RevokedLife]
        /\ \A s \in Sessions : ended'[s] <= now + RevokedLife
    BY <1>4, Numbers, NowType
  <2> QED  BY <1>2, <1>4, <2>2, <2>3, <2>4 DEF RedisFails, TypeInv, TypeOK
<1> QED  BY <1>3, <1>4 DEF RedisFails

LEMMA CrashType == ASSUME TypeInv, Crash PROVE TypeInv'
<1>1. Sound(now, Idle)  BY NowType, IdleSound
<1>2. faults' \in 0 .. MaxFaults
  BY RedisAssumption DEF Crash, TypeInv, TypeOK, RedisType
<1> QED  BY <1>1, <1>2, IdleType DEF Crash, server, history, TypeInv, TypeOK, RedisType

LEMMA InitType == Init => TypeInv
<1> SUFFICES ASSUME Init PROVE TypeInv
  OBVIOUS
<1>1. RedisType
  <2>1. count \in [Keys -> 0 .. MaxCount] /\ left \in [Keys -> 0 .. MaxTtl]
    BY RedisAssumption DEF Init, RedisInit
  <2>2. faults \in 0 .. MaxFaults  BY RedisAssumption DEF Init, RedisInit
  <2>3. up \in BOOLEAN /\ reportedDown \in BOOLEAN /\ emptied \in BOOLEAN /\ alerts = {}
    BY DEF Init, RedisInit
  <2> QED  BY <2>1, <2>2, <2>3 DEF RedisType
<1>2. now \in Times /\ now \in Nat  BY Numbers DEF Init, Times
<1>3. Sound(now, Idle)  BY <1>2, IdleSound
<1>4. rotations \in [Sessions -> 0 .. Cardinality(Requests) + 1]
  BY Numbers DEF Init
<1>5. /\ ended \in [Sessions -> 0 .. MaxTime + RevokedLife]
      /\ \A s \in Sessions : ended[s] <= now + RevokedLife
  BY <1>2, Numbers DEF Init
<1> QED  BY <1>1, <1>2, <1>3, <1>4, <1>5, IdleType DEF Init, TypeInv, TypeOK

LEMMA NextType == TypeInv /\ [Next]_vars => TypeInv'
<1> SUFFICES ASSUME TypeInv, [Next]_vars PROVE TypeInv'
  OBVIOUS
<1>1. CASE RedisReturns
  BY <1>1 DEF RedisReturns, Recover, client, history, TypeInv, TypeOK, RedisType
<1>2. CASE UNCHANGED vars
  BY <1>2 DEF vars, redis, server, client, TypeInv, TypeOK, RedisType
<1> QED
  BY <1>1, <1>2, RequestStepType, SendSetType, ClockType, RedisFailsType, CrashType
  DEF Next

\* Every variable keeps its type, for any constants (all actions of Sessions).
THEOREM TypeCorrect == Spec => []TypeOK
<1>1. TypeInv => TypeOK  BY DEF TypeInv
<1> QED  BY <1>1, InitType, NextType, PTL DEF Spec

-----------------------------------------------------------------------------
(* What is revoked stays revoked.                                          *)

\* What a step may do to token_blacklist while Redis keeps its keys.
ServerStep ==
    \/ UNCHANGED <<count, left, now>>
    \/ (\E k \in Keys : ServerSetex(k, RevokedLife)) /\ UNCHANGED now
    \/ Tick /\ now' = now + 1

LEMMA TickLife ==
    ASSUME TypeInv, Tick, now' = now + 1, NEW k \in Keys, NEW t \in Nat,
           Dead(count, left, now, k, t)
    PROVE  Dead(count', left', now', k, t)
<1>1. now \in Nat  BY NowType
<1>2. count[k] \in Nat /\ left[k] \in Nat
  BY RedisAssumption DEF TypeInv, TypeOK, RedisType
<1>3. left'[k] = IF left[k] = 0 THEN 0 ELSE left[k] - 1
  BY DEF Tick
<1>4. count'[k] = IF left[k] = 1 THEN 0 ELSE count[k]
  BY DEF Tick, Forget, Ending
<1> QED  BY <1>1, <1>2, <1>3, <1>4 DEF Dead

\* SETEX gives the whole of RevokedLife, and no key is to last longer.
LEMMA SetexLife ==
    ASSUME TypeInv, now' = now, NEW j \in Keys, ServerSetex(j, RevokedLife),
           NEW t \in Nat, t <= now + RevokedLife
    PROVE  /\ Dead(count', left', now', j, t)
           /\ \A k \in Keys : Dead(count, left, now, k, t) => Dead(count', left', now', k, t)
<1>1. count'[j] = 1 /\ left'[j] = RevokedLife
  BY DEF ServerSetex, TypeInv, TypeOK, RedisType
<1>2. \A k \in Keys \ {j} : count'[k] = count[k] /\ left'[k] = left[k]
  BY DEF ServerSetex, TypeInv, TypeOK, RedisType
<1>3. Dead(count', left', now', j, t)  BY <1>1 DEF Dead
<1> QED  BY <1>2, <1>3 DEF Dead

LEMMA DeadStays ==
    ASSUME TypeInv, ServerStep
    PROVE  \A k \in Keys, t \in Nat :
             t <= now + RevokedLife /\ Dead(count, left, now, k, t)
               => Dead(count', left', now', k, t)
<1> SUFFICES ASSUME NEW k \in Keys, NEW t \in Nat,
                    t <= now + RevokedLife, Dead(count, left, now, k, t)
             PROVE  Dead(count', left', now', k, t)
  OBVIOUS
<1>1. CASE UNCHANGED <<count, left, now>>  BY <1>1
<1>2. CASE Tick /\ now' = now + 1  BY <1>2, TickLife
<1>3. CASE (\E j \in Keys : ServerSetex(j, RevokedLife)) /\ UNCHANGED now
  BY <1>3, SetexLife
<1> QED  BY <1>1, <1>2, <1>3 DEF ServerStep

LEMMA TimePasses ==
    ASSUME TypeInv, ServerStep
    PROVE  now \in Nat /\ now' \in Nat /\ now <= now'
BY NowType DEF ServerStep

\* What a request knows stays true.
LEMMA KeptStays ==
    ASSUME TypeInv, RevokedInv, ServerStep, NEW r \in Requests
    PROVE  Kept(count', left', now', request[r])
<1> DEFINE q == request[r]
<1> SUFFICES ASSUME q.stage # "idle", q.lost = FALSE
             PROVE  Known(count', left', now', q)
  BY DEF Kept
<1>1. Sound(now, q) /\ Known(count, left, now, q)
  BY DEF TypeInv, RevokedInv, Kept
<1>2. now \in Nat /\ now' \in Nat /\ now <= now'  BY TimePasses
<1>3. /\ q.since \in Nat /\ q.until \in Nat /\ q.kind \in TokenKinds
      /\ \A kind \in TokenKinds : /\ Token(kind, q.session) \in Keys
                                  /\ Token(kind, q.cookies) \in Keys
  BY <1>1, <1>2, RequestNumbers
<1>4. "access" \in TokenKinds /\ "refresh" \in TokenKinds  BY DEF TokenKinds
<1>5. q.until <= now + RevokedLife /\ q.since <= now  BY <1>1 DEF Sound
<1>6. /\ q.since + RevokedLife \in Nat
      /\ q.since + RevokedLife <= now + RevokedLife
  BY <1>2, <1>3, <1>5, Numbers
<1>7. now >= q.until => now' >= q.until  BY <1>2, <1>3
<1> HIDE DEF q
<1>8. \A kind \in TokenKinds :
        /\ Dead(count, left, now, Token(kind, q.session), q.until)
             => Dead(count', left', now', Token(kind, q.session), q.until)
        /\ Dead(count, left, now, Token(kind, q.cookies), q.since + RevokedLife)
             => Dead(count', left', now', Token(kind, q.cookies), q.since + RevokedLife)
  BY <1>3, <1>5, <1>6, DeadStays
<1> QED  BY <1>1, <1>3, <1>4, <1>7, <1>8 DEF Known

LEMMA EndedStays ==
    ASSUME TypeInv, RevokedInv, ServerStep
    PROVE  \A s \in Sessions, kind \in TokenKinds :
             Dead(count', left', now', Token(kind, s), ended[s])
BY NowType, TokenType, DeadStays DEF RevokedInv

\* So a step of a request need only say what that request knows afterwards.
LEMMA RevokedStep ==
    ASSUME TypeInv, RevokedInv, ServerStep,
           NEW r \in Requests, NEW q, Set(r, q), Kept(count', left', now', q),
           ended' = ended
    PROVE  RevokedInv'
<1>1. \A x \in Requests : Kept(count', left', now', request'[x])
  BY SetEffect, KeptStays
<1> QED  BY <1>1, EndedStays DEF RevokedInv

LEMMA IdleKept == \A c, l, n : Kept(c, l, n, Idle)
BY IdleFields DEF Kept

LEMMA BeginRevoked ==
    ASSUME TypeInv, RevokedInv, NEW r \in Requests, Begin(r)
    PROVE  RevokedInv'
<1>1. PICK q : /\ Set(r, q) /\ Sound(now, q)
               /\ \/ q.stage = "get" /\ q.session \in Sessions /\ q.until = ended[q.session]
                  \/ q.stage = "issue" /\ q.op = "login" /\ q.until = 0
  BY BeginEffect
<1>2. ServerStep /\ ended' = ended /\ count' = count /\ left' = left /\ now' = now
  BY DEF Begin, ServerStep, redis, server, history
<1>3. now \in Nat  BY NowType
<1>4. CASE q.stage = "get" /\ q.session \in Sessions /\ q.until = ended[q.session]
  <2>1. q.kind \in TokenKinds  BY <1>1, <1>3, RequestNumbers
  <2>2. Dead(count, left, now, Token(q.kind, q.session), q.until)
    BY <1>4, <2>1 DEF RevokedInv
  <2>3. Kept(count', left', now', q)
    BY <1>2, <1>4, <2>2 DEF Kept, Known
  <2> QED  BY <1>1, <1>2, <2>3, RevokedStep
<1>5. CASE q.stage = "issue" /\ q.op = "login" /\ q.until = 0
  <2>1. Kept(count', left', now', q)
    BY <1>2, <1>3, <1>5 DEF Kept, Known
  <2> QED  BY <1>1, <1>2, <2>1, RevokedStep
<1> QED  BY <1>1, <1>4, <1>5

LEMMA SendGetRevoked ==
    ASSUME TypeInv, RevokedInv, NEW r \in Requests, SendGet(r)
    PROVE  RevokedInv'
<1> DEFINE p == request[r]
<1>1. PICK q : /\ Set(r, q) /\ Sound(now, q)
               /\ q.stage = "got" /\ q.kind = p.kind /\ Same(q, p)
               /\ q.lost = TRUE \/ (q.lost = p.lost /\ q.hit = Exists(KeyOf(p)))
  BY SendGetSound
<1>2. ServerStep /\ ended' = ended /\ count' = count /\ left' = left /\ now' = now
  BY DEF SendGet, ServerStep, server, history
<1>3. p.stage = "get"  BY DEF SendGet
<1>4. CASE q.lost = TRUE
  BY <1>1, <1>2, <1>4, RevokedStep DEF Kept
<1>5. CASE q.lost = p.lost /\ q.hit = Exists(KeyOf(p))
  <2>1. q.lost = FALSE => Dead(count, left, now, Token(p.kind, p.session), p.until)
    BY <1>3, <1>5 DEF RevokedInv, Kept, Known
  <2>2. q.hit = FALSE => ~(count[Token(p.kind, p.session)] > 0)
    BY <1>3, <1>5 DEF Exists, KeyOf
  <2>3. q.lost = FALSE /\ q.hit = FALSE => now >= q.until
    BY <1>1, <2>1, <2>2 DEF Dead, Same
  <2>4. Kept(count', left', now', q)
    BY <1>1, <1>2, <2>3 DEF Kept, Known
  <2> QED  BY <1>1, <1>2, <2>4, RevokedStep
<1> QED  BY <1>1, <1>4, <1>5

LEMMA ResumeGetRevoked ==
    ASSUME TypeInv, RevokedInv, NEW r \in Requests, ResumeGet(r)
    PROVE  RevokedInv'
<1> DEFINE p == request[r]
<1>1. PICK q : /\ Set(r, q) /\ Sound(now, q)
               /\ \/ q = Idle
                  \/ /\ p.hit = FALSE
                     /\ q.stage = "set" /\ q.kind = p.kind /\ Same(q, p)
                     /\ q.lost = p.lost /\ q.since = now
  BY ResumeGetSound
<1>2. ServerStep /\ ended' = ended /\ count' = count /\ left' = left /\ now' = now
  BY DEF ResumeGet, ServerStep, server, history
<1>3. p.stage = "got" /\ Sound(now, p)
  BY DEF ResumeGet, TypeInv
<1>4. CASE q = Idle  BY <1>1, <1>2, <1>4, IdleKept, RevokedStep
<1>5. CASE /\ p.hit = FALSE
           /\ q.stage = "set" /\ q.kind = p.kind /\ Same(q, p)
           /\ q.lost = p.lost /\ q.since = now
  <2>1. q.lost = FALSE => now >= q.until
    BY <1>3, <1>5 DEF RevokedInv, Kept, Known, Same
  <2>2. q.op = "guarded" => q.kind = "access"
    BY <1>3, <1>5 DEF Sound, Same
  <2>3. Kept(count', left', now', q)
    BY <1>2, <1>5, <2>1, <2>2 DEF Kept, Known
  <2> QED  BY <1>1, <1>2, <2>3, RevokedStep
<1> QED  BY <1>1, <1>4, <1>5

LEMMA SendSetServer ==
    ASSUME TypeInv, NEW r \in Requests, SendSet(r)
    PROVE  ServerStep /\ KeyOf(request[r]) \in Keys
<1>1. KeyOf(request[r]) \in Keys
  BY NowType, RequestNumbers DEF TypeInv
<1>2. now' = now  BY DEF SendSet
<1>3. ServerSetex(KeyOf(request[r]), RevokedLife) \/ UNCHANGED <<count, left>>
  BY DEF SendSet, Unreachable, server
<1> QED  BY <1>1, <1>2, <1>3 DEF ServerStep

LEMMA SendSetRevoked ==
    ASSUME TypeInv, RevokedInv, NEW r \in Requests, SendSet(r)
    PROVE  RevokedInv'
<1> DEFINE p == request[r]
<1>1. PICK q : /\ Set(r, q) /\ Sound(now, q)
               /\ q.stage = "stored" /\ q.kind = p.kind /\ Same(q, p)
               /\ q.since = p.since
               /\ \/ q.lost = TRUE
                  \/ q.lost = p.lost /\ ServerSetex(KeyOf(p), RevokedLife)
  BY SendSetSound
<1>2. ServerStep /\ KeyOf(p) \in Keys  BY SendSetServer
<1>3. p.stage = "set" /\ Sound(now, p) /\ ended' = ended /\ now' = now
  BY DEF SendSet, TypeInv, history
<1>4. CASE q.lost = TRUE
  BY <1>1, <1>2, <1>3, <1>4, RevokedStep DEF Kept
<1>5. CASE q.lost = p.lost /\ ServerSetex(KeyOf(p), RevokedLife)
  <2>1. q.since + RevokedLife \in Nat /\ q.since + RevokedLife <= now + RevokedLife
    BY <1>1, <1>3, NowType, RequestNumbers, Numbers DEF Sound
  <2>2. KeyOf(p) = Token(q.kind, q.cookies)
    BY <1>1, <1>3 DEF KeyOf, Same
  <2>3. Dead(count', left', now', Token(q.kind, q.cookies), q.since + RevokedLife)
    BY <1>2, <1>3, <1>5, <2>1, <2>2, SetexLife
  <2>4. Kept(count', left', now', p)  BY <1>2, KeptStays
  <2>5. q.lost = FALSE => Known(count', left', now', p)
    BY <1>3, <1>5, <2>4 DEF Kept
  <2>6. q.lost = FALSE =>
          /\ now' >= q.until
          /\ q.op = "guarded" /\ q.kind = "refresh"
               => Dead(count', left', now', Token("access", q.cookies), q.since + RevokedLife)
    BY <1>1, <1>3, <2>5 DEF Known, Same
  <2>7. Kept(count', left', now', q)
    BY <1>1, <2>3, <2>6 DEF Kept, Known
  <2> QED  BY <1>1, <1>2, <1>3, <2>7, RevokedStep
<1> QED  BY <1>1, <1>4, <1>5

LEMMA ResumeSetKept ==
    ASSUME TypeInv, RevokedInv, NEW r \in Requests, ResumeSet(r),
           NEW q, q = Revoked([request[r] EXCEPT !.ok = FALSE])
    PROVE  Kept(count, left, now, q)
<1> DEFINE p == request[r]
<1>1. p.stage = "stored" /\ Sound(now, p)  BY DEF ResumeSet, TypeInv
<1>2. p.lost = FALSE => Known(count, left, now, p)
  BY <1>1 DEF RevokedInv, Kept
<1>3. CASE /\ p.op = "guarded" /\ p.kind = "access"
           /\ q.stage = "set" /\ q.kind = "refresh" /\ Same(q, p)
           /\ q.since = p.since /\ q.lost = p.lost
  BY <1>1, <1>2, <1>3 DEF Kept, Known, Same
<1>4. CASE p.op = "guarded" /\ p.kind = "refresh" /\ q = Idle
  BY <1>4, IdleKept
<1>5. CASE /\ p.op = "refresh" /\ q.stage = "issue" /\ q.kind = p.kind /\ Same(q, p)
           /\ q.since = p.since /\ q.lost = p.lost
  <2>1. p.kind = "refresh"  BY <1>1, <1>5 DEF Sound
  <2> QED  BY <1>1, <1>2, <1>5, <2>1 DEF Kept, Known, Same
<1> QED  BY <1>3, <1>4, <1>5, ResumeSetSound

LEMMA ResumeSetRevoked ==
    ASSUME TypeInv, RevokedInv, NEW r \in Requests, ResumeSet(r)
    PROVE  RevokedInv'
<1> DEFINE p == request[r]  o == [request[r] EXCEPT !.ok = FALSE]
<1>1. ServerStep /\ count' = count /\ left' = left /\ now' = now
  BY DEF ResumeSet, ServerStep, server
<1>2. /\ p.stage = "stored" /\ Sound(now, p) /\ p \in RequestType
      /\ o.lost = p.lost /\ o.cookies = p.cookies /\ o.since = p.since
  BY DEF ResumeSet, TypeInv, Sound, RequestType
<1>3. \A x \in Requests : Kept(count', left', now', request'[x])
  <2>1. Set(r, Revoked(o))  BY ResumeSetSound
  <2>2. Kept(count, left, now, Revoked(o))  BY ResumeSetKept
  <2> QED  BY <1>1, <2>1, <2>2, SetEffect, KeptStays
<1>4. CASE ended' = ended
  BY <1>1, <1>3, <1>4 DEF RevokedInv
<1>5. CASE ended' # ended
  <2> DEFINE t == p.since + RevokedLife
  <2>1. /\ Revoked(o) = Idle /\ p.lost = FALSE /\ p.cookies \in Sessions
        /\ ended' = [ended EXCEPT ![p.cookies] = Later(@, t)]
    <3>1. p.cookies \in Sessions \cup {NoSession} /\ p.lost \in BOOLEAN
      BY <1>2 DEF RequestType
    <3> QED  BY <1>2, <1>5, <3>1 DEF ResumeSet
  <2>2. p.op = "guarded" /\ p.kind = "refresh"
    <3>1. Idle.stage = "idle"  BY IdleFields
    <3> QED  BY <2>1, <3>1, ResumeSetSound
  <2>3. Known(count, left, now, p)
    BY <1>2, <2>1 DEF RevokedInv, Kept
  <2>4. /\ Dead(count, left, now, Token("access", p.cookies), t)
        /\ Dead(count, left, now, Token("refresh", p.cookies), t)
    BY <1>2, <2>2, <2>3 DEF Known
  <2> HIDE DEF t
  <2>5. ended \in [Sessions -> 0 .. MaxTime + RevokedLife]  BY DEF TypeInv, TypeOK
  <2>6. ASSUME NEW s \in Sessions, NEW kind \in TokenKinds
        PROVE  Dead(count, left, now, Token(kind, s), ended'[s])
    <3>1. Dead(count, left, now, Token(kind, s), ended[s])  BY DEF RevokedInv
    <3>2. CASE s # p.cookies
      BY <2>1, <2>5, <3>1, <3>2
    <3>3. CASE s = p.cookies
      <4>1. ended'[s] = ended[s] \/ ended'[s] = t
        BY <2>1, <2>5, <3>3 DEF Later
      <4>2. Dead(count, left, now, Token(kind, s), t)
        BY <2>4, <3>3 DEF TokenKinds
      <4> QED  BY <3>1, <4>1, <4>2
    <3> QED  BY <3>2, <3>3
  <2> QED  BY <1>1, <1>3, <2>6 DEF RevokedInv
<1> QED  BY <1>4, <1>5

LEMMA RedisFailsRevoked ==
    ASSUME TypeInv, RevokedInv, RedisFails
    PROVE  RevokedInv'
<1>1. CASE Outage({}) /\ UNCHANGED <<request, history>>
  <2>1. now' = now  BY DEF RedisFails
  <2>2. count' = count /\ left' = left
    BY <1>1 DEF Outage, Forget, TypeInv, TypeOK, RedisType
  <2> QED  BY <1>1, <2>1, <2>2 DEF RevokedInv, history
<1>2. CASE /\ Outage(Keys)
           /\ request' = [r \in Requests |->
                [request[r] EXCEPT !.lost = request[r].stage # "idle"]]
           /\ ended' = [s \in Sessions |-> 0]
  <2>1. \A s \in Sessions, kind \in TokenKinds :
          Dead(count', left', now', Token(kind, s), ended'[s])
    BY <1>2, NowType DEF RedisFails, Dead
  <2>2. ASSUME NEW r \in Requests PROVE Kept(count', left', now', request'[r])
    <3>1. request[r] \in RequestType  BY DEF TypeInv, TypeOK
    <3>2. request'[r].stage = request[r].stage /\ request'[r].lost = (request[r].stage # "idle")
      BY <1>2, <3>1 DEF RequestType
    <3> QED  BY <3>2 DEF Kept
  <2> QED  BY <2>1, <2>2 DEF RevokedInv
<1> QED  BY <1>1, <1>2 DEF RedisFails

LEMMA NextRevoked == TypeInv /\ RevokedInv /\ [Next]_vars => RevokedInv'
<1> SUFFICES ASSUME TypeInv, RevokedInv, [Next]_vars PROVE RevokedInv'
  OBVIOUS
<1>1. ASSUME NEW r \in Requests, Issue(r) PROVE RevokedInv'
  <2>1. ServerStep /\ ended' = ended
    BY <1>1 DEF Issue, ServerStep, redis, server
  <2> QED  BY <1>1, <2>1, IssueSound, IdleKept, RevokedStep
<1>2. CASE Clock
  <2>1. ServerStep /\ ended' = ended /\ request' = request
    BY <1>2 DEF Clock, ServerStep, history
  <2> QED  BY <2>1, EndedStays, KeptStays DEF RevokedInv
<1>3. CASE Crash
  BY <1>3, IdleKept DEF Crash, server, history, RevokedInv
<1>4. CASE RedisReturns
  BY <1>4 DEF RedisReturns, Recover, history, RevokedInv
<1>5. CASE UNCHANGED vars
  BY <1>5 DEF vars, redis, server, RevokedInv
<1> QED
  BY <1>1, <1>2, <1>3, <1>4, <1>5, BeginRevoked, SendGetRevoked, ResumeGetRevoked,
     SendSetRevoked, ResumeSetRevoked, RedisFailsRevoked
  DEF Next

LEMMA InitRevoked == Init => RevokedInv
<1> SUFFICES ASSUME Init PROVE RevokedInv
  OBVIOUS
<1>1. now = 0 /\ \A s \in Sessions : ended[s] = 0  BY DEF Init
<1>2. \A r \in Requests : request[r] = Idle  BY DEF Init
<1> QED  BY <1>1, <1>2, IdleKept DEF RevokedInv, Dead

LEMMA RefusedOnceRevoked == TypeInv /\ RevokedInv => LoggedOutRefused
<1> SUFFICES ASSUME TypeInv, RevokedInv, NEW r \in Requests, Passed(request[r])
             PROVE  now >= request[r].until
  BY DEF LoggedOutRefused
<1> DEFINE q == request[r]
<1>1. Sound(now, q)  BY DEF TypeInv
<1>2. now \in Nat  BY NowType
<1>3. q.stage \in Stages /\ q.hit \in BOOLEAN /\ q.lost \in BOOLEAN
  BY <1>1, <1>2, RequestNumbers
<1>4. CASE q.stage = "idle"
  BY <1>1, <1>2, <1>4 DEF Sound
<1>5. CASE q.stage # "idle"
  <2>1. Known(count, left, now, q)
    BY <1>3, <1>5 DEF RevokedInv, Kept, Passed
  <2> QED  BY <1>3, <1>5, <2>1 DEF Known, Passed, Stages
<1> QED  BY <1>4, <1>5

\* A token of the session in the cookies of an answered logout is refused for
\* RevokedLife from its admission on (logout, get_current_user, refresh), for
\* any lives and whatever happens between the steps of the logout.
THEOREM LoggedOut == Spec => []LoggedOutRefused
<1>1. Init => TypeInv /\ RevokedInv  BY InitType, InitRevoked
<1>2. TypeInv /\ RevokedInv /\ [Next]_vars => (TypeInv /\ RevokedInv)'
  BY NextType, NextRevoked
<1> QED  BY <1>1, <1>2, RefusedOnceRevoked, PTL DEF Spec

-----------------------------------------------------------------------------
(* Exchanges of a refresh token.                                           *)

LEMMA RotationType ==
    ASSUME TypeInv, NEW s \in Sessions
    PROVE  /\ rotations[s] \in Nat /\ s.iat \in Nat /\ now \in Nat
           /\ s.iat + RevokedLife \in Nat
           /\ Token("refresh", s) \in Keys
<1>1. rotations[s] \in 0 .. Cardinality(Requests) + 1  BY DEF TypeInv, TypeOK
<1>2. "refresh" \in TokenKinds  BY DEF TokenKinds
<1> QED  BY <1>1, <1>2, NowType, SessionType, TokenType, Numbers

LEMMA HoldersFinite ==
    ASSUME NEW req, NEW s
    PROVE  /\ IsFiniteSet(Holders(req, s))
           /\ Cardinality(Holders(req, s)) \in Nat
           /\ Cardinality(Holders(req, s)) <= Cardinality(Requests)
<1>1. Holders(req, s) \in SUBSET Requests  BY DEF Holders
<1> QED  BY <1>1, RequestsAssumption, FS_Subset, FS_CardinalityType

\* Nothing changes for s when nobody starts to hold its token.
LEMMA ExchangeStays ==
    ASSUME TypeInv, ServerStep, NEW s \in Sessions,
           ExchangeInv(count, left, now, request, rotations, s),
           rotations'[s] = rotations[s],
           \A r \in Requests : Holds(request'[r], s) => Holds(request[r], s)
    PROVE  ExchangeInv(count', left', now', request', rotations', s)
<1>1. now \in Nat /\ now' \in Nat /\ now <= now'  BY TimePasses
<1>2. /\ s.iat \in Nat /\ rotations[s] \in Nat /\ s.iat + RevokedLife \in Nat
      /\ Token("refresh", s) \in Keys
  BY RotationType
<1>3. Holders(request', s) \in SUBSET Holders(request, s)  BY DEF Holders
<1>4. Cardinality(Holders(request', s)) <= Cardinality(Holders(request, s))
  BY <1>3, HoldersFinite, FS_Subset
<1>5. s.iat <= now /\ Dead(count, left, now, Token("refresh", s), s.iat + RevokedLife)
        => Dead(count', left', now', Token("refresh", s), s.iat + RevokedLife)
  BY <1>1, <1>2, DeadStays, Numbers
<1>6. /\ Cardinality(Holders(request, s)) \in Nat
      /\ Cardinality(Holders(request', s)) \in Nat
  BY HoldersFinite
<1> QED  BY <1>1, <1>2, <1>4, <1>5, <1>6, Numbers DEF ExchangeInv

LEMMA ExchangesStay ==
    ASSUME TypeInv, RotationInv, ServerStep,
           NEW r \in Requests, NEW q, Set(r, q), rotations' = rotations,
           \A s \in Sessions : Holds(q, s) => Holds(request[r], s)
    PROVE  RotationInv'
<1>1. \A s \in Sessions, x \in Requests : Holds(request'[x], s) => Holds(request[x], s)
  BY SetEffect
<1> QED  BY <1>1, ExchangeStays DEF RotationInv

LEMMA IdleHolds == \A s : ~Holds(Idle, s)
BY IdleFields DEF Holds

LEMMA BeginRotation ==
    ASSUME TypeInv, RotationInv, NEW r \in Requests, Begin(r)
    PROVE  RotationInv'
<1>1. PICK q : /\ Set(r, q)
               /\ q.stage = "get" \/ (q.stage = "issue" /\ q.op = "login")
  BY BeginEffect
<1>2. ServerStep /\ rotations' = rotations
  BY DEF Begin, ServerStep, redis, server, history
<1>3. \A s \in Sessions : ~Holds(q, s)  BY <1>1 DEF Holds
<1> QED  BY <1>1, <1>2, <1>3, ExchangesStay

\* Whoever finds the token alive is one of the requests in flight; the token
\* has not been exchanged, or is too old to count.
LEMMA SendGetRotation ==
    ASSUME TypeInv, RotationInv, NEW r \in Requests, SendGet(r)
    PROVE  RotationInv'
<1> DEFINE p == request[r]
<1>1. PICK q : /\ Set(r, q) /\ Sound(now, q)
               /\ q.stage = "got" /\ q.kind = p.kind /\ Same(q, p)
               /\ q.lost = TRUE \/ (q.lost = p.lost /\ q.hit = Exists(KeyOf(p)))
  BY SendGetSound
<1>2. /\ ServerStep /\ rotations' = rotations
      /\ count' = count /\ left' = left /\ now' = now
  BY DEF SendGet, ServerStep, server, history
<1>3. p.stage = "get"  BY DEF SendGet
<1> SUFFICES ASSUME NEW s \in Sessions
             PROVE  ExchangeInv(count', left', now', request', rotations', s)
  BY DEF RotationInv
<1>4. ExchangeInv(count, left, now, request, rotations, s)  BY DEF RotationInv
<1>5. CASE ~Holds(q, s)
  <2>1. \A x \in Requests : Holds(request'[x], s) => Holds(request[x], s)
    BY <1>1, <1>5, SetEffect
  <2> QED  BY <1>2, <1>4, <2>1, ExchangeStays
<1>6. CASE Holds(q, s)
  <2>1. q.lost = FALSE /\ q.hit = FALSE /\ q.op = "refresh" /\ q.session = s
    BY <1>1, <1>6 DEF Holds
  <2>2. KeyOf(p) = Token("refresh", s)
    BY <1>1, <1>3, <2>1 DEF Sound, Same, KeyOf
  <2>3. ~(count[Token("refresh", s)] > 0)  BY <1>1, <2>1, <2>2 DEF Exists
  <2>4. rotations[s] \in Nat /\ s.iat + RevokedLife \in Nat /\ now \in Nat
    BY RotationType
  <2>5. rotations[s] = 0 \/ now >= s.iat + RevokedLife
    BY <1>4, <2>3, <2>4 DEF ExchangeInv, Dead
  <2>6. /\ Cardinality(Holders(request', s)) \in Nat
        /\ Cardinality(Holders(request', s)) <= Cardinality(Requests)
    BY HoldersFinite
  <2> QED  BY <1>2, <1>4, <2>4, <2>5, <2>6, Numbers DEF ExchangeInv
<1> QED  BY <1>5, <1>6

LEMMA HandledRotation ==
    ASSUME TypeInv, RotationInv, NEW r \in Requests,
           ResumeGet(r) \/ SendSet(r) \/ ResumeSet(r)
    PROVE  RotationInv'
<1> DEFINE p == request[r]
<1>1. CASE ResumeGet(r)
  <2>1. PICK q : /\ Set(r, q)
                 /\ \/ q = Idle
                    \/ /\ p.hit = FALSE
                       /\ q.stage = "set" /\ q.kind = p.kind /\ Same(q, p)
                       /\ q.lost = p.lost /\ q.since = now
    BY <1>1, ResumeGetSound
  <2>2. \A s \in Sessions : Holds(q, s) => Holds(p, s)
    <3>1. p.stage = "got"  BY <1>1 DEF ResumeGet
    <3> QED  BY <2>1, <3>1, IdleHolds DEF Holds, Same
  <2>3. ServerStep /\ rotations' = rotations
    BY <1>1 DEF ResumeGet, ServerStep, server, history
  <2> QED  BY <2>1, <2>2, <2>3, ExchangesStay
<1>2. CASE SendSet(r)
  <2>1. PICK q : /\ Set(r, q) /\ Same(q, p)
                 /\ q.lost = TRUE \/ q.lost = p.lost
    BY <1>2, SendSetSound
  <2>2. \A s \in Sessions : Holds(q, s) => Holds(p, s)
    BY <1>2, <2>1 DEF SendSet, Holds, Same
  <2>3. ServerStep /\ rotations' = rotations
    BY <1>2, SendSetServer DEF SendSet, history
  <2> QED  BY <2>1, <2>2, <2>3, ExchangesStay
<1>3. CASE ResumeSet(r)
  <2> DEFINE q == Revoked([p EXCEPT !.ok = FALSE])
  <2>1. /\ Set(r, q)
        /\ \/ p.op = "guarded" /\ Same(q, p)
           \/ q = Idle
           \/ p.op = "refresh" /\ Same(q, p) /\ q.lost = p.lost
    BY <1>3, ResumeSetSound
  <2>2. p.stage = "stored"  BY <1>3 DEF ResumeSet
  <2> HIDE DEF q
  <2>3. \A s \in Sessions : Holds(q, s) => Holds(p, s)
    BY <2>1, <2>2, IdleHolds DEF Holds, Same
  <2>4. ServerStep /\ rotations' = rotations
    BY <1>3 DEF ResumeSet, ServerStep, server
  <2> QED  BY <2>1, <2>3, <2>4, ExchangesStay
<1> QED  BY <1>1, <1>2, <1>3

\* An exchange uses up one of those who held the token.
LEMMA IssueRotation ==
    ASSUME TypeInv, RevokedInv, RotationInv, NEW r \in Requests, Issue(r)
    PROVE  RotationInv'
<1> DEFINE q == request[r]
<1>1. /\ Set(r, Idle) /\ ServerStep /\ count' = count /\ left' = left /\ now' = now
  BY DEF Issue, ServerStep, redis, server
<1>2. Sound(now, q) /\ q.stage = "issue"  BY DEF Issue, TypeInv
<1>3. \A s \in Sessions, x \in Requests : Holds(request'[x], s) => Holds(request[x], s)
  BY <1>1, SetEffect, IdleHolds
<1> SUFFICES ASSUME NEW s \in Sessions
             PROVE  ExchangeInv(count', left', now', request', rotations', s)
  BY DEF RotationInv
<1>4. ExchangeInv(count, left, now, request, rotations, s)  BY DEF RotationInv
<1>5. CASE rotations'[s] = rotations[s]
  BY <1>1, <1>3, <1>4, <1>5, ExchangeStays
<1>6. CASE /\ q.op = "refresh" /\ q.lost = FALSE /\ now < s.iat + RevokedLife
           /\ q.session = s /\ rotations'[s] = OneMore(rotations[s])
  <2>1. r \in Holders(request, s)
    BY <1>2, <1>6 DEF Holders, Holds
  <2>2. Holders(request', s) \in SUBSET (Holders(request, s) \ {r})
    BY <1>1, <1>3, SetEffect, IdleHolds DEF Holders
  <2>3. /\ IsFiniteSet(Holders(request, s) \ {r})
        /\ Cardinality(Holders(request, s) \ {r}) = Cardinality(Holders(request, s)) - 1
    BY <2>1, HoldersFinite, FS_RemoveElement
  <2>4. Cardinality(Holders(request', s)) <= Cardinality(Holders(request, s)) - 1
    BY <2>2, <2>3, FS_Subset
  <2>5. /\ Cardinality(Holders(request, s)) \in Nat
        /\ Cardinality(Holders(request', s)) \in Nat
    BY HoldersFinite
  <2>6. rotations[s] \in Nat /\ s.iat \in Nat /\ now \in Nat  BY RotationType
  <2>7. rotations[s] + Cardinality(Holders(request, s)) <= Cardinality(Requests)
    BY <1>4, <1>6 DEF ExchangeInv
  <2>8. rotations'[s] = rotations[s] + 1
    BY <1>6, <2>5, <2>6, <2>7, Numbers DEF OneMore
  <2>9. s.iat <= now /\ Dead(count, left, now, Token("refresh", s), s.iat + RevokedLife)
    <3>1. s.iat <= q.since /\ s.iat <= now /\ q.cookies = s
      BY <1>2, <1>6 DEF Sound
    <3>2. Dead(count, left, now, Token("refresh", s), q.since + RevokedLife)
      BY <1>2, <1>6, <3>1 DEF RevokedInv, Kept, Known
    <3>3. q.since \in Nat  BY <1>2, <2>6, RequestNumbers
    <3>4. left[Token("refresh", s)] \in Nat
      BY RotationType, Numbers DEF TypeInv, TypeOK, RedisType
    <3> HIDE DEF q
    <3> QED  BY <2>6, <3>1, <3>2, <3>3, <3>4, Numbers DEF Dead
  <2> HIDE DEF q
  <2> QED  BY <1>1, <2>4, <2>5, <2>6, <2>7, <2>8, <2>9, Numbers DEF ExchangeInv
<1>7. \/ rotations'[s] = rotations[s]
      \/ /\ q.op = "refresh" /\ q.lost = FALSE /\ now < s.iat + RevokedLife
         /\ q.session = s /\ rotations'[s] = OneMore(rotations[s])
  <2>1. q.lost \in BOOLEAN /\ q.session \in Sessions
    BY <1>2 DEF Sound, RequestType
  <2>2. rotations \in [Sessions -> 0 .. Cardinality(Requests) + 1]
    BY DEF TypeInv, TypeOK
  <2> QED  BY <2>1, <2>2 DEF Issue
<1> QED  BY <1>5, <1>6, <1>7

LEMMA RedisFailsRotation ==
    ASSUME TypeInv, RotationInv, RedisFails
    PROVE  RotationInv'
<1>1. CASE Outage({}) /\ UNCHANGED <<request, history>>
  <2>1. now' = now  BY DEF RedisFails
  <2>2. count' = count /\ left' = left
    BY <1>1 DEF Outage, Forget, TypeInv, TypeOK, RedisType
  <2> QED  BY <1>1, <2>1, <2>2 DEF RotationInv, history
<1>2. CASE rotations' = [s \in Sessions |-> 0]
  <2> SUFFICES ASSUME NEW s \in Sessions
               PROVE  ExchangeInv(count', left', now', request', rotations', s)
    BY DEF RotationInv
  <2>1. rotations'[s] = 0  BY <1>2
  <2>2. /\ Cardinality(Holders(request', s)) \in Nat
        /\ Cardinality(Holders(request', s)) <= Cardinality(Requests)
    BY HoldersFinite
  <2> QED  BY <2>1, <2>2, Numbers DEF ExchangeInv
<1> QED  BY <1>1, <1>2 DEF RedisFails

LEMMA NextRotation ==
    TypeInv /\ RevokedInv /\ RotationInv /\ [Next]_vars => RotationInv'
<1> SUFFICES ASSUME TypeInv, RevokedInv, RotationInv, [Next]_vars
             PROVE  RotationInv'
  OBVIOUS
<1>1. CASE Clock
  <2>1. ServerStep /\ rotations' = rotations /\ request' = request
    BY <1>1 DEF Clock, ServerStep, history
  <2> QED  BY <2>1, ExchangeStays DEF RotationInv
<1>2. CASE Crash
  <2>1. /\ ServerStep /\ rotations' = rotations
        /\ \A x \in Requests : request'[x] = Idle
    BY <1>2 DEF Crash, ServerStep, server, history
  <2> QED  BY <2>1, IdleHolds, ExchangeStays DEF RotationInv
<1>3. CASE RedisReturns
  BY <1>3 DEF RedisReturns, Recover, history, RotationInv
<1>4. CASE UNCHANGED vars
  BY <1>4 DEF vars, redis, server, RotationInv
<1> QED
  BY <1>1, <1>2, <1>3, <1>4, BeginRotation, SendGetRotation, HandledRotation,
     IssueRotation, RedisFailsRotation
  DEF Next

LEMMA InitRotation == Init => RotationInv
<1> SUFFICES ASSUME Init, NEW s \in Sessions
             PROVE  ExchangeInv(count, left, now, request, rotations, s)
  BY DEF RotationInv
<1>1. rotations[s] = 0  BY DEF Init
<1>2. /\ Cardinality(Holders(request, s)) \in Nat
      /\ Cardinality(Holders(request, s)) <= Cardinality(Requests)
  BY HoldersFinite
<1> QED  BY <1>1, <1>2, Numbers DEF ExchangeInv

LEMMA BoundedExchanges == RotationInv => RotationsBounded
BY DEF RotationInv, ExchangeInv, RotationsBounded

\* In the first RevokedLife of its life a refresh token is exchanged at most
\* once by each of the requests in flight together (AuthService.refresh), for
\* any number of them.
THEOREM ExchangedOnce == Spec => []RotationsBounded
<1>1. Init => IInv  BY InitType, InitRevoked, InitRotation DEF IInv
<1>2. IInv /\ [Next]_vars => IInv'
  BY NextType, NextRevoked, NextRotation DEF IInv
<1>3. IInv => RotationsBounded  BY BoundedExchanges DEF IInv
<1> QED  BY <1>1, <1>2, <1>3, PTL DEF Spec
=============================================================================
