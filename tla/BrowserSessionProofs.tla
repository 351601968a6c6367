------------------------ MODULE BrowserSessionProofs ------------------------
(***************************************************************************)
(* Proofs about BrowserSession, for any number of tabs, of calls in flight *)
(* and of lost messages.                                                   *)
(***************************************************************************)
EXTENDS BrowserSession, TLAPS

Answers == {"ok", "2fa", "401", "failed"}

-----------------------------------------------------------------------------
(* The inductive invariant.  A call that was applied has been answered and *)
(* is not sent again; only a refresh holds a cookie; and a refresh whose   *)
(* answer is good has passed the exchange.                                 *)

SoundCalls ==
    {q \in CallType :
        /\ q.applied <= 1
        /\ q.applied = 1 => q.stage = "sent" /\ q.answer \in {"ok", "failed"}
        /\ q.stage \in {"idle", "sent"} => q.cookie = "no"
        /\ q.stage = "refresh" => q.answer \in {"none", "failed"}}

\* The answer with the successor of the jar's refresh token is under way.
Carrying(q) == q.cookie = "jar" /\ q.stage = "rotating" /\ q.answer = "ok"

TypeInv ==
    /\ jar \in JarType /\ storage \in StorageType
    /\ tab \in [Tabs -> TabType]
    /\ call \in [CallIds -> SoundCalls]
    /\ upsets \in 0 .. MaxUpsets
NoneInv == jar.refresh = "none" => ~jar.access /\ \A c \in CallIds : call[c].cookie # "jar"
CarriedInv == jar.refresh = "replaced" => \E c \in CallIds : Carrying(call[c])

IInv == TypeInv /\ NoneInv /\ CarriedInv

-----------------------------------------------------------------------------
(* The operators.                                                          *)

LEMMA Blanks ==
    /\ NoCall \in SoundCalls /\ NoCall.cookie = "no"
    /\ NoCookies \in JarType /\ NewSession \in JarType
BY DEF NoCall, SoundCalls, CallType, Kinds, Forms, NoCookies, NewSession, JarType

LEMMA OutcomesKnown ==
    ASSUME NEW kind \in Kinds, NEW csrf, NEW j, NEW a \in Outcomes(kind, csrf, j)
    PROVE  a \in Answers
<1>1. CASE kind = "register"  BY <1>1 DEF Outcomes, Answers
<1>2. CASE kind = "verify"  BY <1>2 DEF Outcomes, Answers
<1>3. CASE kind = "login"  BY <1>3 DEF Outcomes, Answers
<1>4. CASE kind = "write" /\ ~csrf  BY <1>4 DEF Outcomes, Answers
<1>5. CASE kind \notin Forms /\ ~(kind = "write" /\ ~csrf)
  BY <1>5 DEF Outcomes, Answers, Forms
<1> QED  BY <1>1, <1>2, <1>3, <1>4, <1>5 DEF Forms

\* A call that was not applied yet may be sent, with any answer.
LEMMA SentSound ==
    ASSUME NEW q \in CallType, q.applied = 0, NEW a \in Answers
    PROVE  Sent(q, a) \in SoundCalls /\ Sent(q, a).cookie = "no"
<1>1. CASE Quiet(q, a)  BY <1>1, Blanks DEF Sent
<1>2. CASE ~Quiet(q, a)
  <2> DEFINE n == IF q.kind = "write" /\ a = "ok" THEN q.applied + 1 ELSE q.applied
  <2>1. n \in 0 .. 1 /\ (n = 1 => a = "ok")  OBVIOUS
  <2>2. Sent(q, a) = [q EXCEPT !.stage = "sent", !.answer = a, !.cookie = "no",
                              !.applied = n]
    BY <1>2 DEF Sent
  <2>3. n \in 0 .. 2  BY <2>1
  <2> HIDE DEF n
  <2>4. Sent(q, a) \in CallType  BY <2>2, <2>3 DEF CallType, Answers
  <2>5. /\ Sent(q, a).stage = "sent" /\ Sent(q, a).answer = a
        /\ Sent(q, a).cookie = "no" /\ Sent(q, a).applied = n
    BY <2>2 DEF CallType
  <2>6. n <= 1 /\ (n = 1 => a = "ok")  BY <2>1
  <2> HIDE DEF Answers
  <2> QED  BY <2>4, <2>5, <2>6 DEF SoundCalls
<1> QED  BY <1>1, <1>2

LEMMA NewCallSound ==
    ASSUME NEW t \in Tabs \cup {NoTab}, NEW kind \in Kinds, NEW a \in Answers
    PROVE  LET q == Sent([NoCall EXCEPT !.tab = t, !.kind = kind], a)
           IN q \in SoundCalls /\ q.cookie = "no"
<1> DEFINE q == [NoCall EXCEPT !.tab = t, !.kind = kind]
<1>1. q \in CallType /\ q.applied = 0  BY Blanks DEF NoCall, SoundCalls, CallType
<1> HIDE DEF q
<1>2. Sent(q, a) \in SoundCalls /\ Sent(q, a).cookie = "no"  BY <1>1, SentSound
<1> QED  BY <1>2 DEF q

LEMMA WithoutSound ==
    ASSUME NEW cs \in [CallIds -> SoundCalls], NEW gone
    PROVE  /\ Without(cs, gone) \in [CallIds -> SoundCalls]
           /\ \A c \in CallIds : Without(cs, gone)[c] = IF c \in gone THEN NoCall ELSE cs[c]
BY Blanks DEF Without

LEMMA KeptSound ==
    ASSUME NEW cs \in [CallIds -> SoundCalls]
    PROVE  /\ Kept(cs) \in [CallIds -> SoundCalls]
           /\ \A c \in CallIds : Kept(cs)[c].cookie # "jar"
<1>1. ASSUME NEW c \in CallIds
      PROVE  Kept(cs)[c] \in SoundCalls /\ Kept(cs)[c].cookie # "jar"
  <2>1. CASE cs[c].cookie # "jar"  BY <2>1 DEF Kept
  <2>2. CASE cs[c].cookie = "jar"
    <3> DEFINE k == IF jar.refresh = "good" THEN "good" ELSE "dead"
    <3>1. k \in {"good", "dead"}  OBVIOUS
    <3>2. Kept(cs)[c] = [cs[c] EXCEPT !.cookie = k]  BY <2>2 DEF Kept
    <3> HIDE DEF k
    <3>3. cs[c] \in SoundCalls  OBVIOUS
    <3> QED  BY <2>2, <3>1, <3>2, <3>3 DEF SoundCalls, CallType
  <2> QED  BY <2>1, <2>2
<1>2. DOMAIN Kept(cs) = CallIds /\ Kept(cs) = [c \in CallIds |-> Kept(cs)[c]]  BY DEF Kept
<1> QED  BY <1>1, <1>2

\* Runs of initialize take free places only, and hold no cookie.
LEMMA InitializedSound ==
    ASSUME NEW cs \in [CallIds -> SoundCalls], NEW t \in Tabs \cup {NoTab},
           NEW n, NEW store, NEW j, NEW x \in Initialized(cs, t, n, store, j)
    PROVE  /\ x \in [CallIds -> SoundCalls]
           /\ \A c \in CallIds : x[c] = cs[c] \/ (cs[c].stage = "idle" /\ x[c].cookie = "no")
<1>1. CASE ~store.user  BY <1>1 DEF Initialized
<1>2. CASE store.user
  <2> DEFINE Me == {Sent([NoCall EXCEPT !.tab = t, !.kind = "me"], a) :
                      a \in Outcomes("me", FALSE, j)}
  <2>1. \A m \in Me : m \in SoundCalls /\ m.cookie = "no"
    <3>1. "me" \in Kinds  BY DEF Kinds
    <3> QED  BY <3>1, OutcomesKnown, NewCallSound
  <2>2. PICK S \in SUBSET Free(cs) :
          x \in {[c \in CallIds |-> IF c \in S THEN q[c] ELSE cs[c]] : q \in [S -> Me]}
    BY <1>2 DEF Initialized
  <2> HIDE DEF Me
  <2>3. PICK q \in [S -> Me] : x = [c \in CallIds |-> IF c \in S THEN q[c] ELSE cs[c]]
    BY <2>2
  <2>4. \A c \in S : q[c] \in SoundCalls /\ q[c].cookie = "no" /\ cs[c].stage = "idle"
    BY <2>1, <2>2, <2>3 DEF Free
  <2> QED  BY <2>3, <2>4
<1> QED  BY <1>1, <1>2

\* What a logout leaves of cookies.
LEMMA LeftSound ==
    ASSUME NEW j \in JarType, NEW kind, NEW a
    PROVE  Left(kind, a, j) \in JarType /\ (Left(kind, a, j) = j \/ Left(kind, a, j).refresh = "over")
<1>1. CASE kind = "logout" /\ a = "ok"  BY <1>1 DEF Left, JarType
<1>2. CASE ~(kind = "logout" /\ a = "ok")  BY <1>2 DEF Left
<1> QED  BY <1>1, <1>2

LEMMA OverSound ==
    ASSUME NEW j \in JarType
    PROVE  Over(j) \in JarType /\ Over(j).refresh = "over"
BY DEF Over, JarType

-----------------------------------------------------------------------------
(* What steps have in common.                                              *)

\* Cookies that change become a good pair, or end; a call that changes holds
\* no cookie of the jar and was not the one that carries its successor.
LEMMA Frame ==
    ASSUME IInv,
           jar' \in JarType, storage' \in StorageType, tab' \in [Tabs -> TabType],
           upsets' \in 0 .. MaxUpsets, call' \in [CallIds -> SoundCalls],
           \/ jar'.refresh = jar.refresh /\ (jar'.access => jar.access)
           \/ jar'.refresh \in {"good", "over"},
           \A c \in CallIds : \/ call'[c] = call[c]
                              \/ call'[c].cookie # "jar" /\ ~Carrying(call[c])
    PROVE  IInv'
<1>1. TypeInv'  BY DEF TypeInv
<1>2. NoneInv'  BY DEF IInv, NoneInv, TypeInv, JarType
<1>3. CarriedInv'
  <2> SUFFICES ASSUME jar'.refresh = "replaced" PROVE \E c \in CallIds : Carrying(call'[c])
    BY DEF CarriedInv
  <2>1. jar.refresh = "replaced"  OBVIOUS
  <2>2. PICK c \in CallIds : Carrying(call[c])  BY <2>1 DEF IInv, CarriedInv
  <2>3. call'[c] = call[c]  BY <2>2
  <2> QED  BY <2>2, <2>3
<1> QED  BY <1>1, <1>2, <1>3 DEF IInv

\* New cookies, while no call holds those of the jar any more.
LEMMA NewCookies ==
    ASSUME IInv,
           jar' \in JarType, storage' \in StorageType, tab' \in [Tabs -> TabType],
           upsets' \in 0 .. MaxUpsets, call' \in [CallIds -> SoundCalls],
           jar' = NoCookies \/ jar'.refresh \in {"good", "over"},
           \A c \in CallIds : call'[c].cookie # "jar"
    PROVE  IInv'
BY DEF IInv, TypeInv, NoneInv, CarriedInv, NoCookies

\* The documents of a tab.
LEMMA DocumentSound ==
    ASSUME NEW page \in Pages, NEW store \in StorageType
    PROVE  Document(page, store) \in TabType
BY DEF Document, TabType, StorageType

LEMMA SetTabSound ==
    ASSUME tab \in [Tabs -> TabType], NEW t, NEW r, t \in Tabs => r \in TabType, SetTab(t, r)
    PROVE  tab' \in [Tabs -> TabType]
BY DEF SetTab

\* A sound call that has no cookie of the jar, or has one but no good answer,
\* does not carry a successor; one with the cookie and a good answer does.
LEMMA WhoCarries ==
    ASSUME NEW q \in SoundCalls
    PROVE  /\ q.cookie = "jar" /\ q.answer = "ok" => Carrying(q)
           /\ q.stage \in {"idle", "sent"} => q.cookie = "no" /\ ~Carrying(q)
BY DEF SoundCalls, CallType, Carrying

\* Initialize runs after calls were changed to cs.
LEMMA InitializedFrame ==
    ASSUME IInv, NEW cs \in [CallIds -> SoundCalls], NEW t \in Tabs \cup {NoTab}, NEW n,
           NEW store, NEW j, NEW x \in Initialized(cs, t, n, store, j)
    PROVE  /\ x \in [CallIds -> SoundCalls]
           /\ \A c \in CallIds : /\ cs[c].stage # "idle" => x[c] = cs[c]
                                 /\ x[c] = cs[c] \/ x[c].cookie = "no"
BY InitializedSound

-----------------------------------------------------------------------------
(* The actions.                                                            *)

LEMMA LeaveStep ==
    ASSUME IInv, NEW t \in Tabs \cup {NoTab}, NEW page \in Pages, NEW store \in StorageType,
           Leave(t, page, store), storage' \in StorageType, upsets' \in 0 .. MaxUpsets
    PROVE  IInv'
<1> DEFINE cs == Without(call, Of(t))
<1>0. call \in [CallIds -> SoundCalls] /\ jar \in JarType /\ tab \in [Tabs -> TabType]
  BY DEF IInv, TypeInv
<1>1. /\ cs \in [CallIds -> SoundCalls]
      /\ \A c \in CallIds : cs[c] = IF c \in Of(t) THEN NoCall ELSE call[c]
  BY <1>0, WithoutSound
<1>2. call' \in Initialized(cs, t, Mounts(page), store, jar)  BY DEF Leave
<1> HIDE DEF cs
<1>3. /\ call' \in [CallIds -> SoundCalls]
      /\ \A c \in CallIds : /\ cs[c].stage # "idle" => call'[c] = cs[c]
                            /\ call'[c] = cs[c] \/ call'[c].cookie = "no"
  BY <1>1, <1>2, InitializedFrame
<1>4. tab' \in [Tabs -> TabType]  BY <1>0, DocumentSound DEF Leave
<1>5. \A c \in CallIds : call'[c] = call[c] \/ call'[c].cookie = "no"
  BY <1>1, <1>3, Blanks
<1>6. CASE jar' = jar /\ jar.refresh # "replaced"
  <2>1. NoneInv'  BY <1>5, <1>6 DEF IInv, NoneInv
  <2>2. CarriedInv'  BY <1>6 DEF CarriedInv
  <2>3. TypeInv'  BY <1>0, <1>3, <1>4, <1>6 DEF TypeInv
  <2> QED  BY <2>1, <2>2, <2>3 DEF IInv
<1>7. CASE jar' = Over(jar)
  <2>1. jar' \in JarType /\ jar'.refresh = "over"  BY <1>0, <1>7, OverSound
  <2> QED  BY <1>3, <1>4, <2>1 DEF IInv, TypeInv, NoneInv, CarriedInv
<1>8. CASE jar' = jar /\ \E c \in CallIds \ Of(t) : call[c].cookie = "jar" /\ call[c].answer = "ok"
  <2>1. PICK c \in CallIds \ Of(t) : call[c].cookie = "jar" /\ call[c].answer = "ok"
    BY <1>8
  <2>2. Carrying(call[c])  BY <1>0, <2>1, WhoCarries
  <2>3. call'[c] = call[c]  BY <1>1, <1>3, <2>1, <2>2 DEF Carrying
  <2>4. CarriedInv'  BY <2>2, <2>3 DEF CarriedInv
  <2>5. NoneInv'  BY <1>5, <1>8 DEF IInv, NoneInv
  <2>6. TypeInv'  BY <1>0, <1>3, <1>4, <1>8 DEF TypeInv
  <2> QED  BY <2>4, <2>5, <2>6 DEF IInv
<1> QED  BY <1>6, <1>7, <1>8 DEF Leave

LEMMA RouteStep ==
    ASSUME IInv, NEW t \in Tabs, Route(t)
    PROVE  IInv'
<1>0. call \in [CallIds -> SoundCalls] /\ jar \in JarType /\ tab \in [Tabs -> TabType]
  BY DEF IInv, TypeInv
<1>1. /\ \E page \in Pages : SetTab(t, [tab[t] EXCEPT !.page = page, !.mfa = FALSE])
      /\ \E n \in {1, 2} : call' \in Initialized(call, t, n, storage, jar)
      /\ UNCHANGED <<jar, storage, upsets>>
  BY DEF Route, Pages
<1>2. tab' \in [Tabs -> TabType]  BY <1>0, <1>1, SetTabSound DEF TabType
<1>3. /\ call' \in [CallIds -> SoundCalls]
      /\ \A c \in CallIds : call'[c] = call[c] \/ (call[c].stage = "idle" /\ call'[c].cookie = "no")
  BY <1>0, <1>1, InitializedSound
<1>4. \A c \in CallIds : call'[c] = call[c] \/ (call'[c].cookie # "jar" /\ ~Carrying(call[c]))
  BY <1>3 DEF Carrying
<1>5. storage' \in StorageType /\ upsets' \in 0 .. MaxUpsets  BY <1>1 DEF IInv, TypeInv
<1> QED  BY <1>0, <1>1, <1>2, <1>3, <1>4, <1>5, Frame

LEMMA GoBackStep ==
    ASSUME IInv, NEW t \in Tabs, GoBack(t)
    PROVE  IInv'
<1>0. call \in [CallIds -> SoundCalls] /\ jar \in JarType /\ tab \in [Tabs -> TabType]
      /\ storage \in StorageType
  BY DEF IInv, TypeInv
<1>1. /\ \/ SetTab(t, [tab[t] EXCEPT !.mfa = FALSE])
         \/ SetTab(t, [tab[t] EXCEPT !.page = "register"])
         \/ SetTab(t, [tab[t] EXCEPT !.page = "login", !.loading = @ /\ storage.user])
      /\ call' = call \/ call' \in Initialized(call, t, 1, storage, jar)
      /\ UNCHANGED <<jar, storage, upsets>>
  BY DEF GoBack
<1>2. tab' \in [Tabs -> TabType]
  BY <1>0, <1>1, SetTabSound DEF TabType, Pages, StorageType
<1>3. /\ call' \in [CallIds -> SoundCalls]
      /\ \A c \in CallIds : call'[c] = call[c] \/ (call[c].stage = "idle" /\ call'[c].cookie = "no")
  BY <1>0, <1>1, InitializedSound
<1>4. \A c \in CallIds : call'[c] = call[c] \/ (call'[c].cookie # "jar" /\ ~Carrying(call[c]))
  BY <1>3 DEF Carrying
<1>5. storage' \in StorageType /\ upsets' \in 0 .. MaxUpsets  BY <1>1 DEF IInv, TypeInv
<1> QED  BY <1>0, <1>1, <1>2, <1>3, <1>4, <1>5, Frame

\* Submit, Act and Poll.
LEMMA StartStep ==
    ASSUME IInv, NEW t \in Tabs, NEW kind \in Kinds, Start(t, kind)
    PROVE  IInv'
<1>0. call \in [CallIds -> SoundCalls] /\ jar \in JarType /\ storage \in StorageType
  BY DEF IInv, TypeInv
<1>1. PICK c \in Free(call), a \in Outcomes(kind, HasCsrf(kind), jar) :
        /\ call' = [call EXCEPT ![c] = Sent([NoCall EXCEPT !.tab = t, !.kind = kind], a)]
        /\ jar' = Left(kind, a, jar)
  BY DEF Start
<1>2. storage' = [storage EXCEPT !.csrf = HasCsrf(kind)] /\ UNCHANGED <<tab, upsets>>
  BY DEF Start
<1>3. a \in Answers  BY OutcomesKnown
<1> DEFINE q == Sent([NoCall EXCEPT !.tab = t, !.kind = kind], a)
<1>4. q \in SoundCalls /\ q.cookie = "no"  BY <1>3, NewCallSound
<1>5. call' = [call EXCEPT ![c] = q]  BY <1>1
<1> HIDE DEF q
<1>6. c \in CallIds /\ call[c].stage = "idle"  BY DEF Free
<1>7. call' \in [CallIds -> SoundCalls]  BY <1>0, <1>4, <1>5
<1>8. \A d \in CallIds : call'[d] = call[d] \/ (call'[d].cookie # "jar" /\ ~Carrying(call[d]))
  BY <1>0, <1>4, <1>5, <1>6 DEF Carrying
<1>9. jar' \in JarType /\ (jar' = jar \/ jar'.refresh = "over")  BY <1>0, <1>1, LeftSound
<1>10. storage' \in StorageType
  <2>1. HasCsrf(kind) \in BOOLEAN
    BY <1>0 DEF HasCsrf, StorageType, JarType
  <2> QED  BY <1>0, <1>2, <2>1 DEF StorageType
<1>11. tab' \in [Tabs -> TabType] /\ upsets' \in 0 .. MaxUpsets  BY <1>2 DEF IInv, TypeInv
<1> QED  BY <1>7, <1>8, <1>9, <1>10, <1>11, Frame

LEMMA OpenStep ==
    ASSUME IInv, NEW t \in Tabs, Open(t)
    PROVE  IInv'
<1>1. PICK page \in Pages : Leave(t, page, storage)  BY DEF Open
<1>2. storage \in StorageType /\ storage' \in StorageType  BY DEF Open, IInv, TypeInv
<1>3. upsets' \in 0 .. MaxUpsets  BY SessionAssumption DEF Open, IInv, TypeInv
<1> QED  BY <1>1, <1>2, <1>3, LeaveStep

LEMMA ServeStep ==
    ASSUME IInv, NEW c \in CallIds, Serve(c)
    PROVE  IInv'
<1> DEFINE q == call[c]
<1>0. /\ call \in [CallIds -> SoundCalls] /\ jar \in JarType /\ q \in SoundCalls
      /\ q.answer = "none"
  BY DEF IInv, TypeInv, Serve
<1>t. /\ storage' \in StorageType /\ tab' \in [Tabs -> TabType] /\ upsets' \in 0 .. MaxUpsets
  BY DEF Serve, IInv, TypeInv
<1>1. CASE q.stage = "refresh"
  <2>1. PICK r : /\ r = [q EXCEPT !.stage = "rotating"] \/ r = [q EXCEPT !.answer = "failed"]
                 /\ call' = [call EXCEPT ![c] = r]
    BY <1>1 DEF Serve
  <2>2. jar' = jar  BY <1>1 DEF Serve
  <2>3. r \in SoundCalls /\ r.cookie = q.cookie
    BY <1>0, <1>1, <2>1 DEF SoundCalls, CallType
  <2>4. call' \in [CallIds -> SoundCalls]  BY <1>0, <2>1, <2>3
  <2>5. \A d \in CallIds : d # c => call'[d] = call[d]  BY <1>0, <2>1
  <2>6. call'[c].cookie = call[c].cookie  BY <1>0, <2>1, <2>3
  <2>7. ~Carrying(call[c])  BY <1>0 DEF Carrying
  <2>8. NoneInv'  BY <2>2, <2>5, <2>6 DEF IInv, NoneInv
  <2>9. CarriedInv'  BY <2>2, <2>5, <2>7 DEF IInv, CarriedInv
  <2> QED  BY <1>t, <1>0, <2>2, <2>4, <2>8, <2>9 DEF IInv, TypeInv
<1>2. CASE q.stage = "rotating"
  <2>1. PICK S \in SUBSET {d \in CallIds \ {c} : q.cookie = "good" /\ call[d].cookie = "good"} :
          call' = [d \in CallIds |->
                     IF d = c THEN [q EXCEPT !.answer = "ok"]
                     ELSE IF d \in S THEN [call[d] EXCEPT !.cookie = "dead"] ELSE call[d]]
    BY <1>2 DEF Serve
  <2>2. jar' = IF q.cookie = "jar" THEN [jar EXCEPT !.refresh = "replaced"] ELSE jar
    BY <1>2 DEF Serve
  <2>3. /\ [q EXCEPT !.answer = "ok"] \in SoundCalls
        /\ [q EXCEPT !.answer = "ok"].cookie = q.cookie
        /\ [q EXCEPT !.answer = "ok"].stage = "rotating" /\ [q EXCEPT !.answer = "ok"].answer = "ok"
    BY <1>0, <1>2 DEF SoundCalls, CallType
  <2>4. \A d \in S : /\ [call[d] EXCEPT !.cookie = "dead"] \in SoundCalls
                     /\ [call[d] EXCEPT !.cookie = "dead"].cookie = "dead"
    BY <1>0, <2>1 DEF SoundCalls, CallType
  <2>5. call' \in [CallIds -> SoundCalls]  BY <1>0, <2>1, <2>3, <2>4
  <2>6. call'[c].cookie = call[c].cookie /\ call'[c].stage = "rotating" /\ call'[c].answer = "ok"
    BY <2>1, <2>3
  <2>7. \A d \in CallIds : d # c => \/ call'[d] = call[d]
                                    \/ call[d].cookie = "good" /\ call'[d].cookie = "dead"
    <3> SUFFICES ASSUME NEW d \in CallIds, d # c
        PROVE  \/ call'[d] = call[d]
               \/ call[d].cookie = "good" /\ call'[d].cookie = "dead"
      OBVIOUS
    <3>1. CASE d \in S
      <4>1. call'[d] = [call[d] EXCEPT !.cookie = "dead"]  BY <2>1, <3>1
      <4>2. call'[d].cookie = "dead"  BY <2>4, <3>1, <4>1
      <4>3. call[d].cookie = "good"  BY <2>1, <3>1
      <4> QED  BY <4>2, <4>3
    <3>2. CASE d \notin S  BY <2>1, <3>2
    <3> QED  BY <3>1, <3>2
  <2>8. jar' \in JarType  BY <1>0, <2>2 DEF JarType
  <2>9. TypeInv'  BY <1>t, <2>5, <2>8 DEF TypeInv
  <2>10. CASE q.cookie = "jar"
    <3>1. jar'.refresh = "replaced"  BY <1>0, <2>2, <2>10 DEF JarType
    <3>2. Carrying(call'[c])  BY <2>6, <2>10 DEF Carrying
    <3> QED  BY <2>9, <3>1, <3>2 DEF IInv, NoneInv, CarriedInv
  <2>11. CASE q.cookie # "jar"
    <3>1. jar' = jar  BY <2>2, <2>11
    <3>2. NoneInv'  BY <2>6, <2>7, <3>1 DEF IInv, NoneInv
    <3>3. \A d \in CallIds : Carrying(call[d]) => call'[d] = call[d]
      BY <2>7, <2>11 DEF Carrying
    <3>4. CarriedInv'  BY <3>1, <3>3 DEF IInv, CarriedInv
    <3> QED  BY <2>9, <3>2, <3>4 DEF IInv
  <2> QED  BY <2>10, <2>11
<1> QED  BY <1>1, <1>2 DEF Serve

LEMMA LoseStep ==
    ASSUME IInv, NEW c \in CallIds, Lose(c)
    PROVE  IInv'
<1> DEFINE r == [call[c] EXCEPT !.answer = "failed"]
<1>0. /\ call \in [CallIds -> SoundCalls] /\ jar \in JarType
      /\ storage' \in StorageType /\ tab' \in [Tabs -> TabType]
  BY DEF Lose, IInv, TypeInv
<1>1. upsets' \in 0 .. MaxUpsets  BY SessionAssumption DEF Lose, IInv, TypeInv
<1>2. call' = [call EXCEPT ![c] = r]  BY DEF Lose
<1>3. r \in SoundCalls /\ r.cookie = call[c].cookie
  BY <1>0 DEF Lose, SoundCalls, CallType
<1> HIDE DEF r
<1>4. call' \in [CallIds -> SoundCalls]  BY <1>0, <1>2, <1>3
<1>5. \A d \in CallIds : call'[d].cookie = call[d].cookie /\ (d # c => call'[d] = call[d])
  BY <1>0, <1>2, <1>3
<1>6. CASE call[c].cookie = "jar"
  <2>1. jar' = Over(jar)  BY <1>6 DEF Lose
  <2>2. jar' \in JarType /\ jar'.refresh = "over"  BY <1>0, <2>1, OverSound
  <2> QED  BY <1>0, <1>1, <1>4, <2>2 DEF IInv, TypeInv, NoneInv, CarriedInv
<1>7. CASE call[c].cookie # "jar"
  <2>1. jar' = jar  BY <1>7 DEF Lose
  <2>2. NoneInv'  BY <1>5, <2>1 DEF IInv, NoneInv
  <2>3. CarriedInv'  BY <1>5, <1>7, <2>1 DEF IInv, CarriedInv, Carrying
  <2> QED  BY <1>0, <1>1, <1>4, <2>1, <2>2, <2>3 DEF IInv, TypeInv
<1> QED  BY <1>6, <1>7

LEMMA ExpireStep ==
    ASSUME IInv, Expire
    PROVE  IInv'
<1>0. jar \in JarType  BY DEF IInv, TypeInv
<1>1. /\ jar' \in JarType
      /\ \/ jar'.refresh = jar.refresh /\ ~jar'.access
         \/ jar'.refresh = "over"
  <2>1. CASE jar.access /\ jar' = [jar EXCEPT !.access = FALSE]
    BY <1>0, <2>1 DEF JarType
  <2>2. CASE jar' = [access |-> FALSE, refresh |-> "over"]
    BY <2>2 DEF JarType
  <2> QED  BY <2>1, <2>2 DEF Expire
<1>2. UNCHANGED <<storage, tab, call, upsets>>  BY DEF Expire
<1>3. /\ storage' \in StorageType /\ tab' \in [Tabs -> TabType] /\ upsets' \in 0 .. MaxUpsets
      /\ call' \in [CallIds -> SoundCalls]
  BY <1>2 DEF IInv, TypeInv
<1>4. \A c \in CallIds : call'[c] = call[c]  BY <1>2
<1> QED  BY <1>1, <1>3, <1>4, Frame

-----------------------------------------------------------------------------
(* Receive.                                                                *)

LEMMA FinishKeeps ==
    ASSUME IInv, NEW c \in CallIds, call[c].stage = "sent", Finish(c)
    PROVE  /\ call' \in [CallIds -> SoundCalls]
           /\ \A d \in CallIds : \/ call'[d] = call[d]
                                 \/ call'[d].cookie # "jar" /\ ~Carrying(call[d])
<1>1. call \in [CallIds -> SoundCalls]  BY DEF IInv, TypeInv
<1>2. call' = Without(call, {c})  BY DEF Finish
<1>3. /\ call' \in [CallIds -> SoundCalls]
      /\ \A d \in CallIds : call'[d] = IF d \in {c} THEN NoCall ELSE call[d]
  BY <1>1, <1>2, WithoutSound
<1>4. call'[c] = NoCall /\ \A d \in CallIds : d # c => call'[d] = call[d]  BY <1>3
<1>5. call'[c].cookie # "jar"  BY <1>4, Blanks
<1>6. ~Carrying(call[c])  BY DEF Carrying
<1> QED  BY <1>3, <1>4, <1>5, <1>6

LEMMA RefreshStep ==
    ASSUME IInv, NEW c \in CallIds, Retriable(call[c]), Refresh(c), upsets' = upsets
    PROVE  IInv'
<1> DEFINE k == IF jar = NoCookies THEN "dead" ELSE "jar"
           r == [call[c] EXCEPT !.stage = "refresh", !.answer = "none",
                                !.retried = TRUE, !.cookie = k]
<1>0. call \in [CallIds -> SoundCalls] /\ UNCHANGED <<jar, storage, tab>>
  BY DEF Refresh, IInv, TypeInv
<1>1. call' = [call EXCEPT ![c] = r]  BY <1>0 DEF Refresh
<1>2. k \in {"dead", "jar"} /\ (k = "jar" => jar # NoCookies)  OBVIOUS
<1>3. call[c] \in SoundCalls /\ call[c].stage = "sent" /\ call[c].answer = "401"
  BY <1>0 DEF Retriable
<1> HIDE DEF k
<1>4. call[c].applied = 0  BY <1>3 DEF SoundCalls, CallType
<1>5. r \in CallType /\ r.applied = 0 /\ r.stage = "refresh" /\ r.answer = "none" /\ r.cookie = k
  BY <1>2, <1>3, <1>4 DEF SoundCalls, CallType
<1> HIDE DEF r
<1>6. r \in SoundCalls  BY <1>5 DEF SoundCalls
<1>7. call' \in [CallIds -> SoundCalls]  BY <1>0, <1>1, <1>6
<1>8. call'[c].cookie = k /\ \A d \in CallIds : d # c => call'[d] = call[d]
  BY <1>0, <1>1, <1>5
<1>9. NoneInv'
  <2>1. jar.refresh = "none" => jar = NoCookies
    BY DEF IInv, TypeInv, NoneInv, JarType, NoCookies
  <2> QED  BY <1>0, <1>2, <1>8, <2>1 DEF IInv, NoneInv
<1>10. CarriedInv'
  BY <1>0, <1>3, <1>8 DEF IInv, CarriedInv, Carrying
<1> QED  BY <1>0, <1>7, <1>9, <1>10 DEF IInv, TypeInv

LEMMA RetryStep ==
    ASSUME IInv, NEW c \in CallIds, call[c].stage # "sent", Retry(c), upsets' = upsets
    PROVE  IInv'
<1>0. call \in [CallIds -> SoundCalls] /\ storage \in StorageType  BY DEF IInv, TypeInv
<1>1. PICK a \in Outcomes(call[c].kind, TRUE, NewSession) :
        /\ call' = [Kept(call) EXCEPT ![c] = Sent(call[c], a)]
        /\ jar' = Left(call[c].kind, a, NewSession)
  BY DEF Retry
<1>2. call[c] \in CallType /\ call[c].applied = 0 /\ call[c].kind \in Kinds
  BY <1>0 DEF SoundCalls, CallType
<1>3. a \in Answers  BY <1>2, OutcomesKnown
<1>4. Sent(call[c], a) \in SoundCalls /\ Sent(call[c], a).cookie = "no"
  BY <1>2, <1>3, SentSound
<1>5. /\ Kept(call) \in [CallIds -> SoundCalls]
      /\ \A d \in CallIds : Kept(call)[d].cookie # "jar"
  BY <1>0, KeptSound
<1>6. call' \in [CallIds -> SoundCalls]  BY <1>1, <1>4, <1>5
<1>7. \A d \in CallIds : call'[d].cookie # "jar"  BY <1>1, <1>4, <1>5
<1>8. jar' \in JarType /\ jar'.refresh \in {"good", "over"}
  BY <1>1, Blanks, LeftSound DEF NewSession
<1>9. storage' = [storage EXCEPT !.csrf = TRUE] /\ tab' = tab  BY DEF Retry
<1>10. storage' \in StorageType  BY <1>0, <1>9 DEF StorageType
<1>11. tab' \in [Tabs -> TabType] /\ upsets' \in 0 .. MaxUpsets  BY <1>9 DEF IInv, TypeInv
<1> QED  BY <1>6, <1>7, <1>8, <1>10, <1>11, NewCookies

LEMMA SignOutStep ==
    ASSUME IInv, NEW c \in CallIds, SignOut(c), upsets' = upsets
    PROVE  IInv'
<1>1. call[c].tab \in Tabs \cup {NoTab}  BY DEF IInv, TypeInv, SoundCalls, CallType
<1>2. storage' \in StorageType  BY DEF SignOut, StoreAll, StorageType
<1>3. "login" \in Pages  BY DEF Pages
<1>4. upsets' \in 0 .. MaxUpsets  BY DEF IInv, TypeInv
<1> QED  BY <1>1, <1>2, <1>3, <1>4, LeaveStep DEF SignOut

LEMMA KnownStep ==
    ASSUME IInv, NEW c \in CallIds, call[c].stage = "sent", Known(c), upsets' = upsets
    PROVE  IInv'
<1> DEFINE t == call[c].tab
<1>1. storage' \in StorageType  BY DEF Known, IInv, TypeInv, StorageType
<1>2. /\ call' \in [CallIds -> SoundCalls]
      /\ \A d \in CallIds : \/ call'[d] = call[d]
                            \/ call'[d].cookie # "jar" /\ ~Carrying(call[d])
  BY FinishKeeps DEF Known
<1>3. \/ SetTab(t, SignedIn(tab[t]))
      \/ SetTab(t, SignedOut(tab[t]))
  BY DEF Known
<1>4. tab \in [Tabs -> TabType] /\ upsets' \in 0 .. MaxUpsets /\ jar' = jar /\ jar \in JarType
  BY DEF Known, IInv, TypeInv
<1> HIDE DEF t
<1>5. tab' \in [Tabs -> TabType]
  BY <1>3, <1>4, SetTabSound DEF SignedIn, SignedOut, TabType
<1> QED  BY <1>1, <1>2, <1>4, <1>5, Frame

LEMMA LoggedOutStep ==
    ASSUME IInv, NEW c \in CallIds, call[c].stage = "sent", LoggedOut(c), upsets' = upsets
    PROVE  IInv'
<1> DEFINE t == call[c].tab
<1>1. storage' \in StorageType  BY DEF LoggedOut, StoreAll, StorageType
<1>2. SetTab(t, SignedOut(tab[t]))  BY DEF LoggedOut
<1>3. /\ tab \in [Tabs -> TabType] /\ upsets' \in 0 .. MaxUpsets /\ jar \in JarType
      /\ call \in [CallIds -> SoundCalls]
  BY DEF IInv, TypeInv
<1> HIDE DEF t
<1>4. tab' \in [Tabs -> TabType]
  BY <1>2, <1>3, SetTabSound DEF SignedOut, TabType
<1>5. CASE call[c].answer = "ok"
  <2>1. jar' = NoCookies /\ call' = Without(Kept(call), {c})  BY <1>5 DEF LoggedOut
  <2>2. /\ Kept(call) \in [CallIds -> SoundCalls]
        /\ \A d \in CallIds : Kept(call)[d].cookie # "jar"
    BY <1>3, KeptSound
  <2>3. call' \in [CallIds -> SoundCalls] /\ \A d \in CallIds : call'[d].cookie # "jar"
    BY <2>1, <2>2, WithoutSound, Blanks
  <2> QED  BY <1>1, <1>3, <1>4, <2>1, <2>3, Blanks, NewCookies
<1>6. CASE call[c].answer # "ok"
  <2>1. jar' = jar /\ Finish(c)  BY <1>6 DEF LoggedOut
  <2>2. /\ call' \in [CallIds -> SoundCalls]
        /\ \A d \in CallIds : \/ call'[d] = call[d]
                              \/ call'[d].cookie # "jar" /\ ~Carrying(call[d])
    BY <2>1, FinishKeeps
  <2> QED  BY <1>1, <1>3, <1>4, <2>1, <2>2, Frame
<1> QED  BY <1>5, <1>6

LEMMA WelcomeStep ==
    ASSUME IInv, NEW c \in CallIds, Welcome(c), upsets' = upsets
    PROVE  IInv'
<1> DEFINE t == call[c].tab  cs == Without(Kept(call), {c})
<1>1. storage' \in StorageType  BY DEF Welcome, StoreAll, StorageType
<1>2. /\ tab \in [Tabs -> TabType] /\ upsets' \in 0 .. MaxUpsets
      /\ call \in [CallIds -> SoundCalls]
  BY DEF IInv, TypeInv
<1>3. t \in Tabs \cup {NoTab}  BY <1>2 DEF SoundCalls, CallType
<1>4. \/ SetTab(t, [SignedIn(tab[t]) EXCEPT !.page = "dashboard"])
      \/ SetTab(t, [SignedIn(tab[t]) EXCEPT !.page = @])
  BY DEF Welcome
<1>5. jar' = NewSession /\ (call' = cs \/ call' \in Initialized(cs, t, 1, storage', jar'))
  BY DEF Welcome
<1> HIDE DEF t
<1>6. tab' \in [Tabs -> TabType]
  BY <1>2, <1>4, SetTabSound DEF SignedIn, TabType, Pages
<1>7. /\ Kept(call) \in [CallIds -> SoundCalls]
      /\ \A d \in CallIds : Kept(call)[d].cookie # "jar"
  BY <1>2, KeptSound
<1>8. cs \in [CallIds -> SoundCalls] /\ \A d \in CallIds : cs[d].cookie # "jar"
  BY <1>7, WithoutSound, Blanks
<1> HIDE DEF cs
<1>9. call' \in [CallIds -> SoundCalls] /\ \A d \in CallIds : call'[d].cookie # "jar"
  BY <1>3, <1>5, <1>8, InitializedSound
<1>10. jar' \in JarType /\ jar'.refresh = "good"  BY <1>5, Blanks DEF NewSession
<1> QED  BY <1>1, <1>2, <1>6, <1>9, <1>10, NewCookies

LEMMA AskCodeStep ==
    ASSUME IInv, NEW c \in CallIds, call[c].stage = "sent", AskCode(c), upsets' = upsets
    PROVE  IInv'
<1> DEFINE t == call[c].tab
<1>1. /\ call' \in [CallIds -> SoundCalls]
      /\ \A d \in CallIds : \/ call'[d] = call[d]
                            \/ call'[d].cookie # "jar" /\ ~Carrying(call[d])
  BY FinishKeeps DEF AskCode
<1>2. /\ SetTab(t, [tab[t] EXCEPT !.mfa = TRUE])
      /\ UNCHANGED <<jar, storage>>
  BY DEF AskCode
<1>3. /\ tab \in [Tabs -> TabType] /\ upsets' \in 0 .. MaxUpsets
      /\ jar' \in JarType /\ storage' \in StorageType
  BY <1>2 DEF IInv, TypeInv
<1> HIDE DEF t
<1>4. tab' \in [Tabs -> TabType]  BY <1>2, <1>3, SetTabSound DEF TabType
<1> QED  BY <1>1, <1>2, <1>3, <1>4, Frame

LEMMA OtherStep ==
    ASSUME IInv, NEW c \in CallIds, call[c].stage = "sent", Finish(c),
           UNCHANGED <<jar, storage, tab, upsets>>
    PROVE  IInv'
<1>1. /\ call' \in [CallIds -> SoundCalls]
      /\ \A d \in CallIds : \/ call'[d] = call[d]
                            \/ call'[d].cookie # "jar" /\ ~Carrying(call[d])
  BY FinishKeeps
<1>2. /\ tab' \in [Tabs -> TabType] /\ upsets' \in 0 .. MaxUpsets
      /\ jar' \in JarType /\ storage' \in StorageType
  BY DEF IInv, TypeInv
<1> QED  BY <1>1, <1>2, Frame

LEMMA ReceiveStep ==
    ASSUME IInv, NEW c \in CallIds, Receive(c)
    PROVE  IInv'
<1> DEFINE q == call[c]
<1>0. upsets' = upsets  BY DEF Receive
<1>1. CASE Retriable(q) /\ Refresh(c)  BY <1>0, <1>1, RefreshStep
<1>2. CASE q.stage # "sent" /\ Retry(c)  BY <1>0, <1>2, RetryStep
<1>3. CASE SignOut(c)  BY <1>0, <1>3, SignOutStep
<1>4. CASE q.stage = "sent" /\ Known(c)  BY <1>0, <1>4, KnownStep
<1>5. CASE q.stage = "sent" /\ LoggedOut(c)  BY <1>0, <1>5, LoggedOutStep
<1>6. CASE Welcome(c)  BY <1>0, <1>6, WelcomeStep
<1>7. CASE q.stage = "sent" /\ AskCode(c)  BY <1>0, <1>7, AskCodeStep
<1>8. CASE q.stage = "sent" /\ Finish(c) /\ UNCHANGED <<jar, storage, tab>>
  BY <1>0, <1>8, OtherStep
<1> QED  BY <1>1, <1>2, <1>3, <1>4, <1>5, <1>6, <1>7, <1>8 DEF Receive

-----------------------------------------------------------------------------
(* The invariant holds.                                                    *)

LEMMA Initially == SessionInit => IInv
<1> SUFFICES ASSUME SessionInit PROVE IInv  OBVIOUS
<1>1. jar = NoCookies /\ jar \in JarType  BY Blanks DEF SessionInit
<1>2. storage \in StorageType  BY DEF SessionInit, StorageType
<1>3. tab \in [Tabs -> TabType]
  <2>1. "login" \in Pages  BY DEF Pages
  <2> QED  BY <1>2, <2>1, DocumentSound DEF SessionInit
<1>4. call \in [CallIds -> SoundCalls] /\ \A c \in CallIds : call[c].cookie = "no"
  BY Blanks DEF SessionInit
<1>5. upsets \in 0 .. MaxUpsets  BY SessionAssumption DEF SessionInit
<1>6. NoneInv  BY <1>1, <1>4 DEF NoneInv, NoCookies
<1>7. CarriedInv  BY <1>1 DEF CarriedInv, NoCookies
<1> QED  BY <1>1, <1>2, <1>3, <1>4, <1>5, <1>6, <1>7 DEF IInv, TypeInv

LEMMA Preserved == IInv /\ [SessionNext]_sessionVars => IInv'
<1> SUFFICES ASSUME IInv, [SessionNext]_sessionVars PROVE IInv'  OBVIOUS
<1>1. ASSUME NEW t \in Tabs, Route(t) PROVE IInv'  BY <1>1, RouteStep
<1>2. ASSUME NEW t \in Tabs, GoBack(t) PROVE IInv'  BY <1>2, GoBackStep
<1>3. ASSUME NEW t \in Tabs, Poll(t) PROVE IInv'
  BY <1>3, StartStep DEF Poll, Kinds
<1>4. ASSUME NEW t \in Tabs, Open(t) PROVE IInv'  BY <1>4, OpenStep
<1>5. ASSUME NEW t \in Tabs, NEW kind \in Forms, Submit(t, kind) PROVE IInv'
  BY <1>5, StartStep DEF Submit, Kinds
<1>6. ASSUME NEW t \in Tabs, NEW kind \in {"write", "logout"}, Act(t, kind) PROVE IInv'
  BY <1>6, StartStep DEF Act, Kinds
<1>7. ASSUME NEW c \in CallIds, Serve(c) PROVE IInv'  BY <1>7, ServeStep
<1>8. ASSUME NEW c \in CallIds, Receive(c) PROVE IInv'  BY <1>8, ReceiveStep
<1>9. ASSUME NEW c \in CallIds, Lose(c) PROVE IInv'  BY <1>9, LoseStep
<1>10. CASE Expire  BY <1>10, ExpireStep
<1>11. CASE UNCHANGED sessionVars
  BY <1>11 DEF sessionVars, IInv, TypeInv, NoneInv, CarriedInv
<1> QED
  BY <1>1, <1>2, <1>3, <1>4, <1>5, <1>6, <1>7, <1>8, <1>9, <1>10, <1>11 DEF SessionNext

LEMMA Invariant == SessionSpec => []IInv
BY Initially, Preserved, PTL DEF SessionSpec

-----------------------------------------------------------------------------
(* The theorems.                                                           *)

\* Cookies, storage, tabs and calls keep their types, and a refresh that brings
\* the cookie of the jar finds one in it (services/api.ts, auth-store.ts).
THEOREM SessionTyped == SessionSpec => []SessionTypeOK
<1>1. IInv => SessionTypeOK
  <2> SUFFICES ASSUME IInv PROVE SessionTypeOK  OBVIOUS
  <2>1. call \in [CallIds -> CallType]  BY DEF IInv, TypeInv, SoundCalls
  <2> QED  BY <2>1 DEF IInv, TypeInv, NoneInv, SessionTypeOK
<1> QED  BY <1>1, Invariant, PTL

\* For any tabs, calls and losses: a call that the interceptor repeats after a
\* refresh was not carried out before (the response interceptor, services/api.ts).
THEOREM AtMostOnce == SessionSpec => []AppliedOnce
<1>1. IInv => AppliedOnce  BY DEF IInv, TypeInv, SoundCalls, AppliedOnce
<1> QED  BY <1>1, Invariant, PTL

\* For any tabs, calls and losses: the browser holds a refresh token that was
\* exchanged only while the answer with its successor is on its way to a tab
\* that will take it (POST /auth/refresh of the interceptor, services/api.ts).
THEOREM Successor == SessionSpec => []SuccessorComes
<1>1. IInv => SuccessorComes
  BY DEF IInv, CarriedInv, Carrying, SuccessorComes
<1> QED  BY <1>1, Invariant, PTL
=============================================================================
