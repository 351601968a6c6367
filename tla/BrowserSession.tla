--------------------------- MODULE BrowserSession ---------------------------
(***************************************************************************)
(* The session as the tabs of one browser see it: the cookies and          *)
(* localStorage they share, the store of each, the calls in flight with    *)
(* the interceptors of services/api.ts around them, and the routes that    *)
(* follow the store.  Of a pair of cookies only its state is kept: whether *)
(* the server takes its access token, and what became of the refresh token.*)
(***************************************************************************)
EXTENDS Naturals, FiniteSets

CONSTANTS
    Tabs, NoTab,
    CallIds,        \* bound: calls of the browser in flight together
    MaxUpsets       \* bound: messages lost and pages opened by hand

ASSUME SessionAssumption == NoTab \notin Tabs /\ MaxUpsets \in Nat

VARIABLES
    jar,        \* the httpOnly cookies of the browser
    storage,    \* localStorage: is there a user, is there a csrf_token
    tab,        \* per tab: its page, its store, the mfaToken of the login page
    call,       \* calls in flight
    upsets

sessionVars == <<jar, storage, tab, call, upsets>>

-----------------------------------------------------------------------------
\* A refresh token is good until it is replaced by an exchange; it is over when
\* the session ended, or when the answer of that exchange was lost.
JarType == [access : BOOLEAN, refresh : {"none", "good", "replaced", "over"}]
NoCookies == [access |-> FALSE, refresh |-> "none"]
NewSession == [access |-> TRUE, refresh |-> "good"]
Over(j) == [j EXCEPT !.refresh = "over"]

StorageType == [user : BOOLEAN, csrf : BOOLEAN]
Pages == {"login", "register", "dashboard"}
TabType == [page : Pages, auth : BOOLEAN, loading : BOOLEAN, mfa : BOOLEAN]

\* me: initialize; query: a GET of a page or the poll of the sidebar; write: a
\* POST, PUT, PATCH or DELETE of a page.
Forms == {"login", "verify", "register"}
Kinds == Forms \cup {"me", "query", "write", "logout"}

\* sent: the call itself; refresh, rotating: POST /auth/refresh, before and
\* after the server's look at the blacklist, with the cookie of the jar or one
\* that was in it.
CallType == [tab : Tabs \cup {NoTab}, kind : Kinds,
             stage : {"idle", "sent", "refresh", "rotating"},
             cookie : {"no", "jar", "good", "dead"}, retried : BOOLEAN,
             answer : {"none", "ok", "2fa", "401", "failed"}, applied : 0 .. 2]
NoCall == [tab |-> NoTab, kind |-> "query", stage |-> "idle", cookie |-> "no",
           retried |-> FALSE, answer |-> "none", applied |-> 0]

InFlight(c) == call[c].stage # "idle"
Of(t) == {c \in CallIds : call[c].tab = t}
Free(cs) == {c \in CallIds : cs[c].stage = "idle"}
Without(cs, gone) == [c \in CallIds |-> IF c \in gone THEN NoCall ELSE cs[c]]

\* The cookies of the jar are exchanged; a refresh in flight keeps its own.
Kept(cs) == [c \in CallIds |-> IF cs[c].cookie # "jar" THEN cs[c]
               ELSE [cs[c] EXCEPT !.cookie = IF jar.refresh = "good" THEN "good" ELSE "dead"]]

SetTab(t, r) == tab' = [tab EXCEPT ![t] = r]
SignedIn(r) == [r EXCEPT !.auth = TRUE, !.loading = FALSE]
SignedOut(r) == [r EXCEPT !.auth = FALSE, !.loading = FALSE]
StoreAll(b) == storage' = [user |-> b, csrf |-> b]

-----------------------------------------------------------------------------
(* Calls, documents and routes.                                            *)

\* What the server may answer to a call that brings j: login, verify-2fa and
\* register need no session; a write passes the CSRF check of the middleware
\* before get_current_user looks at the cookie; a good cookie may still meet a
\* 403, 404 or 5xx.
Outcomes(kind, csrf, j) ==
    CASE kind = "register" -> {"ok", "failed"}
      [] kind = "verify" -> {"ok", "401", "failed"}
      [] kind = "login" -> {"ok", "2fa", "401", "failed"}
      [] kind = "write" /\ ~csrf -> {"failed"}
      [] OTHER -> IF j.access THEN {"ok", "failed"} ELSE {"401"}

\* The way of a call to the server is part of the step that sends it; its
\* answer is under way until Receive, or is nothing to wait for when it would
\* change no more than what a page shows.
Quiet(q, a) ==
    CASE q.kind = "query" -> a # "401" \/ q.retried
      [] q.kind \in Forms -> a = "failed" \/ (a = "401" /\ q.retried)
      [] OTHER -> FALSE
Sent(q, a) ==
    IF Quiet(q, a) THEN NoCall
    ELSE [q EXCEPT !.stage = "sent", !.answer = a, !.cookie = "no",
                   !.applied = IF q.kind = "write" /\ a = "ok" THEN @ + 1 ELSE @]

\* A logout that is heard ends the session it brings.
Left(kind, a, j) ==
    IF kind = "logout" /\ a = "ok" THEN [access |-> FALSE, refresh |-> "over"] ELSE j

\* n runs of initialize: each is a GET /auth/me when storage has a user, else
\* there is nothing to load.
Initialized(cs, t, n, store, j) ==
    LET Me == {Sent([NoCall EXCEPT !.tab = t, !.kind = "me"], a) :
                 a \in Outcomes("me", FALSE, j)}
        Places == {S \in SUBSET Free(cs) : Cardinality(S) = n}
    IN IF ~store.user THEN {cs}
       ELSE UNION {{[c \in CallIds |-> IF c \in S THEN q[c] ELSE cs[c]] : q \in [S -> Me]} :
                     S \in Places}

\* A new document has an empty store; the page and Providers initialize it.
Document(page, store) ==
    [page |-> page, auth |-> FALSE, loading |-> store.user, mfa |-> FALSE]
Mounts(page) == IF page = "register" THEN 1 ELSE 2

\* Tab t leaves its document.  The server may have, or still get, the refresh it
\* sent, and nobody takes the cookies of the answer.
Leave(t, page, store) ==
    /\ tab' = [tab EXCEPT ![t] = Document(page, store)]
    /\ call' \in Initialized(Without(call, Of(t)), t, Mounts(page), store, jar)
    /\ \/ jar' = jar /\ jar.refresh # "replaced"
       \/ jar' = Over(jar) /\ \E c \in Of(t) : call[c].cookie = "jar"
       \/ /\ jar' = jar
          /\ \E c \in CallIds \ Of(t) : call[c].cookie = "jar" /\ call[c].answer = "ok"

\* The effects that follow the store: the layout sends away who is not
\* authenticated, the login page who is, and each page mounted initializes.
Route(t) ==
    /\ \/ /\ tab[t].page = "dashboard" /\ ~tab[t].loading /\ ~tab[t].auth
          /\ SetTab(t, [tab[t] EXCEPT !.page = "login", !.mfa = FALSE])
          /\ call' \in Initialized(call, t, 1, storage, jar)
       \/ /\ tab[t].page = "login" /\ tab[t].auth
          /\ SetTab(t, [tab[t] EXCEPT !.page = "dashboard", !.mfa = FALSE])
          /\ call' \in Initialized(call, t, 2, storage, jar)
    /\ UNCHANGED <<jar, storage, upsets>>

-----------------------------------------------------------------------------
(* What the user and the timers do.                                        *)

\* The request interceptor asks GET /auth/csrf for a token when the call is not
\* a GET and storage has none; that round trip is part of the step.
HasCsrf(kind) == storage.csrf \/ (kind # "query" /\ jar.access)
Start(t, kind) ==
    /\ \E c \in Free(call), a \in Outcomes(kind, HasCsrf(kind), jar) :
         /\ call' = [call EXCEPT ![c] = Sent([NoCall EXCEPT !.tab = t, !.kind = kind], a)]
         /\ jar' = Left(kind, a, jar)
    /\ storage' = [storage EXCEPT !.csrf = HasCsrf(kind)]
    /\ UNCHANGED <<tab, upsets>>

Shown(t) == tab[t].page = "dashboard" /\ tab[t].auth /\ ~tab[t].loading
Busy(t, kinds) == \E c \in Of(t) : call[c].kind \in kinds

\* The login page asks for the code instead while it has an mfa_token.
FormOn(t) ==
    IF tab[t].page = "login" /\ tab[t].mfa THEN "verify" ELSE tab[t].page

\* The forms are disabled while their call runs.
Submit(t, kind) == kind = FormOn(t) /\ ~Busy(t, Forms) /\ Start(t, kind)

\* "Back to sign in", and the links between the two forms.
GoBack(t) ==
    /\ \/ /\ tab[t].mfa
          /\ SetTab(t, [tab[t] EXCEPT !.mfa = FALSE])
          /\ UNCHANGED call
       \/ /\ tab[t].page = "login" /\ ~tab[t].mfa
          /\ SetTab(t, [tab[t] EXCEPT !.page = "register"])
          /\ UNCHANGED call
       \/ /\ tab[t].page = "register"
          /\ SetTab(t, [tab[t] EXCEPT !.page = "login", !.loading = @ /\ storage.user])
          /\ call' \in Initialized(call, t, 1, storage, jar)
    /\ UNCHANGED <<jar, storage, upsets>>

\* A form or button of a page, or the Logout button of the sidebar.
Act(t, kind) == Shown(t) /\ ~Busy(t, {"write", "logout"}) /\ Start(t, kind)

\* The sidebar asks for the number of alerts every 30 s, and pages load.
Poll(t) == Shown(t) /\ ~Busy(t, {"query"}) /\ Start(t, "query")

\* Reload, or an address typed.
Open(t) ==
    /\ upsets < MaxUpsets
    /\ upsets' = upsets + 1
    /\ \E page \in Pages : Leave(t, page, storage)
    /\ UNCHANGED storage

-----------------------------------------------------------------------------
(* The server and the network.                                             *)

\* refresh looks the token up in the blacklist, and in a later step puts it
\* there and issues the next.  Calls with other old cookies may bring the same.
Serve(c) ==
    LET q == call[c] IN
    /\ q.answer = "none"
    /\ \/ /\ q.stage = "refresh"
          /\ call' = [call EXCEPT ![c] =
               IF q.cookie = "good" \/ (q.cookie = "jar" /\ jar.refresh = "good")
               THEN [q EXCEPT !.stage = "rotating"] ELSE [q EXCEPT !.answer = "failed"]]
          /\ UNCHANGED jar
       \/ /\ q.stage = "rotating"
          /\ \E S \in SUBSET {d \in CallIds \ {c} : q.cookie = "good" /\ call[d].cookie = "good"} :
               call' = [d \in CallIds |->
                          IF d = c THEN [q EXCEPT !.answer = "ok"]
                          ELSE IF d \in S THEN [call[d] EXCEPT !.cookie = "dead"] ELSE call[d]]
          /\ jar' = IF q.cookie = "jar" THEN [jar EXCEPT !.refresh = "replaced"] ELSE jar
    /\ UNCHANGED <<storage, tab, upsets>>

\* A request or its answer is lost, and so are the cookies of the answer.
Lose(c) ==
    /\ InFlight(c) /\ call[c].answer # "failed"
    /\ upsets < MaxUpsets
    /\ upsets' = upsets + 1
    /\ call' = [call EXCEPT ![c].answer = "failed"]
    /\ jar' = IF call[c].cookie = "jar" THEN Over(jar) ELSE jar
    /\ UNCHANGED <<storage, tab>>

\* 30 minutes pass with the cookies in the jar; or 7 days do, or an admin
\* deactivates the user.
Expire ==
    /\ \/ jar.access /\ jar' = [jar EXCEPT !.access = FALSE]
       \/ jar.refresh = "good" /\ jar' = [access |-> FALSE, refresh |-> "over"]
    /\ UNCHANGED <<storage, tab, call, upsets>>

-----------------------------------------------------------------------------
(* The browser gets an answer.                                             *)

Finish(c) == call' = Without(call, {c})

RetriableAnyError(q) == q.stage = "sent" /\ q.answer \in {"401", "failed"} /\ ~q.retried

\* A 401 is answered with a refresh, once per call, whatever the call was.
Retriable(q) == q.stage = "sent" /\ q.answer = "401" /\ ~q.retried
Refresh(c) ==
    /\ call' = [call EXCEPT ![c].stage = "refresh", ![c].answer = "none",
                            ![c].retried = TRUE,
                            ![c].cookie = IF jar = NoCookies THEN "dead" ELSE "jar"]
    /\ UNCHANGED <<jar, storage, tab>>

RetryWithoutCookies(c) ==
    /\ \E a \in Outcomes(call[c].kind, TRUE, jar) :
         /\ call' = [call EXCEPT ![c] = Sent(call[c], a)]
         /\ jar' = Left(call[c].kind, a, jar)
    /\ storage' = [storage EXCEPT !.csrf = TRUE]
    /\ UNCHANGED tab

\* The exchange was answered: new cookies, a new csrf token, the call again.
Retry(c) ==
    /\ \E a \in Outcomes(call[c].kind, TRUE, NewSession) :
         /\ call' = [Kept(call) EXCEPT ![c] = Sent(call[c], a)]
         /\ jar' = Left(call[c].kind, a, NewSession)
    /\ storage' = [storage EXCEPT !.csrf = TRUE]
    /\ UNCHANGED tab

SignOutSilently(c) == StoreAll(FALSE) /\ Finish(c) /\ UNCHANGED <<jar, tab>>

\* Any other outcome of it: the storage is cleared and /login loaded anew.
SignOut(c) ==
    /\ StoreAll(FALSE)
    /\ Leave(call[c].tab, "login", storage')

\* A session that login, verify-2fa or register answered is taken over.
Welcome(c) ==
    LET t == call[c].tab  registered == call[c].kind = "register" IN
    /\ jar' = NewSession
    /\ StoreAll(TRUE)
    /\ SetTab(t, [SignedIn(tab[t]) EXCEPT !.page = IF registered THEN "dashboard" ELSE @])
    /\ IF registered THEN call' \in Initialized(Without(Kept(call), {c}), t, 1, storage', jar')
                     ELSE call' = Without(Kept(call), {c})

AskCode(c) ==
    /\ SetTab(call[c].tab, [tab[call[c].tab] EXCEPT !.mfa = TRUE])
    /\ Finish(c)
    /\ UNCHANGED <<jar, storage>>

KnownOrStuck(c) ==
    LET ok == call[c].answer = "ok"  t == call[c].tab IN
    /\ storage' = IF ok THEN [storage EXCEPT !.user = TRUE] ELSE storage
    /\ SetTab(t, IF ok THEN SignedIn(tab[t]) ELSE tab[t])
    /\ Finish(c)
    /\ UNCHANGED jar

\* initialize forgets the user whatever went wrong.
Known(c) ==
    LET ok == call[c].answer = "ok"  t == call[c].tab IN
    /\ storage' = IF ok THEN [storage EXCEPT !.user = TRUE] ELSE [user |-> FALSE, csrf |-> FALSE]
    /\ SetTab(t, IF ok THEN SignedIn(tab[t]) ELSE SignedOut(tab[t]))
    /\ Finish(c)
    /\ UNCHANGED jar

LoggedOutAlone(c) ==
    /\ StoreAll(FALSE)
    /\ SetTab(call[c].tab, SignedOut(tab[call[c].tab]))
    /\ jar' = IF call[c].answer = "ok" THEN NoCookies ELSE jar
    /\ Finish(c)

\* So does logout; a good answer of the server takes the cookies away.
LoggedOut(c) ==
    /\ StoreAll(FALSE)
    /\ SetTab(call[c].tab, SignedOut(tab[call[c].tab]))
    /\ IF call[c].answer = "ok" THEN jar' = NoCookies /\ call' = Without(Kept(call), {c})
                                ELSE UNCHANGED jar /\ Finish(c)

Receive(c) ==
    LET q == call[c] IN
    /\ InFlight(c) /\ q.answer # "none"
    /\ \/ Retriable(q) /\ Refresh(c)
       \/ q.stage # "sent" /\ q.answer = "ok" /\ Retry(c)
       \/ q.stage # "sent" /\ q.answer # "ok" /\ SignOut(c)
       \/ /\ q.stage = "sent" /\ ~Retriable(q)
          /\ \/ q.kind = "me" /\ Known(c)
             \/ q.kind = "logout" /\ LoggedOut(c)
             \/ q.kind \in Forms /\ q.answer = "ok" /\ Welcome(c)
             \/ q.kind \in Forms /\ q.answer = "2fa" /\ AskCode(c)
             \/ /\ q.kind \in {"query", "write"} \/ (q.kind \in Forms /\ q.answer \notin {"ok", "2fa"})
                /\ Finish(c) /\ UNCHANGED <<jar, storage, tab>>
    /\ UNCHANGED upsets

\* Nobody is signed in anywhere, and the tabs are opened on the login page.
SessionInit ==
    /\ jar = NoCookies
    /\ storage = [user |-> FALSE, csrf |-> FALSE]
    /\ tab = [t \in Tabs |-> Document("login", storage)]
    /\ call = [c \in CallIds |-> NoCall]
    /\ upsets = 0

SessionNext ==
    \/ \E t \in Tabs :
         \/ Route(t) \/ GoBack(t) \/ Poll(t) \/ Open(t)
         \/ \E kind \in Forms : Submit(t, kind)
         \/ \E kind \in {"write", "logout"} : Act(t, kind)
    \/ \E c \in CallIds : Serve(c) \/ Receive(c) \/ Lose(c)
    \/ Expire

\* Every call is answered or fails in the end, effects run, and timers fire.
SessionFairness ==
    /\ \A c \in CallIds : WF_sessionVars(Serve(c)) /\ WF_sessionVars(Receive(c))
    /\ \A t \in Tabs : SF_sessionVars(Route(t)) /\ SF_sessionVars(Poll(t))

SessionSpec == SessionInit /\ [][SessionNext]_sessionVars /\ SessionFairness

-----------------------------------------------------------------------------
(* Properties.                                                             *)

\* Every variable has its type, and a refresh that brings the cookie of the jar
\* finds one in it.
SessionTypeOK ==
    /\ jar \in JarType
    /\ jar.refresh = "none" => ~jar.access /\ \A c \in CallIds : call[c].cookie # "jar"
    /\ storage \in StorageType
    /\ tab \in [Tabs -> TabType]
    /\ call \in [CallIds -> CallType]
    /\ upsets \in 0 .. MaxUpsets

\* What a user asked for once is done at most once, whatever is lost, expires or
\* is exchanged on the way: a call is repeated only after a 401, and a 401 comes
\* before the handler (the response interceptor, services/api.ts).
AppliedOnce == \A c \in CallIds : call[c].applied <= 1

\* The browser keeps a refresh token that an exchange replaced only while the
\* answer with its successor is on its way to some tab, unless that answer is
\* lost (the interceptor's POST /auth/refresh sends and takes cookies).
SuccessorComes ==
    jar.refresh = "replaced" =>
        \E c \in CallIds : call[c].cookie = "jar" /\ call[c].stage = "rotating"
                           /\ call[c].answer = "ok"

\* The spinner of the dashboard always ends (initialize, auth-store.ts).
SpinnerEnds == \A t \in Tabs : tab[t].loading ~> ~tab[t].loading

\* When no session is left for good, no tab stays on a page of the dashboard,
\* those nobody touches included: the poll of the sidebar meets the 401 (api.ts,
\* layout.tsx and sidebar.tsx together).
Dead == /\ ~jar.access /\ jar.refresh # "good"
        /\ \A c \in CallIds : call[c].answer = "ok" => call[c].kind = "logout"
DeadSessionNoticed == \A t \in Tabs : <>[]Dead => []<>(~Shown(t))

\* auth-store.test.ts:77, "initialize restores a valid stored session via getMe":
\* a page that is being restored is not signed out while the refresh token is
\* good.  Violated with nothing lost: Providers and the page both initialize, the
\* two calls meet a 401 when the access token has expired, both exchange the one
\* refresh token, and the exchange the server refuses signs the user out.
ValidSessionRestored ==
    [][\A c \in CallIds :
         /\ call[c].stage = "refresh" /\ call[c].answer = "failed" /\ call'[c] # call[c]
         /\ tab[call[c].tab].loading
         => jar.refresh # "good"]_sessionVars

=============================================================================
