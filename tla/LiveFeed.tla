------------------------------ MODULE LiveFeed ------------------------------
(***************************************************************************)
(* The live traffic: broadcast puts every event into the bounded queue of  *)
(* each WebSocket, a task per WebSocket sends it on, and the pages /live   *)
(* and /attack-map show what comes through the socket of useWebSocket,     *)
(* which connects again when it is closed.  An event is its number in the  *)
(* order of the broadcasts.                                                *)
(***************************************************************************)
EXTENDS Integers, Sequences, FiniteSets

CONSTANTS
    Sockets, NoSocket,
    QueueSize,              \* 200
    MaxRetries,             \* 10
    KeepLive, KeepMap,      \* 100 and 12: the events a page keeps
    Addresses,              \* where a request object may lie in memory
    WireSize,               \* bound: messages between server and browser
    MaxEvents, MaxVisits, MaxFaults     \* bounds

ASSUME FeedAssumption ==
    /\ QueueSize \in Nat \ {0} /\ MaxRetries \in Nat
    /\ KeepLive \in Nat \ {0} /\ KeepMap \in Nat \ {0}
    /\ NoSocket \notin Sockets
    /\ WireSize \in Nat /\ MaxEvents \in Nat /\ MaxVisits \in Nat /\ MaxFaults \in Nat

VARIABLES
    published,  \* the ids of the events broadcast so far
    sock,       \* per WebSocket: what each side holds of it
    page,       \* the page that listens, and the refs of its useWebSocket
    visits, faults

feedVars == <<published, sock, page, visits, faults>>

-----------------------------------------------------------------------------
\* browser: readyState, none once onclose has run.  server: asked until the
\* token was looked at, accepted until the queue is registered, refused or gone
\* when the handler has returned.  mine: it belongs to the page mounted now.
\* got: the last event onmessage took, at first what was published on subscribing.
SockType == [browser : {"none", "connecting", "open", "closing"},
             server : {"gone", "asked", "refused", "accepted", "streaming"},
             up : BOOLEAN, mine : BOOLEAN,
             queue : Seq(Nat), wire : Seq(Nat), got : Nat]
NoConnection == [browser |-> "none", server |-> "gone", up |-> FALSE, mine |-> FALSE,
                 queue |-> <<>>, wire |-> <<>>, got |-> 0]
Asked == [NoConnection EXCEPT !.browser = "connecting", !.server = "asked",
                              !.up = TRUE, !.mine = TRUE]

\* ws is wsRef, timers the setTimeouts of onclose that wait.
PageType == [kind : {"none", "live", "map"}, ws : Sockets \cup {NoSocket},
             retries : Nat, timers : Nat, connected : BOOLEAN, authError : BOOLEAN,
             list : Seq(Nat)]
NoPage == [kind |-> "none", ws |-> NoSocket, retries |-> 0, timers |-> 0,
           connected |-> FALSE, authError |-> FALSE, list |-> <<>>]

Newest == Len(published)
Mine == {s \in Sockets : sock[s].mine}
Free == {s \in Sockets : sock[s].browser = "none" /\ sock[s].server = "gone"}
Set(s, r) == sock' = [sock EXCEPT ![s] = r]

\* A request has an id of its own; a blocked one is named for the address of its
\* request object, which a later one may have again.
Unique == 0
SameId(m, n) == published[m] = published[n] /\ published[n] # Unique

-----------------------------------------------------------------------------
(* The server.                                                             *)

DropNewest(q, n) == IF Len(q) < QueueSize THEN Append(q, n) ELSE q

\* A full queue gives up its oldest event for the new one.
Queued(q, n) == Append(IF Len(q) < QueueSize THEN q ELSE Tail(q), n)

Broadcast ==
    /\ Newest < MaxEvents
    /\ \E id \in Addresses \cup {Unique} : published' = Append(published, id)
    /\ sock' = [s \in Sockets |->
                  IF sock[s].server = "streaming"
                  THEN [sock[s] EXCEPT !.queue = Queued(@, Newest + 1)] ELSE sock[s]]
    /\ UNCHANGED <<page, visits, faults>>

\* The token is decoded once, when the browser asks: it may have expired.
Answer(s) ==
    /\ sock[s].server = "asked"
    /\ \E answer \in {"accepted", "refused"} : Set(s, [sock[s] EXCEPT !.server = answer])
    /\ UNCHANGED <<published, page, visits, faults>>

\* The browser may see the socket open before its queue is registered.
Register(s) ==
    /\ sock[s].server = "accepted"
    /\ Set(s, [sock[s] EXCEPT !.server = "streaming", !.queue = <<>>, !.got = Newest])
    /\ UNCHANGED <<published, page, visits, faults>>

Heard(s) == sock[s].up /\ sock[s].browser \in {"connecting", "open"}
LeaveRegistered(r) == r
Hangup(r) == [r EXCEPT !.server = "gone", !.queue = <<>>, !.wire = <<>>]

\* get and send_text: a message waits for a browser that reads slowly, and one
\* that nobody takes ends the handler.  A message that the handler holds between
\* the two counts as one more on the wire, with which it is lost.
Forward(s) ==
    /\ sock[s].server = "streaming" /\ sock[s].queue # <<>>
    /\ \/ /\ Heard(s) /\ Len(sock[s].wire) < WireSize
          /\ Set(s, [sock[s] EXCEPT !.wire = Append(@, Head(sock[s].queue)),
                                    !.queue = Tail(@)])
       \/ ~Heard(s) /\ Set(s, Hangup(sock[s]))
    /\ UNCHANGED <<published, page, visits, faults>>

-----------------------------------------------------------------------------
(* useWebSocket and the two pages.                                         *)

\* connect: not once the retries are used up; a socket still alive is closed.
Connect(p, socks) ==
    IF p.retries >= MaxRetries THEN page' = p /\ sock' = socks
    ELSE \E s \in Free :
           /\ page' = [p EXCEPT !.ws = s]
           /\ sock' = [t \in Sockets |->
                IF t = s THEN Asked
                ELSE IF t = p.ws /\ socks[t].browser \in {"connecting", "open"}
                THEN [socks[t] EXCEPT !.browser = "closing"] ELSE socks[t]]

Mount(kind) ==
    /\ page.kind = "none" /\ visits < MaxVisits
    /\ visits' = visits + 1
    /\ Connect([NoPage EXCEPT !.kind = kind], sock)
    /\ UNCHANGED <<published, faults>>

\* The refs of the page go with it: what its sockets still do is nobody's.
Unmount ==
    /\ page.kind # "none"
    /\ page' = NoPage
    /\ sock' = [s \in Sockets |->
          [sock[s] EXCEPT !.mine = FALSE,
             !.browser = IF s = page.ws /\ @ \in {"connecting", "open"} THEN "closing" ELSE @]]
    /\ UNCHANGED <<published, visits, faults>>

Opened(s) ==
    /\ sock[s].browser = "connecting" /\ sock[s].up
    /\ sock[s].server \in {"accepted", "streaming"}
    /\ Set(s, [sock[s] EXCEPT !.browser = "open"])
    /\ page' = IF ~sock[s].mine THEN page
               ELSE [page EXCEPT !.retries = 0, !.authError = FALSE,
                                 !.connected = (page.kind = "live")]
    /\ UNCHANGED <<published, visits, faults>>

\* A handshake refused with 403 and a connection lost both look like 1006.
CloseCode(s) == IF sock[s].browser = "closing" THEN 1005 ELSE 1006
NoRetryWhenLost(kind) == {1006, 4401}
NoRetryCodes(kind) == IF kind = "live" THEN {4401} ELSE {}

TwoTimers(s) == [page EXCEPT !.connected = FALSE, !.timers = @ + 2]
\* onclose of the page's own socket.
AfterClose(s) ==
    [page EXCEPT !.connected = FALSE,
                 !.authError = @ \/ (page.kind = "live" /\ CloseCode(s) = 4401),
                 !.timers = IF CloseCode(s) \in NoRetryCodes(page.kind) THEN @ ELSE @ + 1]

Closed(s) ==
    /\ \/ sock[s].browser = "closing"
       \/ sock[s].browser # "none" /\ (~sock[s].up \/ sock[s].server \in {"refused", "gone"})
    /\ page' = IF sock[s].mine THEN AfterClose(s) ELSE page
    /\ LET r == [sock[s] EXCEPT !.browser = "none", !.mine = FALSE, !.wire = <<>>,
                                !.up = FALSE]
       IN Set(s, IF r.server \in {"refused", "gone"} THEN NoConnection ELSE r)
    /\ UNCHANGED <<published, visits, faults>>

Reconnect ==
    /\ page.timers > 0
    /\ Connect([page EXCEPT !.timers = @ - 1, !.retries = @ + 1], sock)
    /\ UNCHANGED <<published, visits, faults>>

KeptAll(list, n, keep) == <<n>> \o list
Kept(list, n, keep) == SubSeq(<<n>> \o list, 1, IF Len(list) < keep THEN Len(list) + 1 ELSE keep)
ShownLast(p, n) == [p EXCEPT !.list = Append(@, n)]
\* /live leaves out an id it shows already; /attack-map takes blocked requests.
ShownLive(p, n) ==
    IF \E i \in 1 .. Len(p.list) : SameId(p.list[i], n) THEN p
    ELSE [p EXCEPT !.list = Kept(@, n, KeepLive)]
ShownOnMap(p, n) ==
    IF published[n] = Unique THEN p ELSE [p EXCEPT !.list = Kept(@, n, KeepMap)]

Message(s) ==
    /\ sock[s].browser = "open" /\ sock[s].up /\ sock[s].wire # <<>>
    /\ LET n == Head(sock[s].wire) IN
         /\ page' = IF ~sock[s].mine THEN page
                    ELSE IF page.kind = "live" THEN ShownLive(page, n) ELSE ShownOnMap(page, n)
         /\ Set(s, [sock[s] EXCEPT !.wire = Tail(@), !.got = n])
    /\ UNCHANGED <<published, visits, faults>>

-----------------------------------------------------------------------------
(* The network, the process and the clock.                                 *)

Drop(s) ==
    /\ sock[s].up /\ faults < MaxFaults
    /\ faults' = faults + 1
    /\ Set(s, [sock[s] EXCEPT !.up = FALSE, !.wire = <<>>])
    /\ UNCHANGED <<published, page, visits>>

\* The process is stopped and started: its queues are gone.
Restart ==
    /\ faults < MaxFaults
    /\ faults' = faults + 1
    /\ sock' = [s \in Sockets |->
                  IF sock[s].browser = "none" THEN NoConnection
                  ELSE [Hangup(sock[s]) EXCEPT !.up = FALSE]]
    /\ UNCHANGED <<published, page, visits>>

FeedInit ==
    /\ published = <<>>
    /\ sock = [s \in Sockets |-> NoConnection]
    /\ page = NoPage
    /\ visits = 0 /\ faults = 0

FeedNext ==
    \/ Broadcast
    \/ \E s \in Sockets : \/ Answer(s) \/ Register(s) \/ Forward(s)
                          \/ Opened(s) \/ Closed(s) \/ Message(s) \/ Drop(s)
    \/ \E kind \in {"live", "map"} : Mount(kind)
    \/ Unmount \/ Reconnect \/ Restart

\* Tasks run, handshakes end, messages arrive and timers fire.
FeedFairness ==
    /\ \A s \in Sockets : /\ WF_feedVars(Answer(s)) /\ WF_feedVars(Register(s))
                          /\ WF_feedVars(Forward(s)) /\ WF_feedVars(Message(s))
                          /\ WF_feedVars(Opened(s)) /\ WF_feedVars(Closed(s))
    /\ WF_feedVars(Reconnect)

FeedSafety == FeedInit /\ [][FeedNext]_feedVars
FeedSpec == FeedSafety /\ FeedFairness

-----------------------------------------------------------------------------
(* Properties.                                                             *)

\* Every variable has its type, queues and lists keep their size, and the sockets
\* of a page go with it (traffic_stream.py, useWebSocket.ts).
FeedTypeOK ==
    /\ published \in Seq(Addresses \cup {Unique})
    /\ sock \in [Sockets -> SockType]
    /\ page \in PageType
    /\ visits \in Nat /\ faults \in Nat
    /\ \A s \in Sockets :
         /\ Len(sock[s].queue) <= QueueSize /\ Len(sock[s].wire) <= WireSize
         /\ sock[s].mine => page.kind # "none" /\ sock[s].browser # "none"
    /\ Len(page.list) <= (IF page.kind = "live" THEN KeepLive ELSE KeepMap)

\* A page holds one connection or waits for one timer, never more: however it is
\* closed, onclose schedules one reconnect and a reconnect makes one socket
\* (connect and onclose, useWebSocket.ts).
OneConnection == page.timers + Cardinality(Mine) <= 1

\* Across reconnects, what a page shows is newest first without repetition
\* (setEvents of /live, setLiveEvents of /attack-map).
NewestFirst ==
    \A i, j \in 1 .. Len(page.list) : i < j => page.list[i] > page.list[j]

\* The page gets what FeedPromise promises (put_nowait and get_nowait of
\* broadcast, the loop of ws_traffic, and onmessage together).
Subscribed == \E s \in Mine : Heard(s) /\ sock[s].server = "streaming"
At == IF Subscribed
      THEN sock[CHOOSE s \in Mine : Heard(s) /\ sock[s].server = "streaming"].got ELSE -1
Promise == INSTANCE FeedPromise WITH newest <- Newest, at <- At
KeepsPromise == Promise!PromiseSpec

\* A page that lost its connection is connected again, unless it has given up
\* after MaxRetries refused attempts or is left (useWebSocket.ts).
GaveUp == page.retries >= MaxRetries
Reconnects == (page.kind = "live" /\ ~page.connected) ~>
                  (page.connected \/ GaveUp \/ page.kind = "none")

\* The queue of a browser that left is removed once another event comes: the
\* send of ws_traffic fails and its finally disconnects.
DeadQueueRemoved ==
    \A s \in Sockets : (sock[s].browser = "none" /\ sock[s].queue # <<>>) ~> sock[s].queue = <<>>

=============================================================================
