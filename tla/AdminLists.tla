----------------------------- MODULE AdminLists -----------------------------
(***************************************************************************)
(* A list page of the dashboard, the query cache behind it and the table   *)
(* of the server that several admins change.  The pages differ in what     *)
(* they offer (a form, filters, buttons per row).  Rows are ordered by id; *)
(* a row is on when a rule is enabled or an alert unresolved, and a search *)
(* finds the rows with an odd id.                                          *)
(***************************************************************************)
EXTENDS Integers, FiniteSets

CONSTANTS
    OpenLists,      \* the pages that are opened
    Rows,           \* ids, a set of numbers: a later row has a greater one
    PageSize,       \* 20
    WriteIds,       \* bound, a set of numbers: writes of the page in flight together
    MaxActs         \* bound: writes asked for, here and elsewhere, views chosen, and
                    \* fetches that fail for good, retry included

\* A page has rows to show: a table holds finitely many, and some id exists.
ASSUME ListAssumption ==
    /\ Rows \subseteq Nat /\ IsFiniteSet(Rows) /\ Rows # {}
    /\ WriteIds \subseteq Nat \ {0} /\ PageSize \in Nat \ {0}

VARIABLES
    list,       \* the page that is open
    rows,       \* the table
    view,       \* page and filter: the state of the component
    query,      \* the cache: an entry for each key
    write,      \* writes in flight
    form,       \* its dialog: is it open, for which row, which write it waits for
    gone,       \* for each key, rows removed with its data known to be stale
    previous,   \* the view that last had an answer, on a page that shows it meanwhile
    acts

listVars == <<list, rows, view, query, write, form, gone, previous, acts>>

-----------------------------------------------------------------------------
(* What the pages offer.  A page has one query that its controls drive, and *)
(* what else it fetches, by a key that never changes, is left out.         *)

\* dialogs and buttons are the writes it makes; by is what its filter looks at;
\* empty is when it says that there is nothing: once an answer without rows is
\* there, once it no longer loads, whatever is there, never, or at once.
JustRows == [dialogs |-> {}, buttons |-> {}, by |-> "nothing", paged |-> FALSE,
             keepsPage |-> FALSE, polled |-> FALSE, dims |-> FALSE, empty |-> "loaded"]
JustPages == [JustRows EXCEPT !.paged = TRUE, !.empty = "answered"]

BlockedIPsPage == [JustPages EXCEPT !.dialogs = {"create"}, !.buttons = {"remove"}]
AllowedIPsPage == [JustPages EXCEPT !.dialogs = {"create"}, !.buttons = {"remove"}]
UsersPage == [JustPages EXCEPT !.dialogs = {"create"}, !.buttons = {"remove"},
                               !.by = "text", !.empty = "never"]
\* Of the built-in rules, which can only be switched, there are none here.
RulesPage == [JustPages EXCEPT !.dialogs = {"create", "update"}, !.buttons = {"toggle", "remove"},
                               !.by = "text", !.empty = "loaded"]
AlertsPage == [JustPages EXCEPT !.buttons = {"resolve", "remove"}, !.by = "state"]
LogsPage == [JustPages EXCEPT !.by = "text"]
\* Alone of all it stays on its page when the filter changes.
AuditLogPage == [JustPages EXCEPT !.by = "text", !.keepsPage = TRUE, !.empty = "loaded"]

\* Windows of time, all of it on one page.
AnalyticsPage == [JustRows EXCEPT !.by = "state"]
\* "No attacks in this period" stands there while it loads.
ReportsPage == [JustRows EXCEPT !.by = "state", !.empty = "at once"]
AttackMapPage == [JustRows EXCEPT !.by = "state"]
DossiersPage == [JustRows EXCEPT !.by = "state", !.polled = TRUE]
AttackPieChart == [JustRows EXCEPT !.by = "state", !.polled = TRUE]
\* It shows the period before, dimmed, until it has the next.
TrafficChart == [JustRows EXCEPT !.by = "state", !.polled = TRUE, !.dims = TRUE]
TopAttackers == [JustRows EXCEPT !.polled = TRUE]
RecentAlerts == [JustRows EXCEPT !.polled = TRUE]
DashboardPage == [JustRows EXCEPT !.polled = TRUE, !.empty = "never"]

Pages == [blocked |-> BlockedIPsPage, allowed |-> AllowedIPsPage, users |-> UsersPage,
          rules |-> RulesPage, alerts |-> AlertsPage, logs |-> LogsPage, audit |-> AuditLogPage,
          analytics |-> AnalyticsPage, reports |-> ReportsPage, map |-> AttackMapPage,
          dossiers |-> DossiersPage, pie |-> AttackPieChart, traffic |-> TrafficChart,
          attackers |-> TopAttackers, recent |-> RecentAlerts, dashboard |-> DashboardPage]
ASSUME OpenListsAssumption == OpenLists \subseteq DOMAIN Pages
Page == Pages[list]

NoData == [for |-> "none"]
NoEntry == [data |-> NoData, stage |-> "idle", next |-> NoData, fresh |-> FALSE, failed |-> FALSE]
NoWrite == [kind |-> "none", row |-> 0, stage |-> "idle"]
NoForm == [open |-> "no", row |-> 0, waits |-> 0]

Views == [page : 1 .. Cardinality(Rows), filter : {"all", "some"}]
FirstPage == [page |-> 1, filter |-> "all"]
\* The badge of the sidebar: the unresolved alerts, counted.
Badge == [page |-> 0, filter |-> "some"]

KeyOfPage(v) == [v EXCEPT !.filter = "all"]
\* The query key of a view: everything its queryFn asks for.
Key(v) == v
Active == Key(view)
\* Data of another view, until this one is answered or fails.
Dimmed == Page.dims /\ query[Active].data = NoData /\ ~query[Active].failed
Shown == IF Dimmed THEN query[previous].data ELSE query[Active].data
Items == IF Shown = NoData THEN {} ELSE Shown.items

NoLoading == FALSE
\* isLoading: nothing to show yet, and a fetch under way.
Loading == Shown = NoData /\ query[Active].stage # "idle"
SaysEmpty ==
    /\ Items = {}
    /\ CASE Page.empty = "answered" -> Shown # NoData
         [] Page.empty = "loaded" -> ~Loading /\ (Page.dims => query[Active].stage = "idle")
         [] OTHER -> Page.empty = "at once"

-----------------------------------------------------------------------------
(* The server.                                                             *)

On(table) == {r \in Rows : table[r] = "on"}
Matching(table, filter) ==
    {r \in Rows : /\ table[r] \in {"on", "off"}
                  /\ filter = "all" \/ IF Page.by = "text" THEN r % 2 = 1 ELSE r \in On(table)}
Rank(r, found) == Cardinality({s \in found : s > r})
Answer(table, v) ==
    LET found == Matching(table, v.filter)
        items == {r \in found : /\ Rank(r, found) >= (v.page - 1) * PageSize
                                /\ Rank(r, found) < v.page * PageSize}
    IN [for |-> v, items |-> items, on |-> items \cap On(table),
        pages |-> (Cardinality(found) + PageSize - 1) \div PageSize]
Count(table) == [for |-> Badge, items |-> {}, on |-> On(table), pages |-> 0]

Unused == {r \in Rows : rows[r] = "never"}
Created(table, r) == [table EXCEPT ![r] = "on"]
Turned(table, r) == [table EXCEPT ![r] = IF @ = "on" THEN "off" ELSE "on"]

\* What a write makes of the table, and whether its answer says so: a row that
\* is gone already is a 404, and an answer may be lost.
Changed(w) ==
    IF w.kind = "create" THEN {Created(rows, r) : r \in Unused}
    ELSE IF rows[w.row] = "removed" THEN {}
    ELSE CASE w.kind = "remove" -> {[rows EXCEPT ![w.row] = "removed"]}
           [] w.kind = "toggle" -> {Turned(rows, w.row)}
           [] w.kind = "resolve" -> {[rows EXCEPT ![w.row] = "off"]}
           [] w.kind = "update" -> {rows}
Applied(w) == (Changed(w) \X {"ok", "error"}) \cup {<<rows, "error">>}

-----------------------------------------------------------------------------
(* The query cache: one fetch for each key, kept when the view moves on.   *)

Asking(e, v) == [e EXCEPT !.stage = "asked", !.next = [for |-> v], !.failed = FALSE]
\* A view is looked at: what is missing or stale is fetched; an answer that
\* nothing invalidated is stale after 30 s.
LookAt(qs, v) ==
    LET e == qs[Key(v)]  ask == [qs EXCEPT ![Key(v)] = Asking(e, v)] IN
    IF e.stage # "idle" THEN {qs} ELSE IF e.fresh THEN {qs, ask} ELSE {ask}
Look(v) ==
    /\ acts < MaxActs /\ acts' = acts + 1
    /\ view' = v
    /\ query' \in LookAt(query, v)
    /\ previous' = IF Page.dims /\ query[Active].data # NoData THEN Active ELSE previous
    /\ UNCHANGED gone

OnlyIfIdle(qs) ==
    [k \in DOMAIN qs |->
       CASE k = Badge -> qs[k]
         [] k = Active /\ qs[k].stage = "idle" -> [Asking(qs[k], view) EXCEPT !.fresh = FALSE]
         [] OTHER -> [qs[k] EXCEPT !.fresh = FALSE]]
\* A fetch in flight that an invalidation leaves alone: that of a view that is
\* not looked at, and the first one of a view.
LeftAlone(k) == query[k].stage # "idle" /\ (k # Active \/ query[k].data = NoData)
\* invalidateQueries with the prefix of the list: every page of it is stale, and
\* the one on view is asked for anew.
Invalidated(qs) ==
    [k \in DOMAIN qs |->
       CASE k = Badge -> qs[k]
         [] k = Active /\ ~LeftAlone(k) -> [Asking(qs[k], view) EXCEPT !.fresh = FALSE]
         [] OTHER -> [qs[k] EXCEPT !.fresh = FALSE]]

\* A fetch that fails, retry included, leaves the data, and the page does not say
\* that it is old.
Serve(k) ==
    /\ query[k].stage = "asked"
    /\ \/ /\ query' = [query EXCEPT ![k].stage = "answered",
                         ![k].next = IF k = Badge THEN Count(rows) ELSE Answer(rows, @.for)]
          /\ UNCHANGED acts
       \/ /\ acts < MaxActs /\ acts' = acts + 1
          /\ query' = [query EXCEPT ![k].stage = "idle", ![k].next = NoData, ![k].failed = TRUE]
    /\ UNCHANGED <<list, rows, view, write, form, gone, previous>>

Arrive(k) ==
    /\ query[k].stage = "answered"
    /\ query' = [query EXCEPT ![k] = [NoEntry EXCEPT !.data = query[k].next, !.fresh = TRUE]]
    /\ UNCHANGED <<list, rows, view, write, form, gone, previous, acts>>

NoBadgePoll(k) == k = Active /\ Page.polled
Polling(k) == (k = Active /\ Page.polled) \/ (k = Badge /\ list = "alerts")
\* refetchInterval, for the key on view and the badge of the sidebar.
Poll(k) ==
    /\ Polling(k) /\ query[k].stage = "idle"
    /\ query' = [query EXCEPT ![k] = Asking(@, k)]
    /\ UNCHANGED <<list, rows, view, write, form, gone, previous, acts>>

-----------------------------------------------------------------------------
(* What the admin does.                                                    *)

\* Previous and Next are there while the answer on view counts several pages.
Paging == Shown # NoData /\ Shown.pages > 1
TurnPage ==
    /\ Page.paged /\ Paging
    /\ \/ view.page > 1 /\ Look([view EXCEPT !.page = @ - 1])
       \/ view.page < Shown.pages /\ Look([view EXCEPT !.page = @ + 1])
    /\ UNCHANGED <<list, rows, write, form>>

Filter ==
    /\ Page.by # "nothing"
    /\ \E f \in {"all", "some"} \ {view.filter} :
         Look([view EXCEPT !.filter = f, !.page = IF Page.keepsPage THEN @ ELSE 1])
    /\ UNCHANGED <<list, rows, write, form>>

Asked(kind, row, w) ==
    /\ write[w] = NoWrite /\ \A v \in WriteIds : v < w => write[v] # NoWrite
    /\ acts < MaxActs
    /\ acts' = acts + 1
    /\ write' = [write EXCEPT ![w] = [kind |-> kind, row |-> row, stage |-> "sent"]]

\* The buttons of a row, which no call in flight disables.
Press(w) ==
    /\ \E kind \in Page.buttons, r \in Items :
         (kind = "resolve" => r \in Shown.on) /\ Asked(kind, r, w)
    /\ UNCHANGED <<list, rows, view, query, form, gone, previous>>

\* A dialog is opened and closed at will, and a new form waits for nothing; the
\* one that edits a rule is for a row that is shown by then.
Opened == {[NoForm EXCEPT !.open = "create"] : d \in Page.dialogs \cap {"create"}}
          \cup {[NoForm EXCEPT !.open = "update", !.row = d[2]] :
                d \in (Page.dialogs \cap {"update"}) \X Items}
Dialog ==
    /\ form' \in IF form.open = "no" THEN Opened ELSE {NoForm}
    /\ UNCHANGED <<list, rows, view, query, write, gone, previous, acts>>

Submit(w) ==
    /\ form.open # "no" /\ form.waits = 0
    /\ form.open = "create" => Unused # {}
    /\ Asked(form.open, form.row, w)
    /\ form' = [form EXCEPT !.waits = w]
    /\ UNCHANGED <<list, rows, view, query, gone, previous>>

ServeWrite(w) ==
    /\ write[w].stage = "sent"
    /\ \E a \in Applied(write[w]) :
         /\ rows' = a[1]
         /\ write' = [write EXCEPT ![w].stage = a[2]]
    /\ UNCHANGED <<list, view, query, form, gone, previous, acts>>

Succeeded(w) == write[w].stage = "ok" /\ write[w].kind = form.open
FormNeverBack(w) == IF Succeeded(w) THEN NoForm ELSE form
\* A write that succeeds closes the dialog of its kind, whichever form it shows
\* by now; an error enables the form that waits for it again.
FormAfter(w) ==
    IF Succeeded(w) THEN NoForm
    ELSE IF form.waits = w THEN [form EXCEPT !.waits = 0] ELSE form

\* onSuccess invalidates the list.
Finish(w) ==
    LET done == write[w]  ok == done.stage = "ok" IN
    /\ done.stage \in {"ok", "error"}
    /\ write' = [write EXCEPT ![w] = NoWrite]
    /\ query' = IF ok THEN Invalidated(query) ELSE query
    /\ gone' = [k \in Views |-> IF ok /\ done.kind = "remove" /\ ~LeftAlone(k)
                                THEN gone[k] \cup {done.row} ELSE gone[k]]
    /\ form' = FormAfter(w)
    /\ UNCHANGED <<list, rows, view, previous, acts>>

\* Another admin, or the engine, changes the table.
Others ==
    /\ acts < MaxActs
    /\ acts' = acts + 1
    /\ \E r \in Rows :
         \/ rows[r] = "never" /\ rows' = Created(rows, r)
         \/ rows[r] \in {"on", "off"} /\ rows' = [rows EXCEPT ![r] = "removed"]
         \/ rows[r] \in {"on", "off"} /\ rows' = Turned(rows, r)
    /\ UNCHANGED <<list, view, query, write, form, gone, previous>>

ListInit ==
    /\ list \in OpenLists
    /\ rows \in [Rows -> {"never", "on"}]
    /\ view = FirstPage
    /\ query \in LookAt([k \in Views \cup {Badge} |->
                          IF Polling(k) /\ k = Badge THEN Asking(NoEntry, k) ELSE NoEntry], FirstPage)
    /\ write = [w \in WriteIds |-> NoWrite]
    /\ form = NoForm
    /\ gone = [k \in Views |-> {}] /\ previous = FirstPage
    /\ acts = 0

ListNext ==
    \/ \E k \in Views \cup {Badge} : Serve(k) \/ Arrive(k) \/ Poll(k)
    \/ TurnPage \/ Filter \/ Dialog \/ Others
    \/ \E w \in WriteIds : Press(w) \/ Submit(w) \/ ServeWrite(w) \/ Finish(w)

\* Calls are answered or fail, and intervals pass.
ListFairness ==
    /\ \A k \in Views \cup {Badge} :
         WF_listVars(Serve(k)) /\ WF_listVars(Arrive(k)) /\ WF_listVars(Poll(k))
    /\ \A w \in WriteIds : WF_listVars(ServeWrite(w)) /\ WF_listVars(Finish(w))

ListSpec == ListInit /\ [][ListNext]_listVars /\ ListFairness

-----------------------------------------------------------------------------
(* Properties.                                                             *)

IsAnswer(a) ==
    \/ a = NoData
    \/ a.for \in Views \cup {Badge} /\ a.items \cup a.on \subseteq Rows /\ a.pages \in Nat
\* Every variable has its type, and a form waits only for a write that is in
\* flight.
ListTypeOK ==
    /\ list \in OpenLists
    /\ rows \in [Rows -> {"never", "on", "off", "removed"}]
    /\ view \in Views
    /\ \A k \in Views \cup {Badge} :
         /\ query[k].stage \in {"idle", "asked", "answered"} /\ IsAnswer(query[k].data)
         /\ {query[k].fresh, query[k].failed} \subseteq BOOLEAN
         /\ query[k].stage = "answered" => IsAnswer(query[k].next)
    /\ form.open \in {"no", "create", "update"} /\ form.row \in Rows \cup {0}
    /\ form.waits \in WriteIds => write[form.waits].stage # "idle" /\ form.open # "no"
    /\ gone \in [Views -> SUBSET Rows] /\ previous \in Views

\* What a page shows undimmed was asked for with the page and the filters it shows as
\* chosen, whatever answers come in whatever order (the queryKey of each page
\* names all that its queryFn sends).
AnswerMatchesView == Shown # NoData /\ ~Dimmed => Shown.for = view

\* Once the list is quiet, a row the admin was told is removed is not on it, on
\* whatever page and with whatever filter it is looked at again: no answer read
\* before the removal is shown after it (invalidateQueries in the onSuccess of the
\* pages).  Except where an answer was on its way that the invalidation leaves
\* alone, of a view left behind or not answered yet: it comes in as fresh, and
\* may bring the row back for as long as it is.
RemovedIsGone ==
    query[Active].stage = "idle" /\ ~query[Active].failed => gone[Active] \cap Items = {}

\* A page that says there is nothing to show has the server's word for the view it
\* shows, or its last fetch failed, which most do not tell from nothing: "No
\* attackers detected" (top-attackers.tsx) may be an error.  The page of reports,
\* which does not wait for its answer, is left out.
NothingIsAnAnswer ==
    SaysEmpty /\ Page.empty # "at once" =>
        (Shown # NoData /\ Shown.for = view) \/ query[Active].failed

\* The badge of the sidebar comes to the number of unresolved alerts, although
\* no mutation of the alerts page invalidates it (its poll, sidebar.tsx).
BadgeSettles ==
    <>[](list = "alerts" => query[Badge].data # NoData
                            /\ query[Badge].data.on = On(rows))

=============================================================================
