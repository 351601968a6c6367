-------------------------- MODULE AdminListsProofs --------------------------
(***************************************************************************)
(* Proofs about AdminLists, for any pages, any finite table, any page      *)
(* size, any number of writes in flight and of other admins' changes.      *)
(***************************************************************************)
EXTENDS AdminLists, FiniteSetTheorems, TLAPS

QueryKeys == Views \cup {Badge}
Tables == [Rows -> {"never", "on", "off", "removed"}]
Answers == [for : QueryKeys, items : SUBSET Rows, on : SUBSET Rows,
            pages : 0 .. Cardinality(Rows)]
Questions == [for : QueryKeys]
Entries == [data : Answers \cup {NoData}, stage : {"idle", "asked", "answered"},
            next : Answers \cup Questions \cup {NoData}, fresh : BOOLEAN, failed : BOOLEAN]
Writes == [kind : {"none", "create", "remove", "toggle", "resolve", "update"},
           row : Rows \cup {0}, stage : {"idle", "sent", "ok", "error"}]
Forms == [open : {"no", "create", "update"}, row : Rows \cup {0}, waits : WriteIds \cup {0}]

-----------------------------------------------------------------------------
(* The inductive invariant.                                                *)

\* An entry holds nothing but what was asked for with its key, what is fresh is
\* there, and an entry that failed asks for nothing.
Keeps(e, k) ==
    /\ e.data # NoData => e.data.for = k
    /\ e.stage # "idle" => e.next.for = k
    /\ e.stage = "answered" => e.next \in Answers
    /\ e.failed => e.stage = "idle"
    /\ e.fresh => e.data \in Answers
\* No row in g is in the answer that an entry holds as fresh, or in the one on
\* its way.
Clean(e, g) ==
    /\ e.fresh => g \cap e.data.items = {}
    /\ e.stage = "answered" => g \cap e.next.items = {}
\* An entry that is quiet has come to a fresh answer, or failed.
Settled(e) == e.stage = "idle" /\ ~e.failed => e.fresh

TypeInv ==
    /\ list \in OpenLists /\ rows \in Tables /\ view \in Views
    /\ write \in [WriteIds -> Writes] /\ form \in Forms
    /\ gone \in [Views -> SUBSET Rows] /\ previous \in Views
QueryInv ==
    /\ query \in [QueryKeys -> Entries]
    /\ \A k \in QueryKeys : Keeps(query[k], k)
WriteInv ==
    /\ \A w \in WriteIds :
         /\ write[w].kind \notin {"none", "create"} => write[w].row \in Rows
         /\ write[w].stage # "idle" => write[w].kind # "none"
    /\ form.waits # 0 => write[form.waits].stage # "idle" /\ form.open # "no"
    /\ form.open = "update" => form.row \in Rows
\* What is removed stays so.
GoneInv ==
    /\ \A k \in Views : \A r \in gone[k] : rows[r] = "removed"
    /\ \A w \in WriteIds : write[w].kind = "remove" /\ write[w].stage = "ok" =>
                              rows[write[w].row] = "removed"
\* Every view is clean, looked at or not: it may be looked at again.
CleanInv ==
    /\ \A k \in Views : Clean(query[k], gone[k])
    /\ Settled(query[Active])

IInv == TypeInv /\ QueryInv /\ WriteInv /\ GoneInv /\ CleanInv

-----------------------------------------------------------------------------
(* What the operators of the model return.                                 *)

\* The number of rows of a table, found or all of them.
LEMMA RowsCount ==
    /\ Cardinality(Rows) \in Nat \ {0}
    /\ \A S \in SUBSET Rows : Cardinality(S) \in 0 .. Cardinality(Rows)
<1>1. IsFiniteSet(Rows) /\ Rows # {}  BY ListAssumption
<1>2. Cardinality(Rows) \in Nat /\ Cardinality(Rows) # 0
  BY <1>1, FS_CardinalityType, FS_EmptySet
<1>3. ASSUME NEW S \in SUBSET Rows PROVE Cardinality(S) \in 0 .. Cardinality(Rows)
  <2>1. IsFiniteSet(S) /\ Cardinality(S) <= Cardinality(Rows)  BY <1>1, FS_Subset
  <2>2. Cardinality(S) \in Nat  BY <2>1, FS_CardinalityType
  <2> QED  BY <1>2, <2>1, <2>2
<1> QED  BY <1>2, <1>3

\* Rounded up, n rows on pages of p are at most n pages.
LEMMA PagesAtMost ==
    ASSUME NEW n \in Nat, NEW p \in Nat \ {0}
    PROVE  (n + p - 1) \div p \in 0 .. n
<1> DEFINE q == (n + p - 1) \div p
<1>1. q \in Int /\ q * p <= n + p - 1 /\ n + p - 1 < (q + 1) * p
  OBVIOUS
<1> HIDE DEF q
<1>2. q >= 0  BY <1>1
<1>3. q <= n
  <2> SUFFICES ASSUME q >= n + 1 PROVE FALSE  BY <1>1
  <2>1. q * p >= (n + 1) * p  BY <1>1
  <2>2. (n + 1) * p = n * p + p  OBVIOUS
  <2>3. n * p >= n  OBVIOUS
  <2> QED  BY <1>1, <2>1, <2>2, <2>3
<1> QED  BY <1>1, <1>2, <1>3 DEF q

LEMMA FirstPageIsView == FirstPage \in Views
BY RowsCount DEF FirstPage, Views

\* A page has at least its first, and no page is the badge.
LEMMA ViewsDiffer ==
    /\ Views \subseteq QueryKeys /\ Badge \in QueryKeys
    /\ Badge \notin Views
BY RowsCount DEF Views, Badge, QueryKeys

\* An answer is of the view it was asked for, and lists no removed row.
LEMMA AnswerIs ==
    ASSUME NEW table \in Tables, NEW v \in Views
    PROVE  /\ Answer(table, v) \in Answers /\ Answer(table, v).for = v
           /\ \A r \in Answer(table, v).items : table[r] # "removed"
<1> DEFINE found == Matching(table, v.filter)
           items == {r \in found : /\ Rank(r, found) >= (v.page - 1) * PageSize
                                   /\ Rank(r, found) < v.page * PageSize}
           on == items \cap On(table)
           pages == (Cardinality(found) + PageSize - 1) \div PageSize
<1>1. found \in SUBSET Rows /\ \A r \in found : table[r] # "removed"
  BY DEF Matching
<1>2. items \subseteq found  OBVIOUS
<1>3. Cardinality(found) \in Nat /\ Cardinality(found) <= Cardinality(Rows)
  <2>1. Cardinality(found) \in 0 .. Cardinality(Rows)  BY <1>1, RowsCount
  <2> QED  BY <2>1, RowsCount
<1>4. pages \in 0 .. Cardinality(Rows)
  <2>1. pages \in 0 .. Cardinality(found)  BY <1>3, ListAssumption, PagesAtMost
  <2> QED  BY <1>3, <2>1, RowsCount
<1>5. Answer(table, v) = [for |-> v, items |-> items, on |-> on, pages |-> pages]
  BY DEF Answer
<1>6. on \subseteq Rows  BY DEF On
<1> HIDE DEF found, items, on, pages
<1> QED  BY <1>1, <1>2, <1>4, <1>5, <1>6, ViewsDiffer DEF Answers

LEMMA AnswerIsData == NoData \notin Answers
<1>1. \A a \in Answers : DOMAIN a = {"for", "items", "on", "pages"}  BY DEF Answers
<1>2. DOMAIN NoData = {"for"}  BY DEF NoData
<1>3. "items" \notin {"for"}  OBVIOUS
<1> QED  BY <1>1, <1>2, <1>3

LEMMA CountIs ==
    ASSUME NEW table
    PROVE  Count(table) \in Answers /\ Count(table).for = Badge /\ Count(table).items = {}
<1>1. On(table) \in SUBSET Rows  BY DEF On
<1>2. 0 \in 0 .. Cardinality(Rows)  BY RowsCount
<1>3. Count(table) = [for |-> Badge, items |-> {}, on |-> On(table), pages |-> 0]  BY DEF Count
<1> QED  BY <1>1, <1>2, <1>3, ViewsDiffer DEF Answers

\* What is asked for has not been answered, and the data stay.
LEMMA AskingIs ==
    ASSUME NEW k \in QueryKeys, NEW e \in Entries, Keeps(e, k)
    PROVE  /\ Asking(e, k) \in Entries /\ Keeps(Asking(e, k), k)
           /\ Asking(e, k).stage = "asked"
           /\ [Asking(e, k) EXCEPT !.fresh = FALSE] \in Entries
           /\ Keeps([Asking(e, k) EXCEPT !.fresh = FALSE], k)
           /\ [Asking(e, k) EXCEPT !.fresh = FALSE].stage = "asked"
<1> DEFINE question == [for |-> k]
<1>1. question \in Questions /\ question.for = k  BY DEF Questions
<1>2. Asking(e, k) = [e EXCEPT !.stage = "asked", !.next = question, !.failed = FALSE]
  BY DEF Asking
<1> HIDE DEF question
<1> QED  BY <1>1, <1>2 DEF Entries, Keeps

\* Asking again leaves an entry clean.
LEMMA AskedIsClean ==
    ASSUME NEW k, NEW e \in Entries, NEW g, Clean(e, g)
    PROVE  Clean(Asking(e, k), g)
<1> DEFINE question == [for |-> k]
<1>1. Asking(e, k) = [e EXCEPT !.stage = "asked", !.next = question, !.failed = FALSE]
  BY DEF Asking
<1> HIDE DEF question
<1>2. /\ Asking(e, k).stage = "asked" /\ Asking(e, k).data = e.data
      /\ Asking(e, k).fresh = e.fresh
  BY <1>1 DEF Entries
<1> QED  BY <1>2 DEF Clean

-----------------------------------------------------------------------------
(* The queries.                                                            *)

\* What the page is: the buttons it may have, and which pages dim what they show.
LEMMA PageIs ==
    ASSUME list \in OpenLists
    PROVE  /\ Page.buttons \subseteq {"remove", "toggle", "resolve"}
           /\ Page.dims => Page.empty = "loaded"
<1> DEFINE Fits(p) == /\ p.buttons \subseteq {"remove", "toggle", "resolve"}
                      /\ p.dims => p.empty = "loaded"
<1>1. Fits(BlockedIPsPage) /\ Fits(AllowedIPsPage) /\ Fits(UsersPage)
  BY DEF BlockedIPsPage, AllowedIPsPage, UsersPage, JustPages, JustRows
<1>2. Fits(RulesPage) /\ Fits(AlertsPage) /\ Fits(LogsPage) /\ Fits(AuditLogPage)
  BY DEF RulesPage, AlertsPage, LogsPage, AuditLogPage, JustPages, JustRows
<1>3. Fits(AnalyticsPage) /\ Fits(ReportsPage) /\ Fits(AttackMapPage) /\ Fits(DossiersPage)
  BY DEF AnalyticsPage, ReportsPage, AttackMapPage, DossiersPage, JustRows
<1>4. /\ Fits(AttackPieChart) /\ Fits(TrafficChart) /\ Fits(TopAttackers)
      /\ Fits(RecentAlerts) /\ Fits(DashboardPage)
  BY DEF AttackPieChart, TrafficChart, TopAttackers, RecentAlerts, DashboardPage, JustRows
<1> HIDE DEF Fits
<1>5. \A l \in DOMAIN Pages : Fits(Pages[l])  BY <1>1, <1>2, <1>3, <1>4 DEF Pages
<1>6. Fits(Page)  BY <1>5, OpenListsAssumption DEF Page
<1> QED  BY <1>6 DEF Fits

\* What a page shows is an answer or nothing; its rows are rows of the table.
LEMMA ShownIs ==
    ASSUME IInv
    PROVE  /\ Active = view /\ Active \in Views /\ Active \in QueryKeys
           /\ query[Active] \in Entries /\ query[previous] \in Entries
           /\ Shown \in Answers \cup {NoData} /\ Items \subseteq Rows
<1>1. Active = view /\ Active \in Views /\ Active \in QueryKeys /\ previous \in QueryKeys
  BY ViewsDiffer DEF Active, Key, IInv, TypeInv
<1>2. query[Active] \in Entries /\ query[previous] \in Entries  BY <1>1 DEF IInv, QueryInv
<1>3. Shown \in Answers \cup {NoData}  BY <1>2 DEF Shown, Entries
<1>4. Items \subseteq Rows  BY <1>3 DEF Items, Answers
<1> QED  BY <1>1, <1>2, <1>3, <1>4

\* One entry changes, and stays clean; the one on view stays settled.
LEMMA EntryStep ==
    ASSUME IInv, NEW k \in QueryKeys, NEW e \in Entries, Keeps(e, k),
           k \in Views => Clean(e, gone[k]), k = Active => Settled(e),
           query' = [query EXCEPT ![k] = e],
           UNCHANGED <<list, rows, view, write, form, gone, previous>>
    PROVE  IInv'
<1>1. Active \in QueryKeys /\ Active' = Active /\ Views \subseteq QueryKeys
  BY ShownIs, ViewsDiffer DEF Active, Key
<1>2. query \in [QueryKeys -> Entries]  BY DEF IInv, QueryInv
<1>3. \A j \in QueryKeys : query'[j] = IF j = k THEN e ELSE query[j]  BY <1>2
<1>4. TypeInv' /\ WriteInv' /\ GoneInv'  BY DEF IInv, TypeInv, WriteInv, GoneInv
<1>5. QueryInv'  BY <1>2, <1>3 DEF IInv, QueryInv
<1>6. Settled(query'[Active])  BY <1>1, <1>3 DEF IInv, CleanInv
<1>7. \A j \in Views : Clean(query'[j], gone'[j])  BY <1>1, <1>3 DEF IInv, CleanInv
<1> QED  BY <1>1, <1>4, <1>5, <1>6, <1>7 DEF IInv, CleanInv

LEMMA ServeStep ==
    ASSUME IInv, NEW k \in QueryKeys, Serve(k)
    PROVE  IInv'
<1>1. query[k] \in Entries /\ Keeps(query[k], k) /\ query[k].stage = "asked"
      /\ query \in [QueryKeys -> Entries]
  BY DEF Serve, IInv, QueryInv
<1>2. UNCHANGED <<list, rows, view, write, form, gone, previous>>  BY DEF Serve
<1>3. CASE query' = [query EXCEPT ![k].stage = "answered",
                       ![k].next = IF k = Badge THEN Count(rows) ELSE Answer(rows, @.for)]
  <2> DEFINE answer == IF k = Badge THEN Count(rows) ELSE Answer(rows, query[k].next.for)
             e == [query[k] EXCEPT !.stage = "answered", !.next = answer]
  <2>1. answer \in Answers /\ answer.for = k /\ (k \in Views => gone[k] \cap answer.items = {})
    <3>1. CASE k = Badge  BY <3>1, CountIs
    <3>2. CASE k # Badge
      <4>1. k \in Views /\ query[k].next.for = k  BY <3>2, <1>1 DEF Keeps, QueryKeys
      <4>2. rows \in Tables /\ \A r \in gone[k] : rows[r] = "removed"
        BY <4>1 DEF IInv, TypeInv, GoneInv
      <4> QED  BY <3>2, <4>1, <4>2, AnswerIs
    <3> QED  BY <3>1, <3>2
  <2>2. query' = [query EXCEPT ![k] = e]  BY <1>1, <1>3 DEF Entries
  <2> HIDE DEF answer
  <2>3. /\ e \in Entries /\ e.stage = "answered" /\ e.next = answer
        /\ e.data = query[k].data /\ e.failed = query[k].failed /\ e.fresh = query[k].fresh
    BY <1>1, <2>1 DEF Entries
  <2> HIDE DEF e
  <2>4. Keeps(e, k) /\ Settled(e)  BY <1>1, <2>1, <2>3 DEF Keeps, Settled
  <2>5. k \in Views => Clean(e, gone[k])  BY <2>1, <2>3 DEF Clean, IInv, CleanInv
  <2> QED  BY <1>2, <2>2, <2>3, <2>4, <2>5, EntryStep
<1>4. CASE query' = [query EXCEPT ![k].stage = "idle", ![k].next = NoData, ![k].failed = TRUE]
  <2> DEFINE e == [query[k] EXCEPT !.stage = "idle", !.next = NoData, !.failed = TRUE]
  <2>1. query' = [query EXCEPT ![k] = e]  BY <1>1, <1>4 DEF Entries
  <2>2. /\ e \in Entries /\ e.stage = "idle" /\ e.failed
        /\ e.data = query[k].data /\ e.fresh = query[k].fresh
    BY <1>1 DEF Entries
  <2> HIDE DEF e
  <2>3. Keeps(e, k) /\ Settled(e)  BY <1>1, <2>2 DEF Keeps, Settled
  <2>4. k \in Views => Clean(e, gone[k])  BY <2>2 DEF Clean, IInv, CleanInv
  <2> QED  BY <1>2, <2>1, <2>2, <2>3, <2>4, EntryStep
<1> QED  BY <1>3, <1>4 DEF Serve

LEMMA ArriveStep ==
    ASSUME IInv, NEW k \in QueryKeys, Arrive(k)
    PROVE  IInv'
<1> DEFINE e == [NoEntry EXCEPT !.data = query[k].next, !.fresh = TRUE]
<1>1. query[k] \in Entries /\ Keeps(query[k], k) /\ query[k].stage = "answered"
  BY DEF Arrive, IInv, QueryInv
<1>2. query[k].next \in Answers /\ query[k].next.for = k  BY <1>1 DEF Keeps
<1>3. query' = [query EXCEPT ![k] = e]
      /\ UNCHANGED <<list, rows, view, write, form, gone, previous>>
  BY DEF Arrive
<1>4. e \in Entries /\ e.stage = "idle" /\ e.data = query[k].next /\ e.fresh /\ ~e.failed
  BY <1>2 DEF Entries, NoEntry
<1> HIDE DEF e
<1>5. Keeps(e, k) /\ Settled(e)  BY <1>2, <1>4 DEF Keeps, Settled
<1>6. ASSUME k \in Views PROVE Clean(e, gone[k])
  <2>1. Clean(query[k], gone[k])  BY <1>6 DEF IInv, CleanInv
  <2> QED  BY <1>1, <1>4, <2>1 DEF Clean
<1> QED  BY <1>3, <1>4, <1>5, <1>6, EntryStep

LEMMA PollStep ==
    ASSUME IInv, NEW k \in QueryKeys, Poll(k)
    PROVE  IInv'
<1>1. query[k] \in Entries /\ Keeps(query[k], k)  BY DEF IInv, QueryInv
<1>2. /\ query' = [query EXCEPT ![k] = Asking(query[k], k)]
      /\ UNCHANGED <<list, rows, view, write, form, gone, previous>>
  BY DEF Poll, IInv, QueryInv
<1>3. /\ Asking(query[k], k) \in Entries /\ Keeps(Asking(query[k], k), k)
      /\ Asking(query[k], k).stage = "asked" /\ Settled(Asking(query[k], k))
  BY <1>1, AskingIs DEF Settled
<1>4. k \in Views => Clean(Asking(query[k], k), gone[k])
  BY <1>1, AskedIsClean DEF IInv, CleanInv
<1> QED  BY <1>2, <1>3, <1>4, EntryStep

\* A view is looked at: the cache keeps its invariant, and the view is settled.
LEMMA LookAtKeeps ==
    ASSUME NEW qs \in [QueryKeys -> Entries], \A k \in QueryKeys : Keeps(qs[k], k),
           NEW v \in Views, NEW new \in LookAt(qs, v)
    PROVE  /\ new \in [QueryKeys -> Entries] /\ \A k \in QueryKeys : Keeps(new[k], k)
           /\ Settled(new[v])
           /\ \A k \in Views : \A g : Clean(qs[k], g) => Clean(new[k], g)
<1>1. v \in QueryKeys /\ Views \subseteq QueryKeys  BY ViewsDiffer
<1>2. /\ Asking(qs[v], v) \in Entries /\ Keeps(Asking(qs[v], v), v)
      /\ Asking(qs[v], v).stage = "asked"
  BY <1>1, AskingIs
<1>3. \/ new = qs /\ (qs[v].stage # "idle" \/ qs[v].fresh)
      \/ new = [qs EXCEPT ![v] = Asking(qs[v], v)]
  BY DEF LookAt, Key
<1>4. CASE new = qs /\ (qs[v].stage # "idle" \/ qs[v].fresh)  BY <1>4 DEF Settled
<1>5. CASE new = [qs EXCEPT ![v] = Asking(qs[v], v)]
  <2>1. \A k \in QueryKeys : new[k] = IF k = v THEN Asking(qs[v], v) ELSE qs[k]  BY <1>5
  <2>2. Settled(new[v])  BY <1>1, <1>2, <2>1 DEF Settled
  <2>3. \A k \in Views : \A g : Clean(qs[k], g) => Clean(new[k], g)
    BY <1>1, <2>1, AskedIsClean
  <2> QED  BY <1>2, <1>5, <2>1, <2>2, <2>3
<1> QED  BY <1>3, <1>4, <1>5

LEMMA LookStep ==
    ASSUME IInv, NEW v \in Views, Look(v), UNCHANGED <<list, rows, write, form>>
    PROVE  IInv'
<1>1. view' = v /\ query' \in LookAt(query, v) /\ gone' = gone
      /\ (previous' = Active \/ previous' = previous)
  BY DEF Look
<1>2. TypeInv'  BY <1>1, ShownIs DEF IInv, TypeInv
<1>3. QueryInv' /\ Settled(query'[v]) /\ \A k \in Views : \A g : Clean(query[k], g) => Clean(query'[k], g)
  BY <1>1, LookAtKeeps DEF IInv, QueryInv
<1>4. WriteInv'  BY DEF IInv, WriteInv
<1>5. GoneInv'  BY <1>1 DEF IInv, GoneInv
<1>6. CleanInv'  BY <1>1, <1>3 DEF IInv, CleanInv, Active, Key
<1> QED  BY <1>2, <1>3, <1>4, <1>5, <1>6 DEF IInv

LEMMA ViewStep ==
    ASSUME IInv, TurnPage \/ Filter
    PROVE  IInv'
<1>1. view \in Views  BY DEF IInv, TypeInv
<1>2. CASE TurnPage
  <2>1. Shown # NoData /\ UNCHANGED <<list, rows, write, form>>  BY <1>2 DEF TurnPage, Paging
  <2>2. Shown.pages \in 0 .. Cardinality(Rows)  BY <2>1, ShownIs DEF Answers
  <2>3. CASE view.page > 1 /\ Look([view EXCEPT !.page = @ - 1])
    <3>1. [view EXCEPT !.page = @ - 1] \in Views  BY <1>1, <2>3, RowsCount DEF Views
    <3> QED  BY <2>1, <2>3, <3>1, LookStep
  <2>4. CASE view.page < Shown.pages /\ Look([view EXCEPT !.page = @ + 1])
    <3>1. [view EXCEPT !.page = @ + 1] \in Views  BY <1>1, <2>2, <2>4, RowsCount DEF Views
    <3> QED  BY <2>1, <2>4, <3>1, LookStep
  <2> QED  BY <1>2, <2>3, <2>4 DEF TurnPage
<1>3. CASE Filter
  <2>1. UNCHANGED <<list, rows, write, form>>  BY <1>3 DEF Filter
  <2>2. PICK f \in {"all", "some"} :
          Look([view EXCEPT !.filter = f, !.page = IF Page.keepsPage THEN @ ELSE 1])
    BY <1>3 DEF Filter
  <2>3. [view EXCEPT !.filter = f, !.page = IF Page.keepsPage THEN @ ELSE 1] \in Views
    <3>1. 1 \in 1 .. Cardinality(Rows) /\ view.page \in 1 .. Cardinality(Rows)
      BY <1>1, RowsCount DEF Views
    <3>2. CASE Page.keepsPage  BY <1>1, <3>1, <3>2 DEF Views
    <3>3. CASE ~Page.keepsPage  BY <1>1, <3>1, <3>3 DEF Views
    <3> QED  BY <3>2, <3>3
  <2> QED  BY <2>1, <2>2, <2>3, LookStep
<1> QED  BY <1>2, <1>3

-----------------------------------------------------------------------------
(* The writes.                                                             *)

\* A write is asked for, of a row unless it creates one.
LEMMA AskedStep ==
    ASSUME IInv, NEW kind \in {"create", "remove", "toggle", "resolve", "update"},
           NEW row \in Rows \cup {0}, kind # "create" => row \in Rows,
           NEW w \in WriteIds, Asked(kind, row, w),
           form' = form \/ (form' = [form EXCEPT !.waits = w] /\ form.open # "no"),
           UNCHANGED <<list, rows, view, query, gone, previous>>
    PROVE  IInv'
<1> DEFINE new == [kind |-> kind, row |-> row, stage |-> "sent"]
<1>1. new \in Writes  BY DEF Writes
<1>2. write' = [write EXCEPT ![w] = new] /\ write[w] = NoWrite  BY DEF Asked
<1>3. write \in [WriteIds -> Writes] /\ form \in Forms  BY DEF IInv, TypeInv
<1>4. \A v \in WriteIds : write'[v] = IF v = w THEN new ELSE write[v]  BY <1>2, <1>3
<1>5. new.kind = kind /\ new.row = row /\ new.stage = "sent"  OBVIOUS
<1>6. NoWrite.stage = "idle"  BY DEF NoWrite
<1>7. form' \in Forms  BY <1>3 DEF Forms
<1> HIDE DEF new
<1>8. TypeInv'  BY <1>1, <1>2, <1>3, <1>7 DEF IInv, TypeInv
<1>9. QueryInv' /\ CleanInv'  BY DEF IInv, QueryInv, CleanInv, Active, Key
<1>10. WriteInv'
  <2>1. \A v \in WriteIds :
          /\ write'[v].kind \notin {"none", "create"} => write'[v].row \in Rows
          /\ write'[v].stage # "idle" => write'[v].kind # "none"
    BY <1>4, <1>5 DEF IInv, WriteInv
  <2>2. form'.waits # 0 => write'[form'.waits].stage # "idle" /\ form'.open # "no"
    <3>1. CASE form' = form
      BY <3>1, <1>3, <1>4, <1>5 DEF IInv, WriteInv, Forms
    <3>2. CASE form' = [form EXCEPT !.waits = w] /\ form.open # "no"
      BY <3>2, <1>3, <1>4, <1>5 DEF Forms
    <3> QED  BY <3>1, <3>2
  <2>3. form'.open = form.open /\ form'.row = form.row  BY <1>3 DEF Forms
  <2> QED  BY <2>1, <2>2, <2>3 DEF IInv, WriteInv
<1>11. GoneInv'  BY <1>4, <1>5 DEF IInv, GoneInv
<1> QED  BY <1>8, <1>9, <1>10, <1>11 DEF IInv

LEMMA PressStep ==
    ASSUME IInv, NEW w \in WriteIds, Press(w)
    PROVE  IInv'
<1>1. PICK kind \in Page.buttons, r \in Items : Asked(kind, r, w)  BY DEF Press
<1>2. UNCHANGED <<list, rows, view, query, form, gone, previous>>  BY DEF Press
<1>3. kind \in {"remove", "toggle", "resolve"}  BY PageIs DEF IInv, TypeInv
<1>4. r \in Rows  BY ShownIs
<1> QED  BY <1>1, <1>2, <1>3, <1>4, AskedStep

LEMMA SubmitStep ==
    ASSUME IInv, NEW w \in WriteIds, Submit(w)
    PROVE  IInv'
<1>1. /\ form' = [form EXCEPT !.waits = w] /\ form.open # "no"
      /\ UNCHANGED <<list, rows, view, query, gone, previous>>
      /\ Asked(form.open, form.row, w)
  BY DEF Submit
<1>2. /\ form.open \in {"create", "update"} /\ form.row \in Rows \cup {0}
      /\ form.open # "create" => form.row \in Rows
  BY <1>1 DEF IInv, TypeInv, WriteInv, Forms
<1> QED  BY <1>1, <1>2, AskedStep

LEMMA DialogStep ==
    ASSUME IInv, Dialog
    PROVE  IInv'
<1>1. /\ UNCHANGED <<list, rows, view, query, write, gone, previous>>
      /\ form' \in Opened \/ form' = NoForm
  BY DEF Dialog
<1>2. /\ form' \in Forms /\ form'.waits = 0
      /\ form'.open = "update" => form'.row \in Rows
  <2>1. CASE form' = NoForm  BY <2>1 DEF NoForm, Forms
  <2>2. CASE form' = [NoForm EXCEPT !.open = "create"]  BY <2>2 DEF NoForm, Forms
  <2>3. ASSUME NEW r \in Items, form' = [NoForm EXCEPT !.open = "update", !.row = r]
        PROVE  form' \in Forms /\ form'.waits = 0 /\ form'.row \in Rows
    BY <2>3, ShownIs DEF NoForm, Forms
  <2> QED  BY <1>1, <2>1, <2>2, <2>3 DEF Opened
<1>3. TypeInv'  BY <1>1, <1>2 DEF IInv, TypeInv
<1>4. QueryInv' /\ GoneInv' /\ CleanInv'
  BY <1>1 DEF IInv, QueryInv, GoneInv, CleanInv, Active, Key
<1>5. WriteInv'  BY <1>1, <1>2 DEF IInv, WriteInv
<1> QED  BY <1>3, <1>4, <1>5 DEF IInv

\* No write brings a removed row back, and the one that removes a row does.
LEMMA ChangedIs ==
    ASSUME rows \in Tables, NEW w \in Writes, w.kind # "none",
           w.kind # "create" => w.row \in Rows, NEW table \in Changed(w)
    PROVE  /\ table \in Tables
           /\ \A r \in Rows : rows[r] = "removed" => table[r] = "removed"
           /\ w.kind = "remove" => table[w.row] = "removed"
<1>1. CASE w.kind = "create"
  <2>1. PICK r \in Unused : table = [rows EXCEPT ![r] = "on"]
    BY <1>1 DEF Changed, Created
  <2>2. r \in Rows /\ rows[r] = "never"  BY <2>1 DEF Unused
  <2> QED  BY <1>1, <2>1, <2>2 DEF Tables
<1>2. CASE w.kind # "create"
  <2>1. rows[w.row] # "removed" /\ w.row \in Rows  BY <1>2 DEF Changed
  <2>2. PICK to \in {"never", "on", "off", "removed"} :
          /\ table = [rows EXCEPT ![w.row] = to]
          /\ w.kind = "remove" => to = "removed"
    <3>1. CASE w.kind = "remove"  BY <3>1, <2>1 DEF Changed
    <3>2. CASE w.kind = "toggle"  BY <3>2, <2>1 DEF Changed, Turned, Tables
    <3>3. CASE w.kind = "resolve"  BY <3>3, <2>1 DEF Changed
    <3>4. CASE w.kind = "update"
      <4>1. table = [rows EXCEPT ![w.row] = rows[w.row]]
        BY <3>4, <2>1 DEF Changed, Tables
      <4>2. rows[w.row] \in {"never", "on", "off", "removed"}  BY <2>1 DEF Tables
      <4> QED  BY <3>4, <4>1, <4>2
    <3> QED  BY <1>2, <3>1, <3>2, <3>3, <3>4 DEF Writes
  <2> QED  BY <2>1, <2>2 DEF Tables
<1> QED  BY <1>1, <1>2

\* The table changes, removed rows apart.
LEMMA TableStep ==
    ASSUME IInv, rows' \in Tables,
           \A r \in Rows : rows[r] = "removed" => rows'[r] = "removed",
           write' \in [WriteIds -> Writes],
           \A v \in WriteIds : /\ write'[v].kind = write[v].kind /\ write'[v].row = write[v].row
                               /\ (write'[v].stage = "idle") = (write[v].stage = "idle"),
           \A v \in WriteIds : write'[v].kind = "remove" /\ write'[v].stage = "ok" =>
                               rows'[write'[v].row] = "removed",
           UNCHANGED <<list, view, query, form, gone, previous>>
    PROVE  IInv'
<1>1. TypeInv'  BY DEF IInv, TypeInv
<1>2. QueryInv' /\ CleanInv'  BY DEF IInv, QueryInv, CleanInv, Active, Key
<1>3. form.waits # 0 => form.waits \in WriteIds  BY DEF IInv, TypeInv, Forms
<1>4. WriteInv'  BY <1>3 DEF IInv, WriteInv
<1>5. GoneInv'  BY DEF IInv, TypeInv, GoneInv
<1> QED  BY <1>1, <1>2, <1>4, <1>5 DEF IInv

LEMMA ServeWriteStep ==
    ASSUME IInv, NEW w \in WriteIds, ServeWrite(w)
    PROVE  IInv'
<1>t. /\ rows \in Tables /\ write \in [WriteIds -> Writes]
      /\ \A v \in WriteIds : write[v].kind \notin {"none", "create"} => write[v].row \in Rows
  BY DEF IInv, TypeInv, WriteInv
<1>1. write[w].stage = "sent" /\ write[w].kind # "none"
  BY DEF ServeWrite, IInv, WriteInv
<1>2. PICK a \in Applied(write[w]) :
        rows' = a[1] /\ write' = [write EXCEPT ![w].stage = a[2]]
  BY DEF ServeWrite
<1>3. UNCHANGED <<list, view, query, form, gone, previous>>  BY DEF ServeWrite
<1>4. /\ a[2] \in {"ok", "error"}
      /\ a[1] \in Changed(write[w]) \/ (a[1] = rows /\ a[2] = "error")
  BY <1>2 DEF Applied
<1>5. /\ rows' \in Tables
      /\ \A r \in Rows : rows[r] = "removed" => rows'[r] = "removed"
      /\ a[2] = "ok" /\ write[w].kind = "remove" => rows'[write[w].row] = "removed"
  <2>1. CASE a[1] \in Changed(write[w])  BY <2>1, <1>t, <1>1, <1>2, ChangedIs
  <2>2. CASE a[1] = rows /\ a[2] = "error"  BY <2>2, <1>t, <1>2
  <2> QED  BY <1>4, <2>1, <2>2
<1>6. /\ write' \in [WriteIds -> Writes]
      /\ write'[w].stage = a[2] /\ write'[w].kind = write[w].kind
      /\ write'[w].row = write[w].row
      /\ \A v \in WriteIds : v # w => write'[v] = write[v]
  BY <1>t, <1>2, <1>4 DEF Writes
<1>7. \A v \in WriteIds : /\ write'[v].kind = write[v].kind /\ write'[v].row = write[v].row
                          /\ (write'[v].stage = "idle") = (write[v].stage = "idle")
  BY <1>1, <1>4, <1>6
<1>8. \A v \in WriteIds : write'[v].kind = "remove" /\ write'[v].stage = "ok" =>
                          rows'[write'[v].row] = "removed"
  BY <1>t, <1>5, <1>6 DEF IInv, GoneInv
<1> QED  BY <1>3, <1>5, <1>6, <1>7, <1>8, TableStep

LEMMA OthersStep ==
    ASSUME IInv, Others
    PROVE  IInv'
<1>t. /\ rows \in Tables /\ write \in [WriteIds -> Writes]
      /\ \A v \in WriteIds : write[v].kind \notin {"none", "create"} => write[v].row \in Rows
  BY DEF IInv, TypeInv, WriteInv
<1>1. UNCHANGED <<list, view, query, write, form, gone, previous>>  BY DEF Others
<1>2. PICK r \in Rows, to \in {"on", "off", "removed"} :
        rows[r] # "removed" /\ rows' = [rows EXCEPT ![r] = to]
  BY <1>t DEF Others, Created, Turned, Tables
<1>3. /\ rows' \in Tables
      /\ \A s \in Rows : rows[s] = "removed" => rows'[s] = "removed"
  BY <1>t, <1>2 DEF Tables
<1>4. \A v \in WriteIds : write'[v].kind = "remove" /\ write'[v].stage = "ok" =>
                          rows'[write'[v].row] = "removed"
  BY <1>t, <1>1, <1>3 DEF IInv, GoneInv
<1> QED  BY <1>t, <1>1, <1>3, <1>4, TableStep

LEMMA MarkedStale ==
    ASSUME NEW e \in Entries, NEW k, Keeps(e, k)
    PROVE  /\ [e EXCEPT !.fresh = FALSE] \in Entries
           /\ Keeps([e EXCEPT !.fresh = FALSE], k)
           /\ [e EXCEPT !.fresh = FALSE].stage = e.stage
           /\ [e EXCEPT !.fresh = FALSE].next = e.next
           /\ [e EXCEPT !.fresh = FALSE].fresh = FALSE
<1> DEFINE f == [e EXCEPT !.fresh = FALSE]
<1>1. f \in Entries  BY DEF Entries
<1>2. /\ f.data = e.data /\ f.stage = e.stage
      /\ f.next = e.next /\ f.failed = e.failed /\ f.fresh = FALSE
  BY DEF Entries
<1> HIDE DEF f
<1>3. Keeps(f, k)  BY <1>2 DEF Keeps
<1> QED  BY <1>1, <1>2, <1>3 DEF f

\* onSuccess: nothing of the list is fresh any more, and what was in flight for
\* it is asked for again, or left alone.
LEMMA InvalidatedIs ==
    ASSUME IInv
    PROVE  /\ Invalidated(query) \in [QueryKeys -> Entries]
           /\ \A k \in QueryKeys : Keeps(Invalidated(query)[k], k)
           /\ Settled(Invalidated(query)[Active])
           /\ \A k \in Views :
                /\ Invalidated(query)[k].fresh = FALSE
                /\ Invalidated(query)[k].stage = "answered" =>
                     /\ LeftAlone(k) /\ query[k].stage = "answered"
                     /\ Invalidated(query)[k].next = query[k].next
<1> DEFINE q == Invalidated(query)
<1>1. Active = view /\ Active \in QueryKeys /\ Active # Badge /\ Views \subseteq QueryKeys
  BY ShownIs, ViewsDiffer
<1>2. query \in [QueryKeys -> Entries] /\ \A k \in QueryKeys : Keeps(query[k], k)
  BY DEF IInv, QueryInv
<1>3. q = [k \in QueryKeys |->
             CASE k = Badge -> query[k]
               [] k = Active /\ ~LeftAlone(k) -> [Asking(query[k], view) EXCEPT !.fresh = FALSE]
               [] OTHER -> [query[k] EXCEPT !.fresh = FALSE]]
  BY <1>2 DEF Invalidated
<1>4. q[Badge] = query[Badge]  BY <1>1, <1>3, ViewsDiffer
<1>5. ~LeftAlone(Active) => q[Active] = [Asking(query[Active], Active) EXCEPT !.fresh = FALSE]
  BY <1>1, <1>3
<1>6. \A k \in Views : k # Active \/ LeftAlone(k) => q[k] = [query[k] EXCEPT !.fresh = FALSE]
  BY <1>1, <1>3, ViewsDiffer
<1>7. q = [k \in QueryKeys |-> q[k]]  BY <1>3
<1> HIDE DEF q
<1>8. ~LeftAlone(Active) => /\ q[Active] \in Entries /\ Keeps(q[Active], Active)
                            /\ q[Active].stage = "asked" /\ q[Active].fresh = FALSE
  <2> SUFFICES ASSUME ~LeftAlone(Active)
               PROVE  /\ q[Active] \in Entries /\ Keeps(q[Active], Active)
                      /\ q[Active].stage = "asked" /\ q[Active].fresh = FALSE
    OBVIOUS
  <2>1. Asking(query[Active], Active) \in Entries /\ Keeps(Asking(query[Active], Active), Active)
        /\ Asking(query[Active], Active).stage = "asked"
    BY <1>1, <1>2, AskingIs
  <2> QED  BY <1>5, <2>1, MarkedStale
<1>9. ASSUME NEW k \in Views, k # Active \/ LeftAlone(k)
      PROVE  /\ q[k] \in Entries /\ Keeps(q[k], k) /\ q[k].fresh = FALSE
             /\ q[k].stage = query[k].stage /\ q[k].next = query[k].next
  <2>1. query[k] \in Entries /\ Keeps(query[k], k)  BY <1>1, <1>2
  <2> QED  BY <1>6, <1>9, <2>1, MarkedStale
<1>10. \A k \in Views : q[k] \in Entries /\ Keeps(q[k], k) /\ q[k].fresh = FALSE
  BY <1>8, <1>9
<1>11. \A k \in QueryKeys : q[k] \in Entries /\ Keeps(q[k], k)
  BY <1>2, <1>4, <1>10 DEF QueryKeys
<1>12. q \in [QueryKeys -> Entries]  BY <1>7, <1>11
<1>13. Settled(q[Active])
  <2>1. LeftAlone(Active) => query[Active].stage # "idle"  BY DEF LeftAlone
  <2>2. Active \in Views  BY ShownIs
  <2> QED  BY <1>8, <1>9, <2>1, <2>2 DEF Settled
<1>14. ASSUME NEW k \in Views, q[k].stage = "answered"
       PROVE  LeftAlone(k) /\ query[k].stage = "answered" /\ q[k].next = query[k].next
  <2>1. k # Active \/ LeftAlone(k)  BY <1>8, <1>14
  <2>2. q[k].stage = query[k].stage /\ q[k].next = query[k].next  BY <1>9, <2>1
  <2>3. LeftAlone(k)  BY <1>14, <2>1, <2>2 DEF LeftAlone
  <2> QED  BY <1>14, <2>2, <2>3
<1> QED  BY <1>10, <1>11, <1>12, <1>13, <1>14 DEF q

LEMMA FinishStep ==
    ASSUME IInv, NEW w \in WriteIds, Finish(w)
    PROVE  IInv'
<1> DEFINE done == write[w]
           told == done.stage = "ok" /\ done.kind = "remove"
<1>t. /\ write \in [WriteIds -> Writes] /\ form \in Forms /\ 0 \notin WriteIds
      /\ TypeInv /\ QueryInv /\ WriteInv /\ GoneInv /\ CleanInv
  BY ListAssumption DEF IInv, TypeInv
<1>1. /\ done.stage \in {"ok", "error"} /\ write' = [write EXCEPT ![w] = NoWrite]
      /\ query' = IF done.stage = "ok" THEN Invalidated(query) ELSE query
      /\ gone' = [k \in Views |-> IF told /\ ~LeftAlone(k) THEN gone[k] \cup {done.row}
                                  ELSE gone[k]]
      /\ form' = FormAfter(w) /\ UNCHANGED <<list, rows, view, previous>>
  BY DEF Finish
<1>2. NoWrite \in Writes /\ NoWrite.kind = "none" /\ NoWrite.stage = "idle"
  BY DEF NoWrite, Writes
<1>3. \A v \in WriteIds : write'[v] = IF v = w THEN NoWrite ELSE write[v]  BY <1>1, <1>t
<1>4. /\ form' \in Forms /\ (form'.waits # 0 => form' = form /\ form.waits # w)
      /\ form'.open = "update" => form'.row = form.row /\ form.open = "update"
  BY <1>t, <1>1 DEF FormAfter, NoForm, Forms
<1>5. done.kind = "remove" => done.row \in Rows  BY <1>t DEF WriteInv
<1>6. told => rows[done.row] = "removed"  BY <1>t DEF GoneInv
<1> HIDE DEF done, told
<1>7. gone' \in [Views -> SUBSET Rows]  BY <1>t, <1>1, <1>5 DEF TypeInv, told
<1>8. TypeInv'  BY <1>t, <1>1, <1>2, <1>4, <1>7 DEF TypeInv
<1>9. QueryInv'  BY <1>1, <1>t, InvalidatedIs DEF QueryInv
<1>10. WriteInv'
  <2>1. form.waits # 0 => form.waits \in WriteIds  BY <1>t DEF Forms
  <2>2. form'.waits # 0 => write'[form'.waits].stage # "idle" /\ form'.open # "no"
    BY <1>t, <1>3, <1>4, <2>1 DEF WriteInv
  <2> QED  BY <1>t, <1>2, <1>3, <1>4, <2>2 DEF WriteInv
<1>11. GoneInv'
  <2>1. \A k \in Views : \A r \in gone'[k] : rows'[r] = "removed"
    BY <1>t, <1>1, <1>6 DEF GoneInv
  <2> QED  BY <1>t, <1>1, <1>2, <1>3, <2>1 DEF GoneInv
<1>12. CleanInv'
  <2>1. Active' = Active  BY <1>1 DEF Active, Key
  <2>2. CASE done.stage = "ok"
    <3>1. query' = Invalidated(query)  BY <1>1, <2>2
    <3>2. \A k \in Views : LeftAlone(k) => gone'[k] = gone[k]  BY <1>1
    <3>3. ASSUME NEW k \in Views PROVE Clean(query'[k], gone'[k])
      BY <1>t, <3>1, <3>2, InvalidatedIs DEF CleanInv, Clean
    <3> QED  BY <2>1, <3>1, <3>3, InvalidatedIs DEF CleanInv
  <2>3. CASE done.stage # "ok"
    <3>1. query' = query /\ \A k \in Views : gone'[k] = gone[k]  BY <1>1, <2>3 DEF told
    <3> QED  BY <1>t, <2>1, <3>1 DEF CleanInv
  <2> QED  BY <2>2, <2>3
<1> QED  BY <1>8, <1>9, <1>10, <1>11, <1>12 DEF IInv

-----------------------------------------------------------------------------
(* The theorems.                                                           *)

LEMMA Initially == ListInit => IInv
<1> SUFFICES ASSUME ListInit PROVE IInv  OBVIOUS
<1> DEFINE qs == [k \in QueryKeys |->
                    IF Polling(k) /\ k = Badge THEN Asking(NoEntry, k) ELSE NoEntry]
<1>1. NoEntry \in Entries /\ \A k : Keeps(NoEntry, k) /\ Clean(NoEntry, {})
  BY DEF NoEntry, Entries, Keeps, Clean
<1>2. \A k \in QueryKeys : qs[k] \in Entries /\ Keeps(qs[k], k)
  BY <1>1, AskingIs
<1>c. \A k \in Views : Clean(qs[k], {})  BY <1>1, ViewsDiffer
<1>3. query \in LookAt(qs, FirstPage)  BY DEF ListInit, QueryKeys
<1>4. qs \in [QueryKeys -> Entries]  BY <1>2
<1> HIDE DEF qs
<1>5. QueryInv /\ Settled(query[FirstPage]) /\ \A k \in Views : Clean(query[k], {})
  BY <1>2, <1>c, <1>3, <1>4, FirstPageIsView, LookAtKeeps DEF QueryInv
<1>6. write = [w \in WriteIds |-> NoWrite] /\ NoWrite \in Writes
      /\ NoWrite.kind = "none" /\ NoWrite.stage = "idle"
  BY DEF ListInit, NoWrite, Writes
<1>7. form \in Forms /\ form.waits = 0 /\ form.open = "no"  BY DEF ListInit, NoForm, Forms
<1>8. TypeInv  BY <1>6, <1>7, FirstPageIsView DEF ListInit, TypeInv, Tables
<1>9. WriteInv  BY <1>6, <1>7 DEF WriteInv
<1>10. GoneInv  BY <1>6 DEF ListInit, GoneInv
<1>11. CleanInv  BY <1>5 DEF ListInit, CleanInv, Active, Key
<1> QED  BY <1>5, <1>8, <1>9, <1>10, <1>11 DEF IInv

LEMMA Preserved == IInv /\ [ListNext]_listVars => IInv'
<1> SUFFICES ASSUME IInv, [ListNext]_listVars PROVE IInv'  OBVIOUS
<1>1. ASSUME NEW k \in QueryKeys, Serve(k) \/ Arrive(k) \/ Poll(k) PROVE IInv'
  BY <1>1, ServeStep, ArriveStep, PollStep
<1>2. CASE TurnPage \/ Filter  BY <1>2, ViewStep
<1>3. CASE Dialog  BY <1>3, DialogStep
<1>4. CASE Others  BY <1>4, OthersStep
<1>5. ASSUME NEW w \in WriteIds, Press(w) \/ Submit(w) PROVE IInv'
  BY <1>5, PressStep, SubmitStep
<1>6. ASSUME NEW w \in WriteIds, ServeWrite(w) PROVE IInv'  BY <1>6, ServeWriteStep
<1>7. ASSUME NEW w \in WriteIds, Finish(w) PROVE IInv'  BY <1>7, FinishStep
<1>8. CASE UNCHANGED listVars
  <2>1. UNCHANGED <<list, rows, view, query, write, form, gone, previous>>
    BY <1>8 DEF listVars
  <2> QED  BY <2>1 DEF IInv, TypeInv, QueryInv, WriteInv, GoneInv, CleanInv, Active, Key
<1> QED  BY <1>1, <1>2, <1>3, <1>4, <1>5, <1>6, <1>7, <1>8 DEF ListNext, QueryKeys

\* Table, cache, forms and writes of every list page keep their types, whatever
\* is asked, answered, lost or changed by others, and a form waits only for a
\* write that is in flight (the mutations of the pages and their dialogs).
THEOREM ListTyped == ListSpec => []ListTypeOK
<1>1. ListInit => IInv  BY Initially
<1>2. IInv /\ [ListNext]_listVars => IInv'  BY Preserved
<1>3. IInv => ListTypeOK
  <2> SUFFICES ASSUME IInv PROVE ListTypeOK  OBVIOUS
  <2>1. 0 .. Cardinality(Rows) \subseteq Nat  BY RowsCount
  <2>2. \A a \in Answers : IsAnswer(a)  BY <2>1 DEF IsAnswer, Answers, QueryKeys
  <2>3. IsAnswer(NoData)  BY DEF IsAnswer
  <2>5. ASSUME NEW k \in QueryKeys
        PROVE  /\ query[k].stage \in {"idle", "asked", "answered"} /\ IsAnswer(query[k].data)
               /\ {query[k].fresh, query[k].failed} \subseteq BOOLEAN
               /\ query[k].stage = "answered" => IsAnswer(query[k].next)
    <3>1. query[k] \in Entries /\ Keeps(query[k], k)  BY DEF IInv, QueryInv
    <3>2. query[k].data \in Answers \cup {NoData} /\ query[k].fresh \in BOOLEAN
          /\ query[k].failed \in BOOLEAN /\ query[k].stage \in {"idle", "asked", "answered"}
      BY <3>1 DEF Entries
    <3> QED  BY <2>2, <2>3, <3>1, <3>2 DEF Keeps
  <2>6. form.open \in {"no", "create", "update"} /\ form.row \in Rows \cup {0}
    BY DEF IInv, TypeInv, Forms
  <2>7. form.waits \in WriteIds => write[form.waits].stage # "idle" /\ form.open # "no"
    BY ListAssumption DEF IInv, WriteInv
  <2> QED  BY <2>5, <2>6, <2>7 DEF ListTypeOK, IInv, TypeInv, Tables, QueryKeys
<1> QED  BY <1>1, <1>2, <1>3, PTL DEF ListSpec

\* For any number of views and answers in any order: what is shown undimmed was
\* asked for with the page and the filters on view (the query keys of the pages).
THEOREM ShownAsChosen == ListSpec => []AnswerMatchesView
<1>1. ListInit => IInv  BY Initially
<1>2. IInv /\ [ListNext]_listVars => IInv'  BY Preserved
<1>3. IInv => AnswerMatchesView
  <2> SUFFICES ASSUME IInv, Shown # NoData, ~Dimmed PROVE Shown.for = view
    BY DEF AnswerMatchesView
  <2>1. Shown = query[Active].data  BY DEF Shown
  <2>2. Keeps(query[Active], Active)  BY ShownIs DEF IInv, QueryInv
  <2> QED  BY <2>1, <2>2 DEF Keeps, Active, Key
<1> QED  BY <1>1, <1>2, <1>3, PTL DEF ListSpec

\* A quiet list has come to a fresh answer for its view, or failed.
LEMMA QuietIsFresh ==
    ASSUME IInv, query[Active].stage = "idle", ~query[Active].failed
    PROVE  /\ Shown = query[Active].data /\ Shown # NoData /\ Shown.for = view
           /\ gone[Active] \cap Items = {}
<1>1. Active = view /\ Active \in Views /\ Active \in QueryKeys  BY ShownIs
<1>2. query[Active].fresh  BY DEF IInv, CleanInv, Settled
<1>3. Keeps(query[Active], Active) /\ Clean(query[Active], gone[Active])
  BY <1>1 DEF IInv, QueryInv, CleanInv
<1>4. query[Active].data \in Answers  BY <1>2, <1>3 DEF Keeps
<1>5. query[Active].data # NoData  BY <1>4, AnswerIsData
<1>6. Shown = query[Active].data  BY <1>5 DEF Shown, Dimmed
<1> QED  BY <1>1, <1>2, <1>3, <1>5, <1>6 DEF Keeps, Clean, Items

\* For any number of writes in flight, of other admins' changes and of failed
\* fetches, on whatever view, looked at for the first time or again: once the
\* list is quiet, no row is on it whose removal was confirmed, except where the
\* invalidation of onSuccess left an answer on its way alone.
THEOREM StaysRemoved == ListSpec => []RemovedIsGone
<1>1. ListInit => IInv  BY Initially
<1>2. IInv /\ [ListNext]_listVars => IInv'  BY Preserved
<1>3. IInv => RemovedIsGone  BY QuietIsFresh DEF RemovedIsGone
<1> QED  BY <1>1, <1>2, <1>3, PTL DEF ListSpec

\* For any pages, and fetches that fail or are overtaken by the choice of another
\* view: what a page says is nothing is the server's answer for the view it
\* shows, or its last fetch failed (the empty states of the pages).
THEOREM EmptyIsTold == ListSpec => []NothingIsAnAnswer
<1>1. ListInit => IInv  BY Initially
<1>2. IInv /\ [ListNext]_listVars => IInv'  BY Preserved
<1>3. IInv => NothingIsAnAnswer
  <2> SUFFICES ASSUME IInv, SaysEmpty, Page.empty # "at once", ~query[Active].failed
      PROVE  Shown # NoData /\ Shown.for = view
    BY DEF NothingIsAnAnswer
  <2>1. CASE query[Active].stage = "idle"  BY <2>1, QuietIsFresh
  <2>2. CASE query[Active].stage # "idle"
    <3>1. Shown # NoData /\ ~Page.dims
      BY <2>2, PageIs DEF SaysEmpty, Loading, IInv, TypeInv
    <3>2. Shown = query[Active].data  BY <3>1 DEF Shown, Dimmed
    <3>3. Keeps(query[Active], Active) /\ Active = view  BY ShownIs DEF IInv, QueryInv
    <3> QED  BY <3>1, <3>2, <3>3 DEF Keeps
  <2> QED  BY <2>1, <2>2
<1> QED  BY <1>1, <1>2, <1>3, PTL DEF ListSpec
=============================================================================
