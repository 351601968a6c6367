----------------------------- MODULE PagesProofs -----------------------------
(***************************************************************************)
(* Proofs about the two pages that keep a form of their own: Playgrounds,  *)
(* for any texts, any runs in flight and any number of runs and links, and *)
(* SettingsPage, for any number of keys and any values.                    *)
(***************************************************************************)
EXTENDS Playgrounds, SettingsPage, TLAPS

Runs == [RunIds -> Payload \cup {NoPayload}]

-----------------------------------------------------------------------------
(* Playgrounds.  The inductive invariant: on the dashboard at most one run *)
(* is under way and it is the last one started, so the answer that comes   *)
(* is its own.                                                             *)

PlayTypeInv ==
    /\ site \in {"dashboard", "public"} /\ fields \in Payload /\ loading \in BOOLEAN
    /\ result \in Payload \cup {NoPayload} /\ last \in Payload \cup {NoPayload}
    /\ run \in Runs
    /\ link \in Links \cup {NoLink} /\ opened \in Links \cup {NoLink}
PublicInv ==
    site = "public" => ~fields.own /\ \A r \in RunIds : ~run[r].own
DashboardInv ==
    site = "dashboard" =>
        /\ loading = TRUE <=> \E r \in RunIds : run[r] # NoPayload
        /\ \A r \in RunIds : run[r] # NoPayload => run[r] = last
        /\ \A r, s \in RunIds : run[r] # NoPayload /\ run[s] # NoPayload => r = s
        /\ loading = TRUE => result = NoPayload
        /\ result # NoPayload => result = last

PlayInv == PlayTypeInv /\ PublicInv /\ DashboardInv

\* A payload is never the absence of one.
LEMMA PayloadsDiffer ==
    /\ Empty \in Payload /\ ~Empty.own /\ ~NoPayload.own
    /\ NoPayload \notin Payload
BY DEF Empty, Payload, NoPayload, Blank

\* What a link is parsed to.
LEMMA ParsedKeeps ==
    ASSUME NEW l \in Links
    PROVE  Parsed(l) \in Payload \cup {NoPayload} /\ ~Parsed(l).own
<1>1. CASE l.form = "percent" \/ l.of.input \in PlusTexts
  BY <1>1, PayloadsDiffer DEF Parsed
<1>2. CASE ~(l.form = "percent" \/ l.of.input \in PlusTexts)
  <2>1. l.of \in Payload  BY DEF Links
  <2>2. Parsed(l) = [l.of EXCEPT !.own = FALSE]  BY <1>2 DEF Parsed
  <2> QED  BY <2>1, <2>2 DEF Payload
<1> QED  BY <1>1, <1>2

LEMMA PlayInitially == PlayInit => PlayInv
<1> SUFFICES ASSUME PlayInit PROVE PlayInv  OBVIOUS
<1>1. PlayTypeInv  BY PayloadsDiffer DEF PlayInit, PlayTypeInv, Runs
<1>2. PublicInv  BY PayloadsDiffer DEF PlayInit, PublicInv
<1>3. DashboardInv  BY DEF PlayInit, DashboardInv
<1> QED  BY <1>1, <1>2, <1>3 DEF PlayInv

\* A run of the public page.
LEMMA PublicStarts ==
    ASSUME PlayInv, NEW r \in RunIds, NEW p \in Payload, Started(p, r), ~p.own,
           site = "public", site' = "public", fields' \in Payload, ~fields'.own,
           UNCHANGED <<result, link, opened>>
    PROVE  PlayInv'
<1>1. /\ loading' = TRUE /\ last' = p
      /\ run' = [run EXCEPT ![r] = p]
  BY DEF Started
<1>2. PlayTypeInv'  BY <1>1 DEF PlayInv, PlayTypeInv, Runs
<1>3. PublicInv'  BY <1>1 DEF PlayInv, PlayTypeInv, PublicInv, Runs
<1>4. DashboardInv'  BY DEF DashboardInv
<1> QED  BY <1>2, <1>3, <1>4 DEF PlayInv

LEMMA DashboardStarts ==
    ASSUME PlayInv, NEW r \in RunIds, DashboardRun(r)
    PROVE  PlayInv'
<1>1. /\ site = "dashboard" /\ site' = "dashboard" /\ ~loading
      /\ run' = [run EXCEPT ![r] = fields] /\ last' = fields
      /\ loading' = TRUE /\ result' = NoPayload
      /\ UNCHANGED <<fields, link, opened>>
  BY DEF DashboardRun, Started, Cleared
<1>2. \A s \in RunIds : run[s] = NoPayload
  BY <1>1 DEF PlayInv, PlayTypeInv, DashboardInv
<1>3. \A s \in RunIds : run'[s] = IF s = r THEN fields ELSE run[s]
  BY <1>1 DEF PlayInv, PlayTypeInv, Runs
<1>4. PlayTypeInv'  BY <1>1 DEF PlayInv, PlayTypeInv, Runs
<1>5. PublicInv'  BY <1>1 DEF PublicInv
<1>6. fields # NoPayload  BY PayloadsDiffer DEF PlayInv, PlayTypeInv
<1>7. DashboardInv'  BY <1>1, <1>2, <1>3, <1>6 DEF DashboardInv
<1> QED  BY <1>4, <1>5, <1>7 DEF PlayInv

LEMMA RunEnds ==
    ASSUME PlayInv, NEW r \in RunIds, EndRun(r)
    PROVE  PlayInv'
<1>1. /\ run[r] # NoPayload /\ (result' = run[r] \/ result' = result)
      /\ loading' = FALSE /\ run' = [run EXCEPT ![r] = NoPayload]
      /\ UNCHANGED <<site, fields, last, link, opened>>
  BY DEF EndRun, Verdict, Idle
<1>2. \A s \in RunIds : run'[s] = IF s = r THEN NoPayload ELSE run[s]
  BY <1>1 DEF PlayInv, PlayTypeInv, Runs
<1>3. PlayTypeInv'  BY <1>1 DEF PlayInv, PlayTypeInv, Runs
<1>4. PublicInv'  BY <1>1, <1>2, PayloadsDiffer DEF PlayInv, PublicInv
<1>5. ASSUME site = "dashboard" PROVE DashboardInv'
  <2>1. run[r] = last  BY <1>1, <1>5 DEF PlayInv, DashboardInv
  <2>2. \A s \in RunIds : run'[s] = NoPayload
    BY <1>1, <1>2, <1>5 DEF PlayInv, DashboardInv
  <2>3. result' # NoPayload => result' = last'
    BY <1>1, <1>5, <2>1 DEF PlayInv, DashboardInv
  <2> QED  BY <1>1, <2>2, <2>3 DEF DashboardInv
<1>6. DashboardInv'  BY <1>1, <1>5 DEF DashboardInv
<1> QED  BY <1>3, <1>4, <1>6 DEF PlayInv

LEMMA LinkOpens ==
    ASSUME PlayInv, NEW r \in RunIds, OpenLink(r)
    PROVE  PlayInv'
<1> DEFINE shared == Parsed(link)  none == [s \in RunIds |-> NoPayload]
<1>1. link \in Links  BY DEF OpenLink, PlayInv, PlayTypeInv
<1>2. shared \in Payload \cup {NoPayload} /\ ~shared.own  BY <1>1, ParsedKeeps
<1>3. /\ site' = "public" /\ opened' = link /\ result' = NoPayload /\ link' = NoLink
      /\ IF shared = NoPayload
         THEN fields' = Empty /\ loading' = FALSE /\ run' = none /\ last' = NoPayload
         ELSE /\ fields' = shared /\ loading' = TRUE
              /\ run' = [none EXCEPT ![r] = shared] /\ last' = shared
  BY DEF OpenLink
<1> HIDE DEF shared
<1>4. fields' \in Payload /\ ~fields'.own /\ loading' \in BOOLEAN
  BY <1>2, <1>3, PayloadsDiffer
<1>5. last' \in Payload \cup {NoPayload}  BY <1>2, <1>3
<1>6. run' \in Runs /\ \A s \in RunIds : ~run'[s].own
  <2>1. CASE shared = NoPayload  BY <1>3, <2>1, PayloadsDiffer DEF Runs
  <2>2. CASE shared # NoPayload  BY <1>2, <1>3, <2>2, PayloadsDiffer DEF Runs
  <2> QED  BY <2>1, <2>2
<1>7. PlayTypeInv'  BY <1>1, <1>3, <1>4, <1>5, <1>6 DEF PlayTypeInv
<1>8. PublicInv'  BY <1>4, <1>6 DEF PublicInv
<1>9. DashboardInv'  BY <1>3 DEF DashboardInv
<1> QED  BY <1>7, <1>8, <1>9 DEF PlayInv

LEMMA PlayPreserved == PlayInv /\ [PlayNext]_playVars => PlayInv'
<1> SUFFICES ASSUME PlayInv, [PlayNext]_playVars PROVE PlayInv'  OBVIOUS
<1>1. CASE Edit
  <2>1. PICK p \in Payload : (site = "public" => ~p.own) /\ fields' = p  BY <1>1 DEF Edit
  <2>2. UNCHANGED <<site, loading, result, run, last, link, opened>>  BY <1>1 DEF Edit
  <2> QED  BY <2>1, <2>2 DEF PlayInv, PlayTypeInv, PublicInv, DashboardInv
<1>2. CASE Share
  <2>1. UNCHANGED <<site, fields, loading, result, run, last, opened>>  BY <1>2 DEF Share
  <2>2. link' \in Links  BY <1>2 DEF Share, Links, PlayInv, PlayTypeInv
  <2> QED  BY <2>1, <2>2 DEF PlayInv, PlayTypeInv, PublicInv, DashboardInv
<1>3. ASSUME NEW r \in RunIds, DashboardRun(r) PROVE PlayInv'  BY <1>3, DashboardStarts
<1>4. ASSUME NEW r \in RunIds, PublicRun(r) PROVE PlayInv'
  <2>1. /\ site = "public" /\ Started(fields, r)
        /\ UNCHANGED <<site, fields, result, link, opened>>
    BY <1>4 DEF PublicRun
  <2>2. fields \in Payload /\ ~fields.own  BY <2>1 DEF PlayInv, PlayTypeInv, PublicInv
  <2> QED  BY <2>1, <2>2, PublicStarts
<1>5. ASSUME NEW r \in RunIds, Sample(r) PROVE PlayInv'
  <2>1. PICK t \in Texts : fields' = [fields EXCEPT !.input = t] /\ Started(fields', r)
    BY <1>5 DEF Sample
  <2>2. site = "public" /\ UNCHANGED <<site, result, link, opened>>  BY <1>5 DEF Sample
  <2>3. fields' \in Payload /\ ~fields'.own
    BY <2>1, <2>2 DEF PlayInv, PlayTypeInv, PublicInv, Payload
  <2> QED  BY <2>1, <2>2, <2>3, PublicStarts
<1>6. ASSUME NEW r \in RunIds, EndRun(r) PROVE PlayInv'  BY <1>6, RunEnds
<1>7. ASSUME NEW r \in RunIds, OpenLink(r) PROVE PlayInv'  BY <1>7, LinkOpens
<1>8. CASE UNCHANGED playVars
  BY <1>8 DEF playVars, PlayInv, PlayTypeInv, PublicInv, DashboardInv
<1> QED  BY <1>1, <1>2, <1>3, <1>4, <1>5, <1>6, <1>7, <1>8 DEF PlayNext

-----------------------------------------------------------------------------
(* The theorems about Playgrounds.                                         *)

\* Inputs, results, runs and links keep their types, and whatever link the
\* public page was opened with, it sends no body of its own (parseShareUrl, run).
THEOREM PlayTyped == PlaySpec => []PlayTypeOK
<1>1. PlayInit => PlayInv  BY PlayInitially
<1>2. PlayInv /\ [PlayNext]_playVars => PlayInv'  BY PlayPreserved
<1>3. PlayInv => PlayTypeOK  BY DEF PlayInv, PlayTypeInv, PublicInv, PlayTypeOK, Runs
<1> QED  BY <1>1, <1>2, <1>3, PTL DEF PlaySpec

\* For any number of runs, edits, presets and links: the dashboard shows the
\* verdict of the last payload it sent or none, and is loading exactly while that
\* run is under way (run, dashboard/playground/page.tsx).
THEOREM VerdictOfLast == PlaySpec => []ResultOfLastRun
<1>1. PlayInit => PlayInv  BY PlayInitially
<1>2. PlayInv /\ [PlayNext]_playVars => PlayInv'  BY PlayPreserved
<1>3. PlayInv => ResultOfLastRun
  <2> SUFFICES ASSUME PlayInv, site = "dashboard"
      PROVE  /\ result # NoPayload => result = last /\ ~loading
             /\ loading = \E r \in RunIds : ~Idle(r)
    BY DEF ResultOfLastRun
  <2>1. loading \in BOOLEAN  BY DEF PlayInv, PlayTypeInv
  <2>2. DashboardInv  BY DEF PlayInv
  <2>3. result # NoPayload => result = last /\ ~loading  BY <2>1, <2>2 DEF DashboardInv
  <2>4. loading = \E r \in RunIds : ~Idle(r)  BY <2>1, <2>2 DEF DashboardInv, Idle
  <2> QED  BY <2>3, <2>4
<1> QED  BY <1>1, <1>2, <1>3, PTL DEF PlaySpec

-----------------------------------------------------------------------------
Forms == [Keys -> Values]

\* A form with at least one key is not the empty one.
LEMMA FormsAreFilled ==
    ASSUME NEW f \in Forms
    PROVE  f # NoValues
<1>1. 1 \in Keys  BY SettingsAssumption DEF Keys
<1>2. 1 \in DOMAIN f  BY <1>1 DEF Forms
<1>3. 1 \notin DOMAIN NoValues  BY DEF NoValues
<1> QED  BY <1>2, <1>3

-----------------------------------------------------------------------------
(* SettingsPage.  SavedAsClicked speaks of a finished save; it is          *)
(* inductive once it speaks of the keys that the handler of the save the   *)
(* card waits for has written so far, whatever other handlers write.       *)

SettingsTypeInv ==
    /\ stored \in Forms /\ over \subseteq Keys
    /\ settings \in [data : Forms \cup {NoValues}, stage : {"idle", "asked", "answered"},
                     next : Forms \cup {NoValues}]
    /\ inputs \in Forms \cup {NoValues}
    /\ save \in [stage : {"none", "sent", "ok", "error"}, of : Forms \cup {NoValues}, id : SaveIds]
    /\ handler \in [SaveIds -> [of : Forms \cup {NoValues}, done : 0 .. KeyCount - 1]]
ShapeInv ==
    /\ settings.stage = "answered" => settings.next \in Forms
    /\ inputs \in Forms <=> settings.data \in Forms
    /\ save.stage # "none" => save.of \in Forms
    /\ \A i \in SaveIds : Writing(i) => handler[i].of \in Forms
\* The save the card waits for is at work, with the values that were clicked.
AwaitedInv == \A i \in SaveIds : Awaited(i) => Writing(i) /\ handler[i].of = save.of
WrittenInv ==
    /\ \A i \in SaveIds : Awaited(i) =>
         \A k \in Keys \ over : k <= handler[i].done => stored[k] = save.of[k]
    /\ SavedAsClicked

SettingsInv == SettingsTypeInv /\ ShapeInv /\ AwaitedInv /\ WrittenInv

LEMMA SomeHandler ==
    /\ KeyCount \in Nat /\ 0 \in 0 .. KeyCount - 1
    /\ NoHandler \in [of : Forms \cup {NoValues}, done : 0 .. KeyCount - 1]
    /\ NoSave.stage = "none" /\ NoSave.of = NoValues /\ NoSave.id \in SaveIds
    /\ NoSave \in [stage : {"none", "sent", "ok", "error"}, of : Forms \cup {NoValues}, id : SaveIds]
<1>1. KeyCount \in Nat /\ 0 \in 0 .. KeyCount - 1  BY SettingsAssumption
<1>2. (CHOOSE i \in SaveIds : TRUE) \in SaveIds  BY SettingsAssumption
<1> QED  BY <1>1, <1>2 DEF NoHandler, NoSave

LEMMA SettingsInitially == SettingsInit => SettingsInv
<1> SUFFICES ASSUME SettingsInit PROVE SettingsInv  OBVIOUS
<1>2. NoValues \notin Forms  BY FormsAreFilled
<1>3. /\ stored \in Forms /\ over = {} /\ inputs = NoValues /\ save = NoSave
      /\ settings = [data |-> NoValues, stage |-> "asked", next |-> NoValues]
      /\ handler = [i \in SaveIds |-> NoHandler]
  BY DEF SettingsInit, Fetching, Forms
<1>4. SettingsTypeInv  BY <1>3, SomeHandler DEF SettingsTypeInv
<1>5. \A i \in SaveIds : ~Writing(i) /\ ~Awaited(i)
  BY <1>3, SomeHandler DEF Writing, Awaited
<1>6. ShapeInv  BY <1>2, <1>3, <1>5, SomeHandler DEF ShapeInv
<1>7. AwaitedInv /\ WrittenInv
  BY <1>3, <1>5, SomeHandler DEF AwaitedInv, WrittenInv, SavedAsClicked
<1> QED  BY <1>4, <1>6, <1>7 DEF SettingsInv

\* A step of the page that leaves the saves alone.
LEMMA FormStep ==
    ASSUME SettingsInv, UNCHANGED <<stored, save, handler, over>>,
           settings' \in [data : Forms \cup {NoValues}, stage : {"idle", "asked", "answered"},
                          next : Forms \cup {NoValues}],
           inputs' \in Forms \cup {NoValues},
           settings'.stage = "answered" => settings'.next \in Forms,
           inputs' \in Forms <=> settings'.data \in Forms
    PROVE  SettingsInv'
<1>1. SettingsTypeInv'  BY DEF SettingsInv, SettingsTypeInv
<1>2. ShapeInv'  BY DEF SettingsInv, ShapeInv, Writing
<1>3. AwaitedInv' /\ WrittenInv'
  BY DEF SettingsInv, AwaitedInv, WrittenInv, Awaited, Writing, SavedAsClicked
<1> QED  BY <1>1, <1>2, <1>3 DEF SettingsInv

LEMMA FormSteps ==
    ASSUME SettingsInv,
           Refetch \/ GetAll \/ Filled \/ TypeGeneral \/ \E k \in Keys : Type(k)
    PROVE  SettingsInv'
<1>n. NoValues \notin Forms  BY FormsAreFilled
<1>t. SettingsTypeInv /\ ShapeInv  BY DEF SettingsInv
<1>1. CASE Refetch
  <2>1. /\ settings' = [settings EXCEPT !.stage = "asked", !.next = NoValues]
        /\ UNCHANGED <<stored, inputs, save, handler, over>>
    BY <1>1 DEF Refetch, Fetching
  <2> QED  BY <1>t, <2>1, FormStep DEF SettingsTypeInv, ShapeInv
<1>2. CASE GetAll
  <2>1. /\ \/ settings' = [settings EXCEPT !.stage = "answered", !.next = stored]
           \/ settings' = [settings EXCEPT !.stage = "idle"]
        /\ UNCHANGED <<stored, inputs, save, handler, over>>
    BY <1>2 DEF GetAll
  <2> QED  BY <1>t, <2>1, FormStep DEF SettingsTypeInv, ShapeInv
<1>3. CASE Filled
  <2>1. /\ settings' = [data |-> settings.next, stage |-> "idle", next |-> NoValues]
        /\ inputs' = IF settings.next = settings.data THEN inputs ELSE settings.next
        /\ settings.stage = "answered" /\ UNCHANGED <<stored, save, handler, over>>
    BY <1>3 DEF Filled
  <2> QED  BY <1>t, <2>1, FormStep DEF SettingsTypeInv, ShapeInv
<1>4. CASE TypeGeneral
  <2>1. UNCHANGED <<stored, settings, inputs, save, handler, over>>  BY <1>4 DEF TypeGeneral
  <2> QED  BY <1>t, <2>1, FormStep DEF SettingsTypeInv, ShapeInv
<1>5. ASSUME NEW k \in Keys, Type(k) PROVE SettingsInv'
  <2>1. inputs \in Forms  BY <1>5, <1>t, <1>n DEF Type, Loaded, SettingsTypeInv, ShapeInv
  <2>2. inputs' \in Forms  BY <1>5, <2>1 DEF Type, Forms
  <2>3. UNCHANGED <<stored, settings, save, handler, over>>  BY <1>5 DEF Type
  <2> QED  BY <1>t, <2>1, <2>2, <2>3, FormStep DEF SettingsTypeInv, ShapeInv
<1> QED  BY <1>1, <1>2, <1>3, <1>4, <1>5

LEMMA SaveStep ==
    ASSUME SettingsInv, NEW i \in SaveIds, Save(i)
    PROVE  SettingsInv'
<1>n. NoValues \notin Forms  BY FormsAreFilled
<1>t. SettingsTypeInv /\ ShapeInv /\ AwaitedInv /\ WrittenInv  BY DEF SettingsInv
<1> DEFINE new == [of |-> inputs, done |-> 0]
<1>1. /\ save' = [stage |-> "sent", of |-> inputs, id |-> i]
      /\ handler' = [handler EXCEPT ![i] = new]
      /\ over' = {} /\ UNCHANGED <<stored, settings, inputs>>
  BY DEF Save
<1>2. inputs \in Forms  BY <1>t, <1>n DEF Save, Loaded, SettingsTypeInv, ShapeInv
<1>3. /\ new \in [of : Forms \cup {NoValues}, done : 0 .. KeyCount - 1]
      /\ new.of = inputs /\ new.done = 0 /\ new # NoHandler
  BY <1>2, <1>n, SomeHandler DEF NoHandler
<1> HIDE DEF new
<1>4. \A j \in SaveIds : handler'[j] = IF j = i THEN new ELSE handler[j]
  BY <1>1, <1>t DEF SettingsTypeInv
<1>5. SettingsTypeInv'  BY <1>1, <1>2, <1>3, <1>t DEF SettingsTypeInv
<1>6. ShapeInv'  BY <1>1, <1>2, <1>3, <1>4, <1>t DEF ShapeInv, Writing
<1>7. AwaitedInv'  BY <1>1, <1>3, <1>4 DEF AwaitedInv, Awaited, Writing
<1>8. WrittenInv'
  <2>1. \A j \in SaveIds : Awaited(j)' => j = i  BY <1>1 DEF Awaited
  <2>2. \A k \in Keys : ~(k <= handler'[i].done)  BY <1>3, <1>4 DEF Keys
  <2> QED  BY <1>1, <2>1, <2>2 DEF WrittenInv, SavedAsClicked
<1> QED  BY <1>5, <1>6, <1>7, <1>8 DEF SettingsInv

\* A handler commits the next key, and the last one ends it.
LEMMA SetKeyStep ==
    ASSUME SettingsInv, NEW i \in SaveIds, SetKey(i)
    PROVE  SettingsInv'
<1> DEFINE h == handler[i]  n == NextKey(i)
<1>n. NoValues \notin Forms /\ KeyCount \in Nat  BY FormsAreFilled, SomeHandler
<1>t. SettingsTypeInv /\ ShapeInv /\ AwaitedInv /\ WrittenInv  BY DEF SettingsInv
<1>1. /\ Writing(i) /\ h.of \in Forms /\ h.done \in 0 .. KeyCount - 1
      /\ n = h.done + 1 /\ n \in Keys
  BY <1>n, <1>t DEF SetKey, SettingsTypeInv, ShapeInv, NextKey, Keys
<1>2. /\ stored' = [stored EXCEPT ![n] = h.of[n]]
      /\ over' = IF Awaited(i) THEN over \ {n} ELSE over \cup {n}
      /\ UNCHANGED <<settings, inputs>>
  BY DEF SetKey
<1>3. \/ n < KeyCount /\ handler' = [handler EXCEPT ![i].done = @ + 1] /\ save' = save
      \/ /\ ~(n < KeyCount) /\ handler' = [handler EXCEPT ![i] = NoHandler]
         /\ save' = IF Awaited(i) THEN [save EXCEPT !.stage = "ok"] ELSE save
  BY DEF SetKey, GoOn
<1> DEFINE more == [h EXCEPT !.done = n]
<1>4. h \in [of : Forms \cup {NoValues}, done : 0 .. KeyCount - 1]  BY <1>t DEF SettingsTypeInv
<1>5. /\ n < KeyCount => more \in [of : Forms \cup {NoValues}, done : 0 .. KeyCount - 1]
      /\ more.of = h.of /\ more.done = n
  BY <1>n, <1>1, <1>4
<1>6. \A j \in SaveIds : handler'[j] = IF j # i THEN handler[j]
                                      ELSE IF n < KeyCount THEN more ELSE NoHandler
  BY <1>1, <1>3, <1>t DEF SettingsTypeInv
<1>7. handler' \in [SaveIds -> [of : Forms \cup {NoValues}, done : 0 .. KeyCount - 1]]
  <2>1. DOMAIN handler' = SaveIds /\ handler' = [j \in SaveIds |-> handler'[j]]
    BY <1>3, <1>t DEF SettingsTypeInv
  <2>2. \A j \in SaveIds : handler'[j] \in [of : Forms \cup {NoValues}, done : 0 .. KeyCount - 1]
    BY <1>5, <1>6, <1>t, SomeHandler DEF SettingsTypeInv
  <2> QED  BY <2>1, <2>2
<1>8. h.of[n] \in Values /\ \A k \in Keys : stored'[k] = IF k = n THEN h.of[n] ELSE stored[k]
  BY <1>1, <1>2, <1>t DEF SettingsTypeInv, Forms
<1>9. \/ save' = save /\ (Awaited(i) => n < KeyCount)
      \/ Awaited(i) /\ ~(n < KeyCount) /\ save' = [save EXCEPT !.stage = "ok"]
  BY <1>3
<1>10. /\ save' \in [stage : {"none", "sent", "ok", "error"}, of : Forms \cup {NoValues}, id : SaveIds]
       /\ save'.of = save.of /\ save'.id = save.id
  BY <1>9, <1>t DEF SettingsTypeInv
<1>11. \A j \in SaveIds : Awaited(j)' => Awaited(j) /\ (j = i => n < KeyCount) /\ save' = save
  BY <1>9, <1>10, <1>t DEF SettingsTypeInv, Awaited
<1> HIDE DEF h, n, more
<1>12. SettingsTypeInv'  BY <1>1, <1>2, <1>7, <1>8, <1>10, <1>t DEF SettingsTypeInv, Forms
<1>13. \A j \in SaveIds : Writing(j)' => Writing(j) /\ handler'[j].of = handler[j].of
  BY <1>1, <1>5, <1>6 DEF Writing, h
<1>14. ShapeInv'
  <2>1. save'.stage # "none" => save'.of \in Forms
    BY <1>9, <1>10, <1>t DEF ShapeInv, Awaited
  <2> QED  BY <1>2, <1>13, <2>1, <1>t DEF ShapeInv
<1>15. AwaitedInv'
  <2> SUFFICES ASSUME NEW j \in SaveIds, Awaited(j)'
               PROVE  Writing(j)' /\ handler'[j].of = save'.of
    BY DEF AwaitedInv
  <2>1. Awaited(j) /\ Writing(j) /\ handler[j].of = save.of /\ (j = i => n < KeyCount)
    BY <1>11, <1>t DEF AwaitedInv
  <2>2. NoHandler.of = NoValues /\ save.of \in Forms
    BY <2>1, <1>t DEF NoHandler, ShapeInv, Awaited
  <2>3. handler'[j].of = save.of  BY <1>5, <1>6, <2>1 DEF h
  <2> QED  BY <1>n, <1>10, <2>2, <2>3 DEF Writing
<1>16. ASSUME Awaited(i), NEW k \in Keys \ over', k <= n PROVE stored'[k] = save.of[k]
  <2>1. CASE k = n  BY <1>8, <1>16, <2>1, <1>t DEF AwaitedInv, h
  <2>2. CASE k # n
    <3>1. k \notin over /\ k <= h.done  BY <1>1, <1>2, <1>16, <2>2 DEF Keys
    <3> QED  BY <1>8, <1>16, <2>2, <3>1, <1>t DEF WrittenInv, h
  <2> QED  BY <2>1, <2>2
<1>17. ASSUME NEW j \in SaveIds, Awaited(j)', NEW k \in Keys \ over', k <= handler'[j].done
       PROVE  stored'[k] = save'.of[k]
  <2>1. Awaited(j) /\ save' = save  BY <1>11, <1>17
  <2>2. CASE j = i  BY <1>5, <1>6, <1>11, <1>16, <1>17, <2>1, <2>2
  <2>3. CASE j # i
    <3>1. ~Awaited(i)  BY <2>1, <2>3 DEF Awaited
    <3>2. k \notin over /\ k # n /\ handler'[j] = handler[j]  BY <1>2, <1>6, <1>17, <2>3, <3>1
    <3> QED  BY <1>8, <1>17, <2>1, <3>2, <1>t DEF WrittenInv
  <2> QED  BY <2>2, <2>3
<1>18. SavedAsClicked'
  <2> SUFFICES ASSUME save'.stage = "ok", NEW k \in Keys \ over' PROVE stored'[k] = save'.of[k]
    BY DEF SavedAsClicked
  <2>1. CASE save' = save
    <3>1. ~Awaited(i)  BY <2>1 DEF Awaited
    <3>2. k \notin over /\ k # n  BY <1>2, <3>1
    <3> QED  BY <1>8, <2>1, <3>2, <1>t DEF WrittenInv, SavedAsClicked
  <2>2. CASE Awaited(i) /\ ~(n < KeyCount)
    <3>1. k <= n  BY <1>n, <1>1, <2>2 DEF Keys
    <3> QED  BY <1>10, <1>16, <2>2, <3>1
  <2> QED  BY <1>9, <2>1, <2>2
<1>19. WrittenInv'  BY <1>17, <1>18 DEF WrittenInv
<1> QED  BY <1>12, <1>14, <1>15, <1>19 DEF SettingsInv

\* A save that nobody waits for any more, or a handler that gives up.
LEMMA GiveUpStep ==
    ASSUME SettingsInv, LoseSave \/ \E i \in SaveIds : FailKey(i)
    PROVE  SettingsInv'
<1>t. SettingsTypeInv /\ ShapeInv /\ AwaitedInv /\ WrittenInv  BY DEF SettingsInv
<1>1. CASE LoseSave
  <2>1. /\ save' = [save EXCEPT !.stage = "error"] /\ save.stage \in {"sent", "ok"}
        /\ UNCHANGED <<stored, settings, inputs, handler, over>>
    BY <1>1 DEF LoseSave
  <2>2. save'.stage = "error" /\ save'.of = save.of  BY <2>1, <1>t DEF SettingsTypeInv
  <2>3. SettingsTypeInv'  BY <2>1, <1>t DEF SettingsTypeInv
  <2>4. ShapeInv'  BY <2>1, <2>2, <1>t DEF ShapeInv, Writing
  <2>5. AwaitedInv' /\ WrittenInv'
    BY <2>2 DEF AwaitedInv, WrittenInv, Awaited, SavedAsClicked
  <2> QED  BY <2>3, <2>4, <2>5 DEF SettingsInv
<1>2. ASSUME NEW i \in SaveIds, FailKey(i) PROVE SettingsInv'
  <2>1. /\ handler' = [handler EXCEPT ![i] = NoHandler]
        /\ save' = IF Awaited(i) THEN [save EXCEPT !.stage = "error"] ELSE save
        /\ UNCHANGED <<stored, settings, inputs, over>>
    BY <1>2 DEF FailKey
  <2>2. \A j \in SaveIds : handler'[j] = IF j = i THEN NoHandler ELSE handler[j]
    BY <2>1, <1>t DEF SettingsTypeInv
  <2>3. /\ save'.of = save.of /\ save'.id = save.id
        /\ save' \in [stage : {"none", "sent", "ok", "error"}, of : Forms \cup {NoValues}, id : SaveIds]
        /\ save'.stage = save.stage \/ (Awaited(i) /\ save'.stage = "error")
    BY <2>1, <1>t DEF SettingsTypeInv
  <2>4. \A j \in SaveIds : Awaited(j)' => Awaited(j) /\ j # i  BY <2>1, <2>3 DEF Awaited
  <2>5. handler' \in [SaveIds -> [of : Forms \cup {NoValues}, done : 0 .. KeyCount - 1]]
    BY <2>1, SomeHandler, <1>t DEF SettingsTypeInv
  <2>6. SettingsTypeInv'  BY <2>1, <2>3, <2>5, <1>t DEF SettingsTypeInv
  <2>7. ShapeInv'  BY <2>1, <2>2, <2>3, <1>t DEF ShapeInv, Writing, Awaited
  <2>8. AwaitedInv'  BY <2>2, <2>3, <2>4, <1>t DEF AwaitedInv, Writing
  <2>9. WrittenInv'
    BY <2>1, <2>2, <2>3, <2>4, <1>t DEF WrittenInv, SavedAsClicked
  <2> QED  BY <2>6, <2>7, <2>8, <2>9 DEF SettingsInv
<1> QED  BY <1>1, <1>2

LEMMA EndsStep ==
    ASSUME SettingsInv, SaveEnds
    PROVE  SettingsInv'
<1>t. SettingsTypeInv /\ ShapeInv  BY DEF SettingsInv
<1>1. /\ save' = NoSave /\ UNCHANGED <<stored, inputs, handler, over>>
      /\ \/ settings' = settings
         \/ settings' = [settings EXCEPT !.stage = "asked", !.next = NoValues]
  BY DEF SaveEnds, Fetching
<1>2. settings' \in [data : Forms \cup {NoValues}, stage : {"idle", "asked", "answered"},
                     next : Forms \cup {NoValues}]
  BY <1>1, <1>t DEF SettingsTypeInv
<1>3. SettingsTypeInv'  BY <1>1, <1>2, <1>t, SomeHandler DEF SettingsTypeInv
<1>4. ShapeInv'  BY <1>1, <1>t, SomeHandler DEF SettingsTypeInv, ShapeInv, Writing
<1>5. AwaitedInv' /\ WrittenInv'
  BY <1>1, SomeHandler DEF AwaitedInv, WrittenInv, Awaited, SavedAsClicked
<1> QED  BY <1>3, <1>4, <1>5 DEF SettingsInv

LEMMA OtherStep ==
    ASSUME SettingsInv, NEW k \in Keys, OtherAdmin(k)
    PROVE  SettingsInv'
<1>t. SettingsTypeInv /\ ShapeInv /\ AwaitedInv /\ WrittenInv  BY DEF SettingsInv
<1>1. PICK v \in Values : stored' = [stored EXCEPT ![k] = v]  BY DEF OtherAdmin
<1>2. over' = over \cup {k} /\ UNCHANGED <<settings, inputs, save, handler>>
  BY DEF OtherAdmin
<1>3. SettingsTypeInv'  BY <1>1, <1>2, <1>t DEF SettingsTypeInv, Forms
<1>4. ShapeInv' /\ AwaitedInv'
  BY <1>2, <1>t DEF ShapeInv, AwaitedInv, Awaited, Writing
<1>5. \A j \in Keys \ over' : j \in Keys \ over /\ stored'[j] = stored[j]
  BY <1>1, <1>2, <1>t DEF SettingsTypeInv, Forms
<1>6. WrittenInv'  BY <1>2, <1>5, <1>t DEF WrittenInv, Awaited, SavedAsClicked
<1> QED  BY <1>3, <1>4, <1>6 DEF SettingsInv

LEMMA SettingsPreserved == SettingsInv /\ [SettingsNext]_settingsVars => SettingsInv'
<1> SUFFICES ASSUME SettingsInv, [SettingsNext]_settingsVars PROVE SettingsInv'  OBVIOUS
<1>1. CASE Refetch \/ GetAll \/ Filled \/ TypeGeneral  BY <1>1, FormSteps
<1>2. CASE LoseSave  BY <1>2, GiveUpStep
<1>3. CASE SaveEnds  BY <1>3, EndsStep
<1>4. ASSUME NEW i \in SaveIds, Save(i) PROVE SettingsInv'  BY <1>4, SaveStep
<1>5. ASSUME NEW i \in SaveIds, SetKey(i) PROVE SettingsInv'  BY <1>5, SetKeyStep
<1>6. ASSUME NEW i \in SaveIds, FailKey(i) PROVE SettingsInv'  BY <1>6, GiveUpStep
<1>7. ASSUME NEW k \in Keys, Type(k) PROVE SettingsInv'  BY <1>7, FormSteps
<1>8. ASSUME NEW k \in Keys, OtherAdmin(k) PROVE SettingsInv'  BY <1>8, OtherStep
<1>9. CASE UNCHANGED settingsVars
  BY <1>9 DEF settingsVars, SettingsInv, SettingsTypeInv, ShapeInv, AwaitedInv, WrittenInv,
              Writing, Awaited, SavedAsClicked
<1> QED  BY <1>1, <1>2, <1>3, <1>4, <1>5, <1>6, <1>7, <1>8, <1>9 DEF SettingsNext

-----------------------------------------------------------------------------
(* The theorems about SettingsPage.                                        *)

\* Stored values, data on view, form and save keep their types, and the form is
\* there exactly with the data (SettingsPage, settings/page.tsx).
THEOREM SettingsTyped == SettingsSpec => []SettingsTypeOK
<1>1. SettingsInit => SettingsInv  BY SettingsInitially
<1>2. SettingsInv /\ [SettingsNext]_settingsVars => SettingsInv'  BY SettingsPreserved
<1>3. SettingsInv => SettingsTypeOK
  <2> SUFFICES ASSUME SettingsInv PROVE SettingsTypeOK  OBVIOUS
  <2>1. SettingsTypeInv /\ ShapeInv /\ NoValues \notin Forms  BY FormsAreFilled DEF SettingsInv
  <2>2. /\ stored \in Forms /\ over \subseteq Keys /\ save.id \in SaveIds
        /\ settings.data \in Forms \cup {NoValues} /\ settings.next \in Forms \cup {NoValues}
        /\ inputs \in Forms \cup {NoValues} /\ save.of \in Forms \cup {NoValues}
        /\ \A i \in SaveIds : handler[i].done \in 0 .. KeyCount - 1
    BY <2>1 DEF SettingsTypeInv
  <2> QED  BY <2>1, <2>2 DEF ShapeInv, SettingsTypeOK, Forms, Loaded
<1> QED  BY <1>1, <1>2, <1>3, PTL DEF SettingsSpec

\* For any number of keys, of other admins' writes and of handlers at work for
\* saves whose answer was lost: when a save has succeeded, every key that nobody
\* wrote after it holds the value that was on the form at the click, however the
\* form was typed or filled anew meanwhile (update_settings, repo.set).
THEOREM SavedClicked == SettingsSpec => []SavedAsClicked
<1>1. SettingsInit => SettingsInv  BY SettingsInitially
<1>2. SettingsInv /\ [SettingsNext]_settingsVars => SettingsInv'  BY SettingsPreserved
<1>3. SettingsInv => SavedAsClicked  BY DEF SettingsInv, WrittenInv
<1> QED  BY <1>1, <1>2, <1>3, PTL DEF SettingsSpec
=============================================================================
