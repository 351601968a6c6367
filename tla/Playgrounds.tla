---------------------------- MODULE Playgrounds ----------------------------
(***************************************************************************)
(* The two playgrounds, which score a payload without letting it through:  *)
(* that of the dashboard, where a run disables the button, and the public  *)
(* one, which Enter, the samples and a shared link start as well.          *)
(***************************************************************************)
EXTENDS Integers, FiniteSets

CONSTANTS
    Texts,      \* what may be typed
    PlusTexts,  \* those of them whose link has a + in its base64
    RunIds,     \* bound: runs in flight together
    MaxPlays    \* bound: runs started and links opened

ASSUME PlayAssumption == PlusTexts \subseteq Texts

VARIABLES
    site,       \* which of the two is on view
    fields,     \* what its inputs hold
    loading, result,
    run,        \* runs in flight: the payload of each
    last,       \* the payload of the last run started on this page
    link,       \* the link copied last
    opened,     \* the link this page was opened with
    plays

playVars == <<site, fields, loading, result, run, last, link, opened, plays>>

-----------------------------------------------------------------------------
Blank == "blank"
\* query stands for the sources the server takes.  own: the dashboard has a second
\* input, for a body of its own.
Payload == [input : Texts \cup {Blank}, source : {"query", "uri"}, own : BOOLEAN]
NoPayload == [input |-> Blank, source |-> "none", own |-> FALSE]
Empty == [input |-> Blank, source |-> "query", own |-> FALSE]

Links == [form : {"utf8", "percent"}, of : Payload]
NoLink == [form |-> "none", of |-> NoPayload]

ParsedWithBody(l) ==
    IF l.form = "percent" \/ l.of.input \in PlusTexts THEN NoPayload ELSE l.of
\* What parseShareUrl makes of a link: the + of an unescaped query is a space,
\* and base64 of a percent-encoded text decodes to no JSON.  The body of its own
\* is parsed, and run leaves it out.
Parsed(l) ==
    IF l.form = "percent" \/ l.of.input \in PlusTexts THEN NoPayload
    ELSE [l.of EXCEPT !.own = FALSE]

\* "uri" is offered by both pages and refused by the schema, as a rate limit or
\* a lost connection may refuse any.
Accepted(p) == {"error"} \cup {"ok" : x \in {p.source} \ {"uri"}}

Idle(r) == run[r] = NoPayload
Started(p, r) ==
    /\ p.input # Blank /\ Idle(r) /\ \A s \in RunIds : s < r => ~Idle(s)
    /\ plays < MaxPlays /\ plays' = plays + 1
    /\ loading' = TRUE
    /\ run' = [run EXCEPT ![r] = p]
    /\ last' = p

-----------------------------------------------------------------------------
\* Typing, the source, and the presets of the dashboard, which fill all inputs.
Edit ==
    /\ \E p \in Payload : (site = "public" => ~p.own) /\ fields' = p
    /\ UNCHANGED <<site, loading, result, run, last, link, opened, plays>>

KeepResult == result
\* What a run of the dashboard leaves of the result on view.
Cleared == NoPayload

DashboardRun(r) ==
    /\ site = "dashboard" /\ ~loading
    /\ Started(fields, r)
    /\ result' = Cleared
    /\ UNCHANGED <<site, fields, link, opened>>

\* Only the button waits for the run before.
PublicRun(r) ==
    /\ site = "public"
    /\ Started(fields, r)
    /\ UNCHANGED <<site, fields, result, link, opened>>

Sample(r) ==
    /\ site = "public"
    /\ \E t \in Texts : fields' = [fields EXCEPT !.input = t] /\ Started(fields', r)
    /\ UNCHANGED <<site, result, link, opened>>

\* What the panel of results shows once run r was answered: the input of its answer
\* with the verdict on it, or what it showed before.
Verdict(r, answer) == IF answer = "ok" THEN run[r] ELSE result

\* The first run to end says that none is under way, whichever it is.
EndRun(r) ==
    /\ ~Idle(r)
    /\ \E answer \in Accepted(run[r]) : result' = Verdict(r, answer)
    /\ loading' = FALSE
    /\ run' = [run EXCEPT ![r] = NoPayload]
    /\ UNCHANGED <<site, fields, last, link, opened, plays>>

\* The button wants an input: on the public page white space will do, which is
\* blank here.
Share ==
    /\ site = "dashboard" => fields.input # Blank
    /\ link' = [form |-> IF site = "dashboard" THEN "utf8" ELSE "percent", of |-> fields]
    /\ UNCHANGED <<site, fields, loading, result, run, last, opened, plays>>

\* Whoever gets the link: his page is the one that is followed from here on.
OpenLink(r) ==
    /\ link # NoLink /\ opened = NoLink
    /\ site' = "public" /\ opened' = link
    /\ result' = NoPayload /\ link' = NoLink
    /\ LET shared == Parsed(link)  none == [s \in RunIds |-> NoPayload] IN
       IF shared = NoPayload
       THEN fields' = Empty /\ loading' = FALSE /\ run' = none /\ last' = NoPayload
       ELSE fields' = shared /\ loading' = TRUE /\ run' = [none EXCEPT ![r] = shared]
            /\ last' = shared
    /\ UNCHANGED plays

PlayInit ==
    /\ site \in {"dashboard", "public"}
    /\ fields = Empty
    /\ loading = FALSE /\ result = NoPayload
    /\ run = [r \in RunIds |-> NoPayload] /\ last = NoPayload
    /\ link = NoLink /\ opened = NoLink
    /\ plays = 0

PlayNext ==
    \/ Edit \/ Share
    \/ \E r \in RunIds : DashboardRun(r) \/ PublicRun(r) \/ Sample(r) \/ EndRun(r) \/ OpenLink(r)

PlaySpec == PlayInit /\ [][PlayNext]_playVars

-----------------------------------------------------------------------------
(* Properties.                                                             *)

\* Every variable has its type, and the public page sends no body.
PlayTypeOK ==
    /\ site \in {"dashboard", "public"} /\ fields \in Payload /\ loading \in BOOLEAN
    /\ {result, last} \subseteq Payload \cup {NoPayload}
    /\ run \in [RunIds -> Payload \cup {NoPayload}]
    /\ site = "public" => ~fields.own /\ \A r \in RunIds : ~run[r].own
    /\ {link, opened} \subseteq Links \cup {NoLink}

\* The dashboard never shows the verdict of one payload for another: what it
\* shows is the answer to the last run, and nothing while that is under way or
\* when it failed (run, dashboard/playground/page.tsx).
ResultOfLastRun ==
    site = "dashboard" => /\ result # NoPayload => result = last /\ ~loading
                          /\ loading = \E r \in RunIds : ~Idle(r)

=============================================================================
